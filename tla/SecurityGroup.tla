----------------------------- MODULE SecurityGroup -----------------------------
(***************************************************************************)
(* The network security group the services of the cluster share            *)
(* (reconcileSecurityGroup, loadbalancer/accesscontrol.go,                 *)
(* securitygroup/).  Its rules are found by a name made from protocol,     *)
(* sources and ports, and list the addresses of all services they are for. *)
(*                                                                         *)
(* One IP family; a service has one address, given by its load balancer    *)
(* (module Frontends), and ports of one protocol.  A reconciliation is one *)
(* step, since it writes once, at its end, and an outdated read is refused *)
(* by its etag; the status of a service is published after the operation   *)
(* has returned, and others are reconciled in between.                     *)
(***************************************************************************)
EXTENDS IpRanges

CONSTANTS
    SgService, SgAddress, SgNil,
    SgPlans,                      \* the scenarios
    FirstPriority, LastPriority,  \* 500 and 4096 in the code
    MaxRules,                     \* 1000 in the code
    MaxSgEdits

Protocols == {"Tcp", "Udp", "*"}

\* The sources of a rule: one tag, or ranges.
Sources == [tag : {"Internet", "tag", "*", "none"}, ranges : SUBSET Ranges]
Tag(t) == [tag |-> t, ranges |-> {}]

\* What the user asks for: ranges in the spec and in the annotations, some
\* range that is not valid, a service tag, no other traffic of the network.
Access == [spec : SUBSET Ranges, noted : SUBSET Ranges, invalid : BOOLEAN,
           tags : SUBSET {"tag"}, internal : BOOLEAN, deny : BOOLEAN,
           address : SgAddress]

RuleName == [by : {"cluster", "user"}, access : {"Allow", "Deny"},
             protocol : Protocols, sources : Sources, ports : SUBSET Nat]

\* A rule without ports is for all of them ("*").
SgRule == [name : RuleName, dst : SUBSET SgAddress, priority : Nat]

SgPlan == [asks : [SgService -> SUBSET Access],
           protocol : [SgService -> Protocols], ports : [SgService -> (SUBSET Nat) \ {{}}],
           foreign : SUBSET SgRule, faults : Nat]

\* There are more priorities than a group has rules, and than the rules that one
\* reconciliation adds ("right now it won't happen because the number of rules is
\* limited").  The group of a plan is one that Azure accepts.
ASSUME PriorityAssumption ==
    /\ FirstPriority \in Nat /\ LastPriority \in Nat /\ MaxRules \in Nat /\ MaxSgEdits \in Nat
    /\ 2 * MaxRules <= LastPriority - FirstPriority
ASSUME SgPlansAssumption ==
    /\ SgPlans \subseteq SgPlan
    /\ \A x \in SgPlans :
          /\ \A r \in x.foreign : r.name.by = "user" /\ r.dst # {}
          /\ \A p, q \in x.foreign : p.priority = q.priority => p = q
          /\ IsFiniteSet(x.foreign) /\ Cardinality(x.foreign) <= MaxRules
ASSUME SgNilAssumption == SgNil \notin SgAddress \cup Access

VARIABLES
    splan,
    sstate, ask, sdirty,   \* services and their controller
    addr,                  \* the address of each service on its load balancer
    listed, owed,          \* addresses in the listed status; status to publish
    nsg, nsgCache,         \* Azure: the rules; the provider's copy or SgNil
    nsgCurrent,               \* whether the copy has the latest etag
    sedits, sfaults

svars == <<splan, sstate, ask, sdirty, addr, listed, owed, nsg, nsgCache,
           nsgCurrent, sedits, sfaults>>

STypeOK ==
    /\ splan \in SgPlans
    /\ sstate \in [SgService -> {"none", "wanted", "deleting", "gone"}]
    /\ \A s \in SgService : ask[s] = SgNil \/ ask[s] \in splan.asks[s]
    /\ sdirty \subseteq SgService /\ owed \subseteq SgService
    /\ addr \in [SgService -> SgAddress \cup {SgNil}]
    /\ listed \in [SgService -> SgAddress \cup {SgNil}]
    /\ \A rules \in {nsg, nsgCache} \ {SgNil} : \A r \in rules :
          /\ r.name.protocol \in Protocols /\ r.name.sources \in Sources
          /\ r.dst \subseteq SgAddress /\ r.dst # {}
    /\ nsgCurrent \in BOOLEAN
    /\ sedits \in 0..MaxSgEdits /\ sfaults \in 0..splan.faults

SInit ==
    /\ splan \in SgPlans
    /\ sstate = [s \in SgService |-> "none"]
    /\ ask = [s \in SgService |-> SgNil]
    /\ sdirty = {} /\ owed = {}
    /\ addr = [s \in SgService |-> SgNil]
    /\ listed = [s \in SgService |-> SgNil]
    /\ nsg = splan.foreign
    /\ nsgCache = SgNil /\ nsgCurrent = FALSE
    /\ sedits = 0 /\ sfaults = 0
------------------------------------------------------------------------------
(* What a service asks for. *)

Asked(a) == a.spec \cup a.noted

\* Both ways of naming ranges at once are an error.
Forbidden(a) == a.spec # {} /\ a.noted # {}

\* Mutant: a range that is not valid is left out.
BugIsAllowFromInternet(a) ==
    /\ a.tags = {}
    /\ Asked(a) = {} \/ IsPrefixesAllowAll(Asked(a))
    /\ ~a.internal \/ Asked(a) # {}

IsAllowFromInternet(a) ==
    /\ a.tags = {}
    /\ Asked(a) = {} \/ IsPrefixesAllowAll(Asked(a))
    /\ ~a.invalid
    /\ ~a.internal \/ Asked(a) # {}

DenyAllExceptSourceRanges(a) == (a.deny /\ Asked(a) # {}) \/ a.invalid

\* The sources of the rules to add.
AllowedSources(a) ==
    {Tag(t) : t \in a.tags \cup IF IsAllowFromInternet(a) THEN {"Internet"} ELSE {}}
    \cup IF Asked(a) = {} THEN {}
         ELSE {[tag |-> "none", ranges |-> Elements(AggregatePrefixes(Asked(a)))]}
------------------------------------------------------------------------------
(* RuleHelper: rules without destination stay until the group is built. *)

Free(rules) == (FirstPriority .. LastPriority - 1) \ {r.priority : r \in rules}

\* The priorities that rules of these names may get, made one after the other
\* in any order: allow rules from the lowest on, deny rules from the highest.
nextRulePriority(names, free) ==
    {p \in [names -> free] :
        /\ \A m, n \in DOMAIN p : p[m] = p[n] => m = n
        /\ \A n \in DOMAIN p, q \in free :
              (IF n.access = "Allow" THEN q < p[n] ELSE q > p[n]) =>
                  \E m \in DOMAIN p : m.access = n.access /\ p[m] = q}

AllowName(protocol, sources, ports) ==
    [by |-> "cluster", access |-> "Allow", protocol |-> protocol, sources |-> sources, ports |-> ports]

DenyName == [by |-> "cluster", access |-> "Deny", protocol |-> "*", sources |-> Tag("*"), ports |-> {}]

NewNames(rules, names) == {n \in names : \A r \in rules : r.name # n}

\* A rule that has one of the names gets the address too, the others are made.
getOrCreateRule(rules, names, dst, p) ==
    {IF r.name \in names THEN [r EXCEPT !.dst = r.dst \cup dst] ELSE r : r \in rules}
    \cup {[name |-> n, dst |-> dst, priority |-> p[n]] : n \in DOMAIN p}

\* The rules a clean-up looks at.
InReach(r) == FirstPriority <= r.priority /\ r.priority <= LastPriority

KeepsAll(r, retain) == r.name.ports \subseteq retain

\* Mutant: the deny rule is treated as the others.
BugLoses(r, dst, retain) ==
    r.name.ports # {} /\ r.dst \cap dst # {} /\ ~KeepsAll(r, retain)

\* The destination leaves the deny rule unless ports of its protocol are
\* retained, and an allow rule unless all its ports are.
Loses(r, dst, retain) ==
    IF r.name.access = "Deny" /\ retain = {} THEN TRUE
    ELSE r.name.ports # {} /\ r.dst \cap dst # {} /\ ~KeepsAll(r, retain)

\* An allow rule that loses the address has a rule for the retained ports.
Split(r, retain) == AllowName(r.name.protocol, r.name.sources, r.name.ports \cap retain)
------------------------------------------------------------------------------
(* reconcileSecurityGroup *)

\* Mutant: only services with the same access configuration count.
BugListShared(s, dst, protocol) ==
    UNION {splan.ports[t] : t \in {u \in SgService \ {s} :
              ask[u] = ask[s] /\ listed[u] \in dst /\ splan.protocol[u] = protocol}}

\* The ports of the other services that are listed with the address.
listSharedIPPortMapping(s, dst, protocol) ==
    UNION {splan.ports[t] : t \in {u \in SgService \ {s} :
              ask[u] # SgNil /\ listed[u] \in dst /\ splan.protocol[u] = protocol}}

\* The rules without the addresses they lose; they stay until the group is built.
Cleaned(rules, losing, dst) ==
    {IF r \in losing THEN [r EXCEPT !.dst = r.dst \ dst] ELSE r : r \in rules}

\* The rules for the retained ports.  That no priority is left for one is logged,
\* and the rest goes on.
SplitRules(rules, names, dst) ==
    LET new == NewNames(rules, names)
        some == UNION {nextRulePriority(made, Free(rules)) : made \in SUBSET new}
    IN  {getOrCreateRule(rules, names, dst, p) :
            p \in {q \in some : DOMAIN q = new \/ Free(rules) = {q[n] : n \in DOMAIN q}}}

\* One protocol after the other, which is a rule after the other, in the order of
\* a Go map.
CleanSecurityGroup(rules, s, dst) ==
    LET retain == [p \in Protocols |-> listSharedIPPortMapping(s, dst, p)]
        losing == {r \in rules : InReach(r) /\ Loses(r, dst, retain[r.name.protocol])}
        kept(r) == r.name.ports \cap retain[r.name.protocol]
        splits == {Split(r, retain[r.name.protocol]) : r \in {q \in losing : kept(q) # {}}}
    IN  UNION {SplitRules(left, names, dst) :
                  left \in {Cleaned(rules, losing, dst)}, names \in {splits}}

\* The names of the rules that a service needs.
Wanted(s) ==
    {AllowName(splan.protocol[s], src, splan.ports[s]) : src \in AllowedSources(ask[s])}
    \cup IF DenyAllExceptSourceRanges(ask[s]) THEN {DenyName} ELSE {}

\* No result when no priority is left.
PatchSecurityGroup(rules, names, dst) ==
    {getOrCreateRule(rules, names, dst, p) :
        p \in nextRulePriority(NewNames(rules, names), Free(rules))}

GetSecurityGroup == IF nsgCache = SgNil THEN nsg ELSE nsgCache

\* The group that is sent, without the rules that lost all destinations;
\* SgNil for an error.
BuiltGroup(s, all) ==
    IF Forbidden(ask[s]) \/ all = SgNil THEN SgNil
    ELSE LET rules == {r \in all : r.dst # {}}
         IN  IF Cardinality(rules) > MaxRules THEN SgNil ELSE rules

SgOutcome ==
    IF nsgCache # SgNil /\ ~nsgCurrent THEN {"outdated"}
    ELSE {"done"} \cup IF sfaults < splan.faults THEN {"lost", "unknown", "canceled"} ELSE {}

\* The answers after which the copy is dropped.
Invalidates(r) == r \in {"done", "outdated", "canceled"}

SgFailure(r) == sfaults' = IF r \in {"done", "outdated", "same"} THEN sfaults ELSE sfaults + 1

\* An update is sent when something changed; then follows a success.
reconcileSecurityGroup(s, dst, want, then) ==
    \E clean \in CleanSecurityGroup(GetSecurityGroup, s, dst) :
    \E names \in {Wanted(s)} :
    \E patched \in {IF want THEN PatchSecurityGroup(clean, names, dst) ELSE {clean}} :
    \E all \in patched \cup IF patched = {} THEN {SgNil} ELSE {} :
    \E rules \in {BuiltGroup(s, all)} :
    LET outcomes == IF rules = SgNil THEN {"error"}
                    ELSE IF rules = GetSecurityGroup THEN {"same"} ELSE SgOutcome
    IN  \E r \in outcomes :
          /\ nsg' = IF r \in {"done", "unknown"} THEN rules ELSE nsg
          /\ nsgCache' = IF Invalidates(r) THEN SgNil ELSE GetSecurityGroup
          /\ nsgCurrent' = (r # "unknown" /\ ~Invalidates(r) /\ (nsgCache = SgNil \/ nsgCurrent))
          /\ IF r = "error" THEN UNCHANGED sfaults ELSE SgFailure(r)
          /\ IF r \in {"done", "same"} THEN then
             ELSE UNCHANGED <<sstate, sdirty, owed, listed>>

\* The load balancer has been reconciled before; on success the service is
\* clean and its status is to be published.
Ensure(s) ==
    /\ s \in sdirty \ owed /\ sstate[s] = "wanted"
    /\ addr' = [addr EXCEPT ![s] = ask[s].address]
    /\ reconcileSecurityGroup(s, {ask[s].address}, TRUE,
           /\ sdirty' = sdirty \ {s} /\ owed' = owed \cup {s}
           /\ UNCHANGED <<sstate, listed>>)
    /\ UNCHANGED <<splan, ask, sedits>>

\* The rules go before the frontend that knows the address; a service
\* without one is let go.
Delete(s) ==
    /\ s \in sdirty \ owed /\ sstate[s] = "deleting"
    /\ LET gone == /\ sstate' = [sstate EXCEPT ![s] = "gone"]
                   /\ listed' = [listed EXCEPT ![s] = SgNil]
                   /\ sdirty' = sdirty \ {s}
                   /\ UNCHANGED owed
       IN  IF addr[s] = SgNil
           THEN gone /\ UNCHANGED <<addr, nsg, nsgCache, nsgCurrent, sfaults>>
           ELSE /\ reconcileSecurityGroup(s, {addr[s]}, FALSE, gone)
                /\ addr' = IF sstate'[s] = "gone" THEN [addr EXCEPT ![s] = SgNil] ELSE addr
    /\ UNCHANGED <<splan, ask, sedits>>

Publish(s) ==
    /\ s \in owed
    /\ owed' = owed \ {s}
    /\ listed' = [listed EXCEPT ![s] = addr[s]]
    /\ UNCHANGED <<splan, sstate, ask, sdirty, addr, nsg, nsgCache, nsgCurrent, sedits, sfaults>>
------------------------------------------------------------------------------
(* Users, other writers of the group, time. *)

Ask(s) ==
    /\ sstate[s] \in {"none", "wanted"} /\ sedits < MaxSgEdits
    /\ \E a \in splan.asks[s] \ {ask[s]} : ask' = [ask EXCEPT ![s] = a]
    /\ sstate' = [sstate EXCEPT ![s] = "wanted"]
    /\ sdirty' = sdirty \cup {s}
    /\ sedits' = sedits + 1
    /\ UNCHANGED <<splan, addr, listed, owed, nsg, nsgCache, nsgCurrent, sfaults>>

GiveUp(s) ==
    /\ sstate[s] = "wanted"
    /\ sstate' = [sstate EXCEPT ![s] = "deleting"]
    /\ sdirty' = sdirty \cup {s}
    /\ UNCHANGED <<splan, ask, addr, listed, owed, nsg, nsgCache, nsgCurrent, sedits, sfaults>>

TouchGroup ==
    /\ nsgCurrent /\ sfaults < splan.faults
    /\ nsgCurrent' = FALSE /\ sfaults' = sfaults + 1
    /\ UNCHANGED <<splan, sstate, ask, sdirty, addr, listed, owed, nsg, nsgCache, sedits>>

ExpireGroup ==
    /\ nsgCache # SgNil
    /\ nsgCache' = SgNil /\ nsgCurrent' = FALSE
    /\ UNCHANGED <<splan, sstate, ask, sdirty, addr, listed, owed, nsg, sedits, sfaults>>

SWork == \E s \in SgService : Ensure(s) \/ Delete(s) \/ Publish(s)

SNext ==
    \/ SWork
    \/ \E s \in SgService : Ask(s) \/ GiveUp(s)
    \/ TouchGroup \/ ExpireGroup

SSpec == SInit /\ [][SNext]_svars
------------------------------------------------------------------------------
\* The clients that may reach a port: addresses, and those behind a tag.
Clients(sources) ==
    IF sources.tag = "Internet" THEN Addr ELSE Cover(sources.ranges)

Reach(rules, s, a) ==
    UNION {Clients(r.name.sources) :
              r \in {q \in rules : /\ q.name.by = "cluster" /\ q.name.access = "Allow"
                                   /\ q.name.protocol = splan.protocol[s]
                                   /\ q.name.ports \cap splan.ports[s] # {} /\ a \in q.dst}}

Blocked(rules, a) == \E r \in rules : r.name = DenyName /\ a \in r.dst

\* Who shall reach the service, said without the rules: nobody outside the
\* ranges and tags it lists, everybody if it lists none and is public.
ShallReach(a) ==
    IF Asked(a) # {} \/ a.invalid \/ a.tags # {} THEN Cover(Asked(a))
    ELSE IF a.internal THEN {} ELSE Addr

\* When a service has been ensured, the group lets exactly the clients it
\* asks for through to its address, whatever rules its earlier wishes, the
\* services it shares the address with and the users left; and traffic of
\* the network is denied if it asks for that.  (An update that took effect
\* and reported an error leaves an outdated copy, which hides what it did.)
ExposedAsAsked ==
    [][\A s \in SgService : (s \in sdirty /\ s \in owed' \ owed /\ (nsgCache = SgNil \/ nsgCurrent)) =>
         /\ Reach(nsg', s, ask[s].address) = ShallReach(ask[s])
         /\ DenyAllExceptSourceRanges(ask[s]) => Blocked(nsg', ask[s].address)]_svars

\* The rules of a service whose status is listed survive what is done for
\* the others, with the same address or another one.
OthersKeepRules ==
    [][\A s \in SgService :
         (listed[s] # SgNil /\ listed[s] = addr[s] /\ s \notin sdirty) =>
             Reach(nsg', s, addr[s]) = Reach(nsg, s, addr[s])]_svars

\* Azure demands distinct priorities, and rules outside the range of the
\* cluster are left as they are.
RulesApart ==
    /\ \A p, q \in nsg : p # q => p.priority # q.priority
    /\ {r \in splan.foreign : r.priority < FirstPriority} \subseteq nsg

\* When all services are gone no rule of the cluster is left ("removing
\* stale rules"), unless an update failed.
NoStaleRules ==
    (sfaults = 0 /\ \A s \in SgService : sstate[s] \in {"none", "gone"}) =>
        \A r \in nsg : r.name.by = "user"

\* The queue of the controller empties: a refused or failed update does not
\* leave a copy behind that every retry fails with.
SgSettles == []<>(sdirty = {})

\* "When deleting LB, we don't need to validate the annotation": a deleted
\* service is let go.
SgDeletedIsLetGo == \A s \in SgService : sstate[s] = "deleting" ~> sstate[s] = "gone"

\* Azure accepts the group, the rules of users outside the range of the
\* cluster are in it, and nothing is left of services that are gone.
GroupSound == STypeOK /\ RulesApart /\ NoStaleRules
==============================================================================
