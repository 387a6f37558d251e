------------------------------ MODULE Frontends ------------------------------
(***************************************************************************)
(* Frontends, rules and public IPs of the services on one standard load    *)
(* balancer (azure_loadbalancer.go, azure_publicip_repo.go).               *)
(*                                                                         *)
(* A frontend and the public IP the provider creates carry the name of the *)
(* service they were made for; both are shared by the services that ask    *)
(* for that public IP, and the tag of a public IP lists the services bound *)
(* to it.  A public IP without services in its tag was created by a user.  *)
(* Services name a managed public IP by annotation and a user's by its     *)
(* address (its address is identified with its name: it is never made      *)
(* again).  A service has one port, one IP family and one frontend.        *)
(*                                                                         *)
(* serviceReconcileLock serializes the operations; a step is the code      *)
(* between two writes to Azure.  Users interleave, a write may fail before *)
(* or after it has been carried out, and the cache of public IPs expires.  *)
(***************************************************************************)
EXTENDS Naturals, FiniteSets

CONSTANTS
    FService, UserPip,
    IpTag,        \* the tags that a service may ask for on its public IP
    FNil,
    FPlans,       \* the scenarios: records of type FPlan
    MaxFEdits     \* bound on the changes users make

Pip == FService \cup UserPip

Wish == [internal : BOOLEAN, ref : Pip \cup {FNil}, iptags : IpTag \cup {FNil}]

\* What users do in a scenario: the wishes each service may have, those with
\* a DNS label, the frontends that outbound or NAT rules use, whether all
\* services have the same port, whether a service that waits for its
\* reconciliation may be edited; and how many writes may fail.
FPlan == [wishes : [FService -> SUBSET Wish], dns : SUBSET FService,
          pinned : SUBSET FService, samePort : BOOLEAN, hasty : BOOLEAN,
          faults : Nat]

Tagged == [tags : SUBSET FService, dns : FService \cup {FNil}, iptags : IpTag \cup {FNil}]

Seen == [tags : SUBSET FService, dns : FService \cup {FNil}, iptags : IpTag \cup {FNil},
         config : FService \cup {FNil}]

ASSUME FPlansAssumption == FPlans \subseteq FPlan /\ MaxFEdits \in Nat /\ IsFiniteSet(FService)
ASSUME FPipAssumption == FService \cap UserPip = {} /\ "private" \notin Pip
ASSUME FNilAssumption ==
    /\ FNil \notin Pip /\ FNil # "private"
    /\ FNil \notin Tagged /\ FNil \notin Seen /\ FNil \notin [Pip -> Seen \cup {FNil}]

VARIABLES
    fplan,
    state, wish,   \* the services in Kubernetes
    fdirty,        \* service controller: services to reconcile
    pips,          \* Azure: public IPs, FNil for none
    pipCache,      \* the provider's list of them, FNil when it is empty
    front,         \* Azure: the public IP of each public frontend
    inner,         \* Azure: the internal frontends
    rule,          \* Azure: the frontend of each service's rule, by kind
    sync,          \* the running operation
    fedits, ffaults

fvars == <<fplan, state, wish, fdirty, pips, pipCache, front, inner, rule,
           sync, fedits, ffaults>>

Kind == {"public", "internal"}

\* A service object as the provider is handed it or has changed it.
Object == [s : FService, internal : BOOLEAN, name : FService \cup {FNil},
           ip : Pip \cup {FNil, "private"}, iptags : IpTag \cup {FNil}]

\* The running operation: where it is, for which object, whether the service
\* is wanted, the public IP it shall have, whether that is deleted to be made
\* again (deletedDesiredPublicIP) and whether it must be there already, whether
\* a parallel write failed, the writes that are left.
FPc == {"lb", "pip", "put", "flip", "list", "update", "release", "ensure"}

Sync == [pc : FPc, o : Object, want : BOOLEAN, desired : Pip \cup {FNil},
         renewed : BOOLEAN, must : BOOLEAN, failed : BOOLEAN,
         updates : SUBSET (Pip \X Tagged),
         drops : SUBSET (Pip \X (FService \cup {FNil}))]

Idle == [pc |-> "idle"]
Failed == [pc |-> "failed"]
Resting == sync \in {Idle, Failed}

FTypeOK ==
    /\ fplan \in FPlans
    /\ state \in [FService -> {"none", "wanted", "deleting", "gone"}]
    /\ wish \in [FService -> Wish]
    /\ fdirty \subseteq FService
    /\ pips \in [Pip -> Tagged \cup {FNil}]
    /\ pipCache = FNil \/ pipCache \in [Pip -> Seen \cup {FNil}]
    /\ front \in [FService -> Pip \cup {FNil}]
    /\ inner \subseteq FService
    /\ rule \in [Kind -> [FService -> FService \cup {FNil}]]
    /\ Resting \/ sync \in Sync
    /\ fedits \in 0..MaxFEdits /\ ffaults \in 0..fplan.faults

FInit ==
    /\ fplan \in FPlans
    /\ state = [s \in FService |-> "none"]
    /\ wish = [s \in FService |-> [internal |-> FALSE, ref |-> FNil, iptags |-> FNil]]
    /\ fdirty = {}
    /\ pips = [p \in Pip |-> IF p \in UserPip THEN [tags |-> {}, dns |-> FNil, iptags |-> FNil] ELSE FNil]
    /\ pipCache = FNil
    /\ front = [s \in FService |-> FNil]
    /\ inner = {}
    /\ rule = [k \in Kind |-> [s \in FService |-> FNil]]
    /\ sync = Idle
    /\ fedits = 0 /\ ffaults = 0

------------------------------------------------------------------------------
(* The public IPs as the provider sees them. *)

Exists(p) == pips[p] # FNil

\* The frontend that holds a public IP; Azure lets it have only one.
Holder(p) == IF \E f \in FService : front[f] = p
             THEN CHOOSE f \in FService : front[f] = p ELSE FNil

newPIPCache == [p \in Pip |-> IF Exists(p)
                    THEN [tags |-> pips[p].tags, dns |-> pips[p].dns, iptags |-> pips[p].iptags,
                          config |-> Holder(p)]
                    ELSE FNil]

\* The list from the cache, read from Azure when there is none.
listPIP == IF pipCache = FNil THEN newPIPCache ELSE pipCache

\* A look-up that misses refreshes the list first.
PipListFor(p) == IF listPIP[p] = FNil THEN newPIPCache ELSE listPIP

getPublicIPAddress(p) == PipListFor(p)[p]

Found(p) == getPublicIPAddress(p) # FNil

KindOf(o) == IF o.internal THEN "internal" ELSE "public"

\* The public IP an object asks for, FNil when its address is nobody's.
determinePublicIPName(o) ==
    CASE o.name # FNil -> o.name
      [] o.name = FNil /\ o.ip = FNil -> o.s
      [] OTHER -> IF o.ip \in Pip /\ Found(o.ip) THEN o.ip ELSE FNil

isServiceSelectPIP(o, p) == o.ip = p \/ o.name = p

isUserAssignedPIP(r) == r.tags = {}

serviceOwnsPublicIP(o, p, r) == o.s \in r.tags \/ isServiceSelectPIP(o, p)

------------------------------------------------------------------------------
(* The frontends of a service object. *)

Present(k) == IF k = "public" THEN {f \in FService : front[f] # FNil} ELSE inner

\* The frontend made for the service, and with an address or a public IP
\* name the one that carries it.
serviceOwnsFrontendIP(o, f) ==
    LET asked == IF o.ip # FNil THEN o.ip ELSE o.name
    IN  \/ f = o.s
        \/ ~o.internal /\ asked \in Pip /\ Found(asked) /\ front[f] = asked

Owned(o) == {f \in Present(KindOf(o)) : serviceOwnsFrontendIP(o, f)}

isFrontendIPChanged(o, f) ==
    ~o.internal /\ f = o.s /\ front[f] # determinePublicIPName(o)

Kept(o) == {f \in Owned(o) : ~isFrontendIPChanged(o, f)}

\* Mutant: the rules of other services are not looked at.
BugUnsafeToDelete(o, f) == ~o.internal /\ f \in fplan.pinned

isFrontendIPConfigUnsafeToDelete(o, f) ==
    \/ \E t \in FService \ {o.s} : rule[KindOf(o)][t] = f
    \/ ~o.internal /\ f \in fplan.pinned

\* The frontend the rule of the service goes to.
Chosen(o) == IF Kept(o) = {} THEN o.s ELSE CHOOSE f \in Kept(o) : TRUE

checkLoadBalancerResourcesConflicts(o) ==
    fplan.samePort /\ \E t \in FService \ {o.s} : rule[KindOf(o)][t] = Chosen(o)

\* existsPip and the frontends of either kind: whether the service
\* controller has anything to delete.
Flip(o) == [o EXCEPT !.internal = ~o.internal]

GetLoadBalancer(o) ==
    \/ Owned(o) # {} \/ Owned(Flip(o)) # {}
    \/ determinePublicIPName(o) # FNil /\ Found(determinePublicIPName(o))

------------------------------------------------------------------------------
(* Beginning, going on, failing and ending. *)

ObjectOf(s) ==
    [s |-> s, internal |-> wish[s].internal,
     name |-> IF wish[s].ref \in FService THEN wish[s].ref ELSE FNil,
     ip |-> IF wish[s].ref \in UserPip THEN wish[s].ref ELSE FNil,
     iptags |-> wish[s].iptags]

NewSync(s, want) ==
    [pc |-> "lb", o |-> ObjectOf(s), want |-> want, desired |-> FNil,
     renewed |-> FALSE, must |-> FALSE, failed |-> FALSE, updates |-> {}, drops |-> {}]

Users == <<state, wish>>
LbState == <<front, inner, rule>>
Goto(pc) == sync' = [sync EXCEPT !.pc = pc]

EnsureLoadBalancer(s) ==
    /\ Resting /\ s \in fdirty /\ state[s] = "wanted"
    /\ sync' = NewSync(s, TRUE)
    /\ fdirty' = fdirty \ {s}
    /\ UNCHANGED <<fplan, Users, pips, pipCache, LbState, fedits, ffaults>>

EnsureLoadBalancerDeleted(s) ==
    /\ Resting /\ s \in fdirty /\ state[s] = "deleting"
    /\ IF GetLoadBalancer(ObjectOf(s))
       THEN sync' = NewSync(s, FALSE) /\ UNCHANGED state
       ELSE state' = [state EXCEPT ![s] = "gone"] /\ UNCHANGED sync
    /\ fdirty' = fdirty \ {s}
    /\ UNCHANGED <<fplan, wish, pips, pipCache, LbState, fedits, ffaults>>

\* The operation returns an error and the controller queues the service.
Fail == sync' = Failed /\ fdirty' = fdirty \cup {sync.o.s} /\ UNCHANGED state

Finish ==
    /\ sync' = Idle
    /\ state' = IF sync.want THEN state ELSE [state EXCEPT ![sync.o.s] = "gone"]
    /\ UNCHANGED fdirty

\* How a write may end: done, refused, or done with an error returned.
Outcome == {"done"} \cup IF ffaults < fplan.faults THEN {"lost", "unknown"} ELSE {}

Count(r) == ffaults' = IF r = "done" THEN ffaults ELSE ffaults + 1
------------------------------------------------------------------------------
(* reconcileLoadBalancer *)

\* What ensurePublicIPExists leaves in Azure for public IP p.  The IP tags
\* are given to a new public IP and never changed.
Bound(o, p) ==
    LET r == getPublicIPAddress(p)
        labelled == o.s \in fplan.dns
    IN  CASE r = FNil -> [tags |-> {o.s}, dns |-> IF labelled THEN o.s ELSE FNil,
                          iptags |-> o.iptags]
          [] r # FNil /\ isUserAssignedPIP(r) ->
                  [tags |-> r.tags, dns |-> r.dns, iptags |-> r.iptags]
          [] OTHER -> [tags |-> IF serviceOwnsPublicIP(o, p, r) THEN r.tags \cup {o.s} ELSE r.tags,
                       dns |-> IF labelled THEN o.s ELSE r.dns, iptags |-> r.iptags]

\* Another service uses the DNS label of the public IP.
reconcileDNSSettingsError(o, p) ==
    /\ Found(p) /\ o.s \in fplan.dns
    /\ getPublicIPAddress(p).dns \notin {FNil, o.s}

PipChanged(o, p) ==
    LET r == getPublicIPAddress(p)
    IN  r = FNil \/ Bound(o, p) # [tags |-> r.tags, dns |-> r.dns, iptags |-> r.iptags]

\* One call of ensurePublicIPExists; must says that the public IP has to
\* exist already.  The object is read back at the end, which fails when the
\* cache was wrong about its existence.  then is what follows on success.
ensurePublicIPExists(o, p, must, then) ==
    IF (must /\ ~Found(p)) \/ reconcileDNSSettingsError(o, p)
    THEN /\ pipCache' = PipListFor(p)
         /\ Fail /\ UNCHANGED <<pips, ffaults>>
    ELSE IF ~PipChanged(o, p)
    THEN /\ pipCache' = PipListFor(p)
         /\ IF Exists(p) THEN then ELSE Fail
         /\ UNCHANGED <<pips, ffaults>>
    ELSE \E r \in Outcome :
         /\ pips' = IF r = "lost" THEN pips ELSE [pips EXCEPT ![p] = Bound(o, p)]
         /\ pipCache' = IF r = "done" THEN FNil ELSE PipListFor(p)
         /\ IF r = "done" THEN then ELSE Fail
         /\ Count(r)

\* reconcileFrontendIPConfigs: a new public frontend first needs its public
\* IP; a service whose address is nobody's, or whose port is taken, fails.
PlanFrontend ==
    /\ sync.pc = "lb"
    /\ LET o == sync.o
           new == Kept(o) = {} /\ ~o.internal
       IN  IF sync.want /\ ~o.internal /\ determinePublicIPName(o) = FNil
           THEN Fail
           ELSE Goto(IF sync.want /\ new THEN "pip" ELSE "put") /\ UNCHANGED <<fdirty, state>>
    /\ pipCache' = listPIP
    /\ UNCHANGED <<fplan, wish, pips, LbState, fedits, ffaults>>

EnsureFrontendIP ==
    /\ sync.pc = "pip"
    /\ LET o == sync.o
       IN  ensurePublicIPExists(o, determinePublicIPName(o), o.name # FNil,
                                Goto("put") /\ UNCHANGED <<fdirty, state>>)
    /\ UNCHANGED <<fplan, wish, LbState, fedits>>

\* The load balancer with the service on it ...
WithService(o) ==
    LET k == KindOf(o)
        dropped == Owned(o) \ Kept(o)
        f == Chosen(o)
    IN  [front |-> IF o.internal THEN front
                   ELSE [g \in FService |->
                            CASE g = f /\ Kept(o) = {} -> determinePublicIPName(o)
                              [] g \in dropped /\ ~(g = f /\ Kept(o) = {}) -> FNil
                              [] OTHER -> front[g]],
         inner |-> IF o.internal THEN inner \cup {f} ELSE inner,
         rule |-> [rule EXCEPT ![k][o.s] = f]]

\* ... and without it: its rule goes, and the frontends nobody else needs.
\* A load balancer left without frontends is deleted with its rules.
WithoutService(o) ==
    LET k == KindOf(o)
        dropped == {f \in Owned(o) : ~isFrontendIPConfigUnsafeToDelete(o, f)}
        empty == Present(k) \subseteq dropped
    IN  [front |-> IF o.internal THEN front
                   ELSE [f \in FService |-> IF f \in dropped THEN FNil ELSE front[f]],
         inner |-> IF o.internal THEN inner \ dropped ELSE inner,
         rule |-> [rule EXCEPT ![k] = [s \in FService |->
                        IF s = o.s \/ empty THEN FNil ELSE rule[k][s]]]]

\* Azure refuses a public IP on two frontends.
Refused(lb) == \E f, g \in FService : f # g /\ lb.front[f] = lb.front[g] /\ lb.front[f] # FNil

\* An update is sent only if it changes something.
CreateOrUpdateLB(lb, then) ==
    LET same == lb = [front |-> front, inner |-> inner, rule |-> rule]
    IN  \E r \in IF same THEN {"done"} ELSE IF Refused(lb) THEN {"refused"} ELSE Outcome :
            /\ IF r \in {"done", "unknown"}
               THEN front' = lb.front /\ inner' = lb.inner /\ rule' = lb.rule
               ELSE UNCHANGED LbState
            /\ IF r = "done" THEN then ELSE Fail
            /\ IF r = "refused" THEN UNCHANGED ffaults ELSE Count(r)

\* The address of the service, which its object carries from here on.
LoadBalancerIP(o, lb) ==
    IF o.internal THEN "private" ELSE lb.front[lb.rule["public"][o.s]]

ReconcileLoadBalancer ==
    /\ sync.pc = "put"
    /\ LET o == sync.o
           lb == IF sync.want THEN WithService(o) ELSE WithoutService(o)
       IN  IF sync.want /\ checkLoadBalancerResourcesConflicts(o)
           THEN Fail /\ UNCHANGED <<LbState, ffaults>>
           ELSE CreateOrUpdateLB(lb,
                   /\ sync' = [sync EXCEPT !.pc = "flip",
                                  !.o.ip = IF sync.want THEN LoadBalancerIP(o, lb) ELSE o.ip]
                   /\ UNCHANGED <<fdirty, state>>)
    /\ pipCache' = listPIP
    /\ UNCHANGED <<fplan, wish, pips, fedits>>

\* EnsureLoadBalancerDeleted ignores that Azure forbids the update, or
\* answers that there is nothing, and goes on.
IgnoreDeletionError ==
    /\ sync.pc = "put" /\ ~sync.want
    /\ WithoutService(sync.o) # [front |-> front, inner |-> inner, rule |-> rule]
    /\ ffaults < fplan.faults /\ ffaults' = ffaults + 1
    /\ Goto("flip")
    /\ pipCache' = listPIP
    /\ UNCHANGED <<fplan, Users, fdirty, pips, LbState, fedits>>

\* Mutant: the opposite load balancer is left as it is.
BugFlippedLB(o) == [front |-> front, inner |-> inner, rule |-> rule]

FlippedLB(o) == WithoutService(Flip(o))

ReconcileFlipped ==
    /\ sync.pc = "flip"
    /\ CreateOrUpdateLB(FlippedLB(sync.o), Goto("list") /\ UNCHANGED <<fdirty, state>>)
    /\ pipCache' = listPIP
    /\ UNCHANGED <<fplan, wish, pips, fedits>>
------------------------------------------------------------------------------
(* reconcilePublicIPs *)

OwnedPips(o) == {p \in Pip : listPIP[p] # FNil /\ serviceOwnsPublicIP(o, p, listPIP[p])}

\* The entry without the service, when the service goes.
Unbound(o, want, r) ==
    IF want THEN [tags |-> r.tags, dns |-> r.dns, iptags |-> r.iptags]
    ELSE [tags |-> r.tags \ {o.s}, dns |-> IF r.dns = o.s THEN FNil ELSE r.dns,
          iptags |-> r.iptags]

\* The IP tags the service asks for are not those of the public IP.
OtherIPTags(o, r) == o.iptags # FNil /\ o.iptags # r.iptags

\* Mutant: the tag is tested before the service is taken out of it.
BugShouldRelease(o, want, p, r, desired) ==
    /\ ~isUserAssignedPIP(r)
    /\ IF want THEN Cardinality(r.tags) <= 1 ELSE r.tags = {}
    /\ ~want \/ o.internal \/ p # desired \/ OtherIPTags(o, r)

shouldReleaseExistingOwnedPublicIP(o, want, p, r, desired) ==
    /\ ~isUserAssignedPIP(r)
    /\ IF want THEN Cardinality(r.tags) <= 1 ELSE Unbound(o, want, r).tags = {}
    /\ ~want \/ o.internal \/ p # desired \/ OtherIPTags(o, r)

\* getPublicIPUpdates changes the tags in the maps of the cached list, so
\* the cache shows the service unbound before any write is made.
getPublicIPUpdates ==
    /\ sync.pc = "list"
    /\ LET o == sync.o
           desired == IF sync.want /\ ~o.internal THEN determinePublicIPName(o) ELSE FNil
           managed == {p \in OwnedPips(o) : ~isUserAssignedPIP(listPIP[p])}
           drops == {p \in OwnedPips(o) :
                        shouldReleaseExistingOwnedPublicIP(o, sync.want, p, listPIP[p], desired)}
           updates == IF sync.want THEN {} ELSE managed \ drops
           missing == sync.want /\ ~o.internal /\ (desired = FNil \/ (o.name # FNil /\ listPIP[o.name] = FNil))
       IN  /\ IF missing
              THEN Fail
              ELSE /\ sync' = [sync EXCEPT !.pc = "update", !.desired = desired,
                        !.renewed = desired \in drops,
                        !.must = o.name # FNil /\ desired \notin drops,
                        !.updates = {<<p, Unbound(o, sync.want, listPIP[p])>> : p \in updates},
                        !.drops = {<<p, listPIP[p].config>> : p \in drops}]
                   /\ UNCHANGED <<fdirty, state>>
           /\ pipCache' = [p \in Pip |->
                 IF ~missing /\ p \in managed /\ ~sync.want
                 THEN LET u == Unbound(o, FALSE, listPIP[p])
                      IN  [tags |-> u.tags, dns |-> u.dns, iptags |-> u.iptags,
                           config |-> listPIP[p].config]
                 ELSE listPIP[p]]
    /\ UNCHANGED <<fplan, wish, pips, LbState, fedits, ffaults>>

\* The writes of a list run in parallel; all are made, then an error of any
\* ends the operation.
NextStage(left, failed, stage) ==
    IF left # {} \/ ~failed
    THEN /\ IF left = {} /\ stage = "end" THEN Finish
            ELSE /\ UNCHANGED <<fdirty, state>>
                 /\ sync' = [sync EXCEPT !.pc = IF left = {} THEN stage ELSE @, !.failed = failed,
                        !.updates = IF sync.pc = "update" THEN left ELSE @,
                        !.drops = IF sync.pc = "release" THEN left ELSE @]
    ELSE Fail

CreateOrUpdatePIP ==
    /\ sync.pc = "update"
    /\ IF sync.updates = {}
       THEN NextStage({}, FALSE, "release") /\ UNCHANGED <<pips, pipCache, ffaults>>
       ELSE \E u \in sync.updates, r \in Outcome :
            /\ pips' = IF r = "lost" THEN pips ELSE [pips EXCEPT ![u[1]] = u[2]]
            /\ pipCache' = IF r = "done" THEN FNil ELSE pipCache
            /\ NextStage(sync.updates \ {u}, sync.failed \/ r # "done", "release")
            /\ Count(r)
    /\ UNCHANGED <<fplan, wish, LbState, fedits>>

\* Azure keeps a public IP that a frontend still uses, which is no error.
DeletionError(r) == r # "done"

AfterReleases == IF sync.want /\ ~sync.o.internal THEN "ensure" ELSE "end"

\* The frontend a public IP is on is taken off the load balancer of the
\* operation first, with all its rules: the listed public IP says which
\* frontend, the latest whether there is one.
FrontendOf(d) ==
    IF d[2] # FNil /\ sync.want /\ ~sync.o.internal /\ Exists(d[1]) /\ Holder(d[1]) # FNil
    THEN Present("public") \cap {d[2]} ELSE {}

safeDeletePublicIP ==
    /\ sync.pc = "release"
    /\ IF sync.drops = {}
       THEN NextStage({}, FALSE, AfterReleases) /\ UNCHANGED <<pips, pipCache, LbState, ffaults>>
       ELSE \E d \in sync.drops, r \in Outcome :
            LET off == FrontendOf(d)
                attached == Holder(d[1]) # FNil /\ Holder(d[1]) \notin off
            IN  /\ front' = [f \in FService |-> IF f \in off THEN FNil ELSE front[f]]
                /\ rule' = [rule EXCEPT !["public"] = [s \in FService |->
                                IF rule["public"][s] \in off THEN FNil ELSE rule["public"][s]]]
                /\ pips' = IF r = "lost" \/ attached THEN pips ELSE [pips EXCEPT ![d[1]] = FNil]
                /\ pipCache' = IF r = "done" /\ ~attached THEN FNil
                               ELSE IF d[2] # FNil THEN newPIPCache ELSE pipCache
                /\ NextStage(sync.drops \ {d}, sync.failed \/ DeletionError(r), AfterReleases)
                /\ Count(r)
                /\ UNCHANGED inner
    /\ UNCHANGED <<fplan, wish, fedits>>

\* The update that takes the frontend off fails, and the public IP stays.
DetachFails ==
    /\ sync.pc = "release"
    /\ \E d \in sync.drops, r \in Outcome \ {"done"} :
          LET off == IF r = "lost" THEN {} ELSE FrontendOf(d)
          IN  /\ FrontendOf(d) # {}
              /\ front' = [f \in FService |-> IF f \in off THEN FNil ELSE front[f]]
              /\ rule' = [rule EXCEPT !["public"] = [s \in FService |->
                              IF rule["public"][s] \in off THEN FNil ELSE rule["public"][s]]]
              /\ NextStage(sync.drops \ {d}, TRUE, AfterReleases)
              /\ Count(r)
    /\ pipCache' = newPIPCache
    /\ UNCHANGED <<fplan, wish, pips, inner, fedits>>

ConfirmPublicIP ==
    /\ sync.pc = "ensure"
    /\ ensurePublicIPExists(sync.o, sync.desired, sync.must, Finish)
    /\ UNCHANGED <<fplan, wish, LbState, fedits>>
------------------------------------------------------------------------------
(* Users and time. *)

\* Its controller has nothing to do for the service.
Settled(s) == s \notin fdirty /\ ~(~Resting /\ sync.o.s = s)

EditService(s) ==
    /\ state[s] \in {"none", "wanted"} /\ fplan.wishes[s] # {}
    /\ fedits < MaxFEdits
    /\ fplan.hasty \/ Settled(s)
    /\ \E w \in fplan.wishes[s] :
          /\ state[s] = "none" \/ w # wish[s]
          /\ wish' = [wish EXCEPT ![s] = w]
    /\ state' = [state EXCEPT ![s] = "wanted"]
    /\ fdirty' = fdirty \cup {s}
    /\ fedits' = fedits + 1
    /\ UNCHANGED <<fplan, pips, pipCache, LbState, sync, ffaults>>

RemoveService(s) ==
    /\ state[s] = "wanted"
    /\ fplan.hasty \/ Settled(s)
    /\ state' = [state EXCEPT ![s] = "deleting"]
    /\ fdirty' = fdirty \cup {s}
    /\ UNCHANGED <<fplan, wish, pips, pipCache, LbState, sync, fedits, ffaults>>

ExpirePips ==
    /\ pipCache # FNil /\ pipCache' = FNil
    /\ UNCHANGED <<fplan, Users, fdirty, pips, LbState, sync, fedits, ffaults>>

Proceed ==
    /\ ~Resting
    /\ \/ PlanFrontend \/ EnsureFrontendIP \/ ReconcileLoadBalancer
       \/ ReconcileFlipped \/ getPublicIPUpdates \/ CreateOrUpdatePIP
       \/ safeDeletePublicIP \/ ConfirmPublicIP
       \/ IgnoreDeletionError \/ DetachFails

FNext ==
    \/ Proceed
    \/ \E s \in FService : 
          \/ EnsureLoadBalancer(s) \/ EnsureLoadBalancerDeleted(s)
          \/ EditService(s) \/ RemoveService(s)
    \/ ExpirePips

FSpec == FInit /\ [][FNext]_fvars
------------------------------------------------------------------------------
\* The public IP behind the rule of a service.
Address(s) == IF rule["public"][s] = FNil THEN FNil ELSE front[rule["public"][s]]

\* All services are gone, and with them the rules, the frontends and the
\* public IPs the provider made, except a frontend that rules of others
\* use and its public IP.
AllGone == Resting /\ \A s \in FService : state[s] \in {"none", "gone"}

NothingLeft ==
    \A s \in FService \ fplan.pinned :
        rule["public"][s] = FNil /\ front[s] = FNil /\ s \notin inner /\ ~Exists(s)

\* However the services shared their public IPs and changed, deleting them
\* all leaves nothing behind (existsPip is there to "make sure" of it) ...
NoOrphan == AllGone /\ ffaults = 0 => NothingLeft

\* ... and so it does after a failed write, since the deletion is retried.
NoOrphanAfterRetry == AllGone => NothingLeft

\* Azure knows every rule's frontend, and a service that a reconciliation
\* is not about keeps the address behind its rule: whatever the operation
\* drops, replaces or releases is not in use by others.  A public IP that is
\* made again for other IP tags takes along the services its tag does not
\* list: only ones whose own call has failed, or that were let go.
Deprived(s) == sync.renewed /\ Address(s) = sync.desired /\ (s \in fdirty \/ state[s] = "gone")

OthersKeepAddress ==
    [][\A s \in FService : ~(~Resting /\ sync.o.s = s) =>
           Address(s)' = Address(s) \/ (~Resting /\ Deprived(s))]_fvars

\* The public IPs of users are there for good, and never tagged.
UserPipsUntouched == \A p \in UserPip : Exists(p) /\ pips[p].tags = {}

\* An ensured service has its rule on one load balancer only, behind the
\* public IP it asked for, which lists it unless a user made it, or a failed
\* deletion left it unbound in the provider's list, which is taken for the
\* same.  A public IP made again for other IP tags is excepted: it has lost its
\* frontend and rules.
EnsuredIsServed ==
    [][(~Resting /\ sync' = Idle /\ sync.want /\ ~sync.renewed) =>
        \A s \in {sync.o.s} :
            /\ rule'[KindOf(sync.o)][s] # FNil
            /\ rule'[KindOf(Flip(sync.o))][s] = FNil
            /\ ~sync.o.internal =>
                  /\ Address(s)' = sync.desired
                  /\ \/ sync.desired \in UserPip
                     \/ s \in pips'[sync.desired].tags
                     \/ ffaults > 0 /\ isUserAssignedPIP(getPublicIPAddress(sync.desired))]_fvars

\* A deleted service is let go in the end.
DeletedIsLetGo == \A s \in FService : state[s] = "deleting" ~> state[s] = "gone"

\* Public IPs are accounted for: those of the provider go with the last
\* service, those of users stay as they are (reconcilePublicIPs).
PipsAccounted == FTypeOK /\ NoOrphan /\ UserPipsUntouched
==============================================================================
