----------------------------- MODULE BackendHosts -----------------------------
(***************************************************************************)
(* Which machines are in the backend pools of a load balancer of the       *)
(* standard SKU: EnsureHostsInPool and EnsureBackendPoolDeleted            *)
(* (azure_vmss.go), which hand the machines of flexible scale sets         *)
(* (azure_vmssflex.go) and of availability sets (azure_standard.go) on.    *)
(* The pools of a uniform scale set, of its machines and of a flexible     *)
(* scale set are read from caches, changed in the cached object, and the   *)
(* object is sent to Azure; those of the other machines are read from      *)
(* Azure.  The calls come from the load balancer reconciler, one at a      *)
(* time.                                                                   *)
(***************************************************************************)
EXTENDS Naturals, FiniteSets

CONSTANTS
    UHost, FHost, AHost,    \* machines of a uniform and a flexible scale set, and of availability sets
    Pool, V6Pool,           \* backend pools of the provider's load balancer, and those of IPv6
    Foreign,                \* machines in an IPv4 pool of somebody else's load balancer
    OtherAvSet,             \* machines of an availability set that is not the load balancer's
    NicMayFail,             \* machines whose network interface may be in a failed state
    MayStop,                \* machines of the uniform scale set that may be stopped, deleted or started
    MayBeLost,              \* machines whose look-up may fail
    MaxPoolFaults           \* bound on failing updates and look-ups

ASSUME BackendHostsAssumption ==
    /\ UHost \cap FHost = {} /\ UHost \cap AHost = {} /\ FHost \cap AHost = {}
    /\ V6Pool \subseteq Pool /\ "foreign" \notin Pool /\ "uncached" \notin Pool /\ Foreign \subseteq UHost \cup FHost \cup AHost
    /\ OtherAvSet \subseteq AHost /\ NicMayFail \subseteq FHost \cup AHost /\ MayStop \subseteq UHost
    /\ MayBeLost \subseteq UHost \cup FHost \cup AHost /\ MaxPoolFaults \in Nat

BHost == UHost \cup FHost \cup AHost
VmSet == {"uniform", "flex"}
Uncached == {"uncached"}
Idling == [pc |-> "idle"]

VARIABLES
    nicPools,   \* machine -> the pools its network interface is in: Azure
    setPools,   \* scale set -> the pools its model names: Azure
    nicCache,   \* machine of the uniform scale set -> the pools of its cached object, or Uncached
    inactive,   \* the machines of the uniform scale set whose cached object is not in an active state
    setCache,   \* scale set -> the pools of its cached object, or Uncached
    nicFailed,  \* the machines whose network interface is in a failed state
    task,       \* the call that runs
    outcome,    \* the call that just ended and its result
    poolFaults  \* what is left of MaxPoolFaults

bvars == <<nicPools, setPools, nicCache, inactive, setCache, nicFailed, task, outcome, poolFaults>>

BInit ==
    /\ nicPools = [h \in BHost |-> IF h \in Foreign THEN {"foreign"} ELSE {}]
    /\ setPools = [s \in VmSet |-> {}]
    /\ nicCache = [h \in UHost |-> Uncached]
    /\ inactive = {}
    /\ setCache = [s \in VmSet |-> Uncached]
    /\ nicFailed = {}
    /\ task = Idling
    /\ outcome = Idling
    /\ poolFaults = MaxPoolFaults

-----------------------------------------------------------------------------
\* An entry expires, or another reader fills it.  Machines are stopped and started, deleted and made
\* again at any time; what a reader finds when it fills the entry is kept with it.
ExpireOrFill ==
    /\ \/ \E h \in UHost : /\ nicCache' = [nicCache EXCEPT ![h] = IF @ = Uncached THEN nicPools[h] ELSE Uncached]
                           /\ \/ inactive' = inactive \ {h}
                              \/ nicCache[h] = Uncached /\ h \in MayStop /\ inactive' = inactive \cup {h}
                           /\ UNCHANGED setCache
       \/ \E s \in VmSet : /\ setCache' = [setCache EXCEPT ![s] = IF @ = Uncached THEN setPools[s] ELSE Uncached]
                           /\ UNCHANGED <<nicCache, inactive>>
    /\ outcome' = Idling
    /\ UNCHANGED <<nicPools, setPools, nicFailed, task, poolFaults>>

\* The last update of a network interface fails in Azure, or it is repaired.
NicState(h) ==
    /\ task.pc = "idle"
    /\ nicFailed' = IF h \in nicFailed THEN nicFailed \ {h} ELSE nicFailed \cup {h}
    /\ outcome' = Idling
    /\ UNCHANGED <<nicPools, setPools, nicCache, inactive, setCache, task, poolFaults>>

-----------------------------------------------------------------------------
\* isBackendPoolOnSameLB: "the same network interface couldn't be added to more than one load balancer
\* of the same type"; it is asked of the IP configuration of the family.
OnSameLB(pools, p) == p \in V6Pool \/ "foreign" \notin pools

\* What a call makes of a list of pools: an addition leaves a list that has the pool, or is on another
\* load balancer, as it is.
Target(pools) ==
    IF task.op = "delete" THEN pools \ task.pools
    ELSE IF \A p \in task.pools : OnSameLB(pools, p) THEN pools \cup task.pools ELSE pools

\* An update by Azure: done, refused, or done and answered with an error.
Results == {"done"} \cup (IF poolFaults > 0 THEN {"refused", "unsure"} ELSE {})
Charge(bad) == poolFaults' = poolFaults - bad

\* The look-ups of machines that fail without a word: which kind of machine an IP configuration of the
\* pools belongs to, and which flexible scale set a machine is of.
Unnoticed(op) == SUBSET (IF op = "add" THEN FHost \cap MayBeLost ELSE MayBeLost)

\* A call begins: EnsureHostsInPool for one pool, EnsureBackendPoolDeleted for the pools of a service.
\* left is bookkeeping: the machines the call leaves as they are and says nothing of, first those whose
\* look-up is going to fail.
Begin(op, pools) ==
    /\ task.pc = "idle"
    /\ \E lost \in Unnoticed(op), n \in 0..poolFaults :
          /\ Cardinality(lost) = n /\ Charge(n)
          /\ task' = [pc |-> IF op = "add" THEN "flex" ELSE "uniform", op |-> op, pools |-> pools, err |-> FALSE,
                      sent |-> [h \in {} |-> {}], left |-> lost]
    /\ outcome' = Idling
    /\ UNCHANGED <<nicPools, setPools, nicCache, inactive, setCache, nicFailed>>

\* An addition goes on after an error and returns it in the end; a deletion returns at once.
AfterAdding == [flex |-> "flexhosts", flexhosts |-> "avhosts", avhosts |-> "uniform", uniform |-> "hosts", hosts |-> "end"]
AfterDeleting == [uniform |-> "flex", flex |-> "hosts", hosts |-> "flexhosts", flexhosts |-> "avhosts", avhosts |-> "end"]
After(pc) == IF task.op = "add" THEN AfterAdding[pc] ELSE AfterDeleting[pc]
\* The hosts of a scale set that could not be updated itself are not tried.
Failing(pc) ==
    IF task.op = "delete" \/ pc = "uniform" THEN "end" ELSE IF pc = "flex" THEN "avhosts" ELSE After(pc)
Goto(pc) ==
    IF pc = "end" THEN task' = Idling /\ outcome' = [pc |-> IF task.err THEN "error" ELSE "ok",
                                                     op |-> task.op, pools |-> task.pools, left |-> task.left]
    ELSE task' = [task EXCEPT !.pc = pc] /\ UNCHANGED outcome
GotoError(pc) ==
    IF pc = "end" THEN task' = Idling /\ outcome' = [pc |-> "error", op |-> task.op, pools |-> task.pools, left |-> task.left]
    ELSE task' = [task EXCEPT !.pc = pc, !.err = TRUE] /\ UNCHANGED outcome

\* What the cache keeps after CreateOrUpdateVMSS: the entry of the flexible scale sets is dropped
\* whatever the result, that of a uniform one stays.
KeptSet(s, pools) == IF s = "flex" THEN Uncached ELSE pools

\* ensureVMSSInPool, ensureVMSSFlexInPool; EnsureBackendPoolDeletedFromVMSets of both: the pools are
\* changed in the cached object before it is sent.
UpdateSet(s) ==
    LET seen == IF setCache[s] = Uncached THEN setPools[s] ELSE setCache[s]
        new == Target(seen)
    IN  /\ task.pc = s
        /\ IF new = seen
           THEN /\ setCache' = [setCache EXCEPT ![s] = seen]
                /\ Goto(After(s))
                /\ UNCHANGED <<setPools, poolFaults>>
           ELSE \E r \in Results :
                /\ setPools' = [setPools EXCEPT ![s] = IF r = "refused" THEN @ ELSE new]
                /\ setCache' = [setCache EXCEPT ![s] = KeptSet(s, new)]
                /\ Charge(IF r = "done" THEN 0 ELSE 1)
                /\ IF r = "done" THEN Goto(After(s)) ELSE GotoError(Failing(s))
        /\ UNCHANGED <<nicPools, nicCache, inactive, nicFailed>>

UniformSet == UpdateSet("uniform")
FlexSet == UpdateSet("flex")

\* The machines a deletion meets, those the pools name.
Members(hosts) == {h \in hosts \ task.left : nicPools[h] \cap task.pools # {}}

\* EnsureHostInPool and ensureBackendPoolDeletedFromNode of a uniform scale set skip a machine that is
\* not found or not in an active state, and change the cached object of each other one; the ones that
\* differ are to be sent.
HostsToAdd(seen, stopped) == {h \in UHost \ stopped : Target(seen[h]) # seen[h]}
HostsToDelete(seen, stopped) == {h \in Members(UHost) \ stopped : Target(seen[h]) # seen[h]}
PrepareHosts ==
    LET fresh == {h \in UHost : nicCache[h] = Uncached}
        seen == [h \in UHost |-> IF h \in fresh THEN nicPools[h] ELSE nicCache[h]]
        due(stopped) == IF task.op = "add" THEN HostsToAdd(seen, stopped) ELSE HostsToDelete(seen, stopped)
    IN  /\ task.pc = "hosts"
        /\ \E stopped \in {(inactive \ fresh) \cup now : now \in SUBSET (fresh \cap MayStop)} :
              /\ inactive' = stopped
              /\ nicCache' = [h \in UHost |-> IF h \in due(stopped) THEN Target(seen[h]) ELSE seen[h]]
              /\ task' = [task EXCEPT !.pc = "send", !.sent = [h \in due(stopped) |-> Target(seen[h])],
                                      !.left = @ \cup stopped]
        /\ UNCHANGED <<nicPools, setPools, setCache, nicFailed, outcome, poolFaults>>

\* UpdateVMs: some of the machines may fail.
UpdateVMs ==
    /\ task.pc = "send"
    /\ \E bad \in SUBSET DOMAIN task.sent : \E r \in Results :
          /\ bad = {} <=> r = "done"
          /\ nicPools' = [h \in BHost |-> IF h \in DOMAIN task.sent /\ (h \notin bad \/ r = "unsure")
                                          THEN task.sent[h] ELSE nicPools[h]]
          /\ Charge(IF r = "done" THEN 0 ELSE 1)
          /\ task' = [task EXCEPT !.pc = "invalidate", !.err = @ \/ bad # {}]
    /\ UNCHANGED <<setPools, nicCache, inactive, setCache, nicFailed, outcome>>

\* The deferred DeleteCacheForNode of every machine that was sent.
BugDropped(hosts) == [h \in UHost |-> nicCache[h]]
Dropped(hosts) == [h \in UHost |-> IF h \in hosts THEN Uncached ELSE nicCache[h]]
DeleteCacheForNodes ==
    /\ task.pc = "invalidate"
    /\ nicCache' = Dropped(DOMAIN task.sent)
    /\ LET next == IF task.err THEN Failing("hosts") ELSE After("hosts")
       IN  IF task.err THEN GotoError(next) ELSE Goto(next)
    /\ UNCHANGED <<nicPools, setPools, inactive, setCache, nicFailed, poolFaults>>

\* The machines a call looks at.  A deletion finds them in the pools; one in an availability set whose
\* interface has failed ends the call before any is written, and those of another set are skipped.
Candidates(hosts) ==
    IF task.op = "add" THEN hosts \ (nicFailed \cup task.left)
    ELSE LET in == Members(hosts) \ OtherAvSet
         IN  IF hosts = AHost /\ in \cap nicFailed # {} THEN {} ELSE in \ nicFailed

\* The IP configurations a deletion looks at: of a flexible scale set's machine the primary one only.
HostTarget(hosts, h) ==
    IF task.op = "delete" /\ hosts = FHost THEN nicPools[h] \ (task.pools \ V6Pool) ELSE Target(nicPools[h])

\* EnsureHostInPool and EnsureBackendPoolDeleted of the other machines, whose updates run in parallel:
\* the interface is read from Azure, changed and written.
UpdateNics(pc, hosts) ==
    /\ task.pc = pc
    /\ \E bad \in SUBSET Candidates(hosts) : \E r \in Results :
          /\ bad = {} <=> r = "done"
          /\ nicPools' = [h \in BHost |-> IF h \in Candidates(hosts) /\ (h \notin bad \/ r = "unsure")
                                          THEN HostTarget(hosts, h) ELSE nicPools[h]]
          /\ Charge(IF r = "done" THEN 0 ELSE 1)
          /\ IF r = "done" THEN Goto(After(pc)) ELSE GotoError(Failing(pc))
    /\ UNCHANGED <<setPools, nicCache, inactive, setCache, nicFailed>>
FlexHosts == UpdateNics("flexhosts", FHost)
AvHosts == UpdateNics("avhosts", AHost)

BNext ==
    \/ \E p \in Pool : Begin("add", {p})
    \/ \E pools \in (SUBSET Pool) \ {{}} : Begin("delete", pools)
    \/ UniformSet \/ FlexSet
    \/ PrepareHosts \/ UpdateVMs \/ DeleteCacheForNodes
    \/ FlexHosts \/ AvHosts
    \/ ExpireOrFill
    \/ \E h \in NicMayFail : NicState(h)

BSpec == BInit /\ [][BNext]_bvars

-----------------------------------------------------------------------------
\* Type invariant of the backend pools.
BTypeOK ==
    /\ nicPools \in [BHost -> SUBSET (Pool \cup {"foreign"})] /\ setPools \in [VmSet -> SUBSET Pool]
    /\ \A h \in UHost : nicCache[h] = Uncached \/ nicCache[h] \subseteq Pool \cup {"foreign"}
    /\ inactive \subseteq MayStop /\ nicFailed \subseteq BHost /\ poolFaults \in 0..MaxPoolFaults

\* After EnsureHostsInPool returned nil every machine whose interface is usable and on no other load
\* balancer is in the pool, although earlier calls that failed have changed the cached objects already;
\* except the machines of the uniform scale set that are not active by their cached object, stale or not,
\* and those of flexible ones whose scale set was not found, which are skipped with nil.
AddedIsIn ==
    outcome.pc = "ok" /\ outcome.op = "add" =>
        \A p \in outcome.pools : \A h \in BHost \ (nicFailed \cup outcome.left) :
            p \in nicPools[h] \/ (h \in Foreign /\ p \notin V6Pool)

\* After EnsureBackendPoolDeleted returned nil no machine of the uniform scale set, and while no
\* interface is in a failed state no other machine, is in the pools any more, so that the pools and
\* their load balancer can be deleted.  Left out are the IPv6 pools of flexible scale sets, whose IP
\* configuration the code does not look at, the machines of other availability sets, which it skips, and
\* those it skips with nil: not active by the cached object, or not identified by their IP configuration.
DeletedIsOut ==
    outcome.pc = "ok" /\ outcome.op = "delete" =>
        /\ \A h \in UHost \ outcome.left : nicPools[h] \cap outcome.pools = {}
        /\ nicFailed = {} => /\ \A h \in AHost \ (OtherAvSet \cup outcome.left) : nicPools[h] \cap outcome.pools = {}
                             /\ \A h \in FHost \ outcome.left : nicPools[h] \cap outcome.pools \subseteq V6Pool

\* Between calls a cached flexible scale set names the pools it has in Azure.
FlexSetCached == task.pc = "idle" /\ setCache["flex"] # Uncached => setCache["flex"] = setPools["flex"]

\* "Ensure the backendPoolID is also added on VMSS itself": after EnsureHostsInPool returned nil the
\* model of the uniform scale set, which new machines are made from, names the pool.
SetIsIn ==
    outcome.pc = "ok" /\ outcome.op = "add" =>
        outcome.pools \subseteq setPools["uniform"]

\* What the calls reported of the pools of the machines is so (EnsureHostsInPool,
\* EnsureBackendPoolDeleted), and a cached flexible scale set is as in Azure.
PoolsAsAnswered == BTypeOK /\ AddedIsIn /\ DeletedIsOut /\ FlexSetCached
=============================================================================
