--------------------------- MODULE LocalServices ---------------------------
(***************************************************************************)
(* The backend pool of a service with externalTrafficPolicy Local on       *)
(* multiple standard load balancers (azure_local_services.go).             *)
(*                                                                         *)
(* Three goroutines write towards the pool: the EndpointSlice informer     *)
(* turns updates into operations, loadBalancerBackendPoolUpdater applies   *)
(* the operations in batches under its lock, and the service controller    *)
(* reconciles the service: it may move it to another load balancer, puts   *)
(* the hosts in the pool itself, records where the service is and checks   *)
(* the pool against the slice a second time.                               *)
(*                                                                         *)
(* One service with one EndpointSlice and one pool on each load balancer.  *)
(* A slice is the list of the nodes of its endpoints; a node stands for its*)
(* private IP.  An etag is a flag: fresh while nobody else wrote the pool. *)
(***************************************************************************)
EXTENDS Integers, Sequences, FiniteSets, SequencesExt

CONSTANTS
    Nodes,          \* nodes of the cluster
    LBs,            \* load balancers of the cluster
    Layouts,        \* what the slice may hold: lists of nodes, one per endpoint
    MaxChanges,     \* bound on the changes of the slice
    MaxReconciles,  \* bound on the passes of the service controller
    MaxFaults,      \* bound on the failures of Azure
    NoLB, Absent, NoPool

ASSUME LocalAssumption ==
    /\ IsFiniteSet(Nodes) /\ Layouts \subseteq Seq(Nodes)
    /\ NoLB \notin LBs /\ Absent \notin Layouts /\ \A p \in SUBSET Nodes : p # NoPool

VARIABLES
    slice,          \* the EndpointSlice at the API server
    watch,          \* events on their way to the informer
    esCache,        \* endpointSlicesCache
    info,           \* localServiceNameToServiceInfoMap: the load balancer
    ops,            \* operations of the updater
    pool,           \* the pool of the service on each load balancer
    home,           \* the load balancer with the frontend of the service
    upd,            \* process of the updater; not idle: the lock is held
    inf,            \* operations the informer's handler still has to add
    rec,            \* the pass of the service controller
    budget,         \* changes, passes and failures left
    missed          \* history: the pool may miss a change (see UpdatesReachPool)

lvars == <<slice, watch, esCache, info, ops, pool, home, upd, inf, rec, budget, missed>>

PoolOp(kind, lb, ips) == [kind |-> kind, lb |-> lb, ips |-> ips]

IdleUpdater == [pc |-> "idle", lb |-> NoLB, batch |-> <<>>, copy |-> {}, fresh |-> FALSE]
IdlePass == [pc |-> "idle", lb |-> NoLB, copy |-> {}, fresh |-> FALSE, pend |-> <<>>]

LInit ==
    /\ slice \in Layouts \cup {Absent}
    /\ esCache = slice              \* the informer has listed the slices
    /\ watch = <<>>
    /\ info = NoLB
    /\ ops = <<>>
    /\ pool = [l \in LBs |-> NoPool]
    /\ home = NoLB
    /\ upd = IdleUpdater
    /\ inf = <<>>
    /\ rec = IdlePass
    /\ budget = [changes |-> MaxChanges, passes |-> MaxReconciles, faults |-> MaxFaults]
    /\ missed = FALSE

Unlocked == upd.pc = "idle"

\* Somebody else's write of the pool of a load balancer makes copies stale.
Write(l, p) == pool' = [pool EXCEPT ![l] = p]
OutdateUpd(ls) == upd' = [upd EXCEPT !.fresh = upd.fresh /\ upd.lb \notin ls]
OutdateRec(ls) == rec' = [rec EXCEPT !.fresh = rec.fresh /\ rec.lb \notin ls]

SpendFault ==
    /\ budget.faults > 0
    /\ budget' = [budget EXCEPT !.faults = @ - 1]

-----------------------------------------------------------------------------
(***************************************************************************)
(* Endpoint slices and their informer                                      *)
(***************************************************************************)

\* The endpoint slice controller writes, updates or deletes the slice.
EndpointsChange ==
    /\ budget.changes > 0
    /\ \E s \in Layouts \cup {Absent} :
         /\ s # slice
         /\ slice' = s
         /\ watch' = Append(watch, [old |-> slice, new |-> s])
    /\ budget' = [budget EXCEPT !.changes = @ - 1]
    /\ UNCHANGED <<esCache, info, ops, pool, home, upd, inf, rec, missed>>

\* reconcileIPsInLocalServiceBackendPoolsAsync: n and m are the lengths of
\* the two lists, in which a node occurs once for each of its endpoints.
Changes(lb, current, n, expected, m) ==
    IF current \ expected = {} /\ n = m THEN <<>>
    ELSE (IF current \ expected # {}
            THEN <<PoolOp("remove", lb, current \ expected)>> ELSE <<>>)
         \o (IF expected # {} THEN <<PoolOp("add", lb, expected)>> ELSE <<>>)

\* AddFunc and DeleteFunc only keep the cache.
SliceAddedOrDeleted ==
    /\ inf = <<>> /\ watch # <<>>
    /\ Absent \in {Head(watch).old, Head(watch).new}
    /\ esCache' = Head(watch).new
    /\ watch' = Tail(watch)
    /\ missed' = (missed \/ info # NoLB)
    /\ UNCHANGED <<slice, info, ops, pool, home, upd, inf, rec, budget>>

\* addOperation takes the lock for one operation: a pass that has more of them to
\* add lets an update in between, and then adds what the older slice asks for.
Crossed == rec.pc = "enqueue" /\ rec.pend # <<>>

\* UpdateFunc, up to the operations it has to add.
SliceUpdated ==
    LET old == Head(watch).old
        new == Head(watch).new
        todo == IF info = NoLB THEN <<>>
                ELSE Changes(info, ToSet(old), Len(old), ToSet(new), Len(new))
    IN
    /\ inf = <<>> /\ watch # <<>>
    /\ Absent \notin {old, new}
    /\ esCache' = new
    /\ watch' = Tail(watch)
    /\ inf' = todo
    /\ missed' = (missed \/ (info # NoLB /\ todo = <<>> /\ ToSet(old) # ToSet(new))
                         \/ Crossed)
    /\ UNCHANGED <<slice, info, ops, pool, home, upd, rec, budget>>

\* addOperation of the handler: takes the lock for one operation.
InformerAdds ==
    /\ inf # <<>> /\ Unlocked
    /\ ops' = Append(ops, Head(inf))
    /\ inf' = Tail(inf)
    /\ UNCHANGED <<slice, watch, esCache, info, pool, home, upd, rec, budget, missed>>

-----------------------------------------------------------------------------
(***************************************************************************)
(* loadBalancerBackendPoolUpdater                                          *)
(***************************************************************************)

\* The operations of a queue that are for load balancer l, in their order.
OperationsFor(l, queue) ==
    LET mine == {i \in DOMAIN queue : queue[i].lb = l}
        nth(k) == CHOOSE i \in mine : Cardinality({j \in mine : j < i}) = k - 1
    IN  [k \in 1..Cardinality(mine) |-> queue[nth(k)]]

\* process takes the lock and keeps the operations for the load balancer the
\* service is on now.
Process ==
    LET kept == OperationsFor(info, ops) IN
    /\ Unlocked /\ ops # <<>>
    /\ ops' = <<>>
    /\ upd' = IF kept = <<>> THEN IdleUpdater
              ELSE [upd EXCEPT !.pc = "get", !.lb = info, !.batch = kept]
    /\ UNCHANGED <<slice, watch, esCache, info, pool, home, inf, rec, budget, missed>>

Apply(p, o) == IF o.kind = "add" THEN p \cup o.ips ELSE p \ o.ips

\* What a pool holds when a batch has been applied to it in its order: what an
\* operation added and none removed later, and what was there and none removed.
RemovedFrom(i, batch) ==
    UNION {batch[j].ips : j \in {k \in i..Len(batch) : batch[k].kind # "add"}}

After(p, batch) ==
    (p \ RemovedFrom(1, batch))
      \cup UNION {batch[i].ips \ RemovedFrom(i + 1, batch) :
                   i \in {k \in 1..Len(batch) : batch[k].kind = "add"}}

\* Whether some operation of the batch changed the copy.
Changed(p, batch) ==
    \E i \in 1..Len(batch) : LET q == After(p, SubSeq(batch, 1, i - 1)) IN Apply(q, batch[i]) # q

\* GetLBBackendPool, and the batch on the copy.
GetPool ==
    /\ upd.pc = "get" /\ pool[upd.lb] # NoPool
    /\ upd' = IF Changed(pool[upd.lb], upd.batch)
                THEN [upd EXCEPT !.pc = "put", !.fresh = TRUE,
                                 !.copy = After(pool[upd.lb], upd.batch)]
                ELSE IdleUpdater
    /\ UNCHANGED <<slice, watch, esCache, info, ops, pool, home, inf, rec, budget, missed>>

\* processError of a pool that is not found drops the batch.
PoolNotFound ==
    /\ upd.pc = "get" /\ pool[upd.lb] = NoPool
    /\ upd' = IdleUpdater
    /\ missed' = TRUE
    /\ UNCHANGED <<slice, watch, esCache, info, ops, pool, home, inf, rec, budget>>

BugPutPool ==
    /\ upd.pc = "put"
    /\ Write(upd.lb, upd.copy)
    /\ OutdateRec({upd.lb})
    /\ upd' = IdleUpdater
    /\ UNCHANGED <<slice, watch, esCache, info, ops, home, inf, budget, missed>>

\* CreateOrUpdateBackendPools with the etag of the copy.
PutPool ==
    /\ upd.pc = "put" /\ upd.fresh
    /\ Write(upd.lb, upd.copy)
    /\ OutdateRec({upd.lb})
    /\ upd' = IdleUpdater
    /\ UNCHANGED <<slice, watch, esCache, info, ops, home, inf, budget, missed>>

\* processError of an error that is not retriable, such as a stale etag.
BatchFails ==
    /\ \/ upd.pc = "put" /\ ~upd.fresh /\ UNCHANGED budget
       \/ upd.pc \in {"get", "put"} /\ SpendFault
    /\ upd' = IdleUpdater
    /\ missed' = TRUE
    /\ UNCHANGED <<slice, watch, esCache, info, ops, pool, home, inf, rec>>

\* processError of a retriable error: the batch is queued again; a PUT whose
\* answer is lost may have been carried out.
BatchRetried ==
    /\ upd.pc \in {"get", "put"} /\ SpendFault
    /\ upd' = IdleUpdater
    /\ ops' = upd.batch
    /\ \/ UNCHANGED <<pool, rec>>
       \/ upd.pc = "put" /\ upd.fresh /\ Write(upd.lb, upd.copy) /\ OutdateRec({upd.lb})
    /\ UNCHANGED <<slice, watch, esCache, info, home, inf, missed>>

-----------------------------------------------------------------------------
(***************************************************************************)
(* The service controller                                                  *)
(***************************************************************************)

\* reconcileService lists the load balancers; getServiceLoadBalancer picks one.
StartPass ==
    /\ rec.pc = "idle" /\ budget.passes > 0
    /\ budget' = [budget EXCEPT !.passes = @ - 1]
    /\ \E l \in LBs :
         rec' = [rec EXCEPT !.pc = IF home \notin {NoLB, l} THEN "move" ELSE "create",
                            !.lb = l, !.copy = pool[l], !.fresh = TRUE, !.pend = <<>>]
    /\ UNCHANGED <<slice, watch, esCache, info, ops, pool, home, upd, inf, missed>>

\* The service moves: its frontend goes, removeOperation clears its operations.
RemoveOperation ==
    /\ rec.pc = "move" /\ Unlocked
    /\ home' = NoLB
    /\ ops' = <<>>
    /\ rec' = [rec EXCEPT !.pc = "cleanup"]
    /\ UNCHANGED <<slice, watch, esCache, info, pool, upd, inf, budget, missed>>

\* cleanupLocalServiceBackendPool, then the load balancers are listed again.
CleanupLocalServiceBackendPool ==
    /\ rec.pc = "cleanup"
    /\ pool' = [l \in LBs |-> NoPool]
    /\ OutdateUpd(LBs)
    /\ rec' = [rec EXCEPT !.pc = "create", !.copy = NoPool, !.fresh = TRUE]
    /\ UNCHANGED <<slice, watch, esCache, info, ops, home, inf, budget, missed>>

\* reconcileLoadBalancer puts the load balancer when its pool, its frontend or
\* anything else of it has to change, and reads it again.
CreateOrUpdateLB ==
    LET l == rec.lb
        dirty == rec.copy = NoPool \/ home # l
    IN
    /\ rec.pc = "create"
    /\ \/ /\ rec.fresh
          /\ Write(l, IF pool[l] = NoPool THEN {} ELSE pool[l])
          /\ home' = l
          /\ rec' = [rec EXCEPT !.pc = "hosts", !.copy = pool'[l]]
          /\ OutdateUpd({l})
       \/ /\ ~dirty
          /\ rec' = [rec EXCEPT !.pc = "hosts"]
          /\ UNCHANGED <<pool, home, upd>>
    /\ UNCHANGED <<slice, watch, esCache, info, ops, inf, budget, missed>>

\* EnsureHostsInPool on the copy: skipped while the service is recorded on
\* another load balancer; without a cached slice every node goes in.
EnsureHostsInPool ==
    /\ rec.pc = "hosts"
    /\ LET target == IF esCache = Absent THEN Nodes ELSE ToSet(esCache) IN
       rec' = IF info \notin {NoLB, rec.lb} \/ target = rec.copy
                THEN [rec EXCEPT !.pc = "store"]
                ELSE [rec EXCEPT !.pc = "put", !.copy = target]
    /\ UNCHANGED <<slice, watch, esCache, info, ops, pool, home, upd, inf, budget, missed>>

\* CreateOrUpdateLBBackendPool with the etag of the copy.
PutHosts ==
    /\ rec.pc = "put" /\ rec.fresh
    /\ Write(rec.lb, rec.copy)
    /\ OutdateUpd({rec.lb})
    /\ rec' = [rec EXCEPT !.pc = "store"]
    /\ UNCHANGED <<slice, watch, esCache, info, ops, home, inf, budget, missed>>

\* An error ends the pass; the service controller starts another one.
PassFails ==
    /\ \/ rec.pc \in {"create", "put"} /\ ~rec.fresh /\ UNCHANGED budget
       \/ rec.pc \in {"create", "put", "cleanup"} /\ SpendFault
    /\ rec' = IdlePass
    /\ missed' = TRUE
    /\ UNCHANGED <<slice, watch, esCache, info, ops, pool, home, upd, inf>>

StoreInfo ==
    /\ rec.pc = "store"
    /\ info' = rec.lb
    /\ rec' = [rec EXCEPT !.pc = "check"]
    /\ missed' = (missed \/ info # rec.lb)
    /\ UNCHANGED <<slice, watch, esCache, ops, pool, home, upd, inf, budget>>

\* Other operations, or another write of the pool, under way at the check: the
\* copy it compares is then not what the pool will be, and it makes up for
\* nothing that was missed before.
Overlapped == inf # <<>> \/ ops # <<>> \/ ~Unlocked \/ ~rec.fresh

BugCheck ==
    /\ rec.pc = "check"
    /\ rec' = IdlePass
    /\ missed' = (esCache = Absent \/ (missed /\ Overlapped))
    /\ UNCHANGED <<slice, watch, esCache, info, ops, pool, home, upd, inf, budget>>

\* checkAndApplyLocalServiceBackendPoolUpdates: the operations that would make
\* the copy what the cached slice says.
Check ==
    /\ rec.pc = "check"
    /\ rec' = IF esCache = Absent THEN IdlePass
              ELSE [rec EXCEPT !.pc = "enqueue",
                      !.pend = Changes(rec.lb, rec.copy, Cardinality(rec.copy),
                                       ToSet(esCache), Cardinality(ToSet(esCache)))]
    /\ missed' = (esCache = Absent \/ (missed /\ Overlapped))
    /\ UNCHANGED <<slice, watch, esCache, info, ops, pool, home, upd, inf, budget>>

PassAdds ==
    /\ rec.pc = "enqueue"
    /\ IF rec.pend = <<>>
         THEN rec' = IdlePass /\ UNCHANGED ops
         ELSE /\ Unlocked
              /\ ops' = Append(ops, Head(rec.pend))
              /\ rec' = [rec EXCEPT !.pend = Tail(@)]
    /\ UNCHANGED <<slice, watch, esCache, info, pool, home, upd, inf, budget, missed>>

\* EnsureLoadBalancerDeleted: the frontend goes, the pool stays unless the load
\* balancer goes with its last frontend; the record goes at the end.
EnsureDeleted ==
    /\ rec.pc = "idle" /\ budget.passes > 0
    /\ budget' = [budget EXCEPT !.passes = @ - 1]
    /\ home # NoLB
    /\ home' = NoLB
    /\ \/ UNCHANGED <<pool, upd>>
       \/ Write(home, NoPool) /\ OutdateUpd({home})
    /\ rec' = [rec EXCEPT !.pc = "forget"]
    /\ UNCHANGED <<slice, watch, esCache, info, ops, inf, missed>>

\* The service is not local any more: its pools go first.
BecomesCluster ==
    /\ rec.pc = "idle" /\ budget.passes > 0
    /\ budget' = [budget EXCEPT !.passes = @ - 1]
    /\ pool' = [l \in LBs |-> NoPool]
    /\ OutdateUpd(LBs)
    /\ rec' = [rec EXCEPT !.pc = "forget"]
    /\ UNCHANGED <<slice, watch, esCache, info, ops, home, inf, missed>>

ForgetInfo ==
    /\ rec.pc = "forget"
    /\ info' = NoLB
    /\ rec' = IdlePass
    /\ UNCHANGED <<slice, watch, esCache, ops, pool, home, upd, inf, budget, missed>>

-----------------------------------------------------------------------------
InformerStep == SliceAddedOrDeleted \/ SliceUpdated \/ InformerAdds
UpdaterStep ==
    \/ Process \/ GetPool \/ PoolNotFound \/ PutPool \/ BatchFails \/ BatchRetried
PassStep ==
    \/ RemoveOperation \/ CleanupLocalServiceBackendPool \/ CreateOrUpdateLB
    \/ EnsureHostsInPool \/ PutHosts \/ PassFails \/ StoreInfo \/ Check \/ PassAdds
    \/ ForgetInfo

LNext ==
    \/ EndpointsChange \/ InformerStep \/ UpdaterStep
    \/ StartPass \/ EnsureDeleted \/ BecomesCluster \/ PassStep

LFairness == WF_lvars(InformerStep) /\ WF_lvars(UpdaterStep) /\ WF_lvars(PassStep)

LSpec == LInit /\ [][LNext]_lvars /\ LFairness

-----------------------------------------------------------------------------
\* Type invariant of the pools, the queue and the goroutines.
LTypeOK ==
    /\ slice \in Layouts \cup {Absent} /\ esCache \in Layouts \cup {Absent}
    /\ info \in LBs \cup {NoLB} /\ home \in LBs \cup {NoLB}
    /\ \A l \in LBs : pool[l] = NoPool \/ pool[l] \subseteq Nodes
    /\ \A i \in 1..Len(ops) : ops[i].lb \in LBs /\ ops[i].ips \in (SUBSET Nodes) \ {{}}
    /\ upd.pc \in {"idle", "get", "put"}
    /\ rec.pc \in {"idle", "move", "cleanup", "create", "hosts", "put", "store",
                   "check", "enqueue", "forget"}

\* A pool that a move, or a change to externalTrafficPolicy Cluster, deleted is
\* never brought back by a batch that was under way: only a pass creates pools.
PoolStaysDeleted ==
    [][\A l \in LBs :
         (pool[l] = NoPool /\ pool'[l] # NoPool) => rec.pc = "create"]_lvars

Quiet ==
    /\ watch = <<>> /\ inf = <<>> /\ ops = <<>>
    /\ upd.pc = "idle" /\ rec.pc = "idle"

\* When the three goroutines have nothing left to do, the pool holds exactly the
\* nodes of the slice, also when batches were retried, the service moved, and
\* updates came in between.  The code does not keep this for a change that
\*   - is an added or deleted slice, or one with as many endpoints as before on
\*     nodes of which the old ones are a part: the informer queues nothing;
\*   - is in a batch that was dropped, or meets a pass that failed;
\*   - came before the service was recorded on its load balancer;
\*   - crosses the operations a pass has left to add (Crossed).
\* Each of these sets missed, until a pass whose check nothing overlaps.
UpdatesReachPool ==
    Quiet /\ info # NoLB /\ ~missed /\ slice # Absent => pool[info] = ToSet(slice)

\* Whatever fails, the queue is emptied and the goroutines come to rest once
\* endpoints, passes and failures stop: no batch is retried for ever.
Settles == <>[]Quiet

\* The pool follows the endpoints through batches, retries and moves
\* (loadBalancerBackendPoolUpdater, checkAndApplyLocalServiceBackendPoolUpdates).
PoolFollows == LTypeOK /\ UpdatesReachPool
=============================================================================
