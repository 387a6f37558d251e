---------------------------- MODULE RouteUpdater ----------------------------
(***************************************************************************)
(* The delayed route updater of the cloud provider                         *)
(* (pkg/provider/azure_routes.go) over the route table repository          *)
(* (pkg/provider/routetable).                                              *)
(*                                                                         *)
(* Goroutines of the route controller (Callers) call CreateRoute,          *)
(* DeleteRoute and ListRoutes.  Each enqueues an operation under d.lock    *)
(* and blocks on the operation's unbuffered result channel.  A single      *)
(* updater goroutine wakes up every interval, takes d.lock, reads the      *)
(* route table through a cache, applies the whole queue to its copy, PUTs  *)
(* the copy and answers every operation of the batch.  d.lock is held      *)
(* exactly from "get" to "notify".                                         *)
(*                                                                         *)
(* The next hop of a route is a function of its node, so a route is its    *)
(* name and its CIDR.  An etag is abstracted to the flag "fresh" of a copy *)
(* of the table: the copy carries the etag the cloud's table still has.    *)
(***************************************************************************)
EXTENDS Naturals, Sequences, FiniteSets

CONSTANTS
    Callers,      \* goroutines of the route controller
    Nodes,        \* names of the cluster's nodes
    Unmanaged,    \* the nodes Azure does not manage (az.unmanagedNodes)
    CIDRs,        \* pod CIDRs
    Foreign,      \* names of routes other users keep in the table
    DualStack,    \* az.ipv6DualStackEnabled
    ConfTags,     \* az.Tags and az.TagsMap
    SystemTags,   \* az.SystemTags
    OtherTags,    \* tags other users may put on the table
    NoRoute, NoTable, NoData

ASSUME RouteConstants ==
    /\ Unmanaged \subseteq Nodes
    /\ DualStack \in BOOLEAN
    /\ NoRoute \notin CIDRs
    /\ IsFiniteSet(OtherTags)

(***************************************************************************)
(* Route names.  mapNodeNameToRouteName is the node's name in a single     *)
(* stack cluster, and the node's name with the CIDR's digits otherwise.    *)
(***************************************************************************)
PlainName(n) == <<"plain", n, NoRoute>>
DualName(n, c) == <<"dual", n, c>>
RouteName(n, c) == IF DualStack THEN DualName(n, c) ELSE PlainName(n)

NodeNames == {PlainName(n) : n \in Nodes}
             \cup {DualName(n, c) : n \in Nodes, c \in CIDRs}
ForeignNames == {<<"foreign", f, NoRoute>> : f \in Foreign}
Names == NodeNames \cup ForeignNames

Tags == ConfTags \cup SystemTags \cup OtherTags

Table == [routes : [Names -> CIDRs \cup {NoRoute}], tags : SUBSET Tags]
Copy == [routes : [Names -> CIDRs \cup {NoRoute}], tags : SUBSET Tags,
         fresh : BOOLEAN]

ASSUME NilIsNoCopy == NoData \notin Copy /\ NoTable \notin Table

(***************************************************************************)
(* Operations.  "more" marks the first delete of DeleteRoute in a dual     *)
(* stack cluster, which deletes the plain name once this one succeeded.    *)
(***************************************************************************)
RouteOps == [caller : Callers, kind : {"add", "delete"}, name : NodeNames,
             node : Nodes, cidr : CIDRs \cup {NoRoute}, more : BOOLEAN]
TagsOps == [caller : Callers, kind : {"tags"}, tags : SUBSET Tags,
            more : {FALSE}]
Op == RouteOps \cup TagsOps

VARIABLES
    cloud,      \* the route table Azure keeps, or NoTable
    cache,      \* the entry of the route table cache, or NoData
    queue,      \* d.routesToUpdate
    upc,        \* where the updater is, or "down" or "panicked": no process
    work,       \* the updater's copy of the table, or NoData
    dirty,      \* dirty of updateRoutes
    idx,        \* position in routesToUpdate of the loop that runs
    err,        \* err of updateRoutes that the deferred function reports
    outcome,    \* what the batch really did: "none", "put", "clean", "failed"
    pc,         \* where each caller is
    pending,    \* the operation each caller created, or NoData
    res,        \* the result each caller received last
    routeCIDRs  \* az.routeCIDRs

callerVars == <<pc, pending, res, routeCIDRs>>
batchVars == <<work, dirty, idx, err, outcome>>
vars == <<cloud, cache, queue, upc, batchVars, callerVars>>

UpdaterIdle == upc = "idle"
Alive == upc \notin {"down", "panicked"}

TypeOK ==
    /\ cloud \in Table \cup {NoTable}
    /\ cache \in Copy \cup {NoData}
    /\ queue \in Seq(Op)
    /\ upc \in {"idle", "get", "apply", "put", "notify", "down",
              "panicked"}
    /\ work \in Copy \cup {NoData}
    /\ dirty \in BOOLEAN
    /\ idx \in Nat
    /\ err \in BOOLEAN
    /\ outcome \in {"none", "put", "clean", "failed"}
    /\ pc \in [Callers -> {"idle", "enqueue", "wait", "answered"}]
    /\ pending \in [Callers -> Op \cup {NoData}]
    /\ res \in [Callers -> {"none", "ok", "err"}]
    /\ routeCIDRs \in [Unmanaged -> CIDRs \cup {NoRoute}]

----------------------------------------------------------------------------
(* A dual stack name carries its CIDR.                                     *)
WellNamed(table) ==
    \A n \in Nodes, c \in CIDRs : table.routes[DualName(n, c)] \in {c, NoRoute}

(* The process has just started; the table may be missing, or hold what    *)
(* other users and an earlier process left in it.                          *)
Init ==
    /\ cloud \in {t \in Table : WellNamed(t)} \cup {NoTable}
    /\ cache = NoData
    /\ queue = <<>>
    /\ upc = "idle"
    /\ work = NoData
    /\ dirty = FALSE /\ idx = 0
    /\ err = FALSE /\ outcome = "none"
    /\ pc = [t \in Callers |-> "idle"]
    /\ pending = [t \in Callers |-> NoData]
    /\ res = [t \in Callers |-> "none"]
    /\ routeCIDRs = [n \in Unmanaged |-> NoRoute]

----------------------------------------------------------------------------
(* The repository.                                                         *)

Stale(copy) == IF copy = NoData THEN NoData ELSE [copy EXCEPT !.fresh = FALSE]
AsCopy(table) == [routes |-> table.routes, tags |-> table.tags, fresh |-> TRUE]
AsTable(copy) == [routes |-> copy.routes, tags |-> copy.tags]

(* Get with CacheReadTypeDefault: the cached data, or what the getter      *)
(* reads from Azure and caches.                                            *)
RepoCopy == IF cache # NoData THEN cache ELSE AsCopy(cloud)
RepoGet ==
    /\ cache # NoData \/ cloud # NoTable
    /\ cache' = RepoCopy

(* Get when Azure's answer is an error other than not found.               *)
RepoGetFails == cache = NoData /\ UNCHANGED cache

(* Get when Azure has no table: the getter returns a nil interface, and    *)
(* the type assertion of Get panics on it.                                 *)
RepoGetPanics == cache = NoData /\ cloud = NoTable

(* CreateOrUpdate succeeds: the copy's etag was still current.  The entry  *)
(* of the cache is deleted.                                                *)
BugRepoPut ==
    /\ cloud' = AsTable(work)
    /\ cache' = NoData
RepoPut ==
    /\ work.fresh
    /\ cloud' = AsTable(work)
    /\ cache' = NoData

(* CreateOrUpdate fails: a stale etag or a rejected request.  The cache    *)
(* keeps its entry.                                                        *)
RepoPutRejected == UNCHANGED <<cloud, cache>>

(* CreateOrUpdate fails although Azure applied it: polling for the result  *)
(* timed out.                                                              *)
RepoPutUnknown ==
    /\ work.fresh
    /\ cloud' = AsTable(work)
    /\ cache' = Stale(cache)

----------------------------------------------------------------------------
(* The callers.                                                            *)

AddOp(t, n, c) ==
    [caller |-> t, kind |-> "add", name |-> RouteName(n, c), node |-> n,
     cidr |-> c, more |-> FALSE]
DeleteOp(t, name, n, more) ==
    [caller |-> t, kind |-> "delete", name |-> name, node |-> n,
     cidr |-> NoRoute, more |-> more]
TagsOp(t, tags) == [caller |-> t, kind |-> "tags", tags |-> tags, more |-> FALSE]

(* A caller has built its operation and goes on to addOperation.           *)
Submit(t, op) ==
    /\ pc' = [pc EXCEPT ![t] = "enqueue"]
    /\ pending' = [pending EXCEPT ![t] = op]
    /\ res' = [res EXCEPT ![t] = "none"]

CreateRoute(t, n, c) ==
    /\ Alive /\ pc[t] = "idle"
    /\ IF n \in Unmanaged
       THEN /\ routeCIDRs' = [routeCIDRs EXCEPT ![n] = c]
            /\ UNCHANGED <<pc, pending, res>>
       ELSE /\ Submit(t, AddOp(t, n, c))
            /\ UNCHANGED routeCIDRs
    /\ UNCHANGED <<cloud, cache, queue, upc, batchVars>>

DeleteRoute(t, n, c) ==
    /\ Alive /\ pc[t] = "idle"
    /\ IF n \in Unmanaged
       THEN /\ routeCIDRs' = [routeCIDRs EXCEPT ![n] = NoRoute]
            /\ UNCHANGED <<pc, pending, res>>
       ELSE /\ Submit(t, DeleteOp(t, RouteName(n, c), n, DualStack))
            /\ UNCHANGED routeCIDRs
    /\ UNCHANGED <<cloud, cache, queue, upc, batchVars>>

(* Without system tags the configured tags are added to the current ones;  *)
(* with them every other tag is dropped.                                   *)
ReconcileTags(current) ==
    IF SystemTags = {} THEN current \cup ConfTags
                       ELSE ConfTags \cup (current \cap SystemTags)

(* ensureRouteTableTagged of ListRoutes: the tags are computed from the    *)
(* copy this caller reads now and written when its operation is applied.   *)
ListRoutes(t) ==
    /\ Alive /\ pc[t] = "idle"
    /\ RepoGet
    /\ LET current == RepoCopy.tags IN
       IF ConfTags # {} /\ ReconcileTags(current) # current
       THEN Submit(t, TagsOp(t, ReconcileTags(current)))
       ELSE UNCHANGED <<pc, pending, res>>
    /\ UNCHANGED <<cloud, queue, upc, batchVars, routeCIDRs>>

(* addOperation: d.lock is free.                                           *)
AddOperation(t) ==
    /\ UpdaterIdle /\ pc[t] = "enqueue"
    /\ queue' = Append(queue, pending[t])
    /\ pc' = [pc EXCEPT ![t] = "wait"]
    /\ UNCHANGED <<cloud, cache, upc, batchVars, pending, res, routeCIDRs>>

(* The caller goes on after op.wait().  DeleteRoute in a dual stack        *)
(* cluster goes on to delete the plain name if it received no error.       *)
Return(t) ==
    /\ Alive /\ pc[t] = "answered"
    /\ IF pending[t].more /\ res[t] = "ok"
       THEN LET n == pending[t].node IN
            Submit(t, DeleteOp(t, PlainName(n), n, FALSE))
       ELSE /\ pc' = [pc EXCEPT ![t] = "idle"]
            /\ pending' = [pending EXCEPT ![t] = NoData]
            /\ res' = [res EXCEPT ![t] = "none"]
    /\ UNCHANGED <<cloud, cache, queue, upc, batchVars, routeCIDRs>>

----------------------------------------------------------------------------
(* The updater goroutine.                                                  *)

(* The local variables of updateRoutes go out of scope.                    *)
NoBatch ==
    /\ work' = NoData
    /\ dirty' = FALSE /\ idx' = 0
    /\ err' = FALSE /\ outcome' = "none"

(* The interval elapsed and there is something to update: d.lock is taken. *)
UpdateRoutes ==
    /\ UpdaterIdle /\ queue # <<>>
    /\ upc' = "get"
    /\ idx' = 1
    /\ UNCHANGED <<cloud, cache, queue, work, dirty, err, outcome, callerVars>>

(* The names cleanupOutdatedRoutes removes when the informer knows the     *)
(* nodes "known": plain names in a dual stack cluster, dual stack names    *)
(* otherwise.                                                              *)
Outdated(known) ==
    IF DualStack THEN {PlainName(n) : n \in known}
                 ELSE {DualName(n, c) : n \in known, c \in CIDRs}

Without(routes, names) ==
    [r \in Names |-> IF r \in names THEN NoRoute ELSE routes[r]]

CleanupOutdatedRoutes(c, known) ==
    /\ work' = [c EXCEPT !.routes = Without(c.routes, Outdated(known))]
    /\ dirty' = (\E r \in Outdated(known) : c.routes[r] # NoRoute)

(* The table is read and the outdated routes are dropped from the copy.    *)
(* az.nodeNames is read without nodeCachesLock: any set of nodes.          *)
GetTable ==
    /\ upc = "get"
    /\ RepoGet
    /\ \E known \in SUBSET Nodes : CleanupOutdatedRoutes(RepoCopy, known)
    /\ upc' = "apply"
    /\ UNCHANGED <<cloud, queue, idx, err, outcome, callerVars>>

BugGetTableFails ==
    /\ upc = "get"
    /\ RepoGetFails
    /\ upc' = "idle" /\ queue' = <<>>
    /\ NoBatch
    /\ UNCHANGED <<cloud, callerVars>>
GetTableFails ==
    /\ upc = "get"
    /\ RepoGetFails
    /\ upc' = "notify"
    /\ err' = TRUE /\ outcome' = "failed"
    /\ UNCHANGED <<cloud, queue, work, dirty, idx, callerVars>>

(* One iteration of the loop over routesToUpdate.  onlyUpdateTags needs no *)
(* variable: it is true only when the loop left the routes as they were.   *)
ApplyTags(op) ==
    /\ work' = [work EXCEPT !.tags = op.tags]
    /\ dirty' = TRUE

BugApplyRoute(op) ==
    LET old == work.routes[op.name] IN
    /\ work' = [work EXCEPT !.routes[op.name] = op.cidr]
    /\ dirty' = (old # op.cidr)
ApplyRoute(op) ==
    LET old == work.routes[op.name] IN
    /\ work' = [work EXCEPT !.routes[op.name] = op.cidr]
    /\ dirty' = (dirty \/ old # op.cidr)

ApplyOp ==
    /\ upc = "apply" /\ idx <= Len(queue)
    /\ IF queue[idx].kind = "tags" THEN ApplyTags(queue[idx])
                                   ELSE ApplyRoute(queue[idx])
    /\ idx' = idx + 1
    /\ UNCHANGED <<cloud, cache, queue, upc, err, outcome, callerVars>>

(* The loop is over.  Nothing is PUT when nothing changed.                 *)
LoopDone ==
    /\ upc = "apply" /\ idx > Len(queue)
    /\ upc' = (IF dirty THEN "put" ELSE "notify")
    /\ outcome' = (IF dirty THEN outcome ELSE "clean")
    /\ idx' = 1
    /\ UNCHANGED <<cloud, cache, queue, work, dirty, err, callerVars>>

PutTable ==
    /\ upc = "put"
    /\ RepoPut
    /\ outcome' = "put"
    /\ upc' = "notify"
    /\ UNCHANGED <<queue, work, dirty, idx, err, callerVars>>

(* "_, err := CreateOrUpdate(...)" declares a new err in the if block: the *)
(* err the deferred function reports stays nil.                            *)
PutTableFails ==
    /\ upc = "put"
    /\ RepoPutRejected \/ RepoPutUnknown
    /\ outcome' = "failed"
    /\ upc' = "notify"
    /\ UNCHANGED <<queue, work, dirty, idx, err, callerVars>>

(* The deferred function: a send on an unbuffered channel meets the        *)
(* caller's receive, one operation after the other.                        *)
Notify ==
    /\ upc = "notify" /\ idx <= Len(queue)
    /\ LET t == queue[idx].caller IN
       /\ pc[t] = "wait"
       /\ pc' = [pc EXCEPT ![t] = "answered"]
       /\ res' = [res EXCEPT ![t] = IF err THEN "err" ELSE "ok"]
    /\ idx' = idx + 1
    /\ UNCHANGED <<cloud, cache, queue, upc, work, dirty, err, outcome,
                   pending, routeCIDRs>>

(* All the jobs are cleared and d.lock is released.                        *)
BugClearJobs ==
    /\ upc = "notify" /\ idx > Len(queue)
    /\ upc' = "idle"
    /\ NoBatch
    /\ UNCHANGED <<queue, cloud, cache, callerVars>>
ClearJobs ==
    /\ upc = "notify" /\ idx > Len(queue)
    /\ queue' = <<>>
    /\ upc' = "idle"
    /\ NoBatch
    /\ UNCHANGED <<cloud, cache, callerVars>>

----------------------------------------------------------------------------
(* The environment and the life of the process.                            *)

(* The entry of the cache is older than its TTL.                           *)
CacheExpires ==
    /\ cache # NoData
    /\ cache' = NoData
    /\ UNCHANGED <<cloud, queue, upc, batchVars, callerVars>>

(* Another user creates the table, or changes a route or a tag of its own. *)
OtherUser ==
    /\ \/ /\ cloud = NoTable
          /\ cloud' = [routes |-> [r \in Names |-> NoRoute], tags |-> {}]
       \/ /\ cloud # NoTable
          /\ \/ \E f \in ForeignNames, c \in CIDRs \cup {NoRoute} :
                    cloud' = [cloud EXCEPT !.routes[f] = c]
             \/ \E ts \in SUBSET Tags :
                    /\ ConfTags \cap cloud.tags \subseteq ts
                    /\ cloud' = [cloud EXCEPT !.tags = ts]
    /\ cloud' # cloud
    /\ cache' = Stale(cache)
    /\ work' = Stale(work)
    /\ UNCHANGED <<queue, upc, dirty, idx, err, outcome, callerVars>>

(* All the memory of the process is lost.                                  *)
ProcessEnds(how) ==
    /\ upc' = how
    /\ cache' = NoData
    /\ queue' = <<>>
    /\ NoBatch
    /\ pc' = [t \in Callers |-> "idle"]
    /\ pending' = [t \in Callers |-> NoData]
    /\ res' = [t \in Callers |-> "none"]
    /\ routeCIDRs' = [n \in Unmanaged |-> NoRoute]
    /\ UNCHANGED cloud

(* The process is stopped, or leaves the leader election.                  *)
Crash == Alive /\ ProcessEnds("down")

(* A reader of a missing table panics: the updater or a lister.            *)
PanicInGet ==
    /\ upc = "get" \/ (Alive /\ \E t \in Callers : pc[t] = "idle")
    /\ RepoGetPanics
    /\ ProcessEnds("panicked")

Restart ==
    /\ ~Alive
    /\ upc' = "idle"
    /\ UNCHANGED <<cloud, cache, queue, batchVars, callerVars>>

CallerStep(t) ==
    \/ \E n \in Nodes, c \in CIDRs : CreateRoute(t, n, c) \/ DeleteRoute(t, n, c)
    \/ ListRoutes(t)
    \/ AddOperation(t)
    \/ Return(t)

UpdaterStep ==
    \/ UpdateRoutes \/ GetTable \/ GetTableFails \/ ApplyOp \/ LoopDone
    \/ PutTable \/ PutTableFails \/ Notify \/ ClearJobs

EnvironmentStep == CacheExpires \/ OtherUser \/ Crash \/ PanicInGet \/ Restart

Next ==
    \/ \E t \in Callers : CallerStep(t)
    \/ UpdaterStep
    \/ EnvironmentStep

(***************************************************************************)
(* The updater polls for ever.  A caller that competes for d.lock gets it: *)
(* sync.Mutex hands a starving waiter the lock, hence strong fairness.     *)
(***************************************************************************)
Fairness ==
    /\ WF_vars(UpdaterStep)
    /\ \A t \in Callers : SF_vars(AddOperation(t)) /\ WF_vars(Return(t))

Spec == Init /\ [][Next]_vars /\ Fairness

----------------------------------------------------------------------------
(* Properties.                                                             *)

InBatch(i) == i \in 1..Len(queue)
Answered(i) == upc = "notify" /\ i < idx

(* The deferred function of updateRoutes sends on an unbuffered channel    *)
(* while it holds d.lock: a send nobody receives would block every caller  *)
(* for ever.  The receiver of the next send is always in wait().           *)
NotifierNeverBlocks ==
    upc = "notify" /\ InBatch(idx) => pc[queue[idx].caller] = "wait"

(* A caller blocked in op.wait() has its operation in routesToUpdate, and  *)
(* the deferred function has not passed it: no answer is ever lost, in     *)
(* whatever order the callers enqueue and the updater wakes up.            *)
NoLostOperation ==
    \A t \in Callers : pc[t] = "wait" =>
        \E i \in 1..Len(queue) : queue[i] = pending[t] /\ ~Answered(i)

(* The i-th operation is the last of the first k on its route.             *)
LastOf(i, k) ==
    /\ queue[i].kind # "tags"
    /\ \A j \in i+1..k :
          queue[j].kind # "tags" => queue[j].name # queue[i].name

(* When the batch was PUT, or changed nothing of a copy that is still      *)
(* current, Azure's table holds for every route the outcome of the last    *)
(* operation of the batch on it: operations on one route are applied in    *)
(* the order of addOperation, with the outdated routes cleaned up first.   *)
BatchApplied ==
    upc = "notify" /\ (outcome = "put" \/ (outcome = "clean" /\ work.fresh)) =>
        \A i \in 1..Len(queue) :
            LastOf(i, Len(queue)) => cloud.routes[queue[i].name] = queue[i].cidr

(* A PUT of the updater changes no route but those its batch names and the *)
(* routes cleanupOutdatedRoutes removes: routes that other users create or *)
(* change between the read and the write are kept.                         *)
OnlyNamedRoutesChange ==
    [][upc = "put" /\ upc' = "notify" =>
         \A r \in Names :
            \/ cloud'.routes[r] = cloud.routes[r]
            \/ r \in Outdated(Nodes)
            \/ \E i \in 1..Len(queue) :
                  queue[i].kind # "tags" /\ queue[i].name = r]_vars

(* Every CreateRoute, DeleteRoute and ListRoutes call returns.             *)
EveryCallReturns == \A t \in Callers : pc[t] # "idle" ~> pc[t] = "idle"

(* azure_routes_test.go: "CreateRoute should report error if error occurs  *)
(* when invoke CreateOrUpdateRouteTable".                                  *)
FailureIsReported == upc = "notify" /\ outcome = "failed" => err
=============================================================================
