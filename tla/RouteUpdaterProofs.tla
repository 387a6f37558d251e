------------------------- MODULE RouteUpdaterProofs -------------------------
(***************************************************************************)
(* Proofs about RouteUpdater, for any sets of callers, nodes and CIDRs and *)
(* for a queue of any length.                                              *)
(***************************************************************************)
EXTENDS RouteUpdater, TLAPS

(* Where the updater is in updateRoutes and what its variables hold there. *)
BatchInv ==
    /\ upc \in {"get", "put"} => idx = 1
    /\ upc \in {"apply", "notify"} => idx >= 1
    /\ upc \in {"apply", "put"} => work \in Copy
    /\ upc \notin {"notify"} => outcome = "none"
    /\ upc = "notify" /\ outcome = "clean" => work \in Copy

(* A caller inside addOperation, wait or after it has an operation of its  *)
(* own.                                                                    *)
CallerInv ==
    \A t \in Callers : pc[t] # "idle" => pending[t] \in Op /\ pending[t].caller = t

(* Each operation the deferred function has not answered yet is the one    *)
(* its caller waits for, and no caller has two operations in the queue.    *)
QueueInv ==
    /\ \A i \in 1..Len(queue) : ~Answered(i) =>
          pc[queue[i].caller] = "wait" /\ pending[queue[i].caller] = queue[i]
    /\ \A i, j \in 1..Len(queue) :
          queue[i].caller = queue[j].caller => i = j

TypeInv == TypeOK /\ BatchInv /\ CallerInv
IInv == TypeInv /\ QueueInv /\ NoLostOperation

----------------------------------------------------------------------------
LEMMA NamesAreNames ==
    ASSUME NEW n \in Nodes, NEW c \in CIDRs
    PROVE  /\ PlainName(n) \in NodeNames
           /\ DualName(n, c) \in NodeNames
           /\ RouteName(n, c) \in NodeNames
  BY DEF PlainName, DualName, RouteName, NodeNames

LEMMA OpsAreOps ==
    ASSUME NEW t \in Callers, NEW n \in Nodes, NEW c \in CIDRs,
           NEW name \in NodeNames, NEW more \in BOOLEAN, NEW ts \in SUBSET Tags
    PROVE  /\ AddOp(t, n, c) \in Op /\ AddOp(t, n, c).caller = t
           /\ DeleteOp(t, name, n, more) \in Op
           /\ DeleteOp(t, name, n, more).caller = t
           /\ TagsOp(t, ts) \in Op /\ TagsOp(t, ts).caller = t
  BY NamesAreNames DEF AddOp, DeleteOp, TagsOp, Op, RouteOps, TagsOps

LEMMA CopyTypes ==
    /\ \A table \in Table : AsCopy(table) \in Copy
    /\ \A copy \in Copy : AsTable(copy) \in Table
    /\ \A copy \in Copy \cup {NoData} : Stale(copy) \in Copy \cup {NoData}
    /\ \A copy \in Copy : Stale(copy) \in Copy \cup {NoData}
  BY DEF AsCopy, AsTable, Stale, Table, Copy

LEMMA RepoCopyType ==
    ASSUME TypeOK, RepoGet
    PROVE  RepoCopy \in Copy /\ cache' \in Copy
  BY CopyTypes DEF TypeOK, RepoGet, RepoCopy

LEMMA ReconcileTagsType ==
    ASSUME NEW ts \in SUBSET Tags
    PROVE  ReconcileTags(ts) \in SUBSET Tags
  BY DEF ReconcileTags, Tags

LEMMA InitTypeInv == Init => TypeInv
<1> SUFFICES ASSUME Init PROVE TypeInv
  OBVIOUS
<1>1. TypeOK
  <2>1. cloud \in Table \cup {NoTable}
    BY DEF Init
  <2>2. queue \in Seq(Op)
    BY DEF Init
  <2> QED  BY <2>1, <2>2 DEF Init, TypeOK
<1>2. BatchInv
  BY DEF Init, BatchInv
<1>3. CallerInv
  BY DEF Init, CallerInv
<1> QED  BY <1>1, <1>2, <1>3 DEF TypeInv

LEMMA QueueElement ==
    ASSUME TypeOK, NEW i \in 1..Len(queue)
    PROVE  /\ queue[i] \in Op
           /\ queue[i].caller \in Callers
           /\ queue[i].kind # "tags" => queue[i] \in RouteOps
           /\ queue[i].kind = "tags" => queue[i] \in TagsOps
<1>1. queue[i] \in Op
  BY DEF TypeOK
<1> QED  BY <1>1 DEF Op, RouteOps, TagsOps

(* Submit leaves the caller with an operation of its own.                  *)
LEMMA SubmitTypes ==
    ASSUME TypeOK, CallerInv, NEW t \in Callers, NEW op \in Op, op.caller = t,
           Submit(t, op)
    PROVE  /\ pc' \in [Callers -> {"idle", "enqueue", "wait", "answered"}]
           /\ pending' \in [Callers -> Op \cup {NoData}]
           /\ res' \in [Callers -> {"none", "ok", "err"}]
           /\ CallerInv'
  BY DEF TypeOK, CallerInv, Submit

LEMMA NextTypeInv == TypeInv /\ [Next]_vars => TypeInv'
<1> SUFFICES ASSUME TypeInv, [Next]_vars PROVE TypeInv'
  OBVIOUS
<1> USE DEF TypeInv
<1>1. ASSUME NEW t \in Callers, NEW n \in Nodes, NEW c \in CIDRs,
             CreateRoute(t, n, c)
      PROVE  TypeInv'
  <2>1. CASE n \in Unmanaged
    <3>1. routeCIDRs' \in [Unmanaged -> CIDRs \cup {NoRoute}]
      BY <1>1, <2>1 DEF CreateRoute, TypeOK
    <3> QED  BY <1>1, <2>1, <3>1
                DEF CreateRoute, TypeOK, BatchInv, CallerInv, batchVars
  <2>2. CASE n \notin Unmanaged
    <3>1. AddOp(t, n, c) \in Op /\ AddOp(t, n, c).caller = t
      BY OpsAreOps, NamesAreNames
    <3> QED  BY <1>1, <2>2, <3>1, SubmitTypes
                DEF CreateRoute, TypeOK, BatchInv, batchVars
  <2> QED  BY <2>1, <2>2
<1>2. ASSUME NEW t \in Callers, NEW n \in Nodes, NEW c \in CIDRs,
             DeleteRoute(t, n, c)
      PROVE  TypeInv'
  <2>1. CASE n \in Unmanaged
    BY <1>2, <2>1 DEF DeleteRoute, TypeOK, BatchInv, CallerInv, batchVars
  <2>2. CASE n \notin Unmanaged
    <3>1. DeleteOp(t, RouteName(n, c), n, DualStack) \in Op
          /\ DeleteOp(t, RouteName(n, c), n, DualStack).caller = t
      BY OpsAreOps, NamesAreNames, RouteConstants
    <3> QED  BY <1>2, <2>2, <3>1, SubmitTypes
                DEF DeleteRoute, TypeOK, BatchInv, batchVars
  <2> QED  BY <2>1, <2>2
<1>3. ASSUME NEW t \in Callers, ListRoutes(t) PROVE TypeInv'
  <2>1. RepoCopy \in Copy /\ cache' \in Copy
    BY <1>3, RepoCopyType DEF ListRoutes
  <2>2. ReconcileTags(RepoCopy.tags) \in SUBSET Tags
    BY <2>1, ReconcileTagsType DEF Copy
  <2>3. TagsOp(t, ReconcileTags(RepoCopy.tags)) \in Op
        /\ TagsOp(t, ReconcileTags(RepoCopy.tags)).caller = t
    BY <2>2 DEF TagsOp, Op, TagsOps
  <2>4. CASE ConfTags # {} /\ ReconcileTags(RepoCopy.tags) # RepoCopy.tags
    BY <1>3, <2>1, <2>3, <2>4, SubmitTypes
       DEF ListRoutes, TypeOK, BatchInv, batchVars
  <2>5. CASE ~(ConfTags # {} /\ ReconcileTags(RepoCopy.tags) # RepoCopy.tags)
    BY <1>3, <2>1, <2>5 DEF ListRoutes, TypeOK, BatchInv, CallerInv, batchVars
  <2> QED  BY <2>4, <2>5
<1>4. ASSUME NEW t \in Callers, AddOperation(t) PROVE TypeInv'
  <2>1. pending[t] \in Op
    BY <1>4 DEF AddOperation, CallerInv
  <2> QED  BY <1>4, <2>1 DEF AddOperation, UpdaterIdle, TypeOK, BatchInv,
                             CallerInv, batchVars
<1>5. ASSUME NEW t \in Callers, Return(t) PROVE TypeInv'
  <2>1. pending[t] \in Op
    BY <1>5 DEF Return, CallerInv
  <2>2. CASE pending[t].more /\ res[t] = "ok"
    <3>1. pending[t] \in RouteOps
      BY <2>1, <2>2 DEF Op, RouteOps, TagsOps
    <3>2. pending[t].node \in Nodes
      BY <3>1 DEF RouteOps
    <3>3. PlainName(pending[t].node) \in NodeNames
      BY <3>2 DEF PlainName, NodeNames
    <3>4. LET op == DeleteOp(t, PlainName(pending[t].node), pending[t].node, FALSE)
          IN  op \in Op /\ op.caller = t
      BY <3>2, <3>3 DEF DeleteOp, Op, RouteOps
    <3> QED  BY <1>5, <2>2, <3>4, SubmitTypes
                DEF Return, TypeOK, BatchInv, batchVars
  <2>3. CASE ~(pending[t].more /\ res[t] = "ok")
    <3>1. /\ pc' = [pc EXCEPT ![t] = "idle"]
          /\ pending' = [pending EXCEPT ![t] = NoData]
          /\ res' = [res EXCEPT ![t] = "none"]
          /\ UNCHANGED <<cloud, cache, queue, upc, batchVars, routeCIDRs>>
      BY <1>5, <2>3, Zenon DEF Return
    <3> QED  BY <3>1 DEF TypeOK, BatchInv, CallerInv, batchVars
  <2> QED  BY <2>2, <2>3
<1>6. CASE UpdateRoutes
  BY <1>6 DEF UpdateRoutes, UpdaterIdle, TypeOK, BatchInv, CallerInv, callerVars
<1>7. CASE GetTable
  <2>1. RepoCopy \in Copy /\ cache' \in Copy
    BY <1>7, RepoCopyType DEF GetTable
  <2>2. PICK known \in SUBSET Nodes : CleanupOutdatedRoutes(RepoCopy, known)
    BY <1>7 DEF GetTable
  <2>3. work' \in Copy /\ dirty' \in BOOLEAN
    BY <2>1, <2>2 DEF CleanupOutdatedRoutes, Without, Copy
  <2> QED  BY <1>7, <2>1, <2>3
              DEF GetTable, TypeOK, BatchInv, CallerInv, callerVars
<1>8. CASE GetTableFails
  BY <1>8 DEF GetTableFails, RepoGetFails, TypeOK, BatchInv, CallerInv, callerVars
<1>9. CASE ApplyOp
  <2>1. idx \in 1..Len(queue) /\ work \in Copy
    BY <1>9 DEF ApplyOp, TypeOK, BatchInv
  <2>2. work' \in Copy /\ dirty' \in BOOLEAN
    <3>1. CASE queue[idx].kind = "tags"
      BY <1>9, <2>1, <3>1, QueueElement DEF ApplyOp, ApplyTags, Copy, TagsOps
    <3>2. CASE queue[idx].kind # "tags"
      <4>1. queue[idx].cidr \in CIDRs \cup {NoRoute}
        BY <2>1, <3>2, QueueElement DEF RouteOps
      <4>2. work' = [work EXCEPT !.routes[queue[idx].name] = queue[idx].cidr]
        BY <1>9, <3>2 DEF ApplyOp, ApplyRoute
      <4>3. dirty' \in BOOLEAN
        BY <1>9, <3>2, Zenon DEF ApplyOp, ApplyRoute
      <4> QED  BY <2>1, <4>1, <4>2, <4>3 DEF Copy
    <3> QED  BY <3>1, <3>2
  <2> QED  BY <1>9, <2>1, <2>2
              DEF ApplyOp, TypeOK, BatchInv, CallerInv, callerVars
<1>10. CASE LoopDone
  BY <1>10 DEF LoopDone, TypeOK, BatchInv, CallerInv, callerVars
<1>11. CASE PutTable
  <2>1. cloud' \in Table /\ cache' = NoData
    BY <1>11, CopyTypes DEF PutTable, RepoPut, BatchInv
  <2> QED  BY <1>11, <2>1 DEF PutTable, TypeOK, BatchInv, CallerInv, callerVars
<1>12. CASE PutTableFails
  <2>1. cloud' \in Table \cup {NoTable} /\ cache' \in Copy \cup {NoData}
    BY <1>12, CopyTypes
       DEF PutTableFails, RepoPutRejected, RepoPutUnknown, BatchInv, TypeOK
  <2> QED  BY <1>12, <2>1
              DEF PutTableFails, TypeOK, BatchInv, CallerInv, callerVars
<1>13. CASE Notify
  <2>1. queue[idx].caller \in Callers
    BY <1>13, QueueElement DEF Notify, TypeOK, BatchInv
  <2> QED  BY <1>13, <2>1 DEF Notify, TypeOK, BatchInv, CallerInv
<1>14. CASE ClearJobs
  <2>1. queue' \in Seq(Op)
    BY <1>14 DEF ClearJobs
  <2> QED  BY <1>14, <2>1
              DEF ClearJobs, NoBatch, TypeOK, BatchInv, CallerInv, callerVars
<1>15. CASE CacheExpires
  BY <1>15 DEF CacheExpires, TypeOK, BatchInv, CallerInv, batchVars, callerVars
<1>16. CASE OtherUser
  <2>1. cloud' \in Table
    BY <1>16 DEF OtherUser, TypeOK, Table
  <2>2. /\ cache' \in Copy \cup {NoData}
        /\ work' \in Copy \cup {NoData}
        /\ work \in Copy => work' \in Copy
    BY <1>16, CopyTypes DEF OtherUser, TypeOK, Stale, Copy
  <2> QED  BY <1>16, <2>1, <2>2
              DEF OtherUser, TypeOK, BatchInv, CallerInv, callerVars
<1>17. ASSUME NEW how \in {"down", "panicked"}, ProcessEnds(how) PROVE TypeInv'
  <2>1. queue' \in Seq(Op)
    BY <1>17 DEF ProcessEnds
  <2> QED  BY <1>17, <2>1
              DEF ProcessEnds, NoBatch, TypeOK, BatchInv, CallerInv
<1>18. CASE Restart
  BY <1>18 DEF Restart, Alive, TypeOK, BatchInv, CallerInv, batchVars, callerVars
<1>19. CASE UNCHANGED vars
  BY <1>19 DEF vars, TypeOK, BatchInv, CallerInv, batchVars, callerVars
<1> QED
  BY <1>1, <1>2, <1>3, <1>4, <1>5, <1>6, <1>7, <1>8, <1>9, <1>10, <1>11, <1>12,
     <1>13, <1>14, <1>15, <1>16, <1>17, <1>18, <1>19
     DEF Next, CallerStep, UpdaterStep, EnvironmentStep, Crash, PanicInGet

----------------------------------------------------------------------------
LEMMA InitIInv == Init => IInv
<1> SUFFICES ASSUME Init PROVE IInv
  OBVIOUS
<1>1. QueueInv /\ NoLostOperation
  BY DEF Init, QueueInv, NoLostOperation
<1> QED  BY <1>1, InitTypeInv DEF IInv

(* What leaves the queue, the answers given so far and the callers that    *)
(* wait as they are keeps the invariant of the queue.                      *)
LEMMA QueueFrame ==
    ASSUME IInv, UNCHANGED queue,
           \A i \in 1..Len(queue) : Answered(i)' <=> Answered(i),
           \A t \in Callers : pc[t] = "wait" <=> pc'[t] = "wait",
           \A t \in Callers : pc[t] = "wait" => pending'[t] = pending[t]
    PROVE  QueueInv' /\ NoLostOperation'
<1>1. \A i \in 1..Len(queue) : queue[i].caller \in Callers
  BY QueueElement DEF IInv, TypeInv
<1>2. QueueInv'
  BY <1>1 DEF IInv, QueueInv
<1>3. NoLostOperation'
  BY DEF IInv, NoLostOperation
<1> QED  BY <1>2, <1>3

LEMMA NextIInv == IInv /\ [Next]_vars => IInv'
<1> SUFFICES ASSUME IInv, [Next]_vars PROVE QueueInv' /\ NoLostOperation'
  BY NextTypeInv DEF IInv
<1> USE DEF IInv, TypeInv
<1>1. ASSUME NEW t \in Callers, NEW op, Submit(t, op), pc[t] # "wait",
             UNCHANGED <<queue, upc, batchVars>>
      PROVE  QueueInv' /\ NoLostOperation'
  BY <1>1, QueueFrame DEF Submit, TypeOK, Answered, batchVars
<1>2. ASSUME NEW t \in Callers, AddOperation(t)
      PROVE  QueueInv' /\ NoLostOperation'
  <2>1. pending[t] \in Op /\ pending[t].caller = t /\ queue \in Seq(Op)
    BY <1>2 DEF AddOperation, CallerInv, TypeOK
  <2>2. /\ Len(queue') = Len(queue) + 1
        /\ \A i \in 1..Len(queue) : queue'[i] = queue[i]
        /\ queue'[Len(queue) + 1] = pending[t]
    BY <1>2, <2>1 DEF AddOperation
  <2>3. \A i \in 1..Len(queue) :
          queue[i].caller # t /\ queue[i].caller \in Callers
    BY <1>2, QueueElement DEF AddOperation, QueueInv, Answered, UpdaterIdle
  <2>4. /\ pc' = [pc EXCEPT ![t] = "wait"] /\ pending' = pending
        /\ upc = "idle" /\ upc' = "idle"
    BY <1>2 DEF AddOperation, UpdaterIdle
  <2>5. QueueInv'
    BY <2>1, <2>2, <2>3, <2>4 DEF QueueInv, Answered, TypeOK
  <2>6. NoLostOperation'
    BY <2>1, <2>2, <2>4 DEF NoLostOperation, Answered, TypeOK
  <2> QED  BY <2>5, <2>6
<1>3. CASE Notify
  <2>1. idx \in 1..Len(queue) /\ idx \in Nat
    BY <1>3 DEF Notify, TypeOK, BatchInv
  <2> DEFINE t == queue[idx].caller
  <2>2. t \in Callers
    BY <2>1, QueueElement
  <2>3. /\ pc' = [pc EXCEPT ![t] = "answered"] /\ UNCHANGED <<queue, upc, pending>>
        /\ upc = "notify" /\ idx' = idx + 1
    BY <1>3 DEF Notify
  <2>4. \A i \in 1..Len(queue) : queue[i].caller \in Callers
    BY QueueElement
  <2>5. QueueInv'
    BY <2>1, <2>2, <2>3, <2>4 DEF QueueInv, Answered, TypeOK
  <2>6. NoLostOperation'
    <3> SUFFICES ASSUME NEW u \in Callers, pc'[u] = "wait"
                 PROVE  \E i \in 1..Len(queue) :
                           queue[i] = pending[u] /\ ~Answered(i)'
      BY <2>3 DEF NoLostOperation
    <3>1. u # t /\ pc[u] = "wait"
      BY <2>2, <2>3 DEF TypeOK
    <3>2. PICK i \in 1..Len(queue) : queue[i] = pending[u] /\ ~Answered(i)
      BY <3>1 DEF NoLostOperation
    <3>3. i # idx
      BY <3>1, <3>2 DEF CallerInv
    <3>4. ~Answered(i)'
      BY <2>1, <2>3, <3>2, <3>3 DEF Answered
    <3> QED  BY <3>2, <3>4
  <2> QED  BY <2>5, <2>6
<1>4. CASE ClearJobs
  <2>1. \A u \in Callers : pc[u] # "wait"
    BY <1>4 DEF ClearJobs, NoLostOperation, Answered, TypeOK
  <2> QED  BY <1>4, <2>1
              DEF ClearJobs, QueueInv, NoLostOperation, callerVars
<1>5. ASSUME NEW how, ProcessEnds(how) PROVE QueueInv' /\ NoLostOperation'
  BY <1>5 DEF ProcessEnds, QueueInv, NoLostOperation
<1>6. ASSUME NEW t \in Callers, Return(t) PROVE QueueInv' /\ NoLostOperation'
  <2>1. CASE pending[t].more /\ res[t] = "ok"
    BY <1>1, <1>6, <2>1 DEF Return
  <2>2. CASE ~(pending[t].more /\ res[t] = "ok")
    <3>1. /\ pc[t] = "answered" /\ pc' = [pc EXCEPT ![t] = "idle"]
          /\ pending' = [pending EXCEPT ![t] = NoData]
          /\ UNCHANGED <<cloud, cache, queue, upc, batchVars, routeCIDRs>>
      BY <1>6, <2>2, Zenon DEF Return
    <3> QED  BY <3>1, QueueFrame DEF TypeOK, Answered, batchVars
  <2> QED  BY <2>1, <2>2
<1>7. ASSUME UNCHANGED <<queue, pc, pending>>, \A i : Answered(i)' <=> Answered(i)
      PROVE  QueueInv' /\ NoLostOperation'
  BY <1>7, QueueFrame
<1>8. ASSUME NEW t \in Callers, NEW n \in Nodes, NEW c \in CIDRs,
             CreateRoute(t, n, c) \/ DeleteRoute(t, n, c)
      PROVE  QueueInv' /\ NoLostOperation'
  <2>1. CASE n \in Unmanaged
    BY <1>7, <1>8, <2>1 DEF CreateRoute, DeleteRoute, Answered, batchVars
  <2>2. CASE n \notin Unmanaged
    BY <1>1, <1>8, <2>2 DEF CreateRoute, DeleteRoute
  <2> QED  BY <2>1, <2>2
<1>9. ASSUME NEW t \in Callers, ListRoutes(t) PROVE QueueInv' /\ NoLostOperation'
  <2>1. CASE ConfTags # {} /\ ReconcileTags(RepoCopy.tags) # RepoCopy.tags
    BY <1>1, <1>9, <2>1 DEF ListRoutes
  <2>2. CASE ~(ConfTags # {} /\ ReconcileTags(RepoCopy.tags) # RepoCopy.tags)
    BY <1>7, <1>9, <2>2 DEF ListRoutes, Answered, batchVars
  <2> QED  BY <2>1, <2>2
<1>10. CASE UpdateRoutes \/ GetTable \/ ApplyOp
  BY <1>7, <1>10 DEF UpdateRoutes, GetTable, ApplyOp, UpdaterIdle, Answered,
     callerVars
<1>11. CASE GetTableFails \/ LoopDone \/ PutTable \/ PutTableFails
  BY <1>11, QueueFrame DEF GetTableFails, LoopDone, PutTable, PutTableFails,
     Answered, callerVars, BatchInv
<1>12. CASE CacheExpires \/ OtherUser \/ Restart \/ UNCHANGED vars
  BY <1>7, <1>12 DEF CacheExpires, OtherUser, Restart, Alive, vars, Answered,
     callerVars, batchVars
<1> QED
  BY <1>2, <1>3, <1>4, <1>5, <1>6, <1>8, <1>9, <1>10, <1>11, <1>12
     DEF Next, CallerStep, UpdaterStep, EnvironmentStep, Crash, PanicInGet

----------------------------------------------------------------------------
(* Type correctness of the updater, with what its variables hold at each   *)
(* point of updateRoutes and of the callers.                               *)
THEOREM TypeCorrect == Spec => []TypeOK
<1>1. TypeInv => TypeOK
  BY DEF TypeInv
<1> QED  BY InitTypeInv, NextTypeInv, <1>1, PTL DEF Spec

THEOREM Invariant == Spec => []IInv
  BY InitIInv, NextIInv, PTL DEF Spec

(* However many callers there are and in whatever order they enqueue, the  *)
(* deferred function of updateRoutes never waits for a receiver while it   *)
(* holds d.lock.                                                           *)
THEOREM NotifierProgress == Spec => []NotifierNeverBlocks
<1>1. IInv => NotifierNeverBlocks
  BY DEF IInv, QueueInv, NotifierNeverBlocks, InBatch, Answered, TypeInv, TypeOK
<1> QED  BY Invariant, <1>1, PTL

(* A caller that waits has an unanswered operation in routesToUpdate.      *)
THEOREM NoOperationLost == Spec => []NoLostOperation
<1>1. IInv => NoLostOperation
  BY DEF IInv
<1> QED  BY Invariant, <1>1, PTL

----------------------------------------------------------------------------
(* The routes hold the outcome of the first k operations of the batch.     *)
Applied(routes, k) ==
    \A i \in 1..k : LastOf(i, k) => routes[queue[i].name] = queue[i].cidr

(* A fresh copy that was not changed has the routes of Azure's table.      *)
FreshInv ==
    /\ cache \in Copy /\ cache.fresh => cloud \in Table /\ cloud.routes = cache.routes
    /\ upc = "apply" /\ ~dirty /\ work.fresh =>
          cloud \in Table /\ cloud.routes = work.routes
    /\ upc = "notify" /\ outcome = "clean" /\ work.fresh =>
          cloud \in Table /\ cloud.routes = work.routes

(* How far the batch has got, in the updater's copy and then in Azure.     *)
ApplyInv ==
    /\ upc = "apply" => idx <= Len(queue) + 1 /\ Applied(work.routes, idx - 1)
    /\ upc = "put" => Applied(work.routes, Len(queue))
    /\ upc = "notify" /\ outcome = "clean" => Applied(work.routes, Len(queue))
    /\ upc = "notify" /\ outcome = "put" =>
          cloud \in Table /\ Applied(cloud.routes, Len(queue))

AInv == TypeInv /\ FreshInv /\ ApplyInv

LEMMA InitAInv == Init => AInv
<1> SUFFICES ASSUME Init PROVE FreshInv /\ ApplyInv
  BY InitTypeInv DEF AInv
<1>1. cache = NoData /\ upc = "idle"
  BY DEF Init
<1> QED  BY <1>1, NilIsNoCopy DEF FreshInv, ApplyInv

LEMMA ForeignIsForeign ==
    \A f \in ForeignNames, r \in NodeNames : f # r
  BY DEF ForeignNames, NodeNames, PlainName, DualName

(* A step that leaves Azure's table and the batch alone.                   *)
LEMMA AFrame ==
    ASSUME AInv, UNCHANGED <<cloud, upc, work, dirty, idx, outcome>>,
           UNCHANGED queue \/ upc = "idle",
           \/ cache' = cache
           \/ cache' = NoData
           \/ cloud \in Table /\ cache' = AsCopy(cloud)
    PROVE  FreshInv' /\ ApplyInv'
<1>1. cache' \in Copy /\ cache'.fresh =>
         cloud \in Table /\ cloud.routes = cache'.routes
  BY NilIsNoCopy DEF AInv, FreshInv, AsCopy
<1>2. FreshInv'
  BY <1>1 DEF AInv, FreshInv
<1>3. ApplyInv'
  BY DEF AInv, ApplyInv, Applied, LastOf
<1> QED  BY <1>2, <1>3

LEMMA RepoGetCache ==
    ASSUME TypeOK, RepoGet
    PROVE  cache' = cache \/ (cloud \in Table /\ cache' = AsCopy(cloud))
  BY DEF TypeOK, RepoGet, RepoCopy

LEMMA NextAInv == AInv /\ [Next]_vars => AInv'
<1> SUFFICES ASSUME AInv, [Next]_vars PROVE FreshInv' /\ ApplyInv'
  BY NextTypeInv DEF AInv
<1> USE DEF AInv, TypeInv
<1>1. ASSUME NEW t \in Callers, CallerStep(t) PROVE FreshInv' /\ ApplyInv'
  <2>1. CASE ListRoutes(t)
    BY <2>1, AFrame, RepoGetCache DEF ListRoutes, batchVars
  <2>2. CASE ~ListRoutes(t)
    BY <1>1, <2>2, AFrame DEF CallerStep, CreateRoute, DeleteRoute, AddOperation,
       Return, UpdaterIdle, batchVars
  <2> QED  BY <2>1, <2>2
<1>2. CASE UpdateRoutes
  BY <1>2 DEF UpdateRoutes, FreshInv, ApplyInv
<1>3. CASE GetTable
  <2>1. RepoCopy \in Copy /\ cache' = RepoCopy /\ cloud' = cloud
    BY <1>3, RepoCopyType DEF GetTable, RepoGet
  <2>2. RepoCopy.fresh => cloud \in Table /\ cloud.routes = RepoCopy.routes
    BY <1>3, <2>1 DEF GetTable, RepoGet, RepoCopy, AsCopy, FreshInv, TypeOK
  <2>3. PICK known \in SUBSET Nodes : CleanupOutdatedRoutes(RepoCopy, known)
    BY <1>3 DEF GetTable
  <2>4. ~dirty' => work'.routes = RepoCopy.routes
    <3>1. RepoCopy.routes \in [Names -> CIDRs \cup {NoRoute}]
      BY <2>1 DEF Copy
    <3>2. work'.routes = Without(RepoCopy.routes, Outdated(known))
      BY <2>1, <2>3 DEF CleanupOutdatedRoutes, Copy
    <3> QED  BY <2>3, <3>1, <3>2 DEF CleanupOutdatedRoutes, Without
  <2>5. work'.fresh = RepoCopy.fresh
    BY <2>1, <2>3 DEF CleanupOutdatedRoutes, Copy
  <2>6. FreshInv'
    BY <1>3, <2>1, <2>2, <2>4, <2>5 DEF GetTable, FreshInv
  <2>7. ApplyInv'
    BY <1>3 DEF GetTable, ApplyInv, Applied, BatchInv, TypeOK
  <2> QED  BY <2>6, <2>7
<1>4. CASE GetTableFails
  BY <1>4 DEF GetTableFails, RepoGetFails, FreshInv, ApplyInv
<1>5. CASE ApplyOp
  <2>1. idx \in 1..Len(queue) /\ work \in Copy /\ idx' = idx + 1
        /\ UNCHANGED <<cloud, cache, queue, upc, outcome>> /\ upc = "apply"
    BY <1>5 DEF ApplyOp, TypeOK, BatchInv
  <2> DEFINE AppliedTo(k) == \A i \in 1..k :
                LastOf(i, k) => work'.routes[queue[i].name] = queue[i].cidr
  <2>4. AppliedTo(idx) => ApplyInv'
    <3> SUFFICES ASSUME AppliedTo(idx)
                 PROVE  idx' <= Len(queue) + 1 /\ Applied(work.routes, idx - 1)'
      BY <2>1 DEF ApplyInv
    <3>1. idx' - 1 = idx
      BY <2>1
    <3> SUFFICES ASSUME NEW i \in 1..idx, LastOf(i, idx - 1)'
                 PROVE  work'.routes[queue[i].name] = queue[i].cidr
      BY <2>1, <3>1 DEF Applied
    <3>2. LastOf(i, idx)
      BY <2>1, <3>1 DEF LastOf
    <3> QED  BY <3>2
  <2>2. CASE queue[idx].kind = "tags"
    <3>1. work' = [work EXCEPT !.tags = queue[idx].tags] /\ dirty'
      BY <1>5, <2>2 DEF ApplyOp, ApplyTags
    <3>2. work'.routes = work.routes
      BY <2>1, <3>1 DEF Copy
    <3>3. AppliedTo(idx)
      <4> SUFFICES ASSUME NEW i \in 1..idx, LastOf(i, idx)
                   PROVE  work.routes[queue[i].name] = queue[i].cidr
        BY <3>2
      <4>1. i \in 1..(idx - 1) /\ LastOf(i, idx - 1)
        BY <2>1, <2>2 DEF LastOf
      <4> QED  BY <2>1, <4>1 DEF ApplyInv, Applied
    <3>4. FreshInv'
      BY <2>1, <3>1 DEF FreshInv
    <3> QED  BY <2>1, <2>4, <3>3, <3>4
  <2>3. CASE queue[idx].kind # "tags"
    <3> DEFINE r == queue[idx].name
    <3>1. r \in Names /\ queue[idx] \in RouteOps
      BY <2>1, <2>3, QueueElement DEF RouteOps, Names
    <3>2. work' = [work EXCEPT !.routes[r] = queue[idx].cidr]
      BY <1>5, <2>3 DEF ApplyOp, ApplyRoute
    <3>3. /\ work'.routes = [work.routes EXCEPT ![r] = queue[idx].cidr]
          /\ work'.fresh = work.fresh
          /\ work.routes \in [Names -> CIDRs \cup {NoRoute}]
      BY <2>1, <3>2 DEF Copy
    <3>4. AppliedTo(idx)
      <4> SUFFICES ASSUME NEW i \in 1..idx, LastOf(i, idx)
                   PROVE  work'.routes[queue[i].name] = queue[i].cidr
        OBVIOUS
      <4>1. CASE i = idx
        BY <3>1, <3>3, <4>1
      <4>2. CASE i # idx
        <5>1. i \in 1..(idx - 1) /\ LastOf(i, idx - 1) /\ queue[i].name # r
          BY <2>1, <2>3, <4>2 DEF LastOf
        <5> QED  BY <2>1, <3>1, <3>3, <5>1 DEF ApplyInv, Applied
      <4> QED  BY <4>1, <4>2
    <3>5. ~dirty' => ~dirty /\ work.routes[r] = queue[idx].cidr
      BY <1>5, <2>3 DEF ApplyOp, ApplyRoute
    <3>6. ~dirty' => ~dirty /\ work'.routes = work.routes
      BY <3>1, <3>3, <3>5
    <3>7. FreshInv'
      BY <2>1, <3>3, <3>6 DEF FreshInv
    <3> QED  BY <2>4, <3>4, <3>7
  <2> QED  BY <2>2, <2>3
<1>6. CASE LoopDone
  <2>1. upc = "apply" /\ idx - 1 = Len(queue) /\ Applied(work.routes, Len(queue))
    BY <1>6 DEF LoopDone, ApplyInv, TypeOK
  <2> QED  BY <1>6, <2>1
              DEF LoopDone, FreshInv, ApplyInv, Applied, LastOf, BatchInv
<1>7. CASE PutTable
  <2>1. work \in Copy /\ cloud' = AsTable(work) /\ cache' = NoData
    BY <1>7 DEF PutTable, RepoPut, BatchInv
  <2>2. cloud' \in Table /\ cloud'.routes = work.routes
    BY <2>1 DEF AsTable, Table, Copy
  <2> QED  BY <1>7, <2>1, <2>2, NilIsNoCopy
              DEF PutTable, FreshInv, ApplyInv, Applied, LastOf
<1>8. CASE PutTableFails
  <2>1. cache' \in Copy /\ cache'.fresh => cloud' = cloud /\ cache' = cache
    BY <1>8, NilIsNoCopy
       DEF PutTableFails, RepoPutRejected, RepoPutUnknown, Stale, TypeOK, Copy
  <2> QED  BY <1>8, <2>1 DEF PutTableFails, FreshInv, ApplyInv
<1>9. CASE Notify
  BY <1>9 DEF Notify, FreshInv, ApplyInv, Applied, LastOf
<1>10. CASE ClearJobs
  BY <1>10 DEF ClearJobs, NoBatch, FreshInv, ApplyInv
<1>11. CASE CacheExpires
  BY <1>11, AFrame DEF CacheExpires, batchVars
<1>12. CASE OtherUser
  <2>1. /\ cache' \in Copy => ~cache'.fresh
        /\ work \in Copy => work' \in Copy /\ ~work'.fresh /\ work'.routes = work.routes
    BY <1>12, NilIsNoCopy DEF OtherUser, Stale, TypeOK, Copy
  <2>2. UNCHANGED <<queue, upc, dirty, idx, outcome>>
    BY <1>12 DEF OtherUser
  <2>3. FreshInv'
    BY <2>1, <2>2 DEF FreshInv, BatchInv
  <2>4. ASSUME cloud \in Table, NEW r \in NodeNames
        PROVE  cloud' \in Table /\ cloud'.routes[r] = cloud.routes[r]
    <3>1. cloud # NoTable
      BY <2>4, NilIsNoCopy
    <3> QED  BY <1>12, <2>4, <3>1, ForeignIsForeign DEF OtherUser, Table, Names
  <2>5. \A i \in 1..Len(queue) : queue[i].kind # "tags" => queue[i].name \in NodeNames
    BY QueueElement DEF RouteOps
  <2>6. \A i, k : LastOf(i, k)' <=> LastOf(i, k)
    BY <2>2 DEF LastOf
  <2>7. ASSUME NEW k \in Nat, work \in Copy, Applied(work.routes, k)
        PROVE  Applied(work.routes, k)'
    BY <2>1, <2>2, <2>6, <2>7 DEF Applied
  <2>8. ASSUME cloud \in Table, Applied(cloud.routes, Len(queue))
        PROVE  cloud' \in Table /\ Applied(cloud.routes, Len(queue))'
    <3>1. \A i \in 1..Len(queue) : LastOf(i, Len(queue)) =>
             cloud'.routes[queue[i].name] = cloud.routes[queue[i].name]
      BY <2>4, <2>5, <2>8 DEF LastOf
    <3>2. cloud' \in Table
      BY <1>12, <2>8, NilIsNoCopy DEF OtherUser, Table
    <3> QED  BY <2>2, <2>6, <2>8, <3>1, <3>2 DEF Applied
  <2>9. /\ upc = "apply" => idx - 1 \in Nat
        /\ Len(queue) \in Nat
    BY DEF TypeOK, BatchInv
  <2>10. upc' = "apply" => idx' <= Len(queue') + 1 /\ Applied(work.routes, idx - 1)'
    BY <2>2, <2>7, <2>9 DEF ApplyInv, BatchInv
  <2>11. /\ upc' = "put" => Applied(work.routes, Len(queue))'
         /\ upc' = "notify" /\ outcome' = "clean" => Applied(work.routes, Len(queue))'
    BY <2>2, <2>7, <2>9 DEF ApplyInv, BatchInv
  <2> QED  BY <2>2, <2>3, <2>8, <2>10, <2>11 DEF ApplyInv
<1>13. ASSUME NEW how \in {"down", "panicked"}, ProcessEnds(how)
       PROVE  FreshInv' /\ ApplyInv'
  BY <1>13, NilIsNoCopy DEF ProcessEnds, NoBatch, FreshInv, ApplyInv
<1>14. CASE Restart
  BY <1>14, NilIsNoCopy DEF Restart, FreshInv, ApplyInv, batchVars
<1>15. CASE UNCHANGED vars
  BY <1>15, AFrame DEF vars, batchVars
<1> QED
  BY <1>1, <1>2, <1>3, <1>4, <1>5, <1>6, <1>7, <1>8, <1>9, <1>10, <1>11, <1>12,
     <1>13, <1>14, <1>15
     DEF Next, UpdaterStep, EnvironmentStep, Crash, PanicInGet

(* When a batch was PUT, or needed no PUT on a copy that is still current, *)
(* Azure's table holds the outcome of the last operation on every route,   *)
(* for a batch of any length.                                              *)
THEOREM BatchIsApplied == Spec => []BatchApplied
<1>1. AInv => BatchApplied
  BY DEF AInv, FreshInv, ApplyInv, Applied, BatchApplied
<1> QED  BY InitAInv, NextAInv, <1>1, PTL DEF Spec

----------------------------------------------------------------------------
(* The routes a batch may change: those it names and the outdated ones.    *)
MayChange(r) ==
    \/ r \in Outdated(Nodes)
    \/ \E i \in 1..Len(queue) : queue[i].kind # "tags" /\ queue[i].name = r

(* As long as the updater's copy is fresh, it agrees with Azure's table on *)
(* every other route.                                                      *)
KeptInv ==
    upc \in {"apply", "put"} /\ work.fresh =>
        /\ cloud \in Table
        /\ \A r \in Names : work.routes[r] = cloud.routes[r] \/ MayChange(r)

NamedInv == AInv /\ KeptInv

LEMMA OutdatedMonotone ==
    ASSUME NEW known \in SUBSET Nodes
    PROVE  Outdated(known) \subseteq Outdated(Nodes)
  BY DEF Outdated

LEMMA NextNamedInv == NamedInv /\ [Next]_vars => NamedInv'
<1> SUFFICES ASSUME NamedInv, [Next]_vars PROVE KeptInv'
  BY NextAInv DEF NamedInv
<1> USE DEF NamedInv, AInv, TypeInv
<1>1. ASSUME UNCHANGED <<cloud, upc, work>>, UNCHANGED queue \/ upc = "idle"
      PROVE  KeptInv'
  BY <1>1 DEF KeptInv, MayChange
<1>2. ASSUME upc' \notin {"apply", "put"} PROVE KeptInv'
  BY <1>2 DEF KeptInv
<1>3. ASSUME NEW t \in Callers, CallerStep(t) PROVE KeptInv'
  BY <1>1, <1>3 DEF CallerStep, CreateRoute, DeleteRoute, ListRoutes, AddOperation,
     Return, UpdaterIdle, batchVars
<1>4. CASE UpdateRoutes \/ GetTableFails \/ PutTable \/ PutTableFails \/ Notify \/ ClearJobs
  BY <1>2, <1>4 DEF UpdateRoutes, GetTableFails, PutTable, PutTableFails, Notify, ClearJobs
<1>5. CASE GetTable
  <2>1. RepoCopy \in Copy /\ cloud' = cloud /\ queue' = queue
    BY <1>5, RepoCopyType DEF GetTable
  <2>2. RepoCopy.fresh => cloud \in Table /\ cloud.routes = RepoCopy.routes
    BY <1>5, <2>1 DEF GetTable, RepoGet, RepoCopy, AsCopy, FreshInv, TypeOK
  <2>3. PICK known \in SUBSET Nodes : CleanupOutdatedRoutes(RepoCopy, known)
    BY <1>5 DEF GetTable
  <2>4. work'.fresh = RepoCopy.fresh
        /\ work'.routes = Without(RepoCopy.routes, Outdated(known))
    BY <2>1, <2>3 DEF CleanupOutdatedRoutes, Copy
  <2>5. \A r \in Names : work'.routes[r] = RepoCopy.routes[r] \/ r \in Outdated(Nodes)
    BY <2>4, OutdatedMonotone DEF Without
  <2> QED  BY <2>1, <2>2, <2>4, <2>5 DEF KeptInv, MayChange
<1>6. CASE ApplyOp
  <2>1. idx \in 1..Len(queue) /\ work \in Copy /\ upc = "apply"
        /\ UNCHANGED <<cloud, queue, upc>>
    BY <1>6 DEF ApplyOp, TypeOK, BatchInv
  <2>2. CASE queue[idx].kind = "tags"
    <3>1. work'.routes = work.routes /\ work'.fresh = work.fresh
      BY <1>6, <2>1, <2>2 DEF ApplyOp, ApplyTags, Copy
    <3> QED  BY <2>1, <3>1 DEF KeptInv, MayChange
  <2>3. CASE queue[idx].kind # "tags"
    <3>1. work' = [work EXCEPT !.routes[queue[idx].name] = queue[idx].cidr]
      BY <1>6, <2>3 DEF ApplyOp, ApplyRoute
    <3>2. /\ work'.routes = [work.routes EXCEPT ![queue[idx].name] = queue[idx].cidr]
          /\ work'.fresh = work.fresh
          /\ work.routes \in [Names -> CIDRs \cup {NoRoute}]
      BY <2>1, <3>1 DEF Copy
    <3>3. \A r \in Names : work'.routes[r] = work.routes[r] \/ MayChange(r)
      BY <2>1, <2>3, <3>2 DEF MayChange
    <3> QED  BY <2>1, <3>2, <3>3 DEF KeptInv, MayChange
  <2> QED  BY <2>2, <2>3
<1>7. CASE LoopDone
  BY <1>7 DEF LoopDone, KeptInv, MayChange
<1>8. CASE CacheExpires \/ UNCHANGED vars
  BY <1>1, <1>8 DEF CacheExpires, vars, batchVars
<1>9. CASE OtherUser
  <2>1. upc' \in {"apply", "put"} => ~work'.fresh
    BY <1>9, NilIsNoCopy DEF OtherUser, Stale, BatchInv, Copy
  <2> QED  BY <2>1 DEF KeptInv
<1>10. ASSUME NEW how \in {"down", "panicked"}, ProcessEnds(how) PROVE KeptInv'
  BY <1>2, <1>10 DEF ProcessEnds
<1>11. CASE Restart
  BY <1>2, <1>11 DEF Restart
<1> QED
  BY <1>3, <1>4, <1>5, <1>6, <1>7, <1>8, <1>9, <1>10, <1>11
     DEF Next, UpdaterStep, EnvironmentStep, Crash, PanicInGet

(* A PUT of the updater changes no route that neither its batch names nor  *)
(* cleanupOutdatedRoutes removes, whatever other users did between the     *)
(* read and the write.                                                     *)
THEOREM ForeignRoutesKept == Spec => OnlyNamedRoutesChange
<1> DEFINE Kept == upc = "put" /\ upc' = "notify" =>
         \A r \in Names :
            \/ cloud'.routes[r] = cloud.routes[r]
            \/ r \in Outdated(Nodes)
            \/ \E i \in 1..Len(queue) :
                  queue[i].kind # "tags" /\ queue[i].name = r
<1>1. Init => NamedInv
  <2>1. Init => upc = "idle"
    BY DEF Init
  <2> QED  BY <2>1, InitAInv DEF NamedInv, KeptInv
<1>2. NamedInv /\ [Next]_vars => [Kept]_vars
  <2> SUFFICES ASSUME NamedInv, Next, upc = "put", upc' = "notify", NEW r \in Names
               PROVE  cloud'.routes[r] = cloud.routes[r] \/ MayChange(r)
    BY DEF MayChange
  <2> USE DEF NamedInv, AInv, TypeInv
  <2>1. PutTable \/ PutTableFails
    BY DEF Next, CallerStep, CreateRoute, DeleteRoute, ListRoutes, AddOperation, Return,
       UpdaterStep, UpdateRoutes, GetTable, GetTableFails, ApplyOp, LoopDone, Notify,
       ClearJobs, EnvironmentStep, CacheExpires, OtherUser, Crash, PanicInGet, ProcessEnds,
       Restart, Alive, UpdaterIdle
  <2>2. cloud' = cloud \/ (work.fresh /\ cloud' = AsTable(work))
    BY <2>1 DEF PutTable, PutTableFails, RepoPut, RepoPutRejected, RepoPutUnknown
  <2>3. AsTable(work).routes = work.routes
    BY DEF AsTable
  <2> QED  BY <2>2, <2>3 DEF KeptInv
<1> QED  BY <1>1, <1>2, NextNamedInv, PTL DEF Spec, OnlyNamedRoutesChange
=============================================================================
