------------------------------ MODULE BatchPut ------------------------------
(***************************************************************************)
(* UpdateVMs of the scale set VM client: PutResourcesInBatches of armclient*)
(* puts many resources, the PUT requests at most batchSize at a time, the  *)
(* futures all at once, and parseResp and updateVMSSVMs make one error of  *)
(* the answers.  armclient answers for a resource only when it failed, and *)
(* never with the HTTP response.                                           *)
(***************************************************************************)
EXTENDS Integers, FiniteSets

CONSTANTS
    Resources,      \* the virtual machines of the scale set to update
    BatchSizes,     \* the batch sizes callers may configure
    MaxWait         \* bound on a Retry-After header

ASSUME BatchAssumption ==
    IsFiniteSet(Resources) /\ BatchSizes \subseteq Int /\ MaxWait \in Nat

VARIABLES
    batchSize,      \* the size asked for
    round,          \* 1, or 2 for the retry of preempted operations
    todo,           \* resources whose goroutine is not started
    put,            \* resources whose PUT is in flight
    future,         \* resources whose future is waited for
    resp,           \* PutResourcesResponse of a resource, by resource
    errors,         \* errors parseResp has kept
    result          \* what updateVMSSVMs returned

bvars == <<batchSize, round, todo, put, future, resp, errors, result>>

\* Classes of failures that the code tells apart by their messages.
Skipped == {"NotActive", "ParentNotFound", "BeingDeleted"}
Failure(class, after) == [class |-> class, after |-> after]
Failures ==
    {Failure(c, 0) : c \in Skipped \cup {"Preempted", "Conflict", "Other"}}
      \cup {Failure("Throttled", d) : d \in 0..MaxWait}
NoFailure == Failure("none", 0)

Pending == [returned |-> FALSE, failed |-> FALSE, after |-> 0]

BInit ==
    /\ batchSize \in BatchSizes
    /\ round = 1
    /\ todo = Resources
    /\ put = {} /\ future = {}
    /\ resp = [r \in Resources |-> NoFailure]
    /\ errors = {}
    /\ result = Pending

\* At least one at a time, at most as many as there are resources.
Effective(n) ==
    IF batchSize <= 0 THEN 1 ELSE IF batchSize > n THEN n ELSE batchSize

\* The loop takes a slot of the channel and starts a goroutine.
StartPut(r) ==
    /\ r \in todo
    /\ Cardinality(put) < Effective(Cardinality(Resources))
    /\ todo' = todo \ {r}
    /\ put' = put \cup {r}
    /\ UNCHANGED <<batchSize, round, future, resp, errors, result>>

\* PutResourceAsync: a future, or the error of the resource.
PutAnswered(r) ==
    /\ r \in put
    /\ put' = put \ {r}
    /\ \/ future' = future \cup {r} /\ UNCHANGED resp
       \/ \E f \in Failures : resp' = [resp EXCEPT ![r] = f] /\ UNCHANGED future
    /\ UNCHANGED <<batchSize, round, todo, errors, result>>

\* waitAsync, once every PUT is answered: one goroutine for each future.
FutureDone(r) ==
    /\ todo = {} /\ put = {}
    /\ r \in future
    /\ future' = future \ {r}
    /\ \/ UNCHANGED resp
       \/ \E f \in Failures : resp' = [resp EXCEPT ![r] = f]
    /\ UNCHANGED <<batchSize, round, todo, put, errors, result>>

\* parseResp: failures of machines that go away are skipped; a preempted one is
\* put again when a successful response came with it.
HasResponse(f) == FALSE

Retried(f) == round = 1 /\ HasResponse(f) /\ f.class = "Preempted"

Kept == {resp[r] : r \in {q \in Resources :
            resp[q] # NoFailure /\ resp[q].class \notin Skipped /\ ~Retried(resp[q])}}

\* A conflict of requests counts as throttled for five seconds.
Delayed(f) == IF f.class = "Conflict" THEN 5 ELSE f.after

BugAggregate(fs) ==
    [returned |-> TRUE, failed |-> fs # {},
     after |-> CHOOSE d \in {0} \cup {Delayed(f) : f \in fs} :
                 \A f \in fs : Delayed(f) >= d]

\* The aggregated error waits for the last of its errors.
Aggregate(fs) ==
    [returned |-> TRUE, failed |-> fs # {},
     after |-> CHOOSE d \in {0} \cup {Delayed(f) : f \in fs} :
                 \A f \in fs : Delayed(f) <= d]

Parse ==
    /\ ~result.returned
    /\ todo = {} /\ put = {} /\ future = {}
    /\ LET again == {r \in Resources : Retried(resp[r])} IN
       /\ errors' = errors \cup Kept
       /\ IF again # {}
            THEN /\ round' = 2
                 /\ todo' = again
                 /\ resp' = [r \in Resources |-> NoFailure]
                 /\ UNCHANGED result
            ELSE /\ result' = Aggregate(errors')
                 /\ UNCHANGED <<round, todo, resp>>
    /\ UNCHANGED <<batchSize, put, future>>

\* The caller updates machines again.
UpdateVMs ==
    /\ result.returned
    /\ batchSize' \in BatchSizes
    /\ round' = 1
    /\ todo' = Resources
    /\ resp' = [r \in Resources |-> NoFailure]
    /\ errors' = {}
    /\ result' = Pending
    /\ UNCHANGED <<put, future>>

BNext ==
    \/ UpdateVMs
    \/ \E r \in Resources : StartPut(r) \/ PutAnswered(r) \/ FutureDone(r)
    \/ Parse

BSpec == BInit /\ [][BNext]_bvars

-----------------------------------------------------------------------------
\* Never more PUT requests in flight than the batch size asked for, at least
\* one (the channel of PutResourcesInBatches).
AtMostBatch ==
    Cardinality(put) <= IF batchSize <= 0 THEN 1 ELSE batchSize

\* UpdateVMs succeeds only when every machine was updated or is going away,
\* and its error holds every caller back as long as the longest throttling
\* any of the machines met.
NoFailureLost ==
    result.returned =>
      \A r \in Resources :
        resp[r] # NoFailure /\ resp[r].class \notin Skipped
          => result.failed /\ result.after >= resp[r].after

\* A batch of updates of machines keeps to its size and its one error stands
\* for all that failed (PutResourcesInBatches, updateVMSSVMs).
BatchSound == AtMostBatch /\ NoFailureLost
=============================================================================
