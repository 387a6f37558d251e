------------------------------ MODULE MCClients ------------------------------
(* Instances of what drives the clients of Azure: ArmClients, with the       *)
(* backoff of the scale set VM client, which is the one with codes and       *)
(* errors of its own (azure.go, InitializeCloudFromConfig); BatchPut, the    *)
(* batched PUT of the same client; LocalServices, the batches of changes of  *)
(* backend pools; StorageAccount.  They share no state here: part says which *)
(* one this behaviour runs.                                                  *)
EXTENDS ArmClients, BatchPut, LocalServices, StorageAccount

Codes == {404}
Errors == {"NotActive"}

\* LocalServices: one node may host two endpoints.
CONSTANTS n1, n2
MCNodes == {n1, n2}
MCLayouts == {<<n1>>, <<n2>>, <<n1, n1, n2>>}

\* StorageAccount: what the two callers ask for and the account that is there.
Plain == [name |-> StNil, create |-> FALSE, kind |-> 0, soft |-> FALSE,
        multi |-> "unset", keep |-> "unset", tier |-> FALSE,
        endpoint |-> "unset", matchTags |-> FALSE, random |-> FALSE,
        source |-> StNil]
Rich == [Plain EXCEPT !.kind = 2, !.soft = TRUE, !.multi = "on", !.keep = "off"]
Private == [Plain EXCEPT !.endpoint = "yes"]
Made(t) == [kind |-> 2, soft |-> FALSE, multi |-> "off", keep |-> "unset",
            tier |-> TRUE, endpoint |-> FALSE, group |-> FALSE, tags |-> t]
StP(a, b, given, tagged, n) ==
    [asks |-> [c \in Caller |-> IF c = "c1" THEN a ELSE b],
     given |-> [x \in Account |-> IF x = "n1" THEN given ELSE StNil],
     tagged |-> tagged, faults |-> n]
MCStPlans ==
    {StP({Rich}, {[Rich EXCEPT !.multi = "unset"]}, Made({"skip"}), StNil, 1),
     StP({Private},
         {Private, [Plain EXCEPT !.endpoint = "no", !.kind = 2, !.matchTags = TRUE]},
         Made({}), StNil, 1),
     StP({[Plain EXCEPT !.name = "n1", !.create = TRUE]},
         {[Plain EXCEPT !.create = TRUE], [Private EXCEPT !.name = "n1"]},
         StNil, StNil, 0),
     StP({[Plain EXCEPT !.tier = TRUE, !.random = TRUE, !.multi = "off"]},
         {[Plain EXCEPT !.source = "n1", !.keep = "on"]}, Made({}), StNil, 0),
     StP({}, {}, Made({"driver"}), "n1", 1)}

VARIABLE part

allVars == <<part, vars, bvars, lvars, stvars>>

\* The parts that rest are in one state.
MCInit ==
    /\ part \in {"calls", "batch", "local", "account"}
    /\ Init /\ BInit /\ LInit /\ StInit
    /\ part # "batch" => batchSize = 0
    /\ part # "local" => slice = Absent
    /\ part # "account" => stplan = CHOOSE x \in StPlans : TRUE

callsRest == <<part, bvars, lvars, stvars>>
localRest == <<part, vars, bvars, stvars>>

MCNext ==
    \/ part = "calls" /\ Next /\ UNCHANGED callsRest
    \/ part = "batch" /\ BNext /\ UNCHANGED <<part, vars, lvars, stvars>>
    \/ part = "local" /\ LNext /\ UNCHANGED localRest
    \/ part = "account" /\ StNext /\ UNCHANGED <<part, vars, bvars, lvars>>

\* A call that is sent goes on; the informer, the goroutine of the batches and
\* a pass that has begun go on.
MCSpec ==
    /\ MCInit /\ [][MCNext]_allVars
    /\ \A c \in Calls : WF_vars(part = "calls" /\ Work(c) /\ UNCHANGED callsRest)
    /\ WF_lvars(part = "local" /\ InformerStep /\ UNCHANGED localRest)
    /\ WF_lvars(part = "local" /\ UpdaterStep /\ UNCHANGED localRest)
    /\ WF_lvars(part = "local" /\ PassStep /\ UNCHANGED localRest)

\* Every call returns, and the queue of pool operations empties once changes
\* and failures stop: what is retried is not retried for ever.
ClientsSettle == EveryCallReturns /\ Settles
=============================================================================
