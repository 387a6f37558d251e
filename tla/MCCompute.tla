------------------------------ MODULE MCCompute ------------------------------
(* The three parts of the machine layer, one of which moves in a behaviour *)
(* while the others rest in their initial state: they share no state.      *)
EXTENDS Machines, Disks, BackendHosts

VARIABLE part
CVars == <<mvars, dvars, bvars, part>>

Plan(machines, faults, unloads) == [machines |-> machines, faults |-> faults, deletes |-> unloads]
MCPlans == {Plan({"u1", "u2"}, 0, 0), Plan({"u1"}, 1, 1), Plan({"u2"}, 1, 1), Plan({"f1", "f2"}, 0, 1),
            Plan({"a1", "a2"}, 0, 0), Plan({"a1", "f1"}, 1, 0)}

CInit ==
    /\ part \in {"machines", "disks", "hosts"}
    /\ MInit /\ DInit /\ BInit
    /\ part # "machines" => plan = Plan({"u1"}, 1, 1)

CNext ==
    /\ \/ part = "machines" /\ MNext /\ UNCHANGED <<dvars, bvars>>
       \/ part = "disks" /\ DNext /\ UNCHANGED <<mvars, bvars>>
       \/ part = "hosts" /\ BNext /\ UNCHANGED <<mvars, dvars>>
    /\ UNCHANGED part

Rest == UNCHANGED <<dvars, bvars, part>>
CSpec ==
    /\ CInit /\ [][CNext]_CVars
    /\ WF_CVars(part = "machines" /\ (MStep("lifecycle") \/ DeleteListed \/ PutBack \/ Unname) /\ Rest)
    /\ WF_CVars(part = "machines" /\ MStep("node") /\ Rest)
    /\ WF_CVars(part = "machines" /\ (\E n \in Machine : AskExists(n)) /\ Rest)
    /\ WF_CVars(part = "machines" /\ Expire("uniform") /\ Rest)
=============================================================================
