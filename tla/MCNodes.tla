------------------------------ MODULE MCNodes --------------------------------
(* Instances of what runs for the nodes.  NodeIpam: two cluster CIDRs of four *)
(* and two units, the first unit of the first a service range; the second     *)
(* node's scale set asks for blocks of two units.  NodeManager: a node whose  *)
(* routes are awaited, one that is recreated while labels change, one that    *)
(* kubelet gave an address.  They share no state here: part says which one    *)
(* this behaviour runs.                                                       *)
EXTENDS NodeIpam, NodeManager

CONSTANTS n1, n2

MCCluster == <<4, 2>>
MCServiceCIDRs == {<<1, Cidr(0, 1)>>}
MCNodeMask == <<1, 1>>
MCMaskOf == (n1 :> <<1, 1>>) @@ (n2 :> <<2, 1>>)

Budget(c, f, r) == [creates |-> c, deletes |-> 1, faults |-> f, restarts |-> r]
MCBudgets == {Budget(1, 2, 1), Budget(2, 1, 0), Budget(2, 0, 1)}

NP(w, b, p, r, n) == [waitForRoutes |-> w, betaLabels |-> b, provided |-> p,
                      recreate |-> r, changes |-> n]
MCNmPlans == {NP(TRUE, FALSE, 0, FALSE, 2), NP(FALSE, TRUE, 0, TRUE, 2),
              NP(FALSE, FALSE, 1, TRUE, 0)}

VARIABLE part

allVars == <<part, ivars, nvars>>

\* The part that rests is in one state.
MCInit ==
    /\ part \in {"ipam", "manager"}
    /\ IInit /\ NInit
    /\ part = "ipam" => nplan = CHOOSE x \in NmPlans : TRUE
    /\ part = "manager" => mode = "range" /\ notes = CHOOSE x \in FirstList(api) : TRUE
    /\ part = "manager" => budget = Budget(2, 0, 1)

ipamRest == <<part, nvars>>
managerRest == <<part, ivars>>

MCNext ==
    \/ part = "ipam" /\ INext /\ UNCHANGED ipamRest
    \/ part = "manager" /\ NNext /\ UNCHANGED managerRest

\* Goroutines go on, kubelet reports and registers, informers resync, a
\* process that ended is started again and the route controller makes routes.
MCSpec ==
    /\ MCInit /\ [][MCNext]_allVars
    /\ \A n \in Names : WF_ivars(part = "ipam" /\ Heartbeat(n) /\ UNCHANGED ipamRest)
    /\ WF_ivars(part = "ipam" /\ (Sync \/ Handle) /\ UNCHANGED ipamRest)
    /\ WF_ivars(part = "ipam" /\ (\E w \in Workers : updateCIDRsAllocation(w)) /\ UNCHANGED ipamRest)
    /\ WF_nvars(part = "manager" /\ (HandleEvent \/ Handler) /\ UNCHANGED managerRest)
    /\ WF_nvars(part = "manager" /\ Loop /\ UNCHANGED managerRest)
    /\ WF_nvars(part = "manager" /\ Observe /\ UNCHANGED managerRest)
    /\ WF_nvars(part = "manager" /\ Resync /\ UNCHANGED managerRest)
    /\ WF_nvars(part = "manager" /\ (RestartManager \/ RegisterNode \/ MakeRoutes) /\ UNCHANGED managerRest)

\* EveryNodeServed, of the behaviours in which the allocator runs: again and
\* again no node waits for CIDRs that are free.
ServesEveryNode == part = "ipam" => EveryNodeServed
=============================================================================
