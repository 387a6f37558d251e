--------------------------- MODULE PodCidrPromise ---------------------------
(***************************************************************************)
(* What node IPAM promises of the pod CIDRs of the nodes: a node without   *)
(* CIDRs gets a block of every cluster CIDR that no other node has, keeps  *)
(* it for as long as it exists, and gives it up when it is deleted.        *)
(***************************************************************************)
CONSTANTS Names, NoNode, NoCIDRs, Tuples, Overlap(_, _)

VARIABLE podCIDRs       \* of each node: NoNode, NoCIDRs or a tuple of blocks

PInit == podCIDRs \in [Names -> {NoNode, NoCIDRs} \cup Tuples]

PJoin(n) ==
    /\ podCIDRs[n] = NoNode
    /\ podCIDRs' = [podCIDRs EXCEPT ![n] = NoCIDRs]

PLeave(n) == podCIDRs' = [podCIDRs EXCEPT ![n] = NoNode]

PAssign(n) ==
    LET t == podCIDRs'[n] IN
    /\ podCIDRs[n] = NoCIDRs /\ t \in Tuples
    /\ \A m \in Names : podCIDRs[m] \in Tuples => ~Overlap(t, podCIDRs[m])
    /\ podCIDRs' = [podCIDRs EXCEPT ![n] = t]

PNext == \E n \in Names : PJoin(n) \/ PLeave(n) \/ PAssign(n)

PSpec == PInit /\ [][PNext]_podCIDRs
=============================================================================
