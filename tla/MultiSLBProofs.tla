---------------------------- MODULE MultiSLBProofs ----------------------------
(***************************************************************************)
(* Proofs about MultiSLB for every number of configurations, services and  *)
(* nodes: type correctness, that a service has its frontend on at most one *)
(* load balancer of each kind, that it arrives on none that forbids it and *)
(* stays on the one it uses, and that no node is left out of the pools.    *)
(***************************************************************************)
EXTENDS MultiSLB, TLAPS, WellFoundedInduction, FiniteSetTheorems

\* A non-empty set of numbers has a least element.
LEMMA LeastNat ==
    ASSUME NEW S \in SUBSET Nat, S # {}
    PROVE  \E c \in S : \A d \in S : c <= d
<1> DEFINE R == {ss \in Nat \X Nat : ss[1] < ss[2]}
<1>1. IsWellFoundedOn(R, Nat)
  BY NatLessThanWellFounded, Zenon DEF OpToRel
<1> HIDE DEF R
<1>2. \E x \in S : \A y \in S : ~(<<y, x>> \in R)
  BY <1>1, WFMin, Zenon
<1>3. PICK c \in S : \A d \in S : ~(<<d, c>> \in R)
  BY <1>2
<1>4. ASSUME NEW d \in S PROVE c <= d
  <2>1. <<d, c>> \in Nat \X Nat /\ <<d, c>>[1] = d /\ <<d, c>>[2] = c
    OBVIOUS
  <2>2. ~(d < c)
    BY <1>3, <2>1, Zenon DEF R
  <2> QED
    BY <2>2
<1> QED
  BY <1>4

\* First picks an element of a non-empty set of configurations.
LEMMA FirstIn == \A S \in SUBSET Configs : S # {} => First(S) \in S
<1> SUFFICES ASSUME NEW S \in SUBSET Configs, S # {}
             PROVE  First(S) \in S
  OBVIOUS
<1>1. S \in SUBSET Nat
  BY SizeAssumption DEF Configs
<1>2. \E c \in S : \A d \in S : c <= d
  BY <1>1, LeastNat
<1> QED
  BY <1>2 DEF First

\* The same at the other end.
LEMMA LastIn == \A S \in SUBSET Configs : S # {} => Last(S) \in S
<1>1. SUFFICES ASSUME NEW S \in SUBSET Configs, S # {}
               PROVE  Last(S) \in S
  OBVIOUS
<1> DEFINE T == {N + 1 - c : c \in S}
<1>2. /\ T \in SUBSET Configs
      /\ T # {}
  <2>1. \A c \in S : N + 1 - c \in Configs
    BY <1>1, SizeAssumption DEF Configs
  <2>2. \E c \in S : TRUE
    BY <1>1
  <2> QED
    BY <2>1, <2>2, Zenon
<1>3. PICK t \in T : \A u \in T : t <= u
  <2>1. T \in SUBSET Nat
    BY <1>2, SizeAssumption DEF Configs
  <2> HIDE DEF T
  <2> QED
    BY <1>2, <2>1, LeastNat
<1>4. PICK c \in S : t = N + 1 - c
  BY <1>3
<1>5. \A d \in S : d <= c
  <2>1. SUFFICES ASSUME NEW d \in S PROVE d <= c
    OBVIOUS
  <2>2. N + 1 - d \in T
    OBVIOUS
  <2>3. N + 1 - c <= N + 1 - d
    BY <1>3, <1>4, <2>2
  <2> QED
    BY <1>1, <2>3, SizeAssumption DEF Configs
<1> QED
  BY <1>5 DEF Last

-------------------------------------------------------------------------------
(* Type correctness. *)

\* There are calls, so the idle value is one.
LEMMA NoCallIsCall == NoCall \in Calls
<1>1. PICK s \in Services, x \in Labels : TRUE
  BY NonEmptyAssumption
<1> DEFINE k == [s |-> s, kind |-> "delete", internal |-> FALSE, label |-> x,
                 nodes |-> {}, flipped |-> FALSE, init |-> FALSE, ignored |-> FALSE]
<1>2. k \in Calls /\ k.kind = "delete" /\ ~k.init
  BY DEF Calls
<1> QED
  BY <1>2 DEF NoCall

LEMMA ClearedLocalsTyped ==
    ASSUME ClearLocals
    PROVE  /\ cur' \in Calls
           /\ target' \in (Configs \cup {0}) \X BOOLEAN
           /\ idx' \in [Nodes -> Configs \cup {0}]
           /\ todo' \in SUBSET Nodes /\ todoLBs' \in SUBSET LBs
           /\ fipChanged' \in BOOLEAN
BY NoCallIsCall DEF ClearLocals

LEMMA CallOfTyped ==
    ASSUME TypeOK, NEW s \in Services, NEW k \in {"ensure", "update", "delete"}
    PROVE  CallOf(s, k) \in Calls
<1>1. svc[s] \in Spelled
  BY DEF TypeOK
<1>2. svc[s].internal \in BOOLEAN /\ svc[s].label \in Labels
  BY <1>1, SelectorAssumption DEF Spelled
<1> QED
  BY <1>2 DEF CallOf, Calls, ReadyNodes

\* What getMostEligibleLBForService answers is a configuration or the empty
\* name.
LEMMA ChoiceTyped ==
    ASSUME TypeOK, NEW i \in BOOLEAN, NEW c \in getMostEligibleLBForService(i)
    PROVE  c \in Configs \cup {0}
<1>0. cur.s \in Services
  BY DEF TypeOK, Calls
<1>1. getEligibleLoadBalancersForService(cur) \subseteq Configs
  BY <1>0, SelectorAssumption
  DEF getEligibleLoadBalancersForService, eligibleBySelector,
      selectedByAnnotation
<1>2. \A S \in SUBSET Configs : S # {} => First(S) \in S
  BY FirstIn
<1> HIDE DEF First
<1>3. CASE InUse # {} /\ First(InUse) \in getEligibleLoadBalancersForService(cur)
  BY <1>1, <1>3 DEF getMostEligibleLBForService
<1>4. CASE ~(InUse # {}
             /\ First(InUse) \in getEligibleLoadBalancersForService(cur))
  <2> DEFINE missing == {d \in getEligibleLoadBalancersForService(cur) :
                            <<d, i>> \notin exists}
  <2>1. CASE missing # {}
    BY <1>1, <1>2, <1>4, <2>1 DEF getMostEligibleLBForService
  <2>2. CASE missing = {}
    BY <1>1, <1>4, <2>2 DEF getMostEligibleLBForService
  <2> QED
    BY <2>1, <2>2
<1> QED
  BY <1>3, <1>4

LEMMA RemoveDeletedTyped ==
    ASSUME NEW an \in [Configs -> SUBSET Nodes],
           removeDeletedNodesFromLoadBalancerConfigurations(an)
    PROVE  /\ activeNodes' \in [Configs -> SUBSET Nodes]
           /\ idx' \in [Nodes -> Configs \cup {0}]
<1>1. activeNodes' \in [Configs -> SUBSET Nodes]
  BY DEF removeDeletedNodesFromLoadBalancerConfigurations
<1> DEFINE on(n) == {c \in Configs : n \in an[c] \cap cur.nodes}
<1>2. idx' = [n \in Nodes |-> IF on(n) = {} THEN 0 ELSE Last(on(n))]
  BY DEF removeDeletedNodesFromLoadBalancerConfigurations
<1>3. \A n \in Nodes : on(n) # {} => Last(on(n)) \in Configs
  BY LastIn
<1> HIDE DEF on
<1> QED
  BY <1>1, <1>2, <1>3

\* Taking a frontend away, noticed or not.
LEMMA RemoveFrontendTyped ==
    ASSUME TypeOK, NEW l \in LBs, RemoveFrontend(l)
    PROVE  /\ exists' \in SUBSET LBs /\ fips' \in [LBs -> SUBSET Services]
           /\ pool' \in [LBs -> SUBSET Nodes]
           /\ activeNodes' \in [Configs -> SUBSET Nodes]
           /\ nilNodes' \in SUBSET Configs /\ correct' \in SUBSET Nodes
<1>1. CASE fips[l] = {cur.s}
  BY <1>1 DEF RemoveFrontend, cleanOrphanedLoadBalancer, TypeOK
<1>2. CASE fips[l] # {cur.s}
  BY <1>2 DEF RemoveFrontend, TypeOK
<1> QED
  BY <1>1, <1>2

LEMMA RemoveFrontendUnnoticedTyped ==
    ASSUME TypeOK, NEW l \in LBs, RemoveFrontendUnnoticed(l)
    PROVE  /\ exists' \in SUBSET LBs /\ fips' \in [LBs -> SUBSET Services]
           /\ pool' \in [LBs -> SUBSET Nodes]
<1>1. CASE fips[l] = {cur.s}
  BY <1>1 DEF RemoveFrontendUnnoticed, TypeOK
<1>2. CASE fips[l] # {cur.s}
  BY <1>2 DEF RemoveFrontendUnnoticed, TypeOK
<1> QED
  BY <1>1, <1>2

LEMMA MoveNodeTyped ==
    ASSUME TypeOK, NEW n \in Nodes, NEW from, NEW to, MoveNode(n, from, to)
    PROVE  /\ activeNodes' \in [Configs -> SUBSET Nodes]
           /\ nilNodes' \in SUBSET Configs
BY DEF MoveNode, TypeOK

LEMMA ReturnErrorTyped ==
    ASSUME TypeOK, ReturnError
    PROVE  /\ pc' \in PCs /\ dirty' \in SUBSET Services
           /\ hostSync' \in SUBSET Services
           /\ cur' \in Calls
           /\ target' \in (Configs \cup {0}) \X BOOLEAN
           /\ idx' \in [Nodes -> Configs \cup {0}]
           /\ todo' \in SUBSET Nodes /\ todoLBs' \in SUBSET LBs
           /\ fipChanged' \in BOOLEAN
<1>1. ClearLocals
  BY DEF ReturnError
<1>2. cur.s \in Services
  BY DEF TypeOK, Calls
<1> QED
  BY <1>1, <1>2, ClearedLocalsTyped DEF ReturnError, TypeOK, PCs

LEMMA EndLegTyped ==
    ASSUME TypeOK, NEW call \in Calls, EndLeg(call)
    PROVE  /\ pc' \in PCs /\ cur' \in Calls
           /\ svc' \in [Services -> Spelled]
           /\ target' \in (Configs \cup {0}) \X BOOLEAN
           /\ idx' \in [Nodes -> Configs \cup {0}]
           /\ todo' \in SUBSET Nodes /\ todoLBs' \in SUBSET LBs
           /\ fipChanged' \in BOOLEAN
<1>1. CASE ~call.flipped
  <2>1. /\ cur' = [call EXCEPT !.flipped = TRUE] /\ pc' = "list"
        /\ target' = <<0, FALSE>> /\ fipChanged' = FALSE
        /\ UNCHANGED <<svc, idx, todo, todoLBs>>
    BY <1>1 DEF EndLeg
  <2>2. cur' \in Calls
    BY <2>1 DEF Calls
  <2>3. target' \in (Configs \cup {0}) \X BOOLEAN
    BY <2>1
  <2> QED
    BY <2>1, <2>2, <2>3 DEF TypeOK, PCs
<1>2. CASE call.flipped
  <2>1. ClearLocals /\ pc' = "idle"
    BY <1>2 DEF EndLeg
  <2>2. svc' \in [Services -> Spelled]
    <3>1. svc \in [Services -> Spelled] /\ call.s \in Services
      BY DEF TypeOK, Calls
    <3>2. [svc[call.s] EXCEPT !.state = Deleted(call)] \in Spelled
      BY <3>1 DEF Spelled, Deleted
    <3>3. \/ svc' = svc
          \/ svc' = [svc EXCEPT ![call.s].state = Deleted(call)]
      BY <1>2 DEF EndLeg
    <3> HIDE DEF Spelled, Deleted
    <3> QED
      BY <3>1, <3>2, <3>3
  <2> QED
    BY <2>1, <2>2, ClearedLocalsTyped DEF PCs
<1> QED
  BY <1>1, <1>2

-------------------------------------------------------------------------------

\* Every step keeps the types.
LEMMA TypeStep == TypeOK /\ [Next]_vars => TypeOK'
<1> SUFFICES ASSUME TypeOK, [Next]_vars PROVE TypeOK'
  OBVIOUS
<1> USE DEF cloud, memory, local, budget, users, queues
<1>1. ASSUME NEW s \in Services, NEW k \in {"ensure", "update", "delete"},
             Begin(s, k), dirty' \in SUBSET Services,
             hostSync' \in SUBSET Services
      PROVE  TypeOK'
  <2>1. cur' \in Calls
    BY <1>1, CallOfTyped DEF Begin
  <2> QED
    BY <1>1, <2>1 DEF Begin, TypeOK, PCs
<1>2. ASSUME NEW s \in Services, EnsureLoadBalancer(s) PROVE TypeOK'
  BY <1>1, <1>2 DEF EnsureLoadBalancer, TypeOK
<1>3. ASSUME NEW s \in Services, UpdateLoadBalancer(s) PROVE TypeOK'
  <2>1. dirty' \in SUBSET Services /\ hostSync' \in SUBSET Services
    BY <1>3 DEF UpdateLoadBalancer, TypeOK
  <2>2. CASE shouldUpdateLoadBalancer(s)
    BY <1>1, <1>3, <2>1, <2>2 DEF UpdateLoadBalancer
  <2>3. CASE ~shouldUpdateLoadBalancer(s)
    BY <1>3, <2>1, <2>3 DEF UpdateLoadBalancer, TypeOK
  <2> QED
    BY <2>2, <2>3
<1>4. ASSUME NEW s \in Services, EnsureLoadBalancerDeleted(s) PROVE TypeOK'
  BY <1>1, <1>4 DEF EnsureLoadBalancerDeleted, TypeOK
<1>5. CASE ListManagedLBs
  <2>1. CASE synced
    BY <1>5, <2>1 DEF ListManagedLBs, TypeOK, PCs
  <2>2. CASE ~synced
    <3>1. recordExistingNodesOnLoadBalancers \in [Configs -> SUBSET Nodes]
      BY DEF recordExistingNodesOnLoadBalancers, TypeOK
    <3>2. reconcileMultipleStandardLoadBalancerConfigurations
      BY <1>5, <2>2 DEF ListManagedLBs
    <3>3. /\ activeNodes' \in [Configs -> SUBSET Nodes]
          /\ idx' \in [Nodes -> Configs \cup {0}]
      BY <3>1, <3>2, RemoveDeletedTyped
      DEF reconcileMultipleStandardLoadBalancerConfigurations
    <3>4. /\ activeServices' \in [Configs -> SUBSET Services]
          /\ cur' \in Calls /\ todo' \in SUBSET Nodes /\ pc' \in PCs
          /\ nilNodes' \in SUBSET Configs
      BY <3>2 DEF reconcileMultipleStandardLoadBalancerConfigurations, TypeOK,
                  Calls, PCs
    <3> QED
      BY <1>5, <3>3, <3>4 DEF ListManagedLBs, TypeOK
  <2> QED
    BY <2>1, <2>2
<1>6. ASSUME NEW n \in Nodes, accommodateNodeByPrimaryVMSet(n) PROVE TypeOK'
  <2>1. /\ activeNodes' \in [Configs -> SUBSET Nodes]
        /\ nilNodes' \in SUBSET Configs /\ correct' \in SUBSET Nodes
    <3>1. CASE n \in correct \/ primaryConfigs(n) = {}
      BY <1>6, <3>1 DEF accommodateNodeByPrimaryVMSet, TypeOK
    <3>2. CASE ~(n \in correct \/ primaryConfigs(n) = {})
      <4>1. CASE n \in activeNodes[First(primaryConfigs(n))]
        BY <1>6, <3>2, <4>1 DEF accommodateNodeByPrimaryVMSet, TypeOK
      <4>2. CASE n \notin activeNodes[First(primaryConfigs(n))]
        <5>1. /\ MoveNode(n, idx[n], First(primaryConfigs(n)))
              /\ correct' = correct \cup {n}
          BY <1>6, <3>2, <4>2 DEF accommodateNodeByPrimaryVMSet
        <5> QED
          BY <5>1, MoveNodeTyped DEF TypeOK
      <4> QED
        BY <4>1, <4>2
    <3> QED
      BY <3>1, <3>2
  <2> QED
    BY <1>6, <2>1 DEF accommodateNodeByPrimaryVMSet, TypeOK
<1>7. CASE accommodateNodesByPrimaryVMSetDone
  BY <1>7 DEF accommodateNodesByPrimaryVMSetDone, TypeOK, PCs, Calls
<1>8. ASSUME NEW n \in Nodes, accommodateNodeByNodeSelector(n) PROVE TypeOK'
  <2> DEFINE e == eligibleForNode(n)
  <2>1. /\ activeNodes' \in [Configs -> SUBSET Nodes]
        /\ nilNodes' \in SUBSET Configs
    <3>1. CASE n \in correct \/ idx[n] \in e
      BY <1>8, <3>1 DEF accommodateNodeByNodeSelector, TypeOK
    <3>2. CASE ~(n \in correct \/ idx[n] \in e)
      <4>1. MoveNode(n, idx[n], IF e = {} THEN 0 ELSE fewestNodes(e))
        BY <1>8, <3>2 DEF accommodateNodeByNodeSelector
      <4> QED
        BY <4>1, MoveNodeTyped
    <3> QED
      BY <3>1, <3>2
  <2> QED
    BY <1>8, <2>1 DEF accommodateNodeByNodeSelector, TypeOK
<1>9. CASE accommodateNodesByNodeSelectorDone
  <2>1. CASE cur.init
    BY <1>9, <2>1 DEF accommodateNodesByNodeSelectorDone, TypeOK, PCs, Calls
  <2>2. CASE ~cur.init
    BY <1>9, <2>2 DEF accommodateNodesByNodeSelectorDone, TypeOK, PCs
  <2> QED
    BY <2>1, <2>2
<1>10. CASE getServiceLoadBalancer
  <2>1. PICK c \in getMostEligibleLBForService(isInternal) :
          \/ /\ CurrentLBs = {}
             /\ target' = <<c, isInternal>>
             /\ UNCHANGED <<cloud, memory>>
          \/ \E l \in CurrentLBs :
               \/ /\ ~(wantLb /\ l[1] # c)
                  /\ target' = l
                  /\ UNCHANGED <<cloud, memory>>
               \/ /\ wantLb /\ l[1] # c
                  /\ RemoveFrontend(l)
                  /\ activeServices' =
                        [activeServices EXCEPT ![l[1]] = @ \ {cur.s}]
                  /\ target' = <<c, isInternal>>
                  /\ UNCHANGED synced
    BY <1>10 DEF getServiceLoadBalancer
  <2>2. isInternal \in BOOLEAN
    BY DEF isInternal
  <2>3. <<c, isInternal>> \in (Configs \cup {0}) \X BOOLEAN
    BY <2>2, ChoiceTyped
  <2>4. CurrentLBs \subseteq LBs
    BY DEF CurrentLBs, TypeOK
  <2>5. pc' \in PCs
    BY <1>10 DEF getServiceLoadBalancer, NextPcAfterChoice, PCs
  <2>6. CASE UNCHANGED <<cloud, memory>>
             /\ target' \in (Configs \cup {0}) \X BOOLEAN
    BY <1>10, <2>5, <2>6 DEF getServiceLoadBalancer, TypeOK
  <2>7. ASSUME NEW l \in CurrentLBs, RemoveFrontend(l), UNCHANGED synced,
               activeServices' = [activeServices EXCEPT ![l[1]] = @ \ {cur.s}],
               target' = <<c, isInternal>>
        PROVE  TypeOK'
    <3>1. activeServices' \in [Configs -> SUBSET Services]
      BY <2>4, <2>7 DEF TypeOK, LBs
    <3> QED
      BY <1>10, <2>3, <2>4, <2>5, <2>7, <3>1, RemoveFrontendTyped
      DEF getServiceLoadBalancer, TypeOK
  <2>8. \A l \in LBs : l \in (Configs \cup {0}) \X BOOLEAN
    BY DEF LBs
  <2> QED
    BY <2>1, <2>3, <2>4, <2>6, <2>7, <2>8
<1>11. CASE getServiceLoadBalancerError
  BY <1>11, ReturnErrorTyped DEF getServiceLoadBalancerError, TypeOK
<1>12. CASE ReconcileBackendPools
  BY <1>12 DEF ReconcileBackendPools, TypeOK, PCs
<1>13. CASE CreateOrUpdateLB
  <2>1. /\ activeNodes' \in [Configs -> SUBSET Nodes]
        /\ idx' \in [Nodes -> Configs \cup {0}]
    BY <1>13, RemoveDeletedTyped DEF CreateOrUpdateLB, TypeOK
  <2>2. cur.s \in Services /\ cur.nodes \in SUBSET Nodes
    BY DEF TypeOK, Calls
  <2> QED
    BY <1>13, <2>1, <2>2 DEF CreateOrUpdateLB, TypeOK, PCs
<1>14. CASE CreateOrUpdateUnnamedLB
  BY <1>14, ReturnErrorTyped DEF CreateOrUpdateUnnamedLB, TypeOK
<1>15. CASE DeleteFrontend
  <2>1. EndLeg(cur)
    BY <1>15 DEF DeleteFrontend
  <2>2. CASE OnTarget
    <3>1. target \in LBs
      BY <2>2 DEF OnTarget, TypeOK
    <3>2. RemoveFrontend(target)
      BY <1>15, <2>2 DEF DeleteFrontend
    <3>3. activeServices' \in [Configs -> SUBSET Services]
      BY <1>15, <2>2, <3>1 DEF DeleteFrontend, TypeOK, LBs
    <3> QED
      BY <1>15, <2>1, <3>1, <3>2, <3>3, EndLegTyped, RemoveFrontendTyped
      DEF DeleteFrontend, TypeOK
  <2>3. CASE ~OnTarget
    BY <1>15, <2>1, <2>3, EndLegTyped DEF DeleteFrontend, TypeOK
  <2> QED
    BY <2>2, <2>3
<1>16. ASSUME NEW l \in LBs, EnsureHostsInPool(l) PROVE TypeOK'
  <2>1. cur.nodes \in SUBSET Nodes
    BY DEF TypeOK, Calls
  <2> QED
    BY <1>16, <2>1 DEF EnsureHostsInPool, TypeOK
<1>17. CASE reconcileMultipleStandardLoadBalancerConfigurationStatus
  <2>1. EndLeg(cur) /\ cur.s \in Services
    BY <1>17 DEF reconcileMultipleStandardLoadBalancerConfigurationStatus,
                 TypeOK, Calls
  <2>2. activeServices' \in [Configs -> SUBSET Services]
    BY <1>17, <2>1 DEF reconcileMultipleStandardLoadBalancerConfigurationStatus,
                       TypeOK
  <2> QED
    BY <1>17, <2>1, <2>2, EndLegTyped
    DEF reconcileMultipleStandardLoadBalancerConfigurationStatus, TypeOK
<1>18. CASE CallFails
  BY <1>18, ReturnErrorTyped, BoundAssumption DEF CallFails, TypeOK
<1>19. CASE CallFailsAfterWrite
  <2>1. /\ exists' \in SUBSET LBs /\ fips' \in [LBs -> SUBSET Services]
        /\ pool' \in [LBs -> SUBSET Nodes]
    <3>1. CurrentLBs \subseteq LBs
      BY DEF CurrentLBs, TypeOK
    <3>2. cur.s \in Services
      BY DEF TypeOK, Calls
    <3>3. OnTarget => target \in LBs
      BY DEF OnTarget, TypeOK
    <3>4. CASE \E l \in LBs : RemoveFrontendUnnoticed(l)
      BY <3>4, RemoveFrontendUnnoticedTyped
    <3>5. CASE /\ target \in LBs
               /\ exists' = exists \cup {target}
               /\ fips' = [fips EXCEPT ![target] = @ \cup {cur.s}]
               /\ UNCHANGED pool
      BY <3>2, <3>5 DEF TypeOK
    <3> QED
      BY <1>19, <3>1, <3>3, <3>4, <3>5 DEF CallFailsAfterWrite
  <2> QED
    BY <1>19, <2>1, ReturnErrorTyped, BoundAssumption
    DEF CallFailsAfterWrite, TypeOK
<1>24. CASE DeletionErrorIgnored
  <2> DEFINE call == [cur EXCEPT !.ignored = TRUE]
  <2>1. call \in Calls /\ EndLeg(call)
    BY <1>24 DEF DeletionErrorIgnored, TypeOK, Calls
  <2> HIDE DEF call
  <2>2. /\ exists' \in SUBSET LBs /\ fips' \in [LBs -> SUBSET Services]
        /\ pool' \in [LBs -> SUBSET Nodes]
    <3>1. CASE UNCHANGED <<exists, fips, pool>>
      BY <3>1 DEF TypeOK
    <3>2. CASE pc = "put" /\ RemoveFrontendUnnoticed(target)
      <4>1. target \in LBs
        BY <1>24, <3>2 DEF DeletionErrorIgnored, Calling, wantLb, OnTarget, TypeOK
      <4> QED
        BY <3>2, <4>1, RemoveFrontendUnnoticedTyped
    <3> QED
      BY <1>24, <3>1, <3>2 DEF DeletionErrorIgnored
  <2> QED
    BY <1>24, <2>1, <2>2, EndLegTyped, BoundAssumption DEF DeletionErrorIgnored, TypeOK
<1>20. ASSUME NEW s \in Services, NEW x \in Spelled, EditService(s, x)
       PROVE  TypeOK'
  <2>1. svc' \in [Services -> Spelled]
    BY <1>20 DEF EditService, TypeOK
  <2>2. edits' \in 0..MaxEdits
    BY <1>20, BoundAssumption DEF EditService, TypeOK
  <2>3. dirty' \in SUBSET Services
    BY <1>20 DEF EditService, TypeOK
  <2>4. UNCHANGED <<exists, fips, pool, activeServices, activeNodes, nilNodes,
                    correct, synced, cur, target, idx, todo, todoLBs,
                    fipChanged, node, allow, pc, hostSync, faults, restarts>>
    BY <1>20 DEF EditService
  <2> HIDE DEF Spelled
  <2> QED
    BY <2>1, <2>2, <2>3, <2>4 DEF TypeOK
<1>21. ASSUME NEW n \in Nodes, NEW x \in NodeStates, updateNodeCaches(n, x)
       PROVE  TypeOK'
  BY <1>21, BoundAssumption, SelectorAssumption
  DEF updateNodeCaches, TypeOK, Served
<1>22. ASSUME NEW a \in Flags, Restart(a) PROVE TypeOK'
  <2>1. ClearLocals
    BY <1>22 DEF Restart
  <2>2. /\ activeServices' \in [Configs -> SUBSET Services]
        /\ activeNodes' \in [Configs -> SUBSET Nodes]
        /\ nilNodes' \in SUBSET Configs
        /\ correct' \in SUBSET Nodes
        /\ synced' \in BOOLEAN
        /\ pc' \in PCs
    BY <1>22 DEF Restart, PCs
  <2>3. /\ allow' \in [Configs -> BOOLEAN]
        /\ dirty' \in SUBSET Services /\ hostSync' \in SUBSET Services
    BY <1>22, SelectorAssumption DEF Restart, Served
  <2>4. restarts' \in 0..MaxRestarts
    BY <1>22, BoundAssumption DEF Restart, TypeOK
  <2>5. UNCHANGED <<exists, fips, pool, svc, node, edits, faults>>
    BY <1>22 DEF Restart
  <2> QED
    BY <2>1, <2>2, <2>3, <2>4, <2>5, ClearedLocalsTyped DEF TypeOK
<1>23. CASE UNCHANGED vars
  BY <1>23 DEF vars, TypeOK
<1> QED
  BY <1>2, <1>3, <1>4, <1>5, <1>6, <1>7, <1>8, <1>9, <1>10, <1>11, <1>12,
     <1>13, <1>14, <1>15, <1>16, <1>17, <1>18, <1>19, <1>20, <1>21, <1>22,
     <1>23, <1>24
  DEF Next, Step

\* Every variable of MultiSLB keeps its type, whatever the number of
\* configurations, services and nodes, and however often calls fail.
THEOREM TypeCorrect == Spec => []TypeOK
<1>1. Init => TypeOK
  <2> SUFFICES ASSUME Init PROVE TypeOK
    OBVIOUS
  <2>1. cur \in Calls
    BY NoCallIsCall DEF Init
  <2>2. svc \in [Services -> Spelled] 
    BY DEF Init
  <2>3. node \in [Nodes -> {"absent", "ready", "excluded"}]
    BY SelectorAssumption DEF Init
  <2>4. target \in (Configs \cup {0}) \X BOOLEAN
    BY DEF Init
  <2>5. /\ edits \in 0..MaxEdits /\ faults \in 0..MaxFaults
        /\ restarts \in 0..MaxRestarts
    BY BoundAssumption DEF Init
  <2> QED
    BY <2>1, <2>2, <2>3, <2>4, <2>5 DEF Init, TypeOK, PCs
<1> QED
  BY <1>1, TypeStep, PTL DEF Spec

-------------------------------------------------------------------------------

\* A step that adds no frontend, deletes only load balancers that have none
\* left, and leaves the choice alone or ends it, keeps the invariant.
LEMMA ShrinkingKeepsInv ==
    ASSUME TypeOK, TypeOK', FrontendInv,
           \A l \in LBs : fips'[l] \subseteq fips[l],
           \A l \in LBs : l \in exists /\ l \notin exists' => fips'[l] = {},
           \/ pc' \notin {"pools", "put"}
           \/ pc \in {"pools", "put"} /\ UNCHANGED <<cur, target>>
    PROVE  FrontendInv'
<1>1. FipsOnExisting'
  BY DEF FrontendInv, FipsOnExisting
<1>2. OneFrontendPerKind'
  BY DEF FrontendInv, OneFrontendPerKind
<1>3. TargetSound'
  BY DEF FrontendInv, TargetSound, isInternal, wantLb
<1> QED
  BY <1>1, <1>2, <1>3 DEF FrontendInv

\* The two ways a frontend goes only shrink the frontends, and a load
\* balancer goes with its last one.
LEMMA RemovalShrinks ==
    ASSUME TypeOK, NEW l \in LBs,
           RemoveFrontend(l) \/ RemoveFrontendUnnoticed(l)
    PROVE  /\ \A m \in LBs : fips'[m] \subseteq fips[m]
           /\ \A m \in LBs : m # l => fips'[m] = fips[m]
           /\ cur.s \notin fips'[l]
           /\ \A m \in LBs : m \in exists /\ m \notin exists' => fips'[m] = {}
<1>1. fips \in [LBs -> SUBSET Services] /\ exists \in SUBSET LBs
  BY DEF TypeOK
<1>2. CASE fips[l] = {cur.s}
  <2>1. /\ exists' = exists \ {l}
        /\ fips' = [fips EXCEPT ![l] = {}] \/ fips' = [fips EXCEPT ![l] = @ \ {cur.s}]
    BY <1>2 DEF RemoveFrontend, RemoveFrontendUnnoticed,
                cleanOrphanedLoadBalancer
  <2> QED
    BY <1>1, <1>2, <2>1
<1>3. CASE fips[l] # {cur.s}
  <2>1. exists' = exists /\ fips' = [fips EXCEPT ![l] = @ \ {cur.s}]
    BY <1>3 DEF RemoveFrontend, RemoveFrontendUnnoticed
  <2> QED
    BY <1>1, <2>1
<1> QED
  BY <1>2, <1>3

\* The service is put on the chosen load balancer, where alone it may be.
LEMMA AdditionKeepsInv ==
    ASSUME TypeOK, TypeOK', FrontendInv, pc = "put", wantLb, target \in LBs,
           exists' = exists \cup {target},
           fips' = [fips EXCEPT ![target] = @ \cup {cur.s}],
           pc' \notin {"pools", "put"}
    PROVE  FrontendInv'
<1>1. /\ \A l \in LBs : l # target => fips'[l] = fips[l]
      /\ fips'[target] = fips[target] \cup {cur.s}
  BY DEF TypeOK
<1>2. FipsOnExisting'
  BY <1>1 DEF FrontendInv, FipsOnExisting
<1>3. TargetSound'
  BY DEF TargetSound
<1>4. OneFrontendPerKind'
  <2> SUFFICES ASSUME NEW l \in LBs, NEW m \in LBs, NEW s,
                      l[2] = m[2], s \in fips'[l], s \in fips'[m]
               PROVE  l = m
    BY DEF OneFrontendPerKind
  <2>1. /\ target[2] = isInternal
        /\ \A k \in LBs : k[2] = isInternal /\ cur.s \in fips[k] => k = target
    BY DEF FrontendInv, TargetSound
  <2>2. CASE s = cur.s
    <3>1. \A k \in LBs : k[2] = l[2] /\ s \in fips[k] /\ k # target
                            => l[2] # target[2]
      BY <2>1, <2>2
    <3>2. CASE l = target \/ m = target
      BY <1>1, <2>1, <2>2, <3>2
    <3>3. CASE l # target /\ m # target
      BY <1>1, <3>3 DEF FrontendInv, OneFrontendPerKind
    <3> QED
      BY <3>2, <3>3
  <2>3. CASE s # cur.s
    <3>1. s \in fips[l] /\ s \in fips[m]
      BY <1>1, <2>3
    <3> QED
      BY <3>1 DEF FrontendInv, OneFrontendPerKind
  <2> QED
    BY <2>2, <2>3
<1> QED
  BY <1>2, <1>3, <1>4 DEF FrontendInv

\* The choice of the load balancer: the service is nowhere else.
LEMMA ChoiceKeepsInv ==
    ASSUME TypeOK, TypeOK', FrontendInv, getServiceLoadBalancer
    PROVE  FrontendInv'
<1> USE DEF cloud, memory
<1>1. PICK c \in getMostEligibleLBForService(isInternal) :
          \/ /\ CurrentLBs = {}
             /\ target' = <<c, isInternal>>
             /\ UNCHANGED <<exists, fips>>
          \/ \E l \in CurrentLBs :
               \/ /\ target' = l
                  /\ UNCHANGED <<exists, fips>>
               \/ /\ RemoveFrontend(l)
                  /\ target' = <<c, isInternal>>
  BY DEF getServiceLoadBalancer
<1>2. UNCHANGED cur
  BY DEF getServiceLoadBalancer
<1>3. \A l \in LBs : l[2] = isInternal /\ cur.s \in fips[l] => l \in CurrentLBs
  BY DEF FrontendInv, FipsOnExisting, CurrentLBs
<1>4. \A l, m \in CurrentLBs : l \in LBs /\ l[2] = isInternal /\ l = m
  BY DEF CurrentLBs, FrontendInv, OneFrontendPerKind, TypeOK
<1>5. isInternal' = isInternal
  BY <1>2 DEF isInternal
<1>6. CASE /\ CurrentLBs = {} /\ target' = <<c, isInternal>>
           /\ UNCHANGED <<exists, fips>>
  <2>1. \A l \in LBs : ~(l[2] = isInternal /\ cur.s \in fips[l])
    BY <1>3, <1>6
  <2>2. TargetSound'
    BY <1>2, <1>5, <1>6, <2>1 DEF TargetSound
  <2> QED
    BY <1>6, <2>2 DEF FrontendInv, FipsOnExisting, OneFrontendPerKind
<1>7. ASSUME NEW l \in CurrentLBs, target' = l, UNCHANGED <<exists, fips>>
      PROVE  FrontendInv'
  <2>1. TargetSound'
    BY <1>2, <1>3, <1>4, <1>5, <1>7 DEF TargetSound
  <2> QED
    BY <1>7, <2>1 DEF FrontendInv, FipsOnExisting, OneFrontendPerKind
<1>8. ASSUME NEW l \in CurrentLBs, RemoveFrontend(l),
             target' = <<c, isInternal>>
      PROVE  FrontendInv'
  <2>1. /\ \A m \in LBs : fips'[m] \subseteq fips[m]
        /\ cur.s \notin fips'[l]
        /\ \A m \in LBs : m \in exists /\ m \notin exists' => fips'[m] = {}
    BY <1>4, <1>8, RemovalShrinks
  <2>2. \A m \in LBs : ~(m[2] = isInternal /\ cur.s \in fips'[m])
    BY <1>3, <1>4, <2>1
  <2>3. TargetSound'
    BY <1>2, <1>5, <1>8, <2>2 DEF TargetSound
  <2>4. FipsOnExisting'
    BY <2>1 DEF FrontendInv, FipsOnExisting
  <2>5. OneFrontendPerKind'
    BY <2>1 DEF FrontendInv, OneFrontendPerKind
  <2> QED
    BY <2>3, <2>4, <2>5 DEF FrontendInv
<1> QED
  BY <1>1, <1>6, <1>7, <1>8

\* Every step keeps the invariant.
LEMMA FrontendStep ==
    TypeOK /\ TypeOK' /\ FrontendInv /\ [Next]_vars => FrontendInv'
<1> SUFFICES ASSUME TypeOK, TypeOK', FrontendInv, [Next]_vars
             PROVE  FrontendInv'
  OBVIOUS
<1> USE DEF cloud, memory, local, budget, users, queues
<1>1. CASE /\ UNCHANGED <<exists, fips>>
           /\ \/ pc' \notin {"pools", "put"}
              \/ pc \in {"pools", "put"} /\ UNCHANGED <<cur, target>>
  BY <1>1, ShrinkingKeepsInv
<1>2. CASE getServiceLoadBalancer
  BY <1>2, ChoiceKeepsInv
<1>3. CASE CreateOrUpdateLB
  <2>1. /\ pc = "put" /\ wantLb /\ target \in LBs
        /\ exists' = exists \cup {target}
        /\ fips' = [fips EXCEPT ![target] = @ \cup {cur.s}]
        /\ pc' = "primary"
    BY <1>3 DEF CreateOrUpdateLB
  <2> QED
    BY <2>1, AdditionKeepsInv
<1>4. CASE DeleteFrontend
  <2>1. pc' \notin {"pools", "put"}
    BY <1>4 DEF DeleteFrontend, EndLeg
  <2>2. CASE OnTarget
    <3>1. target \in LBs /\ RemoveFrontend(target)
      BY <1>4, <2>2 DEF DeleteFrontend, OnTarget, TypeOK
    <3> QED
      BY <2>1, <3>1, RemovalShrinks, ShrinkingKeepsInv
  <2>3. CASE ~OnTarget
    <3>1. UNCHANGED <<exists, fips>>
      BY <1>4, <2>3 DEF DeleteFrontend
    <3> QED
      BY <1>1, <2>1, <3>1
  <2> QED
    BY <2>2, <2>3
<1>5. CASE CallFailsAfterWrite
  <2>1. pc' = "idle"
    BY <1>5 DEF CallFailsAfterWrite, ReturnError
  <2>2. ASSUME pc = "put", wantLb, target \in LBs,
               exists' = exists \cup {target},
               fips' = [fips EXCEPT ![target] = @ \cup {cur.s}]
        PROVE  FrontendInv'
    BY <2>1, <2>2, AdditionKeepsInv
  <2>3. ASSUME NEW l \in LBs, RemoveFrontendUnnoticed(l)
        PROVE  FrontendInv'
    BY <2>1, <2>3, RemovalShrinks, ShrinkingKeepsInv
  <2>4. /\ OnTarget => target \in LBs
        /\ CurrentLBs \subseteq LBs
    BY DEF OnTarget, CurrentLBs, TypeOK
  <2> QED
    BY <1>5, <2>2, <2>3, <2>4 DEF CallFailsAfterWrite
<1>21. CASE DeletionErrorIgnored
  <2>1. pc' \notin {"pools", "put"}
    BY <1>21 DEF DeletionErrorIgnored, EndLeg
  <2>2. CASE UNCHANGED <<exists, fips>>
    BY <1>1, <2>1, <2>2
  <2>3. CASE pc = "put" /\ RemoveFrontendUnnoticed(target)
    <3>1. target \in LBs
      BY <1>21, <2>3 DEF DeletionErrorIgnored, Calling, wantLb, OnTarget, TypeOK
    <3> QED
      BY <2>1, <2>3, <3>1, RemovalShrinks, ShrinkingKeepsInv
  <2> QED
    BY <1>21, <2>2, <2>3 DEF DeletionErrorIgnored
<1>6. CASE UNCHANGED vars
  BY <1>6, <1>1 DEF vars
<1>7. ASSUME NEW s \in Services, NEW k \in {"ensure", "update", "delete"},
             Begin(s, k)
      PROVE  FrontendInv'
  BY <1>1, <1>7 DEF Begin
<1>8. ASSUME NEW s \in Services,
             \/ EnsureLoadBalancer(s)
             \/ UpdateLoadBalancer(s)
             \/ EnsureLoadBalancerDeleted(s)
      PROVE  FrontendInv'
  <2>1. CASE Begin(s, "ensure") \/ Begin(s, "update") \/ Begin(s, "delete")
    BY <1>7, <2>1
  <2>2. CASE pc = "idle" /\ UNCHANGED <<exists, fips, pc>>
    BY <1>1, <2>2
  <2> QED
    BY <1>8, <2>1, <2>2
    DEF EnsureLoadBalancer, UpdateLoadBalancer, EnsureLoadBalancerDeleted
<1>9. CASE ListManagedLBs
  BY <1>1, <1>9
  DEF ListManagedLBs, reconcileMultipleStandardLoadBalancerConfigurations
<1>10. ASSUME NEW n \in Nodes, accommodateNodeByPrimaryVMSet(n)
       PROVE  FrontendInv'
  BY <1>1, <1>10 DEF accommodateNodeByPrimaryVMSet
<1>11. ASSUME NEW n \in Nodes, accommodateNodeByNodeSelector(n)
       PROVE  FrontendInv'
  BY <1>1, <1>11 DEF accommodateNodeByNodeSelector
<1>12. CASE accommodateNodesByPrimaryVMSetDone
  BY <1>1, <1>12 DEF accommodateNodesByPrimaryVMSetDone
<1>13. CASE accommodateNodesByNodeSelectorDone
  BY <1>1, <1>13 DEF accommodateNodesByNodeSelectorDone
<1>14. CASE getServiceLoadBalancerError \/ CreateOrUpdateUnnamedLB \/ CallFails
  BY <1>1, <1>14
  DEF getServiceLoadBalancerError, CreateOrUpdateUnnamedLB, CallFails,
      ReturnError
<1>15. CASE ReconcileBackendPools
  BY <1>1, <1>15 DEF ReconcileBackendPools
<1>16. ASSUME NEW l \in LBs, EnsureHostsInPool(l) PROVE FrontendInv'
  BY <1>1, <1>16 DEF EnsureHostsInPool
<1>17. CASE reconcileMultipleStandardLoadBalancerConfigurationStatus
  BY <1>1, <1>17
  DEF reconcileMultipleStandardLoadBalancerConfigurationStatus, EndLeg
<1>18. ASSUME NEW s \in Services, NEW x \in Spelled, EditService(s, x)
       PROVE  FrontendInv'
  BY <1>1, <1>18 DEF EditService
<1>19. ASSUME NEW n \in Nodes, NEW x \in NodeStates, updateNodeCaches(n, x)
       PROVE  FrontendInv'
  BY <1>1, <1>19 DEF updateNodeCaches
<1>20. ASSUME NEW a \in Flags, Restart(a) PROVE FrontendInv'
  BY <1>1, <1>20 DEF Restart
<1> QED
  BY <1>2, <1>3, <1>4, <1>5, <1>6, <1>8, <1>9, <1>10, <1>11, <1>12, <1>13,
     <1>14, <1>15, <1>16, <1>17, <1>18, <1>19, <1>20, <1>21
  DEF Next, Step

\* A service has its frontend on at most one load balancer of each kind, for
\* every number of configurations, services, nodes, failures and restarts.
THEOREM FrontendUnique == Spec => []OneFrontendPerKind
<1>1. Init => FrontendInv
  BY DEF Init, FrontendInv, FipsOnExisting, TargetSound, OneFrontendPerKind
<1>2. FrontendInv => OneFrontendPerKind
  BY DEF FrontendInv
<1> QED
  BY <1>1, <1>2, TypeCorrect, FrontendStep, PTL DEF Spec

-------------------------------------------------------------------------------
(* Where services are placed, as long as no call fails. *)

\* What the memory says a service uses, it has a frontend on.
ActiveIsOn ==
    \A c \in Configs : \A s \in activeServices[c] : \E i \in BOOLEAN : s \in fips[<<c, i>>]

\* The chosen load balancer allows placement, or the service has a frontend on
\* its configuration.
ChoiceAllowed ==
    pc \in {"pools", "put"} /\ wantLb /\ target \in LBs =>
        allow[target[1]] \/ \E i \in BOOLEAN : cur.s \in fips[<<target[1], i>>]

\* A frontend that was added is on the chosen load balancer until the memory
\* learns of it.
AddedIsThere ==
    fipChanged => /\ pc \in {"primary", "selector", "hosts"} /\ ~cur.init
                  /\ target \in LBs /\ cur.s \in fips[target]

RebuildFirst == cur.init => pc \in {"primary", "selector"}

PlacementInv == ActiveIsOn /\ ChoiceAllowed /\ AddedIsThere /\ RebuildFirst

\* A service arrives only where it may.
Arrives ==
    \A l \in LBs : \A s \in fips'[l] \ fips[l] : allow[l[1]] \/ s \in fips[<<l[1], ~l[2]>>]

LEMMA NoCallRebuildsNothing == NoCall \in Calls /\ ~NoCall.init /\ NoCall.kind = "delete"
<1>1. PICK s \in Services, x \in Labels : TRUE
  BY NonEmptyAssumption
<1> DEFINE k == [s |-> s, kind |-> "delete", internal |-> FALSE, label |-> x,
                 nodes |-> {}, flipped |-> FALSE, init |-> FALSE, ignored |-> FALSE]
<1>2. k \in Calls /\ k.kind = "delete" /\ ~k.init
  BY DEF Calls
<1> QED
  BY <1>2 DEF NoCall

\* The configuration chosen is eligible.
LEMMA ChoiceIsEligible ==
    ASSUME TypeOK, NEW i \in BOOLEAN, NEW c \in getMostEligibleLBForService(i), c # 0
    PROVE  c \in getEligibleLoadBalancersForService(cur) /\ PlacementAllowed(cur, c)
<1>0. cur.s \in Services
  BY DEF TypeOK, Calls
<1>1. getEligibleLoadBalancersForService(cur) \in SUBSET Configs
  BY <1>0, SelectorAssumption
  DEF getEligibleLoadBalancersForService, eligibleBySelector,
      selectedByAnnotation
<1> DEFINE eligible == getEligibleLoadBalancersForService(cur)
           missing == {d \in eligible : <<d, i>> \notin exists}
<1>2. missing # {} => First(missing) \in missing
  BY <1>1, FirstIn
<1>3. c \in eligible
  <2> HIDE DEF First
  <2>1. CASE InUse # {} /\ First(InUse) \in eligible
    BY <2>1 DEF getMostEligibleLBForService
  <2>2. CASE ~(InUse # {} /\ First(InUse) \in eligible) /\ missing # {}
    BY <1>2, <2>2 DEF getMostEligibleLBForService
  <2>3. CASE ~(InUse # {} /\ First(InUse) \in eligible) /\ missing = {}
    BY <2>3 DEF getMostEligibleLBForService
  <2> QED
    BY <2>1, <2>2, <2>3
<1> QED
  BY <1>3 DEF getEligibleLoadBalancersForService, eligibleBySelector

\* A step that leaves the frontends alone and forgets services or none.
LEMMA QuietKeepsPlacement ==
    ASSUME TypeOK, TypeOK', PlacementInv, fips' = fips,
           \A c \in Configs : activeServices'[c] \subseteq activeServices[c],
           \/ pc' \notin {"pools", "put"}
           \/ pc \in {"pools", "put"} /\ UNCHANGED <<cur, target, allow>>,
           \/ ~fipChanged'
           \/ pc' \in {"primary", "selector", "hosts"} /\ UNCHANGED <<cur, target, fipChanged>>
           \/ UNCHANGED <<pc, cur, target, fipChanged>>,
           cur'.init => pc' \in {"primary", "selector"}
    PROVE  PlacementInv' /\ Arrives
<1>1. ActiveIsOn'
  BY DEF PlacementInv, ActiveIsOn
<1>2. ChoiceAllowed'
  BY DEF PlacementInv, ChoiceAllowed, wantLb
<1>3. AddedIsThere'
  BY DEF PlacementInv, AddedIsThere
<1> QED
  BY <1>1, <1>2, <1>3 DEF PlacementInv, RebuildFirst, Arrives

\* A service that leaves a load balancer is forgotten there.
LEMMA RemovalKeepsActive ==
    ASSUME TypeOK, ActiveIsOn, NEW l \in LBs, RemoveFrontend(l),
           activeServices' = [activeServices EXCEPT ![l[1]] = @ \ {cur.s}]
    PROVE  ActiveIsOn' /\ Arrives
<1>1. /\ \A m \in LBs : m # l => fips'[m] = fips[m]
      /\ \A m \in LBs : fips'[m] \subseteq fips[m]
  BY RemovalShrinks
<1>2. \A s : s \in fips[l] /\ s # cur.s => s \in fips'[l]
  BY DEF RemoveFrontend, cleanOrphanedLoadBalancer, TypeOK
<1>3. ASSUME NEW c \in Configs, NEW s \in activeServices'[c]
      PROVE  \E i \in BOOLEAN : s \in fips'[<<c, i>>]
  <2>1. l = <<l[1], l[2]>> /\ l[1] \in Configs
    BY DEF LBs
  <2>2. s \in activeServices[c] /\ (c = l[1] => s # cur.s)
    BY <1>3, <2>1 DEF TypeOK
  <2>3. PICK i \in BOOLEAN : s \in fips[<<c, i>>]
    BY <2>2 DEF ActiveIsOn
  <2>4. <<c, i>> \in LBs
    BY DEF LBs
  <2>5. s \in fips'[<<c, i>>]
    <3>1. CASE <<c, i>> = l
      BY <1>2, <2>2, <2>3, <3>1
    <3>2. CASE <<c, i>> # l
      BY <1>1, <2>3, <2>4, <3>2
    <3> QED
      BY <3>1, <3>2
  <2> QED
    BY <2>5
<1> QED
  BY <1>1, <1>3 DEF ActiveIsOn, Arrives

LEMMA ChoiceKeepsPlacement ==
    ASSUME TypeOK, TypeOK', FrontendInv, PlacementInv, getServiceLoadBalancer
    PROVE  PlacementInv' /\ Arrives
<1> USE DEF cloud, memory
<1>1. PICK c \in getMostEligibleLBForService(isInternal) :
          \/ /\ CurrentLBs = {}
             /\ target' = <<c, isInternal>>
             /\ UNCHANGED <<fips, activeServices>>
          \/ \E l \in CurrentLBs :
               \/ /\ target' = l
                  /\ UNCHANGED <<fips, activeServices>>
               \/ /\ l[1] # c
                  /\ RemoveFrontend(l)
                  /\ activeServices' = [activeServices EXCEPT ![l[1]] = @ \ {cur.s}]
                  /\ target' = <<c, isInternal>>
  BY DEF getServiceLoadBalancer
<1>2. pc = "choose" /\ UNCHANGED <<cur, allow, fipChanged>> /\ pc' \in {"pools", "put"}
  BY DEF getServiceLoadBalancer, users, NextPcAfterChoice
<1>3. ~fipChanged /\ ~cur.init
  BY <1>2 DEF PlacementInv, AddedIsThere, RebuildFirst
<1>4. AddedIsThere' /\ RebuildFirst'
  BY <1>2, <1>3 DEF AddedIsThere, RebuildFirst
<1>5. c # 0 => allow[c] \/ \E i \in BOOLEAN : cur.s \in fips[<<c, i>>]
  <2>1. SUFFICES ASSUME c # 0 PROVE allow[c] \/ \E i \in BOOLEAN : cur.s \in fips[<<c, i>>]
    OBVIOUS
  <2>2. isInternal \in BOOLEAN
    BY DEF isInternal
  <2>3. PlacementAllowed(cur, c) /\ c \in Configs
    BY <2>1, <2>2, ChoiceIsEligible, ChoiceTyped
  <2> QED
    BY <2>3 DEF PlacementAllowed, isLoadBalancerInUseByService, PlacementInv, ActiveIsOn
<1>6. CASE target' = <<c, isInternal>> /\ UNCHANGED <<fips, activeServices>>
  <2>1. target' \in LBs => c # 0
    BY <1>6, SizeAssumption DEF LBs, Configs
  <2>2. ChoiceAllowed'
    BY <1>2, <1>5, <1>6, <2>1 DEF ChoiceAllowed
  <2> QED
    BY <1>4, <1>6, <2>2 DEF PlacementInv, ActiveIsOn, Arrives
<1>7. ASSUME NEW l \in CurrentLBs, target' = l, UNCHANGED <<fips, activeServices>>
      PROVE  PlacementInv' /\ Arrives
  <2>1. l \in LBs /\ cur.s \in fips[l]
    BY DEF CurrentLBs, TypeOK
  <2>2. l = <<l[1], l[2]>> /\ l[2] \in BOOLEAN
    BY <2>1 DEF LBs
  <2>3. ChoiceAllowed'
    BY <1>2, <1>7, <2>1, <2>2 DEF ChoiceAllowed
  <2> QED
    BY <1>4, <1>7, <2>3 DEF PlacementInv, ActiveIsOn, Arrives
<1>8. ASSUME NEW l \in CurrentLBs, l[1] # c, RemoveFrontend(l),
             activeServices' = [activeServices EXCEPT ![l[1]] = @ \ {cur.s}],
             target' = <<c, isInternal>>
      PROVE  PlacementInv' /\ Arrives
  <2>1. l \in LBs
    BY DEF CurrentLBs, TypeOK
  <2>2. ActiveIsOn' /\ Arrives
    BY <1>8, <2>1, RemovalKeepsActive DEF PlacementInv
  <2>3. target' \in LBs => c # 0 /\ c \in Configs
    BY <1>8, SizeAssumption DEF LBs, Configs
  <2>4. c \in Configs => \A i \in BOOLEAN : fips'[<<c, i>>] = fips[<<c, i>>]
    <3>1. SUFFICES ASSUME c \in Configs, NEW i \in BOOLEAN PROVE fips'[<<c, i>>] = fips[<<c, i>>]
      OBVIOUS
    <3>2. <<c, i>> \in LBs /\ <<c, i>> # l
      BY <1>8, <3>1 DEF LBs
    <3> QED
      BY <1>8, <2>1, <3>2, RemovalShrinks
  <2>5. ChoiceAllowed'
    BY <1>2, <1>5, <1>8, <2>3, <2>4 DEF ChoiceAllowed
  <2> QED
    BY <1>4, <2>2, <2>5 DEF PlacementInv
<1> QED
  BY <1>1, <1>6, <1>7, <1>8

\* Every step keeps the invariant and places services where they may go.
LEMMA PlacementStep ==
    ASSUME MaxFaults = 0, TypeOK, TypeOK', FrontendInv, PlacementInv, [Next]_vars
    PROVE  PlacementInv' /\ Arrives
<1> USE DEF cloud, memory, local, budget, users, queues
<1>1. ~NoCall.init
  BY NoCallRebuildsNothing
<1>2. CASE getServiceLoadBalancer
  BY <1>2, ChoiceKeepsPlacement
<1>3. CASE CreateOrUpdateLB
  <2>1. /\ pc = "put" /\ wantLb /\ target \in LBs
        /\ fips' = [fips EXCEPT ![target] = @ \cup {cur.s}]
        /\ fipChanged' \in BOOLEAN
        /\ pc' = "primary" /\ UNCHANGED <<activeServices, cur, target, allow>>
    BY <1>3 DEF CreateOrUpdateLB
  <2>2. /\ \A l \in LBs : l # target => fips'[l] = fips[l]
        /\ fips'[target] = fips[target] \cup {cur.s}
    BY <2>1 DEF TypeOK
  <2>3. target = <<target[1], target[2]>> /\ target[1] \in Configs /\ target[2] \in BOOLEAN
    BY <2>1 DEF LBs
  <2>4. \A l \in LBs : fips[l] \subseteq fips'[l]
    BY <2>2
  <2>5. ActiveIsOn'
    BY <2>1, <2>4 DEF PlacementInv, ActiveIsOn, LBs
  <2>6. ~cur.init
    BY <2>1 DEF PlacementInv, RebuildFirst
  <2>7. Arrives
    <3>1. SUFFICES ASSUME NEW l \in LBs, NEW s \in fips'[l] \ fips[l]
                   PROVE  allow[l[1]] \/ s \in fips[<<l[1], ~l[2]>>]
      BY DEF Arrives
    <3>2. l = target /\ s = cur.s
      BY <2>2
    <3>3. CASE allow[target[1]]
      BY <3>2, <3>3
    <3>4. ASSUME NEW i \in BOOLEAN, cur.s \in fips[<<target[1], i>>]
          PROVE  s \in fips[<<l[1], ~l[2]>>]
      <4>1. i # target[2]
        BY <2>3, <3>1, <3>2, <3>4
      <4>2. i = ~target[2]
        BY <2>3, <4>1
      <4> QED
        BY <3>2, <3>4, <4>2
    <3> QED
      BY <2>1, <3>3, <3>4 DEF PlacementInv, ChoiceAllowed
  <2> QED
    BY <2>1, <2>2, <2>5, <2>6, <2>7 DEF PlacementInv, ChoiceAllowed, AddedIsThere, RebuildFirst
<1>4. CASE DeleteFrontend
  <2>1. pc = "put" /\ fipChanged' = FALSE /\ pc' \in {"list", "idle"} /\ EndLeg(cur)
    BY <1>4 DEF DeleteFrontend, EndLeg, ClearLocals
  <2>2. ~cur'.init
    <3>1. ~cur.init
      BY <2>1 DEF PlacementInv, RebuildFirst
    <3>2. cur \in Calls
      BY DEF TypeOK
    <3>3. cur' = [cur EXCEPT !.flipped = TRUE] \/ cur' = NoCall
      BY <2>1 DEF EndLeg, ClearLocals
    <3> QED
      BY <1>1, <3>1, <3>2, <3>3 DEF Calls
  <2>3. ChoiceAllowed' /\ AddedIsThere' /\ RebuildFirst'
    BY <2>1, <2>2 DEF ChoiceAllowed, AddedIsThere, RebuildFirst
  <2>4. CASE OnTarget
    <3>1. /\ target \in LBs /\ RemoveFrontend(target)
          /\ activeServices' = [activeServices EXCEPT ![target[1]] = @ \ {cur.s}]
      BY <1>4, <2>4 DEF DeleteFrontend, OnTarget, TypeOK
    <3> QED
      BY <2>3, <3>1, RemovalKeepsActive DEF PlacementInv
  <2>5. CASE ~OnTarget
    <3>1. UNCHANGED <<fips, activeServices>>
      BY <1>4, <2>5 DEF DeleteFrontend
    <3> QED
      BY <2>3, <3>1 DEF PlacementInv, ActiveIsOn, Arrives
  <2> QED
    BY <2>4, <2>5
<1>5. CASE CallFails \/ CallFailsAfterWrite \/ DeletionErrorIgnored
  BY <1>5 DEF CallFails, CallFailsAfterWrite, DeletionErrorIgnored, TypeOK
<1>6. CASE UNCHANGED vars
  <2>1. UNCHANGED <<fips, activeServices, pc, cur, target, allow, fipChanged>>
    BY <1>6 DEF vars
  <2> QED
    BY <2>1 DEF PlacementInv, ActiveIsOn, ChoiceAllowed, AddedIsThere, RebuildFirst, Arrives, wantLb
<1>7. ASSUME NEW s \in Services, NEW k \in {"ensure", "update", "delete"},
             Begin(s, k)
      PROVE  PlacementInv' /\ Arrives
  <2>1. ~fipChanged
    BY <1>7 DEF Begin, PlacementInv, AddedIsThere
  <2>2. ~cur'.init /\ pc' = "list" /\ UNCHANGED <<fips, activeServices, fipChanged>>
    BY <1>7 DEF Begin, CallOf
  <2> QED
    BY <2>1, <2>2, QuietKeepsPlacement
<1>8. ASSUME NEW s \in Services,
             \/ EnsureLoadBalancer(s)
             \/ UpdateLoadBalancer(s)
             \/ EnsureLoadBalancerDeleted(s)
      PROVE  PlacementInv' /\ Arrives
  <2>1. CASE Begin(s, "ensure") \/ Begin(s, "update") \/ Begin(s, "delete")
    BY <1>7, <2>1
  <2>2. CASE pc = "idle" /\ UNCHANGED <<fips, activeServices, pc, cur, target, allow, fipChanged>>
    BY <2>2, QuietKeepsPlacement DEF PlacementInv, RebuildFirst
  <2> QED
    BY <1>8, <2>1, <2>2
    DEF EnsureLoadBalancer, UpdateLoadBalancer, EnsureLoadBalancerDeleted
<1>9. CASE ListManagedLBs
  <2>0. pc = "list" /\ UNCHANGED <<fips, fipChanged, target, allow>> /\ ~fipChanged
    BY <1>9 DEF ListManagedLBs, PlacementInv, AddedIsThere
  <2>1. CASE synced
    <3>1. pc' = "choose" /\ UNCHANGED <<activeServices, cur>>
      BY <1>9, <2>1 DEF ListManagedLBs
    <3>2. ~cur.init
      BY <2>0 DEF PlacementInv, RebuildFirst
    <3> QED
      BY <2>0, <3>1, <3>2, QuietKeepsPlacement
  <2>2. CASE ~synced
    <3>1. /\ pc' = "primary"
          /\ activeServices' =
                [c \in Configs |-> activeServices[c] \cup
                    {s \in Services : /\ svc[s].state \notin Ended
                                     /\ \E i \in BOOLEAN : s \in fips[<<c, i>>]}]
      BY <1>9, <2>2 DEF ListManagedLBs, reconcileMultipleStandardLoadBalancerConfigurations
    <3>2. ActiveIsOn'
      BY <2>0, <3>1 DEF PlacementInv, ActiveIsOn
    <3> QED
      BY <2>0, <3>1, <3>2 DEF PlacementInv, ChoiceAllowed, AddedIsThere, RebuildFirst, Arrives
  <2> QED
    BY <2>1, <2>2
<1>10. ASSUME NEW n \in Nodes, accommodateNodeByPrimaryVMSet(n)
       PROVE  PlacementInv' /\ Arrives
  BY <1>10, QuietKeepsPlacement DEF accommodateNodeByPrimaryVMSet, PlacementInv, RebuildFirst
<1>11. ASSUME NEW n \in Nodes, accommodateNodeByNodeSelector(n)
       PROVE  PlacementInv' /\ Arrives
  BY <1>11, QuietKeepsPlacement DEF accommodateNodeByNodeSelector, PlacementInv, RebuildFirst
<1>12. CASE accommodateNodesByPrimaryVMSetDone
  BY <1>12, QuietKeepsPlacement DEF accommodateNodesByPrimaryVMSetDone, PlacementInv, RebuildFirst
<1>13. CASE accommodateNodesByNodeSelectorDone
  <2>1. UNCHANGED <<fips, activeServices, fipChanged, target, allow>>
    BY <1>13 DEF accommodateNodesByNodeSelectorDone
  <2>2. CASE cur.init
    <3>1. ~fipChanged /\ pc' = "choose" /\ cur' = [cur EXCEPT !.init = FALSE]
      BY <1>13, <2>2 DEF accommodateNodesByNodeSelectorDone, PlacementInv, AddedIsThere
    <3>2. ~cur'.init
      BY <3>1 DEF TypeOK, Calls
    <3> QED
      BY <2>1, <3>1, <3>2, QuietKeepsPlacement
  <2>3. CASE ~cur.init
    <3>1. pc' = "hosts" /\ cur' = cur
      BY <1>13, <2>3 DEF accommodateNodesByNodeSelectorDone
    <3> QED
      BY <2>1, <2>3, <3>1, QuietKeepsPlacement
  <2> QED
    BY <2>2, <2>3
<1>14. CASE getServiceLoadBalancerError \/ CreateOrUpdateUnnamedLB
  BY <1>1, <1>14, QuietKeepsPlacement
  DEF getServiceLoadBalancerError, CreateOrUpdateUnnamedLB, ReturnError, ClearLocals
<1>15. CASE ReconcileBackendPools
  <2>1. pc = "pools" /\ pc' = "put" /\ UNCHANGED <<fips, activeServices, cur, target, allow, fipChanged>>
    BY <1>15 DEF ReconcileBackendPools
  <2>2. ~fipChanged /\ ~cur.init
    BY <2>1 DEF PlacementInv, AddedIsThere, RebuildFirst
  <2> QED
    BY <2>1, <2>2, QuietKeepsPlacement
<1>16. ASSUME NEW l \in LBs, EnsureHostsInPool(l) PROVE PlacementInv' /\ Arrives
  BY <1>16, QuietKeepsPlacement DEF EnsureHostsInPool, PlacementInv, RebuildFirst
<1>17. CASE reconcileMultipleStandardLoadBalancerConfigurationStatus
  <2>1. /\ pc = "hosts" /\ fips' = fips /\ EndLeg(cur)
        /\ activeServices' = IF fipChanged
                             THEN [activeServices EXCEPT ![target[1]] = @ \cup {cur.s}]
                             ELSE activeServices
    BY <1>17 DEF reconcileMultipleStandardLoadBalancerConfigurationStatus
  <2>2. ~cur.init
    BY <2>1 DEF PlacementInv, RebuildFirst
  <2>3. fipChanged' = FALSE /\ pc' \in {"list", "idle"} /\ ~cur'.init
    <3>1. cur' = [cur EXCEPT !.flipped = TRUE] \/ cur' = NoCall
      BY <2>1 DEF EndLeg, ClearLocals
    <3>2. ~cur'.init
      BY <1>1, <2>2, <3>1 DEF TypeOK, Calls
    <3> QED
      BY <2>1, <3>2 DEF EndLeg, ClearLocals
  <2>4. ActiveIsOn'
    <3>1. CASE fipChanged
      <4>1. target \in LBs /\ cur.s \in fips[target]
        BY <3>1 DEF PlacementInv, AddedIsThere
      <4>2. target = <<target[1], target[2]>> /\ target[1] \in Configs /\ target[2] \in BOOLEAN
        BY <4>1 DEF LBs
      <4>3. \A c \in Configs : \A s \in activeServices'[c] :
               s \in activeServices[c] \/ (c = target[1] /\ s = cur.s)
        BY <2>1, <3>1 DEF TypeOK
      <4>4. \E i \in BOOLEAN : cur.s \in fips[<<target[1], i>>]
        BY <4>1, <4>2
      <4> QED
        BY <2>1, <4>3, <4>4 DEF PlacementInv, ActiveIsOn
    <3>2. CASE ~fipChanged
      BY <2>1, <3>2 DEF PlacementInv, ActiveIsOn
    <3> QED
      BY <3>1, <3>2
  <2> QED
    BY <2>1, <2>3, <2>4 DEF PlacementInv, ChoiceAllowed, AddedIsThere, RebuildFirst, Arrives
<1>18. ASSUME NEW s \in Services, NEW x \in Spelled, EditService(s, x)
       PROVE  PlacementInv' /\ Arrives
  BY <1>18, QuietKeepsPlacement DEF EditService, PlacementInv, RebuildFirst
<1>19. ASSUME NEW n \in Nodes, NEW x \in NodeStates, updateNodeCaches(n, x)
       PROVE  PlacementInv' /\ Arrives
  BY <1>19, QuietKeepsPlacement DEF updateNodeCaches, PlacementInv, RebuildFirst
<1>20. ASSUME NEW a \in Flags, Restart(a) PROVE PlacementInv' /\ Arrives
  <2>1. /\ fips' = fips /\ \A c \in Configs : activeServices'[c] = {}
        /\ pc' = "idle" /\ fipChanged' = FALSE /\ cur' = NoCall
    BY <1>20 DEF Restart, ClearLocals
  <2> QED
    BY <1>1, <2>1, QuietKeepsPlacement
<1> QED
  BY <1>2, <1>3, <1>4, <1>5, <1>6, <1>8, <1>9, <1>10, <1>11, <1>12, <1>13,
     <1>14, <1>15, <1>16, <1>17, <1>18, <1>19, <1>20
  DEF Next, Step

\* As long as no call fails, a service newly arrives only on a load balancer
\* that allows placement, or whose configuration it was on, for any number of
\* configurations, services, edits and restarts with other flags
\* (AllowServicePlacement).
THEOREM PlacementIsAllowed == MaxFaults = 0 /\ Spec => PlacementRespectsFlag
<1> DEFINE Faultless == MaxFaults = 0 /\ PlacementInv
<1>1. Init => FrontendInv
  BY DEF Init, FrontendInv, FipsOnExisting, TargetSound, OneFrontendPerKind
<1>2. MaxFaults = 0 /\ Init => Faultless
  BY NoCallRebuildsNothing
  DEF Init, PlacementInv, ActiveIsOn, ChoiceAllowed, AddedIsThere, RebuildFirst
<1>3. TypeOK /\ TypeOK' /\ FrontendInv /\ Faultless /\ [Next]_vars => Faultless'
  BY PlacementStep
<1>4. TypeOK /\ TypeOK' /\ FrontendInv /\ Faultless /\ [Next]_vars =>
        [\A l \in LBs : \A s \in fips'[l] \ fips[l] :
            \/ allow[l[1]]
            \/ s \in fips[<<l[1], ~l[2]>>]]_vars
  BY PlacementStep DEF Arrives
<1> HIDE DEF Faultless
<1> QED
  BY <1>1, <1>2, <1>3, <1>4, TypeCorrect, FrontendStep, PTL DEF Spec, PlacementRespectsFlag

-------------------------------------------------------------------------------
(* The nodes of the backend pools. *)

\* A configuration that the node is eligible for has it.
Accommodated(n) == eligibleForNode(n) # {} => \E c \in eligibleForNode(n) : n \in activeNodes[c]

\* No node that the selectors arrange is taken to be matched by its vmSet.
NoneCorrect == \A n \in correct : ~Unclaimed(n)

\* The load balancer that a reconciliation chose exists when nodes are arranged.
TargetThere ==
    ((pc \in {"primary", "selector"} /\ ~cur.init) \/ pc = "hosts") => target \in exists /\ ~cur.init

\* A node that has not been looked at is where the map says.
MapSound == \A n \in Nodes :
    (Unclaimed(n) /\ (pc = "primary" \/ (pc = "selector" /\ n \in todo)) /\ idx[n] # 0) => n \in activeNodes[idx[n]]

\* The others have been found a configuration.
LookedAtSound == \A n \in cur.nodes :
    Unclaimed(n) /\ ((pc = "selector" /\ n \notin todo) \/ pc = "hosts") => Accommodated(n)

\* The pools that have been brought up to date have the nodes of their configuration.
PoolsFollow == pc = "hosts" =>
    \A l \in exists \ todoLBs, n \in cur.nodes : n \in activeNodes[l[1]] => n \in pool[l]

HostInv == NoneCorrect /\ TargetThere /\ MapSound /\ LookedAtSound /\ PoolsFollow

\* The configuration with the fewest nodes is one of those asked for.
LEMMA FewestIn ==
    ASSUME TypeOK, NEW S \in SUBSET Configs, S # {}
    PROVE  fewestNodes(S) \in S
<1> DEFINE T == {Cardinality(activeNodes[c]) : c \in S}
           F == {c \in S : \A d \in S : Cardinality(activeNodes[c]) <= Cardinality(activeNodes[d])}
<1>1. \A c \in S : Cardinality(activeNodes[c]) \in Nat
  <2>1. \A c \in S : activeNodes[c] \in SUBSET Nodes
    BY DEF TypeOK
  <2>2. \A c \in S : IsFiniteSet(activeNodes[c])
    BY <2>1, FS_Subset, NodesAssumption
  <2> QED
    BY <2>2, FS_CardinalityType
<1>2. T \in SUBSET Nat /\ T # {}
  BY <1>1
<1> HIDE DEF T
<1>3. PICK t \in T : \A u \in T : t <= u
  BY <1>2, LeastNat
<1>4. F # {} /\ F \in SUBSET Configs
  BY <1>3 DEF T
<1> QED
  BY <1>4, FirstIn DEF fewestNodes

LEMMA EligibleType ==
    ASSUME NEW n PROVE eligibleForNode(n) \in SUBSET Configs
BY DEF eligibleForNode, matchingConfigs

\* Which configurations a node is eligible for depends on this much.
LEMMA SameEligible ==
    ASSUME exists' = exists, \A c \in Configs : Available(c)' = Available(c), NEW n
    PROVE  eligibleForNode(n)' = eligibleForNode(n)
BY DEF eligibleForNode, matchingConfigs

LEMMA SameAvailable ==
    ASSUME exists' = exists, target' = target, cur'.init = cur.init, NEW c
    PROVE  Available(c)' = Available(c)
BY DEF Available, isLBInList

\* Arranging starts from the nodes that are listed.
LEMMA MapIsBuilt ==
    ASSUME TypeOK, NEW an \in [Configs -> SUBSET Nodes],
           removeDeletedNodesFromLoadBalancerConfigurations(an), NEW n \in Nodes, idx'[n] # 0
    PROVE  n \in activeNodes'[idx'[n]]
<1> DEFINE kept == [c \in Configs |-> an[c] \cap cur.nodes]
           on(m) == {c \in Configs : m \in kept[c]}
<1>1. activeNodes' = kept /\ idx' = [m \in Nodes |-> IF on(m) = {} THEN 0 ELSE Last(on(m))]
  BY DEF removeDeletedNodesFromLoadBalancerConfigurations
<1> HIDE DEF kept
<1>2. on(n) # {} /\ idx'[n] = Last(on(n))
  BY <1>1
<1>3. Last(on(n)) \in on(n)
  BY <1>2, LastIn
<1> QED
  BY <1>1, <1>2, <1>3

\* Steps that leave the arrangement alone, or end it.
LEMMA QuietKeepsHosts ==
    ASSUME TypeOK, HostInv, correct' \subseteq correct,
           \/ pc' \notin {"primary", "selector", "hosts"}
           \/ UNCHANGED <<pc, cur, target, exists, idx, activeNodes, todo, todoLBs, pool>>
    PROVE  HostInv'
<1>1. CASE pc' \notin {"primary", "selector", "hosts"}
  BY <1>1 DEF HostInv, NoneCorrect, TargetThere, MapSound, LookedAtSound, PoolsFollow
<1>2. CASE UNCHANGED <<pc, cur, target, exists, idx, activeNodes, todo, todoLBs, pool>>
  <2>1. \A n : eligibleForNode(n)' = eligibleForNode(n)
    BY <1>2, SameEligible, SameAvailable
  <2>2. \A n : Accommodated(n)' = Accommodated(n)
    BY <1>2, <2>1 DEF Accommodated
  <2>3. NoneCorrect' /\ TargetThere' /\ MapSound' /\ PoolsFollow'
    BY <1>2 DEF HostInv, NoneCorrect, TargetThere, MapSound, PoolsFollow
  <2>4. LookedAtSound'
    BY <1>2, <2>2 DEF HostInv, LookedAtSound
  <2> QED
    BY <2>3, <2>4 DEF HostInv
<1> QED
  BY <1>1, <1>2

LEMMA SelectorKeepsHosts ==
    ASSUME TypeOK, HostInv, NEW n \in Nodes, accommodateNodeByNodeSelector(n)
    PROVE  HostInv'
<1> DEFINE eligible == eligibleForNode(n)
<1>1. /\ pc = "selector" /\ n \in todo /\ todo' = todo \ {n}
      /\ UNCHANGED <<pc, cur, target, exists, idx, todoLBs, pool, correct>>
  BY DEF accommodateNodeByNodeSelector, cloud
<1>2. IF n \in correct \/ idx[n] \in eligible THEN activeNodes' = activeNodes
      ELSE MoveNode(n, idx[n], IF eligible = {} THEN 0 ELSE fewestNodes(eligible))
  BY DEF accommodateNodeByNodeSelector
<1>3. \A m : eligibleForNode(m)' = eligibleForNode(m)
  BY <1>1, SameEligible, SameAvailable
<1>4. eligible \in SUBSET Configs /\ 0 \notin eligible
  BY EligibleType, SizeAssumption DEF Configs
<1> HIDE DEF eligible
<1>5. \A c \in Configs, m \in Nodes \ {n} : m \in activeNodes'[c] <=> m \in activeNodes[c]
  BY <1>2 DEF MoveNode
<1>6. Unclaimed(n) /\ eligible # {} => \E c \in eligible : n \in activeNodes'[c]
  <2>0. SUFFICES ASSUME Unclaimed(n), n \notin correct, eligible # {}
                 PROVE  \E c \in eligible : n \in activeNodes'[c]
    BY DEF HostInv, NoneCorrect
  <2>1. CASE idx[n] \in eligible
    BY <1>1, <1>2, <1>4, <2>0, <2>1 DEF HostInv, MapSound
  <2>2. CASE idx[n] \notin eligible /\ eligible # {}
    <3>1. fewestNodes(eligible) \in eligible
      BY <1>4, <2>2, FewestIn
    <3>2. MoveNode(n, idx[n], fewestNodes(eligible))
      BY <1>2, <2>0, <2>2
    <3> QED
      BY <1>4, <3>1, <3>2 DEF MoveNode
  <2> QED
    BY <2>0, <2>1, <2>2
<1>7. LookedAtSound'
  <2> SUFFICES ASSUME NEW m \in cur.nodes, Unclaimed(m), m \notin todo' PROVE Accommodated(m)'
    BY <1>1 DEF LookedAtSound, Unclaimed
  <2>0. m \in Nodes
    BY DEF TypeOK, Calls
  <2>1. CASE m = n
    BY <1>3, <1>6, <2>1 DEF Accommodated, eligible
  <2>2. CASE m # n
    <3>1. Accommodated(m)
      BY <1>1, <2>2 DEF HostInv, LookedAtSound
    <3>2. eligibleForNode(m) \in SUBSET Configs
      BY EligibleType
    <3> QED
      BY <1>3, <1>5, <2>0, <2>2, <3>1, <3>2 DEF Accommodated
  <2> QED
    BY <2>1, <2>2
<1>8. MapSound'
  <2> SUFFICES ASSUME NEW m \in Nodes, Unclaimed(m), m \in todo', idx[m] # 0
               PROVE  m \in activeNodes'[idx[m]]
    BY <1>1 DEF MapSound, Unclaimed
  <2>1. m # n /\ m \in todo /\ idx[m] \in Configs
    BY <1>1 DEF TypeOK
  <2>2. m \in activeNodes[idx[m]]
    BY <1>1, <2>1 DEF HostInv, MapSound
  <2> QED
    BY <1>5, <2>1, <2>2
<1> QED
  BY <1>1, <1>7, <1>8 DEF HostInv, NoneCorrect, TargetThere, PoolsFollow

\* Every step keeps the invariant.
LEMMA HostStep ==
    ASSUME TypeOK, TypeOK', HostInv, RebuildFirst, [Next]_vars
    PROVE  HostInv'
<1> USE DEF cloud, memory, local, budget, users, queues
<1>1. CASE getServiceLoadBalancer
  <2>1. pc' \in {"pools", "put"}
    BY <1>1 DEF getServiceLoadBalancer, NextPcAfterChoice
  <2>2. correct' \subseteq correct
    BY <1>1 DEF getServiceLoadBalancer, RemoveFrontend, cleanOrphanedLoadBalancer
  <2> QED
    BY <2>1, <2>2, QuietKeepsHosts
<1>2. CASE CreateOrUpdateLB
  <2>1. /\ pc = "put" /\ pc' = "primary" /\ UNCHANGED <<cur, target, correct>>
        /\ exists' = exists \cup {target}
        /\ removeDeletedNodesFromLoadBalancerConfigurations(activeNodes)
    BY <1>2 DEF CreateOrUpdateLB
  <2>2. MapSound'
    BY <2>1, MapIsBuilt DEF MapSound, TypeOK
  <2>3. TargetThere'
    BY <2>1 DEF TargetThere, RebuildFirst
  <2> QED
    BY <2>1, <2>2, <2>3 DEF HostInv, NoneCorrect, LookedAtSound, PoolsFollow
<1>3. CASE DeleteFrontend
  <2>1. pc' \in {"list", "idle"}
    BY <1>3 DEF DeleteFrontend, EndLeg
  <2>2. correct' \subseteq correct
    BY <1>3 DEF DeleteFrontend, RemoveFrontend, cleanOrphanedLoadBalancer
  <2> QED
    BY <2>1, <2>2, QuietKeepsHosts
<1>4. CASE CallFails \/ CallFailsAfterWrite \/ getServiceLoadBalancerError \/ CreateOrUpdateUnnamedLB
  <2>1. pc' = "idle" /\ correct' = correct
    BY <1>4 DEF CallFails, CallFailsAfterWrite, getServiceLoadBalancerError, CreateOrUpdateUnnamedLB, ReturnError
  <2> QED
    BY <2>1, QuietKeepsHosts
<1>19. CASE DeletionErrorIgnored
  <2>1. pc' \in {"list", "idle"} /\ correct' = correct
    BY <1>19 DEF DeletionErrorIgnored, EndLeg
  <2> QED
    BY <2>1, QuietKeepsHosts
<1>5. CASE UNCHANGED vars
  BY <1>5, QuietKeepsHosts DEF vars
<1>6. ASSUME NEW s \in Services, NEW k \in {"ensure", "update", "delete"}, Begin(s, k)
      PROVE  HostInv'
  <2>1. pc' = "list" /\ correct' = correct
    BY <1>6 DEF Begin
  <2> QED
    BY <2>1, QuietKeepsHosts
<1>7. ASSUME NEW s \in Services,
             \/ EnsureLoadBalancer(s) \/ UpdateLoadBalancer(s) \/ EnsureLoadBalancerDeleted(s)
      PROVE  HostInv'
  <2>1. CASE Begin(s, "ensure") \/ Begin(s, "update") \/ Begin(s, "delete")
    BY <1>6, <2>1
  <2>2. CASE pc = "idle" /\ UNCHANGED <<pc, correct>>
    BY <2>2, QuietKeepsHosts
  <2> QED
    BY <1>7, <2>1, <2>2 DEF EnsureLoadBalancer, UpdateLoadBalancer, EnsureLoadBalancerDeleted
<1>8. CASE ListManagedLBs
  <2>0. correct' = correct
    BY <1>8 DEF ListManagedLBs
  <2>1. CASE synced
    <3>1. pc' = "choose"
      BY <1>8, <2>1 DEF ListManagedLBs
    <3> QED
      BY <2>0, <3>1, QuietKeepsHosts
  <2>2. CASE ~synced
    <3>1. /\ pc' = "primary" /\ cur' = [cur EXCEPT !.init = TRUE]
          /\ removeDeletedNodesFromLoadBalancerConfigurations(recordExistingNodesOnLoadBalancers)
      BY <1>8, <2>2 DEF ListManagedLBs, reconcileMultipleStandardLoadBalancerConfigurations
    <3>2. recordExistingNodesOnLoadBalancers \in [Configs -> SUBSET Nodes]
      BY DEF recordExistingNodesOnLoadBalancers, TypeOK
    <3>3. MapSound'
      BY <3>1, <3>2, MapIsBuilt DEF MapSound
    <3>4. cur'.init
      BY <3>1 DEF TypeOK, Calls
    <3> QED
      BY <2>0, <3>1, <3>3, <3>4 DEF HostInv, NoneCorrect, TargetThere, LookedAtSound, PoolsFollow
  <2> QED
    BY <2>1, <2>2
<1>9. ASSUME NEW n \in Nodes, accommodateNodeByPrimaryVMSet(n) PROVE HostInv'
  <2>1. pc = "primary" /\ UNCHANGED <<pc, cur, target, exists, idx, todoLBs, pool>>
    BY <1>9 DEF accommodateNodeByPrimaryVMSet
  <2>2. CASE Unclaimed(n)
    <3>1. primaryConfigs(n) = {}
      BY <2>2 DEF Unclaimed, primaryConfigs
    <3>2. UNCHANGED <<activeNodes, correct>>
      BY <1>9, <3>1 DEF accommodateNodeByPrimaryVMSet
    <3>3. NoneCorrect' /\ TargetThere' /\ MapSound'
      BY <2>1, <3>2 DEF HostInv, NoneCorrect, TargetThere, MapSound, Unclaimed
    <3> QED
      BY <2>1, <3>3 DEF HostInv, LookedAtSound, PoolsFollow
  <2>3. CASE ~Unclaimed(n)
    <3>1. correct' \subseteq correct \cup {n}
      BY <1>9 DEF accommodateNodeByPrimaryVMSet
    <3>2. \A c \in Configs, m \in Nodes : m # n => (m \in activeNodes'[c] <=> m \in activeNodes[c])
      BY <1>9 DEF accommodateNodeByPrimaryVMSet, MoveNode
    <3>3. NoneCorrect' /\ TargetThere'
      BY <2>1, <2>3, <3>1 DEF HostInv, NoneCorrect, TargetThere, Unclaimed
    <3>4. MapSound'
      <4> SUFFICES ASSUME NEW m \in Nodes, Unclaimed(m), idx[m] # 0
                   PROVE  m \in activeNodes'[idx[m]]
        BY <2>1 DEF MapSound, Unclaimed
      <4>1. m # n /\ idx[m] \in Configs
        BY <2>3 DEF TypeOK
      <4>2. m \in activeNodes[idx[m]]
        BY <2>1 DEF HostInv, MapSound
      <4> QED
        BY <3>2, <4>1, <4>2
    <3> QED
      BY <2>1, <3>3, <3>4 DEF HostInv, LookedAtSound, PoolsFollow
  <2> QED
    BY <2>2, <2>3
<1>10. CASE accommodateNodesByPrimaryVMSetDone
  <2>1. /\ pc = "primary" /\ pc' = "selector" /\ todo' = cur.nodes
        /\ UNCHANGED <<activeNodes, correct, cur, target, exists, idx, todoLBs, pool>>
    BY <1>10 DEF accommodateNodesByPrimaryVMSetDone
  <2>2. TargetThere' /\ MapSound'
    BY <2>1 DEF HostInv, TargetThere, MapSound
  <2> QED
    BY <2>1, <2>2 DEF HostInv, NoneCorrect, LookedAtSound, PoolsFollow
<1>11. ASSUME NEW n \in Nodes, accommodateNodeByNodeSelector(n) PROVE HostInv'
  BY <1>11, SelectorKeepsHosts
<1>12. CASE accommodateNodesByNodeSelectorDone
  <2>1. pc = "selector" /\ todo = {} /\ UNCHANGED <<activeNodes, correct, target, exists, pool>>
    BY <1>12 DEF accommodateNodesByNodeSelectorDone
  <2>2. CASE cur.init
    <3>1. pc' = "choose"
      BY <1>12, <2>2 DEF accommodateNodesByNodeSelectorDone
    <3> QED
      BY <2>1, <3>1, QuietKeepsHosts
  <2>3. CASE ~cur.init
    <3>1. pc' = "hosts" /\ todoLBs' = exists /\ cur' = cur
      BY <1>12, <2>3 DEF accommodateNodesByNodeSelectorDone
    <3>2. \A n : eligibleForNode(n)' = eligibleForNode(n)
      BY <2>1, <3>1, SameEligible, SameAvailable
    <3>3. \A n \in cur.nodes : Unclaimed(n) => Accommodated(n)
      BY <2>1 DEF HostInv, LookedAtSound
    <3>4. LookedAtSound'
      BY <2>1, <3>1, <3>2, <3>3 DEF LookedAtSound, Accommodated, Unclaimed
    <3> QED
      BY <2>1, <2>3, <3>1, <3>4 DEF HostInv, NoneCorrect, TargetThere, MapSound, PoolsFollow
  <2> QED
    BY <2>2, <2>3
<1>13. CASE ReconcileBackendPools
  <2>1. pc' = "put" /\ correct' = correct
    BY <1>13 DEF ReconcileBackendPools
  <2> QED
    BY <2>1, QuietKeepsHosts
<1>14. ASSUME NEW l \in LBs, EnsureHostsInPool(l) PROVE HostInv'
  <2>1. /\ pc = "hosts" /\ todoLBs' = todoLBs \ {l}
        /\ UNCHANGED <<activeNodes, correct, pc, cur, target, exists, idx, todo>>
    BY <1>14 DEF EnsureHostsInPool
  <2>2. \A n \in cur.nodes : n \in activeNodes[l[1]] => n \in pool'[l]
    BY <1>14 DEF EnsureHostsInPool, TypeOK
  <2>3. \A m \in LBs \ {l} : pool'[m] = pool[m]
    BY <1>14 DEF EnsureHostsInPool, TypeOK
  <2>4. PoolsFollow'
    <3> SUFFICES ASSUME NEW m \in exists \ todoLBs', NEW n \in cur.nodes, n \in activeNodes[m[1]]
                 PROVE  n \in pool'[m]
      BY <2>1 DEF PoolsFollow
    <3>1. CASE m = l
      BY <2>2, <3>1
    <3>2. CASE m # l
      <4>1. m \in exists \ todoLBs /\ m \in LBs \ {l}
        BY <2>1, <3>2 DEF TypeOK
      <4> QED
        BY <2>1, <2>3, <4>1 DEF HostInv, PoolsFollow
    <3> QED
      BY <3>1, <3>2
  <2>5. \A n : eligibleForNode(n)' = eligibleForNode(n)
    BY <2>1, SameEligible, SameAvailable
  <2>6. LookedAtSound'
    BY <2>1, <2>5 DEF HostInv, LookedAtSound, Accommodated
  <2> QED
    BY <2>1, <2>4, <2>6 DEF HostInv, NoneCorrect, TargetThere, MapSound
<1>15. CASE reconcileMultipleStandardLoadBalancerConfigurationStatus
  <2>1. pc' \in {"list", "idle"} /\ correct' = correct
    BY <1>15 DEF reconcileMultipleStandardLoadBalancerConfigurationStatus, EndLeg
  <2> QED
    BY <2>1, QuietKeepsHosts
<1>16. ASSUME NEW s \in Services, NEW x \in Spelled, EditService(s, x) PROVE HostInv'
  BY <1>16, QuietKeepsHosts DEF EditService
<1>17. ASSUME NEW n \in Nodes, NEW x \in NodeStates, updateNodeCaches(n, x) PROVE HostInv'
  BY <1>17, QuietKeepsHosts DEF updateNodeCaches
<1>18. ASSUME NEW a \in Flags, Restart(a) PROVE HostInv'
  <2>1. pc' = "idle" /\ correct' = {}
    BY <1>18 DEF Restart
  <2> QED
    BY <2>1, QuietKeepsHosts
<1> QED
  BY <1>1, <1>2, <1>3, <1>4, <1>5, <1>7, <1>8, <1>9, <1>10, <1>11, <1>12, <1>13,
     <1>14, <1>15, <1>16, <1>17, <1>18, <1>19
  DEF Next, Step

\* The memory is rebuilt before anything is chosen.
LEMMA RebuildStep ==
    ASSUME TypeOK, RebuildFirst, [Next]_vars
    PROVE  RebuildFirst'
<1> USE DEF cloud, memory, local, budget, users, queues
<1>1. ~NoCall.init
  BY NoCallRebuildsNothing
<1>2. CASE ~cur'.init
  BY <1>2 DEF RebuildFirst
<1>3. CASE cur'.init /\ UNCHANGED <<pc, cur>>
  BY <1>3 DEF RebuildFirst
<1>4. CASE cur'.init /\ pc' \in {"primary", "selector"}
  BY <1>4 DEF RebuildFirst
<1>5. CASE ~cur.init /\ cur' = cur
  BY <1>5 DEF RebuildFirst
<1>6. ASSUME EndLeg(cur), pc \in {"put", "hosts"} PROVE RebuildFirst'
  <2>1. ~cur.init
    BY <1>6 DEF RebuildFirst
  <2>2. cur' = [cur EXCEPT !.flipped = TRUE] \/ cur' = NoCall
    BY <1>6 DEF EndLeg, ClearLocals
  <2> QED
    BY <1>1, <1>2, <2>1, <2>2 DEF TypeOK, Calls
<1>7. ASSUME ReturnError \/ cur' = NoCall PROVE RebuildFirst'
  BY <1>1, <1>2, <1>7 DEF ReturnError, ClearLocals
<1>8. ASSUME NEW s \in Services, NEW k \in {"ensure", "update", "delete"}, Begin(s, k)
      PROVE  RebuildFirst'
  BY <1>2, <1>8 DEF Begin, CallOf
<1>9. ASSUME NEW s \in Services,
             \/ EnsureLoadBalancer(s) \/ UpdateLoadBalancer(s) \/ EnsureLoadBalancerDeleted(s)
      PROVE  RebuildFirst'
  BY <1>3, <1>8, <1>9, <1>2
  DEF EnsureLoadBalancer, UpdateLoadBalancer, EnsureLoadBalancerDeleted
<1>10. CASE ListManagedLBs
  <2>1. CASE synced
    BY <1>5, <1>10, <2>1 DEF ListManagedLBs, RebuildFirst
  <2>2. CASE ~synced
    BY <1>2, <1>4, <1>10, <2>2
    DEF ListManagedLBs, reconcileMultipleStandardLoadBalancerConfigurations
  <2> QED
    BY <2>1, <2>2
<1>11. CASE accommodateNodesByNodeSelectorDone
  <2>1. CASE cur.init
    BY <1>2, <1>11, <2>1 DEF accommodateNodesByNodeSelectorDone, TypeOK, Calls
  <2>2. CASE ~cur.init
    BY <1>5, <1>11, <2>2 DEF accommodateNodesByNodeSelectorDone
  <2> QED
    BY <2>1, <2>2
<1>12. CASE getServiceLoadBalancer \/ CreateOrUpdateLB \/ ReconcileBackendPools
  BY <1>5, <1>12 DEF getServiceLoadBalancer, CreateOrUpdateLB, ReconcileBackendPools, RebuildFirst
<1>13. CASE DeleteFrontend \/ reconcileMultipleStandardLoadBalancerConfigurationStatus
  BY <1>6, <1>13 DEF DeleteFrontend, reconcileMultipleStandardLoadBalancerConfigurationStatus
<1>14. CASE accommodateNodesByPrimaryVMSetDone
  BY <1>2, <1>4, <1>14 DEF accommodateNodesByPrimaryVMSetDone
<1>15. ASSUME NEW n \in Nodes, accommodateNodeByPrimaryVMSet(n) \/ accommodateNodeByNodeSelector(n)
       PROVE  RebuildFirst'
  BY <1>15 DEF accommodateNodeByPrimaryVMSet, accommodateNodeByNodeSelector, RebuildFirst
<1>16. ASSUME NEW l \in LBs, EnsureHostsInPool(l) PROVE RebuildFirst'
  BY <1>16 DEF EnsureHostsInPool, RebuildFirst
<1>17. CASE CallFails \/ CallFailsAfterWrite \/ getServiceLoadBalancerError \/ CreateOrUpdateUnnamedLB
  BY <1>7, <1>17 DEF CallFails, CallFailsAfterWrite, getServiceLoadBalancerError, CreateOrUpdateUnnamedLB
<1>22. CASE DeletionErrorIgnored
  <2>1. ~cur.init
    <3>1. pc # "primary" /\ pc # "selector"
      BY <1>22 DEF DeletionErrorIgnored, Calling
    <3> QED
      BY <3>1 DEF RebuildFirst
  <2> DEFINE call == [cur EXCEPT !.ignored = TRUE]
  <2>2. call \in Calls /\ ~call.init /\ EndLeg(call)
    BY <1>22, <2>1 DEF DeletionErrorIgnored, TypeOK, Calls
  <2> HIDE DEF call
  <2>3. cur' = [call EXCEPT !.flipped = TRUE] \/ cur' = NoCall
    BY <2>2 DEF EndLeg, ClearLocals
  <2> QED
    BY <1>1, <1>2, <2>2, <2>3 DEF Calls
<1>18. ASSUME NEW s \in Services, NEW x \in Spelled, EditService(s, x) PROVE RebuildFirst'
  BY <1>18 DEF EditService, RebuildFirst
<1>19. ASSUME NEW n \in Nodes, NEW x \in NodeStates, updateNodeCaches(n, x) PROVE RebuildFirst'
  BY <1>19 DEF updateNodeCaches, RebuildFirst
<1>20. ASSUME NEW a \in Flags, Restart(a) PROVE RebuildFirst'
  BY <1>7, <1>20 DEF Restart, ClearLocals
<1>21. CASE UNCHANGED vars
  BY <1>21 DEF vars, RebuildFirst
<1> QED
  BY <1>9, <1>10, <1>11, <1>12, <1>13, <1>14, <1>15, <1>16, <1>17, <1>18, <1>19, <1>20, <1>21, <1>22
  DEF Next, Step

\* At the end of the pass the pools have every node that is due to them.
LEMMA HostInvServes ==
    ASSUME TypeOK, HostInv PROVE NodesServed
<1> SUFFICES ASSUME pc = "hosts", todoLBs = {}, NEW n \in cur.nodes, Unclaimed(n), eligibleForNode(n) # {}
             PROVE  \E c \in Configs :
                       /\ isLBInList(c)
                       /\ \A i \in BOOLEAN : <<c, i>> \in exists => n \in pool[<<c, i>>]
  BY DEF NodesServed
<1>1. target \in exists /\ ~cur.init
  BY DEF HostInv, TargetThere
<1>2. PICK c \in eligibleForNode(n) : n \in activeNodes[c]
  BY DEF HostInv, LookedAtSound, Accommodated
<1>3. c \in Configs /\ Available(c)
  BY DEF eligibleForNode, matchingConfigs
<1>4. target = <<target[1], target[2]>> /\ target[2] \in BOOLEAN
  BY <1>1 DEF TypeOK, LBs
<1>5. isLBInList(c)
  BY <1>1, <1>3, <1>4 DEF Available, isLBInList
<1>6. \A i \in BOOLEAN : <<c, i>> \in exists => n \in pool[<<c, i>>]
  <2> SUFFICES ASSUME NEW i \in BOOLEAN, <<c, i>> \in exists PROVE n \in pool[<<c, i>>]
    OBVIOUS
  <2> DEFINE l == <<c, i>>
  <2>1. l \in exists \ todoLBs /\ l[1] = c
    OBVIOUS
  <2> HIDE DEF l
  <2>2. n \in pool[l]
    BY <1>2, <2>1 DEF HostInv, PoolsFollow
  <2> QED
    BY <2>2 DEF l
<1> QED
  BY <1>3, <1>5, <1>6

\* Whatever fails, restarts or changes in the middle, when the backend pools
\* have been brought up to date every node of the list that the selectors
\* arrange, and that an existing load balancer is eligible for, is a backend
\* of the load balancers of some configuration (reconcileBackendPoolHosts,
\* accommodateNodesByNodeSelector).
THEOREM NodesAreServed == Spec => []NodesServed
<1>1. Init => RebuildFirst /\ HostInv
  BY NoCallRebuildsNothing
  DEF Init, RebuildFirst, HostInv, NoneCorrect, TargetThere, MapSound, LookedAtSound, PoolsFollow
<1>2. TypeOK /\ RebuildFirst /\ [Next]_vars => RebuildFirst'
  BY RebuildStep
<1>3. TypeOK /\ TypeOK' /\ HostInv /\ RebuildFirst /\ [Next]_vars => HostInv'
  BY HostStep
<1>4. TypeOK /\ HostInv => NodesServed
  BY HostInvServes
<1> QED
  BY <1>1, <1>2, <1>3, <1>4, TypeCorrect, PTL DEF Spec

-------------------------------------------------------------------------------
(* A service stays where it may be. *)

\* The services of the cluster are all internal or all external.
SingleKind == \A i, j \in Kinds : i = j

\* No configuration selects by label and by namespace.
OneSelector ==
    \A c \in Configs : ServiceLabelSelector[c] = Nil \/ ServiceNamespaceSelector[c] = Nil

\* Frontends are of that kind.
OneKind ==
    /\ pc # "idle" => cur.internal \in Kinds
    /\ \A l \in LBs : fips[l] # {} => l[2] \in Kinds

\* Once the memory is rebuilt it knows of every frontend, but for the one that
\* is being added.
Known ==
    synced \/ cur.init =>
        \A l \in LBs : \A s \in fips[l] :
            s \in activeServices[l[1]] \/ (fipChanged /\ s = cur.s /\ l = target)

RebuiltBefore ==
    pc \in {"choose", "pools", "put", "hosts"} \/ (pc \in {"primary", "selector"} /\ ~cur.init) => synced

\* Frontends and operations are of services that the cluster still has.
Live ==
    /\ pc # "idle" => svc[cur.s].state \notin Ended
    /\ \A l \in LBs : \A s \in fips[l] : svc[s].state \notin Ended

\* A deletion finds the frontend, and has removed it when it looks at the
\* load balancers of the other kind.
Leaving ==
    cur.kind = "delete" =>
        /\ pc = "put" /\ ~cur.flipped =>
              \A l \in LBs : l[2] = isInternal /\ cur.s \in fips[l] => l = target
        /\ pc # "idle" /\ cur.flipped => \A l \in LBs : cur.s \notin fips[l]

\* Nodes are arranged, other than to rebuild the memory, for a service that
\* is wanted.
Wanting ==
    pc \in {"pools", "hosts"} \/ (pc \in {"primary", "selector"} /\ ~cur.init) => wantLb

StayInv == OneKind /\ Known /\ RebuiltBefore /\ Live /\ Leaving /\ Wanting

\* Steps that leave frontends and memory alone, or end the operation.
LEMMA QuietKeepsStay ==
    ASSUME TypeOK, StayInv, UNCHANGED <<fips, activeServices, synced>>,
           \A s \in Services : svc[s].state \notin Ended => svc'[s].state \notin Ended,
           \/ UNCHANGED <<pc, cur, target, fipChanged>>
           \/ pc' = "idle" /\ ~cur'.init /\ ~fipChanged
           \/ /\ UNCHANGED <<cur, target, fipChanged>>
              /\ (pc = "primary" /\ pc' = "selector") \/ (pc = "pools" /\ pc' = "put")
           \/ UNCHANGED <<cur, target, fipChanged>> /\ pc = "selector" /\ ~cur.init /\ pc' = "hosts"
    PROVE  StayInv'
<1>1. \A l \in LBs : \A s \in fips[l] : s \in Services
  BY DEF TypeOK
<1>2. CASE pc' = "idle" /\ ~cur'.init /\ ~fipChanged
  BY <1>1, <1>2 DEF StayInv, OneKind, Known, RebuiltBefore, Live, Leaving, Wanting
<1>3. CASE UNCHANGED <<cur, target, fipChanged>>
  <2>1. cur.s \in Services /\ isInternal' = isInternal /\ wantLb' = wantLb
    BY <1>3 DEF TypeOK, Calls, isInternal, wantLb
  <2>2. OneKind' /\ Known' /\ RebuiltBefore' /\ Wanting'
    BY <1>3, <2>1 DEF StayInv, OneKind, Known, RebuiltBefore, Wanting
  <2>3. Live'
    BY <1>1, <1>3, <2>1 DEF StayInv, Live
  <2>4. Leaving'
    BY <1>3, <2>1 DEF StayInv, Leaving, Wanting, wantLb
  <2> QED
    BY <2>2, <2>3, <2>4 DEF StayInv
<1> QED
  BY <1>2, <1>3

\* A removal takes one service off one load balancer.
LEMMA RemovalTakesOne ==
    ASSUME TypeOK, NEW l \in LBs, RemoveFrontend(l)
    PROVE  /\ \A m \in LBs : \A s : s \in fips'[m] => s \in fips[m] /\ ~(m = l /\ s = cur.s)
           /\ \A m \in LBs : fips'[m] # {} => fips[m] # {}
BY RemovalShrinks

\* What it takes off is forgotten.
LEMMA RemovalKeepsKnown ==
    ASSUME SingleKind, TypeOK, FrontendInv, StayInv, synced, ~fipChanged, NEW l \in LBs,
           cur.s \in fips[l], RemoveFrontend(l),
           activeServices' = [activeServices EXCEPT ![l[1]] = @ \ {cur.s}]
    PROVE  /\ \A m \in LBs : \A s \in fips'[m] : s \in activeServices'[m[1]]
           /\ \A m \in LBs : cur.s \notin fips'[m]
           /\ \A m \in LBs : fips'[m] # {} => m[2] \in Kinds
<1>1. \A m \in LBs : \A s : s \in fips'[m] => s \in fips[m] /\ ~(m = l /\ s = cur.s)
  BY RemovalTakesOne
<1>2. \A m \in LBs : cur.s \in fips[m] => m = l
  <2> SUFFICES ASSUME NEW m \in LBs, cur.s \in fips[m] PROVE m = l
    OBVIOUS
  <2>1. m[2] \in Kinds /\ l[2] \in Kinds
    BY DEF StayInv, OneKind
  <2>2. m[2] = l[2]
    BY <2>1 DEF SingleKind
  <2>3. fips[l] \cap fips[m] # {}
    OBVIOUS
  <2> QED
    BY <2>2, <2>3 DEF FrontendInv, OneFrontendPerKind
<1>3. \A m \in LBs : cur.s \notin fips'[m]
  BY <1>1, <1>2
<1>4. \A m \in LBs : \A s \in fips'[m] : s \in activeServices'[m[1]]
  <2> SUFFICES ASSUME NEW m \in LBs, NEW s \in fips'[m] PROVE s \in activeServices'[m[1]]
    OBVIOUS
  <2>1. s # cur.s /\ s \in activeServices[m[1]]
    BY <1>1, <1>3 DEF StayInv, Known
  <2>2. m[1] \in Configs
    BY DEF LBs
  <2> QED
    BY <2>1, <2>2 DEF TypeOK
<1>5. \A m \in LBs : fips'[m] # {} => m[2] \in Kinds
  BY RemovalTakesOne DEF StayInv, OneKind
<1> QED
  BY <1>3, <1>4, <1>5

\* The choice.
LEMMA ChoiceKeepsStay ==
    ASSUME SingleKind, TypeOK, TypeOK', FrontendInv, PlacementInv, StayInv, getServiceLoadBalancer
    PROVE  StayInv'
<1> USE DEF cloud, memory, users
<1>1. /\ pc = "choose" /\ pc' = NextPcAfterChoice
      /\ UNCHANGED <<cur, svc, fipChanged, synced>>
  BY DEF getServiceLoadBalancer
<1>2. synced /\ ~fipChanged
  BY <1>1 DEF StayInv, RebuiltBefore, PlacementInv, AddedIsThere
<1>3. PICK c \in getMostEligibleLBForService(isInternal) :
          \/ /\ CurrentLBs = {}
             /\ UNCHANGED <<fips, activeServices>>
          \/ \E l \in CurrentLBs :
               \/ /\ target' = l
                  /\ UNCHANGED <<fips, activeServices>>
               \/ /\ wantLb
                  /\ RemoveFrontend(l)
                  /\ activeServices' = [activeServices EXCEPT ![l[1]] = @ \ {cur.s}]
  BY DEF getServiceLoadBalancer
<1>4. \A l \in LBs : l[2] = isInternal /\ cur.s \in fips[l] => l \in CurrentLBs
  BY DEF FrontendInv, FipsOnExisting, CurrentLBs
<1>5. \A l, m \in CurrentLBs : l \in LBs /\ cur.s \in fips[l] /\ l = m
  BY DEF CurrentLBs, FrontendInv, OneFrontendPerKind, TypeOK
<1>6. isInternal' = isInternal /\ wantLb' = wantLb
  BY <1>1 DEF isInternal, wantLb
<1>7. RebuiltBefore' /\ Wanting'
  BY <1>1, <1>2, <1>6 DEF RebuiltBefore, Wanting, NextPcAfterChoice
<1>8. \A l \in LBs : \A s \in fips[l] : s \in activeServices[l[1]]
  BY <1>2 DEF StayInv, Known
<1>9. ASSUME UNCHANGED <<fips, activeServices>>,
             CurrentLBs = {} \/ target' \in CurrentLBs
      PROVE  StayInv'
  <2>1. OneKind' /\ Known' /\ Live'
    BY <1>1, <1>8, <1>9 DEF StayInv, OneKind, Known, Live
  <2>2. Leaving'
    BY <1>1, <1>4, <1>5, <1>6, <1>9 DEF StayInv, Leaving
  <2> QED
    BY <1>7, <2>1, <2>2 DEF StayInv
<1>10. ASSUME NEW l \in CurrentLBs, wantLb, RemoveFrontend(l),
              activeServices' = [activeServices EXCEPT ![l[1]] = @ \ {cur.s}]
       PROVE  StayInv'
  <2>1. /\ \A m \in LBs : \A s \in fips'[m] : s \in activeServices'[m[1]]
        /\ \A m \in LBs : fips'[m] # {} => m[2] \in Kinds
    BY <1>2, <1>5, <1>10, RemovalKeepsKnown
  <2>2. \A m \in LBs : \A s : s \in fips'[m] => s \in fips[m]
    BY <1>5, <1>10, RemovalTakesOne
  <2>3. OneKind' /\ Known' /\ Live'
    BY <1>1, <2>1, <2>2 DEF StayInv, OneKind, Known, Live
  <2>4. Leaving'
    BY <1>1, <1>10 DEF Leaving, wantLb
  <2> QED
    BY <1>7, <2>3, <2>4 DEF StayInv
<1> QED
  BY <1>3, <1>9, <1>10

\* The frontend is added, of which the memory will learn, or it is known.
LEMMA AdditionKeepsStay ==
    ASSUME SingleKind, TypeOK, TypeOK', FrontendInv, PlacementInv, StayInv, CreateOrUpdateLB
    PROVE  StayInv'
<1> USE DEF cloud, memory, users
<1>1. /\ pc = "put" /\ pc' = "primary" /\ wantLb /\ target \in LBs
      /\ fips' = [fips EXCEPT ![target] = @ \cup {cur.s}]
      /\ fipChanged' = (cur.s \notin fips[target])
      /\ UNCHANGED <<cur, svc, synced, target, activeServices>>
  BY DEF CreateOrUpdateLB
<1>2. synced /\ ~fipChanged
  BY <1>1 DEF StayInv, RebuiltBefore, PlacementInv, AddedIsThere
<1>3. /\ \A l \in LBs : l # target => fips'[l] = fips[l]
      /\ fips'[target] = fips[target] \cup {cur.s}
  BY <1>1 DEF TypeOK
<1>4. target[2] \in Kinds
  <2>1. target[2] = isInternal
    BY <1>1 DEF FrontendInv, TargetSound
  <2>2. cur.flipped = FALSE /\ cur.internal \in BOOLEAN
    BY <1>1 DEF wantLb, TypeOK, Calls
  <2>3. isInternal = cur.internal
    BY <2>2 DEF isInternal
  <2> QED
    BY <1>1, <2>1, <2>3 DEF StayInv, OneKind
<1>5. OneKind'
  BY <1>1, <1>3, <1>4 DEF StayInv, OneKind
<1>6. Known'
  <2> SUFFICES ASSUME NEW l \in LBs, NEW s \in fips'[l]
               PROVE  s \in activeServices[l[1]] \/ (fipChanged' /\ s = cur.s /\ l = target)
    BY <1>1 DEF Known
  <2>1. CASE s \in fips[l]
    BY <1>2, <2>1 DEF StayInv, Known
  <2>2. CASE s \notin fips[l]
    BY <1>1, <1>3, <2>2
  <2> QED
    BY <2>1, <2>2
<1>7. Live'
  BY <1>1, <1>3 DEF StayInv, Live
<1>8. RebuiltBefore' /\ Wanting' /\ Leaving'
  BY <1>1, <1>2 DEF RebuiltBefore, Wanting, Leaving, wantLb
<1> QED
  BY <1>5, <1>6, <1>7, <1>8 DEF StayInv

\* A service that is not wanted on the load balancers of a kind.
LEMMA DeletionKeepsStay ==
    ASSUME SingleKind, TypeOK, TypeOK', FrontendInv, PlacementInv, StayInv, DeleteFrontend
    PROVE  StayInv'
<1> USE DEF cloud, memory, users
<1>1. pc = "put" /\ ~wantLb /\ EndLeg(cur) /\ synced' = synced
  BY DEF DeleteFrontend
<1>2. synced /\ ~fipChanged /\ ~cur.init
  BY <1>1 DEF StayInv, RebuiltBefore, PlacementInv, AddedIsThere, RebuildFirst
<1>3. /\ \A m \in LBs : \A s \in fips'[m] : s \in fips[m] /\ s \in activeServices'[m[1]]
      /\ \A m \in LBs : fips'[m] # {} => m[2] \in Kinds
  <2>1. CASE OnTarget
    <3>1. /\ target \in LBs /\ RemoveFrontend(target) /\ cur.s \in fips[target]
          /\ activeServices' = [activeServices EXCEPT ![target[1]] = @ \ {cur.s}]
      BY <2>1 DEF DeleteFrontend, OnTarget, TypeOK
    <3> QED
      BY <1>2, <3>1, RemovalKeepsKnown, RemovalTakesOne
  <2>2. CASE ~OnTarget
    <3>1. UNCHANGED <<fips, activeServices>>
      BY <2>2 DEF DeleteFrontend
    <3> QED
      BY <1>2, <3>1 DEF StayInv, Known, OneKind
  <2> QED
    BY <2>1, <2>2
<1>4. cur.kind = "delete" => \A m \in LBs : cur.s \notin fips'[m]
  <2> SUFFICES ASSUME cur.kind = "delete", NEW m \in LBs, cur.s \in fips'[m] PROVE FALSE
    OBVIOUS
  <2>0. cur.s \in fips[m] /\ m \in exists
    BY <1>3 DEF FrontendInv, FipsOnExisting
  <2>1. ~cur.flipped
    BY <1>1, <2>0 DEF StayInv, Leaving
  <2>2. CASE OnTarget
    <3>1. /\ target \in LBs /\ RemoveFrontend(target) /\ cur.s \in fips[target]
          /\ activeServices' = [activeServices EXCEPT ![target[1]] = @ \ {cur.s}]
      BY <2>2 DEF DeleteFrontend, OnTarget, TypeOK
    <3> QED
      BY <1>2, <3>1, RemovalKeepsKnown
  <2>3. CASE ~OnTarget
    <3>1. m[2] \in Kinds /\ cur.internal \in Kinds
      BY <1>1, <2>0 DEF StayInv, OneKind
    <3>2. m[2] = cur.internal
      BY <3>1 DEF SingleKind
    <3>3. cur.flipped = FALSE /\ cur.internal \in BOOLEAN
      BY <2>1 DEF TypeOK, Calls
    <3>4. isInternal = cur.internal
      BY <3>3 DEF isInternal
    <3>5. m = target
      BY <1>1, <2>0, <2>1, <3>2, <3>4 DEF StayInv, Leaving
    <3> QED
      BY <2>0, <2>3, <3>5 DEF OnTarget
  <2> QED
    BY <2>2, <2>3
<1>5. CASE ~cur.flipped
  <2>1. /\ cur' = [cur EXCEPT !.flipped = TRUE] /\ pc' = "list"
        /\ svc' = svc /\ fipChanged' = FALSE
    BY <1>1, <1>5 DEF EndLeg
  <2>2. cur'.s = cur.s /\ cur'.internal = cur.internal /\ cur'.kind = cur.kind
    BY <2>1 DEF TypeOK, Calls
  <2>3. OneKind' /\ Known' /\ Live'
    BY <1>1, <1>3, <2>1, <2>2 DEF StayInv, OneKind, Known, Live
  <2>4. RebuiltBefore' /\ Wanting' /\ Leaving'
    BY <1>4, <2>1, <2>2 DEF RebuiltBefore, Wanting, Leaving
  <2> QED
    BY <2>3, <2>4 DEF StayInv
<1>6. CASE cur.flipped
  <2>1. /\ pc' = "idle" /\ fipChanged' = FALSE /\ cur' = NoCall
        /\ svc' = IF cur.kind = "delete" THEN [svc EXCEPT ![cur.s].state = Deleted(cur)] ELSE svc
    BY <1>1, <1>6 DEF EndLeg, ClearLocals
  <2>2. \A s \in Services : svc'[s].state = svc[s].state \/ (s = cur.s /\ cur.kind = "delete")
    BY <2>1 DEF TypeOK
  <2>3. \A m \in LBs : \A s \in fips'[m] : s \in Services /\ svc'[s].state \notin Ended
    BY <1>3, <1>4, <2>2 DEF StayInv, Live, TypeOK
  <2>4. OneKind' /\ Known' /\ Live'
    BY <1>3, <2>1, <2>3 DEF OneKind, Known, Live
  <2> QED
    BY <2>1, <2>4 DEF StayInv, RebuiltBefore, Wanting, Leaving
<1> QED
  BY <1>5, <1>6

\* Every step keeps the invariant.
LEMMA StayStep ==
    ASSUME MaxFaults = 0, SingleKind, TypeOK, TypeOK', FrontendInv, PlacementInv, StayInv,
           [Next]_vars
    PROVE  StayInv'
<1> USE DEF cloud, memory, local, budget, users, queues
<1>1. ~NoCall.init
  BY NoCallRebuildsNothing
<1>2. CASE getServiceLoadBalancer
  BY <1>2, ChoiceKeepsStay
<1>3. CASE CreateOrUpdateLB
  BY <1>3, AdditionKeepsStay
<1>4. CASE DeleteFrontend
  BY <1>4, DeletionKeepsStay
<1>5. CASE CallFails \/ CallFailsAfterWrite \/ DeletionErrorIgnored
  BY <1>5 DEF CallFails, CallFailsAfterWrite, DeletionErrorIgnored, TypeOK
<1>6. CASE UNCHANGED vars
  BY <1>6, QuietKeepsStay DEF vars
<1>7. ASSUME NEW s \in Services, NEW k \in {"ensure", "update", "delete"},
             svc[s].state \notin Ended, Begin(s, k)
      PROVE  StayInv'
  <2>1. /\ pc = "idle" /\ pc' = "list" /\ cur' = CallOf(s, k)
        /\ UNCHANGED <<fips, activeServices, synced, svc, fipChanged>>
    BY <1>7 DEF Begin
  <2>2. ~fipChanged /\ ~cur.init
    BY <2>1 DEF PlacementInv, AddedIsThere, RebuildFirst
  <2>3. svc[s].internal \in Kinds
    BY DEF TypeOK, Spelled
  <2>4. /\ cur'.s = s /\ cur'.internal \in Kinds /\ cur'.kind = k
        /\ ~cur'.flipped /\ ~cur'.init
    BY <2>1, <2>3 DEF CallOf
  <2>5. OneKind' /\ Known' /\ Live'
    BY <1>7, <2>1, <2>2, <2>4 DEF StayInv, OneKind, Known, Live
  <2> QED
    BY <2>1, <2>4, <2>5 DEF StayInv, RebuiltBefore, Wanting, Leaving
<1>8. ASSUME NEW s \in Services,
             \/ EnsureLoadBalancer(s) \/ UpdateLoadBalancer(s) \/ EnsureLoadBalancerDeleted(s)
      PROVE  StayInv'
  <2>1. CASE /\ svc[s].state \notin Ended
             /\ Begin(s, "ensure") \/ Begin(s, "update") \/ Begin(s, "delete")
    BY <1>7, <2>1
  <2>2. CASE UNCHANGED <<fips, activeServices, synced, svc, pc, cur, target, fipChanged>>
    BY <2>2, QuietKeepsStay
  <2> QED
    BY <1>8, <2>1, <2>2
    DEF EnsureLoadBalancer, UpdateLoadBalancer, EnsureLoadBalancerDeleted, shouldUpdateLoadBalancer, Ended
<1>9. CASE ListManagedLBs
  <2>0. pc = "list" /\ UNCHANGED <<fips, synced, svc, fipChanged, target>> /\ ~fipChanged /\ ~cur.init
    BY <1>9 DEF ListManagedLBs, PlacementInv, AddedIsThere, RebuildFirst
  <2>1. CASE synced
    <3>1. pc' = "choose" /\ UNCHANGED <<activeServices, cur>>
      BY <1>9, <2>1 DEF ListManagedLBs
    <3> QED
      BY <2>0, <2>1, <3>1 DEF StayInv, OneKind, Known, RebuiltBefore, Live, Leaving, Wanting
  <2>2. CASE ~synced
    <3>1. /\ pc' = "primary" /\ cur' = [cur EXCEPT !.init = TRUE]
          /\ activeServices' =
                [c \in Configs |-> activeServices[c] \cup
                    {s \in Services : /\ svc[s].state \notin Ended
                                     /\ \E i \in BOOLEAN : s \in fips[<<c, i>>]}]
      BY <1>9, <2>2 DEF ListManagedLBs, reconcileMultipleStandardLoadBalancerConfigurations
    <3>2. /\ cur'.s = cur.s /\ cur'.internal = cur.internal /\ cur'.kind = cur.kind
          /\ cur'.flipped = cur.flipped /\ cur'.init
      BY <3>1 DEF TypeOK, Calls
    <3>3. \A l \in LBs : \A s \in fips[l] : s \in activeServices'[l[1]]
      <4> SUFFICES ASSUME NEW l \in LBs, NEW s \in fips[l] PROVE s \in activeServices'[l[1]]
        OBVIOUS
      <4>1. l = <<l[1], l[2]>> /\ l[1] \in Configs /\ l[2] \in BOOLEAN
        BY DEF LBs
      <4>2. s \in Services /\ svc[s].state \notin Ended
        BY DEF StayInv, Live, TypeOK
      <4>3. s \in fips[<<l[1], l[2]>>]
        BY <4>1
      <4> QED
        BY <3>1, <4>1, <4>2, <4>3
    <3>4. OneKind' /\ Known' /\ Live'
      BY <2>0, <3>1, <3>2, <3>3 DEF StayInv, OneKind, Known, Live
    <3>5. RebuiltBefore' /\ Wanting' /\ Leaving'
      BY <2>0, <3>1, <3>2 DEF StayInv, RebuiltBefore, Wanting, Leaving
    <3> QED
      BY <3>4, <3>5 DEF StayInv
  <2> QED
    BY <2>1, <2>2
<1>10. ASSUME NEW n \in Nodes, accommodateNodeByPrimaryVMSet(n) \/ accommodateNodeByNodeSelector(n)
       PROVE  StayInv'
  <2>1. UNCHANGED <<fips, activeServices, synced, svc, pc, cur, target, fipChanged>>
    BY <1>10 DEF accommodateNodeByPrimaryVMSet, accommodateNodeByNodeSelector
  <2> QED
    BY <2>1, QuietKeepsStay
<1>11. CASE accommodateNodesByPrimaryVMSetDone
  <2>1. /\ pc = "primary" /\ pc' = "selector"
        /\ UNCHANGED <<fips, activeServices, synced, svc, cur, target, fipChanged>>
    BY <1>11 DEF accommodateNodesByPrimaryVMSetDone
  <2>2. \A s \in Services : svc[s].state \notin Ended => svc'[s].state \notin Ended
    BY <2>1
  <2> QED
    BY <2>1, <2>2, QuietKeepsStay
<1>12. CASE accommodateNodesByNodeSelectorDone
  <2>1. pc = "selector" /\ UNCHANGED <<fips, activeServices, svc, fipChanged, target>>
    BY <1>12 DEF accommodateNodesByNodeSelectorDone
  <2>2. CASE cur.init
    <3>1. ~fipChanged /\ pc' = "choose" /\ cur' = [cur EXCEPT !.init = FALSE] /\ synced'
      BY <1>12, <2>2 DEF accommodateNodesByNodeSelectorDone, PlacementInv, AddedIsThere
    <3>2. /\ cur'.s = cur.s /\ cur'.internal = cur.internal /\ cur'.kind = cur.kind
          /\ cur'.flipped = cur.flipped
      BY <3>1 DEF TypeOK, Calls
    <3> QED
      BY <2>1, <2>2, <3>1, <3>2
      DEF StayInv, OneKind, Known, RebuiltBefore, Live, Leaving, Wanting
  <2>3. CASE ~cur.init
    <3>1. pc' = "hosts" /\ UNCHANGED <<cur, synced>>
      BY <1>12, <2>3 DEF accommodateNodesByNodeSelectorDone
    <3> QED
      BY <2>1, <2>3, <3>1, QuietKeepsStay
  <2> QED
    BY <2>2, <2>3
<1>13. CASE getServiceLoadBalancerError \/ CreateOrUpdateUnnamedLB
  <2>1. /\ pc \in {"choose", "put"} /\ pc' = "idle" /\ cur' = NoCall
        /\ UNCHANGED <<fips, activeServices, synced, svc>>
    BY <1>13 DEF getServiceLoadBalancerError, CreateOrUpdateUnnamedLB, ReturnError, ClearLocals
  <2>2. ~fipChanged
    BY <2>1 DEF PlacementInv, AddedIsThere
  <2> QED
    BY <1>1, <2>1, <2>2, QuietKeepsStay
<1>14. CASE ReconcileBackendPools
  <2>1. /\ pc = "pools" /\ pc' = "put"
        /\ UNCHANGED <<fips, activeServices, synced, svc, cur, target, fipChanged>>
    BY <1>14 DEF ReconcileBackendPools
  <2> QED
    BY <2>1, QuietKeepsStay
<1>15. ASSUME NEW l \in LBs, EnsureHostsInPool(l) PROVE StayInv'
  <2>1. UNCHANGED <<fips, activeServices, synced, svc, pc, cur, target, fipChanged>>
    BY <1>15 DEF EnsureHostsInPool
  <2> QED
    BY <2>1, QuietKeepsStay
<1>16. CASE reconcileMultipleStandardLoadBalancerConfigurationStatus
  <2>1. /\ pc = "hosts" /\ EndLeg(cur) /\ UNCHANGED <<fips, synced>>
        /\ activeServices' = IF fipChanged
                             THEN [activeServices EXCEPT ![target[1]] = @ \cup {cur.s}]
                             ELSE activeServices
    BY <1>16 DEF reconcileMultipleStandardLoadBalancerConfigurationStatus
  <2>2. wantLb /\ ~cur.flipped /\ cur.kind # "delete" /\ synced
    BY <2>1 DEF StayInv, Wanting, wantLb, RebuiltBefore
  <2>3. /\ cur' = [cur EXCEPT !.flipped = TRUE] /\ pc' = "list"
        /\ svc' = svc /\ fipChanged' = FALSE
    BY <2>1, <2>2 DEF EndLeg
  <2>4. cur'.s = cur.s /\ cur'.internal = cur.internal /\ cur'.kind # "delete"
    BY <2>2, <2>3 DEF TypeOK, Calls
  <2>5. \A l \in LBs : \A s \in fips[l] : s \in activeServices'[l[1]]
    <3> SUFFICES ASSUME NEW l \in LBs, NEW s \in fips[l] PROVE s \in activeServices'[l[1]]
      OBVIOUS
    <3>1. s \in activeServices[l[1]] \/ (fipChanged /\ s = cur.s /\ l = target)
      BY <2>2 DEF StayInv, Known
    <3>2. l[1] \in Configs
      BY DEF LBs
    <3> QED
      BY <2>1, <3>1, <3>2 DEF TypeOK
  <2>6. OneKind' /\ Known' /\ Live'
    BY <2>1, <2>3, <2>4, <2>5 DEF StayInv, OneKind, Known, Live
  <2> QED
    BY <2>3, <2>4, <2>6 DEF StayInv, RebuiltBefore, Wanting, Leaving
<1>17. ASSUME NEW s \in Services, NEW x \in Spelled, EditService(s, x) PROVE StayInv'
  <2>1. /\ svc' = [svc EXCEPT ![s] = x] /\ x.state \notin Ended
        /\ UNCHANGED <<fips, activeServices, synced, pc, cur, target, fipChanged>>
    BY <1>17 DEF EditService, TypeOK, Spelled, Ended
  <2>2. \A t \in Services : svc[t].state \notin Ended => svc'[t].state \notin Ended
    BY <2>1 DEF TypeOK
  <2> QED
    BY <2>1, <2>2, QuietKeepsStay
<1>18. ASSUME NEW n \in Nodes, NEW x \in NodeStates, updateNodeCaches(n, x) PROVE StayInv'
  <2>1. UNCHANGED <<fips, activeServices, synced, svc, pc, cur, target, fipChanged>>
    BY <1>18 DEF updateNodeCaches
  <2> QED
    BY <2>1, QuietKeepsStay
<1>19. ASSUME NEW a \in Flags, Restart(a) PROVE StayInv'
  <2>1. pc' = "idle" /\ cur' = NoCall /\ synced' = FALSE /\ UNCHANGED <<fips, svc>>
    BY <1>19 DEF Restart, ClearLocals
  <2> QED
    BY <1>1, <2>1 DEF StayInv, OneKind, Known, RebuiltBefore, Live, Leaving, Wanting
<1> QED
  BY <1>2, <1>3, <1>4, <1>5, <1>6, <1>8, <1>9, <1>10, <1>11, <1>12, <1>13, <1>14, <1>15,
     <1>16, <1>17, <1>18, <1>19
  DEF Next, Step

\* With no configuration that selects both ways, the flag is raised only when a
\* configuration with a selector is eligible.
LEMMA MatchedIsEligible ==
    ASSUME OneSelector, NEW k, k.s \in Services, selectorMatched(k)
    PROVE  \E d \in eligibleBySelector(k) : ~NoSelector(d)
<1>1. selectedByAnnotation(k) \subseteq Configs
  BY SelectorAssumption DEF selectedByAnnotation
<1>2. PICK d \in selectedByAnnotation(k) :
        /\ PlacementAllowed(k, d) /\ LabelMatches(k, d)
        /\ \/ ServiceLabelSelector[d] # Nil
           \/ ServiceNamespaceSelector[d] # Nil /\ NamespaceMatches(k, d)
  BY DEF selectorMatched
<1>3. NamespaceMatches(k, d)
  BY <1>1, <1>2 DEF OneSelector, NamespaceMatches
<1>4. d \in eligibleBySelector(k) /\ ~NoSelector(d)
  BY <1>2, <1>3 DEF eligibleBySelector, NoSelector
<1> QED
  BY <1>4

\* The load balancer a service rightfully uses is the only one it may get.
LEMMA RightfulIsChosen ==
    ASSUME SingleKind, OneSelector, TypeOK, FrontendInv, PlacementInv, StayInv, pc = "choose",
           NEW l \in CurrentLBs, RightfulPlace(l[1]),
           NEW c \in getMostEligibleLBForService(isInternal)
    PROVE  c = l[1]
<1>0. cur.s \in Services
  BY DEF TypeOK, Calls
<1>1. l \in LBs /\ cur.s \in fips[l] /\ l[1] \in Configs /\ l = <<l[1], l[2]>>
  BY DEF CurrentLBs, TypeOK, LBs
<1>2. cur.s \in activeServices[l[1]]
  BY <1>1 DEF StayInv, Known, RebuiltBefore, PlacementInv, AddedIsThere
<1>3. InUse = {l[1]}
  <2>1. l[1] \in InUse
    BY <1>1, <1>2 DEF InUse, isLoadBalancerInUseByService
  <2>2. ASSUME NEW d \in InUse PROVE d = l[1]
    <3>1. d \in Configs /\ cur.s \in activeServices[d]
      BY DEF InUse, isLoadBalancerInUseByService
    <3>2. PICK i \in BOOLEAN : cur.s \in fips[<<d, i>>]
      BY <3>1 DEF PlacementInv, ActiveIsOn
    <3> DEFINE m == <<d, i>>
    <3>3. m \in LBs /\ cur.s \in fips[m] /\ m[1] = d
      BY <3>1, <3>2 DEF LBs
    <3> HIDE DEF m
    <3>4. m[2] = l[2]
      BY <1>1, <3>3 DEF StayInv, OneKind, SingleKind
    <3>5. fips[l] \cap fips[m] # {}
      BY <1>1, <3>3
    <3>6. l = m
      BY <1>1, <3>3, <3>4, <3>5 DEF FrontendInv, OneFrontendPerKind
    <3> QED
      BY <3>3, <3>6
  <2> QED
    BY <2>1, <2>2
<1>4. First(InUse) = l[1] /\ InUse # {}
  BY <1>1, <1>3, FirstIn
<1>5. l[1] \in eligibleBySelector(cur)
  BY <1>2 DEF RightfulPlace, eligibleBySelector, PlacementAllowed, isLoadBalancerInUseByService
<1>6. l[1] \in getEligibleLoadBalancersForService(cur)
  <2>1. CASE selectorMatched(cur)
    <3>1. \E d \in eligibleBySelector(cur) : ~NoSelector(d)
      BY <1>0, <2>1, MatchedIsEligible
    <3>2. ~NoSelector(l[1])
      BY <3>1 DEF RightfulPlace
    <3> QED
      BY <1>5, <2>1, <3>2 DEF getEligibleLoadBalancersForService
  <2>2. CASE ~selectorMatched(cur)
    BY <1>5, <2>2 DEF getEligibleLoadBalancersForService
  <2> QED
    BY <2>1, <2>2
<1>7. getMostEligibleLBForService(isInternal) = {First(InUse)}
  BY <1>4, <1>6 DEF getMostEligibleLBForService
<1> QED
  BY <1>4, <1>7

Stays ==
    \A l \in CurrentLBs : pc = "choose" /\ wantLb /\ RightfulPlace(l[1]) => cur.s \in fips'[l]

LEMMA StepStays ==
    ASSUME MaxFaults = 0, SingleKind, OneSelector, TypeOK, FrontendInv, PlacementInv, StayInv,
           [Next]_vars
    PROVE  Stays
<1> USE DEF cloud, memory, local, budget, users, queues
<1> SUFFICES ASSUME NEW l \in CurrentLBs, pc = "choose", wantLb, RightfulPlace(l[1])
             PROVE  cur.s \in fips'[l]
  BY DEF Stays
<1>0. cur.s \in fips[l]
  BY DEF CurrentLBs
<1>1. CASE fips' = fips
  BY <1>0, <1>1
<1>2. CASE getServiceLoadBalancer
  <2>1. \A c \in getMostEligibleLBForService(isInternal) : c = l[1]
    BY RightfulIsChosen
  <2>2. \A m \in CurrentLBs : m = l
    BY DEF CurrentLBs, FrontendInv, OneFrontendPerKind, TypeOK
  <2>3. fips' = fips
    BY <1>2, <2>1, <2>2 DEF getServiceLoadBalancer
  <2> QED
    BY <1>1, <2>3
<1>3. CASE CallFails \/ CallFailsAfterWrite \/ DeletionErrorIgnored
  BY <1>3 DEF CallFails, CallFailsAfterWrite, DeletionErrorIgnored, TypeOK
<1>4. ASSUME NEW s \in Services,
             \/ EnsureLoadBalancer(s) \/ UpdateLoadBalancer(s) \/ EnsureLoadBalancerDeleted(s)
      PROVE  cur.s \in fips'[l]
  BY <1>1, <1>4 DEF EnsureLoadBalancer, UpdateLoadBalancer, EnsureLoadBalancerDeleted, Begin
<1>5. CASE Step /\ ~getServiceLoadBalancer
  <2>1. getServiceLoadBalancerError
    BY <1>5 DEF Step, ListManagedLBs, accommodateNodeByPrimaryVMSet,
       accommodateNodesByPrimaryVMSetDone, accommodateNodeByNodeSelector,
       accommodateNodesByNodeSelectorDone, ReconcileBackendPools, CreateOrUpdateLB,
       CreateOrUpdateUnnamedLB, DeleteFrontend, EnsureHostsInPool,
       reconcileMultipleStandardLoadBalancerConfigurationStatus
  <2> QED
    BY <1>1, <2>1 DEF getServiceLoadBalancerError
<1>6. ASSUME NEW s \in Services, NEW x \in Spelled, EditService(s, x) PROVE cur.s \in fips'[l]
  BY <1>1, <1>6 DEF EditService
<1>7. ASSUME NEW n \in Nodes, NEW x \in NodeStates, updateNodeCaches(n, x) PROVE cur.s \in fips'[l]
  BY <1>1, <1>7 DEF updateNodeCaches
<1>8. ASSUME NEW a \in Flags, Restart(a) PROVE cur.s \in fips'[l]
  BY <1>1, <1>8 DEF Restart
<1>9. CASE UNCHANGED vars
  BY <1>1, <1>9 DEF vars
<1> QED
  BY <1>2, <1>3, <1>4, <1>5, <1>6, <1>7, <1>8, <1>9 DEF Next

\* As long as no call fails, all services are of one kind and no configuration
\* selects both by label and by namespace, an ensure never takes a service off
\* a load balancer that it is using and that its annotation and labels allow,
\* whatever the flags, the users and restarts do (getMostEligibleLBForService).
THEOREM ServicesStay ==
    MaxFaults = 0 /\ SingleKind /\ OneSelector /\ Spec => StaysOnEligibleLB
<1> DEFINE Hyp == MaxFaults = 0 /\ SingleKind /\ OneSelector
           Inv == Hyp /\ PlacementInv /\ StayInv
<1>1. Init => FrontendInv
  BY DEF Init, FrontendInv, FipsOnExisting, TargetSound, OneFrontendPerKind
<1>2. Hyp /\ Init => Inv
  <2> SUFFICES ASSUME Hyp, Init PROVE Inv
    OBVIOUS
  <2>1. PlacementInv
    BY NoCallRebuildsNothing
    DEF Init, PlacementInv, ActiveIsOn, ChoiceAllowed, AddedIsThere, RebuildFirst
  <2>2. StayInv
    BY NoCallRebuildsNothing
    DEF Init, StayInv, OneKind, Known, RebuiltBefore, Live, Leaving, Wanting
  <2> QED
    BY <2>1, <2>2
<1>3. TypeOK /\ TypeOK' /\ FrontendInv /\ Inv /\ [Next]_vars => Inv'
  BY PlacementStep, StayStep
<1>4. TypeOK /\ FrontendInv /\ Inv /\ [Next]_vars =>
        [\A l \in CurrentLBs :
            pc = "choose" /\ wantLb /\ RightfulPlace(l[1]) => cur.s \in fips'[l]]_vars
  BY StepStays DEF Stays
<1>5. MaxFaults = 0 /\ SingleKind /\ OneSelector <=> Hyp
  OBVIOUS
<1> HIDE DEF Hyp, Inv
<1> QED
  BY <1>1, <1>2, <1>3, <1>4, <1>5, TypeCorrect, FrontendStep, PTL DEF Spec, StaysOnEligibleLB
===============================================================================
