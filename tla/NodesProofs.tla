----------------------------- MODULE NodesProofs -----------------------------
(***************************************************************************)
(* Proofs about what runs for the nodes.                                   *)
(***************************************************************************)
EXTENDS NodeIpam, NodeManager, FiniteSetTheorems, SequenceTheorems, TLAPS

\* What the handler of events holds at each of its steps.
InitType ==
    \/ init = AtRest
    \/ init \in [pc : {"get"}, event : Node]
    \/ init \in [pc : {"condition", "cloud"}, event : Node, cur : Node]
    \/ init \in [pc : {"again", "write", "address"}, event : Node, cur : Node,
                 pid : BOOLEAN, label : 1..2, fresh : BOOLEAN]
    \/ init \in [pc : {"patch"}, event : Node, addr : 1..2]

StatType ==
    \/ stat = AtRest
    \/ stat \in [pc : {"labels"}, label : 0..2, beta : 0..2]
    \/ stat \in [pc : {"patch"}, label : 0..2, beta : 0..2, addr : 1..2]

NmTypes ==
    /\ nplan \in NmPlans
    /\ node \in Node \cup {NmNil} /\ copy \in Node \cup {NmNil}
    /\ machine \in [addr : 1..2, label : 1..2]
    /\ pending \in Seq(Node) /\ Len(pending) <= MaxNmEvents
    /\ InitType /\ StatType
    /\ up \in BOOLEAN /\ nchanges \in 0..nplan.changes

\* The provider ID is set with the removal of the taint, and not before: the
\* node is initialized by one write.
OneWrite ==
    /\ node # NmNil => (node.taint => ~node.pid)
    /\ (node # NmNil /\ ~node.taint) => node.pid /\ node.label # 0
    /\ init.pc \in {"condition", "cloud"} => ~init.cur.pid
    /\ init.pc \in {"again", "write"} => init.pid

\* An update that the API server will accept is made from the node as it is.
FreshIsNode == (init.pc = "write" /\ init.fresh) => init.cur = node

\* Pods are kept off the node, or its routes exist; once this is so it stays
\* so, and what was seen of the node earlier tells it.
Ready(n) == n.cond = "true" \/ n.routed

NodeReady == node # NmNil /\ Ready(node)

ReadySeen ==
    /\ (copy # NmNil /\ Ready(copy)) => NodeReady
    /\ \A i \in 1..Len(pending) : Ready(pending[i]) => NodeReady
    /\ init.pc \in {"get", "condition"} => (Ready(init.event) => NodeReady)
    /\ init.pc \in {"cloud", "again", "write"} => NodeReady
    /\ (node # NmNil /\ ~node.taint) => Ready(node)

NmInv ==
    /\ NmTypes /\ OneWrite /\ FreshIsNode
    /\ (nplan.waitForRoutes /\ ~nplan.recreate) => ReadySeen

-----------------------------------------------------------------------------
\* What is held follows from the step.
LEMMA InitShape ==
    ASSUME InitType
    PROVE  /\ init.pc = "get" => init \in [pc : {"get"}, event : Node]
           /\ init.pc \in {"condition", "cloud"} =>
                init \in [pc : {"condition", "cloud"}, event : Node, cur : Node]
           /\ init.pc \in {"again", "write", "address"} =>
                init \in [pc : {"again", "write", "address"}, event : Node, cur : Node,
                          pid : BOOLEAN, label : 1..2, fresh : BOOLEAN]
           /\ init.pc = "patch" => init \in [pc : {"patch"}, event : Node, addr : 1..2]
BY DEF InitType, AtRest

LEMMA StatShape ==
    ASSUME StatType
    PROVE  /\ stat.pc = "labels" => stat \in [pc : {"labels"}, label : 0..2, beta : 0..2]
           /\ stat.pc = "patch" => stat \in [pc : {"patch"}, label : 0..2, beta : 0..2, addr : 1..2]
BY DEF StatType, AtRest

\* The writes to a node leave a node.
LEMMA NodeWritten ==
    ASSUME NEW n \in Node
    PROVE  /\ \A a \in 0..2 : [n EXCEPT !.addr = a] \in Node
           /\ \A a \in 0..2 : [n EXCEPT !.beta = a] \in Node
           /\ [n EXCEPT !.cond = "true"] \in Node /\ [n EXCEPT !.cond = "false"] \in Node
           /\ [n EXCEPT !.routed = TRUE] \in Node
<1>1. ASSUME NEW a \in 0..2 PROVE  [n EXCEPT !.addr = a] \in Node
  BY DEF Node, Address
<1>2. ASSUME NEW a \in 0..2 PROVE  [n EXCEPT !.beta = a] \in Node
  BY DEF Node, Address
<1>3. [n EXCEPT !.cond = "true"] \in Node
  BY DEF Node, Address
<1>4. [n EXCEPT !.cond = "false"] \in Node
  BY DEF Node, Address
<1>5. [n EXCEPT !.routed = TRUE] \in Node
  BY DEF Node, Address
<1> QED
  BY <1>1, <1>2, <1>3, <1>4, <1>5

\* Losing its freshness leaves what the handler holds.
LEMMA OutdatedType ==
    ASSUME InitType, init' = Outdate(init) \/ init' = init
    PROVE  InitType'
<1>1. CASE init' = init
  BY <1>1 DEF InitType
<1>2. CASE init.pc = "write" /\ init' = Outdate(init)
  <2>1. init' = [init EXCEPT !.fresh = FALSE]
    BY <1>2 DEF Outdate
  <2> QED
    BY <1>2, <2>1, InitShape DEF InitType
<1>3. CASE init.pc # "write" /\ init' = Outdate(init)
  BY <1>3 DEF InitType, Outdate
<1> QED
  BY <1>1, <1>2, <1>3

\* The node that is written: taint gone, provider ID and labels set.
LEMMA ModifiedNode ==
    ASSUME NEW n \in Node, init.pid \in BOOLEAN, init.label \in 1..2, nplan.betaLabels \in BOOLEAN
    PROVE  /\ Modified(n) \in Node
           /\ ~Modified(n).taint /\ Modified(n).label = init.label
           /\ Modified(n).pid = (n.pid \/ init.pid)
           /\ Modified(n).cond = n.cond /\ Modified(n).routed = n.routed
<1> DEFINE p == n.pid \/ init.pid
           b == IF nplan.betaLabels THEN init.label ELSE n.beta
<1>1. p \in BOOLEAN /\ b \in 0..2
  BY DEF Node
<1>2. Modified(n) = [n EXCEPT !.taint = FALSE, !.pid = p, !.label = init.label, !.beta = b]
  BY DEF Modified
<1> HIDE DEF p, b
<1>3. Modified(n) \in Node
  <2> DEFINE m1 == [n EXCEPT !.taint = FALSE, !.pid = p]
             l == init.label
             m2 == [m1 EXCEPT !.label = l, !.beta = b]
  <2>1. m1 \in Node
    BY <1>1 DEF Node
  <2>2. m1 \in Node => m2 \in Node
    <3>1. l \in 0..2
      OBVIOUS
    <3> HIDE DEF m1, l
    <3> QED
      BY <1>1, <3>1 DEF Node
  <2>3. m2 = Modified(n)
    BY <1>2 DEF Node
  <2> QED
    BY <2>1, <2>2, <2>3
<1>4. /\ Modified(n).taint = FALSE /\ Modified(n).label = init.label
      /\ Modified(n).cond = n.cond /\ Modified(n).routed = n.routed
  BY <1>2 DEF Node
<1>5. Modified(n).pid = p
  BY <1>2 DEF Node
<1> QED
  BY <1>3, <1>4, <1>5 DEF p

\* Steps keep a node a node.
LEMMA NmNextNode ==
    ASSUME NmTypes, [NNext]_nvars PROVE  node' \in Node \cup {NmNil}
<1> USE NmNilAssumption DEF NmTypes
<1>1. CASE \/ UNCHANGED nvars \/ HandleEvent \/ GetNode \/ AskCloud \/ ReadAgain \/ FirstAddress
           \/ ReadStatus \/ Observe \/ Resync \/ RestartManager \/ ChangeAddress
  BY <1>1 DEF nvars, HandleEvent, GetNode, AskCloud, ReadAgain, FirstAddress, ReadStatus, Observe,
              Resync, RestartManager, ChangeAddress
<1>2. CASE updateNetworkingCondition
  <2>1. node # NmNil => [node EXCEPT !.cond = "true"] \in Node
    BY NodeWritten
  <2> QED
    BY <1>2, <2>1 DEF updateNetworkingCondition
<1>3. CASE UpdateNode
  <2>1. init.cur \in Node /\ init.pid \in BOOLEAN /\ init.label \in 1..2
    BY <1>3, InitShape DEF UpdateNode
  <2>2. nplan.betaLabels \in BOOLEAN
    BY NmAssumption DEF NmPlan
  <2> QED
    BY <1>3, <2>1, <2>2, ModifiedNode DEF UpdateNode
<1>4. CASE PatchFirstAddress
  <2>1. init.addr \in 0..2
    BY <1>4, InitShape DEF PatchFirstAddress
  <2>2. node # NmNil => [node EXCEPT !.addr = init.addr] \in Node
    BY <2>1, NodeWritten
  <2> QED
    BY <1>4, <2>2 DEF PatchFirstAddress
<1>5. CASE PatchAddress
  <2>1. stat.addr \in 0..2
    BY <1>5, StatShape DEF PatchAddress
  <2>2. node # NmNil => [node EXCEPT !.addr = stat.addr] \in Node
    BY <2>1, NodeWritten
  <2> QED
    BY <1>5, <2>2 DEF PatchAddress
<1>6. CASE reconcileNodeLabels
  <2>1. stat.label \in 0..2
    BY <1>6, StatShape DEF reconcileNodeLabels
  <2>2. node # NmNil => [node EXCEPT !.beta = stat.label] \in Node
    BY <2>1, NodeWritten
  <2> QED
    BY <1>6, <2>2 DEF reconcileNodeLabels
<1>7. CASE RegisterNode \/ RemoveNode \/ Relabel \/ MakeRoutes
  <2>1. Registered \in Node
    BY DEF Registered, Node, Address
  <2>2. node # NmNil => /\ [node EXCEPT !.beta = 2] \in Node
                        /\ [node EXCEPT !.cond = "false"] \in Node
                        /\ [node EXCEPT !.routed = TRUE] \in Node
    <3>1. 2 \in 0..2
      OBVIOUS
    <3> QED
      BY <3>1, NodeWritten
  <2> QED
    BY <1>7, <2>1, <2>2 DEF RegisterNode, RemoveNode, Relabel, MakeRoutes, Foreign
<1> QED
  BY <1>1, <1>2, <1>3, <1>4, <1>5, <1>6, <1>7 DEF NNext, Handler, Loop

\* Steps keep what the handler and the loop hold.
LEMMA NmNextRecords ==
    ASSUME NmTypes, [NNext]_nvars PROVE  InitType' /\ StatType'
<1> USE NmNilAssumption DEF NmTypes
<1>1. CASE UNCHANGED nvars \/ Observe \/ Resync \/ RestartManager \/ RegisterNode \/ ChangeAddress
  BY <1>1 DEF nvars, Observe, Resync, RestartManager, RegisterNode, ChangeAddress, InitType, StatType
<1>2. CASE HandleEvent
  <2>1. Head(pending) \in Node
    BY <1>2, HeadTailProperties DEF HandleEvent
  <2> QED
    BY <1>2, <2>1 DEF HandleEvent, InitType, StatType
<1>3. CASE GetNode
  BY <1>3, InitShape DEF GetNode, InitType, StatType, Others
<1>4. CASE updateNetworkingCondition
  BY <1>4, InitShape DEF updateNetworkingCondition, InitType, StatType, Others, To
<1>5. CASE AskCloud
  <2> DEFINE p == ~init.cur.pid
  <2>1. p \in BOOLEAN /\ init.event \in Node /\ init.cur \in Node /\ machine.label \in 1..2
    BY <1>5, InitShape DEF AskCloud
  <2>2. \/ init' = AtRest /\ stat' = AtRest
        \/ /\ init' = [pc |-> "again", event |-> init.event, cur |-> init.cur,
                       pid |-> p, label |-> machine.label, fresh |-> FALSE]
           /\ stat' = stat
    BY <1>5 DEF AskCloud, Crashed
  <2> HIDE DEF p
  <2>3. StatType'
    BY <2>2 DEF StatType
  <2> DEFINE again == [pc |-> "again", event |-> init.event, cur |-> init.cur,
                       pid |-> p, label |-> machine.label, fresh |-> FALSE]
  <2>4. again \in [pc : {"again", "write", "address"}, event : Node, cur : Node,
                   pid : BOOLEAN, label : 1..2, fresh : BOOLEAN]
    BY <2>1
  <2>5. init' = AtRest \/ init' = again
    BY <2>2
  <2> HIDE DEF again
  <2>6. InitType'
    BY <2>4, <2>5 DEF InitType
  <2> QED
    BY <2>3, <2>6
<1>6. CASE ReadAgain
  <2>1. init \in [pc : {"again", "write", "address"}, event : Node, cur : Node,
                  pid : BOOLEAN, label : 1..2, fresh : BOOLEAN]
    BY <1>6, InitShape DEF ReadAgain
  <2>2. \/ init' = AtRest
        \/ node \in Node /\ init' = [init EXCEPT !.pc = "write", !.cur = node, !.fresh = TRUE]
    BY <1>6 DEF ReadAgain
  <2> QED
    BY <1>6, <2>1, <2>2 DEF ReadAgain, InitType, StatType, Others
<1>7. CASE UpdateNode
  <2>1. init \in [pc : {"again", "write", "address"}, event : Node, cur : Node,
                  pid : BOOLEAN, label : 1..2, fresh : BOOLEAN]
    BY <1>7, InitShape DEF UpdateNode
  <2>2. nplan.betaLabels \in BOOLEAN
    BY NmAssumption DEF NmPlan
  <2> DEFINE m == Modified(init.cur)
  <2>3. m \in Node
    BY <2>1, <2>2, ModifiedNode
  <2>4. \/ init' = AtRest
        \/ init' = Step(init, "again")
        \/ init' = [Step(init, "address") EXCEPT !.cur = m]
    BY <1>7 DEF UpdateNode
  <2> HIDE DEF m
  <2>5. StatType'
    BY <1>7 DEF UpdateNode, StatType, Others
  <2>6. Step(init, "again") \in [pc : {"again", "write", "address"}, event : Node, cur : Node,
                                 pid : BOOLEAN, label : 1..2, fresh : BOOLEAN]
    BY <2>1 DEF Step
  <2>7. [Step(init, "address") EXCEPT !.cur = m]
            \in [pc : {"again", "write", "address"}, event : Node, cur : Node,
                 pid : BOOLEAN, label : 1..2, fresh : BOOLEAN]
    BY <2>1, <2>3 DEF Step
  <2>8. InitType'
    BY <2>4, <2>6, <2>7 DEF InitType
  <2> QED
    BY <2>5, <2>8
<1>8. CASE FirstAddress
  BY <1>8, InitShape DEF FirstAddress, NewAddress, InitType, StatType, Others
<1>9. CASE PatchFirstAddress
  BY <1>9 DEF PatchFirstAddress, InitType, StatType, Others
<1>10. CASE ReadStatus
  <2>1. copy.label \in 0..2 /\ copy.beta \in 0..2
    BY <1>10 DEF ReadStatus, Node
  <2> QED
    BY <1>10, <2>1 DEF ReadStatus, StatusAddress, NewAddress, InitType, StatType
<1>11. CASE PatchAddress
  <2>1. init' = Outdate(init) \/ init' = init
    BY <1>11 DEF PatchAddress
  <2>2. StatType'
    BY <1>11, StatShape DEF PatchAddress, StatType
  <2> QED
    BY <2>1, <2>2, OutdatedType
<1>12. CASE reconcileNodeLabels
  <2>1. init' = Outdate(init) \/ init' = init
    BY <1>12 DEF reconcileNodeLabels
  <2>2. StatType'
    BY <1>12 DEF reconcileNodeLabels, StatType
  <2> QED
    BY <2>1, <2>2, OutdatedType
<1>13. CASE RemoveNode \/ Relabel \/ MakeRoutes
  <2>1. init' = Outdate(init) /\ stat' = stat
    BY <1>13 DEF RemoveNode, Relabel, MakeRoutes, Foreign
  <2> QED
    BY <2>1, OutdatedType DEF StatType
<1> QED
  BY <1>1, <1>2, <1>3, <1>4, <1>5, <1>6, <1>7, <1>8, <1>9, <1>10, <1>11, <1>12, <1>13 DEF NNext, Handler, Loop

\* Steps keep the events, the copy and the counter.
LEMMA NmNextRest ==
    ASSUME NmTypes, [NNext]_nvars
    PROVE  /\ nplan' = nplan /\ copy' \in Node \cup {NmNil}
           /\ machine' \in [addr : 1..2, label : 1..2]
           /\ pending' \in Seq(Node) /\ Len(pending') <= MaxNmEvents
           /\ up' \in BOOLEAN /\ nchanges' \in 0..nplan.changes
<1> USE NmAssumption DEF NmTypes
<1>0. nplan.changes \in Nat
  BY DEF NmPlan
<1>1. CASE HandleEvent
  <2>1. pending' \in Seq(Node) /\ Len(pending') = Len(pending) - 1
    BY <1>1, HeadTailProperties DEF HandleEvent
  <2> QED
    BY <1>1, <2>1 DEF HandleEvent
<1>2. CASE GetNode
  BY <1>0, <1>2 DEF GetNode, Answer, Counted, Others
<1>3. CASE updateNetworkingCondition
  BY <1>0, <1>3 DEF updateNetworkingCondition, Answer, Counted, Others
<1>4. CASE AskCloud
  <2>1. pending' \in {pending, <<>>} /\ copy' \in {copy, NmNil} /\ up' \in {up, FALSE}
    BY <1>4 DEF AskCloud, Crashed
  <2>2. nchanges' \in 0..nplan.changes
    BY <1>0, <1>4 DEF AskCloud, Answer, Counted
  <2>3. pending' \in Seq(Node) /\ Len(pending') <= MaxNmEvents
    <3>1. <<>> \in Seq(Node) /\ Len(<<>>) = 0
      BY EmptySeq
    <3>2. CASE pending' = pending
      BY <3>2
    <3>3. CASE pending' = <<>>
      BY <3>1, <3>3
    <3> QED
      BY <2>1, <3>2, <3>3
  <2> QED
    BY <1>4, <2>1, <2>2, <2>3 DEF AskCloud
<1>5. CASE ReadAgain
  BY <1>0, <1>5 DEF ReadAgain, Answer, Counted, Others
<1>6. CASE UpdateNode
  BY <1>0, <1>6 DEF UpdateNode, Answer, Counted, Others
<1>7. CASE FirstAddress
  BY <1>0, <1>7 DEF FirstAddress, Answer, Counted, Others
<1>8. CASE PatchFirstAddress
  BY <1>0, <1>8 DEF PatchFirstAddress, Answer, Counted, Others
<1>9. CASE ReadStatus
  BY <1>0, <1>9 DEF ReadStatus, Answer, Counted
<1>10. CASE PatchAddress
  BY <1>0, <1>10 DEF PatchAddress, Answer, Counted
<1>11. CASE reconcileNodeLabels
  BY <1>0, <1>11 DEF reconcileNodeLabels, Answer, Counted
<1>12. CASE Observe
  <2>1. CASE node = NmNil
    BY <1>12, <2>1 DEF Observe
  <2>2. CASE node # NmNil
    <3>1. Append(pending, node) \in Seq(Node) /\ Len(Append(pending, node)) = Len(pending) + 1
      BY <2>2, AppendProperties
    <3> QED
      BY <1>12, <2>2, <3>1 DEF Observe
  <2> QED
    BY <2>1, <2>2
<1>13. CASE Resync
  BY <1>0, <1>13 DEF Resync
<1>14. CASE RestartManager
  BY <1>0, <1>14 DEF RestartManager
<1>15. CASE RegisterNode
  BY <1>0, <1>15 DEF RegisterNode
<1>16. CASE RemoveNode
  BY <1>0, <1>16 DEF RemoveNode, Foreign
<1>17. CASE Relabel
  BY <1>0, <1>17 DEF Relabel, Foreign
<1>18. CASE ChangeAddress
  BY <1>0, <1>18 DEF ChangeAddress
<1>19. CASE MakeRoutes
  BY <1>0, <1>19 DEF MakeRoutes
<1>20. CASE UNCHANGED nvars
  BY <1>20 DEF nvars
<1> QED
  BY <1>1, <1>2, <1>3, <1>4, <1>5, <1>6, <1>7, <1>8, <1>9, <1>10, <1>11, <1>12, <1>13, <1>14, <1>15, <1>16, <1>17, <1>18, <1>19, <1>20 DEF NNext, Handler, Loop

\* Steps keep the types.
LEMMA NmNextTypes ==
    ASSUME NmTypes, [NNext]_nvars PROVE  NmTypes'
<1>1. node' \in Node \cup {NmNil}
  BY NmNextNode
<1>2. InitType' /\ StatType'
  BY NmNextRecords
<1>3. /\ nplan' = nplan /\ copy' \in Node \cup {NmNil}
      /\ machine' \in [addr : 1..2, label : 1..2]
      /\ pending' \in Seq(Node) /\ Len(pending') <= MaxNmEvents
      /\ up' \in BOOLEAN /\ nchanges' \in 0..nplan.changes
  BY NmNextRest
<1> QED
  BY <1>1, <1>2, <1>3 DEF NmTypes

\* Steps keep updates fresh or known to be outdated.
LEMMA NmNextFresh ==
    ASSUME NmTypes, FreshIsNode, [NNext]_nvars PROVE  FreshIsNode'
<1> USE NmAssumption, NmNilAssumption DEF NmTypes, FreshIsNode
<1>1. CASE UNCHANGED nvars
  BY <1>1 DEF nvars
<1>2. CASE HandleEvent
  BY <1>2, InitShape, StatShape DEF HandleEvent, ToInitialize, AtRest
<1>3. CASE GetNode
  BY <1>3, InitShape, StatShape DEF GetNode, AtRest, Others
<1>4. CASE updateNetworkingCondition
  BY <1>4, InitShape, StatShape DEF updateNetworkingCondition, AtRest, Others, To
<1>5. CASE AskCloud
  BY <1>5, InitShape, StatShape DEF AskCloud, Crashed, AtRest, Others
<1>6. CASE ReadAgain
  BY <1>6, InitShape, StatShape DEF ReadAgain, AtRest, Others
<1>7. CASE UpdateNode
  BY <1>7, InitShape, StatShape DEF UpdateNode, AtRest, Others, Step
<1>8. CASE FirstAddress
  BY <1>8, InitShape, StatShape DEF FirstAddress, AtRest, Others
<1>9. CASE PatchFirstAddress
  BY <1>9, InitShape, StatShape DEF PatchFirstAddress, AtRest, Others
<1>10. CASE ReadStatus
  BY <1>10, InitShape, StatShape DEF ReadStatus
<1>11. CASE PatchAddress
  BY <1>11, InitShape, StatShape DEF PatchAddress, Outdate
<1>12. CASE reconcileNodeLabels
  BY <1>12, InitShape, StatShape DEF reconcileNodeLabels, Outdate
<1>13. CASE Observe
  BY <1>13, InitShape, StatShape DEF Observe
<1>14. CASE Resync
  BY <1>14, InitShape, StatShape DEF Resync
<1>15. CASE RestartManager
  BY <1>15, InitShape, StatShape DEF RestartManager
<1>16. CASE RegisterNode
  BY <1>16, InitShape, StatShape DEF RegisterNode, Registered
<1>17. CASE RemoveNode
  BY <1>17, InitShape, StatShape DEF RemoveNode, Foreign, Outdate
<1>18. CASE Relabel
  BY <1>18, InitShape, StatShape DEF Relabel, Foreign, Outdate
<1>19. CASE ChangeAddress
  BY <1>19, InitShape, StatShape DEF ChangeAddress
<1>20. CASE MakeRoutes
  BY <1>20, InitShape, StatShape DEF MakeRoutes, Outdate
<1> QED
  BY <1>1, <1>2, <1>3, <1>4, <1>5, <1>6, <1>7, <1>8, <1>9, <1>10, <1>11, <1>12, <1>13, <1>14, <1>15, <1>16, <1>17, <1>18, <1>19, <1>20 DEF NNext, Handler, Loop

\* Steps keep the initialization of a node one write.
LEMMA NmNextOneWrite ==
    ASSUME NmTypes, OneWrite, FreshIsNode, [NNext]_nvars PROVE  OneWrite'
<1> USE NmAssumption, NmNilAssumption DEF NmTypes, OneWrite, Node
<1>1. CASE UNCHANGED nvars
  BY <1>1 DEF nvars
<1>2. CASE HandleEvent
  BY <1>2, InitShape, StatShape DEF HandleEvent, ToInitialize, AtRest
<1>3. CASE GetNode
  BY <1>3, InitShape, StatShape DEF GetNode, AtRest, Others
<1>4. CASE updateNetworkingCondition
  BY <1>4, InitShape, StatShape DEF updateNetworkingCondition, AtRest, Others, To
<1>5. CASE AskCloud
  <2> DEFINE p == ~init.cur.pid
             again(q) == [pc |-> "again", event |-> init.event, cur |-> init.cur,
                          pid |-> q, label |-> machine.label, fresh |-> FALSE]
  <2>1. init.pc = "cloud" /\ ~init.cur.pid
    BY <1>5 DEF AskCloud
  <2>2. init' = AtRest \/ init' = again(p)
    BY <1>5 DEF AskCloud, Crashed
  <2>4. p = TRUE
    BY <2>1
  <2>5. init' = AtRest \/ init' = again(TRUE)
    BY <2>2, <2>4, Zenon
  <2>3. init'.pc \in {"idle", "again"} /\ (init'.pc = "again" => init'.pid = TRUE)
    BY <2>5 DEF AtRest
  <2> QED
    BY <1>5, <2>3 DEF AskCloud
<1>6. CASE ReadAgain
  BY <1>6, InitShape, StatShape DEF ReadAgain, AtRest, Others
<1>7. CASE UpdateNode
  <2>1. /\ init.cur \in Node /\ init.pid \in BOOLEAN /\ init.pid /\ init.label \in 1..2
        /\ nplan.betaLabels \in BOOLEAN
    BY <1>7, InitShape DEF UpdateNode, NmPlan
  <2> DEFINE m == Modified(init.cur)
  <2>2. m \in Node /\ ~m.taint /\ m.pid /\ m.label # 0
    <3>1. m \in Node /\ ~m.taint /\ m.label = init.label /\ m.pid = (init.cur.pid \/ init.pid)
      BY <2>1, ModifiedNode
    <3>2. m.pid
      BY <2>1, <3>1
    <3> QED
      BY <2>1, <3>1, <3>2
  <2>3. \/ node' = node /\ init' = AtRest
        \/ node' = node /\ init' = Step(init, "again")
        \/ node' = m /\ init' = [Step(init, "address") EXCEPT !.cur = m]
    BY <1>7 DEF UpdateNode
  <2> HIDE DEF m
  <2> QED
    BY <2>1, <2>2, <2>3 DEF Step, AtRest
<1>8. CASE FirstAddress
  BY <1>8, InitShape, StatShape DEF FirstAddress, AtRest, Others
<1>9. CASE PatchFirstAddress
  BY <1>9, InitShape, StatShape DEF PatchFirstAddress, AtRest, Others
<1>10. CASE ReadStatus
  BY <1>10, InitShape, StatShape DEF ReadStatus
<1>11. CASE PatchAddress
  BY <1>11, InitShape, StatShape DEF PatchAddress, Outdate
<1>12. CASE reconcileNodeLabels
  BY <1>12, InitShape, StatShape DEF reconcileNodeLabels, Outdate
<1>13. CASE Observe
  BY <1>13, InitShape, StatShape DEF Observe
<1>14. CASE Resync
  BY <1>14, InitShape, StatShape DEF Resync
<1>15. CASE RestartManager
  BY <1>15, InitShape, StatShape DEF RestartManager
<1>16. CASE RegisterNode
  BY <1>16, InitShape, StatShape DEF RegisterNode, Registered
<1>17. CASE RemoveNode
  BY <1>17, InitShape, StatShape DEF RemoveNode, Foreign, Outdate
<1>18. CASE Relabel
  BY <1>18, InitShape, StatShape DEF Relabel, Foreign, Outdate
<1>19. CASE ChangeAddress
  BY <1>19, InitShape, StatShape DEF ChangeAddress
<1>20. CASE MakeRoutes
  BY <1>20, InitShape, StatShape DEF MakeRoutes, Outdate
<1> QED
  BY <1>1, <1>2, <1>3, <1>4, <1>5, <1>6, <1>7, <1>8, <1>9, <1>10, <1>11, <1>12, <1>13, <1>14, <1>15, <1>16, <1>17, <1>18, <1>19, <1>20 DEF NNext, Handler, Loop

\* What the writes of the node manager and of the route controller do to the
\* condition and the routes of a node.
LEMMA ReadyWritten ==
    ASSUME NEW n \in Node
    PROVE  /\ \A a : Ready([n EXCEPT !.addr = a]) = Ready(n) /\ [n EXCEPT !.addr = a].taint = n.taint
           /\ \A a : Ready([n EXCEPT !.beta = a]) = Ready(n) /\ [n EXCEPT !.beta = a].taint = n.taint
           /\ Ready([n EXCEPT !.routed = TRUE])
           /\ n.routed => Ready([n EXCEPT !.cond = "false"])
BY DEF Ready, Node

\* Where routes are awaited and no node is replaced, a node that is ready
\* stays so, and what was seen of it stays true.
LEMMA NmNextReady ==
    ASSUME NmTypes, FreshIsNode, nplan.waitForRoutes, ~nplan.recreate, ReadySeen, [NNext]_nvars PROVE  ReadySeen'
<1> USE NmAssumption, NmNilAssumption DEF NmTypes, ReadySeen, NodeReady, Ready, Node
<1>1. CASE UNCHANGED nvars
  BY <1>1 DEF nvars
<1>2. CASE HandleEvent
  BY <1>2, InitShape, StatShape DEF HandleEvent, ToInitialize, AtRest
<1>3. CASE GetNode
  BY <1>3, InitShape, StatShape DEF GetNode, AtRest, Others
<1>4. CASE updateNetworkingCondition
  BY <1>4, InitShape, StatShape DEF updateNetworkingCondition, AtRest, Others, To, ConditionIsSet
<1>5. CASE AskCloud
  BY <1>5, InitShape, StatShape DEF AskCloud, Crashed, AtRest, Others
<1>6. CASE ReadAgain
  BY <1>6, InitShape, StatShape DEF ReadAgain, AtRest, Others
<1>7. CASE UpdateNode
  <2>1. /\ init.cur \in Node /\ init.pid \in BOOLEAN /\ init.label \in 1..2
        /\ nplan.betaLabels \in BOOLEAN
    BY <1>7, InitShape DEF UpdateNode, NmPlan
  <2> DEFINE m == Modified(init.cur)
  <2>2. m \in Node /\ m.cond = init.cur.cond /\ m.routed = init.cur.routed
    BY <2>1, ModifiedNode
  <2>3. \/ node' = node /\ init'.pc \in {"idle", "again"}
        \/ node' = m /\ init'.pc = "address" /\ init.cur = node
    BY <1>7 DEF UpdateNode, FreshIsNode, Step, AtRest
  <2> HIDE DEF m
  <2> QED
    BY <1>7, <2>2, <2>3 DEF UpdateNode, Others
<1>8. CASE FirstAddress
  BY <1>8, InitShape, StatShape DEF FirstAddress, AtRest, Others
<1>9. CASE PatchFirstAddress
  <2>1. \/ node' = node
        \/ node # NmNil /\ node' # NmNil /\ Ready(node') = Ready(node) /\ node'.taint = node.taint
    <3> HIDE DEF Ready, Node
    <3>1. node' = node \/ (node \in Node /\ node' = [node EXCEPT !.addr = init.addr])
      BY <1>9 DEF PatchFirstAddress
    <3>2. CASE node \in Node /\ node' = [node EXCEPT !.addr = init.addr]
      <4>2. init.addr \in 0..2
        BY <1>9, InitShape, StatShape DEF PatchFirstAddress
      <4>3. node' \in Node
        BY <3>2, <4>2, NodeWritten
      <4>4. Ready(node') = Ready(node) /\ node'.taint = node.taint
        BY <3>2, ReadyWritten
      <4> QED
        BY <3>2, <4>3, <4>4
    <3> QED
      BY <3>1, <3>2
  <2> QED
    BY <1>9, <2>1 DEF PatchFirstAddress, AtRest, Others
<1>10. CASE ReadStatus
  BY <1>10, InitShape, StatShape DEF ReadStatus
<1>11. CASE PatchAddress
  <2>1. \/ node' = node
        \/ node # NmNil /\ node' # NmNil /\ Ready(node') = Ready(node) /\ node'.taint = node.taint
    <3> HIDE DEF Ready, Node
    <3>1. node' = node \/ (node \in Node /\ node' = [node EXCEPT !.addr = stat.addr])
      BY <1>11 DEF PatchAddress
    <3>2. CASE node \in Node /\ node' = [node EXCEPT !.addr = stat.addr]
      <4>2. stat.addr \in 0..2
        BY <1>11, InitShape, StatShape DEF PatchAddress
      <4>3. node' \in Node
        BY <3>2, <4>2, NodeWritten
      <4>4. Ready(node') = Ready(node) /\ node'.taint = node.taint
        BY <3>2, ReadyWritten
      <4> QED
        BY <3>2, <4>3, <4>4
    <3> QED
      BY <3>1, <3>2
  <2> QED
    BY <1>11, <2>1 DEF PatchAddress, Outdate
<1>12. CASE reconcileNodeLabels
  BY <1>12, InitShape, StatShape DEF reconcileNodeLabels, Outdate
<1>13. CASE Observe
  BY <1>13, InitShape, StatShape DEF Observe
<1>14. CASE Resync
  BY <1>14, InitShape, StatShape DEF Resync
<1>15. CASE RestartManager
  BY <1>15, InitShape, StatShape DEF RestartManager
<1>16. CASE RegisterNode
  BY <1>16, InitShape, StatShape DEF RegisterNode, Registered
<1>17. CASE RemoveNode
  BY <1>17, InitShape, StatShape DEF RemoveNode, Foreign, Outdate
<1>18. CASE Relabel
  BY <1>18, InitShape, StatShape DEF Relabel, Foreign, Outdate
<1>19. CASE ChangeAddress
  BY <1>19, InitShape, StatShape DEF ChangeAddress
<1>20. CASE MakeRoutes
  <2>1. node # NmNil /\ node' # NmNil /\ Ready(node')
    <3> HIDE DEF Ready, Node
    <3>1. node' # NmNil
      BY <1>20, NodeWritten DEF MakeRoutes
    <3> QED
      BY <1>20, <3>1, ReadyWritten DEF MakeRoutes
  <2> QED
    BY <1>20, <2>1 DEF MakeRoutes, Outdate
<1> QED
  BY <1>1, <1>2, <1>3, <1>4, <1>5, <1>6, <1>7, <1>8, <1>9, <1>10, <1>11, <1>12, <1>13, <1>14, <1>15, <1>16, <1>17, <1>18, <1>19, <1>20 DEF NNext, Handler, Loop

-----------------------------------------------------------------------------
LEMMA NmInvariant == NSpec => []NmInv
<1>1. NInit => NmInv
  <2> SUFFICES ASSUME NInit PROVE  NmInv
    OBVIOUS
  <2> USE NmAssumption, NmNilAssumption DEF NInit, AtRest
  <2>1. NmTypes
    <3>1. nplan.changes \in Nat
      BY DEF NmPlan
    <3>2. pending \in Seq(Node) /\ Len(pending) = 0
      BY EmptySeq
    <3> QED
      BY <3>1, <3>2 DEF NmTypes, InitType, StatType
  <2>2. OneWrite /\ FreshIsNode
    BY DEF OneWrite, FreshIsNode
  <2>3. ReadySeen
    BY EmptySeq DEF ReadySeen, NodeReady
  <2> QED
    BY <2>1, <2>2, <2>3 DEF NmInv
<1>2. NmInv /\ [NNext]_nvars => NmInv'
  <2> SUFFICES ASSUME NmInv, [NNext]_nvars PROVE  NmInv'
    OBVIOUS
  <2> USE DEF NmInv
  <2>1. NmTypes'
    BY NmNextTypes
  <2>2. OneWrite'
    BY NmNextOneWrite
  <2>3. FreshIsNode'
    BY NmNextFresh
  <2>4. nplan' = nplan
    BY NmNextRest
  <2>5. nplan.waitForRoutes /\ ~nplan.recreate => ReadySeen'
    BY NmNextReady
  <2> QED
    BY <2>1, <2>2, <2>3, <2>4, <2>5
<1> QED
  BY <1>1, <1>2, PTL DEF NSpec

\* For every scenario: a node that lost its taint has its provider ID and the
\* labels of the cloud, and pods are kept off it until its routes exist,
\* though the handler works on copies that conflicts, other writers, failed
\* calls, crashes and old events make outdated (initializeNode).
THEOREM UntaintedNodesReady == NSpec => []UntaintedIsReady
<1>1. NmInv => UntaintedIsReady
  <2> SUFFICES ASSUME NmInv PROVE  UntaintedIsReady
    OBVIOUS
  <2> USE DEF NmInv, NmTypes
  <2>1. /\ init.pc \in {"idle", "get", "condition", "cloud", "again", "write", "address", "patch"}
        /\ init.pc # "idle" => init.event \in Node
        /\ stat.pc \in {"idle", "patch", "labels"}
    BY DEF InitType, StatType, AtRest
  <2>2. \A i \in 1..Len(pending) : pending[i] \in Node
    BY ElementOfSeq
  <2>3. NTypeOK
    BY <2>1, <2>2 DEF NTypeOK
  <2> QED
    BY <2>3 DEF UntaintedIsReady, OneWrite, ReadySeen, Ready
<1> QED
  BY <1>1, NmInvariant, PTL

-----------------------------------------------------------------------------
\* Node IPAM.

\* What the theorems ask of the environment of an allocator m: calls that fail have
\* no effect and, for the cloud allocator, nodes with the finest mask of each family
\* are there from the start.
Calm(m) ==
    /\ Faults \cap {"timeout_applied", "lost", "condition", "mask"} = {}
    /\ m = "cloud" => \A f \in Families : \E n \in Permanent : \A s \in CloudMasks : MaskOf[n][f] <= s[f]

\* The units of a bit of the bitmaps of an allocator m, and its number of bits.
Grain(m, f) == IF m = "range" THEN NodeMask[f] ELSE Min({s[f] : s \in CloudMasks})
Blocks(m, f) == Cluster[f] \div Grain(m, f)

\* The bits of a CIDR.
Bits(m, f, c) == Indices([size |-> Cluster[f], grain |-> Grain(m, f)], c)

\* A CIDR that an allocation may give.
Aligned(m, f, c) ==
    \E i \in Nat, n \in Nat \ {0} :
        i + n <= Blocks(m, f) /\ c = Cidr(i * Grain(m, f), n * Grain(m, f))

Good(m, t) == t \in Tuples /\ \A f \in Families : Aligned(m, f, t[f])

Apart(m, t, u) == \A f \in Families : Bits(m, f, t[f]) \cap Bits(m, f, u[f]) = {}

Bitmap(m, f, s) ==
    /\ s \in [size : {Cluster[f]}, grain : {Grain(m, f)}, used : SUBSET (0..(Blocks(m, f) - 1)),
              count : Nat, next : Nat]
    /\ s.count = Cardinality(s.used)

-----------------------------------------------------------------------------
LEMMA DivMod ==
    ASSUME NEW x \in Nat, NEW g \in Nat \ {0}
    PROVE  /\ x \div g \in Nat /\ (x \div g) * g <= x /\ x < ((x \div g) + 1) * g
           /\ x % g \in 0..(g - 1) /\ x = (x \div g) * g + (x % g)
  BY SMT

LEMMA TimesLess ==
    ASSUME NEW a \in Int, NEW b \in Int, NEW g \in Nat \ {0}, a * g < b * g
    PROVE  a < b
  BY SMT

LEMMA TimesMonotone ==
    ASSUME NEW a \in Int, NEW b \in Int, NEW g \in Nat \ {0}, a <= b
    PROVE  a * g <= b * g
  BY SMT

LEMMA Distributes ==
    ASSUME NEW a \in Int, NEW b \in Int, NEW g \in Int
    PROVE  (a + b) * g = a * g + b * g /\ a * g \in Int
  BY SMT

\* The quotient is the number of whole blocks below.
LEMMA DivIs ==
    ASSUME NEW x \in Nat, NEW i \in Nat, NEW g \in Nat \ {0}, i * g <= x, x < (i + 1) * g
    PROVE  x \div g = i
<1> DEFINE q == x \div g
<1>1. q \in Nat /\ q * g <= x /\ x < (q + 1) * g
  BY DivMod
<1> HIDE DEF q
<1>2. q * g \in Int /\ i * g \in Int /\ (q + 1) * g \in Int /\ (i + 1) * g \in Int
  BY <1>1
<1>3. q < i + 1
  BY <1>1, <1>2, TimesLess
<1>4. i < q + 1
  BY <1>1, <1>2, TimesLess
<1>5. QED
  BY <1>1, <1>3, <1>4 DEF q

\* A non-empty set of naturals has a least element.
LEMMA NatHasMin ==
    ASSUME NEW S, S \subseteq Nat, S # {}
    PROVE  Min(S) \in S /\ \A x \in S : Min(S) <= x
<1> DEFINE R == OpToRel(<, Nat)
<1>1. IsWellFoundedOn(R, Nat)
  BY NatLessThanWellFounded
<1> HIDE DEF R
<1>2. PICK m \in S : \A y \in S : ~ (<<y, m>> \in R)
  BY <1>1, WFMin
<1>3. \A y \in S : ~ (y < m)
  BY <1>2 DEF R, OpToRel
<1>4. \A y \in S : m <= y
  BY <1>3
<1>5. QED
  BY <1>4 DEF Min

\* A bit stands for whole blocks, and in the cloud allocator some node that
\* stays has blocks of one bit.
LEMMA GrainFacts ==
    ASSUME NEW m \in {"range", "cloud"}, Calm(m), NEW f \in Families
    PROVE  /\ Cluster[f] \in Nat \ {0} /\ Grain(m, f) \in Nat \ {0} /\ Blocks(m, f) \in Nat \ {0}
           /\ Cluster[f] = Blocks(m, f) * Grain(m, f)
           /\ m = "cloud" =>
                /\ \A s \in CloudMasks : /\ s[f] \in Nat \ {0} /\ Grain(m, f) <= s[f]
                                         /\ s[f] % Grain(m, f) = 0
                /\ \E n \in Permanent : MaskOf[n][f] = Grain(m, f)
<1>1. /\ Cluster[f] \in Nat \ {0}
      /\ \A s \in Masks : s[f] \in Nat \ {0} /\ Cluster[f] % s[f] = 0
    BY IpamAssumption DEF Families
<1>2. CloudMasks \subseteq Masks /\ NodeMask \in Masks
  BY DEF Masks
<1>3. ASSUME m = "cloud"
      PROVE  \E n \in Permanent : /\ \A s \in CloudMasks : MaskOf[n][f] <= s[f]
                                  /\ MaskOf[n] \in CloudMasks /\ Grain(m, f) = MaskOf[n][f]
  <2>1. PICK n \in Permanent : \A s \in CloudMasks : MaskOf[n][f] <= s[f]
    BY <1>3 DEF Calm
  <2>2. MaskOf[n] \in CloudMasks
    BY IpamAssumption DEF CloudMasks
  <2> DEFINE S == {s[f] : s \in CloudMasks}
             k == Min(S)
             j == MaskOf[n][f]
  <2>3. MaskOf[n][f] \in S /\ (\A y \in S : MaskOf[n][f] <= y) /\ S \subseteq Nat
    BY <1>1, <1>2, <2>1, <2>2
  <2>4. Min(S) \in S /\ \A y \in S : Min(S) <= y
    BY <2>3, NatHasMin
  <2>5. k \in Nat /\ j \in Nat /\ k <= j /\ j <= k
    BY <2>3, <2>4
  <2>6. Grain(m, f) = k
    BY <1>3 DEF Grain
  <2> HIDE DEF k, j
  <2>7. k = j
    BY <2>5
  <2>8. QED
    BY <2>1, <2>2, <2>6, <2>7 DEF j
<1>4. \E s \in Masks : Grain(m, f) = s[f]
  <2>1. CASE m = "range"
    BY <1>2, <2>1 DEF Grain
  <2>2. CASE m = "cloud"
    BY <1>2, <1>3, <2>2
  <2>3. QED
    BY <2>1, <2>2
<1>5. PICK s \in Masks : Grain(m, f) = s[f]
  BY <1>4
<1>6. /\ Grain(m, f) \in Nat \ {0} /\ Cluster[f] % Grain(m, f) = 0
  BY <1>1, <1>5
<1>7. Cluster[f] = Blocks(m, f) * Grain(m, f) /\ Blocks(m, f) \in Nat
  <2> DEFINE x == Cluster[f]
             g == Grain(m, f)
  <2>1. x \in Nat /\ g \in Nat \ {0} /\ x % g = 0
    BY <1>1, <1>6
  <2> HIDE DEF x, g
  <2>2. x \div g \in Nat /\ x = (x \div g) * g + (x % g)
    BY <2>1, DivMod
  <2>3. (x \div g) * g \in Int
    BY <2>1, <2>2
  <2>4. x = (x \div g) * g
    BY <2>1, <2>2, <2>3
  <2>5. QED
    BY <2>2, <2>4 DEF Blocks, x, g
<1>8. Blocks(m, f) # 0
  BY <1>1, <1>6, <1>7
<1>9. ASSUME m = "cloud", NEW u \in CloudMasks
      PROVE  u[f] \in Nat \ {0} /\ Grain(m, f) <= u[f] /\ u[f] % Grain(m, f) = 0
  <2>1. PICK n \in Permanent : /\ \A v \in CloudMasks : MaskOf[n][f] <= v[f]
                               /\ MaskOf[n] \in CloudMasks /\ Grain(m, f) = MaskOf[n][f]
    BY <1>3, <1>9
  <2>2. QED
    BY <1>1, <1>2, <1>9, <2>1, IpamAssumption
<1>10. m = "cloud" => \E n \in Permanent : MaskOf[n][f] = Grain(m, f)
  BY <1>3
<1>11. QED
  BY <1>1, <1>6, <1>7, <1>8, <1>9, <1>10

\* The bits of the block that starts at bit i and has n bits.
LEMMA BlockBits ==
    ASSUME NEW m \in {"range", "cloud"}, Calm(m), NEW f \in Families,
           NEW i \in Nat, NEW n \in Nat \ {0}, i + n <= Blocks(m, f)
    PROVE  Bits(m, f, Cidr(i * Grain(m, f), n * Grain(m, f))) = i..(i + n - 1)
<1> DEFINE g == Grain(m, f)
           b == Blocks(m, f)
           c == Cidr(i * g, n * g)
<1>1. g \in Nat \ {0} /\ b \in Nat \ {0} /\ Cluster[f] = b * g
  BY GrainFacts
<1>2. c.at = i * g /\ c.size = n * g
  BY DEF Cidr
<1>3. maxCIDRs([size |-> Cluster[f], grain |-> g]) = b
  BY DEF maxCIDRs, Blocks
<1>4. i * g < b * g
  <2>1. (i + 1) * g <= b * g /\ (i + 1) * g = i * g + 1 * g
    BY <1>1, TimesMonotone, Distributes
  <2>2. QED
    BY <1>1, <2>1
<1>5. CASE n * g >= b * g
  <2>1. n >= b
    BY <1>1, <1>5, TimesLess
  <2>2. n = b /\ i = 0
    BY <1>1, <2>1
  <2>3. Bits(m, f, c) = 0..(b - 1)
    BY <1>1, <1>2, <1>3, <1>4, <1>5 DEF Bits, Indices
  <2>4. QED
    BY <2>2, <2>3, <1>1
<1>6. CASE n * g < b * g
  <2>1. Bits(m, f, c) = ((i * g) \div g)..((i * g + n * g - 1) \div g)
    <3> DEFINE r == [size |-> Cluster[f], grain |-> g]
    <3>1. r.size = b * g /\ r.grain = g
      BY <1>1
    <3>2. Bits(m, f, c) = Indices(r, c)
      BY DEF Bits
    <3>3. ~(c.at >= r.size) /\ ~(c.size >= r.size)
      <4>1. i * g \in Int /\ n * g \in Int /\ b * g \in Int
        BY <1>1
      <4> HIDE DEF r, c, g, b
      <4> QED BY <1>2, <1>4, <1>6, <3>1, <4>1
    <3> HIDE DEF r, c, g, b
    <3>4. Indices(r, c) = (c.at \div r.grain)..((c.at + c.size - 1) \div r.grain)
      BY <3>3 DEF Indices
    <3>5. QED
      BY <1>2, <3>1, <3>2, <3>4
  <2>2. (i * g) \div g = i
    BY <1>1, DivIs, Distributes
  <2>3. (i * g + n * g - 1) \div g = i + n - 1
    <3>1. (i + n) * g = i * g + n * g /\ ((i + n - 1) + 1) * g = (i + n - 1) * g + 1 * g
      BY <1>1, Distributes
    <3>2. (i + n - 1) + 1 = i + n /\ i + n - 1 \in Nat
      OBVIOUS
    <3>3. (i + n - 1) * g + g = i * g + n * g
      BY <1>1, <3>1, <3>2
    <3>4. (i + n - 1) * g \in Nat /\ i * g + n * g - 1 \in Nat
      BY <1>1, <3>2, <3>3
    <3>5. /\ (i + n - 1) * g <= i * g + n * g - 1
          /\ i * g + n * g - 1 < ((i + n - 1) + 1) * g
      BY <1>1, <3>1, <3>2, <3>3, <3>4
    <3> HIDE DEF g
    <3>6. QED
      BY <1>1, <3>2, <3>4, <3>5, DivIs
  <2>4. QED
    BY <2>1, <2>2, <2>3
<1>7. QED
  BY <1>1, <1>5, <1>6
\* The bitmaps of an allocator, and what they say of a tuple of CIDRs.
Sets(m, sets) ==
    /\ sets = [f \in Families |-> sets[f]]
    /\ \A f \in Families : Bitmap(m, f, sets[f])

Taken(m, t, sets) == \A f \in Families : Bits(m, f, t[f]) \subseteq sets[f].used

Free(m, t, sets) == \A f \in Families : Bits(m, f, t[f]) \cap sets[f].used = {}

Grows(sets, new) == \A f \in Families : sets[f].used \subseteq new[f].used

-----------------------------------------------------------------------------
LEMMA IndicesAreBits ==
    ASSUME NEW m, NEW f, NEW s, NEW c, Bitmap(m, f, s)
    PROVE  Indices(s, c) = Bits(m, f, c) /\ maxCIDRs(s) = Blocks(m, f)
<1>1. s.size = Cluster[f] /\ s.grain = Grain(m, f)
  BY DEF Bitmap
<1>2. maxCIDRs(s) = Blocks(m, f)
  BY <1>1 DEF maxCIDRs, Blocks
<1>3. maxCIDRs([size |-> Cluster[f], grain |-> Grain(m, f)]) = Blocks(m, f)
  BY DEF maxCIDRs, Blocks
<1>4. QED
  BY <1>1, <1>2, <1>3 DEF Indices, Bits

\* Bits within the bitmap.
InRange(m, f, c) == Bits(m, f, c) \subseteq 0..(Blocks(m, f) - 1)

LEMMA AlignedInRange ==
    ASSUME NEW m \in {"range", "cloud"}, Calm(m), NEW f \in Families, NEW c, Aligned(m, f, c)
    PROVE  InRange(m, f, c)
<1>1. PICK i \in Nat, n \in Nat \ {0} :
          i + n <= Blocks(m, f) /\ c = Cidr(i * Grain(m, f), n * Grain(m, f))
  BY DEF Aligned
<1>2. Bits(m, f, c) = i..(i + n - 1) /\ Blocks(m, f) \in Nat
  BY <1>1, BlockBits, GrainFacts
<1>3. QED
  BY <1>1, <1>2 DEF InRange

LEMMA AlignedIsCidr ==
    ASSUME NEW m \in {"range", "cloud"}, Calm(m), NEW f \in Families, NEW c, Aligned(m, f, c)
    PROVE  c \in [at : Nat, size : Nat]
<1>1. PICK i \in Nat, n \in Nat \ {0} : c = Cidr(i * Grain(m, f), n * Grain(m, f))
  BY DEF Aligned
<1>2. i * Grain(m, f) \in Nat /\ n * Grain(m, f) \in Nat
  BY GrainFacts
<1>3. QED
  BY <1>1, <1>2 DEF Cidr

\* What the counter needs: the bits of a bitmap are finitely many.
LEMMA BitmapFinite ==
    ASSUME NEW m \in {"range", "cloud"}, Calm(m), NEW f \in Families,
           NEW S \in SUBSET (0..(Blocks(m, f) - 1))
    PROVE  /\ IsFiniteSet(S) /\ Cardinality(S) \in Nat
           /\ S # 0..(Blocks(m, f) - 1) => Cardinality(S) # Blocks(m, f)
<1> DEFINE b == Blocks(m, f)
<1>1. b \in Nat \ {0}
  BY GrainFacts
<1> HIDE DEF b
<1>2. IsFiniteSet(0..(b - 1)) /\ Cardinality(0..(b - 1)) = b
  BY <1>1, FS_Interval
<1>3. S \in SUBSET (0..(b - 1))
  BY DEF b
<1>4. IsFiniteSet(S) /\ Cardinality(S) \in Nat
  BY <1>2, <1>3, FS_Subset, FS_CardinalityType
<1>5. S # 0..(b - 1) => Cardinality(S) # b
  BY <1>2, <1>3, FS_Subset
<1>6. QED
  BY <1>4, <1>5 DEF b

\* Taking bits into a bitmap, by any of the operations that do.
LEMMA TakeBits ==
    ASSUME NEW m \in {"range", "cloud"}, Calm(m), NEW f \in Families, NEW s, Bitmap(m, f, s),
           NEW B \in SUBSET (0..(Blocks(m, f) - 1)),
           NEW r \in [size : {s.size}, grain : {s.grain}, used : {s.used \cup B},
                      count : {s.count + Cardinality(B \ s.used)}, next : Nat]
    PROVE  Bitmap(m, f, r)
<1> DEFINE U == s.used
<1>1. /\ U \in SUBSET (0..(Blocks(m, f) - 1)) /\ s.count = Cardinality(U)
      /\ s \in [size : {Cluster[f]}, grain : {Grain(m, f)}, used : SUBSET (0..(Blocks(m, f) - 1)),
                count : Nat, next : Nat]
  BY DEF Bitmap
<1> DEFINE N == B \ U
<1>2. /\ IsFiniteSet(U) /\ IsFiniteSet(N) /\ Cardinality(U) \in Nat /\ Cardinality(N) \in Nat
  BY <1>1, BitmapFinite
<1>3. U \cap N = {} /\ U \cup N = U \cup B
  OBVIOUS
<1> HIDE DEF U, N
<1>4. Cardinality(U \cap N) = 0
  BY <1>3, FS_EmptySet
<1>5. Cardinality(U \cup B) = Cardinality(U) + Cardinality(N)
  <2>1. Cardinality(U \cup N) = Cardinality(U) + Cardinality(N) - Cardinality(U \cap N)
    BY <1>2, FS_Union
  <2>2. Cardinality(U \cup N) = Cardinality(U \cup B)
    BY <1>3
  <2>3. QED
    BY <1>2, <1>4, <2>1, <2>2
<1>6. U \cup B \in SUBSET (0..(Blocks(m, f) - 1))
  BY <1>1
<1>7. /\ s.count + Cardinality(B \ s.used) = Cardinality(U \cup B)
      /\ s.count + Cardinality(B \ s.used) \in Nat
  BY <1>1, <1>2, <1>5 DEF N, U
<1>8. s.used = U
  BY DEF U
<1>9. QED
  BY <1>1, <1>6, <1>7, <1>8 DEF Bitmap

LEMMA ReleaseBits ==
    ASSUME NEW m \in {"range", "cloud"}, Calm(m), NEW f \in Families, NEW s, Bitmap(m, f, s), NEW c
    PROVE  Bitmap(m, f, Release(s, c)) /\ Release(s, c).used = s.used \ Bits(m, f, c)
<1> DEFINE U == s.used
           I == Bits(m, f, c) \cap U
<1>1. /\ U \in SUBSET (0..(Blocks(m, f) - 1)) /\ s.count = Cardinality(U)
      /\ s \in [size : {Cluster[f]}, grain : {Grain(m, f)}, used : SUBSET (0..(Blocks(m, f) - 1)),
                count : Nat, next : Nat]
  BY DEF Bitmap
<1>2. IsFiniteSet(U) /\ Cardinality(U) \in Nat
  BY <1>1, BitmapFinite
<1>3. I = U \cap I /\ U \ I = U \ Bits(m, f, c)
  OBVIOUS
<1>4. Release(s, c) = [s EXCEPT !.used = U \ I, !.count = @ - Cardinality(I)]
  BY <1>1, IndicesAreBits DEF Release
<1> HIDE DEF I, U
<1>5. /\ Cardinality(U \ I) = Cardinality(U) - Cardinality(U \cap I)
      /\ Cardinality(U \ I) \in Nat
  BY <1>2, FS_Difference, FS_CardinalityType
<1>6. s.count - Cardinality(I) = Cardinality(U \ I)
  BY <1>1, <1>3, <1>5
<1>7. U \ I \in SUBSET (0..(Blocks(m, f) - 1))
  BY <1>1
<1>8. Release(s, c).used = U \ I
  BY <1>1, <1>4
<1>9. Bitmap(m, f, Release(s, c))
  BY <1>1, <1>4, <1>5, <1>6, <1>7 DEF Bitmap
<1>10. QED
  BY <1>3, <1>8, <1>9 DEF U

\* Bits that are taken already stay as they are.
LEMMA OccupyNothing ==
    ASSUME NEW m, NEW f, NEW s, Bitmap(m, f, s), NEW c, Bits(m, f, c) \subseteq s.used
    PROVE  Occupy(s, c) = s
<1>1. Indices(s, c) \ s.used = {}
  BY IndicesAreBits
<1>2. s.count \in Nat /\ s.count + 0 = s.count
  BY DEF Bitmap
<1>3. Cardinality({}) = 0
  BY FS_EmptySet
<1>4. s.used \cup Indices(s, c) = s.used
  BY <1>1
<1>5. Occupy(s, c) = [s EXCEPT !.used = s.used, !.count = s.count + 0]
  BY <1>1, <1>3, <1>4 DEF Occupy, Mark
<1>6. QED
  BY <1>2, <1>5 DEF Bitmap

LEMMA OccupyAllBits ==
    ASSUME NEW m \in {"range", "cloud"}, Calm(m), NEW f \in Families, NEW s, Bitmap(m, f, s),
           NEW cidrs, \A c \in cidrs : InRange(m, f, c)
    PROVE  /\ Bitmap(m, f, OccupyAll(s, cidrs))
           /\ s.used \subseteq OccupyAll(s, cidrs).used
           /\ \A c \in cidrs : Bits(m, f, c) \subseteq OccupyAll(s, cidrs).used
<1> DEFINE B == UNION {Indices(s, c) : c \in cidrs}
           r == Mark(s, B)
<1>1. B \in SUBSET (0..(Blocks(m, f) - 1))
  BY IndicesAreBits DEF InRange
<1>2. \A c \in cidrs : Bits(m, f, c) \subseteq B
  BY IndicesAreBits
<1>3. OccupyAll(s, cidrs) = r
  BY DEF OccupyAll
<1> HIDE DEF B
<1>4. r \in [size : {s.size}, grain : {s.grain}, used : {s.used \cup B},
             count : {s.count + Cardinality(B \ s.used)}, next : Nat]
  BY DEF Bitmap, Mark
<1> HIDE DEF r
<1>5. Bitmap(m, f, r) /\ r.used = s.used \cup B
  BY <1>1, <1>4, TakeBits
<1>6. QED
  BY <1>2, <1>3, <1>5

LEMMA ModIs ==
    ASSUME NEW q \in Nat, NEW k \in Nat \ {0}, NEW x \in 0..(k - 1)
    PROVE  (q * k + x) % k = x
<1>1. q * k \in Nat /\ (q + 1) * k = q * k + k
  BY SMT
<1> DEFINE y == q * k + x
<1>2. y \in Nat /\ q * k <= y /\ y < (q + 1) * k
  BY <1>1
<1>3. y \div k = q
  BY <1>2, DivIs
<1>4. y = (y \div k) * k + (y % k) /\ y % k \in 0..(k - 1)
  BY <1>2, DivMod
<1>5. QED
  BY <1>1, <1>3, <1>4

\* Going round from any bit one comes to every bit.
LEMMA Cyclic ==
    ASSUME NEW k \in Nat \ {0}, NEW a \in Nat, NEW x \in 0..(k - 1)
    PROVE  \E i \in 0..(k - 1) : (a + i) % k = x
<1> DEFINE q == a \div k
           r == a % k
<1>1. q \in Nat /\ r \in 0..(k - 1) /\ a = q * k + r
  BY DivMod
<1> HIDE DEF q, r
<1>2. q * k \in Nat /\ (q + 1) * k = q * k + k
  BY <1>1
<1>3. CASE x >= r
  <2>1. x - r \in 0..(k - 1) /\ a + (x - r) = q * k + x
    BY <1>1, <1>2, <1>3
  <2>2. QED
    BY <1>1, <2>1, ModIs
<1>4. CASE x < r
  <2>1. x + k - r \in 0..(k - 1) /\ a + (x + k - r) = (q + 1) * k + x
    BY <1>1, <1>2, <1>4
  <2>2. ((q + 1) * k + x) % k = x
    BY <1>1, ModIs
  <2>3. QED
    BY <2>1, <2>2
<1>5. QED
  BY <1>1, <1>3, <1>4

\* AllocateNext takes a bit that was free.
LEMMA AllocateOne ==
    ASSUME NEW m \in {"range", "cloud"}, Calm(m), NEW f \in Families, NEW s, Bitmap(m, f, s),
           ~NoneLeft(s)
    PROVE  /\ Bitmap(m, f, AllocateNext(s))
           /\ AllocateNext(s).used = s.used \cup Bits(m, f, NextBlock(s))
           /\ Aligned(m, f, NextBlock(s))
           /\ Bits(m, f, NextBlock(s)) \cap s.used = {}
<1> DEFINE b == Blocks(m, f)
           g == Grain(m, f)
<1>1. b \in Nat \ {0} /\ g \in Nat \ {0} /\ maxCIDRs(s) = b
  BY GrainFacts, IndicesAreBits
<1>2. /\ s.used \in SUBSET (0..(b - 1)) /\ s.count = Cardinality(s.used) /\ s.next \in Nat
      /\ s.grain = g /\ DOMAIN s = {"size", "grain", "used", "count", "next"}
  BY DEF Bitmap
<1>3. PICK x \in 0..(b - 1) : x \notin s.used
  <2>1. s.used # 0..(b - 1)
    <3>1. CASE s.used = 0..(b - 1)
      <4>1. Cardinality(0..(b - 1)) = b
        <5> HIDE DEF b
        <5> QED BY <1>1, FS_Interval
      <4> HIDE DEF b
      <4>2. QED
        BY <1>1, <1>2, <3>1, <4>1 DEF NoneLeft
    <3>2. QED
      BY <3>1
  <2>2. QED
    BY <1>2, <2>1
<1> HIDE DEF b, g
<1> DEFINE at(i) == (s.next + i) % b
           free == {i \in 0..(b - 1) : at(i) \notin s.used}
           j == NextIndex(s)
<1>4. free # {} /\ free \subseteq Nat
  <2>1. PICK i \in 0..(b - 1) : (s.next + i) % b = x
    <3> DEFINE a == s.next
    <3>1. a \in Nat
      BY <1>2
    <3> HIDE DEF a
    <3>2. \E i \in 0..(b - 1) : (a + i) % b = x
      BY <1>1, <3>1, Cyclic
    <3>3. QED
      BY <3>2 DEF a
  <2>2. i \in free
    BY <1>3, <2>1
  <2>3. QED
    BY <2>2
<1>5. Min(free) \in free
  BY <1>4, NatHasMin
<1>6. j = at(Min(free))
  BY <1>1, <1>4 DEF NextIndex
<1>7. j \in 0..(b - 1) /\ j \notin s.used
  <2>1. at(Min(free)) \notin s.used
    BY <1>5
  <2>2. Min(free) \in Nat
    BY <1>4, <1>5
  <2> HIDE DEF free
  <2>3. s.next + Min(free) \in Nat
    BY <1>2, <2>2
  <2>4. at(Min(free)) \in 0..(b - 1)
    BY <1>1, <2>3, DivMod
  <2>5. QED
    BY <1>6, <2>1, <2>4
<1> HIDE DEF free, at, j
<1>8. NextBlock(s) = Cidr(j * g, 1 * g) /\ j + 1 <= b /\ j \in Nat
  BY <1>1, <1>2, <1>7 DEF NextBlock, j
<1>9. Aligned(m, f, NextBlock(s))
  BY <1>8 DEF Aligned, b, g
<1>10. Bits(m, f, NextBlock(s)) = {j}
  <2>1. Bits(m, f, NextBlock(s)) = j..(j + 1 - 1)
    BY <1>8, BlockBits DEF b, g
  <2>2. QED
    BY <1>8, <2>1
<1>11. Cardinality({j} \ s.used) = 1
  <2>1. {j} \ s.used = {j}
    BY <1>7
  <2>2. QED
    BY <2>1, FS_Singleton
<1>12. (j + 1) % b \in Nat
  BY <1>1, <1>8, DivMod
<1>13. {j} \in SUBSET (0..(Blocks(m, f) - 1))
  BY <1>7 DEF b
<1>14. AllocateNext(s) = [s EXCEPT !.used = @ \cup {j}, !.count = @ + 1, !.next = (j + 1) % b]
  BY <1>1 DEF AllocateNext, j
<1>15. Bitmap(m, f, AllocateNext(s))
  <2> DEFINE r == AllocateNext(s)
  <2>1. r \in [size : {s.size}, grain : {s.grain}, used : {s.used \cup {j}},
               count : {s.count + Cardinality({j} \ s.used)}, next : Nat]
    BY <1>11, <1>12, <1>14 DEF Bitmap
  <2> HIDE DEF r
  <2>2. Bitmap(m, f, r)
    BY <1>13, <2>1, TakeBits
  <2>3. QED
    BY <2>2 DEF r
<1>16. AllocateNext(s).used = s.used \cup {j}
  BY <1>2, <1>14
<1>17. QED
  BY <1>7, <1>9, <1>10, <1>15, <1>16

\* AllocateNextWithNodeMaskSize takes a run of bits that were free.
LEMMA AllocateRun ==
    ASSUME Calm("cloud"), NEW f \in Families, NEW s, Bitmap("cloud", f, s),
           NEW sizes \in CloudMasks, FreeRuns(s, sizes[f]) # {}
    PROVE  /\ Bitmap("cloud", f, AllocateNextWithNodeMaskSize(s, sizes[f]))
           /\ AllocateNextWithNodeMaskSize(s, sizes[f]).used
                = s.used \cup Bits("cloud", f, NextRun(s, sizes[f]))
           /\ Aligned("cloud", f, NextRun(s, sizes[f]))
           /\ Bits("cloud", f, NextRun(s, sizes[f])) \cap s.used = {}
<1> DEFINE b == Blocks("cloud", f)
           g == Grain("cloud", f)
           z == sizes[f]
           n == z \div g
<1>1. /\ b \in Nat \ {0} /\ g \in Nat \ {0} /\ maxCIDRs(s) = b
      /\ z \in Nat \ {0} /\ g <= z /\ z % g = 0
  BY GrainFacts, IndicesAreBits
<1>2. /\ s.grain = g /\ DOMAIN s = {"size", "grain", "used", "count", "next"}
  BY DEF Bitmap
<1> DEFINE F == FreeRuns(s, z)
<1> HIDE DEF b, g, z
<1>3. n \in Nat \ {0} /\ z = n * g
  <2>1. n \in Nat /\ z = n * g + (z % g)
    BY <1>1, DivMod
  <2> HIDE DEF n
  <2>2. n * g \in Int
    BY <1>1, <2>1
  <2>3. z = n * g
    BY <1>1, <2>1, <2>2
  <2>4. n # 0
    BY <1>1, <2>3
  <2>5. QED
    BY <2>1, <2>3, <2>4
<1>4. F = {i \in 0..(b - n) : i % n = 0 /\ i..(i + n - 1) \cap s.used = {}}
  <2>1. F # {}
    BY DEF z
  <2>2. QED
    BY <1>1, <1>2, <2>1 DEF FreeRuns
<1>5. F # {} /\ F \subseteq Nat
  BY <1>4 DEF z
<1> HIDE DEF F, n
<1> DEFINE j == Min(F)
<1>6. j \in F
  BY <1>5, NatHasMin
<1> HIDE DEF j
<1>7. j \in Nat /\ j + n <= b /\ j..(j + n - 1) \cap s.used = {}
  BY <1>1, <1>3, <1>4, <1>6
<1>8. NextRun(s, z) = Cidr(j * g, n * g)
  BY <1>2, <1>3 DEF NextRun, j, F
<1>9. Aligned("cloud", f, NextRun(s, z))
  BY <1>3, <1>7, <1>8 DEF Aligned, b, g
<1>10. Bits("cloud", f, NextRun(s, z)) = j..(j + n - 1)
  BY <1>3, <1>7, <1>8, BlockBits DEF b, g
<1> DEFINE B == j..(j + n - 1)
<1>11. B \ s.used = B /\ Cardinality(B) = n
  <2>1. B \ s.used = B
    BY <1>7
  <2>2. PICK k \in Int : k = j + n - 1
    BY <1>3, <1>7
  <2>3. B = j..k /\ j \in Int /\ ~(j > k)
    BY <1>3, <1>7, <2>2
  <2> HIDE DEF B
  <2>4. Cardinality(B) = k - j + 1
    BY <2>2, <2>3, FS_Interval
  <2>5. QED
    BY <1>3, <1>7, <2>1, <2>2, <2>4
<1>12. B \in SUBSET (0..(Blocks("cloud", f) - 1))
  BY <1>1, <1>3, <1>7 DEF b
<1>13. AllocateNextWithNodeMaskSize(s, z) = [s EXCEPT !.used = @ \cup B, !.count = @ + n]
  BY <1>2 DEF AllocateNextWithNodeMaskSize, j, F, n, B
<1> HIDE DEF B
<1>14. Bitmap("cloud", f, AllocateNextWithNodeMaskSize(s, z))
  <2> DEFINE r == AllocateNextWithNodeMaskSize(s, z)
  <2>1. r \in [size : {s.size}, grain : {s.grain}, used : {s.used \cup B},
               count : {s.count + Cardinality(B \ s.used)}, next : Nat]
    BY <1>11, <1>13 DEF Bitmap
  <2> HIDE DEF r
  <2>2. Bitmap("cloud", f, r)
    BY <1>12, <2>1, TakeBits
  <2>3. QED
    BY <2>2 DEF r
<1>15. AllocateNextWithNodeMaskSize(s, z).used = s.used \cup B
  BY <1>2, <1>13
<1>16. QED
  BY <1>7, <1>9, <1>10, <1>14, <1>15 DEF B, z
-----------------------------------------------------------------------------
\* What an allocation of the range allocator does to the bitmaps.
LEMMA RangeAllocation ==
    ASSUME NEW m \in {"range", "cloud"}, Calm(m), NEW sets, Sets(m, sets)
    PROVE  /\ Sets(m, AllocateFamilies(sets)) /\ Grows(sets, AllocateFamilies(sets))
           /\ CanAllocate(sets) =>
                /\ Good(m, allocatePodCIDRs(sets)) /\ Free(m, allocatePodCIDRs(sets), sets)
                /\ Taken(m, allocatePodCIDRs(sets), AllocateFamilies(sets))
<1> DEFINE full == {f \in Families : NoneLeft(sets[f])}
<1>1. Families \subseteq Nat
  <2>1. Families = 1..Len(Cluster) /\ Len(Cluster) \in Nat
    BY IpamAssumption DEF Families
  <2>2. QED
    BY <2>1
<1>2. ASSUME NEW f \in Families, ~CanAllocate(sets), ~(f >= FirstFull(sets))
      PROVE  ~NoneLeft(sets[f])
  <2>1. full # {} /\ full \subseteq Nat
    BY <1>1, <1>2 DEF CanAllocate
  <2>2. Min(full) \in Nat /\ \A x \in full : Min(full) <= x
    BY <2>1, NatHasMin
  <2>3. Min(full) = FirstFull(sets)
    BY DEF FirstFull
  <2> HIDE DEF full
  <2>4. f \notin full
    BY <1>1, <1>2, <2>2, <2>3
  <2>5. QED
    BY <2>4 DEF full
<1>3. ASSUME NEW f \in Families
      PROVE  /\ Bitmap(m, f, AllocateFamilies(sets)[f])
             /\ sets[f].used \subseteq AllocateFamilies(sets)[f].used
  <2>1. Bitmap(m, f, sets[f])
    BY DEF Sets
  <2>2. CASE ~CanAllocate(sets) /\ f >= FirstFull(sets)
    BY <2>1, <2>2 DEF AllocateFamilies
  <2>3. CASE ~(~CanAllocate(sets) /\ f >= FirstFull(sets))
    <3>1. ~NoneLeft(sets[f])
      BY <1>2, <2>3 DEF CanAllocate
    <3>2. AllocateFamilies(sets)[f] = AllocateNext(sets[f])
      BY <2>3 DEF AllocateFamilies
    <3>3. QED
      BY <2>1, <3>1, <3>2, AllocateOne
  <2>4. QED
    BY <2>2, <2>3
<1>4. AllocateFamilies(sets) = [f \in Families |-> AllocateFamilies(sets)[f]]
  BY DEF AllocateFamilies
<1>5. ASSUME CanAllocate(sets), NEW f \in Families
      PROVE  /\ Aligned(m, f, allocatePodCIDRs(sets)[f])
             /\ Bits(m, f, allocatePodCIDRs(sets)[f]) \cap sets[f].used = {}
             /\ Bits(m, f, allocatePodCIDRs(sets)[f]) \subseteq AllocateFamilies(sets)[f].used
             /\ allocatePodCIDRs(sets)[f] \in [at : Nat, size : Nat]
  <2>1. Bitmap(m, f, sets[f]) /\ ~NoneLeft(sets[f])
    BY <1>5 DEF Sets, CanAllocate
  <2>2. AllocateFamilies(sets)[f] = AllocateNext(sets[f])
    BY <1>5 DEF AllocateFamilies
  <2>3. allocatePodCIDRs(sets)[f] = NextBlock(sets[f])
    BY DEF allocatePodCIDRs
  <2>4. /\ AllocateNext(sets[f]).used = sets[f].used \cup Bits(m, f, NextBlock(sets[f]))
        /\ Aligned(m, f, NextBlock(sets[f]))
        /\ Bits(m, f, NextBlock(sets[f])) \cap sets[f].used = {}
    BY <2>1, AllocateOne
  <2>5. NextBlock(sets[f]) \in [at : Nat, size : Nat]
    BY <2>4, AlignedIsCidr
  <2> QED BY <2>2, <2>3, <2>4, <2>5
<1>6. CanAllocate(sets) => allocatePodCIDRs(sets) \in Tuples
  BY <1>5 DEF Tuples, allocatePodCIDRs
<1>7. QED
  BY <1>3, <1>4, <1>5, <1>6 DEF Sets, Grows, Good, Free, Taken

\* And one of the cloud allocator.
LEMMA CloudAllocation ==
    ASSUME Calm("cloud"), NEW sets, Sets("cloud", sets), NEW sizes \in CloudMasks
    PROVE  /\ Sets("cloud", AllocateSizes(sets, sizes)) /\ Grows(sets, AllocateSizes(sets, sizes))
           /\ CanAllocateSizes(sets, sizes) =>
                /\ Good("cloud", allocateSizes(sets, sizes))
                /\ Free("cloud", allocateSizes(sets, sizes), sets)
                /\ Taken("cloud", allocateSizes(sets, sizes), AllocateSizes(sets, sizes))
<1> DEFINE full == {f \in Families : FreeRuns(sets[f], sizes[f]) = {}}
           Stop(f) == full # {} /\ f >= Min(full)
<1>1. Families \subseteq Nat
  <2>1. Families = 1..Len(Cluster) /\ Len(Cluster) \in Nat
    BY IpamAssumption DEF Families
  <2>2. QED
    BY <2>1
<1>2. \A f \in Families : AllocateSizes(sets, sizes)[f] =
          IF Stop(f) THEN sets[f] ELSE AllocateNextWithNodeMaskSize(sets[f], sizes[f])
  BY Zenon DEF AllocateSizes
<1>3. ASSUME NEW f \in Families, ~Stop(f)
      PROVE  FreeRuns(sets[f], sizes[f]) # {}
  <2>1. CASE full = {}
    BY <2>1
  <2>2. CASE full # {}
    <3>1. full \subseteq Nat
      BY <1>1
    <3>2. Min(full) \in Nat /\ \A x \in full : Min(full) <= x
      BY <2>2, <3>1, NatHasMin
    <3>3. ~(f >= Min(full))
      BY <1>3, <2>2
    <3> HIDE DEF full
    <3>4. f \notin full
      BY <1>1, <3>2, <3>3
    <3>5. QED
      BY <3>4 DEF full
  <2>3. QED
    BY <2>1, <2>2
<1> HIDE DEF Stop
<1>4. ASSUME NEW f \in Families
      PROVE  /\ Bitmap("cloud", f, AllocateSizes(sets, sizes)[f])
             /\ sets[f].used \subseteq AllocateSizes(sets, sizes)[f].used
  <2>1. Bitmap("cloud", f, sets[f])
    BY DEF Sets
  <2>2. CASE Stop(f)
    BY <1>2, <2>1, <2>2
  <2>3. CASE ~Stop(f)
    <3>1. FreeRuns(sets[f], sizes[f]) # {}
      BY <1>3, <2>3
    <3>2. AllocateSizes(sets, sizes)[f] = AllocateNextWithNodeMaskSize(sets[f], sizes[f])
      BY <1>2, <2>3
    <3>3. /\ Bitmap("cloud", f, AllocateNextWithNodeMaskSize(sets[f], sizes[f]))
          /\ AllocateNextWithNodeMaskSize(sets[f], sizes[f]).used
               = sets[f].used \cup Bits("cloud", f, NextRun(sets[f], sizes[f]))
      BY <2>1, <3>1, AllocateRun
    <3>4. QED
      BY <3>2, <3>3
  <2>4. QED
    BY <2>2, <2>3
<1>5. AllocateSizes(sets, sizes) = [f \in Families |-> AllocateSizes(sets, sizes)[f]]
  BY DEF AllocateSizes
<1>6. ASSUME CanAllocateSizes(sets, sizes), NEW f \in Families
      PROVE  /\ Aligned("cloud", f, allocateSizes(sets, sizes)[f])
             /\ Bits("cloud", f, allocateSizes(sets, sizes)[f]) \cap sets[f].used = {}
             /\ Bits("cloud", f, allocateSizes(sets, sizes)[f]) \subseteq AllocateSizes(sets, sizes)[f].used
             /\ allocateSizes(sets, sizes)[f] \in [at : Nat, size : Nat]
  <2>1. Bitmap("cloud", f, sets[f]) /\ FreeRuns(sets[f], sizes[f]) # {} /\ full = {}
    BY <1>6 DEF Sets, CanAllocateSizes
  <2>2. AllocateSizes(sets, sizes)[f] = AllocateNextWithNodeMaskSize(sets[f], sizes[f])
    BY <1>2, <2>1 DEF Stop
  <2>3. allocateSizes(sets, sizes)[f] = NextRun(sets[f], sizes[f])
    BY DEF allocateSizes
  <2>4. /\ AllocateNextWithNodeMaskSize(sets[f], sizes[f]).used
             = sets[f].used \cup Bits("cloud", f, NextRun(sets[f], sizes[f]))
        /\ Aligned("cloud", f, NextRun(sets[f], sizes[f]))
        /\ Bits("cloud", f, NextRun(sets[f], sizes[f])) \cap sets[f].used = {}
    BY <2>1, AllocateRun
  <2>5. NextRun(sets[f], sizes[f]) \in [at : Nat, size : Nat]
    BY <2>4, AlignedIsCidr
  <2> QED BY <2>2, <2>3, <2>4, <2>5
<1>7. CanAllocateSizes(sets, sizes) => allocateSizes(sets, sizes) \in Tuples
  BY <1>6 DEF Tuples, allocateSizes
<1>8. QED
  BY <1>4, <1>5, <1>6, <1>7 DEF Sets, Grows, Good, Free, Taken

\* Occupying what is taken changes nothing.
LEMMA OccupyTaken ==
    ASSUME NEW m, NEW sets, Sets(m, sets), NEW t, Taken(m, t, sets)
    PROVE  occupyCIDRs(sets, t) = sets
<1>1. \A f \in Families : Occupy(sets[f], t[f]) = sets[f]
  BY OccupyNothing DEF Sets, Taken
<1>2. QED
  BY <1>1 DEF occupyCIDRs, Sets

\* A release frees the bits of its CIDRs and no others.
LEMMA ReleaseTuple ==
    ASSUME NEW m \in {"range", "cloud"}, Calm(m), NEW sets, Sets(m, sets), NEW t
    PROVE  /\ Sets(m, ReleaseAll(sets, t))
           /\ \A f \in Families :
                ReleaseAll(sets, t)[f].used = sets[f].used \ Bits(m, f, t[f])
<1>1. \A f \in Families : ReleaseAll(sets, t)[f] = Release(sets[f], t[f])
  BY DEF ReleaseAll
<1>2. \A f \in Families : /\ Bitmap(m, f, Release(sets[f], t[f]))
                          /\ Release(sets[f], t[f]).used = sets[f].used \ Bits(m, f, t[f])
  BY ReleaseBits DEF Sets
<1>3. ReleaseAll(sets, t) = [f \in Families |-> ReleaseAll(sets, t)[f]]
  BY DEF ReleaseAll
<1>4. QED
  BY <1>1, <1>2, <1>3 DEF Sets
\* Every mask the cloud allocator meets is at least one bit of its bitmaps, and
\* with the nodes that stay the finest is just that.
LEMMA FinestFacts ==
    ASSUME Calm("cloud"), NEW sizes \in [Names -> {Nil} \cup CloudMasks], NEW f \in Families
    PROVE  /\ Grain("cloud", f) <= Finest(sizes, f)
           /\ (\A n \in Permanent : sizes[n] = MaskOf[n]) => Finest(sizes, f) = Grain("cloud", f)
<1> DEFINE g == Grain("cloud", f)
           S == {sizes[n][f] : n \in {k \in Names : sizes[k] # Nil}} \cup {2 * Cluster[f]}
           l == Min(S)
<1>1. /\ g \in Nat \ {0} /\ Cluster[f] \in Nat /\ Blocks("cloud", f) \in Nat \ {0}
      /\ Cluster[f] = Blocks("cloud", f) * g
      /\ \A s \in CloudMasks : s[f] \in Nat /\ g <= s[f]
  BY GrainFacts
<1>2. g <= Cluster[f]
  <2>1. 1 * g <= Blocks("cloud", f) * g
    BY <1>1, TimesMonotone
  <2> HIDE DEF g
  <2>2. QED
    BY <1>1, <2>1
<1>3. PICK p \in Permanent : MaskOf[p][f] = g
  BY GrainFacts
<1>4. p \in Names /\ MaskOf[p] \in CloudMasks /\ MaskOf[p] # Nil
  BY IpamAssumption DEF CloudMasks, Masks
<1> HIDE DEF g
<1>5. 2 * Cluster[f] \in Nat /\ g <= 2 * Cluster[f]
  BY <1>1, <1>2
<1>6. ASSUME NEW x \in S
      PROVE  x \in Nat /\ g <= x
  BY <1>1, <1>5
<1>7. (\A n \in Permanent : sizes[n] = MaskOf[n]) => g \in S
  BY <1>3, <1>4
<1>8. S # {} /\ S \subseteq Nat
  BY <1>6
<1>9. l = Finest(sizes, f)
  BY DEF Finest
<1> HIDE DEF S
<1>10. l \in S /\ \A x \in S : l <= x
  BY <1>8, NatHasMin
<1> HIDE DEF l
<1>11. l \in Nat /\ g <= l
  BY <1>6, <1>10
<1>12. g \in S => l = g
  <2>1. g \in S => l <= g
    BY <1>10
  <2>2. QED
    BY <1>1, <1>11, <2>1
<1>13. QED
  BY <1>7, <1>9, <1>11, <1>12 DEF g

\* The bitmaps of the cloud allocator are never made anew for a finer mask.
LEMMA NoFinerMask ==
    ASSUME Calm("cloud"), NEW sizes \in [Names -> {Nil} \cup CloudMasks], NEW sets, Sets("cloud", sets)
    PROVE  updateMaxSubnetMaskSizes(sets, sizes) = sets
<1>1. ASSUME NEW f \in Families, NEW cidrs
      PROVE  UpdateSubnetMaskSize(sets[f], Finest(sizes, f), cidrs) = sets[f]
  <2>1. sets[f].grain = Grain("cloud", f)
    BY DEF Sets, Bitmap
  <2>2. sets[f].grain <= Finest(sizes, f)
    BY <2>1, FinestFacts
  <2>3. QED
    BY <2>2 DEF UpdateSubnetMaskSize
<1>2. QED
  BY <1>1 DEF updateMaxSubnetMaskSizes, Sets

\* A service range is within the bitmap of its cluster CIDR.
LEMMA ServiceInRange ==
    ASSUME NEW m \in {"range", "cloud"}, Calm(m), NEW f \in Families, NEW c \in [at : Nat, size : Nat \ {0}],
           c.at + c.size <= Cluster[f]
    PROVE  InRange(m, f, c)
<1> DEFINE g == Grain(m, f)
           b == Blocks(m, f)
           r == [size |-> Cluster[f], grain |-> g]
           lo == c.at
           hi == c.at + c.size - 1
<1>1. g \in Nat \ {0} /\ b \in Nat \ {0} /\ Cluster[f] = b * g /\ Cluster[f] \in Nat
  BY GrainFacts
<1>2. maxCIDRs(r) = b /\ r.size = Cluster[f] /\ r.grain = g
  BY DEF maxCIDRs, Blocks
<1>3. lo \in Nat /\ hi \in Nat /\ lo <= hi /\ hi < Cluster[f]
  BY <1>1
<1>4. Bits(m, f, c) \in {0..(b - 1), (lo \div g)..(hi \div g)}
  <2>1. ~(c.at >= r.size)
    <3>1. c.at = lo
      OBVIOUS
    <3> HIDE DEF r, lo, hi
    <3>2. ~(lo >= Cluster[f])
      BY <1>1, <1>3
    <3>3. QED
      BY <1>2, <3>1, <3>2
  <2>2. Bits(m, f, c) = Indices(r, c)
    BY DEF Bits
  <2> HIDE DEF r, b, g
  <2>3. QED
    BY <1>2, <2>1, <2>2 DEF Indices
<1> HIDE DEF g, b, lo, hi, r
<1>5. lo \div g \in Nat /\ hi \div g \in Nat /\ (hi \div g) * g <= hi
  BY <1>1, <1>3, DivMod
<1>6. hi \div g < b
  <2> DEFINE q == hi \div g
  <2>1. q \in Nat /\ q * g <= hi /\ hi < b * g
    BY <1>1, <1>3, <1>5
  <2> HIDE DEF q
  <2>2. q * g \in Int /\ b * g \in Int
    BY <1>1, <2>1
  <2>3. q < b
    BY <1>1, <1>3, <2>1, <2>2, TimesLess
  <2>4. QED
    BY <2>3 DEF q
<1> DEFINE d == lo \div g
           e == hi \div g
<1>7. d \in Nat /\ e \in Nat /\ e < b
  BY <1>5, <1>6
<1> HIDE DEF d, e
<1>8. d..e \subseteq 0..(b - 1)
  BY <1>1, <1>7
<1>9. QED
  BY <1>4, <1>8 DEF InRange, b, d, e

\* The bitmaps an allocator starts with hold the CIDRs of the nodes listed.
LEMMA StartedSets ==
    ASSUME NEW m \in {"range", "cloud"}, Calm(m), NEW nodes,
           nodes \in [Names -> {NoNode, NoCIDRs} \cup Tuples],
           \A n \in Permanent : nodes[n] # NoNode,
           \A n \in Names : Has(nodes[n]) => Good(m, nodes[n])
    PROVE  /\ Sets(m, Started(m, nodes, Listed(nodes)))
           /\ \A n \in Names : Has(nodes[n]) => Taken(m, nodes[n], Started(m, nodes, Listed(nodes)))
           /\ Listed(nodes) \in [Names -> {Nil} \cup CloudMasks]
<1> DEFINE sizes == Listed(nodes)
           none == [f \in Families |-> NewCIDRSet(Cluster[f], Grain(m, f))]
           first == filterOutServiceRange(none)
           sets == OccupyListed(first, nodes)
<1>1. sizes \in [Names -> {Nil} \cup CloudMasks]
  BY DEF Listed, CloudMasks
<1>2. \A n \in Permanent : sizes[n] = MaskOf[n]
  BY IpamAssumption DEF Listed
<1> HIDE DEF sizes
<1>3. Started(m, nodes, sizes) = sets
  <2>1. CASE m = "range"
    BY <2>1 DEF Started, NewCIDRRangeAllocator, Grain
  <2>2. CASE m = "cloud"
    <3>1. \A f \in Families : Finest(sizes, f) = Grain(m, f)
      BY <1>1, <1>2, <2>2, FinestFacts
    <3>2. [f \in Families |-> NewCIDRSet(Cluster[f], Finest(sizes, f))] = none
      BY <3>1
    <3> HIDE DEF none
    <3>3. QED
      BY <2>2, <3>2 DEF Started, NewCloudCIDRAllocator
  <2>3. QED
    BY <2>1, <2>2
<1>4. \A f \in Families : Bitmap(m, f, none[f])
  <2> TAKE f \in Families
  <2>1. none[f] = NewCIDRSet(Cluster[f], Grain(m, f))
    OBVIOUS
  <2>2. {} \in SUBSET (0..(Blocks(m, f) - 1)) /\ Cardinality({}) = 0
    BY FS_EmptySet
  <2> HIDE DEF none
  <2>3. QED
    BY <2>1, <2>2 DEF Bitmap, NewCIDRSet
<1> HIDE DEF none
<1>5. ASSUME NEW f \in Families
      PROVE  Bitmap(m, f, first[f])
  <2> DEFINE cidrs == {p[2] : p \in {q \in ServiceCIDRs : q[1] = f}}
  <2>1. \A c \in cidrs : InRange(m, f, c)
    BY ServiceInRange, IpamAssumption
  <2>2. first[f] = OccupyAll(none[f], cidrs)
    BY DEF filterOutServiceRange
  <2> HIDE DEF cidrs, first
  <2>3. QED
    BY <1>4, <2>1, <2>2, OccupyAllBits
<1> HIDE DEF first
<1>6. ASSUME NEW f \in Families
      PROVE  /\ Bitmap(m, f, sets[f])
             /\ \A n \in Names : Has(nodes[n]) => Bits(m, f, nodes[n][f]) \subseteq sets[f].used
  <2> DEFINE cidrs == {nodes[n][f] : n \in {k \in Names : Has(nodes[k])}}
  <2>1. \A c \in cidrs : InRange(m, f, c)
    BY AlignedInRange DEF Good
  <2>2. sets[f] = OccupyAll(first[f], cidrs)
    BY DEF OccupyListed
  <2>3. \A n \in Names : Has(nodes[n]) => nodes[n][f] \in cidrs
    OBVIOUS
  <2> HIDE DEF cidrs, sets
  <2>4. QED
    BY <1>5, <2>1, <2>2, <2>3, OccupyAllBits
<1>7. sets = [f \in Families |-> sets[f]]
  BY DEF OccupyListed
<1> HIDE DEF sets
<1>8. QED
  BY <1>1, <1>3, <1>6, <1>7 DEF Sets, Taken, sizes
-----------------------------------------------------------------------------
\* The values of node objects, events and workers.
Pods == {NoNode, NoCIDRs} \cup Tuples

Events == [type : {"add", "update", "delete"}, node : Names, cidrs : Pods]

WorkerStates ==
    {Idle} \cup [pc : {"patch"}, item : [node : Names, cidrs : Tuples], tries : Nat]
           \cup [pc : {"requeue", "condition"}, item : Items]

\* Who has CIDRs: node objects, items of the channel, workers and deletions that the
\* handlers have not been called with.
Claim(kind, key, cidrs) == [kind |-> kind, key |-> key, cidrs |-> cidrs]

NodeClaims(nodes) == {Claim("node", n, nodes[n]) : n \in {k \in Names : Has(nodes[k])}}

ItemClaims(q) == {Claim("item", i, q[i].cidrs) : i \in {j \in 1..Len(q) : q[j].cidrs # Nil}}

Holds(s) == s.pc \in {"patch", "requeue"} /\ s.item.cidrs # Nil

WorkerClaims(ws) == {Claim("worker", w, ws[w].item.cidrs) : w \in {v \in Workers : Holds(ws[v])}}

Gives(e) == e.type = "delete" /\ Has(e.cidrs)

EventClaims(q) == {Claim("event", i, q[i].cidrs) : i \in {j \in 1..Len(q) : Gives(q[j])}}

ClaimsOf(nodes, q, ws, ev) == NodeClaims(nodes) \cup ItemClaims(q) \cup WorkerClaims(ws) \cup EventClaims(ev)

\* What is claimed is taken in the bitmaps, and by one only.
Sound(m, C, sets) ==
    /\ \A c \in C : Good(m, c.cidrs) /\ Taken(m, c.cidrs, sets)
    /\ \A c, d \in C : c # d => Apart(m, c.cidrs, d.cidrs)

\* An event with CIDRs is one of a node that has them, or its deletion follows.
EventsBacked(nodes, ev) ==
    \A i \in 1..Len(ev) : (ev[i].type # "delete" /\ Has(ev[i].cidrs)) =>
        \/ nodes[ev[i].node] = ev[i].cidrs
        \/ \E j \in 1..Len(ev) : j > i /\ ev[j].type = "delete" /\ ev[j].cidrs = ev[i].cidrs

IpamTypes ==
    /\ mode \in {"range", "cloud"}
    /\ api \in [Names -> Pods] /\ lister \in [Names -> Pods]
    /\ watch \in Seq(Events) /\ notes \in Seq(Events)
    /\ nodesInProcessing \subseteq Names
    /\ channel \in Seq(Items) /\ worker \in [Workers -> WorkerStates]
    /\ maskSizes \in [Names -> {Nil} \cup CloudMasks]

PermanentStays == \A n \in Permanent : api[n] # NoNode

Claims == ClaimsOf(api, channel, worker, notes \o watch)

\* The inductive invariant.
IpamInv ==
    /\ Calm(mode) /\ IpamTypes /\ PermanentStays /\ Sets(mode, cidrSets)
    /\ Sound(mode, Claims, cidrSets)
    /\ EventsBacked(api, notes \o watch)
    /\ MarkOwned

-----------------------------------------------------------------------------
\* What the steps do to the claims.
LEMMA SoundSubset ==
    ASSUME NEW m, NEW C, NEW sets, Sound(m, C, sets), NEW D \in SUBSET C, NEW new, Grows(sets, new)
    PROVE  Sound(m, D, new)
<1>1. \A c \in D : Good(m, c.cidrs) /\ Taken(m, c.cidrs, new)
  BY DEF Sound, Grows, Taken
<1>2. \A c, d \in D : c # d => Apart(m, c.cidrs, d.cidrs)
  BY DEF Sound
<1>3. QED
  BY <1>1, <1>2 DEF Sound

\* A claim passes from one to another.
LEMMA SoundPassed ==
    ASSUME NEW m, NEW C, NEW sets, Sound(m, C, sets), NEW c \in C, NEW d, d.cidrs = c.cidrs,
           NEW D \in SUBSET ((C \ {c}) \cup {d})
    PROVE  Sound(m, D, sets)
<1>1. \A x \in D : Good(m, x.cidrs) /\ Taken(m, x.cidrs, sets)
  BY DEF Sound
<1>2. ASSUME NEW x \in D, NEW y \in D, x # y
      PROVE  Apart(m, x.cidrs, y.cidrs)
  <2>1. \A a, b \in C : a # b => Apart(m, a.cidrs, b.cidrs)
    BY DEF Sound
  <2>2. CASE x = d
    <3>1. y \in C /\ y # c
      BY <1>2, <2>2
    <3>2. Apart(m, c.cidrs, y.cidrs)
      BY <2>1, <3>1
    <3>3. QED
      BY <2>2, <3>2
  <2>3. CASE y = d
    <3>1. x \in C /\ x # c
      BY <1>2, <2>3
    <3>2. Apart(m, x.cidrs, c.cidrs)
      BY <2>1, <3>1
    <3>3. QED
      BY <2>3, <3>2
  <2>4. CASE x # d /\ y # d
    <3>1. x \in C /\ y \in C
      BY <2>4
    <3>2. QED
      BY <1>2, <2>1, <3>1
  <2>5. QED
    BY <2>2, <2>3, <2>4
<1>3. QED
  BY <1>1, <1>2 DEF Sound

\* A claim on what was free.
LEMMA SoundFresh ==
    ASSUME NEW m, NEW C, NEW sets, Sound(m, C, sets), NEW new, Grows(sets, new),
           NEW d, Good(m, d.cidrs), Free(m, d.cidrs, sets), Taken(m, d.cidrs, new),
           NEW D \in SUBSET (C \cup {d})
    PROVE  Sound(m, D, new)
<1>1. Sound(m, C, new)
  BY SoundSubset
<1>2. \A x \in D : Good(m, x.cidrs) /\ Taken(m, x.cidrs, new)
  BY <1>1 DEF Sound
<1>3. \A x \in C : Apart(m, x.cidrs, d.cidrs) /\ Apart(m, d.cidrs, x.cidrs)
  <2> TAKE x \in C
  <2>1. Taken(m, x.cidrs, sets)
    BY DEF Sound
  <2>2. QED
    BY <2>1 DEF Apart, Taken, Free
<1>4. ASSUME NEW x \in D, NEW y \in D, x # y
      PROVE  Apart(m, x.cidrs, y.cidrs)
  <2>1. CASE x = d
    BY <1>3, <1>4, <2>1
  <2>2. CASE y = d
    BY <1>3, <1>4, <2>2
  <2>3. CASE x # d /\ y # d
    <3>1. x \in C /\ y \in C
      BY <2>3
    <3>2. QED
      BY <1>4, <3>1 DEF Sound
  <2>4. QED
    BY <2>1, <2>2, <2>3
<1>5. QED
  BY <1>2, <1>4 DEF Sound

\* A claim is given up and its CIDRs are released.
LEMMA SoundReleased ==
    ASSUME NEW m \in {"range", "cloud"}, Calm(m), NEW C, NEW sets, Sets(m, sets), Sound(m, C, sets),
           NEW c \in C, NEW D \in SUBSET (C \ {c})
    PROVE  Sound(m, D, ReleaseAll(sets, c.cidrs)) /\ Sets(m, ReleaseAll(sets, c.cidrs))
<1> DEFINE new == ReleaseAll(sets, c.cidrs)
<1>1. /\ Sets(m, new)
      /\ \A f \in Families : new[f].used = sets[f].used \ Bits(m, f, c.cidrs[f])
  BY ReleaseTuple
<1> HIDE DEF new
<1>2. ASSUME NEW x \in D
      PROVE  Good(m, x.cidrs) /\ Taken(m, x.cidrs, new)
  <2>1. x \in C /\ x # c
    BY <1>2
  <2>2. Good(m, x.cidrs) /\ Taken(m, x.cidrs, sets) /\ Apart(m, x.cidrs, c.cidrs)
    BY <2>1 DEF Sound
  <2>3. ASSUME NEW f \in Families
        PROVE  Bits(m, f, x.cidrs[f]) \subseteq new[f].used
    <3>1. /\ Bits(m, f, x.cidrs[f]) \subseteq sets[f].used
          /\ Bits(m, f, x.cidrs[f]) \cap Bits(m, f, c.cidrs[f]) = {}
      BY <2>2 DEF Taken, Apart
    <3>2. QED
      BY <1>1, <3>1
  <2>4. QED
    BY <2>2, <2>3 DEF Taken
<1>3. \A x, y \in D : x # y => Apart(m, x.cidrs, y.cidrs)
  BY DEF Sound
<1>4. QED
  BY <1>1, <1>2, <1>3 DEF Sound, new
\* The same claims under other names.
LEMMA SoundRenamed ==
    ASSUME NEW m, NEW C, NEW sets, Sound(m, C, sets), NEW D, NEW O \in [D -> C],
           \A d \in D : O[d].cidrs = d.cidrs,
           \A d, e \in D : O[d] = O[e] => d = e
    PROVE  Sound(m, D, sets)
<1>1. \A d \in D : O[d] \in C
  OBVIOUS
<1>2. \A d \in D : Good(m, d.cidrs) /\ Taken(m, d.cidrs, sets)
  BY <1>1 DEF Sound
<1>3. ASSUME NEW d \in D, NEW e \in D, d # e
      PROVE  Apart(m, d.cidrs, e.cidrs)
  <2>1. O[d] # O[e] /\ O[d] \in C /\ O[e] \in C
    BY <1>1, <1>3
  <2>2. Apart(m, O[d].cidrs, O[e].cidrs)
    BY <2>1 DEF Sound
  <2>3. QED
    BY <2>2
<1>4. QED
  BY <1>2, <1>3 DEF Sound

LEMMA ClaimFields ==
    /\ \A k, x, t : Claim(k, x, t).kind = k /\ Claim(k, x, t).key = x /\ Claim(k, x, t).cidrs = t
    /\ \A k, x, t, l, y, u : Claim(k, x, t) = Claim(l, y, u) => k = l /\ x = y /\ t = u
<1>1. \A k, x, t : Claim(k, x, t).kind = k /\ Claim(k, x, t).key = x /\ Claim(k, x, t).cidrs = t
  BY DEF Claim
<1>2. \A k, x, t, l, y, u : Claim(k, x, t) = Claim(l, y, u) => k = l /\ x = y /\ t = u
  BY <1>1
<1>3. QED
  BY <1>1, <1>2

\* Membership in each kind of claims.
LEMMA ClaimKinds ==
    ASSUME NEW nodes, NEW q, NEW ws, NEW ev
    PROVE  /\ \A d \in NodeClaims(nodes) : d.kind = "node"
           /\ \A d \in ItemClaims(q) : d.kind = "item"
           /\ \A d \in WorkerClaims(ws) : d.kind = "worker"
           /\ \A d \in EventClaims(ev) : d.kind = "event"
  BY ClaimFields DEF NodeClaims, ItemClaims, WorkerClaims, EventClaims

LEMMA ClaimsNode ==
    ASSUME NEW nodes \in [Names -> Pods], NEW q, NEW ws, NEW ev, NEW n \in Names, NEW t
    PROVE  ClaimsOf([nodes EXCEPT ![n] = t], q, ws, ev) \subseteq
               (ClaimsOf(nodes, q, ws, ev) \ {Claim("node", n, nodes[n])})
               \cup {d \in {Claim("node", n, t)} : Has(t)}
<1> DEFINE new == [nodes EXCEPT ![n] = t]
           c == Claim("node", n, nodes[n])
<1>1. c.kind = "node"
  BY ClaimFields
<1>2. ASSUME NEW d \in NodeClaims(new)
      PROVE  (d \in NodeClaims(nodes) /\ d # c) \/ (d = Claim("node", n, t) /\ Has(t))
  <2>1. PICK k \in Names : Has(new[k]) /\ d = Claim("node", k, new[k])
    BY DEF NodeClaims
  <2>2. CASE k = n
    BY <2>1, <2>2
  <2>3. CASE k # n
    <3>1. new[k] = nodes[k]
      BY <2>3
    <3>2. d \in NodeClaims(nodes)
      BY <2>1, <3>1 DEF NodeClaims
    <3>3. d # c
      BY <2>1, <2>3, ClaimFields
    <3>4. QED
      BY <3>2, <3>3
  <2>4. QED
    BY <2>2, <2>3
<1> HIDE DEF new, c
<1>3. ASSUME NEW d \in ClaimsOf(new, q, ws, ev)
      PROVE  (d \in ClaimsOf(nodes, q, ws, ev) /\ d # c) \/ (d = Claim("node", n, t) /\ Has(t))
  <2>1. CASE d \in NodeClaims(new)
    BY <1>2, <2>1 DEF ClaimsOf
  <2>2. CASE d \notin NodeClaims(new)
    BY <1>1, <1>3, <2>2, ClaimKinds DEF ClaimsOf
  <2>3. QED
    BY <2>1, <2>2
<1>4. QED
  BY <1>3 DEF new, c

LEMMA ClaimsWorker ==
    ASSUME NEW nodes, NEW q, NEW ws \in [Workers -> WorkerStates], NEW ev, NEW w \in Workers, NEW s
    PROVE  ClaimsOf(nodes, q, [ws EXCEPT ![w] = s], ev) \subseteq
               (ClaimsOf(nodes, q, ws, ev) \ {Claim("worker", w, ws[w].item.cidrs)})
               \cup {d \in {Claim("worker", w, s.item.cidrs)} : Holds(s)}
<1> DEFINE new == [ws EXCEPT ![w] = s]
           c == Claim("worker", w, ws[w].item.cidrs)
           u == Claim("worker", w, s.item.cidrs)
<1>1. c.kind = "worker"
  BY ClaimFields
<1>2. ASSUME NEW d \in WorkerClaims(new)
      PROVE  (d \in WorkerClaims(ws) /\ d # c) \/ (d = u /\ Holds(s))
  <2>1. PICK k \in Workers : Holds(new[k]) /\ d = Claim("worker", k, new[k].item.cidrs)
    BY DEF WorkerClaims
  <2>2. CASE k = w
    BY <2>1, <2>2
  <2>3. CASE k # w
    <3>1. new[k] = ws[k]
      BY <2>3
    <3>2. d \in WorkerClaims(ws)
      BY <2>1, <3>1 DEF WorkerClaims
    <3>3. d # c
      BY <2>1, <2>3, ClaimFields
    <3>4. QED
      BY <3>2, <3>3
  <2>4. QED
    BY <2>2, <2>3
<1> HIDE DEF new, c, u
<1>3. ASSUME NEW d \in ClaimsOf(nodes, q, new, ev)
      PROVE  (d \in ClaimsOf(nodes, q, ws, ev) /\ d # c) \/ (d = u /\ Holds(s))
  <2>1. CASE d \in WorkerClaims(new)
    BY <1>2, <2>1 DEF ClaimsOf
  <2>2. CASE d \notin WorkerClaims(new)
    BY <1>1, <1>3, <2>2, ClaimKinds DEF ClaimsOf
  <2>3. QED
    BY <2>1, <2>2
<1>4. QED
  BY <1>3 DEF new, c, u

LEMMA ClaimsSend ==
    ASSUME NEW nodes, NEW q \in Seq(Items), NEW ws, NEW ev, NEW i \in Items
    PROVE  ClaimsOf(nodes, Append(q, i), ws, ev) \subseteq
               ClaimsOf(nodes, q, ws, ev) \cup {d \in {Claim("item", Len(q) + 1, i.cidrs)} : i.cidrs # Nil}
<1> DEFINE new == Append(q, i)
<1>1. /\ Len(q) \in Nat /\ Len(new) = Len(q) + 1 /\ new[Len(q) + 1] = i
      /\ \A k \in 1..Len(q) : new[k] = q[k]
  OBVIOUS
<1> HIDE DEF new
<1>2. ASSUME NEW d \in ItemClaims(new)
      PROVE  d \in ItemClaims(q) \/ (d = Claim("item", Len(q) + 1, i.cidrs) /\ i.cidrs # Nil)
  <2>1. PICK k \in 1..Len(new) : new[k].cidrs # Nil /\ d = Claim("item", k, new[k].cidrs)
    BY DEF ItemClaims
  <2>2. CASE k = Len(q) + 1
    BY <1>1, <2>1, <2>2
  <2>3. CASE k # Len(q) + 1
    <3>1. k \in 1..Len(q) /\ new[k] = q[k]
      BY <1>1, <2>3
    <3>2. QED
      BY <2>1, <3>1 DEF ItemClaims
  <2>4. QED
    BY <2>2, <2>3
<1>3. QED
  BY <1>2 DEF ClaimsOf, new

LEMMA ClaimsEvent ==
    ASSUME NEW nodes, NEW q, NEW ws, NEW ev \in Seq(Events), NEW e \in Events
    PROVE  ClaimsOf(nodes, q, ws, Append(ev, e)) \subseteq
               ClaimsOf(nodes, q, ws, ev) \cup {d \in {Claim("event", Len(ev) + 1, e.cidrs)} : Gives(e)}
<1> DEFINE new == Append(ev, e)
<1>1. /\ Len(ev) \in Nat /\ Len(new) = Len(ev) + 1 /\ new[Len(ev) + 1] = e
      /\ \A k \in 1..Len(ev) : new[k] = ev[k]
  OBVIOUS
<1> HIDE DEF new
<1>2. ASSUME NEW d \in EventClaims(new)
      PROVE  d \in EventClaims(ev) \/ (d = Claim("event", Len(ev) + 1, e.cidrs) /\ Gives(e))
  <2>1. PICK k \in 1..Len(new) : Gives(new[k]) /\ d = Claim("event", k, new[k].cidrs)
    BY DEF EventClaims
  <2>2. CASE k = Len(ev) + 1
    BY <1>1, <2>1, <2>2
  <2>3. CASE k # Len(ev) + 1
    <3>1. k \in 1..Len(ev) /\ new[k] = ev[k]
      BY <1>1, <2>3
    <3>2. QED
      BY <2>1, <3>1 DEF EventClaims
  <2>4. QED
    BY <2>2, <2>3
<1>3. QED
  BY <1>2 DEF ClaimsOf, new

\* The claim of the item at the head of the channel, once it is taken out.
LEMMA SoundTail ==
    ASSUME NEW m, NEW nodes, NEW q \in Seq(Items), q # <<>>, NEW ws, NEW ev, NEW sets,
           Sound(m, ClaimsOf(nodes, q, ws, ev), sets)
    PROVE  /\ Sound(m, ClaimsOf(nodes, Tail(q), ws, ev)
                       \cup {d \in {Claim("item", 0, Head(q).cidrs)} : Head(q).cidrs # Nil}, sets)
           /\ \A t : Claim("item", 0, t) \notin ClaimsOf(nodes, Tail(q), ws, ev)
<1> DEFINE C == ClaimsOf(nodes, q, ws, ev)
           new == Tail(q)
           H == {d \in {Claim("item", 0, Head(q).cidrs)} : Head(q).cidrs # Nil}
           D == ClaimsOf(nodes, new, ws, ev) \cup H
           O == [d \in D |-> IF d.kind = "item" THEN Claim("item", d.key + 1, d.cidrs) ELSE d]
<1>1. /\ Len(q) \in Nat \ {0} /\ Len(new) = Len(q) - 1 /\ Head(q) = q[1]
      /\ \A k \in 1..Len(new) : new[k] = q[k + 1]
  OBVIOUS
<1> HIDE DEF new
<1>2. ASSUME NEW d \in ItemClaims(new)
      PROVE  /\ d.kind = "item" /\ d.key \in Nat \ {0} /\ d = Claim("item", d.key, d.cidrs)
             /\ Claim("item", d.key + 1, d.cidrs) \in ItemClaims(q)
  <2>1. PICK k \in 1..Len(new) : new[k].cidrs # Nil /\ d = Claim("item", k, new[k].cidrs)
    BY DEF ItemClaims
  <2>2. d.kind = "item" /\ d.key = k /\ d.cidrs = new[k].cidrs
    BY <2>1, ClaimFields
  <2>3. k + 1 \in 1..Len(q) /\ q[k + 1].cidrs # Nil /\ new[k] = q[k + 1]
    BY <1>1, <2>1
  <2>4. Claim("item", k + 1, q[k + 1].cidrs) \in ItemClaims(q)
    BY <2>3 DEF ItemClaims
  <2>5. QED
    BY <1>1, <2>1, <2>2, <2>3, <2>4
<1>3. ASSUME NEW d \in H
      PROVE  /\ d.kind = "item" /\ d.key = 0 /\ d = Claim("item", d.key, d.cidrs)
             /\ Claim("item", d.key + 1, d.cidrs) \in ItemClaims(q)
  <2>1. d = Claim("item", 0, q[1].cidrs) /\ q[1].cidrs # Nil
    BY <1>1
  <2>2. d.kind = "item" /\ d.key = 0 /\ d.cidrs = q[1].cidrs
    BY <2>1, ClaimFields
  <2>3. 1 \in 1..Len(q)
    BY <1>1
  <2>4. Claim("item", 1, q[1].cidrs) \in ItemClaims(q)
    BY <2>1, <2>3 DEF ItemClaims
  <2>5. 0 + 1 = 1
    OBVIOUS
  <2>6. QED
    BY <2>1, <2>2, <2>4, <2>5
<1> HIDE DEF H
<1>4. ASSUME NEW d \in D
      PROVE  \/ /\ d.kind = "item" /\ d.key \in Nat /\ d = Claim("item", d.key, d.cidrs)
                /\ Claim("item", d.key + 1, d.cidrs) \in C
             \/ d.kind # "item" /\ d \in C
  <2>1. CASE d \in ItemClaims(new)
    BY <1>2, <2>1 DEF ClaimsOf
  <2>2. CASE d \in H
    BY <1>3, <2>2 DEF ClaimsOf
  <2>3. CASE d \notin ItemClaims(new) /\ d \notin H
    <3>1. d \in NodeClaims(nodes) \/ d \in WorkerClaims(ws) \/ d \in EventClaims(ev)
      BY <1>4, <2>3 DEF ClaimsOf
    <3>2. d.kind # "item"
      BY <3>1, ClaimKinds
    <3>3. QED
      BY <3>1, <3>2 DEF ClaimsOf
  <2>4. QED
    BY <2>1, <2>2, <2>3
<1> HIDE DEF C, D
<1>5. \A d \in D : O[d] = IF d.kind = "item" THEN Claim("item", d.key + 1, d.cidrs) ELSE d
  OBVIOUS
<1>6. O \in [D -> C]
  BY <1>4
<1> HIDE DEF O
<1>7. \A d \in D : O[d].cidrs = d.cidrs
  BY <1>5, ClaimFields
<1>8. ASSUME NEW d \in D, NEW e \in D, O[d] = O[e]
      PROVE  d = e
  <2>1. O[d].kind = d.kind /\ O[e].kind = e.kind
    BY <1>5, ClaimFields
  <2>2. CASE d.kind = "item"
    <3>1. O[d] = Claim("item", d.key + 1, d.cidrs) /\ O[e] = Claim("item", e.key + 1, e.cidrs)
      BY <1>5, <1>8, <2>1, <2>2
    <3>2. d.key + 1 = e.key + 1 /\ d.cidrs = e.cidrs
      <4>1. O[d].key = d.key + 1 /\ O[d].cidrs = d.cidrs
        <5>1. PICK k : k = d.key + 1
          OBVIOUS
        <5>2. O[d].key = k /\ O[d].cidrs = d.cidrs
          BY <3>1, <5>1, ClaimFields
        <5>3. QED
          BY <5>1, <5>2
      <4>2. O[e].key = e.key + 1 /\ O[e].cidrs = e.cidrs
        <5>1. PICK k : k = e.key + 1
          OBVIOUS
        <5>2. O[e].key = k /\ O[e].cidrs = e.cidrs
          BY <3>1, <5>1, ClaimFields
        <5>3. QED
          BY <5>1, <5>2
      <4>3. QED
        BY <1>8, <4>1, <4>2
    <3>3. /\ d.key \in Nat /\ d = Claim("item", d.key, d.cidrs)
          /\ e.key \in Nat /\ e = Claim("item", e.key, e.cidrs)
      BY <1>4, <1>8, <2>1, <2>2
    <3>4. d.key = e.key
      BY <3>2, <3>3
    <3>5. QED
      BY <3>2, <3>3, <3>4
  <2>3. CASE d.kind # "item"
    BY <1>5, <1>8, <2>1, <2>3
  <2>4. QED
    BY <2>2, <2>3
<1>9. Sound(m, D, sets)
  BY <1>6, <1>7, <1>8, SoundRenamed DEF C
<1>10. ASSUME NEW t
       PROVE  Claim("item", 0, t) \notin ClaimsOf(nodes, new, ws, ev)
  <2>1. Claim("item", 0, t).kind = "item" /\ Claim("item", 0, t).key = 0
    BY ClaimFields
  <2>2. Claim("item", 0, t) \notin ItemClaims(new)
    BY <1>2, <2>1
  <2>3. QED
    BY <2>1, <2>2, ClaimKinds DEF ClaimsOf
<1>11. QED
  BY <1>9, <1>10 DEF D, H, new

\* The same for the events.
LEMMA SoundHandled ==
    ASSUME NEW m, NEW nodes, NEW q, NEW ws, NEW ev \in Seq(Events), ev # <<>>, NEW sets,
           Sound(m, ClaimsOf(nodes, q, ws, ev), sets)
    PROVE  /\ Sound(m, ClaimsOf(nodes, q, ws, Tail(ev))
                       \cup {d \in {Claim("event", 0, Head(ev).cidrs)} : Gives(Head(ev))}, sets)
           /\ \A t : Claim("event", 0, t) \notin ClaimsOf(nodes, q, ws, Tail(ev))
<1> DEFINE C == ClaimsOf(nodes, q, ws, ev)
           new == Tail(ev)
           H == {d \in {Claim("event", 0, Head(ev).cidrs)} : Gives(Head(ev))}
           D == ClaimsOf(nodes, q, ws, new) \cup H
           O == [d \in D |-> IF d.kind = "event" THEN Claim("event", d.key + 1, d.cidrs) ELSE d]
<1>1. /\ Len(ev) \in Nat \ {0} /\ Len(new) = Len(ev) - 1 /\ Head(ev) = ev[1]
      /\ \A k \in 1..Len(new) : new[k] = ev[k + 1]
  OBVIOUS
<1> HIDE DEF new
<1>2. ASSUME NEW d \in EventClaims(new)
      PROVE  /\ d.kind = "event" /\ d.key \in Nat \ {0} /\ d = Claim("event", d.key, d.cidrs)
             /\ Claim("event", d.key + 1, d.cidrs) \in EventClaims(ev)
  <2>1. PICK k \in 1..Len(new) : Gives(new[k]) /\ d = Claim("event", k, new[k].cidrs)
    BY DEF EventClaims
  <2>2. d.kind = "event" /\ d.key = k /\ d.cidrs = new[k].cidrs
    BY <2>1, ClaimFields
  <2>3. k + 1 \in 1..Len(ev) /\ Gives(ev[k + 1]) /\ new[k] = ev[k + 1]
    BY <1>1, <2>1
  <2>4. Claim("event", k + 1, ev[k + 1].cidrs) \in EventClaims(ev)
    BY <2>3 DEF EventClaims
  <2>5. QED
    BY <1>1, <2>1, <2>2, <2>3, <2>4
<1>3. ASSUME NEW d \in H
      PROVE  /\ d.kind = "event" /\ d.key = 0 /\ d = Claim("event", d.key, d.cidrs)
             /\ Claim("event", d.key + 1, d.cidrs) \in EventClaims(ev)
  <2>1. d = Claim("event", 0, ev[1].cidrs) /\ Gives(ev[1])
    BY <1>1
  <2>2. d.kind = "event" /\ d.key = 0 /\ d.cidrs = ev[1].cidrs
    BY <2>1, ClaimFields
  <2>3. 1 \in 1..Len(ev)
    BY <1>1
  <2>4. Claim("event", 1, ev[1].cidrs) \in EventClaims(ev)
    BY <2>1, <2>3 DEF EventClaims
  <2>5. 0 + 1 = 1
    OBVIOUS
  <2>6. QED
    BY <2>1, <2>2, <2>4, <2>5
<1> HIDE DEF H
<1>4. ASSUME NEW d \in D
      PROVE  \/ /\ d.kind = "event" /\ d.key \in Nat /\ d = Claim("event", d.key, d.cidrs)
                /\ Claim("event", d.key + 1, d.cidrs) \in C
             \/ d.kind # "event" /\ d \in C
  <2>1. CASE d \in EventClaims(new)
    BY <1>2, <2>1 DEF ClaimsOf
  <2>2. CASE d \in H
    BY <1>3, <2>2 DEF ClaimsOf
  <2>3. CASE d \notin EventClaims(new) /\ d \notin H
    <3>1. d \in NodeClaims(nodes) \/ d \in WorkerClaims(ws) \/ d \in ItemClaims(q)
      BY <1>4, <2>3 DEF ClaimsOf
    <3>2. d.kind # "event"
      BY <3>1, ClaimKinds
    <3>3. QED
      BY <3>1, <3>2 DEF ClaimsOf
  <2>4. QED
    BY <2>1, <2>2, <2>3
<1> HIDE DEF C, D
<1>5. \A d \in D : O[d] = IF d.kind = "event" THEN Claim("event", d.key + 1, d.cidrs) ELSE d
  OBVIOUS
<1>6. O \in [D -> C]
  BY <1>4
<1> HIDE DEF O
<1>7. \A d \in D : O[d].cidrs = d.cidrs
  BY <1>5, ClaimFields
<1>8. ASSUME NEW d \in D, NEW e \in D, O[d] = O[e]
      PROVE  d = e
  <2>1. O[d].kind = d.kind /\ O[e].kind = e.kind
    BY <1>5, ClaimFields
  <2>2. CASE d.kind = "event"
    <3>1. O[d] = Claim("event", d.key + 1, d.cidrs) /\ O[e] = Claim("event", e.key + 1, e.cidrs)
      BY <1>5, <1>8, <2>1, <2>2
    <3>2. d.key + 1 = e.key + 1 /\ d.cidrs = e.cidrs
      <4>1. O[d].key = d.key + 1 /\ O[d].cidrs = d.cidrs
        <5>1. PICK k : k = d.key + 1
          OBVIOUS
        <5>2. O[d].key = k /\ O[d].cidrs = d.cidrs
          BY <3>1, <5>1, ClaimFields
        <5>3. QED
          BY <5>1, <5>2
      <4>2. O[e].key = e.key + 1 /\ O[e].cidrs = e.cidrs
        <5>1. PICK k : k = e.key + 1
          OBVIOUS
        <5>2. O[e].key = k /\ O[e].cidrs = e.cidrs
          BY <3>1, <5>1, ClaimFields
        <5>3. QED
          BY <5>1, <5>2
      <4>3. QED
        BY <1>8, <4>1, <4>2
    <3>3. /\ d.key \in Nat /\ d = Claim("event", d.key, d.cidrs)
          /\ e.key \in Nat /\ e = Claim("event", e.key, e.cidrs)
      BY <1>4, <1>8, <2>1, <2>2
    <3>4. d.key = e.key
      BY <3>2, <3>3
    <3>5. QED
      BY <3>2, <3>3, <3>4
  <2>3. CASE d.kind # "event"
    BY <1>5, <1>8, <2>1, <2>3
  <2>4. QED
    BY <2>2, <2>3
<1>9. Sound(m, D, sets)
  BY <1>6, <1>7, <1>8, SoundRenamed DEF C
<1>10. ASSUME NEW t
       PROVE  Claim("event", 0, t) \notin ClaimsOf(nodes, q, ws, new)
  <2>1. Claim("event", 0, t).kind = "event" /\ Claim("event", 0, t).key = 0
    BY ClaimFields
  <2>2. Claim("event", 0, t) \notin EventClaims(new)
    BY <1>2, <2>1
  <2>3. QED
    BY <2>1, <2>2, ClaimKinds DEF ClaimsOf
<1>11. QED
  BY <1>9, <1>10 DEF D, H, new
-----------------------------------------------------------------------------
LEMMA HasMeans ==
    ASSUME NEW x \in Pods
    PROVE  /\ Has(x) <=> x \in Tuples
           /\ NoNode \notin Tuples /\ NoCIDRs \notin Tuples /\ Nil \notin Tuples
           /\ ~Has(NoNode) /\ ~Has(NoCIDRs)
  BY IpamNilAssumption DEF Pods, Has

\* A change of the node objects together with its event.
LEMMA BackedAppend ==
    ASSUME NEW nodes, NEW ev \in Seq(Events), NEW new, NEW e \in Events,
           EventsBacked(nodes, ev),
           \A n \in Names : Has(nodes[n]) =>
               new[n] = nodes[n] \/ (e.type = "delete" /\ e.cidrs = nodes[n]),
           (e.type # "delete" /\ Has(e.cidrs)) => new[e.node] = e.cidrs
    PROVE  EventsBacked(new, Append(ev, e))
<1> DEFINE s == Append(ev, e)
           l == Len(ev)
<1>1. /\ l \in Nat /\ Len(s) = l + 1 /\ s[l + 1] = e
      /\ \A k \in 1..l : s[k] = ev[k] /\ ev[k] \in Events
  OBVIOUS
<1> HIDE DEF s, l
<1>2. ASSUME NEW i \in 1..Len(s), s[i].type # "delete", Has(s[i].cidrs)
      PROVE  \/ new[s[i].node] = s[i].cidrs
             \/ \E j \in 1..Len(s) : j > i /\ s[j].type = "delete" /\ s[j].cidrs = s[i].cidrs
  <2>1. CASE i = l + 1
    BY <1>1, <1>2, <2>1
  <2>2. CASE i \in 1..l
    <3>1. s[i] = ev[i] /\ ev[i].node \in Names
      BY <1>1, <2>2 DEF Events
    <3>2. \/ nodes[ev[i].node] = ev[i].cidrs
          \/ \E j \in 1..l : j > i /\ ev[j].type = "delete" /\ ev[j].cidrs = ev[i].cidrs
      BY <1>2, <2>2, <3>1 DEF EventsBacked, l
    <3>3. CASE nodes[ev[i].node] = ev[i].cidrs
      <4>1. new[s[i].node] = s[i].cidrs \/ (e.type = "delete" /\ e.cidrs = s[i].cidrs)
        BY <1>2, <3>1, <3>3
      <4>2. l + 1 \in 1..Len(s) /\ l + 1 > i
        BY <1>1, <2>2
      <4>3. QED
        BY <1>1, <4>1, <4>2
    <3>4. CASE \E j \in 1..l : j > i /\ ev[j].type = "delete" /\ ev[j].cidrs = ev[i].cidrs
      <4>1. PICK j \in 1..l : j > i /\ ev[j].type = "delete" /\ ev[j].cidrs = ev[i].cidrs
        BY <3>4
      <4>2. j \in 1..Len(s) /\ s[j] = ev[j]
        BY <1>1, <4>1
      <4>3. QED
        BY <3>1, <4>1, <4>2
    <3>5. QED
      BY <3>2, <3>3, <3>4
  <2>3. QED
    BY <1>1, <2>1, <2>2
<1>3. QED
  BY <1>2 DEF EventsBacked, s

LEMMA BackedTail ==
    ASSUME NEW nodes, NEW ev \in Seq(Events), EventsBacked(nodes, ev), ev # <<>>
    PROVE  EventsBacked(nodes, Tail(ev))
<1> DEFINE s == Tail(ev)
<1>1. /\ Len(ev) \in Nat \ {0} /\ Len(s) = Len(ev) - 1
      /\ \A k \in 1..Len(s) : s[k] = ev[k + 1]
  OBVIOUS
<1> HIDE DEF s
<1>2. ASSUME NEW i \in 1..Len(s), s[i].type # "delete", Has(s[i].cidrs)
      PROVE  \/ nodes[s[i].node] = s[i].cidrs
             \/ \E j \in 1..Len(s) : j > i /\ s[j].type = "delete" /\ s[j].cidrs = s[i].cidrs
  <2>1. i + 1 \in 1..Len(ev) /\ s[i] = ev[i + 1]
    BY <1>1
  <2>2. \/ nodes[ev[i + 1].node] = ev[i + 1].cidrs
        \/ \E j \in 1..Len(ev) : j > i + 1 /\ ev[j].type = "delete" /\ ev[j].cidrs = ev[i + 1].cidrs
    BY <1>2, <2>1 DEF EventsBacked
  <2>3. ASSUME NEW j \in 1..Len(ev), j > i + 1, ev[j].type = "delete", ev[j].cidrs = ev[i + 1].cidrs
        PROVE  \E k \in 1..Len(s) : k > i /\ s[k].type = "delete" /\ s[k].cidrs = s[i].cidrs
    <3>1. j - 1 \in 1..Len(s) /\ j - 1 > i /\ s[j - 1] = ev[(j - 1) + 1] /\ (j - 1) + 1 = j
      BY <1>1, <2>3
    <3>2. QED
      BY <2>1, <2>3, <3>1
  <2>4. QED
    BY <2>1, <2>2, <2>3
<1>3. QED
  BY <1>2 DEF EventsBacked, s

\* The events on their way, first those of the handlers.
LEMMA OnTheirWay ==
    ASSUME NEW p \in Seq(Events), NEW w \in Seq(Events)
    PROVE  /\ p \o w \in Seq(Events)
           /\ \A e \in Events : p \o Append(w, e) = Append(p \o w, e)
           /\ w # <<>> => /\ Append(p, Head(w)) \o Tail(w) = p \o w
                          /\ Head(w) \in Events /\ Tail(w) \in Seq(Events)
           /\ p # <<>> => /\ Tail(p) \o w = Tail(p \o w) /\ Head(p \o w) = Head(p) /\ p \o w # <<>>
                          /\ Head(p) \in Events /\ Tail(p) \in Seq(Events)
<1>1. p \o w \in Seq(Events) /\ Len(p \o w) = Len(p) + Len(w)
  OBVIOUS
<1>2. \A e \in Events : p \o Append(w, e) = Append(p \o w, e)
  OBVIOUS
<1>3. ASSUME w # <<>>
      PROVE  Append(p, Head(w)) \o Tail(w) = p \o w /\ Head(w) \in Events /\ Tail(w) \in Seq(Events)
  BY <1>3
<1>4. ASSUME p # <<>>
      PROVE  /\ Tail(p) \o w = Tail(p \o w) /\ Head(p \o w) = Head(p) /\ p \o w # <<>>
             /\ Head(p) \in Events /\ Tail(p) \in Seq(Events)
  BY <1>4
<1>5. QED
  BY <1>1, <1>2, <1>3, <1>4

\* The informer's first list.
LEMMA FirstListFacts ==
    ASSUME NEW nodes \in [Names -> Pods], NEW s \in FirstList(nodes)
    PROVE  /\ s \in Seq(Events) /\ s \o <<>> = s
           /\ EventsBacked(nodes, s) /\ EventClaims(s) = {}
<1> DEFINE present == {n \in Names : nodes[n] # NoNode}
           k == Cardinality(present)
<1>1. k \in Nat
  <2>1. IsFiniteSet(present)
    BY IpamAssumption, FS_Subset
  <2>2. QED
    BY <2>1, FS_CardinalityType
<1>2. PICK p \in [1..k -> present] : s = [i \in DOMAIN p |-> Event("add", p[i], nodes[p[i]])]
  BY DEF FirstList, SetToSeqs
<1> HIDE DEF k
<1>3. /\ DOMAIN s = 1..k
      /\ \A i \in 1..k : s[i] = Event("add", p[i], nodes[p[i]]) /\ p[i] \in Names
  BY <1>2
<1>4. \A i \in 1..k : /\ s[i] \in Events /\ s[i].type = "add"
                      /\ s[i].cidrs = nodes[s[i].node]
  BY <1>3 DEF Event, Events
<1>5. s = [i \in 1..k |-> s[i]]
  BY <1>2, <1>3
<1>6. s \in Seq(Events) /\ Len(s) = k
  BY <1>1, <1>4, <1>5
<1>7. s \o <<>> = s
  BY <1>6
<1>8. QED
  BY <1>4, <1>6, <1>7 DEF EventsBacked, EventClaims, Gives
-----------------------------------------------------------------------------
\* Bitmaps without a change.
LEMMA GrowsItself ==
    ASSUME NEW sets
    PROVE  Grows(sets, sets)
  BY DEF Grows

\* A step of the API server: the node object n changes and the event e of it.
LEMMA StepOfApi ==
    ASSUME IpamInv, NEW n \in Names, NEW t \in Pods, NEW e \in Events,
           api' = [api EXCEPT ![n] = t], watch' = Append(watch, e),
           UNCHANGED <<allocatorVars, lister, notes>>,
           n \in Permanent => t # NoNode,
           Has(t) => t = api[n],
           Has(api[n]) => t = api[n] \/ (e.type = "delete" /\ e.cidrs = api[n]),
           Gives(e) => e.cidrs = api[n] /\ ~Has(t),
           (e.type # "delete" /\ Has(e.cidrs)) => api'[e.node] = e.cidrs
    PROVE  IpamInv'
<1> DEFINE ev == notes \o watch
           new == [api EXCEPT ![n] = t]
           C == ClaimsOf(api, channel, worker, ev)
           D == ClaimsOf(new, channel, worker, Append(ev, e))
<1>1. /\ mode' = mode /\ cidrSets' = cidrSets /\ nodesInProcessing' = nodesInProcessing
      /\ channel' = channel /\ worker' = worker /\ maskSizes' = maskSizes
      /\ lister' = lister /\ notes' = notes
  BY DEF allocatorVars
<1>2. api \in [Names -> Pods] /\ watch \in Seq(Events) /\ notes \in Seq(Events)
  BY DEF IpamInv, IpamTypes
<1>3. ev \in Seq(Events) /\ notes' \o watch' = Append(ev, e)
  BY <1>1, <1>2, OnTheirWay
<1>4. api' \in [Names -> Pods] /\ watch' \in Seq(Events)
  BY <1>2
<1>5. IpamTypes'
  BY <1>1, <1>4 DEF IpamInv, IpamTypes
<1>6. PermanentStays'
  BY <1>2 DEF IpamInv, PermanentStays
<1>7. EventsBacked(api', Append(ev, e))
  <2>1. \A k \in Names : Has(api[k]) => api'[k] = api[k] \/ (e.type = "delete" /\ e.cidrs = api[k])
    BY <1>2
  <2>2. EventsBacked(api, ev)
    BY DEF IpamInv
  <2> HIDE DEF ev
  <2>3. QED
    BY <1>3, <2>1, <2>2, BackedAppend
<1>8. Sound(mode, D, cidrSets)
  <2>1. Sound(mode, C, cidrSets)
    BY DEF IpamInv, Claims
  <2> DEFINE c == Claim("node", n, api[n])
             d == Claim("event", Len(ev) + 1, e.cidrs)
             M == ClaimsOf(new, channel, worker, ev)
  <2>2. M \subseteq (C \ {c}) \cup {x \in {Claim("node", n, t)} : Has(t)}
    BY <1>2, ClaimsNode
  <2>3. D \subseteq M \cup {x \in {d} : Gives(e)}
    BY <1>3, ClaimsEvent
  <2>4. Has(api[n]) => c \in C
    BY DEF ClaimsOf, NodeClaims
  <2>5. d.cidrs = e.cidrs /\ c.cidrs = api[n]
    BY ClaimFields
  <2>6. Claim("node", n, t) = c \/ ~Has(t)
    BY DEF Claim
  <2> HIDE DEF C, D, M, c, d
  <2>7. CASE Gives(e)
    <3>1. Has(api[n]) /\ ~Has(t)
      BY <2>7 DEF Gives
    <3>2. D \in SUBSET ((C \ {c}) \cup {d})
      BY <2>2, <2>3, <3>1
    <3>3. d.cidrs = c.cidrs
      BY <2>5, <2>7
    <3>4. QED
      BY <2>1, <2>4, <3>1, <3>2, <3>3, SoundPassed
  <2>8. CASE ~Gives(e)
    <3>1. Has(t) => c \in C
      BY <2>4
    <3>2. D \in SUBSET C
      BY <2>2, <2>3, <2>6, <2>8, <3>1
    <3>3. QED
      BY <2>1, <3>2, SoundSubset, GrowsItself
  <2>9. QED
    BY <2>7, <2>8
<1>9. Sound(mode, Claims, cidrSets)'
  BY <1>1, <1>3, <1>8 DEF Claims
<1>10. Sets(mode, cidrSets)' /\ MarkOwned'
  BY <1>1 DEF IpamInv, MarkOwned
<1>11. QED
  BY <1>1, <1>3, <1>5, <1>6, <1>7, <1>9, <1>10 DEF IpamInv

LEMMA CreateNodeKeeps ==
    ASSUME IpamInv, NEW n \in Names, CreateNode(n)
    PROVE  IpamInv'
<1> DEFINE e == Event("add", n, NoCIDRs)
<1>1. /\ api' = [api EXCEPT ![n] = NoCIDRs] /\ watch' = Append(watch, e)
      /\ UNCHANGED <<allocatorVars, lister, notes>> /\ api[n] = NoNode
  BY DEF CreateNode
<1>2. NoCIDRs \in Pods /\ ~Has(NoCIDRs) /\ ~Has(NoNode) /\ NoCIDRs # NoNode
  BY IpamNilAssumption DEF Pods, Has
<1>3. e \in Events /\ e.type = "add" /\ e.cidrs = NoCIDRs
  BY <1>2 DEF Event, Events
<1> HIDE DEF e
<1>4. QED
  BY <1>1, <1>2, <1>3, StepOfApi DEF Gives

LEMMA DeleteNodeKeeps ==
    ASSUME IpamInv, NEW n \in Names, DeleteNode(n)
    PROVE  IpamInv'
<1> DEFINE e == Event("delete", n, api[n])
<1>1. /\ api' = [api EXCEPT ![n] = NoNode] /\ watch' = Append(watch, e)
      /\ UNCHANGED <<allocatorVars, lister, notes>> /\ n \notin Permanent
  BY DEF DeleteNode
<1>2. NoNode \in Pods /\ ~Has(NoNode) /\ api[n] \in Pods
  BY DEF Pods, Has, IpamInv, IpamTypes
<1>3. e \in Events /\ e.type = "delete" /\ e.cidrs = api[n]
  BY <1>2 DEF Event, Events
<1> HIDE DEF e
<1>4. QED
  BY <1>1, <1>2, <1>3, StepOfApi DEF Gives

LEMMA HeartbeatKeeps ==
    ASSUME IpamInv, NEW n \in Names, Heartbeat(n)
    PROVE  IpamInv'
<1> DEFINE e == Event("update", n, api[n])
<1>1. /\ api' = api /\ watch' = Append(watch, e)
      /\ UNCHANGED <<allocatorVars, lister, notes>> /\ api[n] = NoCIDRs
  BY DEF Heartbeat
<1>2. NoCIDRs \in Pods /\ ~Has(NoCIDRs) /\ NoCIDRs # NoNode
  BY IpamNilAssumption DEF Pods, Has
<1>3. e \in Events /\ e.type = "update" /\ e.cidrs = NoCIDRs
  BY <1>1, <1>2 DEF Event, Events
<1>4. api' = [api EXCEPT ![n] = NoCIDRs]
  BY <1>1 DEF IpamInv, IpamTypes
<1> HIDE DEF e
<1>5. QED
  BY <1>1, <1>2, <1>3, <1>4, StepOfApi DEF Gives

LEMMA SyncKeeps ==
    ASSUME IpamInv, Sync
    PROVE  IpamInv'
<1> DEFINE e == Head(watch)
<1>1. /\ watch # <<>> /\ watch' = Tail(watch) /\ notes' = Append(notes, e)
      /\ lister' = [lister EXCEPT ![e.node] = IF e.type = "delete" THEN NoNode ELSE e.cidrs]
      /\ mode' = mode /\ cidrSets' = cidrSets /\ nodesInProcessing' = nodesInProcessing
      /\ channel' = channel /\ worker' = worker /\ maskSizes' = maskSizes /\ api' = api
  BY DEF Sync, allocatorVars
<1>2. watch \in Seq(Events) /\ notes \in Seq(Events) /\ lister \in [Names -> Pods]
  BY DEF IpamInv, IpamTypes
<1>3. notes' \o watch' = notes \o watch /\ e \in Events /\ Tail(watch) \in Seq(Events)
  BY <1>1, <1>2, OnTheirWay
<1> HIDE DEF e
<1>4. e.node \in Names /\ e.cidrs \in Pods /\ NoNode \in Pods
  BY <1>3 DEF Events, Pods
<1>5. lister' \in [Names -> Pods] /\ watch' \in Seq(Events) /\ notes' \in Seq(Events)
  BY <1>1, <1>2, <1>3, <1>4
<1>6. IpamTypes'
  BY <1>1, <1>5 DEF IpamInv, IpamTypes
<1>7. QED
  BY <1>1, <1>3, <1>6 DEF IpamInv, PermanentStays, Claims, MarkOwned

LEMMA RestartKeeps ==
    ASSUME IpamInv, Restart
    PROVE  IpamInv'
<1>1. /\ lister' = api /\ watch' = <<>> /\ notes' \in FirstList(api) /\ maskSizes' = Listed(api)
      /\ cidrSets' = Started(mode, api, Listed(api))
      /\ nodesInProcessing' = {} /\ channel' = <<>> /\ worker' = [w \in Workers |-> Idle]
      /\ mode' = mode /\ api' = api
  BY DEF Restart
<1>2. api \in [Names -> Pods] /\ mode \in {"range", "cloud"} /\ Calm(mode) /\ PermanentStays
  BY DEF IpamInv, IpamTypes
<1>3. \A n \in Names : Has(api[n]) => Claim("node", n, api[n]) \in Claims
  BY DEF Claims, ClaimsOf, NodeClaims
<1>4. \A n \in Names : Has(api[n]) => Good(mode, api[n])
  BY <1>3, ClaimFields DEF IpamInv, Sound
<1>5. /\ Sets(mode, cidrSets') /\ maskSizes' \in [Names -> {Nil} \cup CloudMasks]
      /\ \A n \in Names : Has(api[n]) => Taken(mode, api[n], cidrSets')
  BY <1>1, <1>2, <1>4, StartedSets DEF Pods, PermanentStays
<1>6. /\ notes' \in Seq(Events) /\ notes' \o watch' = notes'
      /\ EventsBacked(api, notes') /\ EventClaims(notes') = {}
  BY <1>1, <1>2, FirstListFacts
<1>7. watch' \in Seq(Events) /\ channel' \in Seq(Items) /\ worker' \in [Workers -> WorkerStates]
  BY <1>1 DEF WorkerStates
<1>8. IpamTypes'
  BY <1>1, <1>2, <1>5, <1>6, <1>7 DEF IpamTypes
<1>9. Claims' = NodeClaims(api)
  <2>1. ItemClaims(<<>>) = {}
    BY DEF ItemClaims
  <2>2. WorkerClaims(worker') = {}
    BY <1>1 DEF WorkerClaims, Holds, Idle
  <2>3. QED
    BY <1>1, <1>6, <2>1, <2>2 DEF Claims, ClaimsOf
<1>10. Sound(mode, Claims', cidrSets')
  <2>1. NodeClaims(api) \subseteq Claims
    BY DEF Claims, ClaimsOf
  <2>2. \A c \in NodeClaims(api) : Good(mode, c.cidrs) /\ Taken(mode, c.cidrs, cidrSets')
    BY <1>4, <1>5, ClaimFields DEF NodeClaims
  <2>3. \A c, d \in NodeClaims(api) : c # d => Apart(mode, c.cidrs, d.cidrs)
    BY <2>1 DEF IpamInv, Sound
  <2>4. QED
    BY <1>9, <2>2, <2>3 DEF Sound
<1>11. QED
  BY <1>1, <1>2, <1>5, <1>6, <1>8, <1>10 DEF IpamInv, PermanentStays, MarkOwned

LEMMA IpamStarts ==
    ASSUME Calm(mode), IInit
    PROVE  IpamInv
<1>1. /\ mode \in {"range", "cloud"}
      /\ api = [n \in Names |-> IF n \in Permanent THEN NoCIDRs ELSE NoNode]
      /\ lister = api /\ watch = <<>> /\ notes \in FirstList(api) /\ maskSizes = Listed(api)
      /\ cidrSets = Started(mode, api, Listed(api))
      /\ nodesInProcessing = {} /\ channel = <<>> /\ worker = [w \in Workers |-> Idle]
  BY DEF IInit
<1>2. api \in [Names -> Pods] /\ PermanentStays /\ \A n \in Names : ~Has(api[n])
  BY <1>1, IpamAssumption, IpamNilAssumption DEF PermanentStays, Pods, Has
<1>3. Sets(mode, cidrSets) /\ maskSizes \in [Names -> {Nil} \cup CloudMasks]
  BY <1>1, <1>2, StartedSets DEF Pods, PermanentStays
<1>4. /\ notes \in Seq(Events) /\ notes \o watch = notes
      /\ EventsBacked(api, notes) /\ EventClaims(notes) = {}
  BY <1>1, <1>2, FirstListFacts
<1>5. watch \in Seq(Events) /\ channel \in Seq(Items) /\ worker \in [Workers -> WorkerStates]
  BY <1>1 DEF WorkerStates
<1>6. IpamTypes
  BY <1>1, <1>2, <1>3, <1>4, <1>5 DEF IpamTypes
<1>7. Claims = {}
  <2>1. ItemClaims(<<>>) = {} /\ NodeClaims(api) = {}
    BY <1>2 DEF ItemClaims, NodeClaims
  <2>2. WorkerClaims(worker) = {}
    BY <1>1 DEF WorkerClaims, Holds, Idle
  <2>3. QED
    BY <1>1, <1>4, <2>1, <2>2 DEF Claims, ClaimsOf
<1>8. QED
  BY <1>1, <1>2, <1>3, <1>4, <1>6, <1>7 DEF IpamInv, Sound, MarkOwned
-----------------------------------------------------------------------------
\* What the handlers find, and what is left of the event they are called with.
LEMMA Handled ==
    ASSUME IpamInv, notes # <<>>, notes' = Tail(notes), UNCHANGED <<mode, api, lister, watch, worker>>
    PROVE  /\ Head(notes) \in Events /\ notes' \in Seq(Events)
           /\ notes' \o watch' = Tail(notes \o watch)
           /\ EventsBacked(api', notes' \o watch') /\ PermanentStays'
           /\ Sound(mode, ClaimsOf(api, channel, worker, Tail(notes \o watch))
                          \cup {d \in {Claim("event", 0, Head(notes).cidrs)} : Gives(Head(notes))}, cidrSets)
           /\ \A t : Claim("event", 0, t) \notin ClaimsOf(api, channel, worker, Tail(notes \o watch))
           /\ (Head(notes).type # "delete" /\ Has(Head(notes).cidrs)) =>
                  Taken(mode, Head(notes).cidrs, cidrSets)
<1> DEFINE ev == notes \o watch
           e == Head(notes)
<1>1. watch \in Seq(Events) /\ notes \in Seq(Events)
  BY DEF IpamInv, IpamTypes
<1>2. /\ ev \in Seq(Events) /\ Tail(notes) \o watch = Tail(ev) /\ Head(ev) = e /\ ev # <<>>
      /\ e \in Events /\ Tail(notes) \in Seq(Events)
  BY <1>1, OnTheirWay
<1>3. EventsBacked(api, ev) /\ Sound(mode, ClaimsOf(api, channel, worker, ev), cidrSets)
  BY DEF IpamInv, Claims
<1> HIDE DEF ev
<1>4. EventsBacked(api, Tail(ev))
  BY <1>2, <1>3, BackedTail
<1>5. /\ Sound(mode, ClaimsOf(api, channel, worker, Tail(ev))
                     \cup {d \in {Claim("event", 0, Head(ev).cidrs)} : Gives(Head(ev))}, cidrSets)
      /\ \A t : Claim("event", 0, t) \notin ClaimsOf(api, channel, worker, Tail(ev))
  BY <1>2, <1>3, SoundHandled
<1>6. ASSUME e.type # "delete", Has(e.cidrs)
      PROVE  Taken(mode, e.cidrs, cidrSets)
  <2>1. e = ev[1] /\ 1 \in 1..Len(ev) /\ e.node \in Names
    BY <1>2 DEF Events
  <2>2. \/ api[e.node] = e.cidrs
        \/ \E j \in 1..Len(ev) : ev[j].type = "delete" /\ ev[j].cidrs = e.cidrs
    BY <1>3, <1>6, <2>1 DEF EventsBacked
  <2>3. \E c \in ClaimsOf(api, channel, worker, ev) : c.cidrs = e.cidrs
    <3>1. CASE api[e.node] = e.cidrs
      <4>1. Claim("node", e.node, api[e.node]) \in NodeClaims(api)
        BY <1>6, <2>1, <3>1 DEF NodeClaims
      <4>2. QED
        BY <3>1, <4>1, ClaimFields DEF ClaimsOf
    <3>2. CASE \E j \in 1..Len(ev) : ev[j].type = "delete" /\ ev[j].cidrs = e.cidrs
      <4>1. PICK j \in 1..Len(ev) : ev[j].type = "delete" /\ ev[j].cidrs = e.cidrs
        BY <3>2
      <4>2. Claim("event", j, ev[j].cidrs) \in EventClaims(ev)
        BY <1>6, <4>1 DEF EventClaims, Gives
      <4>3. QED
        BY <4>1, <4>2, ClaimFields DEF ClaimsOf
    <3>3. QED
      BY <2>2, <3>1, <3>2
  <2>4. QED
    BY <1>3, <2>3 DEF Sound
<1>7. PermanentStays'
  BY DEF IpamInv, PermanentStays
<1>8. QED
  BY <1>2, <1>4, <1>5, <1>6, <1>7 DEF ev

\* Nothing is sent: bitmaps may have lost blocks to a failed allocation.
LEMMA HandledSame ==
    ASSUME IpamInv, notes # <<>>, notes' = Tail(notes), UNCHANGED <<mode, api, lister, watch, worker>>,
           channel' = channel, nodesInProcessing' = nodesInProcessing,
           maskSizes' \in [Names -> {Nil} \cup CloudMasks],
           Sets(mode, cidrSets'), Grows(cidrSets, cidrSets')
    PROVE  IpamInv'
<1> DEFINE ev == notes \o watch
           D == ClaimsOf(api, channel, worker, Tail(ev))
           H == {d \in {Claim("event", 0, Head(notes).cidrs)} : Gives(Head(notes))}
<1>1. /\ notes' \in Seq(Events) /\ notes' \o watch' = Tail(ev)
      /\ EventsBacked(api', notes' \o watch') /\ PermanentStays'
      /\ Sound(mode, D \cup H, cidrSets)
  BY Handled
<1>2. IpamTypes'
  BY <1>1 DEF IpamInv, IpamTypes
<1>3. Claims' = D
  BY <1>1 DEF Claims
<1> HIDE DEF D, H
<1>4. Sound(mode, D, cidrSets')
  <2>1. D \in SUBSET (D \cup H)
    OBVIOUS
  <2>2. QED
    BY <1>1, <2>1, SoundSubset
<1>5. MarkOwned'
  BY DEF IpamInv, MarkOwned
<1>6. QED
  BY <1>1, <1>2, <1>3, <1>4, <1>5 DEF IpamInv

\* CIDRs are reserved for node n and sent to the workers.
LEMMA HandledAllocated ==
    ASSUME IpamInv, notes # <<>>, notes' = Tail(notes), UNCHANGED <<mode, api, lister, watch, worker>>,
           NEW n \in Names, NEW t, Good(mode, t), Free(mode, t, cidrSets), Taken(mode, t, cidrSets'),
           Send(n, t), nodesInProcessing' = nodesInProcessing \cup {n},
           maskSizes' \in [Names -> {Nil} \cup CloudMasks],
           Sets(mode, cidrSets'), Grows(cidrSets, cidrSets')
    PROVE  IpamInv'
<1> DEFINE ev == notes \o watch
           C == ClaimsOf(api, channel, worker, Tail(ev))
           H == {d \in {Claim("event", 0, Head(notes).cidrs)} : Gives(Head(notes))}
           i == [node |-> n, cidrs |-> t]
           d == Claim("item", Len(channel) + 1, t)
           D == ClaimsOf(api, Append(channel, i), worker, Tail(ev))
<1>1. /\ notes' \in Seq(Events) /\ notes' \o watch' = Tail(ev)
      /\ EventsBacked(api', notes' \o watch') /\ PermanentStays'
      /\ Sound(mode, C \cup H, cidrSets)
  BY Handled
<1>2. channel \in Seq(Items) /\ i \in Items /\ channel' = Append(channel, i) /\ i.cidrs = t /\ i.node = n
  BY DEF IpamInv, IpamTypes, Items, Good, Send
<1>3. channel' \in Seq(Items) /\ nodesInProcessing' \subseteq Names
  BY <1>2 DEF IpamInv, IpamTypes
<1>4. IpamTypes'
  BY <1>1, <1>3 DEF IpamInv, IpamTypes
<1>5. Claims' = D
  BY <1>1, <1>2 DEF Claims
<1>6. D \subseteq C \cup {x \in {Claim("item", Len(channel) + 1, i.cidrs)} : i.cidrs # Nil}
  BY <1>2, ClaimsSend
<1>7. D \in SUBSET ((C \cup H) \cup {d}) /\ d.cidrs = t
  BY <1>2, <1>6, ClaimFields
<1> HIDE DEF C, H, D, d, i
<1>8. Sound(mode, D, cidrSets')
  BY <1>1, <1>7, SoundFresh
<1>9. MarkOwned'
  <2>1. \A x \in Range(channel) : x \in Range(channel')
    <3>1. Len(channel) \in Nat /\ \A k \in DOMAIN channel : k \in DOMAIN channel' /\ channel'[k] = channel[k]
      BY <1>2
    <3>2. QED
      BY <3>1 DEF Range
  <2>2. i \in Range(channel')
    <3>1. Len(channel) + 1 \in DOMAIN channel' /\ channel'[Len(channel) + 1] = i
      BY <1>2
    <3>2. QED
      BY <3>1 DEF Range
  <2>3. QED
    BY <1>2, <2>1, <2>2 DEF IpamInv, MarkOwned
<1>10. QED
  BY <1>1, <1>4, <1>5, <1>8, <1>9 DEF IpamInv

\* A node with CIDRs is gone.
LEMMA HandledReleased ==
    ASSUME IpamInv, notes # <<>>, notes' = Tail(notes), UNCHANGED <<mode, api, lister, watch, worker>>,
           Gives(Head(notes)), cidrSets' = ReleaseAll(cidrSets, Head(notes).cidrs),
           UNCHANGED <<channel, nodesInProcessing, maskSizes>>
    PROVE  IpamInv'
<1> DEFINE ev == notes \o watch
           D == ClaimsOf(api, channel, worker, Tail(ev))
           c == Claim("event", 0, Head(notes).cidrs)
           C == D \cup {d \in {c} : Gives(Head(notes))}
<1>1. /\ notes' \in Seq(Events) /\ notes' \o watch' = Tail(ev)
      /\ EventsBacked(api', notes' \o watch') /\ PermanentStays'
      /\ Sound(mode, C, cidrSets) /\ c \notin D
  BY Handled
<1>2. IpamTypes' /\ mode \in {"range", "cloud"} /\ Calm(mode) /\ Sets(mode, cidrSets)
  BY <1>1 DEF IpamInv, IpamTypes
<1>3. Claims' = D
  BY <1>1 DEF Claims
<1>4. c \in C /\ D \in SUBSET (C \ {c})
  BY <1>1
<1>5. c.cidrs = Head(notes).cidrs
  BY ClaimFields
<1> HIDE DEF D, C, c
<1>6. Sound(mode, D, cidrSets') /\ Sets(mode, cidrSets')
  BY <1>1, <1>2, <1>4, <1>5, SoundReleased
<1>7. MarkOwned'
  BY DEF IpamInv, MarkOwned
<1>8. QED
  BY <1>1, <1>2, <1>3, <1>6, <1>7 DEF IpamInv
LEMMA RangeHandlerKeeps ==
    ASSUME IpamInv, notes # <<>>, notes' = Tail(notes), UNCHANGED <<mode, api, lister, watch, worker>>,
           Head(notes).type # "delete", RangeAllocateOrOccupy(Head(notes))
    PROVE  IpamInv'
<1> DEFINE e == Head(notes)
<1>1. /\ Calm(mode) /\ mode \in {"range", "cloud"} /\ Sets(mode, cidrSets)
      /\ maskSizes \in [Names -> {Nil} \cup CloudMasks]
  BY DEF IpamInv, IpamTypes
<1>2. /\ maskSizes' = maskSizes
      /\ IF e.node \in nodesInProcessing THEN UNCHANGED <<channel, nodesInProcessing, cidrSets>>
         ELSE IF Has(e.cidrs)
         THEN cidrSets' = occupyCIDRs(cidrSets, e.cidrs) /\ UNCHANGED <<channel, nodesInProcessing>>
         ELSE AllocateRange(e)
  BY DEF RangeAllocateOrOccupy
<1>3. e \in Events /\ (Has(e.cidrs) => Taken(mode, e.cidrs, cidrSets))
  BY Handled
<1>4. CASE e.node \in nodesInProcessing
  BY <1>1, <1>2, <1>4, HandledSame, GrowsItself
<1>5. CASE e.node \notin nodesInProcessing /\ Has(e.cidrs)
  <2>1. cidrSets' = cidrSets
    BY <1>1, <1>2, <1>3, <1>5, OccupyTaken
  <2>2. QED
    BY <1>1, <1>2, <1>5, <2>1, HandledSame, GrowsItself
<1>6. CASE e.node \notin nodesInProcessing /\ ~Has(e.cidrs)
  <2>1. AllocateRange(e)
    BY <1>2, <1>6
  <2>2. cidrSets' = AllocateFamilies(cidrSets)
    BY <2>1 DEF AllocateRange
  <2>3. Sets(mode, cidrSets') /\ Grows(cidrSets, cidrSets')
    BY <1>1, <2>2, RangeAllocation
  <2>4. CASE CanAllocate(cidrSets)
    <3> DEFINE t == allocatePodCIDRs(cidrSets)
    <3>1. Send(e.node, t) /\ nodesInProcessing' = nodesInProcessing \cup {e.node} /\ e.node \in Names
      BY <1>3, <2>1, <2>4 DEF AllocateRange, Events
    <3>2. Good(mode, t) /\ Free(mode, t, cidrSets) /\ Taken(mode, t, cidrSets')
      BY <1>1, <2>2, <2>4, RangeAllocation
    <3> HIDE DEF t, e
    <3>3. QED
      BY <1>1, <1>2, <2>3, <3>1, <3>2, HandledAllocated
  <2>5. CASE ~CanAllocate(cidrSets)
    <3>1. UNCHANGED <<channel, nodesInProcessing>>
      BY <2>1, <2>5 DEF AllocateRange
    <3>2. QED
      BY <1>1, <1>2, <2>3, <3>1, HandledSame
  <2>6. QED
    BY <2>4, <2>5
<1>7. QED
  BY <1>4, <1>5, <1>6

LEMMA CloudHandlerKeeps ==
    ASSUME IpamInv, notes # <<>>, notes' = Tail(notes), UNCHANGED <<mode, api, lister, watch, worker>>,
           mode = "cloud", Head(notes).type # "delete", CloudAllocateOrOccupy(Head(notes))
    PROVE  IpamInv'
<1> DEFINE e == Head(notes)
<1>1. /\ Calm(mode) /\ mode \in {"range", "cloud"} /\ Sets(mode, cidrSets)
      /\ maskSizes \in [Names -> {Nil} \cup CloudMasks]
  BY DEF IpamInv, IpamTypes
<1>2. e \in Events /\ e.node \in Names /\ (Has(e.cidrs) => Taken(mode, e.cidrs, cidrSets))
  BY Handled DEF Events
<1>3. CASE e.node \in nodesInProcessing
  <2>1. UNCHANGED <<channel, nodesInProcessing, cidrSets, maskSizes>>
    BY <1>3 DEF CloudAllocateOrOccupy
  <2>2. QED
    BY <1>1, <2>1, HandledSame, GrowsItself
<1>4. CASE e.node \notin nodesInProcessing
  <2>1. PICK r \in updateNodeSubnetMaskSizes(e.node) :
          IF r.sizes = Nil
          THEN /\ nodesInProcessing' = nodesInProcessing \cup {e.node}
               /\ UNCHANGED <<channel, cidrSets, maskSizes, podCIDRsMap>>
          ELSE /\ maskSizes' = [maskSizes EXCEPT ![e.node] = r.sizes]
               /\ LET sets == updateMaxSubnetMaskSizes(cidrSets, maskSizes') IN
                  IF Has(e.cidrs)
                  THEN /\ cidrSets' = occupyCIDRs(sets, e.cidrs)
                       /\ podCIDRsMap' = [podCIDRsMap EXCEPT ![e.node] = e.cidrs]
                       /\ UNCHANGED <<channel, nodesInProcessing>>
                  ELSE /\ IF CanAllocateSizes(sets, r.sizes)
                          THEN /\ Len(channel) < QueueSize
                               /\ Send(e.node, allocateSizes(sets, r.sizes))
                               /\ nodesInProcessing' = nodesInProcessing \cup {e.node}
                          ELSE UNCHANGED <<channel, nodesInProcessing>>
                       /\ cidrSets' = AllocateSizes(sets, r.sizes)
                       /\ UNCHANGED podCIDRsMap
    BY <1>4, Zenon DEF CloudAllocateOrOccupy
  <2>2. r.sizes \in CloudMasks /\ r.sizes # Nil
    <3>1. "mask" \notin Faults
      BY <1>1 DEF Calm
    <3>2. r.sizes = MaskOf[e.node] \/ r.sizes = DefaultMask
      BY <3>1 DEF updateNodeSubnetMaskSizes
    <3>3. CloudMasks \subseteq Masks /\ Nil \notin Masks
      BY IpamAssumption DEF Masks
    <3>4. QED
      BY <1>2, <3>2, <3>3 DEF CloudMasks
  <2>3. maskSizes' = [maskSizes EXCEPT ![e.node] = r.sizes]
    BY <2>1, <2>2
  <2>4. maskSizes' \in [Names -> {Nil} \cup CloudMasks]
    BY <1>1, <1>2, <2>2, <2>3
  <2>5. updateMaxSubnetMaskSizes(cidrSets, maskSizes') = cidrSets
    BY <1>1, <2>4, NoFinerMask
  <2>6. IF Has(e.cidrs)
        THEN cidrSets' = occupyCIDRs(cidrSets, e.cidrs) /\ UNCHANGED <<channel, nodesInProcessing>>
        ELSE /\ IF CanAllocateSizes(cidrSets, r.sizes)
                THEN /\ Send(e.node, allocateSizes(cidrSets, r.sizes))
                     /\ nodesInProcessing' = nodesInProcessing \cup {e.node}
                ELSE UNCHANGED <<channel, nodesInProcessing>>
             /\ cidrSets' = AllocateSizes(cidrSets, r.sizes)
    BY <2>1, <2>2, <2>5
  <2>7. CASE Has(e.cidrs)
    <3>1. cidrSets' = cidrSets
      BY <1>1, <1>2, <2>6, <2>7, OccupyTaken
    <3>2. QED
      BY <1>1, <2>4, <2>6, <2>7, <3>1, HandledSame, GrowsItself
  <2>8. CASE ~Has(e.cidrs)
    <3>1. cidrSets' = AllocateSizes(cidrSets, r.sizes)
      BY <2>6, <2>8
    <3>2. Sets(mode, cidrSets') /\ Grows(cidrSets, cidrSets')
      BY <1>1, <2>2, <3>1, CloudAllocation
    <3>3. CASE CanAllocateSizes(cidrSets, r.sizes)
      <4> DEFINE t == allocateSizes(cidrSets, r.sizes)
      <4>1. Send(e.node, t) /\ nodesInProcessing' = nodesInProcessing \cup {e.node}
        BY <2>6, <2>8, <3>3
      <4>2. Good(mode, t) /\ Free(mode, t, cidrSets) /\ Taken(mode, t, cidrSets')
        BY <1>1, <2>2, <3>1, <3>3, CloudAllocation
      <4> HIDE DEF t, e
      <4>3. QED
        BY <1>1, <1>2, <2>4, <3>2, <4>1, <4>2, HandledAllocated
    <3>4. CASE ~CanAllocateSizes(cidrSets, r.sizes)
      <4>1. UNCHANGED <<channel, nodesInProcessing>>
        BY <2>6, <2>8, <3>4
      <4>2. QED
        BY <2>4, <3>2, <4>1, HandledSame
    <3>5. QED
      BY <3>3, <3>4
  <2>9. QED
    BY <2>7, <2>8
<1>5. QED
  BY <1>3, <1>4

LEMMA HandleKeeps ==
    ASSUME IpamInv, Handle
    PROVE  IpamInv'
<1> DEFINE e == Head(notes)
<1>1. /\ notes # <<>> /\ notes' = Tail(notes) /\ UNCHANGED <<mode, api, lister, watch, worker>>
      /\ AllocateOrOccupyCIDR(e) \/ IgnoreUpdate(e) \/ ReleaseCIDR(e)
  BY DEF Handle
<1>2. /\ Sets(mode, cidrSets) /\ mode \in {"range", "cloud"}
      /\ maskSizes \in [Names -> {Nil} \cup CloudMasks]
  BY DEF IpamInv, IpamTypes
<1>3. CASE AllocateOrOccupyCIDR(e)
  <2>1. e.type # "delete"
    BY <1>3 DEF AllocateOrOccupyCIDR
  <2>2. CASE mode = "range"
    BY <1>1, <1>3, <2>1, <2>2, RangeHandlerKeeps DEF AllocateOrOccupyCIDR
  <2>3. CASE mode = "cloud"
    BY <1>1, <1>3, <2>1, <2>3, CloudHandlerKeeps DEF AllocateOrOccupyCIDR
  <2>4. QED
    BY <1>2, <2>2, <2>3
<1>4. CASE IgnoreUpdate(e)
  <2>1. UNCHANGED <<cidrSets, nodesInProcessing, channel, maskSizes>>
    BY <1>4 DEF IgnoreUpdate
  <2>2. QED
    BY <1>1, <1>2, <2>1, HandledSame, GrowsItself
<1>5. CASE ReleaseCIDR(e)
  <2>1. UNCHANGED <<nodesInProcessing, channel, maskSizes>>
    BY <1>5 DEF ReleaseCIDR
  <2>2. CASE Has(e.cidrs)
    <3>1. Gives(e) /\ cidrSets' = ReleaseAll(cidrSets, e.cidrs)
      BY <1>5, <2>2 DEF ReleaseCIDR, Gives
    <3>2. QED
      BY <1>1, <2>1, <3>1, HandledReleased
  <2>3. CASE ~Has(e.cidrs)
    <3>1. cidrSets' = cidrSets
      BY <1>5, <2>3 DEF ReleaseCIDR
    <3>2. QED
      BY <1>1, <1>2, <2>1, <3>1, HandledSame, GrowsItself
  <2>4. QED
    BY <2>2, <2>3
<1>6. QED
  BY <1>1, <1>3, <1>4, <1>5
-----------------------------------------------------------------------------
\* What a worker finds in the item it takes out of the channel.
LEMMA Received ==
    ASSUME IpamInv, NEW w \in Workers, Receive(w)
    PROVE  /\ Head(channel) \in Items /\ Tail(channel) \in Seq(Items) /\ worker[w] = Idle
           /\ channel # <<>> /\ channel' = Tail(channel)
           /\ Sound(mode, ClaimsOf(api, Tail(channel), worker, notes \o watch)
                          \cup {d \in {Claim("item", 0, Head(channel).cidrs)} : Head(channel).cidrs # Nil}, cidrSets)
           /\ \A t : Claim("item", 0, t) \notin ClaimsOf(api, Tail(channel), worker, notes \o watch)
<1>1. channel \in Seq(Items) /\ worker \in [Workers -> WorkerStates]
  BY DEF IpamInv, IpamTypes
<1>2. channel # <<>> /\ channel' = Tail(channel) /\ worker[w].pc = "idle"
  BY DEF Receive
<1>3. Head(channel) \in Items /\ Tail(channel) \in Seq(Items)
  BY <1>1, <1>2
<1>4. worker[w] = Idle
  BY <1>1, <1>2 DEF WorkerStates
<1>5. Sound(mode, ClaimsOf(api, channel, worker, notes \o watch), cidrSets)
  BY DEF IpamInv, Claims
<1>6. PICK ev : ev = notes \o watch
  OBVIOUS
<1>7. /\ Sound(mode, ClaimsOf(api, Tail(channel), worker, ev)
                     \cup {d \in {Claim("item", 0, Head(channel).cidrs)} : Head(channel).cidrs # Nil}, cidrSets)
      /\ \A t : Claim("item", 0, t) \notin ClaimsOf(api, Tail(channel), worker, ev)
  BY <1>1, <1>2, <1>5, <1>6, SoundTail
<1>8. QED
  BY <1>2, <1>3, <1>4, <1>6, <1>7

\* The item goes to the worker's state s: what remains to be shown of a step.
LEMMA TakenOut ==
    ASSUME IpamInv, NEW w \in Workers, Receive(w), NEW s \in WorkerStates,
           worker' = [worker EXCEPT ![w] = s], UNCHANGED <<mode, api, lister, watch, notes, maskSizes>>,
           \/ nodesInProcessing' = nodesInProcessing \ {Head(channel).node}
           \/ /\ nodesInProcessing' = nodesInProcessing /\ s.pc # "idle"
              /\ s.item.node = Head(channel).node
    PROVE  /\ Claims' \subseteq ClaimsOf(api, Tail(channel), worker, notes \o watch)
                                \cup {d \in {Claim("worker", w, s.item.cidrs)} : Holds(s)}
           /\ (Sets(mode, cidrSets') /\ Sound(mode, Claims', cidrSets')) => IpamInv'
<1> DEFINE C == ClaimsOf(api, Tail(channel), worker, notes \o watch)
<1>1. /\ Head(channel) \in Items /\ Tail(channel) \in Seq(Items) /\ worker[w] = Idle
      /\ channel # <<>> /\ channel' = Tail(channel)
  BY Received
<1>2. worker \in [Workers -> WorkerStates] /\ channel \in Seq(Items)
  BY DEF IpamInv, IpamTypes
<1>3. Claims' = ClaimsOf(api, Tail(channel), [worker EXCEPT ![w] = s], notes \o watch)
  BY <1>1 DEF Claims
<1>4. Claims' \subseteq C \cup {d \in {Claim("worker", w, s.item.cidrs)} : Holds(s)}
  BY <1>2, <1>3, ClaimsWorker
<1>5. IpamTypes'
  <2>1. worker' \in [Workers -> WorkerStates]
    BY <1>2
  <2>2. nodesInProcessing' \subseteq Names
    BY DEF IpamInv, IpamTypes
  <2>3. QED
    BY <1>1, <2>1, <2>2 DEF IpamInv, IpamTypes
<1>6. MarkOwned'
  <2>1. SUFFICES ASSUME NEW n \in nodesInProcessing'
                 PROVE  \/ \E i \in Range(channel') : i.node = n
                        \/ \E v \in Workers : worker'[v].pc # "idle" /\ worker'[v].item.node = n
    BY DEF MarkOwned
  <2>2. worker'[w] = s /\ \A v \in Workers : v # w => worker'[v] = worker[v]
    BY <1>2
  <2>3. CASE n = Head(channel).node
    <3>1. s.pc # "idle" /\ s.item.node = n
      BY <2>1, <2>3
    <3>2. QED
      BY <2>2, <3>1
  <2>4. CASE n # Head(channel).node
    <3>1. \/ \E i \in Range(channel) : i.node = n
          \/ \E v \in Workers : worker[v].pc # "idle" /\ worker[v].item.node = n
      BY <2>1 DEF IpamInv, MarkOwned
    <3>2. \A i \in Range(channel) : i = Head(channel) \/ i \in Range(channel')
      <4> TAKE i \in Range(channel)
      <4>1. PICK k \in 1..Len(channel) : i = channel[k]
        BY <1>2 DEF Range
      <4>2. CASE k = 1
        BY <1>1, <1>2, <4>1, <4>2
      <4>3. CASE k # 1
        <5>1. k - 1 \in DOMAIN channel' /\ channel'[k - 1] = channel[k]
          BY <1>1, <1>2, <4>3
        <5>2. QED
          BY <4>1, <5>1 DEF Range
      <4>4. QED
        BY <4>2, <4>3
    <3>3. worker[w].pc = "idle"
      BY <1>1 DEF Idle
    <3>4. QED
      BY <2>2, <2>4, <3>1, <3>2, <3>3
  <2>5. QED
    BY <2>3, <2>4
<1>7. PermanentStays' /\ EventsBacked(api', notes' \o watch') /\ mode' = mode
  BY DEF IpamInv, PermanentStays
<1>8. QED
  BY <1>4, <1>5, <1>6, <1>7 DEF IpamInv

LEMMA NotFoundKeeps ==
    ASSUME IpamInv, NEW w \in Workers, NotFound(w)
    PROVE  IpamInv'
<1> DEFINE C == ClaimsOf(api, Tail(channel), worker, notes \o watch)
<1>1. /\ Receive(w) /\ worker' = [worker EXCEPT ![w] = Idle]
      /\ nodesInProcessing' = nodesInProcessing \ {Head(channel).node}
      /\ UNCHANGED <<mode, api, lister, watch, notes, maskSizes>> /\ cidrSets' = cidrSets
  BY DEF NotFound, Done
<1>2. Idle \in WorkerStates /\ ~Holds(Idle)
  BY DEF WorkerStates, Holds, Idle
<1>3. /\ Claims' \subseteq C \cup {d \in {Claim("worker", w, Idle.item.cidrs)} : Holds(Idle)}
      /\ (Sets(mode, cidrSets') /\ Sound(mode, Claims', cidrSets')) => IpamInv'
  BY <1>1, <1>2, TakenOut
<1> DEFINE M == C \cup {d \in {Claim("item", 0, Head(channel).cidrs)} : Head(channel).cidrs # Nil}
<1>4. Sound(mode, M, cidrSets)
  BY <1>1, Received
<1>5. Claims' \in SUBSET M
  BY <1>2, <1>3
<1> HIDE DEF M, C
<1>6. Sound(mode, Claims', cidrSets)
  BY <1>4, <1>5, SoundSubset, GrowsItself
<1>7. QED
  BY <1>1, <1>3, <1>6 DEF IpamInv

LEMMA NotAvailableKeeps ==
    ASSUME IpamInv, NEW w \in Workers, NotAvailable(w)
    PROVE  IpamInv'
<1> DEFINE C == ClaimsOf(api, Tail(channel), worker, notes \o watch)
           s == [pc |-> "requeue", item |-> Head(channel)]
<1>1. /\ Receive(w) /\ worker' = [worker EXCEPT ![w] = s]
      /\ nodesInProcessing' = nodesInProcessing /\ Head(channel).cidrs = Nil
      /\ UNCHANGED <<mode, api, lister, watch, notes, maskSizes>>
      /\ cidrSets' = AllocateFamilies(cidrSets)
  BY DEF NotAvailable
<1>2. Head(channel) \in Items
  BY <1>1, Received
<1>3. s \in WorkerStates /\ ~Holds(s) /\ s.pc # "idle" /\ s.item.node = Head(channel).node
  BY <1>1, <1>2 DEF WorkerStates, Holds
<1> HIDE DEF s
<1>4. /\ Claims' \subseteq C \cup {d \in {Claim("worker", w, s.item.cidrs)} : Holds(s)}
      /\ (Sets(mode, cidrSets') /\ Sound(mode, Claims', cidrSets')) => IpamInv'
  BY <1>1, <1>3, TakenOut
<1> DEFINE M == C \cup {d \in {Claim("item", 0, Head(channel).cidrs)} : Head(channel).cidrs # Nil}
<1>5. Sound(mode, M, cidrSets)
  BY <1>1, Received
<1>6. Claims' \in SUBSET M
  BY <1>3, <1>4
<1> HIDE DEF M, C
<1>7. Sets(mode, cidrSets') /\ Grows(cidrSets, cidrSets')
  BY <1>1, RangeAllocation DEF IpamInv, IpamTypes
<1>8. Sound(mode, Claims', cidrSets')
  BY <1>5, <1>6, <1>7, SoundSubset
<1>9. QED
  BY <1>4, <1>7, <1>8

LEMMA TakeKeeps ==
    ASSUME IpamInv, NEW w \in Workers, Take(w)
    PROVE  IpamInv'
<1> DEFINE item == Head(channel)
           cidrs == Reserved(item, cidrSets)[1]
           sets == Reserved(item, cidrSets)[2]
           C == ClaimsOf(api, Tail(channel), worker, notes \o watch)
           c == Claim("item", 0, cidrs)
           p == [pc |-> "patch", item |-> [node |-> item.node, cidrs |-> cidrs], tries |-> 0]
<1>1. /\ Receive(w) /\ (item.cidrs = Nil => CanAllocate(cidrSets))
      /\ UNCHANGED <<mode, api, lister, watch, notes, maskSizes>>
      /\ \/ /\ \/ cidrSets' = sets
               \/ cidrSets' = ReleaseAll(sets, cidrs)
            /\ worker' = [worker EXCEPT ![w] = Idle]
            /\ nodesInProcessing' = nodesInProcessing \ {item.node}
         \/ /\ cidrSets' = sets /\ worker' = [worker EXCEPT ![w] = p]
            /\ nodesInProcessing' = nodesInProcessing
  BY DEF Take, Done
<1>2. /\ item \in Items
      /\ Sound(mode, C \cup {d \in {Claim("item", 0, item.cidrs)} : item.cidrs # Nil}, cidrSets)
      /\ \A t : Claim("item", 0, t) \notin C
  <2>1. Receive(w)
    BY <1>1
  <2>2. QED
    BY <2>1, Received
<1>3. Calm(mode) /\ mode \in {"range", "cloud"} /\ Sets(mode, cidrSets)
  BY DEF IpamInv, IpamTypes
\* Reserved or not before, the CIDRs are claimed by the worker now.
<1>4. Sets(mode, sets) /\ Sound(mode, C \cup {c}, sets) /\ cidrs \in Tuples
  <2>1. CASE item.cidrs = Nil
    <3>1. cidrs = allocatePodCIDRs(cidrSets) /\ sets = AllocateFamilies(cidrSets)
      BY <2>1 DEF Reserved
    <3> HIDE DEF cidrs, sets
    <3>2. /\ Sets(mode, sets) /\ Grows(cidrSets, sets) /\ Good(mode, cidrs)
          /\ Free(mode, cidrs, cidrSets) /\ Taken(mode, cidrs, sets)
      <4>1. CanAllocate(cidrSets)
        BY <1>1, <2>1
      <4>2. QED
        BY <1>3, <3>1, <4>1, RangeAllocation
    <3>3. c.cidrs = cidrs
      BY ClaimFields
    <3>4. Sound(mode, C, cidrSets)
      BY <1>2, <2>1
    <3> HIDE DEF c, C
    <3>5. Sound(mode, C \cup {c}, sets)
      <4>1. C \cup {c} \in SUBSET (C \cup {c})
        OBVIOUS
      <4>2. QED
        BY <3>2, <3>3, <3>4, <4>1, SoundFresh
    <3>6. QED
      BY <3>2, <3>5 DEF Good
  <2>2. CASE item.cidrs # Nil
    <3>1. cidrs = item.cidrs /\ sets = cidrSets
      BY <2>2 DEF Reserved
    <3>2. cidrs \in Tuples
      BY <1>2, <2>2, <3>1 DEF Items
    <3>3. C \cup {d \in {Claim("item", 0, item.cidrs)} : item.cidrs # Nil} = C \cup {c}
      BY <2>2, <3>1
    <3> HIDE DEF cidrs, sets, c, C
    <3>4. QED
      BY <1>2, <1>3, <3>1, <3>2, <3>3
  <2>3. QED
    BY <2>1, <2>2
<1>5. item.node \in Names /\ Idle \in WorkerStates /\ ~Holds(Idle)
  BY <1>2 DEF Items, WorkerStates, Holds, Idle
<1> HIDE DEF cidrs, sets, item
<1>6. /\ p \in WorkerStates /\ p.pc # "idle" /\ p.item.node = item.node /\ p.item.cidrs = cidrs
  BY <1>4, <1>5 DEF WorkerStates
<1> HIDE DEF p
<1>7. c.cidrs = cidrs /\ c \notin C /\ Claim("worker", w, cidrs).cidrs = cidrs
  BY <1>2, ClaimFields
<1>8. CASE /\ cidrSets' = sets \/ cidrSets' = ReleaseAll(sets, cidrs)
           /\ worker' = [worker EXCEPT ![w] = Idle]
           /\ nodesInProcessing' = nodesInProcessing \ {item.node}
  <2>1. /\ Claims' \subseteq C \cup {d \in {Claim("worker", w, Idle.item.cidrs)} : Holds(Idle)}
        /\ (Sets(mode, cidrSets') /\ Sound(mode, Claims', cidrSets')) => IpamInv'
    <3>1. /\ Receive(w) /\ UNCHANGED <<mode, api, lister, watch, notes, maskSizes>>
          /\ worker' = [worker EXCEPT ![w] = Idle]
          /\ nodesInProcessing' = nodesInProcessing \ {Head(channel).node}
      BY <1>1, <1>8 DEF item
    <3>2. QED
      BY <1>5, <3>1, TakenOut
  <2> HIDE DEF C, c
  <2>2. Claims' \in SUBSET ((C \cup {c}) \ {c}) /\ c \in C \cup {c} /\ Claims' \in SUBSET (C \cup {c})
    BY <1>5, <1>7, <2>1
  <2>3. CASE cidrSets' = sets
    <3>1. Sound(mode, Claims', sets)
      BY <1>4, <2>2, SoundSubset, GrowsItself
    <3>2. QED
      BY <1>4, <2>1, <2>3, <3>1
  <2>4. CASE cidrSets' = ReleaseAll(sets, cidrs)
    <3>1. Sound(mode, Claims', ReleaseAll(sets, c.cidrs)) /\ Sets(mode, ReleaseAll(sets, c.cidrs))
      BY <1>3, <1>4, <2>2, SoundReleased
    <3>2. QED
      BY <1>7, <2>1, <2>4, <3>1
  <2>5. QED
    BY <1>8, <2>3, <2>4
<1>9. CASE /\ cidrSets' = sets /\ worker' = [worker EXCEPT ![w] = p]
           /\ nodesInProcessing' = nodesInProcessing
  <2> DEFINE d == Claim("worker", w, cidrs)
  <2>1. /\ Claims' \subseteq C \cup {x \in {Claim("worker", w, p.item.cidrs)} : Holds(p)}
        /\ (Sets(mode, cidrSets') /\ Sound(mode, Claims', cidrSets')) => IpamInv'
    <3>1. /\ Receive(w) /\ UNCHANGED <<mode, api, lister, watch, notes, maskSizes>>
          /\ worker' = [worker EXCEPT ![w] = p] /\ nodesInProcessing' = nodesInProcessing
          /\ p.item.node = Head(channel).node
      BY <1>1, <1>6, <1>9 DEF item
    <3>2. QED
      BY <1>6, <3>1, TakenOut
  <2>2. Claims' \in SUBSET (((C \cup {c}) \ {c}) \cup {d}) /\ c \in C \cup {c}
    BY <1>6, <1>7, <2>1
  <2> HIDE DEF C, c, d
  <2>3. Sound(mode, Claims', sets)
    BY <1>4, <1>7, <2>2, SoundPassed DEF d
  <2>4. QED
    BY <1>4, <1>9, <2>1, <2>3
<1>10. QED
  BY <1>1, <1>8, <1>9 DEF item, cidrs, sets, p
-----------------------------------------------------------------------------
\* The marks after a step of a worker that holds an item.
LEMMA MarksAfter ==
    ASSUME IpamInv, NEW w \in Workers, NEW s, worker' = [worker EXCEPT ![w] = s],
           channel' = channel,
           \/ nodesInProcessing' = nodesInProcessing \ {worker[w].item.node}
           \/ /\ nodesInProcessing' = nodesInProcessing /\ s.pc # "idle"
              /\ s.item.node = worker[w].item.node
    PROVE  MarkOwned' /\ nodesInProcessing' \subseteq Names
<1>1. worker \in [Workers -> WorkerStates] /\ nodesInProcessing' \subseteq Names
  BY DEF IpamInv, IpamTypes
<1>2. worker'[w] = s /\ \A v \in Workers : v # w => worker'[v] = worker[v]
  BY <1>1
<1>3. ASSUME NEW n \in nodesInProcessing'
      PROVE  \/ \E i \in Range(channel') : i.node = n
             \/ \E v \in Workers : worker'[v].pc # "idle" /\ worker'[v].item.node = n
  <2>1. \/ \E i \in Range(channel) : i.node = n
        \/ \E v \in Workers : worker[v].pc # "idle" /\ worker[v].item.node = n
    BY <1>3 DEF IpamInv, MarkOwned
  <2>2. CASE \E i \in Range(channel) : i.node = n
    BY <2>2
  <2>3. CASE \E v \in Workers : worker[v].pc # "idle" /\ worker[v].item.node = n
    <3>1. PICK v \in Workers : worker[v].pc # "idle" /\ worker[v].item.node = n
      BY <2>3
    <3>2. CASE v = w
      <4>1. s.pc # "idle" /\ s.item.node = n
        BY <1>3, <3>1, <3>2
      <4>2. QED
        BY <1>2, <4>1
    <3>3. CASE v # w
      BY <1>2, <3>1, <3>3
    <3>4. QED
      BY <3>2, <3>3
  <2>4. QED
    BY <2>1, <2>2, <2>3
<1>4. QED
  BY <1>1, <1>3 DEF MarkOwned

\* A step of a worker alone.
LEMMA WorkerMoves ==
    ASSUME IpamInv, NEW w \in Workers, NEW s \in WorkerStates, worker' = [worker EXCEPT ![w] = s],
           UNCHANGED <<mode, api, lister, watch, notes, channel, maskSizes>>,
           \/ nodesInProcessing' = nodesInProcessing \ {worker[w].item.node}
           \/ /\ nodesInProcessing' = nodesInProcessing /\ s.pc # "idle"
              /\ s.item.node = worker[w].item.node
    PROVE  /\ Claims' \subseteq (Claims \ {Claim("worker", w, worker[w].item.cidrs)})
                                \cup {d \in {Claim("worker", w, s.item.cidrs)} : Holds(s)}
           /\ (Sets(mode, cidrSets') /\ Sound(mode, Claims', cidrSets')) => IpamInv'
<1>1. worker \in [Workers -> WorkerStates]
  BY DEF IpamInv, IpamTypes
<1>2. Claims' = ClaimsOf(api, channel, [worker EXCEPT ![w] = s], notes \o watch)
  BY DEF Claims
<1>3. Claims' \subseteq (Claims \ {Claim("worker", w, worker[w].item.cidrs)})
                        \cup {d \in {Claim("worker", w, s.item.cidrs)} : Holds(s)}
  BY <1>1, <1>2, ClaimsWorker DEF Claims
<1>4. MarkOwned' /\ nodesInProcessing' \subseteq Names
  BY MarksAfter
<1>5. worker' \in [Workers -> WorkerStates]
  BY <1>1
<1>6. IpamTypes'
  BY <1>4, <1>5 DEF IpamInv, IpamTypes
<1>7. PermanentStays' /\ EventsBacked(api', notes' \o watch') /\ mode' = mode
  BY DEF IpamInv, PermanentStays
<1>8. QED
  BY <1>3, <1>4, <1>6, <1>7 DEF IpamInv

\* What a worker that patches holds.
LEMMA Patching ==
    ASSUME IpamInv, NEW w \in Workers, worker[w].pc = "patch"
    PROVE  /\ worker[w] \in [pc : {"patch"}, item : [node : Names, cidrs : Tuples], tries : Nat]
           /\ worker[w].item \in Items /\ worker[w].item.node \in Names
           /\ worker[w].item.cidrs \in Tuples
           /\ Claim("worker", w, worker[w].item.cidrs) \in Claims
<1>1. worker[w] \in WorkerStates
  BY DEF IpamInv, IpamTypes
<1>2. worker[w] \in [pc : {"patch"}, item : [node : Names, cidrs : Tuples], tries : Nat]
  BY <1>1 DEF WorkerStates, Idle
<1>3. worker[w].item.node \in Names /\ worker[w].item.cidrs \in Tuples /\ worker[w].item \in Items
  BY <1>2 DEF Items
<1>4. Holds(worker[w])
  BY <1>3, IpamNilAssumption DEF Holds
<1>5. QED
  BY <1>2, <1>3, <1>4 DEF Claims, ClaimsOf, WorkerClaims

LEMMA PatchOkKeeps ==
    ASSUME IpamInv, NEW w \in Workers, PatchOk(w)
    PROVE  IpamInv'
<1> DEFINE n == worker[w].item.node
           t == worker[w].item.cidrs
           c == Claim("worker", w, t)
           d == Claim("node", n, t)
           ev == notes \o watch
           e == Event("update", n, t)
<1>1. /\ worker[w].pc = "patch" /\ api[n] \in {NoCIDRs, t}
      /\ api' = [api EXCEPT ![n] = t]
      /\ watch' = IF api[n] = t THEN watch ELSE Append(watch, e)
      /\ worker' = [worker EXCEPT ![w] = Idle] /\ nodesInProcessing' = nodesInProcessing \ {n}
      /\ UNCHANGED <<mode, lister, notes, cidrSets, channel, maskSizes>>
  BY DEF PatchOk, Accepts, Apply, Done
<1>2. n \in Names /\ t \in Tuples /\ c \in Claims
  BY <1>1, Patching
<1>3. /\ api \in [Names -> Pods] /\ worker \in [Workers -> WorkerStates]
      /\ watch \in Seq(Events) /\ notes \in Seq(Events)
  BY DEF IpamInv, IpamTypes
<1>4. Idle \in WorkerStates /\ ~Holds(Idle)
  BY DEF WorkerStates, Holds, Idle
<1>5. Sets(mode, cidrSets) /\ Sound(mode, Claims, cidrSets)
  BY DEF IpamInv
<1>6. CASE api[n] = t
  <2>1. api' = api /\ watch' = watch
    BY <1>1, <1>3, <1>6
  <2>2. /\ Claims' \subseteq (Claims \ {c}) \cup {x \in {Claim("worker", w, Idle.item.cidrs)} : Holds(Idle)}
        /\ (Sets(mode, cidrSets') /\ Sound(mode, Claims', cidrSets')) => IpamInv'
    BY <1>1, <1>4, <2>1, WorkerMoves
  <2>3. Claims' \in SUBSET Claims
    BY <1>4, <2>2
  <2>4. Sound(mode, Claims', cidrSets)
    BY <1>5, <2>3, SoundSubset, GrowsItself
  <2>5. QED
    BY <1>1, <1>5, <2>2, <2>4
<1>7. CASE api[n] # t
  <2>1. api[n] = NoCIDRs /\ watch' = Append(watch, e)
    BY <1>1, <1>7
  <2>2. /\ t \in Pods /\ Has(t) /\ ~Has(NoCIDRs) /\ t # NoNode
    BY <1>2, HasMeans DEF Pods
  <2>3. e \in Events /\ e.type = "update" /\ e.cidrs = t /\ e.node = n
    BY <1>2, <2>2 DEF Event, Events
  <2> HIDE DEF e
  <2>4. ev \in Seq(Events) /\ notes' \o watch' = Append(ev, e)
    BY <1>1, <1>3, <2>1, <2>3, OnTheirWay
  <2>5. EventsBacked(api', notes' \o watch')
    <3>1. \A k \in Names : Has(api[k]) => api'[k] = api[k]
      BY <1>1, <1>3, <2>1, <2>2
    <3>2. api'[e.node] = e.cidrs
      BY <1>1, <1>2, <1>3, <2>3
    <3>3. EventsBacked(api, ev)
      BY DEF IpamInv
    <3> HIDE DEF ev
    <3>4. EventsBacked(api', Append(ev, e))
      BY <2>3, <2>4, <3>1, <3>2, <3>3, BackedAppend
    <3>5. QED
      BY <2>4, <3>4
  <2>6. Claims' \subseteq (Claims \ {c}) \cup {d}
    <3> DEFINE C1 == ClaimsOf(api', channel, worker, ev)
               C2 == ClaimsOf(api', channel, worker', ev)
    <3>1. C1 \subseteq (Claims \ {Claim("node", n, api[n])}) \cup {x \in {d} : Has(t)}
      <4>1. Claims = ClaimsOf(api, channel, worker, ev) /\ api' = [api EXCEPT ![n] = t]
        BY <1>1 DEF Claims
      <4> HIDE DEF n, t, ev
      <4>2. ClaimsOf([api EXCEPT ![n] = t], channel, worker, ev) \subseteq
                (ClaimsOf(api, channel, worker, ev) \ {Claim("node", n, api[n])})
                \cup {x \in {Claim("node", n, t)} : Has(t)}
        BY <1>2, <1>3, ClaimsNode
      <4>3. QED
        BY <4>1, <4>2
    <3>2. C2 \subseteq (C1 \ {c}) \cup {x \in {Claim("worker", w, Idle.item.cidrs)} : Holds(Idle)}
      <4>1. worker' = [worker EXCEPT ![w] = Idle]
        BY <1>1
      <4>2. PICK nodes : nodes = api'
        OBVIOUS
      <4> HIDE DEF ev
      <4>3. ClaimsOf(nodes, channel, [worker EXCEPT ![w] = Idle], ev) \subseteq
                (ClaimsOf(nodes, channel, worker, ev) \ {Claim("worker", w, worker[w].item.cidrs)})
                \cup {x \in {Claim("worker", w, Idle.item.cidrs)} : Holds(Idle)}
        BY <1>3, ClaimsWorker
      <4>4. QED
        BY <4>1, <4>2, <4>3
    <3>3. Claims' \subseteq C2 \cup {x \in {Claim("event", Len(ev) + 1, e.cidrs)} : Gives(e)}
      BY <1>1, <2>3, <2>4, ClaimsEvent DEF Claims
    <3>4. ~Gives(e)
      BY <2>3 DEF Gives
    <3> HIDE DEF C1, C2, c, d
    <3>5. QED
      BY <1>4, <3>1, <3>2, <3>3, <3>4
  <2>7. c.cidrs = t /\ d.cidrs = t
    BY ClaimFields
  <2>8. Sound(mode, Claims', cidrSets)
    <3> HIDE DEF c, d
    <3>1. Claims' \in SUBSET ((Claims \ {c}) \cup {d})
      BY <2>6
    <3>2. QED
      BY <1>2, <1>5, <2>7, <3>1, SoundPassed
  <2>9. MarkOwned' /\ nodesInProcessing' \subseteq Names
    BY <1>1, MarksAfter
  <2>10. IpamTypes'
    <3>1. api' \in [Names -> Pods] /\ watch' \in Seq(Events) /\ worker' \in [Workers -> WorkerStates]
      BY <1>1, <1>2, <1>3, <1>4, <2>1, <2>2, <2>3
    <3>2. QED
      BY <1>1, <2>9, <3>1 DEF IpamInv, IpamTypes
  <2>11. PermanentStays'
    BY <1>1, <1>2, <1>3, <2>2, IpamAssumption DEF IpamInv, PermanentStays
  <2>12. QED
    BY <1>1, <1>5, <2>5, <2>8, <2>9, <2>10, <2>11 DEF IpamInv
<1>8. QED
  BY <1>6, <1>7

LEMMA PatchFailsKeeps ==
    ASSUME IpamInv, NEW w \in Workers, PatchFails(w)
    PROVE  IpamInv'
<1> DEFINE item == worker[w].item
           c == Claim("worker", w, item.cidrs)
<1>1. /\ worker[w].pc = "patch" /\ UNCHANGED <<mode, lister, notes, channel, maskSizes>>
      /\ \E o \in PatchErrors(item) :
           /\ IF o.applied THEN Apply(item.node, item.cidrs) ELSE UNCHANGED <<api, watch>>
           /\ AfterFailure(w, o.err)
  BY DEF PatchFails
<1>2. PICK o \in PatchErrors(item) :
           /\ IF o.applied THEN Apply(item.node, item.cidrs) ELSE UNCHANGED <<api, watch>>
           /\ AfterFailure(w, o.err)
  BY <1>1
<1>3. o.applied = FALSE
  <2>1. "timeout_applied" \notin Faults /\ "lost" \notin Faults
    BY DEF IpamInv, Calm
  <2>2. QED
    BY <2>1 DEF PatchErrors
<1>4. UNCHANGED <<mode, api, lister, watch, notes, channel, maskSizes>>
  BY <1>1, <1>2, <1>3
<1>5. /\ worker[w] \in [pc : {"patch"}, item : [node : Names, cidrs : Tuples], tries : Nat]
      /\ item \in Items /\ item.node \in Names /\ item.cidrs \in Tuples /\ c \in Claims
  BY <1>1, Patching
<1>6. /\ Calm(mode) /\ mode \in {"range", "cloud"} /\ Sets(mode, cidrSets) /\ Sound(mode, Claims, cidrSets)
      /\ worker \in [Workers -> WorkerStates]
  BY DEF IpamInv, IpamTypes
<1>7. c.cidrs = item.cidrs
  BY ClaimFields
\* The worker keeps the CIDRs, or gives them up, released or not.
<1>8. ASSUME NEW s \in WorkerStates, worker' = [worker EXCEPT ![w] = s], cidrSets' = cidrSets,
             nodesInProcessing' = nodesInProcessing, s.pc # "idle", s.item.node = item.node,
             s.item.cidrs = item.cidrs
      PROVE  IpamInv'
  <2>1. /\ Claims' \subseteq (Claims \ {c}) \cup {x \in {Claim("worker", w, s.item.cidrs)} : Holds(s)}
        /\ (Sets(mode, cidrSets') /\ Sound(mode, Claims', cidrSets')) => IpamInv'
    BY <1>4, <1>8, WorkerMoves
  <2>2. Claims' \in SUBSET Claims
    BY <1>5, <1>8, <2>1
  <2>3. Sound(mode, Claims', cidrSets)
    BY <1>6, <2>2, SoundSubset, GrowsItself
  <2>4. QED
    BY <1>6, <1>8, <2>1, <2>3
<1>9. ASSUME NEW s \in WorkerStates, worker' = [worker EXCEPT ![w] = s],
             cidrSets' = ReleaseAll(cidrSets, item.cidrs),
             nodesInProcessing' = nodesInProcessing, s.pc # "idle", s.item.node = item.node, ~Holds(s)
      PROVE  IpamInv'
  <2>1. /\ Claims' \subseteq (Claims \ {c}) \cup {x \in {Claim("worker", w, s.item.cidrs)} : Holds(s)}
        /\ (Sets(mode, cidrSets') /\ Sound(mode, Claims', cidrSets')) => IpamInv'
    BY <1>4, <1>9, WorkerMoves
  <2>2. Claims' \in SUBSET (Claims \ {c})
    BY <1>9, <2>1
  <2> HIDE DEF c
  <2>3. Sound(mode, Claims', ReleaseAll(cidrSets, c.cidrs)) /\ Sets(mode, ReleaseAll(cidrSets, c.cidrs))
    BY <1>5, <1>6, <2>2, SoundReleased
  <2>4. QED
    BY <1>7, <1>9, <2>1, <2>3
<1>10. CASE worker[w].tries + 1 < Retries
  <2> DEFINE s == [worker[w] EXCEPT !.tries = @ + 1]
  <2>1. /\ worker' = [worker EXCEPT ![w].tries = @ + 1]
        /\ UNCHANGED <<cidrSets, nodesInProcessing>>
    BY <1>2, <1>10 DEF AfterFailure
  <2>2. worker' = [worker EXCEPT ![w] = s]
    BY <1>6, <2>1
  <2>3. s \in WorkerStates /\ s.pc # "idle" /\ s.item = item
    BY <1>5 DEF WorkerStates
  <2> HIDE DEF s
  <2>4. QED
    BY <1>8, <2>1, <2>2, <2>3
<1>11. CASE ~(worker[w].tries + 1 < Retries)
  <2>1. /\ cidrSets' = IF o.err = "timeout" THEN cidrSets ELSE ReleaseAll(cidrSets, item.cidrs)
        /\ nodesInProcessing' = nodesInProcessing
        /\ IF mode = "range"
           THEN Requeue(w, IF o.err = "timeout" THEN item ELSE [item EXCEPT !.cidrs = Nil])
           ELSE worker' = [worker EXCEPT ![w] = [pc |-> "condition", item |-> item]]
    BY <1>2, <1>11 DEF AfterFailure
  <2> DEFINE r == [pc |-> "requeue", item |-> item]
             i == [item EXCEPT !.cidrs = Nil]
             q == [pc |-> "requeue", item |-> i]
             s == [pc |-> "condition", item |-> item]
  <2>2. r \in WorkerStates /\ r.pc # "idle" /\ r.item = item
    BY <1>5 DEF WorkerStates
  <2>3. i \in Items /\ i.cidrs = Nil /\ i.node = item.node
    BY <1>5 DEF Items
  <2> HIDE DEF i
  <2>4. q \in WorkerStates /\ q.pc # "idle" /\ q.item.node = item.node /\ ~Holds(q)
    BY <2>3 DEF WorkerStates, Holds
  <2>5. s \in WorkerStates /\ s.pc # "idle" /\ s.item = item /\ ~Holds(s)
    BY <1>5 DEF WorkerStates, Holds
  <2> HIDE DEF r, q, s
  <2>6. CASE o.err = "timeout"
    <3>1. cidrSets' = cidrSets
      BY <2>1, <2>6
    <3>2. worker' = [worker EXCEPT ![w] = r] \/ worker' = [worker EXCEPT ![w] = s]
      BY <2>1, <2>6 DEF Requeue, r, s
    <3>3. QED
      BY <1>8, <2>1, <2>2, <2>5, <3>1, <3>2
  <2>7. CASE o.err # "timeout"
    <3>1. cidrSets' = ReleaseAll(cidrSets, item.cidrs)
      BY <2>1, <2>7
    <3>2. worker' = [worker EXCEPT ![w] = q] \/ worker' = [worker EXCEPT ![w] = s]
      BY <2>1, <2>7 DEF Requeue, q, s, i
    <3>3. QED
      BY <1>9, <2>1, <2>4, <2>5, <3>1, <3>2
  <2>8. QED
    BY <2>6, <2>7
<1>12. QED
  BY <1>10, <1>11

LEMMA SetNodeConditionKeeps ==
    ASSUME IpamInv, NEW w \in Workers, SetNodeCondition(w)
    PROVE  IpamInv'
<1>1. "condition" \notin Faults
  BY DEF IpamInv, Calm
<1>2. /\ worker' = [worker EXCEPT ![w] = Idle]
      /\ nodesInProcessing' = nodesInProcessing \ {worker[w].item.node}
      /\ UNCHANGED <<mode, api, lister, watch, notes, cidrSets, channel, maskSizes>>
  BY <1>1 DEF SetNodeCondition
<1>3. Idle \in WorkerStates /\ ~Holds(Idle)
  BY DEF WorkerStates, Holds, Idle
<1> DEFINE c == Claim("worker", w, worker[w].item.cidrs)
<1>4. /\ Claims' \subseteq (Claims \ {c}) \cup {x \in {Claim("worker", w, Idle.item.cidrs)} : Holds(Idle)}
      /\ (Sets(mode, cidrSets') /\ Sound(mode, Claims', cidrSets')) => IpamInv'
  BY <1>2, <1>3, WorkerMoves
<1>5. Claims' \in SUBSET Claims
  BY <1>3, <1>4
<1>6. Sets(mode, cidrSets) /\ Sound(mode, Claims, cidrSets)
  BY DEF IpamInv
<1>7. Sound(mode, Claims', cidrSets)
  BY <1>5, <1>6, SoundSubset, GrowsItself
<1>8. QED
  BY <1>2, <1>4, <1>6, <1>7

LEMMA SendBackKeeps ==
    ASSUME IpamInv, NEW w \in Workers, SendBack(w)
    PROVE  IpamInv'
<1> DEFINE item == worker[w].item
           i == [node |-> item.node, cidrs |-> item.cidrs]
           c == Claim("worker", w, item.cidrs)
           d == Claim("item", Len(channel) + 1, item.cidrs)
           ev == notes \o watch
<1>1. /\ worker[w].pc = "requeue" /\ channel' = Append(channel, i)
      /\ worker' = [worker EXCEPT ![w] = Idle]
      /\ UNCHANGED <<mode, api, lister, watch, notes, cidrSets, nodesInProcessing, maskSizes>>
  BY DEF SendBack, Send
<1>2. /\ worker \in [Workers -> WorkerStates] /\ channel \in Seq(Items)
      /\ Sets(mode, cidrSets) /\ Sound(mode, Claims, cidrSets)
  BY DEF IpamInv, IpamTypes
<1>3. worker[w] \in [pc : {"requeue", "condition"}, item : Items]
  BY <1>1, <1>2 DEF WorkerStates, Idle
<1>4. i \in Items /\ i.cidrs = item.cidrs /\ i.node = item.node
  BY <1>3 DEF Items
<1> HIDE DEF i
<1>5. Idle \in WorkerStates /\ ~Holds(Idle)
  BY DEF WorkerStates, Holds, Idle
<1>6. Claims' \subseteq (Claims \ {c}) \cup {x \in {d} : item.cidrs # Nil}
  <2> DEFINE C1 == ClaimsOf(api, channel, worker', ev)
  <2>1. C1 \subseteq (Claims \ {c}) \cup {x \in {Claim("worker", w, Idle.item.cidrs)} : Holds(Idle)}
    BY <1>1, <1>2, ClaimsWorker DEF Claims
  <2>2. Claims' \subseteq C1 \cup {x \in {Claim("item", Len(channel) + 1, i.cidrs)} : i.cidrs # Nil}
    BY <1>1, <1>2, <1>4, ClaimsSend DEF Claims
  <2> HIDE DEF C1, c
  <2>3. QED
    BY <1>4, <1>5, <2>1, <2>2
<1>7. Sound(mode, Claims', cidrSets)
  <2>1. CASE item.cidrs = Nil
    <3>1. Claims' \in SUBSET Claims
      BY <1>6, <2>1
    <3>2. QED
      BY <1>2, <3>1, SoundSubset, GrowsItself
  <2>2. CASE item.cidrs # Nil
    <3>1. c \in Claims
      BY <1>1, <2>2 DEF Claims, ClaimsOf, WorkerClaims, Holds
    <3>2. c.cidrs = d.cidrs
      BY ClaimFields
    <3>3. Claims' \in SUBSET ((Claims \ {c}) \cup {d})
      BY <1>6
    <3> HIDE DEF c, d
    <3>4. QED
      BY <1>2, <3>1, <3>2, <3>3, SoundPassed
  <2>3. QED
    BY <2>1, <2>2
<1>8. IpamTypes'
  <2>1. worker' \in [Workers -> WorkerStates] /\ channel' \in Seq(Items)
    BY <1>1, <1>2, <1>4, <1>5
  <2>2. QED
    BY <1>1, <2>1 DEF IpamInv, IpamTypes
<1>9. MarkOwned'
  <2>1. /\ Len(channel) + 1 \in DOMAIN channel' /\ channel'[Len(channel) + 1] = i
        /\ \A k \in DOMAIN channel : k \in DOMAIN channel' /\ channel'[k] = channel[k]
    BY <1>1, <1>2, <1>4
  <2>2. i \in Range(channel') /\ \A x \in Range(channel) : x \in Range(channel')
    BY <2>1 DEF Range
  <2>3. \A v \in Workers : v # w => worker'[v] = worker[v]
    BY <1>1, <1>2
  <2>4. ASSUME NEW n \in nodesInProcessing'
        PROVE  \/ \E x \in Range(channel') : x.node = n
               \/ \E v \in Workers : worker'[v].pc # "idle" /\ worker'[v].item.node = n
    <3>1. \/ \E x \in Range(channel) : x.node = n
          \/ \E v \in Workers : worker[v].pc # "idle" /\ worker[v].item.node = n
      BY <1>1, <2>4 DEF IpamInv, MarkOwned
    <3>2. CASE n = item.node
      BY <1>4, <2>2, <3>2
    <3>3. CASE n # item.node
      BY <2>2, <2>3, <3>1, <3>3
    <3>4. QED
      BY <3>2, <3>3
  <2>5. QED
    BY <2>4 DEF MarkOwned
<1>10. PermanentStays' /\ EventsBacked(api', notes' \o watch')
  BY <1>1 DEF IpamInv, PermanentStays
<1>11. QED
  BY <1>1, <1>2, <1>7, <1>8, <1>9, <1>10 DEF IpamInv
-----------------------------------------------------------------------------
LEMMA IpamStep ==
    ASSUME IpamInv, [INext]_ivars
    PROVE  IpamInv'
<1>1. CASE UNCHANGED ivars
  <2>1. /\ mode' = mode /\ api' = api /\ lister' = lister /\ watch' = watch /\ notes' = notes
        /\ cidrSets' = cidrSets /\ nodesInProcessing' = nodesInProcessing /\ channel' = channel
        /\ worker' = worker /\ maskSizes' = maskSizes
    BY <1>1 DEF ivars
  <2>2. IpamTypes' /\ PermanentStays' /\ MarkOwned'
    BY <2>1 DEF IpamInv, IpamTypes, PermanentStays, MarkOwned
  <2>3. QED
    BY <2>1, <2>2 DEF IpamInv, Claims
<1>2. ASSUME NEW n \in Names, CreateNode(n) \/ DeleteNode(n) \/ Heartbeat(n)
      PROVE  IpamInv'
  BY <1>2, CreateNodeKeeps, DeleteNodeKeeps, HeartbeatKeeps
<1>3. CASE Sync \/ Handle \/ Restart
  BY <1>3, SyncKeeps, HandleKeeps, RestartKeeps
<1>4. ASSUME NEW w \in Workers, updateCIDRsAllocation(w)
      PROVE  IpamInv'
  <2>1. CASE NotFound(w)
    BY <2>1, NotFoundKeeps
  <2>2. CASE NotAvailable(w)
    BY <2>2, NotAvailableKeeps
  <2>3. CASE Take(w)
    BY <2>3, TakeKeeps
  <2>4. CASE PatchOk(w)
    BY <2>4, PatchOkKeeps
  <2>5. CASE PatchFails(w)
    BY <2>5, PatchFailsKeeps
  <2>6. CASE SetNodeCondition(w)
    BY <2>6, SetNodeConditionKeeps
  <2>7. CASE SendBack(w)
    BY <2>7, SendBackKeeps
  <2>8. QED
    BY <1>4, <2>1, <2>2, <2>3, <2>4, <2>5, <2>6, <2>7 DEF updateCIDRsAllocation
<1>5. QED
  BY <1>1, <1>2, <1>3, <1>4 DEF INext

\* What is claimed and counted is what the runs check.
LEMMA IpamInvMeans ==
    ASSUME IpamInv
    PROVE  BitmapsSound
<1>1. /\ mode \in {"range", "cloud"} /\ api \in [Names -> Pods] /\ lister \in [Names -> Pods]
      /\ nodesInProcessing \subseteq Names /\ channel \in Seq(Items)
      /\ worker \in [Workers -> WorkerStates]
      /\ Sets(mode, cidrSets) /\ Sound(mode, Claims, cidrSets) /\ MarkOwned
  BY DEF IpamInv, IpamTypes
<1>2. ITypeOK
  <2>1. {api[n] : n \in Names} \cup {lister[n] : n \in Names} \subseteq {NoNode, NoCIDRs} \cup Tuples
    BY <1>1 DEF Pods
  <2>2. Range(channel) \subseteq Items
    BY <1>1 DEF Range
  <2>3. ASSUME NEW w \in Workers
        PROVE  worker[w] = Idle \/ worker[w].item \in Items
    <3>1. worker[w] \in WorkerStates
      BY <1>1
    <3>2. CASE worker[w] \in [pc : {"patch"}, item : [node : Names, cidrs : Tuples], tries : Nat]
      BY <3>2 DEF Items
    <3>3. QED
      BY <3>1, <3>2 DEF WorkerStates
  <2>4. QED
    BY <1>1, <2>1, <2>2, <2>3 DEF ITypeOK
<1>3. ASSUME NEW t \in Held \cup {api[n] : n \in {m \in Names : Has(api[m])}}
      PROVE  \E c \in Claims : c.cidrs = t
  <2>1. CASE t \in Held
    <3>1. t # Nil
      BY <2>1 DEF Held
    <3>2. PICK i \in Range(channel) \cup
               {worker[w].item : w \in {v \in Workers : worker[v].pc \in {"patch", "requeue"}}} :
             t = i.cidrs
      BY <2>1 DEF Held
    <3>3. CASE i \in Range(channel)
      <4>1. PICK k \in 1..Len(channel) : i = channel[k]
        BY <1>1, <3>3 DEF Range
      <4>2. Claim("item", k, channel[k].cidrs) \in ItemClaims(channel)
        BY <3>1, <3>2, <4>1 DEF ItemClaims
      <4>3. QED
        BY <3>2, <4>1, <4>2, ClaimFields DEF Claims, ClaimsOf
    <3>4. CASE i \notin Range(channel)
      <4>1. PICK w \in Workers : worker[w].pc \in {"patch", "requeue"} /\ i = worker[w].item
        BY <3>2, <3>4
      <4>2. Claim("worker", w, worker[w].item.cidrs) \in WorkerClaims(worker)
        BY <3>1, <3>2, <4>1 DEF WorkerClaims, Holds
      <4>3. QED
        BY <3>2, <4>1, <4>2, ClaimFields DEF Claims, ClaimsOf
    <3>5. QED
      BY <3>3, <3>4
  <2>2. CASE t \notin Held
    <3>1. PICK n \in Names : Has(api[n]) /\ t = api[n]
      BY <1>3, <2>2
    <3>2. Claim("node", n, api[n]) \in NodeClaims(api)
      BY <3>1 DEF NodeClaims
    <3>3. QED
      BY <3>1, <3>2, ClaimFields DEF Claims, ClaimsOf
  <2>3. QED
    BY <2>1, <2>2
<1>4. AssignedIsUsed
  <2>1. SUFFICES ASSUME NEW t \in Held \cup {api[n] : n \in {m \in Names : Has(api[m])}},
                        NEW f \in Families
                 PROVE  Indices(cidrSets[f], t[f]) \subseteq cidrSets[f].used
    BY DEF AssignedIsUsed
  <2>2. PICK c \in Claims : c.cidrs = t
    BY <1>3
  <2>3. Taken(mode, t, cidrSets) /\ Bitmap(mode, f, cidrSets[f])
    BY <1>1, <2>2 DEF Sound, Sets
  <2>4. QED
    BY <2>3, IndicesAreBits DEF Taken
<1>5. CountMatches
  BY <1>1 DEF CountMatches, Sets, Bitmap
<1>6. QED
  BY <1>1, <1>2, <1>4, <1>5 DEF BitmapsSound

\* Whatever events, patches, retries, releases and restarts follow each other, what
\* a node has or may still get is taken in the bitmaps (AssignedIsUsed), their
\* counters count the bits taken (CountMatches) and a mark has somebody who works
\* on it (MarkOwned), for any number of nodes, workers and families.
THEOREM BitmapsAreSound == Calm(mode) /\ ISpec => []BitmapsSound
<1>1. Calm(mode) /\ IInit => IpamInv
  BY IpamStarts
<1>2. IpamInv /\ [INext]_ivars => IpamInv'
  BY IpamStep
<1>3. IpamInv => BitmapsSound
  BY IpamInvMeans
<1>4. QED
  BY <1>1, <1>2, <1>3, PTL DEF ISpec

-----------------------------------------------------------------------------
\* CIDRs of different bits have no unit in common.
LEMMA ApartNoOverlap ==
    ASSUME NEW m \in {"range", "cloud"}, Calm(m), NEW t, NEW u, Good(m, t), Good(m, u), Apart(m, t, u)
    PROVE  ~Overlap(t, u)
<1>1. ASSUME NEW f \in Families, NEW c, Aligned(m, f, c), NEW x \in Units(c)
      PROVE  x \div Grain(m, f) \in Bits(m, f, c)
  <2> DEFINE g == Grain(m, f)
  <2>1. PICK i \in Nat, n \in Nat \ {0} : i + n <= Blocks(m, f) /\ c = Cidr(i * g, n * g)
    BY <1>1 DEF Aligned
  <2>2. Bits(m, f, c) = i..(i + n - 1)
    BY <2>1, BlockBits
  <2>3. g \in Nat \ {0}
    BY GrainFacts
  <2> HIDE DEF g
  <2>4. i * g \in Nat /\ n * g \in Nat /\ (i + n) * g = i * g + n * g
    BY <2>3
  <2>5. c.at = i * g /\ c.size = n * g
    BY <2>1 DEF Cidr
  <2>6. x \in Nat /\ i * g <= x /\ x < (i + n) * g
    BY <1>1, <2>4, <2>5 DEF Units
  <2> DEFINE q == x \div g
  <2>7. q \in Nat /\ q * g <= x /\ x < (q + 1) * g
    BY <2>3, <2>6, DivMod
  <2> HIDE DEF q
  <2>8. q * g \in Int /\ (q + 1) * g \in Int /\ (i + n) * g \in Int
    BY <2>3, <2>7
  <2>9. q < i + n
    BY <2>3, <2>4, <2>6, <2>7, <2>8, TimesLess
  <2>10. i < q + 1
    BY <2>3, <2>4, <2>6, <2>7, <2>8, TimesLess
  <2>11. QED
    BY <2>2, <2>7, <2>9, <2>10 DEF q, g
<1>2. ASSUME NEW f \in Families, NEW x \in Units(t[f]) \cap Units(u[f])
      PROVE  FALSE
  <2>1. Aligned(m, f, t[f]) /\ Aligned(m, f, u[f])
    BY DEF Good
  <2>2. x \div Grain(m, f) \in Bits(m, f, t[f]) \cap Bits(m, f, u[f])
    BY <1>1, <1>2, <2>1
  <2>3. QED
    BY <2>2 DEF Apart
<1>3. QED
  BY <1>2 DEF Overlap

LEMMA PromiseStep ==
    ASSUME IpamInv, [INext]_ivars
    PROVE  [Promise!PNext]_api
<1>1. CASE UNCHANGED ivars
  BY <1>1 DEF ivars
<1>2. ASSUME NEW n \in Names, CreateNode(n)
      PROVE  Promise!PNext
  BY <1>2 DEF CreateNode, Promise!PNext, Promise!PJoin
<1>3. ASSUME NEW n \in Names, DeleteNode(n)
      PROVE  Promise!PNext
  BY <1>3 DEF DeleteNode, Promise!PNext, Promise!PLeave
<1>4. ASSUME NEW n \in Names, Heartbeat(n)
      PROVE  api' = api
  BY <1>4 DEF Heartbeat
<1>5. CASE Sync \/ Handle \/ Restart
  BY <1>5 DEF Sync, Handle, Restart
<1>6. ASSUME NEW w \in Workers,
             NotFound(w) \/ NotAvailable(w) \/ Take(w) \/ SetNodeCondition(w) \/ SendBack(w)
      PROVE  api' = api
  BY <1>6 DEF NotFound, NotAvailable, Take, SetNodeCondition, SendBack
<1>7. ASSUME NEW w \in Workers, PatchFails(w)
      PROVE  api' = api
  <2>1. PICK o \in PatchErrors(worker[w].item) :
          IF o.applied THEN Apply(worker[w].item.node, worker[w].item.cidrs) ELSE UNCHANGED <<api, watch>>
    BY <1>7 DEF PatchFails
  <2>2. "timeout_applied" \notin Faults /\ "lost" \notin Faults
    BY DEF IpamInv, Calm
  <2>3. o.applied = FALSE
    BY <2>2 DEF PatchErrors
  <2>4. QED
    BY <2>1, <2>3
<1>8. ASSUME NEW w \in Workers, PatchOk(w), api' # api
      PROVE  Promise!PNext
  <2> DEFINE n == worker[w].item.node
             t == worker[w].item.cidrs
             c == Claim("worker", w, t)
  <2>1. /\ worker[w].pc = "patch" /\ api[n] \in {NoCIDRs, t} /\ api' = [api EXCEPT ![n] = t]
    BY <1>8 DEF PatchOk, Accepts, Apply
  <2>2. n \in Names /\ t \in Tuples /\ c \in Claims
    BY <2>1, Patching
  <2>3. /\ api \in [Names -> Pods] /\ Calm(mode) /\ mode \in {"range", "cloud"}
        /\ Sound(mode, Claims, cidrSets)
    BY DEF IpamInv, IpamTypes
  <2>4. api[n] = NoCIDRs /\ api'[n] = t
    BY <1>8, <2>1, <2>2, <2>3
  <2>5. ASSUME NEW k \in Names, api[k] \in Tuples
        PROVE  ~Overlap(t, api[k])
    <3> DEFINE d == Claim("node", k, api[k])
    <3>1. Has(api[k])
      BY <2>3, <2>5, HasMeans
    <3>2. d \in Claims
      BY <3>1 DEF Claims, ClaimsOf, NodeClaims
    <3>3. c # d /\ c.cidrs = t /\ d.cidrs = api[k]
      BY ClaimFields
    <3> HIDE DEF c, d, t
    <3>4. Good(mode, t) /\ Good(mode, api[k]) /\ Apart(mode, t, api[k])
      BY <2>2, <2>3, <3>2, <3>3 DEF Sound
    <3>5. QED
      BY <2>3, <3>4, ApartNoOverlap
  <2> HIDE DEF n, t
  <2>6. Promise!PAssign(n)
    BY <2>1, <2>2, <2>4, <2>5 DEF Promise!PAssign
  <2>7. QED
    BY <2>2, <2>6 DEF Promise!PNext
<1>9. QED
  BY <1>1, <1>2, <1>3, <1>4, <1>5, <1>6, <1>7, <1>8 DEF INext, updateCIDRsAllocation

\* Node IPAM keeps its promise (PodCidrPromise): a node gets CIDRs once, keeps them
\* for as long as it exists, and no two nodes have a unit in common, whatever the
\* workers of either allocator do.
THEOREM PromiseIsKept == Calm(mode) /\ ISpec => PromiseKept
<1>1. Calm(mode) /\ IInit => IpamInv
  BY IpamStarts
<1>2. IpamInv /\ [INext]_ivars => IpamInv'
  BY IpamStep
<1>3. IInit => Promise!PInit
  BY IpamNilAssumption DEF IInit, Promise!PInit
<1>4. IpamInv /\ [INext]_ivars => [Promise!PNext]_api
  BY PromiseStep
<1>5. QED
  BY <1>1, <1>2, <1>3, <1>4, PTL DEF ISpec, PromiseKept, Promise!PSpec
=============================================================================
