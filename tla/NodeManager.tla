------------------------------ MODULE NodeManager ------------------------------
(***************************************************************************)
(* cloud-node-manager on one node (pkg/nodemanager): the handler of the    *)
(* node events initializes the node and removes its taint, a periodic loop *)
(* keeps addresses and labels up to date.  Both work on copies of the node *)
(* while kubelet, the route controller and the node lifecycle controller   *)
(* write to it.  A failing query of the cloud makes the process panic and  *)
(* start again.                                                            *)
(***************************************************************************)
EXTENDS Naturals, Sequences

CONSTANTS
    NmNil,
    NmPlans,      \* the scenarios: records of type NmPlan
    MaxNmEvents    \* bound on the events not yet handled

\* Options of the process; the addresses the machine gets one after the
\* other; whether the node may be deleted and registered again; how often
\* the machine, its address, its node or a call fails or changes.
NmPlan == [waitForRoutes : BOOLEAN, betaLabels : BOOLEAN, provided : {0, 1},
           recreate : BOOLEAN, changes : Nat]

ASSUME NmAssumption ==
    /\ NmPlans \subseteq NmPlan
    /\ MaxNmEvents \in Nat \ {0}

VARIABLES
    nplan,
    node,          \* the node in Kubernetes, NmNil for none
    machine,       \* the address and the type the cloud reports
    copy, pending, \* informer: its copy and the events to handle
    init,          \* the handler of events
    stat,          \* the periodic loop
    up, nchanges

nvars == <<nplan, node, machine, copy, pending, init, stat, up, nchanges>>

Address == 0..2    \* 0: none yet
Node == [taint : BOOLEAN, pid : BOOLEAN, label : 0..2, beta : 0..2,
         cond : {"none", "true", "false"}, addr : Address, routed : BOOLEAN]

ASSUME NmNilAssumption == NmNil \notin Node

Registered == [taint |-> TRUE, pid |-> FALSE, label |-> 0, beta |-> 0,
               cond |-> "none", addr |-> 0, routed |-> FALSE]

AtRest == [pc |-> "idle"]

NTypeOK ==
    /\ nplan \in NmPlans
    /\ node \in Node \cup {NmNil} /\ copy \in Node \cup {NmNil}
    /\ machine \in [addr : 1..2, label : 1..2]
    /\ Len(pending) <= MaxNmEvents /\ \A i \in 1..Len(pending) : pending[i] \in Node
    /\ init.pc \in {"idle", "get", "condition", "cloud", "again", "write", "address", "patch"}
    /\ init.pc # "idle" => init.event \in Node
    /\ stat.pc \in {"idle", "patch", "labels"}
    /\ up \in BOOLEAN /\ nchanges \in 0..nplan.changes

NInit ==
    /\ nplan \in NmPlans
    /\ node = NmNil /\ copy = NmNil /\ pending = <<>>
    /\ machine = [addr |-> 1, label |-> 1]
    /\ init = AtRest /\ stat = AtRest
    /\ up = TRUE /\ nchanges = 0
------------------------------------------------------------------------------
\* How a call may end.
Answer == {"ok"} \cup IF nchanges < nplan.changes THEN {"error"} ELSE {}
Counted(r) == nchanges' = IF r = "ok" THEN nchanges ELSE nchanges + 1

\* A write to the node makes a copy for an update outdated.
Outdate(rec) == IF rec.pc = "write" THEN [rec EXCEPT !.fresh = FALSE] ELSE rec

To(pc) == init' = [init EXCEPT !.pc = pc]
Others == <<nplan, machine, copy, pending, stat, up>>

ToInitialize(n) == n.taint

\* UpdateCloudNode and AddCloudNode: only a tainted node is looked at.
HandleEvent ==
    /\ up /\ init.pc = "idle" /\ pending # <<>>
    /\ pending' = Tail(pending)
    /\ init' = IF ToInitialize(Head(pending)) THEN [pc |-> "get", event |-> Head(pending)] ELSE AtRest
    /\ UNCHANGED <<nplan, node, machine, copy, stat, up, nchanges>>

\* initializeNode reads the node, which may be initialized or gone.
GetNode ==
    /\ init.pc = "get"
    /\ \E r \in Answer :
          /\ init' = IF r = "error" \/ node = NmNil THEN AtRest
                     ELSE IF ~node.taint THEN AtRest
                     ELSE [pc |-> IF nplan.waitForRoutes THEN "condition" ELSE "cloud",
                           event |-> init.event, cur |-> node]
          /\ Counted(r)
    /\ UNCHANGED <<node, Others>>

ConditionIsSet(n) == n.cond = "true"

\* The condition is looked up in the event, not in the node just read.
updateNetworkingCondition ==
    /\ init.pc = "condition"
    /\ IF ConditionIsSet(init.event)
       THEN To("cloud") /\ UNCHANGED <<node, nchanges>>
       ELSE \E r \in Answer :
            /\ IF r = "error" \/ node = NmNil
               THEN init' = AtRest /\ UNCHANGED node
               ELSE node' = [node EXCEPT !.cond = "true"] /\ To("cloud")
            /\ Counted(r)
    /\ UNCHANGED Others

Unprovided(a) == nplan.provided # 0 /\ a # nplan.provided

Crashed == up' = FALSE /\ init' = AtRest /\ stat' = AtRest /\ copy' = NmNil /\ pending' = <<>>

\* getNodeModifiersFromCloudProvider: what to set is fixed here; an error
\* that remains ends the process.
AskCloud ==
    /\ init.pc = "cloud"
    /\ \E r \in Answer :
          /\ IF r = "error" \/ Unprovided(machine.addr)
             THEN Crashed
             ELSE /\ init' = [pc |-> "again", event |-> init.event, cur |-> init.cur,
                              pid |-> ~init.cur.pid, label |-> machine.label, fresh |-> FALSE]
                  /\ UNCHANGED <<copy, pending, stat, up>>
          /\ Counted(r)
    /\ UNCHANGED <<nplan, node, machine>>

ReadAgain ==
    /\ init.pc = "again"
    /\ \E r \in Answer :
          /\ init' = IF r = "error" \/ node = NmNil THEN AtRest
                     ELSE [init EXCEPT !.pc = "write", !.cur = node, !.fresh = TRUE]
          /\ Counted(r)
    /\ UNCHANGED <<node, Others>>

\* Mutant: the taint goes, the labels are left to the loop.
BugModified(n) ==
    [n EXCEPT !.taint = FALSE, !.pid = n.pid \/ init.pid]

\* The modifiers, and the removal of the taint.
Modified(n) ==
    [n EXCEPT !.taint = FALSE, !.pid = n.pid \/ init.pid, !.label = init.label,
              !.beta = IF nplan.betaLabels THEN init.label ELSE n.beta]

Step(rec, pc) == [pc |-> pc, event |-> rec.event, cur |-> rec.cur, pid |-> rec.pid, label |-> rec.label, fresh |-> FALSE]

\* A conflict starts the loop again; any other error ends it, and the node
\* stays tainted until its next event.
UpdateNode ==
    /\ init.pc = "write"
    /\ \E r \in Answer :
          /\ IF r = "error" \/ node = NmNil THEN init' = AtRest /\ UNCHANGED node
             ELSE IF ~init.fresh THEN init' = Step(init, "again") /\ UNCHANGED node
             ELSE /\ node' = Modified(init.cur)
                  /\ init' = [Step(init, "address") EXCEPT !.cur = Modified(init.cur)]
          /\ Counted(r)
    /\ UNCHANGED Others

\* updateNodeAddress, first half: the address of the cloud, 0 when nothing
\* is to be changed.
NewAddress(n, r) ==
    IF r = "error" \/ n.taint \/ Unprovided(machine.addr) \/ n.addr = machine.addr
    THEN 0 ELSE machine.addr

FirstAddress ==
    /\ init.pc = "address"
    /\ \E r \in Answer :
          /\ init' = IF NewAddress(init.cur, r) = 0 THEN AtRest
                     ELSE [pc |-> "patch", event |-> init.event, addr |-> NewAddress(init.cur, r)]
          /\ Counted(r)
    /\ UNCHANGED <<node, Others>>

\* Second half: the patch goes by name to the node as it is now.
PatchFirstAddress ==
    /\ init.pc = "patch"
    /\ \E r \in Answer :
          /\ node' = IF r = "error" \/ node = NmNil THEN node ELSE [node EXCEPT !.addr = init.addr]
          /\ Counted(r)
    /\ init' = AtRest
    /\ UNCHANGED Others
------------------------------------------------------------------------------
(* UpdateNodeStatus, from the informer's copy. *)

\* Mutant: the address of a node that has one is kept.
BugStatusAddress(n, r) == IF n.addr # 0 THEN 0 ELSE NewAddress(n, r)

StatusAddress(n, r) == NewAddress(n, r)

ReadStatus ==
    /\ up /\ stat.pc = "idle" /\ copy # NmNil
    /\ \E r \in Answer :
          /\ stat' = IF StatusAddress(copy, r) = 0 THEN [pc |-> "labels", label |-> copy.label, beta |-> copy.beta]
                     ELSE [pc |-> "patch", label |-> copy.label, beta |-> copy.beta, addr |-> StatusAddress(copy, r)]
          /\ Counted(r)
    /\ UNCHANGED <<nplan, node, machine, copy, pending, init, up>>

PatchAddress ==
    /\ stat.pc = "patch"
    /\ \E r \in Answer :
          /\ node' = IF r = "error" \/ node = NmNil THEN node ELSE [node EXCEPT !.addr = stat.addr]
          /\ init' = IF node' # node THEN Outdate(init) ELSE init
          /\ Counted(r)
    /\ stat' = [pc |-> "labels", label |-> stat.label, beta |-> stat.beta]
    /\ UNCHANGED <<nplan, machine, copy, pending, up>>

\* A stable label, and a beta label that is missing or differs.
LabelsDiffer(rec) == rec.label # 0 /\ rec.beta # rec.label

reconcileNodeLabels ==
    /\ stat.pc = "labels"
    /\ \E r \in IF nplan.betaLabels /\ LabelsDiffer(stat) THEN Answer ELSE {"none"} :
          /\ node' = IF r = "ok" /\ node # NmNil THEN [node EXCEPT !.beta = stat.label] ELSE node
          /\ init' = IF node' # node THEN Outdate(init) ELSE init
          /\ IF r = "none" THEN UNCHANGED nchanges ELSE Counted(r)
    /\ stat' = AtRest
    /\ UNCHANGED <<nplan, machine, copy, pending, up>>
------------------------------------------------------------------------------
(* Informer, restart, and the other writers. *)

\* The informer sees the node as it is; a node that is gone has no event.
Observe ==
    /\ up /\ copy # node /\ Len(pending) < MaxNmEvents
    /\ copy' = node
    /\ pending' = IF node = NmNil THEN pending ELSE Append(pending, node)
    /\ UNCHANGED <<nplan, node, machine, init, stat, up, nchanges>>

\* Periodic resynchronization: an update event without a change.
Resync ==
    /\ up /\ copy # NmNil /\ pending = <<>> /\ init.pc = "idle" /\ copy.taint
    /\ pending' = <<copy>>
    /\ UNCHANGED <<nplan, node, machine, copy, init, stat, up, nchanges>>

RestartManager ==
    /\ ~up /\ up' = TRUE
    /\ UNCHANGED <<nplan, node, machine, copy, pending, init, stat, nchanges>>

RegisterNode ==
    /\ node = NmNil /\ node' = Registered
    /\ UNCHANGED <<nplan, machine, copy, pending, init, stat, up, nchanges>>

Foreign(n) ==
    /\ nchanges < nplan.changes /\ nchanges' = nchanges + 1
    /\ node' = n /\ init' = Outdate(init)
    /\ UNCHANGED <<nplan, machine, copy, pending, stat, up>>

RemoveNode == nplan.recreate /\ node # NmNil /\ Foreign(NmNil)

\* Somebody changes the beta label.
Relabel == node # NmNil /\ node.label # 0 /\ node.beta # 2 /\ Foreign([node EXCEPT !.beta = 2])

\* The machine gets another address; kubelet's view of it is not modelled.
ChangeAddress ==
    /\ nchanges < nplan.changes /\ nchanges' = nchanges + 1
    /\ machine' = [machine EXCEPT !.addr = 3 - machine.addr]
    /\ UNCHANGED <<nplan, node, copy, pending, init, stat, up>>

\* The route controller makes the routes of a node, then sets its condition.
MakeRoutes ==
    /\ node # NmNil /\ (~node.routed \/ node.cond # "false") /\ nplan.waitForRoutes
    /\ node' = IF node.routed THEN [node EXCEPT !.cond = "false"] ELSE [node EXCEPT !.routed = TRUE]
    /\ init' = Outdate(init)
    /\ UNCHANGED <<nplan, machine, copy, pending, stat, up, nchanges>>

Handler == GetNode \/ updateNetworkingCondition \/ AskCloud \/ ReadAgain \/ UpdateNode
           \/ FirstAddress \/ PatchFirstAddress
Loop == ReadStatus \/ PatchAddress \/ reconcileNodeLabels

NNext ==
    \/ HandleEvent \/ Handler \/ Loop
    \/ Observe \/ Resync \/ RestartManager
    \/ RegisterNode \/ RemoveNode \/ Relabel \/ ChangeAddress \/ MakeRoutes

NSpec == NInit /\ [][NNext]_nvars
------------------------------------------------------------------------------
\* A node whose taint is gone has its provider ID and the labels of the
\* cloud, and pods are kept off it until its routes exist.  (A node that is
\* deleted and registered again during its initialization is given the
\* condition of its predecessor.)
UntaintedIsReady ==
    /\ NTypeOK
    /\ (node # NmNil /\ ~node.taint) =>
          /\ node.pid /\ node.label # 0
          /\ (nplan.waitForRoutes /\ ~nplan.recreate) => node.cond = "true" \/ node.routed

\* The taint of a node goes in the end, through conflicts, failed calls,
\* crashes and lost attempts.
Initialized == [](node # NmNil => <>(node = NmNil \/ ~node.taint))

\* When changes stop, the node has the address of the machine and beta
\* labels that agree, though copies and queries are outdated when used.
StatusFollows ==
    <>[](node # NmNil =>
           node.addr = machine.addr /\ (nplan.betaLabels => node.beta = node.label))

\* Every node is initialized in the end, and then its addresses and labels
\* follow the machine, though all is computed from copies.
NodeFollows == Initialized /\ StatusFollows
==============================================================================
