------------------------------- MODULE MultiSLB -------------------------------
(***************************************************************************)
(* Placement of services and nodes on multiple standard load balancers     *)
(* (pkg/provider/azure_loadbalancer.go, azure_loadbalancer_backendpool.go, *)
(* azure.go).                                                              *)
(*                                                                         *)
(* A configuration c stands for the public load balancer named c and the   *)
(* internal one named c-internal; a load balancer is therefore a pair      *)
(* <<c, internal>>.  The provider keeps in memory, per configuration, the  *)
(* services and the nodes it believes are on it (ActiveServices,           *)
(* ActiveNodes), the nodes already matched by primary vmSet, and whether   *)
(* it has rebuilt those sets from Azure since it started.                  *)
(*                                                                         *)
(* Every reconciliation holds serviceReconcileLock, so there is one        *)
(* operation at a time; the node informer, the users who edit services and *)
(* a restart of the process interleave with its steps.  One step is the    *)
(* code between two calls to Azure or to Kubernetes, or one iteration of a *)
(* loop over the nodes.  A service is taken to have one frontend and one   *)
(* rule, and externalTrafficPolicy Cluster.                                *)
(***************************************************************************)
EXTENDS Naturals, FiniteSets

CONSTANTS
    N,                          \* number of load balancer configurations
    Services,
    Nodes,
    Labels,                     \* the labels a service may carry
    Kinds,                      \* may services be internal, public, both
    VMSets,
    Nil,                        \* an unset optional field
    Annotation,                 \* [Services -> SUBSET Configs], {} if absent
    ServiceLabelSelector,       \* [Configs -> SUBSET Labels or Nil]
    ServiceNamespaceSelector,   \* [Configs -> SUBSET Services or Nil]
    NodeSelector,               \* [Configs -> SUBSET Nodes or Nil]
    PrimaryVMSet,               \* [Configs -> VMSets or Nil]
    VMSetOf,                    \* [Nodes -> VMSets]
    NodeStates,                 \* what may become of a node
    Flags,                      \* what the configuration file may say of
                                \* AllowServicePlacement
    LegacyNICs,                 \* a VMSS may still reference a pool
    MaxEdits,                   \* bound on changes by users
    MaxFaults,                  \* bound on failing calls
    MaxRestarts                 \* bound on restarts

Configs == 1..N

LBs == Configs \X BOOLEAN

ASSUME SizeAssumption == N \in Nat \ {0}

ASSUME SelectorAssumption ==
    /\ Annotation \in [Services -> SUBSET Configs]
    /\ ServiceLabelSelector \in [Configs -> (SUBSET Labels) \cup {Nil}]
    /\ ServiceNamespaceSelector \in [Configs -> (SUBSET Services) \cup {Nil}]
    /\ NodeSelector \in [Configs -> (SUBSET Nodes) \cup {Nil}]
    /\ PrimaryVMSet \in [Configs -> VMSets]
    /\ Kinds \subseteq BOOLEAN
    /\ VMSetOf \in [Nodes -> VMSets]
    /\ NodeStates \subseteq {"absent", "ready", "excluded"}
    /\ Flags \subseteq [Configs -> BOOLEAN]
    /\ LegacyNICs \in BOOLEAN

ASSUME BoundAssumption ==
    MaxEdits \in Nat /\ MaxFaults \in Nat /\ MaxRestarts \in Nat

ASSUME NonEmptyAssumption == Services # {} /\ Labels # {}

ASSUME NodesAssumption == IsFiniteSet(Nodes)

VARIABLES
    exists,         \* Azure: the load balancers there are
    fips,           \* Azure: whose frontend and rule each carries
    pool,           \* Azure: the nodes in each backend pool
    svc,            \* cluster: the services as their users want them
    node,           \* cluster: the nodes
    allow,          \* AllowServicePlacement of each configuration
    dirty,          \* service controller: the services to ensure or delete
    hostSync,       \* service controller: those whose nodes have changed
    activeServices, activeNodes,    \* memory, by configuration
    nilNodes,       \* memory: the configurations whose ActiveNodes is nil
    correct,        \* nodesWithCorrectLoadBalancerByPrimaryVMSet
    synced,         \* multipleStandardLoadBalancerConfigurationsSynced
    pc, cur,        \* the running operation: next step and arguments
    target,         \* the load balancer chosen for the service
    idx,            \* nodeNameToLBConfigIDXMap, 0 for no entry
    todo, todoLBs,  \* what is left of the loop that is running
    fipChanged,
    edits, faults, restarts

cloud  == <<exists, fips, pool>>
memory == <<activeServices, activeNodes, nilNodes, correct, synced>>
local  == <<cur, target, idx, todo, todoLBs, fipChanged>>
budget == <<edits, faults, restarts>>
users  == <<svc, node, allow>>
queues == <<dirty, hostSync>>
vars   == <<cloud, memory, local, budget, users, queues, pc>>

\* A service that is forgotten has been deleted like one in state none, after
\* an error of its deletion was ignored.
Spelled == [state : {"none", "wanted", "deleting", "forgotten"},
            internal : Kinds, label : Labels]
Ended == {"none", "forgotten"}

\* The arguments of an operation: the service object it was handed, the
\* node list (empty for nil), which of the two calls of reconcileLoadBalancer
\* is running (flipped), whether the memory is being rebuilt (init) and
\* whether the first of the calls failed and that was ignored.
Calls == [s : Services, kind : {"ensure", "update", "delete"}, internal : BOOLEAN,
          label : Labels, nodes : SUBSET Nodes, flipped : BOOLEAN,
          init : BOOLEAN, ignored : BOOLEAN]

PCs == {"idle", "list", "primary", "selector", "choose", "pools", "put",
        "hosts"}

TypeOK ==
    /\ exists \in SUBSET LBs
    /\ fips \in [LBs -> SUBSET Services]
    /\ pool \in [LBs -> SUBSET Nodes]
    /\ svc \in [Services -> Spelled]
    /\ node \in [Nodes -> {"absent", "ready", "excluded"}]
    /\ allow \in [Configs -> BOOLEAN]
    /\ dirty \in SUBSET Services
    /\ hostSync \in SUBSET Services
    /\ activeServices \in [Configs -> SUBSET Services]
    /\ activeNodes \in [Configs -> SUBSET Nodes]
    /\ nilNodes \in SUBSET Configs
    /\ correct \in SUBSET Nodes
    /\ synced \in BOOLEAN
    /\ pc \in PCs
    /\ cur \in Calls
    /\ target \in (Configs \cup {0}) \X BOOLEAN
    /\ idx \in [Nodes -> Configs \cup {0}]
    /\ todo \in SUBSET Nodes
    /\ todoLBs \in SUBSET LBs
    /\ fipChanged \in BOOLEAN
    /\ edits \in 0..MaxEdits
    /\ faults \in 0..MaxFaults
    /\ restarts \in 0..MaxRestarts

NoCall == CHOOSE c \in Calls : c.kind = "delete" /\ ~c.init

Init ==
    /\ exists = {}
    /\ fips = [l \in LBs |-> {}]
    /\ pool = [l \in LBs |-> {}]
    /\ svc \in [Services -> {x \in Spelled : x.state = "none"}]
    /\ node \in [Nodes -> NodeStates]
    /\ allow = [c \in Configs |-> TRUE]
    /\ dirty = {} /\ hostSync = {}
    /\ activeServices = [c \in Configs |-> {}]
    /\ activeNodes = [c \in Configs |-> {}]
    /\ nilNodes = Configs
    /\ correct = {}
    /\ synced = FALSE
    /\ pc = "idle"
    /\ cur = NoCall
    /\ target = <<0, FALSE>>
    /\ idx = [n \in Nodes |-> 0]
    /\ todo = {} /\ todoLBs = {}
    /\ fipChanged = FALSE
    /\ edits = 0 /\ faults = 0 /\ restarts = 0

-------------------------------------------------------------------------------
(* Which configurations the service object of a call may be placed on. *)

isLoadBalancerInUseByService(k, c) == k.s \in activeServices[c]

selectedByAnnotation(k) ==
    IF Annotation[k.s] = {} THEN Configs ELSE Annotation[k.s]

\* Mutant: the flag is not looked at.
BugPlacementAllowed(k, c) == TRUE

PlacementAllowed(k, c) == allow[c] \/ isLoadBalancerInUseByService(k, c)

LabelMatches(k, c) ==
    ServiceLabelSelector[c] = Nil \/ k.label \in ServiceLabelSelector[c]

NamespaceMatches(k, c) ==
    ServiceNamespaceSelector[c] = Nil \/ k.s \in ServiceNamespaceSelector[c]

NoSelector(c) ==
    ServiceLabelSelector[c] = Nil /\ ServiceNamespaceSelector[c] = Nil

eligibleBySelector(k) ==
    {c \in selectedByAnnotation(k) :
        PlacementAllowed(k, c) /\ LabelMatches(k, c) /\ NamespaceMatches(k, c)}

\* The flag is raised as soon as the label selector of a configuration
\* matches, before its namespace selector is looked at.
selectorMatched(k) ==
    \E c \in selectedByAnnotation(k) :
        /\ PlacementAllowed(k, c) /\ LabelMatches(k, c)
        /\ \/ ServiceLabelSelector[c] # Nil
           \/ ServiceNamespaceSelector[c] # Nil /\ NamespaceMatches(k, c)

\* The error the code returns when no configuration passed the selectors.
NoEligible(k) == eligibleBySelector(k) = {}

getEligibleLoadBalancersForService(k) ==
    IF selectorMatched(k) THEN {c \in eligibleBySelector(k) : ~NoSelector(c)}
                       ELSE eligibleBySelector(k)

First(S) == CHOOSE c \in S : \A d \in S : c <= d

Last(S) == CHOOSE c \in S : \A d \in S : d <= c

InUse == {c \in Configs : isLoadBalancerInUseByService(cur, c)}

\* The configurations getMostEligibleLBForService may answer; 0 is the empty
\* name.  Only the configuration in use that comes first is considered; the
\* order of the existing load balancers is Azure's.
getMostEligibleLBForService(isInternal) ==
    LET eligible == getEligibleLoadBalancersForService(cur)
        missing  == {c \in eligible : <<c, isInternal>> \notin exists}
        rules(c) == Cardinality(fips[<<c, isInternal>>])
    IN  CASE InUse # {} /\ First(InUse) \in eligible -> {First(InUse)}
          [] ~(InUse # {} /\ First(InUse) \in eligible) /\ missing # {}
                -> {First(missing)}
          [] OTHER -> IF eligible = {} THEN {0}
                      ELSE {c \in eligible :
                               \A d \in eligible : rules(c) <= rules(d)}

-------------------------------------------------------------------------------
(* The service controller starts an operation. *)

ReadyNodes == {n \in Nodes : node[n] = "ready"}

wantLb == cur.kind # "delete" /\ ~cur.flipped

isInternal == cur.internal # cur.flipped

CallOf(s, kind) ==
    [s |-> s, kind |-> kind, internal |-> svc[s].internal,
     label |-> svc[s].label,
     nodes |-> IF kind # "delete" THEN ReadyNodes ELSE {},
     flipped |-> FALSE, init |-> FALSE, ignored |-> FALSE]

Begin(s, kind) ==
    /\ pc = "idle"
    /\ cur' = CallOf(s, kind)
    /\ pc' = "list"
    /\ UNCHANGED <<cloud, memory, budget, users, target, idx, todo, todoLBs,
                   fipChanged>>

EnsureLoadBalancer(s) ==
    /\ s \in dirty /\ svc[s].state = "wanted"
    /\ Begin(s, "ensure")
    /\ dirty' = dirty \ {s}
    /\ UNCHANGED hostSync

\* The service is looked up first; when it is on no load balancer of its
\* kind, or has been deleted, there is nothing to update.  An error of the
\* look-up reads the same way.
shouldUpdateLoadBalancer(s) ==
    /\ svc[s].state = "wanted"
    /\ ~NoEligible(CallOf(s, "update"))
    /\ \E l \in exists : l[2] = svc[s].internal /\ s \in fips[l]

UpdateLoadBalancer(s) ==
    /\ s \in hostSync
    /\ IF shouldUpdateLoadBalancer(s)
       THEN Begin(s, "update")
       ELSE pc = "idle" /\ UNCHANGED <<cloud, memory, budget, users, local, pc>>
    /\ hostSync' = hostSync \ {s}
    /\ UNCHANGED dirty

\* It asks for the load balancer of the service before it lists them for the
\* deletion; the error of that first call comes out of the same test that
\* the choice below makes, so it is left to that step.
EnsureLoadBalancerDeleted(s) ==
    /\ s \in dirty /\ svc[s].state = "deleting"
    /\ Begin(s, "delete")
    /\ dirty' = dirty \ {s}
    /\ UNCHANGED hostSync

\* What a finished operation leaves behind of its local variables.
ClearLocals ==
    /\ cur' = NoCall /\ target' = <<0, FALSE>>
    /\ idx' = [n \in Nodes |-> 0]
    /\ todo' = {} /\ todoLBs' = {} /\ fipChanged' = FALSE

\* The operation returns an error: what it did to Azure and to the memory
\* stays, and the controller puts the service back in its queue.
ReturnError ==
    /\ pc' = "idle"
    /\ IF cur.kind = "update"
       THEN hostSync' = hostSync \cup {cur.s} /\ UNCHANGED dirty
       ELSE dirty' = dirty \cup {cur.s} /\ UNCHANGED hostSync
    /\ ClearLocals

-------------------------------------------------------------------------------
(* reconcileLoadBalancer lists the load balancers, and the first time after *)
(* a start rebuilds the memory from them.                                   *)

\* Nodes that are not in the list leave the configurations; the map keeps,
\* of several configurations a node is on, the last.
removeDeletedNodesFromLoadBalancerConfigurations(an) ==
    LET kept == [c \in Configs |-> an[c] \cap cur.nodes]
        on(n) == {c \in Configs : n \in kept[c]}
    IN  /\ activeNodes' = kept
        /\ idx' = [n \in Nodes |-> IF on(n) = {} THEN 0 ELSE Last(on(n))]

\* Only the IPs of nodes the informer knows map to a name.
recordExistingNodesOnLoadBalancers ==
    [c \in Configs |-> activeNodes[c] \cup
        {n \in Nodes : /\ node[n] # "absent"
                       /\ \E i \in BOOLEAN : <<c, i>> \in exists
                                           /\ n \in pool[<<c, i>>]}]

\* Mutant: the services are not restored from the rules.
BugReconcileConfigurations ==
    /\ UNCHANGED activeServices
    /\ removeDeletedNodesFromLoadBalancerConfigurations(
            recordExistingNodesOnLoadBalancers)
    /\ nilNodes' = {c \in nilNodes : \A i \in BOOLEAN : <<c, i>> \notin exists}
    /\ cur' = [cur EXCEPT !.init = TRUE]
    /\ todo' = cur.nodes
    /\ pc' = "primary"

reconcileMultipleStandardLoadBalancerConfigurations ==
    /\ activeServices' =
          [c \in Configs |-> activeServices[c] \cup
              {s \in Services : /\ svc[s].state \notin Ended
                               /\ \E i \in BOOLEAN : s \in fips[<<c, i>>]}]
    /\ removeDeletedNodesFromLoadBalancerConfigurations(
            recordExistingNodesOnLoadBalancers)
    /\ nilNodes' = {c \in nilNodes : \A i \in BOOLEAN : <<c, i>> \notin exists}
    /\ cur' = [cur EXCEPT !.init = TRUE]
    /\ todo' = cur.nodes
    /\ pc' = "primary"

ListManagedLBs ==
    /\ pc = "list"
    /\ \/ /\ synced
          /\ pc' = "choose"
          /\ UNCHANGED <<activeServices, activeNodes, nilNodes, cur, idx, todo>>
       \/ /\ ~synced
          /\ reconcileMultipleStandardLoadBalancerConfigurations
    /\ UNCHANGED <<cloud, users, budget, queues, correct, synced, target,
                   todoLBs, fipChanged>>

-------------------------------------------------------------------------------
(* Arranging the nodes over the configurations, one node per step. *)

isLBInList(c) == \E i \in BOOLEAN : <<c, i>> \in exists

\* A load balancer that exists, or is the one this reconciliation creates;
\* while the memory is rebuilt none has been chosen yet.
Available(c) == isLBInList(c) \/ (~cur.init /\ c = target[1])

\* removeNodeFromLBConfig followed by the insertion; 0 stands for no
\* configuration on either side.
MoveNode(n, from, to) ==
    /\ activeNodes' = [c \in Configs |->
          (IF c = from THEN activeNodes[c] \ {n} ELSE activeNodes[c])
              \cup (IF c = to THEN {n} ELSE {})]
    /\ nilNodes' = nilNodes \ {to}

primaryConfigs(n) ==
    {c \in Configs : PrimaryVMSet[c] = VMSetOf[n] /\ Available(c)}

accommodateNodeByPrimaryVMSet(n) ==
    /\ pc = "primary" /\ n \in todo
    /\ todo' = todo \ {n}
    /\ IF n \in correct \/ primaryConfigs(n) = {}
       THEN UNCHANGED <<activeNodes, nilNodes, correct>>
       ELSE LET c == First(primaryConfigs(n))
            IN  /\ correct' = correct \cup {n}
                /\ IF n \in activeNodes[c]
                   THEN UNCHANGED <<activeNodes, nilNodes>>
                   ELSE MoveNode(n, idx[n], c)
    /\ UNCHANGED <<cloud, users, budget, queues, activeServices, synced, pc,
                   cur, target, idx, todoLBs, fipChanged>>

accommodateNodesByPrimaryVMSetDone ==
    /\ pc = "primary" /\ todo = {}
    /\ pc' = "selector"
    /\ todo' = cur.nodes
    /\ UNCHANGED <<cloud, memory, users, budget, queues, cur, target, idx,
                   todoLBs, fipChanged>>

\* Mutant: load balancers that do not exist are not filtered out.
BugMatchingConfigs(n) ==
    {c \in Configs : NodeSelector[c] # Nil /\ n \in NodeSelector[c]}

matchingConfigs(n) ==
    {c \in Configs : NodeSelector[c] # Nil /\ n \in NodeSelector[c]
                     /\ Available(c)}

eligibleForNode(n) ==
    IF matchingConfigs(n) # {} THEN matchingConfigs(n)
    ELSE {c \in Configs : NodeSelector[c] = Nil /\ Available(c)}

fewestNodes(S) ==
    First({c \in S : \A d \in S :
              Cardinality(activeNodes[c]) <= Cardinality(activeNodes[d])})

accommodateNodeByNodeSelector(n) ==
    /\ pc = "selector" /\ n \in todo
    /\ todo' = todo \ {n}
    /\ LET eligible == eligibleForNode(n)
       IN  IF n \in correct \/ idx[n] \in eligible
           THEN UNCHANGED <<activeNodes, nilNodes>>
           ELSE MoveNode(n, idx[n],
                         IF eligible = {} THEN 0 ELSE fewestNodes(eligible))
    /\ UNCHANGED <<cloud, users, budget, queues, activeServices, correct,
                   synced, pc, cur, target, idx, todoLBs, fipChanged>>

\* Back to reconcileLoadBalancer: either the memory is rebuilt, or every
\* backend pool follows.
accommodateNodesByNodeSelectorDone ==
    /\ pc = "selector" /\ todo = {}
    /\ idx' = [n \in Nodes |-> 0]
    /\ IF cur.init
       THEN /\ synced' = TRUE
            /\ cur' = [cur EXCEPT !.init = FALSE]
            /\ pc' = "choose"
            /\ UNCHANGED todoLBs
       ELSE /\ pc' = "hosts"
            /\ todoLBs' = exists
            /\ UNCHANGED <<synced, cur>>
    /\ UNCHANGED <<cloud, users, budget, queues, activeServices, activeNodes,
                   nilNodes, correct, target, todo, fipChanged>>

-------------------------------------------------------------------------------
(* Taking a service off a load balancer. *)

\* The last frontend goes: the load balancer is deleted, and the nodes of
\* its configuration are forgotten.  The second attempt, after a VMSS was
\* found to reference the pool, deletes it and forgets nothing.
cleanOrphanedLoadBalancer(l) ==
    /\ exists' = exists \ {l}
    /\ fips' = [fips EXCEPT ![l] = {}]
    /\ pool' = [pool EXCEPT ![l] = {}]
    /\ \/ /\ correct' = correct \ activeNodes[l[1]]
          /\ activeNodes' = [activeNodes EXCEPT ![l[1]] = {}]
          /\ nilNodes' = nilNodes \ {l[1]}
       \/ LegacyNICs /\ UNCHANGED <<correct, activeNodes, nilNodes>>

RemoveFrontend(l) ==
    IF fips[l] = {cur.s}
    THEN cleanOrphanedLoadBalancer(l)
    ELSE /\ fips' = [fips EXCEPT ![l] = @ \ {cur.s}]
         /\ UNCHANGED <<exists, pool, correct, activeNodes, nilNodes>>

\* Azure did it, the answer was an error: the code that follows is skipped.
RemoveFrontendUnnoticed(l) ==
    /\ fips' = [fips EXCEPT ![l] = @ \ {cur.s}]
    /\ IF fips[l] = {cur.s}
       THEN exists' = exists \ {l} /\ pool' = [pool EXCEPT ![l] = {}]
       ELSE UNCHANGED <<exists, pool>>

\* Mutant: the memory is trusted to know where the service is.
BugCurrentLBs ==
    {l \in exists : /\ l[2] = isInternal /\ cur.s \in fips[l]
                    /\ cur.s \in activeServices[l[1]]}

\* The load balancers of the wanted kind that have the service's frontend.
CurrentLBs == {l \in exists : l[2] = isInternal /\ cur.s \in fips[l]}

NextPcAfterChoice == IF wantLb THEN "pools" ELSE "put"

\* A service on a load balancer that is no longer the best one leaves it
\* first; a service on the best one, or to be deleted, stays for the next
\* steps to find.
getServiceLoadBalancer ==
    /\ pc = "choose" /\ ~NoEligible(cur)
    /\ \E c \in getMostEligibleLBForService(isInternal) :
          \/ /\ CurrentLBs = {}
             /\ target' = <<c, isInternal>>
             /\ UNCHANGED <<cloud, memory>>
          \/ \E l \in CurrentLBs :
               \/ /\ ~(wantLb /\ l[1] # c)
                  /\ target' = l
                  /\ UNCHANGED <<cloud, memory>>
               \/ /\ wantLb /\ l[1] # c
                  /\ RemoveFrontend(l)
                  /\ activeServices' =
                        [activeServices EXCEPT ![l[1]] = @ \ {cur.s}]
                  /\ target' = <<c, isInternal>>
                  /\ UNCHANGED synced
    /\ pc' = NextPcAfterChoice
    /\ UNCHANGED <<users, budget, queues, cur, idx, todo, todoLBs, fipChanged>>

\* No configuration is eligible: an error whatever the operation, and again
\* each time the controller tries.
getServiceLoadBalancerError ==
    /\ pc = "choose" /\ NoEligible(cur)
    /\ ReturnError
    /\ UNCHANGED <<cloud, memory, users, budget>>

-------------------------------------------------------------------------------
(* Bringing the chosen load balancer up to date. *)

\* Nodes that are excluded from load balancing leave the pool, unless it
\* would be empty.
ReconcileBackendPools ==
    LET excluded == {n \in Nodes : node[n] = "excluded"}
    IN  /\ pc = "pools"
        /\ pool' = IF target \in exists /\ ~(pool[target] \subseteq excluded)
                   THEN [pool EXCEPT ![target] = @ \ excluded] ELSE pool
        /\ pc' = "put"
        /\ UNCHANGED <<exists, fips, memory, users, budget, queues, local>>

OnTarget == target \in exists /\ cur.s \in fips[target]

\* The frontend and the rule are added and the load balancer is written,
\* when the service was not on it; then the nodes are arranged again.
CreateOrUpdateLB ==
    /\ pc = "put" /\ wantLb /\ target \in LBs
    /\ exists' = exists \cup {target}
    /\ fips' = [fips EXCEPT ![target] = @ \cup {cur.s}]
    /\ fipChanged' = (cur.s \notin fips[target])
    /\ removeDeletedNodesFromLoadBalancerConfigurations(activeNodes)
    /\ todo' = cur.nodes
    /\ pc' = "primary"
    /\ UNCHANGED <<pool, users, budget, queues, activeServices, nilNodes,
                   correct, synced, cur, target, todoLBs>>

\* Azure has no load balancer with an empty name.
CreateOrUpdateUnnamedLB ==
    /\ pc = "put" /\ wantLb /\ target \notin LBs
    /\ ReturnError
    /\ UNCHANGED <<cloud, memory, users, budget>>

Deleted(call) == IF call.ignored THEN "forgotten" ELSE "none"

\* Mutant: the load balancers of the other kind are not looked at.
BugEndLeg(call) ==
    /\ pc' = "idle"
    /\ svc' = IF call.kind = "delete"
              THEN [svc EXCEPT ![call.s].state = Deleted(call)] ELSE svc
    /\ ClearLocals

\* The second call of reconcileLoadBalancer, for the load balancers of the
\* other kind, or the end of the operation.
EndLeg(call) ==
    IF ~call.flipped
    THEN /\ cur' = [call EXCEPT !.flipped = TRUE]
         /\ pc' = "list"
         /\ target' = <<0, FALSE>>
         /\ UNCHANGED <<svc, idx, todo, todoLBs>>
         /\ fipChanged' = FALSE
    ELSE /\ pc' = "idle"
         /\ svc' = IF call.kind = "delete"
                   THEN [svc EXCEPT ![call.s].state = Deleted(call)] ELSE svc
         /\ ClearLocals

\* wantLb is false: the frontend and the rule go, if the service is on the
\* load balancer.
DeleteFrontend ==
    /\ pc = "put" /\ ~wantLb
    /\ IF OnTarget
       THEN /\ RemoveFrontend(target)
            /\ activeServices' =
                  [activeServices EXCEPT ![target[1]] = @ \ {cur.s}]
       ELSE UNCHANGED <<cloud, activeServices, activeNodes, nilNodes, correct>>
    /\ EndLeg(cur)
    /\ UNCHANGED <<node, allow, budget, queues, synced>>

\* The pool of one load balancer is made to follow ActiveNodes; every node
\* of the list belongs to a set that is nil.  An address of a node the
\* informer no longer knows stays.
EnsureHostsInPool(l) ==
    /\ pc = "hosts" /\ l \in todoLBs
    /\ todoLBs' = todoLBs \ {l}
    /\ pool' = [pool EXCEPT ![l] =
          {n \in cur.nodes :
              \/ l[1] \in nilNodes
              \/ n \in activeNodes[l[1]]
              \/ n \in pool[l] /\ node[n] = "absent"}]
    /\ UNCHANGED <<exists, fips, memory, users, budget, queues, pc, cur, target,
                   idx, todo, fipChanged>>

\* ActiveServices learns of the service only if its frontend has changed.
reconcileMultipleStandardLoadBalancerConfigurationStatus ==
    /\ pc = "hosts" /\ todoLBs = {}
    /\ activeServices' =
          IF fipChanged
          THEN [activeServices EXCEPT ![target[1]] = @ \cup {cur.s}]
          ELSE activeServices
    /\ EndLeg(cur)
    /\ UNCHANGED <<cloud, node, allow, budget, queues, activeNodes, nilNodes,
                   correct, synced>>

-------------------------------------------------------------------------------
(* Failures, users, nodes and restarts. *)

\* The current step makes a call to Azure.
Calling ==
    \/ pc \in {"list", "pools"}
    \/ pc = "primary" /\ todo \ correct # {}
    \/ pc = "choose" /\ CurrentLBs # {}
    \/ pc = "put" /\ (wantLb <=> ~OnTarget)
    \/ pc = "hosts" /\ todoLBs # {}

\* It fails before it does anything.
CallFails ==
    /\ Calling
    /\ faults < MaxFaults /\ faults' = faults + 1
    /\ ReturnError
    /\ UNCHANGED <<cloud, memory, users, edits, restarts>>

\* A write is carried out but answered with an error (or the read that
\* follows it fails).
CallFailsAfterWrite ==
    /\ \/ /\ pc = "put" /\ wantLb /\ target \in LBs /\ ~OnTarget
          /\ exists' = exists \cup {target}
          /\ fips' = [fips EXCEPT ![target] = @ \cup {cur.s}]
          /\ UNCHANGED pool
       \/ /\ pc = "put" /\ ~wantLb /\ OnTarget
          /\ RemoveFrontendUnnoticed(target)
       \/ /\ pc = "choose" /\ ~NoEligible(cur) /\ wantLb
          /\ \E l \in CurrentLBs :
                /\ \E c \in getMostEligibleLBForService(isInternal) : c # l[1]
                /\ RemoveFrontendUnnoticed(l)
    /\ faults < MaxFaults /\ faults' = faults + 1
    /\ ReturnError
    /\ UNCHANGED <<memory, users, edits, restarts>>

\* HasStatusForbiddenOrIgnoredError: the first reconcileLoadBalancer of
\* EnsureLoadBalancerDeleted is told "forbidden" or "not found", whatever call
\* it was making and whether or not it was carried out.  The deletion goes on
\* as if that part were done; the second call's errors are not ignored.
DeletionErrorIgnored ==
    /\ cur.kind = "delete" /\ ~cur.flipped
    /\ pc \in {"list", "choose", "put"} /\ Calling
    /\ \/ UNCHANGED cloud
       \/ pc = "put" /\ RemoveFrontendUnnoticed(target)
    /\ EndLeg([cur EXCEPT !.ignored = TRUE])
    /\ faults < MaxFaults /\ faults' = faults + 1
    /\ UNCHANGED <<memory, node, allow, queues, edits, restarts>>

EditService(s, x) ==
    /\ edits < MaxEdits /\ edits' = edits + 1
    /\ x # svc[s]
    /\ \/ svc[s].state \in Ended /\ x.state = "wanted"
       \/ svc[s].state = "wanted" /\ x.state = "wanted"
       \/ svc[s].state = "wanted" /\ x = [svc[s] EXCEPT !.state = "deleting"]
    /\ svc' = [svc EXCEPT ![s] = x]
    /\ dirty' = dirty \cup {s}
    /\ UNCHANGED <<cloud, memory, local, node, allow, pc, hostSync, faults,
                   restarts>>

Served == {s \in Services : svc[s].state \notin Ended}

\* The informer sees a node come, go or be excluded: only a node that is
\* deleted is forgotten.  The controller then updates every service.
updateNodeCaches(n, x) ==
    /\ edits < MaxEdits /\ edits' = edits + 1
    /\ x # node[n]
    /\ node' = [node EXCEPT ![n] = x]
    /\ correct' = IF x = "absent" THEN correct \ {n} ELSE correct
    /\ hostSync' = Served
    /\ UNCHANGED <<cloud, activeServices, activeNodes, nilNodes, synced, local,
                   svc, allow, pc, dirty, faults, restarts>>

\* The process stops anywhere and comes back, perhaps with another
\* configuration file; the controller looks at every service again.
Restart(a) ==
    /\ restarts < MaxRestarts /\ restarts' = restarts + 1
    /\ allow' = a
    /\ activeServices' = [c \in Configs |-> {}]
    /\ activeNodes' = [c \in Configs |-> {}]
    /\ nilNodes' = Configs
    /\ correct' = {}
    /\ synced' = FALSE
    /\ pc' = "idle"
    /\ dirty' = Served /\ hostSync' = {}
    /\ ClearLocals
    /\ UNCHANGED <<cloud, svc, node, edits, faults>>

Step ==
    \/ ListManagedLBs
    \/ \E n \in Nodes : accommodateNodeByPrimaryVMSet(n)
    \/ accommodateNodesByPrimaryVMSetDone
    \/ \E n \in Nodes : accommodateNodeByNodeSelector(n)
    \/ accommodateNodesByNodeSelectorDone
    \/ getServiceLoadBalancer
    \/ getServiceLoadBalancerError
    \/ ReconcileBackendPools
    \/ CreateOrUpdateLB
    \/ CreateOrUpdateUnnamedLB
    \/ DeleteFrontend
    \/ \E l \in LBs : EnsureHostsInPool(l)
    \/ reconcileMultipleStandardLoadBalancerConfigurationStatus

Next ==
    \/ \E s \in Services : EnsureLoadBalancer(s)
    \/ \E s \in Services : UpdateLoadBalancer(s)
    \/ \E s \in Services : EnsureLoadBalancerDeleted(s)
    \/ Step
    \/ CallFails
    \/ CallFailsAfterWrite
    \/ DeletionErrorIgnored
    \/ \E s \in Services, x \in Spelled : EditService(s, x)
    \/ \E n \in Nodes, x \in NodeStates : updateNodeCaches(n, x)
    \/ \E a \in Flags : Restart(a)

Spec == Init /\ [][Next]_vars

\* The controller's queue hands out every service that stays in it, and a
\* running operation goes on.
FairSpec ==
    /\ Spec
    /\ WF_vars(Step)
    /\ \A s \in Services :
          /\ SF_vars(EnsureLoadBalancer(s))
          /\ SF_vars(UpdateLoadBalancer(s))
          /\ SF_vars(EnsureLoadBalancerDeleted(s))

-------------------------------------------------------------------------------
(* Properties. *)

\* A service has its frontend on at most one load balancer of each kind,
\* whatever fails or restarts in the middle of a move
\* (getServiceLoadBalancer, removeFrontendIPConfigurationFromLoadBalancer).
OneFrontendPerKind ==
    \A l, m \in LBs :
        l[2] = m[2] /\ fips[l] \cap fips[m] # {} => l = m

\* Why it holds: only a load balancer that exists has frontends, and once a
\* load balancer is chosen, an ensure finds the service nowhere else among
\* those of its kind (getServiceLoadBalancer removed it from there).
FipsOnExisting == \A l \in LBs : fips[l] # {} => l \in exists

TargetSound ==
    pc \in {"pools", "put"} =>
        /\ target[2] = isInternal
        /\ wantLb => \A l \in LBs :
                        l[2] = isInternal /\ cur.s \in fips[l] => l = target

FrontendInv == FipsOnExisting /\ TargetSound /\ OneFrontendPerKind

\* The vmSet of the node is the primary one of no configuration.
Unclaimed(n) == \A c \in Configs : PrimaryVMSet[c] # VMSetOf[n]

\* When reconcileBackendPoolHosts is done, every node of the list that the
\* selectors arrange and some existing load balancer is eligible for is a
\* backend of all the load balancers of one configuration.
NodesServed ==
    pc = "hosts" /\ todoLBs = {} =>
        \A n \in cur.nodes :
            Unclaimed(n) /\ eligibleForNode(n) # {} =>
                \E c \in Configs :
                    /\ isLBInList(c)
                    /\ \A i \in BOOLEAN :
                          <<c, i>> \in exists => n \in pool[<<c, i>>]

\* The rules of getEligibleLoadBalancersForService, read from its comment,
\* for a configuration whose load balancer the service is really on.
RightfulPlace(c) ==
    /\ c \in selectedByAnnotation(cur)
    /\ LabelMatches(cur, c) /\ NamespaceMatches(cur, c)
    /\ NoSelector(c) => \A d \in eligibleBySelector(cur) : NoSelector(d)

\* An ensure never takes a service off a load balancer that is eligible and
\* that the service is using (getMostEligibleLBForService, rule 1).
StaysOnEligibleLB ==
    [][\A l \in CurrentLBs :
          pc = "choose" /\ wantLb /\ RightfulPlace(l[1])
              => cur.s \in fips'[l]]_vars

\* A service newly arrives only on a load balancer that allows placement,
\* or whose configuration it was already on (AllowServicePlacement).
PlacementRespectsFlag ==
    [][\A l \in LBs : \A s \in fips'[l] \ fips[l] :
          \/ allow[l[1]]
          \/ s \in fips[<<l[1], ~l[2]>>]]_vars

\* Once users and failures are done, every wanted service ends up on a load
\* balancer of its kind and of no other, and a deleted service on none, but
\* for one whose deletion was told "forbidden" or "not found" by Azure: that
\* may stay on a load balancer of its kind for good, since
\* EnsureLoadBalancerDeleted returns nil; of the other kind it still leaves.
Converges ==
    <>[](\A s \in Services :
            LET on(i) == \E c \in Configs : s \in fips[<<c, i>>]
                kind == svc[s].internal
            IN  /\ ~on(~kind)
                /\ \/ svc[s].state = "wanted" /\ on(kind)
                   \/ svc[s].state = "none" /\ ~on(kind)
                   \/ svc[s].state = "forgotten")

\* When the pools have been brought up to date, a node whose vmSet is the
\* primary one of a configuration with a load balancer is a backend of it.
PrimaryNodesServed ==
    pc = "hosts" /\ todoLBs = {} =>
        \A n \in cur.nodes, l \in exists :
            PrimaryVMSet[l[1]] = VMSetOf[n] => n \in pool[l]
===============================================================================
