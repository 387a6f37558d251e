------------------------------- MODULE Machines -------------------------------
(***************************************************************************)
(* How the provider finds the machine behind a node: the caches of scale   *)
(* sets and their machines (azure_vmss_cache.go), of flexible scale sets   *)
(* (azure_vmssflex_cache.go), of single machines (azure_vmsets_repo.go)    *)
(* and of "what manages this node", the look-ups through them              *)
(* (azure_vmss.go), and the three questions the node controllers ask       *)
(* (azure_instances_v2.go): metadata for a new node, does it exist, is it  *)
(* shut down.  An answer "does not exist" deletes the node.                *)
(*                                                                         *)
(* A cache read is atomic (an entry is locked while its getter runs), but  *)
(* for the getter of nonVmssUniformNodesCache, which lists the machines    *)
(* and then the nodes; the reads of one question are separate steps.  The  *)
(* machines of `Uniform' are in one scale set, those of `Flex' in one      *)
(* flexible scale set, all in one resource group.  A name is used by one   *)
(* machine only, so a machine that is gone stays gone.                     *)
(***************************************************************************)
EXTENDS Naturals, FiniteSets

CONSTANTS
    Uniform, Flex, AvSet,   \* machines, by what manages them
    Old,                    \* the machines that run, with their nodes, when the provider starts
    Plans,                  \* what a behaviour may have, one of which is chosen: its machines, and bounds on
                            \* failing list calls and on deletions of cache entries of living nodes
    CacheFaults,            \* a subset of {"list", "second"}: which list calls may fail
    Ages                    \* the cache entries whose TTL may pass

ASSUME MachinesAssumption ==
    /\ \A p \in Plans : p.machines \subseteq Uniform \cup Flex \cup AvSet /\ p.faults \in Nat /\ p.deletes \in Nat
    /\ Old \subseteq Uniform \cup Flex \cup AvSet
    /\ CacheFaults \subseteq {"list", "second"}
    /\ Ages \subseteq {"groups", "sets", "uniform", "flex"} \cup AvSet
    /\ Uniform \cap Flex = {} /\ Uniform \cap AvSet = {} /\ Flex \cap AvSet = {}
    /\ AvSet \cap {"groups", "sets", "uniform", "flex"} = {}

Machine == Uniform \cup Flex \cup AvSet

\* The caches: nonVmssUniformNodesCache, vmssCache, vmssVMCache, vmssFlexVMCache, vmCache.
SharedCache == {"groups", "sets", "uniform", "flex"}

VARIABLES
    plan,       \* the machines and bounds of this behaviour
    vm,         \* machine -> "none", "creating", "running", "deleting", "gone": Azure's view
    node,       \* machine -> "none", "new", "ready": the node object of the cluster
    cache,      \* all the caches, see CachesInit
    asks,       \* "node" and "lifecycle" controller -> the question it is asking
    round,      \* the nodes the lifecycle controller has asked about in this round
    deletes,    \* nodes whose deletion the informer has still to hand to DeleteCacheForNode
    writer,     \* the DeleteCacheForNode that runs: its step, its node and the map it holds
    living      \* deletions of living nodes that are left

mvars == <<plan, vm, node, cache, asks, round, deletes, writer, living>>

Quiet == [pc |-> "idle"]

(***************************************************************************)
(* cache.loaded: the entries that hold data; cache.aged: those past their  *)
(* TTL.  cache.uniform[n] is "no", "vm" or "nil" (an entry whose machine   *)
(* is being deleted or was missing from a list).  cache.ids and            *)
(* cache.names are the maps of the flexible scale set that have no TTL.    *)
(* cache.held is the entry whose very map the writer holds, cache.faults   *)
(* the failing list calls that are left.  cache.list is what the getter of *)
(* nonVmssUniformNodesCache that runs has listed, and for whom; it runs    *)
(* under VMManagementTypeLockKey.  cache.list.nodes and cache.slipped are  *)
(* bookkeeping: the nodes there were then, and the nodes of availability   *)
(* sets that registered before the getter asked for the names.             *)
(***************************************************************************)
NoList == [by |-> "nobody", av |-> {}, fx |-> {}, nodes |-> {}, forced |-> FALSE]
CachesInit ==
    [loaded |-> {}, aged |-> {}, av |-> {}, fx |-> {}, nodes |-> {}, set |-> FALSE,
     uniform |-> [n \in Uniform |-> "no"], flex |-> {}, ids |-> {}, names |-> {},
     held |-> "none", faults |-> plan.faults, list |-> NoList, slipped |-> {}]

MInit ==
    /\ plan \in Plans
    /\ vm = [n \in Machine |-> IF n \in Old \cap plan.machines THEN "running" ELSE "none"]
    /\ node = [n \in Machine |-> IF n \in Old \cap plan.machines THEN "ready" ELSE "none"]
    /\ cache = CachesInit
    /\ asks = [p \in {"node", "lifecycle"} |-> Quiet]
    /\ round = {}
    /\ deletes = {}
    /\ writer = Quiet
    /\ living = plan.deletes

-----------------------------------------------------------------------------
(* Azure and the cluster.                                                  *)

\* Machines a list call of Azure returns.
Listed == {n \in Machine : vm[n] \in {"creating", "running", "deleting"}}

MachineStep(n) ==
    /\ \/ vm[n] = "none" /\ n \in plan.machines /\ vm' = [vm EXCEPT ![n] = "creating"]
       \/ vm[n] = "creating" /\ vm' = [vm EXCEPT ![n] = "running"]
       \/ vm[n] = "running" /\ vm' = [vm EXCEPT ![n] = "deleting"]
       \/ vm[n] = "deleting" /\ vm' = [vm EXCEPT ![n] = "gone"]
    /\ UNCHANGED <<plan, node, cache, asks, round, deletes, writer, living>>

\* The kubelet of a running machine registers its node.
Register(n) ==
    /\ vm[n] = "running" /\ node[n] = "none"
    /\ node' = [node EXCEPT ![n] = "new"]
    /\ UNCHANGED <<plan, vm, cache, asks, round, deletes, writer, living>>

\* Time passes: an entry reaches its TTL.
Expire(c) ==
    /\ c \in cache.loaded /\ c \notin cache.aged
    /\ cache' = [cache EXCEPT !.aged = @ \cup {c}]
    /\ UNCHANGED <<plan, vm, node, asks, round, deletes, writer, living>>

-----------------------------------------------------------------------------
(* The getters.  The result of a read is a set of outcomes: whether it     *)
(* succeeded and the caches it leaves.                                     *)

\* The getter of nonVmssUniformNodesCache, second half: the names of the nodes of the cluster now, with
\* the single machines that were listed before.
InCluster == {n \in Machine : node[n] # "none"}
ListGroups(c) ==
    [c EXCEPT !.av = c.list.av, !.fx = c.list.fx, !.nodes = InCluster, !.list = NoList,
              !.slipped = (InCluster \cap AvSet) \ c.list.nodes]

\* The getter of vmssCache; the scale set exists once it has a machine.
ListSets(c) == [c EXCEPT !.set = \E n \in Uniform : vm[n] # "none"]

\* The getter of vmssVMCache.  A machine whose network profile is not there yet is skipped, one that
\* is being deleted has a nil entry, and so has one that was cached before and is not listed any more.
ListUniform(c) ==
    [c EXCEPT !.uniform =
        [n \in Uniform |->
            CASE vm[n] = "running" -> "vm"
              [] vm[n] = "deleting" -> "nil"
              [] OTHER -> IF c.uniform[n] = "no" THEN "no" ELSE "nil"]]

\* The getter of vmssFlexVMCache: the first list fills the two maps at once, the second completes the
\* machines with their instance view; only then the result becomes the entry.
NameFlex(c) == [c EXCEPT !.ids = @ \cup (Listed \cap Flex), !.names = @ \cup (Listed \cap Flex)]
ListFlex(c) == [NameFlex(c) EXCEPT !.flex = Listed \cap Flex]

\* What a getter leaves.  That of vmCache returns nil, which is not kept as data, for a machine that is
\* not found or being deleted.
Fetched(c, key) ==
    LET d == CASE key = "groups" -> ListGroups(c) [] key = "sets" -> ListSets(c)
               [] key = "uniform" -> ListUniform(c) [] key = "flex" -> ListFlex(c) [] OTHER -> c
        kept == key \in SharedCache \/ vm[key] \in {"creating", "running"}
    IN  [d EXCEPT !.loaded = IF kept THEN @ \cup {key} ELSE @ \ {key}, !.aged = @ \ {key},
                  !.held = IF @ = key THEN "none" ELSE @]

\* TimedCache.get with its read type.
Read(c, key, crt) ==
    IF key \in c.loaded /\ crt # "force" /\ (crt = "unsafe" \/ key \notin c.aged)
    THEN {[ok |-> TRUE, c |-> c]}
    ELSE {[ok |-> TRUE, c |-> Fetched(c, key)]}
         \cup {[ok |-> FALSE, c |-> [(IF f = "second" THEN NameFlex(c) ELSE c) EXCEPT !.faults = @ - 1]] :
                 f \in {f \in CacheFaults : c.faults > 0 /\ (f = "second" => key = "flex")}}

Answer(a, c) == {[a |-> a, c |-> c]}

-----------------------------------------------------------------------------
(* The look-ups.  Their result is a set of [a |-> answer, c |-> caches].   *)

GroupOf(c, n) == CASE n \in c.av -> "avset" [] n \in c.fx -> "flex" [] OTHER -> "uniform"

\* The getter of nonVmssUniformNodesCache, first half: it lists all single machines, for p.
ListMachines(c, p, forced) ==
    Answer("listing", [c EXCEPT !.list = [by |-> p, av |-> Listed \cap AvSet, fx |-> Listed \cap Flex,
                                          nodes |-> InCluster, forced |-> forced]])
    \cup {[a |-> "error", c |-> [c EXCEPT !.faults = @ - 1]] : f \in {f \in CacheFaults : f = "list" /\ c.faults > 0}}

\* getVMManagementTypeByNodeName of p, under VMManagementTypeLockKey: a node the cache does not know, and
\* that no cached scale set has, refreshes it; what is in no list is taken for a scale set's machine.
Known(c, n) == n \in c.nodes \cup c.av \cup c.fx \/ (n \in Uniform /\ c.uniform[n] # "no")
GroupListed(c, n, p, forced) ==
    IF Known(c, n) \/ forced THEN Answer(GroupOf(c, n), c) ELSE ListMachines(c, p, TRUE)
GroupByName(c, n, p) ==
    CASE c.list.by = p -> GroupListed(Fetched(c, "groups"), n, p, c.list.forced)
      [] c.list.by \notin {p, "nobody"} -> {}
      [] OTHER -> IF "groups" \in c.loaded THEN GroupListed(c, n, p, FALSE) ELSE ListMachines(c, p, FALSE)

\* getVMManagementTypeByProviderID: the ID of a scale set's machine says so; any other must be cached.
GroupCached(c, n) == Answer(IF n \in c.av \cup c.fx THEN GroupOf(c, n) ELSE "error", c)
GroupByProviderID(c, n, p) ==
    CASE n \in Uniform -> Answer("uniform", c)
      [] n \notin Uniform /\ c.list.by = p -> GroupCached(Fetched(c, "groups"), n)
      [] n \notin Uniform /\ c.list.by \notin {p, "nobody"} -> {}
      [] OTHER -> IF "groups" \in c.loaded THEN GroupCached(c, n) ELSE ListMachines(c, p, TRUE)

\* getNodeIdentityByNodeName: the scale set whose prefix the name has, after one forced refresh.
Identity(c, n, crt) ==
    UNION {IF ~r.ok THEN Answer("error", r.c)
           ELSE IF r.c.set /\ n \in Uniform THEN Answer("ok", r.c)
           ELSE {[a |-> IF ~f.ok THEN "error" ELSE IF f.c.set /\ n \in Uniform THEN "ok" ELSE "notfound",
                  c |-> f.c] : f \in Read(r.c, "sets", "force")}
           : r \in Read(c, "sets", crt)}

Entry(r, n) == IF ~r.ok THEN "error" ELSE r.c.uniform[n]

\* getVmssVMByNodeIdentity before and after it takes the lock of the scale set: a nil entry is an
\* answer, a missing one is looked up again and then refreshed.
MachineFirst(c, n, crt) ==
    {[a |-> CASE Entry(r, n) = "vm" -> "found" [] Entry(r, n) = "nil" -> "notfound"
              [] Entry(r, n) = "no" -> "locked" [] OTHER -> "error", c |-> r.c] :
       r \in Read(c, "uniform", crt)}
BugMachineLocked(c, n, crt) ==
    {[a |-> IF Entry(r, n) = "vm" THEN "found" ELSE "notfound", c |-> r.c] : r \in Read(c, "uniform", crt)}
MachineLocked(c, n, crt) ==
    UNION {IF Entry(r, n) = "vm" THEN Answer("found", r.c)
           ELSE {[a |-> CASE Entry(f, n) = "vm" -> "found" [] Entry(f, n) = "error" -> "error"
                          [] OTHER -> "notfound", c |-> f.c] : f \in Read(r.c, "uniform", "force")}
           : r \in Read(c, "uniform", crt)}

\* getVmssVMByInstanceID: not found forces a refresh, a nil entry is read once more if it is expired.
ByInstanceID(c, n) ==
    UNION {IF Entry(r, n) = "error" THEN Answer("error", r.c)
           ELSE UNION {IF Entry(f, n) = "nil"
                       THEN {[a |-> CASE Entry(g, n) = "vm" -> "found" [] Entry(g, n) = "error" -> "error"
                                      [] OTHER -> "notfound", c |-> g.c] : g \in Read(f.c, "uniform", "default")}
                       ELSE Answer(CASE Entry(f, n) = "vm" -> "found" [] Entry(f, n) = "error" -> "error"
                                     [] OTHER -> "notfound", f.c)
                       : f \in IF Entry(r, n) = "no" THEN Read(r.c, "uniform", "force") ELSE {r}}
           : r \in Read(c, "uniform", "unsafe")}

\* getNodeVmssFlexID and getNodeNameByVMName: the map without TTL, or a refresh of every flexible
\* scale set, twice if need be; a refresh that fails is only logged.
FlexKnown(c, n, map) ==
    IF n \in c[map] THEN Answer("ok", c)
    ELSE UNION {IF n \in r.c[map] THEN Answer("ok", r.c)
                ELSE {[a |-> IF n \in f.c[map] THEN "ok" ELSE "notfound", c |-> f.c] :
                        f \in Read(r.c, "flex", "force")}
                : r \in Read(c, "flex", "force")}

FlexID(c, n) == FlexKnown(c, n, "ids")
FlexNodeName(c, n) == FlexKnown(c, n, "names")

\* getVmssFlexVM once the scale set is known: no entry "means it is deleted".
FlexMachine(c, n, crt) ==
    {[a |-> IF ~r.ok THEN "error" ELSE IF n \in r.c.flex THEN "found" ELSE "notfound", c |-> r.c] :
       r \in Read(c, "flex", crt)}

\* getVirtualMachine, through vmCache.
SingleMachine(c, n, crt) ==
    {[a |-> IF ~r.ok THEN "error" ELSE IF n \in r.c.loaded THEN "found" ELSE "notfound", c |-> r.c] :
       r \in Read(c, n, crt)}

-----------------------------------------------------------------------------
(* The questions.  InstanceMetadata goes by name, with unsafe reads;       *)
(* InstanceExists by provider ID and then by name, with unsafe reads;      *)
(* InstanceShutdown likewise, with default reads of the machine.           *)

BugReadType(op) == "unsafe"

\* InstanceMetadata asks for the four parts in turn, each through the same look-ups.
MetadataPart == {"id", "type", "addresses", "zone"}
NextPart(op) == CASE op = "id" -> "type" [] op = "type" -> "addresses" [] OTHER -> "zone"
ReadType(op) == IF op = "shutdown" THEN "default" ELSE "unsafe"

Ask(p, op, n) ==
    /\ asks[p].pc = "idle"
    /\ asks' = [asks EXCEPT ![p] = [pc |-> IF op = "exists" THEN "name" ELSE "group", op |-> op, n |-> n]]
    /\ UNCHANGED <<plan, vm, node, cache, deletes, writer, living>>

\* The cloud node controller asks for the metadata of a node that is not initialized, the lifecycle
\* controller whether a node exists; one without a provider ID is looked up by its name first.
AskMetadata(n) == node[n] = "new" /\ Ask("node", "id", n) /\ UNCHANGED round
AskExists(n) ==
    /\ node[n] # "none" /\ n \notin round
    /\ Ask("lifecycle", IF node[n] = "new" THEN "provider" ELSE "exists", n)
    /\ LET due == {m \in Machine : node[m] # "none"} \ (round \cup {n})
       IN  round' = IF due = {} THEN {} ELSE round \cup {n}

\* What the controller does with the answer: the node is initialized or deleted, or InstanceShutdown
\* is asked next.
Answered(p, a) ==
    LET q == asks[p]
        gone == q.op \in {"provider", "exists"} /\ a = "notfound" /\ node[q.n] # "none"
    IN  /\ node' = [node EXCEPT ![q.n] = CASE gone -> "none"
                                           [] q.op = "zone" /\ a = "found" /\ @ = "new" -> "ready"
                                           [] OTHER -> @]
        /\ deletes' = IF gone THEN deletes \cup {q.n} ELSE deletes
        /\ asks' = [asks EXCEPT ![p] = IF q.op \in MetadataPart /\ a = "found" /\ q.op # "zone"
                                       THEN [q EXCEPT !.pc = "group", !.op = NextPart(@)]
                                       ELSE IF q.op \in {"provider", "exists"} /\ a = "found"
                                       THEN [q EXCEPT !.pc = "name",
                                                      !.op = IF @ = "provider" THEN "exists" ELSE "shutdown"]
                                       ELSE Quiet]

\* A step of a question: one read; its outcome is the answer or decides the next step.
Step(p, outcomes, next) ==
    /\ \E r \in outcomes :
          /\ cache' = r.c
          /\ IF r.a \in DOMAIN next
             THEN asks' = [asks EXCEPT ![p].pc = next[r.a]] /\ UNCHANGED <<node, deletes>>
             ELSE Answered(p, r.a)
    /\ UNCHANGED <<plan, vm, round, writer, living>>

\* GetNodeNameByProviderID: it needs the group, and for the machine of a scale set its name, the
\* computer name of the machine, or for one of a flexible scale set the map of names.
NodeName(p) ==
    LET n == asks[p].n IN
    /\ asks[p].pc = "name"
    /\ Step(p, UNION {CASE g.a = "uniform" -> ByInstanceID(g.c, n)
                        [] g.a = "flex" -> FlexNodeName(g.c, n)
                        [] OTHER -> {g} : g \in GroupByProviderID(cache, n, p)},
            [a \in {"found", "ok", "avset", "listing"} |-> IF a = "listing" THEN "name" ELSE "group"])

\* getVMManagementTypeByNodeName, and for the machine of a scale set getNodeIdentityByNodeName.
Group(p) ==
    LET q == asks[p] IN
    /\ q.pc = "group"
    /\ Step(p, UNION {IF g.a = "uniform" THEN Identity(g.c, q.n, ReadType(q.op)) ELSE {g} :
                         g \in GroupByName(cache, q.n, p)},
            [g \in {"ok", "flex", "avset", "listing"} |->
                CASE g = "ok" -> "first" [] g = "listing" -> "group" [] OTHER -> g])

\* GetInstanceIDByNodeName, GetPowerStatusByNodeName and GetProvisioningStateByNodeName, by group.
OfAvSet(p) == asks[p].pc = "avset" /\ Step(p, SingleMachine(cache, asks[p].n, ReadType(asks[p].op)), <<>>)
OfFlexID(p) == asks[p].pc = "flex" /\ Step(p, FlexID(cache, asks[p].n), [a \in {"ok"} |-> "flexvm"])
OfFlex(p) == asks[p].pc = "flexvm" /\ Step(p, FlexMachine(cache, asks[p].n, ReadType(asks[p].op)), <<>>)
OfUniform(p) == asks[p].pc = "first"
                /\ Step(p, MachineFirst(cache, asks[p].n, ReadType(asks[p].op)), [a \in {"locked"} |-> "locked"])
OfUniformLocked(p) == asks[p].pc = "locked" /\ writer.pc # "hold"
                      /\ Step(p, MachineLocked(cache, asks[p].n, ReadType(asks[p].op)), <<>>)

-----------------------------------------------------------------------------
(* DeleteCacheForNode: of a node that was deleted (the informer's handler) *)
(* or of a living node of a scale set (after a change of its backend       *)
(* pools, or when it has no fault domain).  It takes the map out of the    *)
(* cache, under the lock of the scale set, which no refresh takes, deletes *)
(* the node in it and puts it back with a new timestamp.                   *)

BeginDelete(n) ==
    \E g \in GroupByName(cache, n, "writer") :
        \/ /\ g.a = "listing"
           /\ cache' = g.c
           /\ writer' = [pc |-> "listing", n |-> n]
        \/ /\ g.a = "avset"                     \* vmCache.Delete
           /\ cache' = [g.c EXCEPT !.loaded = @ \ {n}, !.aged = @ \ {n}]
           /\ writer' = Quiet
        \/ /\ g.a = "flex"
           /\ \E i \in FlexID(g.c, n) :
                 \E r \in IF i.a = "ok" THEN Read(i.c, "flex", "default") ELSE {[ok |-> FALSE, c |-> i.c]} :
                    IF r.ok THEN /\ cache' = [r.c EXCEPT !.held = "flex"]
                                 /\ writer' = [pc |-> "hold", n |-> n, key |-> "flex", map |-> r.c.flex]
                    ELSE cache' = r.c /\ writer' = Quiet
        \/ /\ g.a = "uniform"
           /\ \E i \in Identity(g.c, n, "unsafe") :
                 \E r \in IF i.a = "ok" THEN Read(i.c, "uniform", "unsafe") ELSE {[ok |-> FALSE, c |-> i.c]} :
                    IF r.ok THEN /\ cache' = [r.c EXCEPT !.held = "uniform"]
                                 /\ writer' = [pc |-> "hold", n |-> n, key |-> "uniform", map |-> r.c.uniform]
                    ELSE cache' = r.c /\ writer' = Quiet
        \/ g.a = "error" /\ cache' = g.c /\ writer' = Quiet

DeletedEvent(n) ==
    /\ writer.pc = "idle" /\ n \in deletes
    /\ BeginDelete(n)
    /\ deletes' = deletes \ {n}
    /\ UNCHANGED <<plan, vm, node, asks, round, living>>

DeleteLiving(n) ==
    /\ writer.pc = "idle" /\ living > 0 /\ n \in Uniform /\ node[n] = "ready"
    /\ BeginDelete(n)
    /\ living' = living - 1
    /\ UNCHANGED <<plan, vm, node, asks, round, deletes>>

DeleteListed ==
    /\ writer.pc = "listing"
    /\ BeginDelete(writer.n)
    /\ UNCHANGED <<plan, vm, node, asks, round, deletes, living>>

\* The map that was taken, without the node, is the entry again, whatever a refresh has put there.
Without(map, key, n) == IF key = "flex" THEN map \ {n} ELSE [map EXCEPT ![n] = "no"]
PutBack ==
    /\ writer.pc = "hold"
    /\ LET k == writer.key
           map == Without(IF cache.held = k THEN cache[k] ELSE writer.map, k, writer.n)
       IN  /\ cache' = [cache EXCEPT ![k] = map, !.aged = @ \ {k}, !.loaded = @ \cup {k}, !.held = "none"]
           /\ writer' = IF k = "flex" THEN [pc |-> "unname", n |-> writer.n] ELSE Quiet
    /\ UNCHANGED <<plan, vm, node, asks, round, deletes, living>>

\* vmssFlexVMNameToVmssID.Delete; vmssFlexVMNameToNodeName keeps the name.
Unname ==
    /\ writer.pc = "unname"
    /\ cache' = [cache EXCEPT !.ids = @ \ {writer.n}]
    /\ writer' = Quiet
    /\ UNCHANGED <<plan, vm, node, asks, round, deletes, living>>

MStep(p) == NodeName(p) \/ Group(p) \/ OfAvSet(p) \/ OfFlexID(p) \/ OfFlex(p) \/ OfUniform(p)
            \/ OfUniformLocked(p)
MNext ==
    \/ \E n \in Machine : MachineStep(n) \/ Register(n) \/ AskMetadata(n) \/ AskExists(n)
                          \/ DeletedEvent(n) \/ DeleteLiving(n)
    \/ \E c \in Ages : Expire(c)
    \/ \E p \in {"node", "lifecycle"} : MStep(p)
    \/ DeleteListed \/ PutBack \/ Unname

\* The controllers run for ever, time passes, and goroutines that run are scheduled.
MFairness ==
    /\ WF_mvars(MStep("lifecycle") \/ DeleteListed \/ PutBack \/ Unname)
    /\ WF_mvars(MStep("node"))
    /\ WF_mvars(\E n \in Machine : AskExists(n))
    /\ WF_mvars(Expire("uniform"))
MSpec == MInit /\ [][MNext]_mvars /\ MFairness

-----------------------------------------------------------------------------
\* Type invariant of the machines and the caches.
MTypeOK ==
    /\ vm \in [Machine -> {"none", "creating", "running", "deleting", "gone"}]
    /\ node \in [Machine -> {"none", "new", "ready"}]
    /\ cache.loaded \subseteq SharedCache \cup AvSet /\ cache.aged \subseteq cache.loaded
    /\ cache.uniform \in [Uniform -> {"no", "nil", "vm"}]
    /\ cache.flex \cup cache.ids \cup cache.names \subseteq Flex
    /\ cache.held \in {"none", "uniform", "flex"} /\ cache.faults \in 0..plan.faults
    /\ cache.list.by \in {"nobody", "node", "lifecycle", "writer"}

\* "If false is returned with no error, the instance will be immediately deleted by the cloud
\* controller manager" (azure_instances_v1.go): no stale, half-filled or put-back cache makes
\* InstanceExists deny a machine of a scale set or an availability set that is running; but for a node of
\* an availability set that registered in the middle of the refresh the answer rests on, after the machines
\* were listed and before the names of the nodes were: the cache then knows the node and not its machine,
\* and the node is deleted.
RunningNotDenied ==
    /\ []MTypeOK
    /\ [][\A n \in Uniform \cup AvSet :
             node[n] # "none" /\ node'[n] = "none" => vm[n] # "running" \/ n \in cache'.slipped]_mvars

\* The same of the machines of a flexible scale set.
FlexNotDenied ==
    [][\A n \in Flex : node[n] # "none" /\ node'[n] = "none" => vm[n] # "running"]_mvars

\* The node of a scale set's machine that is gone is deleted, although InstanceExists reads the cache
\* whatever its age: InstanceShutdown, asked after each positive answer, refreshes what is expired.
GoneIsNoticed == []<>(\A n \in Uniform : vm[n] = "gone" => node[n] = "none")
=============================================================================
