------------------------------ MODULE NodeIpam ------------------------------
(***************************************************************************)
(* Node IPAM: the allocator that gives every node a pod CIDR of each       *)
(* cluster CIDR (pkg/nodeipam).  `mode` says which of the two allocators   *)
(* the controller was started with: the range allocator, one mask size for *)
(* every node, or the cloud allocator, the mask size of a node read from a *)
(* tag of its scale set.                                                   *)
(*                                                                         *)
(* A node's change reaches the lister (watch) and then, later, the handler *)
(* of the allocator (notes).  The handler reserves CIDRs in the bitmaps and*)
(* sends them to the workers, which patch the node.  Each try of a patch is*)
(* a step of its own, so events, other workers and a restart fall between. *)
(***************************************************************************)
EXTENDS CidrSet, Sequences, SequencesExt

CONSTANTS
    Names,              \* node names
    Workers,            \* the goroutines, 1..cidrUpdateWorkers
    Cluster,            \* units of each cluster CIDR, by index
    ServiceCIDRs,       \* pairs <<index, CIDR>> of the service ranges inside them
    NodeMask,           \* range allocator: units of a node's block, by index
    MaskOf,             \* cloud allocator: the sizes tagged on a node's scale set
    DefaultMask,        \* and those of a scale set without a readable tag
    Retries,            \* cidrUpdateRetries
    QueueSize,          \* cidrUpdateQueueSize
    Faults,             \* the outcomes of a call that may happen besides success
    Permanent,          \* nodes there from the start that are never deleted
    Budgets,            \* how many creations, deletions, faults and restarts there may be
    MaxPending,         \* bound on changes and events under way
    NoNode, NoCIDRs, Nil

Families == DOMAIN Cluster

\* The sizes of blocks, and those the cloud allocator may meet.
CloudMasks == {DefaultMask} \cup {MaskOf[n] : n \in Names}
Masks == {NodeMask} \cup CloudMasks

\* Blocks and cluster CIDRs are powers of two: of two, one divides the other.
ASSUME IpamAssumption ==
    /\ IsFiniteSet(Names) /\ Permanent \subseteq Names
    /\ Retries \in Nat \ {0} /\ QueueSize \in Nat \ {0}
    /\ Cluster \in Seq(Nat \ {0})
    /\ Masks \subseteq [Families -> Nat \ {0}] /\ Nil \notin Masks
    /\ \A f \in Families : \A s \in Masks :
         Cluster[f] % s[f] = 0 /\ \A u \in Masks : s[f] <= u[f] => u[f] % s[f] = 0
    /\ \A p \in ServiceCIDRs :
         /\ p[1] \in Families /\ p[2] \in [at : Nat, size : Nat \ {0}]
         /\ p[2].at + p[2].size <= Cluster[p[1]]
    /\ Faults \subseteq {"rejected", "timeout", "timeout_applied", "lost",
                         "condition", "tag", "mask"}

VARIABLES
    mode,       \* "range" or "cloud"
    api,        \* node objects: NoNode, NoCIDRs or the tuple of pod CIDRs
    lister,     \* nodeLister's copy of them
    watch,      \* changes the informer has not seen
    notes,      \* events the handlers have not been called with
    cidrSets,
    nodesInProcessing,
    channel,    \* nodeCIDRUpdateChannel
    worker,     \* of each worker: what it holds
    maskSizes,  \* nodeNameSubnetMaskSizesMap (cloud)
    podCIDRsMap,\* nodeNamePodCIDRsMap (cloud)
    budget      \* what is left of the bounds

ivars == <<mode, api, lister, watch, notes, cidrSets, nodesInProcessing,
           channel, worker, maskSizes, podCIDRsMap, budget>>

Idle == [pc |-> "idle"]
Event(type, n, cidrs) == [type |-> type, node |-> n, cidrs |-> cidrs]
Has(c) == c \notin {NoNode, NoCIDRs}
Tuples == [Families -> [at : Nat, size : Nat]]

ASSUME IpamNilAssumption ==
    NoNode # NoCIDRs /\ {NoNode, NoCIDRs, Nil} \cap Tuples = {}

Overlap(t, u) == \E f \in Families : Units(t[f]) \cap Units(u[f]) # {}

-----------------------------------------------------------------------------
\* NewCIDRRangeAllocator and NewCloudCIDRAllocator: bitmaps without the service
\* ranges and without the CIDRs of the nodes listed.
filterOutServiceRange(sets) ==
    [f \in Families |-> OccupyAll(sets[f], {p[2] : p \in {q \in ServiceCIDRs : q[1] = f}})]

BugOccupyListed(sets, nodes) == sets

OccupyListed(sets, nodes) ==
    [f \in Families |-> OccupyAll(sets[f], {nodes[n][f] : n \in {m \in Names : Has(nodes[m])}})]

\* The finest mask is the block of fewest units; without a node it is mask 0, a
\* block larger than the cluster CIDR.
Finest(sizes, f) ==
    Min({sizes[n][f] : n \in {m \in Names : sizes[m] # Nil}} \cup {2 * Cluster[f]})

NewCIDRRangeAllocator(nodes) ==
    OccupyListed(filterOutServiceRange([f \in Families |-> NewCIDRSet(Cluster[f], NodeMask[f])]), nodes)

NewCloudCIDRAllocator(nodes, sizes) ==
    OccupyListed(filterOutServiceRange([f \in Families |-> NewCIDRSet(Cluster[f], Finest(sizes, f))]), nodes)

Listed(nodes) == [n \in Names |-> IF nodes[n] = NoNode THEN Nil ELSE MaskOf[n]]

Started(m, nodes, sizes) ==
    IF m = "range" THEN NewCIDRRangeAllocator(nodes) ELSE NewCloudCIDRAllocator(nodes, sizes)

\* The informer's first list: an Add for every node.
FirstList(nodes) ==
    LET present == {n \in Names : nodes[n] # NoNode} IN
    {[i \in DOMAIN s |-> Event("add", s[i], nodes[s[i]])] : s \in SetToSeqs(present)}

IInit ==
    /\ mode \in {"range", "cloud"}
    /\ api = [n \in Names |-> IF n \in Permanent THEN NoCIDRs ELSE NoNode]
    /\ lister = api /\ watch = <<>> /\ notes \in FirstList(api)
    /\ maskSizes = Listed(api)
    /\ cidrSets = Started(mode, api, maskSizes)
    /\ podCIDRsMap = [n \in Names |-> Nil]
    /\ nodesInProcessing = {} /\ channel = <<>>
    /\ worker = [w \in Workers |-> Idle]
    /\ budget \in Budgets

Spend(b) == budget[b] > 0 /\ budget' = [budget EXCEPT ![b] = @ - 1]

-----------------------------------------------------------------------------
\* The API server and the informer.
allocatorVars == <<mode, cidrSets, nodesInProcessing, channel, worker, maskSizes, podCIDRsMap>>

Room == Len(watch) + Len(notes) < MaxPending

CreateNode(n) ==
    /\ Room /\ api[n] = NoNode /\ Spend("creates")
    /\ api' = [api EXCEPT ![n] = NoCIDRs]
    /\ watch' = Append(watch, Event("add", n, NoCIDRs))
    /\ UNCHANGED <<allocatorVars, lister, notes>>

DeleteNode(n) ==
    /\ Room /\ api[n] # NoNode /\ n \notin Permanent /\ Spend("deletes")
    /\ api' = [api EXCEPT ![n] = NoNode]
    /\ watch' = Append(watch, Event("delete", n, api[n]))
    /\ UNCHANGED <<allocatorVars, lister, notes>>

\* A status update of the kubelet, or a resync of the informer.  Those of a node
\* with CIDRs are left out: they do what the update that set the CIDRs does.
Heartbeat(n) ==
    /\ api[n] = NoCIDRs
    /\ \A e \in Range(watch \o notes) : e.node # n
    /\ watch' = Append(watch, Event("update", n, api[n]))
    /\ UNCHANGED <<allocatorVars, api, lister, notes, budget>>

Sync ==
    /\ watch # <<>>
    /\ LET e == Head(watch) IN
       /\ lister' = [lister EXCEPT ![e.node] = IF e.type = "delete" THEN NoNode ELSE e.cidrs]
       /\ notes' = Append(notes, e)
    /\ watch' = Tail(watch)
    /\ UNCHANGED <<allocatorVars, api, budget>>

\* PatchNodeCIDRs: the API server lets the pod CIDRs of a node be set once.
Accepts(n, cidrs) == api[n] \in {NoCIDRs, cidrs}

Apply(n, cidrs) ==
    /\ api' = [api EXCEPT ![n] = cidrs]
    /\ watch' = IF api[n] = cidrs THEN watch ELSE Append(watch, Event("update", n, cidrs))

-----------------------------------------------------------------------------
\* Handlers.
ReleaseAll(sets, cidrs) == [f \in Families |-> Release(sets[f], cidrs[f])]

\* rangeAllocator.allocatePodCIDRs: when the index of a family has no block left,
\* the blocks of the families before it are released in the bitmap of that index,
\* where they are out of range, and so stay taken.
CanAllocate(sets) == \A f \in Families : ~NoneLeft(sets[f])

FirstFull(sets) == Min({f \in Families : NoneLeft(sets[f])})

AllocateFamilies(sets) ==
    [f \in Families |->
        IF ~CanAllocate(sets) /\ f >= FirstFull(sets) THEN sets[f] ELSE AllocateNext(sets[f])]

allocatePodCIDRs(sets) == [f \in Families |-> NextBlock(sets[f])]

\* cloudCIDRAllocator.AllocateOrOccupyCIDR: blocks of the node's own size; those of
\* the families before a failing one stay taken.
CanAllocateSizes(sets, sizes) == \A f \in Families : FreeRuns(sets[f], sizes[f]) # {}

AllocateSizes(sets, sizes) ==
    LET full == {f \in Families : FreeRuns(sets[f], sizes[f]) = {}} IN
    [f \in Families |->
        IF full # {} /\ f >= Min(full) THEN sets[f]
        ELSE AllocateNextWithNodeMaskSize(sets[f], sizes[f])]

allocateSizes(sets, sizes) == [f \in Families |-> NextRun(sets[f], sizes[f])]

\* AllocateOrOccupyCIDR of the range allocator, called with the node of the event.
\* occupyCIDRs takes the mark away; the failure of an allocation does too.
Send(n, cidrs) == channel' = Append(channel, [node |-> n, cidrs |-> cidrs])

AllocateRange(e) ==
    /\ IF CanAllocate(cidrSets)
       THEN /\ Len(channel) < QueueSize
            /\ Send(e.node, allocatePodCIDRs(cidrSets))
            /\ nodesInProcessing' = nodesInProcessing \cup {e.node}
       ELSE UNCHANGED <<channel, nodesInProcessing>>
    /\ cidrSets' = AllocateFamilies(cidrSets)

occupyCIDRs(sets, cidrs) == [f \in Families |-> Occupy(sets[f], cidrs[f])]

RangeAllocateOrOccupy(e) ==
    /\ IF e.node \in nodesInProcessing THEN UNCHANGED <<channel, nodesInProcessing, cidrSets>>
       ELSE IF Has(e.cidrs)
       THEN cidrSets' = occupyCIDRs(cidrSets, e.cidrs) /\ UNCHANGED <<channel, nodesInProcessing>>
       ELSE AllocateRange(e)
    /\ UNCHANGED <<maskSizes, podCIDRsMap, budget>>

\* The same of the cloud allocator: first the sizes of the node are read, then a
\* finer size restarts the bitmaps from podCIDRsMap.  A size the cluster CIDR
\* cannot hold returns with the mark set.
updateNodeSubnetMaskSizes(n) ==
    {[fault |-> "none", sizes |-> MaskOf[n]]} \cup
    {r \in {[fault |-> "tag", sizes |-> DefaultMask], [fault |-> "mask", sizes |-> Nil]} :
        r.fault \in Faults /\ budget.faults > 0}

updateMaxSubnetMaskSizes(sets, sizes) ==
    [f \in Families |->
        UpdateSubnetMaskSize(sets[f], Finest(sizes, f),
            {podCIDRsMap[n][f] : n \in {m \in Names : podCIDRsMap[m] # Nil}})]

CloudAllocateOrOccupy(e) ==
    IF e.node \in nodesInProcessing
    THEN UNCHANGED <<channel, nodesInProcessing, cidrSets, maskSizes, podCIDRsMap, budget>>
    ELSE \E r \in updateNodeSubnetMaskSizes(e.node) :
       /\ IF r.fault = "none" THEN UNCHANGED budget ELSE Spend("faults")
       /\ IF r.sizes = Nil
          THEN /\ nodesInProcessing' = nodesInProcessing \cup {e.node}
               /\ UNCHANGED <<channel, cidrSets, maskSizes, podCIDRsMap>>
          ELSE /\ maskSizes' = [maskSizes EXCEPT ![e.node] = r.sizes]
               /\ LET sets == updateMaxSubnetMaskSizes(cidrSets, maskSizes') IN
                  IF Has(e.cidrs)
                  THEN /\ cidrSets' = occupyCIDRs(sets, e.cidrs)
                       /\ podCIDRsMap' = [podCIDRsMap EXCEPT ![e.node] = e.cidrs]
                       /\ UNCHANGED <<channel, nodesInProcessing>>
                  ELSE /\ IF CanAllocateSizes(sets, r.sizes)
                          THEN /\ Len(channel) < QueueSize
                               /\ Send(e.node, allocateSizes(sets, r.sizes))
                               /\ nodesInProcessing' = nodesInProcessing \cup {e.node}
                          ELSE UNCHANGED <<channel, nodesInProcessing>>
                       /\ cidrSets' = AllocateSizes(sets, r.sizes)
                       /\ UNCHANGED podCIDRsMap

\* UpdateFunc: the range allocator looks only at nodes without CIDRs; the cloud
\* allocator also at those whose NetworkUnavailable condition is not false (a
\* condition the route controller sets, at a time of its own).
BugAllocateOrOccupyCIDR(e) ==
    /\ e.type # "delete"
    /\ IF e.type = "update" THEN UNCHANGED <<cidrSets, nodesInProcessing, channel, maskSizes, podCIDRsMap, budget>>
       ELSE IF mode = "range" THEN RangeAllocateOrOccupy(e) ELSE CloudAllocateOrOccupy(e)

AllocateOrOccupyCIDR(e) ==
    /\ e.type = "add" \/ (e.type = "update" /\ (~Has(e.cidrs) \/ mode = "cloud"))
    /\ IF mode = "range" THEN RangeAllocateOrOccupy(e) ELSE CloudAllocateOrOccupy(e)

IgnoreUpdate(e) ==
    /\ e.type = "update" /\ Has(e.cidrs)
    /\ UNCHANGED <<cidrSets, nodesInProcessing, channel, maskSizes, podCIDRsMap, budget>>

ReleaseCIDR(e) ==
    /\ e.type = "delete"
    /\ IF Has(e.cidrs)
       THEN /\ cidrSets' = ReleaseAll(cidrSets, e.cidrs)
            /\ podCIDRsMap' = IF mode = "cloud" THEN [podCIDRsMap EXCEPT ![e.node] = Nil]
                                                ELSE podCIDRsMap
       ELSE UNCHANGED <<cidrSets, podCIDRsMap>>
    /\ UNCHANGED <<nodesInProcessing, channel, maskSizes, budget>>

Handle ==
    /\ notes # <<>>
    /\ LET e == Head(notes) IN AllocateOrOccupyCIDR(e) \/ IgnoreUpdate(e) \/ ReleaseCIDR(e)
    /\ notes' = Tail(notes)
    /\ UNCHANGED <<mode, api, lister, watch, worker>>

-----------------------------------------------------------------------------
\* Workers: updateCIDRsAllocation.
Done(w, n) ==
    /\ worker' = [worker EXCEPT ![w] = Idle]
    /\ nodesInProcessing' = nodesInProcessing \ {n}

\* They are alike: the first one that is idle stands for any of them.
Receive(w) ==
    /\ channel # <<>> /\ channel' = Tail(channel)
    /\ worker[w].pc = "idle" /\ \A v \in Workers : worker[v].pc = "idle" => w <= v

NotFound(w) ==
    /\ Receive(w) /\ lister[Head(channel).node] = NoNode
    /\ Done(w, Head(channel).node)
    /\ UNCHANGED <<mode, api, lister, watch, notes, cidrSets, maskSizes, podCIDRsMap, budget>>

\* An item without CIDRs (range allocator, after a failed patch) reserves anew; with
\* none left it goes back to the channel.
NotAvailable(w) ==
    /\ Receive(w) /\ lister[Head(channel).node] # NoNode
    /\ Head(channel).cidrs = Nil /\ ~CanAllocate(cidrSets)
    /\ cidrSets' = AllocateFamilies(cidrSets)
    /\ worker' = [worker EXCEPT ![w] = [pc |-> "requeue", item |-> Head(channel)]]
    /\ UNCHANGED <<mode, api, lister, watch, notes, nodesInProcessing, maskSizes, podCIDRsMap, budget>>

\* The CIDRs to patch and the bitmaps after reserving them.
Reserved(item, sets) ==
    IF item.cidrs = Nil THEN <<allocatePodCIDRs(sets), AllocateFamilies(sets)>>
    ELSE <<item.cidrs, sets>>

Take(w) ==
    /\ Receive(w)
    /\ LET item == Head(channel)
           node == lister[item.node]
           cidrs == Reserved(item, cidrSets)[1]
           sets == Reserved(item, cidrSets)[2]
       IN /\ node # NoNode
          /\ item.cidrs = Nil => CanAllocate(cidrSets)
          /\ \/ /\ Has(node)
                /\ cidrSets' = IF node = cidrs THEN sets ELSE ReleaseAll(sets, cidrs)
                /\ Done(w, item.node)
             \/ /\ node = NoCIDRs
                /\ cidrSets' = sets
                /\ worker' = [worker EXCEPT ![w] =
                        [pc |-> "patch", item |-> [node |-> item.node, cidrs |-> cidrs], tries |-> 0]]
                /\ UNCHANGED nodesInProcessing
    /\ UNCHANGED <<mode, api, lister, watch, notes, maskSizes, podCIDRsMap, budget>>

\* One try of the patch succeeds.
PatchOk(w) ==
    /\ worker[w].pc = "patch"
    /\ LET item == worker[w].item IN
       /\ Accepts(item.node, item.cidrs)
       /\ Apply(item.node, item.cidrs)
       /\ Done(w, item.node)
    /\ UNCHANGED <<mode, lister, notes, cidrSets, channel, maskSizes, podCIDRsMap, budget>>

\* What follows the failure of a try: another one or, after the last, the release
\* of the CIDRs unless the error is a server timeout.  The range allocator then
\* sends the item back; the cloud allocator takes the mark away, sets the node's
\* condition and sends the item back, CIDRs and all, when that fails.
Requeue(w, item) == worker' = [worker EXCEPT ![w] = [pc |-> "requeue", item |-> item]]

AfterFailure(w, err) ==
    LET item == worker[w].item IN
    IF worker[w].tries + 1 < Retries
    THEN /\ worker' = [worker EXCEPT ![w].tries = @ + 1]
         /\ UNCHANGED <<cidrSets, nodesInProcessing>>
    ELSE /\ cidrSets' = IF err = "timeout" THEN cidrSets ELSE ReleaseAll(cidrSets, item.cidrs)
         /\ IF mode = "range"
            THEN /\ Requeue(w, IF err = "timeout" THEN item ELSE [item EXCEPT !.cidrs = Nil])
                 /\ UNCHANGED nodesInProcessing
            ELSE /\ worker' = [worker EXCEPT ![w] = [pc |-> "condition", item |-> item]]
                 /\ UNCHANGED nodesInProcessing

\* Why a try fails: the API server refuses it; it fails, or is too late, before the
\* node is changed; or only its answer does.
PatchErrors(item) ==
    {o \in {[fault |-> "rejected", err |-> "rejected", applied |-> FALSE],
            [fault |-> "timeout", err |-> "timeout", applied |-> FALSE],
            [fault |-> "timeout_applied", err |-> "timeout", applied |-> TRUE],
            [fault |-> "lost", err |-> "lost", applied |-> TRUE]} :
        /\ o.fault \in Faults /\ budget.faults > 0
        /\ o.applied => Accepts(item.node, item.cidrs)}
    \cup {o \in {[fault |-> "none", err |-> "refused", applied |-> FALSE]} : ~Accepts(item.node, item.cidrs)}

PatchFails(w) ==
    /\ worker[w].pc = "patch"
    /\ \E o \in PatchErrors(worker[w].item) :
         /\ IF o.fault = "none" THEN UNCHANGED budget ELSE Spend("faults")
         /\ IF o.applied THEN Apply(worker[w].item.node, worker[w].item.cidrs)
                         ELSE UNCHANGED <<api, watch>>
         /\ AfterFailure(w, o.err)
    /\ UNCHANGED <<mode, lister, notes, channel, maskSizes, podCIDRsMap>>

\* SetNodeCondition of the cloud allocator.
SetNodeCondition(w) ==
    /\ worker[w].pc = "condition"
    /\ \E ok \in {TRUE} \cup {b \in {FALSE} : "condition" \in Faults} :
         IF ok THEN worker' = [worker EXCEPT ![w] = Idle] /\ UNCHANGED budget
               ELSE Spend("faults") /\ Requeue(w, worker[w].item)
    /\ nodesInProcessing' = nodesInProcessing \ {worker[w].item.node}
    /\ UNCHANGED <<mode, api, lister, watch, notes, cidrSets, channel, maskSizes, podCIDRsMap>>

SendBack(w) ==
    /\ worker[w].pc = "requeue" /\ Len(channel) < QueueSize
    /\ Send(worker[w].item.node, worker[w].item.cidrs)
    /\ worker' = [worker EXCEPT ![w] = Idle]
    /\ UNCHANGED <<mode, api, lister, watch, notes, cidrSets, nodesInProcessing,
                   maskSizes, podCIDRsMap, budget>>

\* The controller dies and a new one lists the nodes (ipam.New, listNodes).
Restart ==
    /\ Spend("restarts")
    /\ lister' = api /\ watch' = <<>> /\ notes' \in FirstList(api)
    /\ maskSizes' = Listed(api)
    /\ cidrSets' = Started(mode, api, maskSizes')
    /\ podCIDRsMap' = [n \in Names |-> IF mode = "cloud" /\ Has(api[n]) THEN api[n] ELSE Nil]
    /\ nodesInProcessing' = {} /\ channel' = <<>>
    /\ worker' = [w \in Workers |-> Idle]
    /\ UNCHANGED <<mode, api>>

updateCIDRsAllocation(w) ==
    \/ NotFound(w) \/ NotAvailable(w) \/ Take(w) \/ PatchOk(w) \/ PatchFails(w)
    \/ SetNodeCondition(w) \/ SendBack(w)

INext ==
    \/ \E n \in Names : CreateNode(n) \/ DeleteNode(n) \/ Heartbeat(n)
    \/ Sync \/ Handle \/ Restart
    \/ \E w \in Workers : updateCIDRsAllocation(w)

IFairness ==
    /\ \A n \in Names : WF_ivars(Heartbeat(n))
    /\ WF_ivars(Sync \/ Handle)
    /\ WF_ivars(\E w \in Workers : updateCIDRsAllocation(w))

ISpec == IInit /\ [][INext]_ivars /\ IFairness

-----------------------------------------------------------------------------
\* Type invariant.
Items == [node : Names, cidrs : Tuples \cup {Nil}]

ITypeOK ==
    /\ mode \in {"range", "cloud"}
    /\ {api[n] : n \in Names} \cup {lister[n] : n \in Names} \subseteq {NoNode, NoCIDRs} \cup Tuples
    /\ nodesInProcessing \subseteq Names
    /\ Range(channel) \subseteq Items
    /\ \A w \in Workers : worker[w] = Idle \/ worker[w].item \in Items

\* The CIDRs somebody may still give to a node: sent to the workers or held by one.
Held == {i.cidrs : i \in Range(channel) \cup {worker[w].item : w \in {v \in Workers : worker[v].pc \in {"patch", "requeue"}}}} \ {Nil}

\* Every unit of a CIDR that a node has, or that the workers may still patch into
\* one, is taken in the bitmap: nothing that is in use can be handed out again,
\* whatever the order of events, patches, releases and restarts.
AssignedIsUsed ==
    \A t \in Held \cup {api[n] : n \in {m \in Names : Has(api[m])}} : \A f \in Families :
        Indices(cidrSets[f], t[f]) \subseteq cidrSets[f].used

\* The counter a bitmap compares with its size is the number of its taken bits;
\* otherwise an allocation would fail with blocks left or find none.
CountMatches == \A f \in Families : cidrSets[f].count = Cardinality(cidrSets[f].used)

\* A node marked as in processing is being processed: its item is in the channel or
\* with a worker.  A mark nobody owns keeps the node without CIDRs for ever.
MarkOwned ==
    \A n \in nodesInProcessing :
        \/ \E i \in Range(channel) : i.node = n
        \/ \E w \in Workers : worker[w].pc # "idle" /\ worker[w].item.node = n

\* The pod CIDRs of the node objects are those the promise speaks of.
Promise == INSTANCE PodCidrPromise WITH podCIDRs <- api

\* What node IPAM promises: a node gets CIDRs once, and keeps them, and no
\* other node's overlap them, whatever the workers of both allocators do.
PromiseKept == Promise!PSpec

\* A node that has no CIDRs though there are blocks left for it.
Waiting(n) ==
    /\ api[n] = NoCIDRs
    /\ IF mode = "range" THEN CanAllocate(cidrSets) ELSE CanAllocateSizes(cidrSets, MaskOf[n])

\* No node is left waiting: after failed and timed out patches, dropped and repeated
\* events and a restart, there is always a later moment at which each node has its
\* CIDRs, is gone, or finds a cluster CIDR used up.
EveryNodeServed == []<>(\A n \in Names : ~Waiting(n))

\* The memory of the allocators: what is in use is taken, counters tell how
\* much that is, and the marks are those of work under way.
BitmapsSound == ITypeOK /\ AssignedIsUsed /\ CountMatches /\ MarkOwned
=============================================================================
