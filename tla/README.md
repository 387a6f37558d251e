# A TLA+ verification of the Azure cloud provider

This directory models the Kubernetes cloud provider for Azure (`pkg/provider`,
`pkg/cache`, `pkg/azureclients`, `pkg/retry`, `pkg/nodeipam`, `pkg/nodemanager`), checks the models with TLC on small instances and
proves the most important results with TLAPS for every instance. All line numbers
and file names refer to the repository; `PROJECT.json` maps every definition to
the lines it models, lists the runs, the theorems, the hazards and the findings.

- [1. The system](#1-the-system)
- [2. The modules and the code](#2-the-modules-and-the-code)
- [3. What is checked](#3-what-is-checked)
- [4. What is proved](#4-what-is-proved)
- [5. Where code and documentation disagree](#5-where-code-and-documentation-disagree)
- [6. What is not modelled](#6-what-is-not-modelled)
- [7. Plan](#7-plan)

## 1. The system

The cloud controller manager (CCM) is one elected process. The service
controller, the route controller and the node controllers of Kubernetes call into
`pkg/provider`, which reads Azure through caches, changes Azure with PUT requests
and keeps some of what it did in memory. A failed call is retried by the
controller that made it. Azure has no transactions over several resources, other
components and users change the same resources, and the process can end at any
step. Almost everything hard in this code comes from these four facts.

| Component | State | Operations | Interacts with | What is hard, and what correct means |
|---|---|---|---|---|
| Route updater (`azure_routes.go`, `routetable/`) | queue of operations, `d.lock`, one unbuffered channel per operation, cached route table with etag, CIDRs of unmanaged nodes | `ListRoutes`, `CreateRoute`, `DeleteRoute`, the goroutine `updateRoutes` | route controller (several goroutines), the cache, other users of the table | callers and the updater interleave, one PUT answers a whole batch, the cache is stale: no answer lost, no send that blocks, the last operation on a route wins, nobody else's route is touched |
| Multiple standard load balancers (`azure_loadbalancer*.go`, `config/multi_slb.go`) | per configuration `ActiveServices`, `ActiveNodes`, nodes matched by primary vmSet, "synced" flag; in Azure load balancers, frontends, pools | `EnsureLoadBalancer`, `UpdateLoadBalancer`, `EnsureLoadBalancerDeleted` | service controller, node informer, users, the lease, the caches | long sequences of requests that fail half-way or are cut by a restart, memory rebuilt from Azure: a service on one load balancer of its kind, staying where it is if it may, nodes served, convergence |
| Frontends, rules and public IPs (`azure_loadbalancer.go`, `azure_publicip_repo.go`) | frontends and rules by name, tags on public IPs that name the services sharing them, the cached list of public IPs | the calls of the service controller, as far as addresses go | load balancers, private link service, users who edit services and own public IPs | ownership shared by tag and by name through long sequences of edits: an address in use is never taken away, nothing is left behind, a user's public IP is not touched |
| Security group (`loadbalancer/accesscontrol.go`, `securitygroup/`, `iputil`) | rules found by name, cached group with etag | `reconcileSecurityGroup` | every service of the cluster, users' rules | rules shared between services, priorities, aggregation of ranges: exactly the asked clients get through, others keep their rules |
| Private link service (`azure_privatelinkservice.go`) | the private link service of a frontend, its owner in a tag, a cache | `reconcilePrivateLinkService` | frontends | it keeps its frontend from being deleted, and several services share it |
| Pools of local services (`azure_local_services.go`) | EndpointSlices, load balancer and pool of each local service, queue of pool operations | informer callbacks, the goroutine of the batch updater, `checkAndApplyLocalServiceBackendPoolUpdates` | load balancer reconciliation, informers | three writers towards one pool, with state read before a lock: the pool holds the nodes of the endpoints, and a deleted pool stays deleted |
| Scale set and machine caches, instances (`azure_vmss*.go`, `azure_standard.go`, `azure_instances*.go`) | five caches and maps without TTL, objects handed out by reference | metadata, exists, shut down; `DeleteCacheForNode` | the node controllers, which delete a node the provider denies | refreshes, put-backs and invalidations interleave: a running machine is not denied, a deleted one is noticed |
| Disks (`azure_controller_*.go`) | the list of disks of a machine, in Azure and cached | attach, detach, wait | disk drivers | the whole list is written back from a cached read: a promised disk stays, a detached one is off |
| Backend hosts (`azure_vmss.go`, `azure_vmssflex.go`, `azure_standard.go`) | pools named by interfaces and by scale set models | `EnsureHostsInPool`, `EnsureBackendPoolDeleted` | load balancer reconciliation, caches | cached objects are changed before the request that may fail |
| Storage accounts (`azure_storageaccount.go`) | accounts in Azure, two caches, a lock per account | `EnsureStorageAccount`, tag updates | storage drivers, concurrently | a search and eleven remote steps without a lock |
| Resource cache (`pkg/cache`) | map from key to entry, data and age and a lock per entry | `Get` in three modes, `GetWithDeepCopy`, `Set`, `Update`, `Delete` | every component that reads Azure | entries are replaced while readers hold them: no read after an invalidation sees older data, and none goes back behind an earlier read |
| Lease (`azure_lock.go`) | a Lease object in the API server | `Lock`, `Unlock` | the service calls; other components that take the same lease | expiry, lost answers, stale copies: mutual exclusion, fresh caches, no lease lost for ever |
| Azure clients, errors and retry (`pkg/azureclients`, `pkg/retry`) | token buckets, `RetryAfterReader`, `RetryAfterWriter` | some ninety operations over one sending core, the batched PUT | all of the above | backoff, regional retry, pages and futures nest: throttling stops a call and is remembered, calls are bounded and end, failures are not lost |
| Node IPAM (`pkg/nodeipam`) | bitmap of CIDRs per family, nodes in processing, channel, and for the cloud allocator masks and CIDRs per node | allocate, occupy, release | node informer, API server | workers, late events, retries, restarts: no CIDR handed out twice, none of a living node free, no node left waiting |
| Node manager (`pkg/nodemanager`) | the node object, an informer's copy | the handler of node events, the periodic loop | kubelet, route controller, lifecycle controller | everything is computed from a copy and written to a newer node: untainted only when ready, status follows the machine |
| Node informer caches (`azure.go`) | names by private IP, excluded and unmanaged nodes, zones | `updateNodeCaches` | nearly everyone | written by a callback while reconciliations read |
| Subnets, configuration, credential provider, newer generated clients, health probe proxy | little or none of their own | sequential requests, pure computations | | see section 6 |

The forty hazards that matter most, each at its line and with the properties that
would catch it, are the list `hazards` of `PROJECT.json`; section 5 tells of the others
that were met.

## 2. The modules and the code

### RouteUpdater

`RouteUpdater` is `azure_routes.go` over `routetable/repo.go`.

| Model | Code |
|---|---|
| `Callers`, `pc`, `pending`, `res` | the goroutines of the route controller in `CreateRoute`, `DeleteRoute`, `ListRoutes`; the operation each waits for and its answer |
| `queue`, `upc`, `idx`, `work`, `dirty`, `err`, `outcome` | `routesToUpdate`, the position of the updater in `updateRoutes`, its deep copy of the table and its local variables |
| `d.lock` | held exactly while `upc` is not `"idle"` (and for the single step of `AddOperation`) |
| `cloud`, `cache` | the table in Azure and in the cache of the repository |
| `fresh` in a copy | the etag the copy carries is still Azure's; the etag policy sends it with the PUT, so a stale copy is rejected |
| `routeCIDRs` | `az.routeCIDRs`, the routes of unmanaged nodes, which never reach Azure |
| `CreateRoute`, `DeleteRoute`, `ListRoutes`, `AddOperation`, `Return` | the calls; in a dual stack cluster `DeleteRoute` submits a second delete for the name without CIDR |
| `UpdateRoutes`, `GetTable(Fails)`, `ApplyOp`, `LoopDone`, `PutTable(Fails)`, `Notify`, `ClearJobs` | the phases of `updateRoutes` and of its deferred function |
| `CacheExpires`, `OtherUser` | the TTL; another user who adds a route or a tag or creates the table |
| `Crash`, `PanicInGet`, `Restart` | the process ends; the type assertion on a missing table panics; a new process starts with an empty queue |

A PUT is accepted, rejected, or carried out with a failing answer. Names of routes
are tuples that keep what the code's string formatting tells apart: node, CIDR,
plain or dual stack.

### MultiSLB

`MultiSLB` is what `reconcileLoadBalancer` decides about load balancers and nodes
when several standard load balancers are configured. A configuration `c` stands
for the load balancers `<<c, FALSE>>` (public) and `<<c, TRUE>>` (internal).

| Model | Code |
|---|---|
| `exists`, `fips`, `pool` | Azure: the load balancers, the services with a frontend on each, the nodes in its pool |
| `activeServices`, `activeNodes`, `nilNodes`, `correct`, `synced` | `ActiveServices`, `ActiveNodes` and whether it was ever assigned, `nodesWithCorrectLoadBalancerByPrimaryVMSet`, `multipleStandardLoadBalancerConfigurationsSynced` |
| `svc`, `dirty`, `hostSync` | the services users want, the service controller's queue of services and its node synchronisation |
| `node` | a node is ready, absent or excluded by its label, as `updateNodeCaches` sees it |
| `pc`, `cur`, `target`, the `todo` sets | the one operation at work (all hold `serviceReconcileLock`) and where it is |
| `EnsureLoadBalancer`, `UpdateLoadBalancer`, `EnsureLoadBalancerDeleted` | the entry points; each calls `reconcileLoadBalancer` twice, first for the service's own kind and then, without nodes and with `wantLb` false, for the other kind (`flipped`, `EndLeg`) |
| `ListManagedLBs` | the list, `reconcileMultipleStandardLoadBalancerConfigurations`, nodes that are gone |
| `accommodateNodeBy...` | the two loops over the nodes |
| `getServiceLoadBalancer`, `getEligibleLoadBalancersForService`, `getMostEligibleLBForService` | eligibility by annotation, label, namespace and flag; the choice; the removal from a load balancer that is not the chosen one |
| `RemoveFrontend`, `cleanOrphanedLoadBalancer` | removal of a frontend and deletion of a load balancer that is left without any, also when a VMSS still refers to it and a second attempt is needed |
| `ReconcileBackendPools`, `CreateOrUpdateLB`, `DeleteFrontend`, `EnsureHostsInPool`, `EndLeg`, `...ConfigurationStatus` | the rest of `reconcileLoadBalancer` in its order |
| `CallFails`, `CallFailsAfterWrite` | any request fails, without or with its effect |
| `DeletionErrorIgnored`, state `"forgotten"` | a request of a deletion is refused with 403 or 404, which `EnsureLoadBalancerDeleted` takes for success (`:468`, `:478`): the service is not tried again |
| `EditService`, `updateNodeCaches`, `Restart` | users, the node informer's callback, a restart with another value of `AllowServicePlacement` |

One step is the code between two requests, or one iteration of a loop over nodes.
A service has one frontend, one rule and `externalTrafficPolicy: Cluster`.

### CachePromise and TimedCache

`CachePromise` says what a cache promises without saying how: the resource goes
through versions; a read returns no version older than the last invalidation
before it began (`floor`, remembered by the reader as `since`), a forced read none
older than itself (`begun`), and absence only if the resource was absent during
the read. `Set` and `Update` put a client's own data into the cache, which weakens
the promise down to that version until the next invalidation.

`TimedCache` is `azure_cache.go` for one key, step by step: the look-up, the
second look-up and the insertion under the store's lock (`Lookup`, `Recheck`,
`AddEntry`), the test for usable data under the entry's lock, the getter's request
and the storing of its answer (`ReturnCached`, `LockForGetter`, `Getter`,
`FillEntry`), `UpdateEntry`, `Delete`, `Set`, expiry, and the plain
`ResourceProvider` that is used when caching is disabled. Entries are objects: a
goroutine may hold a pointer to one that `Delete` has dropped from the store.
An entry nobody refers to any more is forgotten (`Collect`), as the garbage
collector does, so that its address can stand for a new entry.

The refinement mapping takes `active` to the goroutines inside a `Get` (`Reading`)
and the other variables by name: `Get` is `PBegin`, `ReturnCached` and `FillEntry`
are `PReturn`, `UpdateEntry` and `Set` are `PPut`, `Delete` is `PInvalidate`.

### ResourceLock

`ResourceLock` is `azure_lock.go`: `LookForLease`, `createLease`, `acquireLease`,
`updateLease`, the reconciliation, `releaseLease`, `updateReleased`, one step per
request to the API server. `current` says that the copy read last is still the
stored object, which is what the API server's resourceVersion decides.
The other components are external: they take a lease that is free or expired,
write to Azure, release it leaving their name in the annotation, or die. `overrun`
and `lapsed` record who worked longer than the lease lasts and whether a lease of
others was left to expire; properties, not guards, use them.

### Sums of modules

Four MC modules hold several component modules each, whose variables are disjoint:
`MCClients` (ArmClients, BatchPut, LocalServices, StorageAccount), `MCNodes`
(NodeIpam, NodeManager), `MCCompute` (Machines, Disks, BackendHosts) and
`MCProvider` (Frontends, SecurityGroup with IpRanges, PrivateLink, ResourceLock).
The variable `part` is chosen in the initial state and says which of them moves; the
others rest in one initial state. The state space is the sum, not the product, and a
property of one module is a property of the behaviours of its part. Where a module
has *plans* (`FPlans`, `SgPlans`, `PlPlans`, `StPlans`, `NmPlans`, `Plans`, `Budgets`)
the initial state also picks a scenario: what users may ask for and how many faults,
edits or restarts there are. A plan limits the environment and never the code.

### ArmClients and BatchPut

`ArmClients` is `pkg/azureclients/*` over `armclient` with `pkg/retry`. An operation
record says which limiter an operation asks, which RetryAfter field it reads and
writes, how it is sent and what follows (pages, a future); each operation of each
client has its record, since these are written by hand in the code and differ.
`Admit`, `RateLimited`, `Throttled` are the gate, `Send` and `Delay` the backoff loop
(`doBackoffRetry`, with `Again` from `shouldRetryHTTPRequest`), `Answered` the regional
retry of a GET (`util.go`), `NextPage` and `PageAgain` the lists, `Wait` the futures and
`Return` what is written back. What the storage SDK says is handed on without the
marks of `retry.Error` (`Handed`, `RawError`), and so are the errors of the scale set
client's waits (`waits = "raw"`). Azure answers anything of each class that the code
tells apart, no answer included. `BatchPut` is `PutResourcesInBatches` with
`UpdateVMs`: slots, futures, the retry of preempted updates, one error for all.

### LocalServices

The EndpointSlice informer (`SliceUpdated`, `SliceAddedOrDeleted`, `InformerAdds`), the
batch updater (`Process`, `GetPool`, `PutPool`, `PoolNotFound`, `BatchFails`,
`BatchRetried`) and a pass of the service controller (`StartPass` to `PassAdds`, which
may move the service, and `EnsureDeleted`, `BecomesCluster`, `ForgetInfo`). The history
variable `missed` notes a change that the code loses: it is never told to the updater, its
batch is dropped, it comes before the service is recorded, or it crosses the operations
that a pass has still to add (`Crossed`). Section 5 tells of each; `UpdatesReachPool` is
stated for the other changes.

### Machines, Disks, BackendHosts

`Machines` is how a node's machine is found: the caches as functions from machine to
entry, each read one step (`Read`, with the three cache read types), the look-ups
`GroupByName`, `Identity`, `MachineFirst`, `MachineLocked`, `FlexID`, `FlexMachine`,
`SingleMachine`, and the questions `AskMetadata` and `AskExists` (with the shutdown
question after a positive answer). `BeginDelete`, `PutBack`, `Unname` are
`DeleteCacheForNode` of the three kinds, whose put-back of a map overlaps refreshes. The
refresh of `nonVmssUniformNodesCache` is two steps, the list of the machines
(`ListMachines`) and that of the node names (`ListGroups`), between which machines and nodes
come and go; `cache.list` is what the getter has so far, under the lock of its caller.
`Disks` is `AttachDisk`, `DetachDisk`, `UpdateVM` and `WaitForUpdateResult`: the list
from the cache, the request, the second try without disks that are gone (`Retried`),
and what each outcome does to the cache (`CacheAfter`). `BackendHosts` is
`EnsureHostsInPool` and `EnsureBackendPoolDeleted` in the order of the code: the scale
set models, the instances, the machines of flexible and availability sets (the two calls
visit them in different orders, `AfterAdding` and `AfterDeleting`), with cached objects
that are changed before they are sent. A machine of a uniform scale set that is not active
(`inactive`), and a machine whose look-up fails or finds nothing (`Unnoticed`), is skipped
without an error; the history `left` keeps who was.

### Frontends, SecurityGroup, IpRanges, PrivateLink

`Frontends` is one load balancer of each kind, its frontends and rules, the public IPs
and their cached list. `PlanFrontend` chooses (`serviceOwnsFrontendIP`,
`isFrontendIPChanged`, `determinePublicIPName`), `EnsureFrontendIP` makes the public IP,
`ReconcileLoadBalancer` writes, `ReconcileFlipped` cleans the load balancer of the other
kind, `getPublicIPUpdates`, `CreateOrUpdatePIP`, `safeDeletePublicIP` bind and release.
The unbinding changes the cached tags, as in the code. A public IP whose IP tags are not
those of the annotation is released although it is the desired one (`OtherIPTags`), taking
its frontend and the rules on it along, and is made anew by `ConfirmPublicIP`
(`sync.renewed`). `DetachFails` is the PUT of the load balancer that fails before the public
IP is deleted, `IgnoreDeletionError` a deletion's 403 or 404 (`azure_loadbalancer.go:478`).

`IpRanges` has both aggregations of `pkg/util/iputil`, the stack over sorted ranges and
the prefix tree. An address is a string of bits and a range the string of the bits it
fixes, so that the provider's comparison, containment and neighbourhood of prefixes are
those of strings; the loop over the sorted list is a recursive function of the stacks
after each range (`Push`), the tree the set of its marked nodes. `SecurityGroup` builds on
it: `PatchSecurityGroup` and `CleanSecurityGroup` on rules named by access, protocol,
sources and ports, `listSharedIPPortMapping` from the published statuses, priorities
around those users took, the etag and the cached copy. Where the code ranges over a Go map
the operators yield the set of the groups that any order can lead to; when a clean-up finds
no free priority the error is only logged, as in the code.

`PrivateLink` is `reconcilePrivateLinkService`: `EnsureLink`, `GetLink`,
`getExpectedPrivateLinkService`, which refuses settings it cannot apply and reads the
subnet, `disablePLSNetworkPolicy`, `CreateOrUpdateLink`, and on deletion `FindToDelete`,
`DeletePEConnection`, `DeleteLink`, `RemoveFrontend`, which Azure refuses while a private
link service is on the frontend.

### StorageAccount

`EnsureStorageAccount` as a row of remote steps (`CallSteps`), of which options decide
which are needed (`Needed`): search in the list (`ListAccounts`, `MatchAccounts`,
`ServicesAgree`), zone, link, creation, blob and file properties, endpoint and group,
key. `AddStorageAccountTags` and `RemoveStorageAccountTag` are `AskTag`, `ReadTags`,
`UpdateTags` under the lock map's entry.

### CidrSet, PodCidrPromise, NodeIpam

`CidrSet` is the bitmap with its counter and candidate index as operators; a CIDR is an
aligned run of units. `OccupyAll` is what `Occupy` of one CIDR after another leaves: the bits
of all of them are set, and the counter grows by those that were not. `NodeIpam` is both allocators (`mode`): the informer's late
events (`watch`, `notes`), `AllocateRange`, `CloudAllocateOrOccupy` with the mask sizes
of scale sets, `ReleaseCIDR`, and workers whose item goes through `Take`, `PatchOk` or
`PatchFails` with retries, `SetNodeCondition`, `SendBack`. `Restart` begins with empty
memory and the nodes of a list. `PodCidrPromise` is the abstract specification: a node
gets blocks that no other node has, once; `NodeIpam` implements it with `podCIDRs <- api`.

### NodeManager

The handler (`HandleEvent`, `GetNode`, `updateNetworkingCondition`, `AskCloud`,
`ReadAgain`, `UpdateNode`, `FirstAddress`, `PatchFirstAddress`) and the loop
(`ReadStatus`, `PatchAddress`, `reconcileNodeLabels`) on copies of one node, which
kubelet, other controllers and users register, label, delete and route meanwhile. A
query that fails in `AskCloud` ends the process, as in the code.

## 3. What is checked

There are twelve runs, each below five minutes with two workers. An invariant that
a run names is often the conjunction of a component's invariants, which are
definitions of its module with a comment each:

| Checked | Its parts |
|---|---|
| `ArmClients.CallsSound` | `TypeOK`, `ThrottledCallStops`, `RequestsBounded`, `LostAnswerRetriable` |
| `BatchPut.BatchSound` | `AtMostBatch`, `NoFailureLost` |
| `LocalServices.PoolFollows` | `LTypeOK`, `UpdatesReachPool` |
| `StorageAccount.AccountsAsAnswered` | `StTypeOK`, `ReturnedAsAsked`, `NoAccountPerVolume`, `TagsStay` |
| `NodeIpam.BitmapsSound` | `ITypeOK`, `AssignedIsUsed`, `CountMatches`, `MarkOwned` |
| `NodeManager.NodeFollows` | `Initialized`, `StatusFollows` |
| `Disks.DisksAsAnswered` | `DTypeOK`, `PromisedIsKept`, `DetachedIsOff` |
| `BackendHosts.PoolsAsAnswered` | `BTypeOK`, `AddedIsIn`, `DeletedIsOut`, `FlexSetCached` |
| `Frontends.PipsAccounted` | `FTypeOK`, `NoOrphan`, `UserPipsUntouched` |
| `IpRanges.AggregationSound` | `AggregateExact`, `TreeAgrees` |
| `SecurityGroup.GroupSound` | `STypeOK`, `RulesApart`, `NoStaleRules` |
| `MCClients.ClientsSettle` | `EveryCallReturns` of the clients, `Settles` of the local services |
| `MCProvider.ProviderSettles` | `DeletedIsLetGo`, `SgSettles`, `LinkLetGo`, `Recovers` |

`UntaintedIsReady`, `RunningNotDenied` and `LinkedAsAsked` contain the type invariant
of their module. Those of `RouteUpdater`, `MultiSLB`, `TimedCache` and `ResourceLock`
are proved (section 4) and named by no run.

| Run | Instance | Result |
|---|---|---|
| `route_single` | 2 callers, 1 node, 2 CIDRs, 1 foreign route, single stack | a send never blocks, no waiter is forgotten, a batch ends up in Azure with the last operation winning, and no step of the updater changes a route that no operation names |
| `route_dual` | 2 callers, 2 nodes of which one unmanaged, 1 CIDR, dual stack | a batch ends up in Azure with the second delete and outdated names too |
| `route_live` | 2 callers, 1 node, 1 CIDR, a configured tag | every call returns |
| `slb_core` | 2 configurations, 2 services, 1 node, 2 labels, both kinds, selectors of labels, namespaces and nodes, 3 edits, 1 fault, 1 restart | a service is on one load balancer of a kind at most; after the pools are updated every node that can be served is |
| `slb_place` | the same without faults, with a primary vmSet, 4 edits, 2 restarts, any flags | a service stays on an eligible load balancer, and arrives on none that forbids placement |
| `slb_live` | both kinds, 3 edits, 1 fault, 1 restart | frontends converge to what users want, but for a service whose deletion was refused with 403 or 404 and is taken for done |
| `cache` | 2 goroutines, 3 entries, 3 versions of which one absent | the cache implements `CachePromise`, and a read never returns an older version than one that was over when it began (`ReadsInOrder`) |
| `clients` | every operation of every client, backoff of 3 steps, 2 pages, any answers; batches of 3 machines with sizes 0, 1, 2, 5; 2 load balancers, 2 nodes, 2 endpoint changes, 2 passes, 1 fault; 2 storage callers and 2 taggers in 5 plans | a throttled call sends nothing more (in `CallsSound`) and holds back the next (`ThrottleRecorded`), calls are bounded and return, a lost answer is marked retriable by the clients that mark errors; batches keep to their size and lose no failure; pools follow endpoints, stay deleted, and the queue settles; accounts are as asked, are used again, and keep their tags |
| `nodes` | 2 nodes, 2 workers, 2 families of 4 and 2 units with a service range, both allocators, 2 tries, faults and a restart in 3 budgets; 1 node under the node manager in 3 plans | what is in use is never free, counters and marks are sound (`BitmapsSound`), `PodCidrPromise` is implemented (`PromiseKept`), every node is served; untainted nodes are ready, initialization ends, status follows |
| `compute` | 6 machines in 6 plans; 2 machines with 2 disks; 4 backend machines of three kinds, of which one may be stopped and one not found, 2 pools, 1 fault each | a running machine is not denied unless its node registers in the middle of a refresh, a deleted one is noticed; promised disks stay, detached ones are off; after `EnsureHostsInPool` the machines that were not skipped are in, after `EnsureBackendPoolDeleted` they are out |
| `provider` | 2 services and a user's public IP in 7 plans, in one of which IP tags change, 4 edits; 2 services, 2 addresses, priorities 5 to 15 in 5 plans; lists of 3 ranges over 3-bit addresses; 2 services on a frontend with a private link service in 4 plans; the lease with 2 other components, 4 takes, 3 faults | nobody else loses an address or a rule, ensured services are served and exposed as asked, all is let go in the end and nothing left, users' resources are untouched; both aggregations are exact and agree; private links are as asked; mutual exclusion, fresh caches, recovery |
| `route_error_lost` | minimal | a violation, see section 5 |

Deadlock is checked where the next-state relation never ends (routes, cache); in the
others users have a bounded number of edits and then really stop.

**Why the bounds are enough to be interesting.** Two callers are needed and
sufficient for an add and a delete of one route to meet in one batch, for an
operation to be enqueued between two batches, and for a caller to return and call
again while the other waits; nothing in the updater counts callers (the proofs do
not bound them). Two CIDRs let a route change its value. Two configurations are
needed for a move; two services for a load balancer that must not be deleted
because the other one is on it; three edits for create, change of kind or label,
and delete; one fault and one restart each fall at every step of every operation.
In the cache two goroutines race for the insertion and hold pointers to two
entries while a third is current, and two changes of the resource make a
version older than an invalidation differ from one older than the read. In the
lock a second other component can take the lease from the first.
The calls of a client meet each other only in the limiter and the RetryAfter fields,
so one goroutine that makes call after call, any operation each time, meets what an
earlier call left; three steps of backoff, two pages and delays up to two leave room
for an answer of each class before, between and after the others. Three layouts of a
slice include one with two endpoints on a node, for which lengths and sets differ.
Two nodes and two families let a block be freed and given again, the second family
run out before the first, and (with masks of one and two units) a finer and a coarser
block overlap. Ranges over three bits in lists of three have every relation two ranges
can have (equal, inside, adjacent and mergeable or not, apart, everything) in every
order, and a merge that makes another merge possible. A user's rule lies in the middle of
the priorities, so that the next free one is not the next one; running out of them is
excluded by `PriorityAssumption`, since Azure takes at most 1000 rules in a group and the
code has 3596 priorities. In `slb_core` the vmSet of the node is nobody's primary one, in
`slb_place` it is that of the first configuration. Four edits suffice for both services to be
made, one to change what it shares, and one to go; with `hasty` plans an edit falls
before the last one was reconciled.
Symmetry is used for the callers and CIDRs of the route runs, the goroutines and
entries of the cache and the services of `slb_place`; never with liveness.

**Fairness.** In `RouteUpdater` the updater takes steps for ever (`wait.PollUntilContextCancel`
with the context of the process; a request ends with an answer or an error), a
caller that competes for `d.lock` gets it in the end (`sync.Mutex` hands the lock
to a waiter that starves, hence strong fairness of `AddOperation`), and a caller
whose channel holds an answer goes on. Crashes are not fair; a call of a process
that has ended counts as returned. In `MultiSLB` a running operation goes on and
the service controller's rate-limited queue hands out every service that stays in
it. The operations compete for one lock and one is disabled while another runs,
hence strong fairness for each service. In `ResourceLock` the calls go on and are
retried, and time passes (`Expire`); nothing is assumed of the other components.
In `ArmClients` a call that has been admitted goes on (its timers fire, an HTTP request
ends); in `LocalServices` the informer, the updater's goroutine and a pass that has
begun go on. In `NodeIpam` the informer delivers, workers go on, and kubelet's
heartbeat makes an event of every node again and again, which is what the allocator
relies on to retry. In `NodeManager` the handler and the loop go on, the informer
observes and resyncs, a process that panicked is started again by kubelet and the route
controller makes routes. In `Machines` the lifecycle controller goes on asking about
every node, a question under way goes on and entries expire. In `Frontends`, `SecurityGroup` and `PrivateLink` a running
operation goes on and the cache of private link services expires; the service
controller tries a deletion again and again, but is given other work in between that
disables it, hence strong fairness of *some* deletion, which is weaker than a turn for
each service and is enough, since one that succeeds does not come back. Failures and
edits are never fair and are bounded.

**What the properties rest on.** Each property has a mutant in `PROJECT.json`: a
plausible mistake in the code under which TLC finds it violated. Examples are a
batch that is not cleared after its answers, a PUT without the etag, `dirty` set
from the last operation only, `AllowServicePlacement` not looked at,
`ActiveServices` not rebuilt after a restart, an entry's lock let go before the
getter is called, a `Delete` that only clears the data, an update of the lease
without resourceVersion, a throttled answer that is retried, a client whose delete
stores its RetryAfter in the reader's field, a reconciliation that does not check the
pool at its end, a restart that does not occupy the CIDRs of listed nodes, a frontend
deleted without a look at the rules of other services, a prefix tree that keeps the
nodes below a new one, a private link service cached beyond its update, a cached list of
disks that outlives a call.

## 4. What is proved

The theorems hold for every value of the constants that satisfies the modules'
assumptions. These only say that constants have their types, that the null values
are not among the values, that kinds of machines are disjoint, that there is at least
one configuration, service and label, that a backoff has at least one step, that
the tags of taggers are not the storage driver's own, and of node
IPAM that there are finitely many node names, that of two sizes of blocks one divides the
other and all divide the cluster CIDR (they are powers of two), and that service ranges
lie inside the cluster CIDR. `SecurityGroup` supposes that the range of the cluster's
priorities is at least twice as long as the number of rules a group may have
(`PriorityAssumption`; the code has 500 to 4096, and Azure allows 1000 rules) and that the
rules users made have a priority each, as Azure demands (`SgPlansAssumption`). There are
finitely many nodes in `MultiSLB` and services in `Frontends`. A theorem that needs more says
so in its statement.

**RouteUpdaterProofs.** `TypeCorrect`; `NotifierProgress` and `NoOperationLost` by
the invariant `IInv`: each operation that has not been answered is the one its
caller waits for, and no caller has two operations in the queue. Neither property
is inductive without the other: that the channel of the next operation has a
receiver follows from who is in the queue, and that a waiter is in the queue
depends on the deferred function passing each entry exactly once. `BatchIsApplied`
by `AInv`: a fresh copy that was not changed has Azure's routes, and the working
copy holds the outcome of the operations applied so far; the PUT carries this over
to Azure, and the answers do not disturb it because a route is changed by nobody
but the updater, or else the copy is no longer fresh. `ForeignRoutesKept`
(`OnlyNamedRoutesChange`) adds `KeptInv`: a route of the working copy that no operation
of the batch named is the one of the copy that was read. Without it the PUT, which
sends the whole table, could write anything.

**MultiSLBProofs.** `TypeCorrect`, with lemmas for each helper, and
`FrontendUnique`: a service has its frontend on at most one load balancer of each
kind through every failure and restart. The invariant adds that only existing load
balancers have frontends and that between the choice of a load balancer and the
PUT (`pc` in `pools`, `put`) the service is on no other load balancer of that kind
(`TargetSound`). Actions fall into three groups with a lemma each: those that
only take frontends away, the PUT that adds one, and the choice that establishes
`TargetSound`; it does so because there was at most one to remove.
`PlacementIsAllowed` has the hypothesis `MaxFaults = 0`, without which it is false
(section 5). Its invariant `PlacementInv` relates memory to Azure: what `ActiveServices`
says a service uses, it has a frontend on (`ActiveIsOn`); the chosen load balancer
allows placement or has the service already (`ChoiceAllowed`); and a frontend that was
added stays until the memory learns of it (`AddedIsThere`). A service counts as already
placed by memory, so the flag is only respected as long as memory does not lag.

`NodesAreServed` (`NodesServed`), for all failures and restarts, by `HostInv`: the pass over
the nodes leaves behind it nodes that are on a configuration they are eligible for
(`LookedAtSound`), for which the map of where nodes are must stay true of those not looked at
yet (`MapSound`) and the pass over the vmSets must skip none of them (`NoneCorrect`), and the
pools behind the last loop have the nodes of their configuration (`PoolsFollow`). That `fewestNodes` yields one of
the configurations it is asked for rests on the cardinality of finite sets.

`ServicesStay` (`StaysOnEligibleLB`) by `StayInv`, the converse of `PlacementInv`: once rebuilt,
the memory knows of *every* frontend but the one being added (`Known`), the services of all
frontends are still there (`Live`) and a deletion finds the frontend wherever it is
(`Leaving`). It supposes `MaxFaults = 0`, since a failed request leaves a frontend that
the memory never hears of (section 5, item 1); `SingleKind`, since a service that changes its
kind is taken out of a memory that does not tell the kinds apart; and `OneSelector`, since
`selectorMatched` is raised by the labels alone, so that a configuration which the namespace
then rejects takes those without selectors away from the service.

**TimedCacheProofs.** `TypeCorrect`; `ReadsAreInOrder` (`ReadsInOrder`) by `OrderInv`: what earlier
reads of the entry under the key returned (`high`) is not newer than its data or than what a
getter is about to store there, and what a reader knew of when it began (`seen`) is not newer
than what its entry will give it. The first part is where the lock of the entry is needed: without
it an older answer of Azure could be stored after a newer one had been read; `CacheSound`, the invariant `CacheInv`: the data in an entry
satisfies every reader that holds a pointer to it and, if the entry is in the
store, every reader to come, and the data that a getter is about to store does so
too. With it `Refinement`: `TimedCache` implements `CachePromise`, one case per
action.

**ResourceLockProofs.** `TypeCorrect`, `Excludes`, `SeesOthersWrites`, all by
`LockInv`: an update that will be accepted takes nothing from a holder in its time
(`CopySound`), who works in its time holds the lease (`HoldersWork`), and stale
caches are announced by the holder or the annotation as long as no foreign lease
lapsed (`WritesKnown`).

**ClientsProofs.** `CallsAreSound` and `ThrottlingIsRecorded` of `ArmClients` by `CallsInv`,
which says of each call that it `Fit`s: the steps of the backoff that are left and the
requests sent fit into the bound, the global host leaving as many for the regional one
(`StepsFit`); a call that was throttled holds no answer with a body, from which a list
would go on (`Stops`); what the first request was told is in its answer and then in its
error (`Remembers`); who waits has a future (`Retriable`). That a lost answer is retriable is said of the operations
whose client marks its errors (`Marks`). The operations enter by one
lemma, `OpsAreSound`: an operation that stores a RetryAfter stores it in the field that its
gate reads. `BatchIsSound` of `BatchPut` by counting the goroutines that hold a slot.
`PoolFollowsSlice` and `DeletedPoolsStayDeleted` of `LocalServices` by `LocalInv`, whose
heart is `Told`: the pool, after the operations of the batch, the queue, the pass and
the informer that are under way have been applied in that order, is what the slice asks
for (`Outlook`). The operations of the pass and of the informer reach the queue in any order. The
outlook is the same because both only add what the slice has and only remove what it has not
(`Harmless`), as long as the slice does not change in between, which is what `Crossed` leaves
out; and a PUT of the hosts by the pass only anticipates what is queued (`Anticipates`). `After`, the effect of a list of operations, and `OperationsFor` are written
in closed form, the last operation on a node wins; `AfterEmpty`, `AfterAppend` and
`AfterConcat` prove the equations of the code's loop for it.

`AccountsAreAsAnswered` of `StorageAccount` (`AccountsAsAnswered`) by `AccountsInv`. Eleven
remote steps without a lock lie between the search and the answer, so the invariant says
of each call what its steps have brought about so far (`SoFar`), that what its search has
found goes on to match (`CandSound`) and that what served its options before is among it
(`KnownSound`); of an account to be made under a new name that it is nobody else's (`Fresh`);
of one handed out that it goes on to suit (`ServedSound`). The lemma `Persists` carries all of
them over the steps of the *other* callers: a step leaves an account as good as it was for
every wish of the plan (`Lasting`). The tags are a separate part (`TagsSound`): whoever is
past the lock has it alone, and the cached tags and those to be sent are made from the
account's. The theorem supposes `Compatible(stplan)`: who names an account asks nothing
else of it, two callers who may share an account do not ask for opposite things, and the
account whose tags are changed is there and is not created anew. Without each part the
property fails, and section 5 says how. The plans of the run `clients` are `Compatible`.

**ProviderProofs.** `LinkedForAll` of `PrivateLink` by `PlInv`: a cached private link service
is the one in Azure but for its connections (`SeenSound`), so that one found without
difference is as asked (`CleanIsAsAsked`); a call to delete goes for it only when no other
service is left on the frontend (`CallSound`); network policies are disabled before it is
made (`PolicyFirst`).

`AggregationsAgree` (`AggregationSound` of `IpRanges`): for every width of addresses and every
list of ranges both aggregations yield the one shortest set of ranges with the same
addresses. A set of ranges none of which contains another or is the twin of another is
determined by its addresses; so it remains to see that both results are of this form.
The stack is, after each range of the sorted list, ascending and without such pairs, and
covers what has been read; the tree has at most one pair of twins, on the way up from the
range inserted last. The loops are recursive functions, and the inductions are over
the sets of numbers up to a bound, by the well-foundedness of the naturals, because the
induction theorems with an operator for a parameter cannot be used.

`GroupStaysSound`, `ExposureIsAsAsked` and `RestingKeepRules` of `SecurityGroup` by `GroupInv`. It
says what rules the group and the cached copy may have: priorities are apart, the rules of
the cluster are in its range, those of users below it are as they were and the limit is
kept (`GroupOK`); the copy is the group unless somebody changed that or an answer was lost, and
then the etag refuses it (`GroupsSound`); and, when no service changes its address, every
address in a rule of the cluster is some service's (`RulesOwned`). The operators on groups yield a set of groups, so each has lemmas that hold
for every element (`InLeft` and alike). That a priority is always found uses the pigeonhole
principle with `PriorityAssumption`. The hypotheses are `OneAddress`, since the rules for a former address
are never cleaned (`azure_loadbalancer.go:3012`); `PortsApart`, services that share an address
have different ports, since their load balancer would refuse a second rule for a port;
and for `RestingKeepRules` also `ForeignApart`, users keep their rules out of the cluster's
priorities (section 5). The plans of the run `provider` satisfy the first two, and all but one
the third; for that one `OthersKeepRules` is model-checked only.

Of `Frontends`, `UserPipsStay` holds for all plans and failures, by `FInv`: public IPs of users are
in no write or deletion that an operation has still to send (`StepFits`). `AddressesAreKept`
(`OthersKeepAddress`) supposes `Steady`: a service asks for one public IP for good, its
own if it may be internal, and services that share one of the provider's ask for the same IP tags
(`Agreed`), so that none is released for its tags. By `SteadyInv` frontends, rules, tags and the operation under way
are all of that public IP (`FrontHome`, `RuleHome`, `TagsHome`, `Fits`), with any failures. So a
frontend that a reconciliation replaces or drops is used by nobody else.
`PublicIPsAccounted` (`PipsAccounted`) and `EnsuredServices` (`EnsuredIsServed`) suppose `Compatible`
too: services that share a public IP have no pinned frontend (one used by outbound or NAT
rules) and at most one DNS label. Their invariant `CalmInv` says, as long as no call has failed
(`Calm`), that a public IP is on one frontend only and frontends are used (`LbCalm`), that
public IPs on frontends exist and those of the provider are used (`FrontsBacked`, `PipsMade`),
that a service with a rule is in the tag or will be when its operation ends
(`RulesTagged`), that services not there have nothing (`LetGo`) and, the crux, that cached
tags are Azure's unless the write of the difference is due (`ListSound`), which needs the
phases of the operation under way (`Phase`). Deletion decides by the cached tags, which the
code changes before it writes; the proof shows that no other operation reads them in
between. `EnsuredServices` has `fplan.faults = 0`: after a failure the property is false
(section 5, item 5). Plans 1, 4, 5 and 6 of the run satisfy `Steady` and `Compatible`; for plans
2, 3 and 7, in which services change what they ask for, the three properties are
model-checked only.

**NodesProofs.** `UntaintedNodesReady` of `NodeManager` by `NmInv`: provider ID and taint change
in one write (`OneWrite`), a write that will be accepted was made from the node as it is
(`FreshIsNode`), and that pods are kept off the node or its routes exist is stable and
told by what was seen earlier (`ReadySeen`).

`BitmapsAreSound` and `PromiseIsKept` of `NodeIpam` hold for any nodes, workers, families, sizes of
blocks, order of events, retries and restarts. `AssignedIsUsed` is not inductive: what is
taken in a bitmap belongs to a node only at the end of its way. `IpamInv` therefore
speaks of *claims*: a tuple of CIDRs is claimed by the node object that has it, by the item
in the channel or at a worker that carries it, and by a deletion the handler has not seen.
`Sound` says that every claim is taken in the bitmaps and that two claims are apart in every
family, `Sets` that the bitmaps are well formed and the counter is the cardinality of the set,
and `EventsBacked` that an event that occupies CIDRs is of a node that has them or whose
deletion follows, so that a late event cannot take what was released already. Each handler
passes a claim on, makes one of free bits (`AllocateOne`, `AllocateRun`) or releases one. The
refinement of `PodCidrPromise` follows: a patch that is accepted carries a claim, and it is
apart from those of all node objects (`ApartNoOverlap`).

Both theorems suppose `Calm(mode)`: a call that fails leaves the API server as it was and
`SetNodeCondition` does not fail (none of "timeout_applied", "lost", "condition" and "mask" in
`Faults`) and, for the cloud allocator, in each family a permanent node has the finest mask,
so that the bitmaps are never rebuilt for a finer one. Without each of these the
properties fail, and section 5 says how. The run `nodes` satisfies `Calm`.

**ComputeProofs.** `DisksAreAsAnswered` of `Disks` by `DisksInv`: a disk is on one machine at
most, and a promised one is in Azure's list, in the cached list a call may start from
and in the one it will send (`PromiseHeld`). `PoolsAreAsAnswered` of `BackendHosts` by
`PoolsInv`: a cached object is as in Azure but for the machines being sent (`CachedSound`),
and the machines of the steps behind a call without an error, but for those it skipped, are as
asked (`AddedSoFar`, `DeletedSoFar`). `RunningIsNotDenied` of `Machines` by `MachinesInv`: a map of machines, in the
cache or held for a put-back, has no nil entry for one that runs and nothing of one that
is not there yet (`MapSound`), the list a refresh has made so far names every running machine of
an availability set whose node was there when it was made (`ListSound`), a node that was seen had its machine (`NodesSound`), and what
a question knows from its earlier look-ups still holds (`AskSound`).

**Only model-checked.** Liveness under fairness is out of the prover's reach, as is
ENABLED: `EveryCallReturns`, `Converges`, `ClientsSettle`, `ServesEveryNode`, `NodeFollows`,
`GoneIsNoticed`, `ProviderSettles`. Every invariant and action property of a passing run is
stated by a theorem; where the theorem has hypotheses that some plan of the run does not
satisfy, as told above for `SecurityGroup` and `Frontends`, that plan is model-checked only.

## 5. Where code and documentation disagree

Shown by a run: `azure_routes.go:201` shadows `err`, so a failed PUT of the route table
is reported to all callers as success, against `azure_routes_test.go:242`
(`route_error_lost`).

### Properties that the code does not keep

These definitions stand in the modules and are checked by no run, because the code
violates them. Each was checked; the shortest counterexample is told here.

1. `MultiSLB.StaysOnEligibleLB` with a fault (it is checked without, by `slb_place`):
   when a request after the PUT of the load balancer fails, the retry does not know that
   the service is there and moves it, against "If the LB is eligible and being used,
   choose it". `PlacementRespectsFlag` with a fault, for the opposite reason: a deletion
   that is carried out and answers with an error leaves the service in `ActiveServices`;
   created again, it is placed there although a restart has set `AllowServicePlacement`
   to false meanwhile.
2. `MultiSLB.PrimaryNodesServed`: a node that is excluded for a while is never put back
   on the load balancer of its primary vmSet, against `multi_slb.go:48`.
3. `ResourceLock.InvalidatesForeign`: the annotation of the lease, not its holder, decides
   whether the caches are dropped; after a foreign lease that expired unreleased they are
   kept, against `azure_lock.go:163`. `FreshCaches` shows that nothing else goes wrong.
4. `NodeIpam.AssignedIsUsed` with "timeout_applied" in `Faults`: a try of the patch times
   out and is applied, the next one is rejected, and by that last error the CIDRs are
   released (`range_allocator.go:423`) though the node has them. With "lost" the last try is
   applied and its answer does not arrive, to the same effect.
   `MarkOwned` with "mask", and `PromiseKept` with "condition", fail for the reasons in the
   hazards of `cloud_cidr_allocator.go:361` and `:466`. Without a node of the finest mask
   from the start (`Permanent`) `PromiseKept` fails at `:375`: the rebuilt bitmap lacks
   CIDRs just allocated and the service range.
5. `Frontends.NoOrphanAfterRetry`: the deletion of a public IP fails after
   `unbindServiceFromPIP` took the service out of the *cached* tags; the retry reads these,
   finds that the public IP is not the service's, and leaves it behind. For the same reason
   `EnsuredIsServed` leaves out what the tag says of a public IP that a failed or ignored deletion
   left unbound in the cached list: the service that asks for it next takes it for a user's.
6. `SecurityGroup.SgDeletedIsLetGo`: a service with both `spec.loadBalancerSourceRanges` and
   the annotation is refused by `azure_loadbalancer.go:3041`, when it is deleted too, and
   every retry fails alike.
7. `StorageAccount.MultichannelAsAsked`: the cached properties of the file service are
   changed before the request (`azure_storageaccount.go:549`); it fails, and the next
   search takes the account for one that has multichannel. `AccountsAsAnswered` holds for
   callers that are `Compatible` (section 4) and fails for others. `ReturnedAsAsked`: an
   account given by name is never compared with the options; and a named one whose key
   could not be read is created again with other settings, between another caller's
   search and its answer. `NoAccountPerVolume`: an account that its maker has not finished
   is found by a caller who asks for the opposite (no private endpoint, retention kept), is
   changed afterwards and is not found for the same options again. `TagsStay`: Create on
   an existing account replaces its tags.
8. `Machines.FlexNotDenied`: a machine that joined a flexible scale set during the put-back of
   an older map is in `vmssFlexVMNameToVmssID` and not in the map, so it is reported not to
   exist and its node deleted; with the second list of the getter failing, the same.
9. `BackendHosts.SetIsIn`: `ensureVMSSInPool` changes the cached scale set before
   `CreateOrUpdateVMSS` and does not invalidate it; after a failure the retry finds the
   pool in the model and returns nil, while Azure's model lacks it, against "Ensure the
   backendPoolID is also added on VMSS itself".
10. `Disks.DetachedIsOffOthers`: after a 404 the second try of a detach on an availability set
    or a flexible scale set sends the cached list, in which nothing is marked to be
    detached; it returns nil with the disk on the machine.

### Met while modelling

Routes and load balancers:

- `azure_routes.go:159`: the tags of the table are replaced by those an earlier
  `ListRoutes` computed; a tag another user added in between is lost, and the etag,
  being of the later read, does not prevent it.
- `routetable/repo.go:72`: for a table that does not exist the getter's nil reaches a
  type assertion, which panics; the branch that creates the table is unreachable.
- When a service changes its kind and its new load balancer belongs to the same
  configuration as the old one, the second call of `reconcileLoadBalancer` takes the
  frontend off the old load balancer and the service out of the configuration's
  `ActiveServices`, although it is now on the other load balancer of it.
- `ActiveNodes` that was never assigned means every node, so a configuration that no
  node was put on receives the nodes of the others too.
- `EnsureLoadBalancerDeleted` passes no nodes; as the first operation after a
  restart it drops the distribution of nodes just rebuilt from the pools.
- `azure_loadbalancer.go:4089`: `selectorMatched` is set before the namespace
  selector rejects the configuration; configurations without selectors are then
  dropped and none is left, without an error; the PUT of a load balancer without
  name fails at each retry.
- A service whose labels match no configuration any more can never be deleted: the
  deletion asks first where it would be placed.
- `UpdateLoadBalancer` drops the error of its look-up and returns nil, so the
  controller does not retry and the pools keep the old nodes.
- `EnsureLoadBalancerDeleted` ignores an error that contains 403 or 404 (`azure_loadbalancer.go:478`,
  `azure_error.go:322`), whichever request it came from. The deletion counts as done, nobody tries
  again, and what was not yet removed stays: frontend, rules, public IP. `Converges` does not speak
  of such a service. At `:468` the same test lets a failed look-up pass, after which `lb.Name` at
  `:472` dereferences a nil pointer: the process panics and is started again.
- `NodesServed` is about nodes whose vmSet is no configuration's primary one: for the others
  item 2 above is a counterexample.

Frontends and public IPs (the plans of `MCProvider` leave these sequences out):

- A primary service that changes its public IP moves the rules of the services that
  share its frontend along with it.
- A service that changes the public IP it refers to and is deleted before it was ensured
  again leaves its rule, and its name in the tag of the old public IP.
- A secondary service that outlives the primary one and then asks for an internal or an
  own address leaves the frontend and public IP of the primary behind.
- A refused deletion of a public IP (`azure_publicip_repo.go:82`) returns nil and leaves the
  cache with the service unbound, so that the next binding starts from tags Azure does
  not have. When the public IP is shared and its frontend pinned, a later secondary service
  is ensured and its name never reaches the tag.
- A changed annotation `azure-pip-ip-tags` (`azure_loadbalancer.go:3196`): after the load balancer
  was written, the public IP is deleted with its frontend and the rules on it and is made anew with
  the new tags; `EnsureLoadBalancer` returns success, and the service has no frontend and no
  rule until it is ensured again. `EnsuredIsServed` leaves out an ensure that did this. A service
  that shares the public IP is in its tag as a rule and keeps it; one whose own last call failed, so
  that it is not in the tag (any more), loses its rule, which `OthersKeepAddress` leaves out (`Deprived`).
- Of two services with DNS labels that share a public IP the second has its rule on the load
  balancer when it is refused, and is not in the tag; deleting the first then leaves the
  public IP behind.

Security group:

- The rules for the address a service had before are never cleaned (the comment at
  `azure_loadbalancer.go:3012` says so).
- An update that took effect and reported an error other than 412 leaves an outdated copy
  in the cache.
- A service whose status is not published yet is not among those that share an address,
  and loses its rules when another is reconciled.
- The deny-all rule of a service is taken away when another service with TCP ports on the
  same address is reconciled.
- A clean-up takes the address out of every rule whose priority is in the cluster's range,
  those of users too, and writes an *allow* rule of the cluster for the ports to be kept,
  whatever the access of the rule was.

Private link service:

- Removing the annotation leaves the private link service in place
  (`azure_privatelinkservice.go:168`); changing its resource group makes the old one
  invisible, so that the frontend can never be deleted.
- When the owner is deleted and a service that shares the frontend remains, the private
  link service keeps the owner that is gone; a remaining service with settings of its own
  fails at every retry.
- After an update that took effect and reported an error, a service edited back to the old,
  cached settings is taken for ensured.
- A private link service that a user made is deleted with the frontend.

Local services (`azure_local_services.go`; noted by `missed`):

- The handler takes the previous version of one slice for the content of the pool: with
  several slices it removes nodes that others need, and a slice that is added or deleted
  enqueues nothing.
- `:597` compares lengths: endpoints [A, A] that become [A, B] add nothing.
- `:252` drops a batch whose error is not retriable, a lost etag (412) included.
- `:601` to `:605` add the operations one by one, each under the lock, in the informer's handler and in a
  reconciliation. When the slice changes from [n1, n2] to [n1] while a reconciliation has computed its
  correction and not added all of it, the later, older operation wins: the pool ends as {n1, n2}. A
  change that arrives before the correction is computed, or after its last operation was added, is
  checked (`UpdatesReachPool`), whatever the order in which the operations are queued.

Storage accounts (`azure_storageaccount.go`):

- `AccessTier` is put into the parameters after Create was sent (`:574`), so that requests with
  a tier make an account each.
- A caller that asks for no private endpoint can be given an account that another caller is
  about to make private.
- `GetStorageAccesskey` failing for a named account with `CreateAccount` set leads to a
  Create on the existing account, which overwrites its tags; tag updates carry no etag and
  overwrite changes from outside; a failure after Create leaves an account nobody owns.
- `azure_cache.go` says of `Set` that it is "only used for testing", but
  `azure_storageaccount.go:737` and `:765` use it. `TimedCache` has it as an operation.

Clients:

- Throttling met on a later page of a list is not recorded
  (`azure_publicipclient.go:433` and alike): the error is built from the page before.
- A 429 without Retry-After clears the instruction another goroutine has recorded.
- When the global host answers empty and the regional host fails, an empty resource is
  returned as success (`armclient/util.go:109`).
- `ListFileShare` repeats a failing page for ever.
- The file and blob service operations that use the storage SDK return its error as it is, and the scale set
  client's waits (`azure_vmssclient.go:313`) that of the future: a lost answer is not marked
  retriable there, and the waits do not look at the status of the answer either.
  `LostAnswerRetriable` is about the other operations.

Nodes:

- `range_allocator.go:339`: when the second family has no CIDR left, that of the first is
  released in the bitmap of the second, and stays taken.
- Node manager: `updateNetworkingCondition` looks the condition up in the node of the event;
  a node recreated during its initialization is untainted without NetworkUnavailable
  before its routes exist. `UntaintedIsReady` leaves nodes that are recreated out of what it
  says of routes.
- The provider ID of a machine that has left `nonVmssUniformNodesCache` is answered with an
  error and no refresh, so that the node of a deleted machine of an availability set is not
  removed before the TTL passes.
- A node of an availability set that registers while `nonVmssUniformNodesCache` is refreshed, after the
  machines were listed (`azure_vmss_cache.go:338`) and before the node names are (`:360`), is a known node and no
  machine of an availability set: it is taken for one of a uniform scale set, is not found there and is
  reported not to exist, though it runs. `RunningNotDenied` leaves it out (`slipped`).
- A machine of a uniform scale set that is not active is skipped by `EnsureHostsInPool` and
  `EnsureBackendPoolDeleted`, which return nil (`azure_vmss.go:1060`, `:1576`; the tests at
  `azure_vmss_test.go:2221` and `:2752` want it so); a flexible machine whose look-up fails
  (`azure_vmssflex.go:451`), and one that is not found at a deletion (`azure_vmss.go:1565`), are skipped
  alike. They stay out of the pool, or in it, until the next call. `AddedIsIn` and `DeletedIsOut` are about the
  machines that were not skipped.
- `azure_standard.go:1060`: one network interface in a failed state makes
  `EnsureBackendPoolDeleted` return nil before any interface is written.

## 6. What is not modelled

`PROJECT.json` lists every part under `components`. Not modelled are the newer clients in
`pkg/azclient`, generated wrappers of the SDK whose pipeline is outside the repository;
configuration, flags and the start of the processes; the credential providers, one
request and one answer each; subnets, which are read without state; the health probe
proxy, a byte pipe; metrics, logging and the test tooling.

Within the modelled parts these details are left out: probes, outbound rules and the
contents of rules in `Frontends` and `MultiSLB`; pools based on network interfaces are in
`BackendHosts` and not in `MultiSLB`; the next hop, a function of the node, in
`RouteUpdater`; several keys in `TimedCache`, which share only the lock under which entries
are added; the caches' objects in `ResourceLock`, of which only "newer or older than the
others' writes" is kept; a second IP family in `Frontends`, `SecurityGroup`, `LocalServices`;
services with several ports; a second EndpointSlice in `LocalServices`; several scale sets
in `Machines`; addresses, types and zones of machines, which are answered from the
look-ups that are modelled; storage keys.

Some definitions are narrower than their code in a way that none of the properties can tell:

- `RouteUpdater.ListRoutes`: `routeCIDRsLock` is held while it waits for its operation
  (`azure_routes.go:292-311`), so that calls for unmanaged nodes (`:382`, `:457`) wait as well. The updater
  never takes that lock, so nobody waits in a circle.
- `ResourceLock.updateReleased`: a failed release makes the call fail. In `UpdateLoadBalancer`, whose result has
  no name, the deferred function's error is lost (`azure_loadbalancer.go:303`, `:364-385`); the lease is then
  left to expire all the same.
- `StorageAccount.SetFileProperties` merges the changed field. The code writes all the cached
  properties back, an outdated retention policy among them (`azure_storageaccount.go:549-569`); between callers that
  are `Compatible` nobody else changes it.
- `SecurityGroup.listSharedIPPortMapping`: services with floating IP disabled, whose rules are for the
  backend addresses (`azure_loadbalancer_accesscontrol.go:78-80`), and additional public IPs
  (`azure_loadbalancer.go:3031`, `:3082-3095`) are left out. `SecurityGroup.Delete`: a service that has no address yet
  is let go, where `NewAccessControl` may refuse it (`:3048-3051`), as it does with an address (item 6 above).
- `PrivateLink.EnsureLink`: a service whose link is refused does not count as a user of the
  frontend, though its rules are there by then (`azure_loadbalancer.go:159`, `azure_privatelinkservice.go:90-92`).
- `NodeIpam.Listed`: the mask sizes of a scale set are read at the start; the code falls back to its defaults
  when that fails (`cloud_cidr_allocator.go:128`, `:234-244`) and skips nodes without provider ID (`:124`, `:353`).
- `Machines.ListUniform`: a nil entry stays until the machine is listed again; the code drops it after the
  TTL (`azure_vmss_cache.go:218-223`).
- `Frontends.Bound`: the DNS label itself, which is written to a user's public IP too
  (`azure_loadbalancer.go:1252-1258`, `:1319-1332`), is not in the model, but only the tag that says which service uses
  it, which a user's public IP never gets. An annotation of IP tags without any tag is left out.

Components are composed where they share state in memory (`SecurityGroup` with `IpRanges`,
`NodeIpam` with `CidrSet`, `Machines` with the node controllers that ask it); where they only
meet in Azure, one is the environment of the other: a load balancer gives `SecurityGroup`
an address, `Frontends` frontends to `PrivateLink`.

## 7. Plan

The modules planned are written, and every safety property of the passing runs is proved.
What could follow:

1. **Frontends**: the theorems for services that change their public IP. `Steady` would become
   a statement on the order of edits, since some sequences break the properties (section 5).
2. **NodeIpam**: the cloud allocator without a permanent node of the finest mask, once the
   rebuilt bitmap keeps what was allocated.
3. A second IP family in `Frontends` and `SecurityGroup`.

Liveness stays with TLC.
