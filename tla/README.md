# Verification of the Thalassa cloud provider for Kubernetes

This directory holds TLA+ models of `cloud-provider-thalassa`, the TLC
configurations that check them, and proofs checked by TLAPS. The models are
written from the Go code in `src/pkg/provider` and from the vendored Kubernetes
controllers (service, cloud node, node lifecycle) that call it.

Throughout, LB is the cloud load balancer, TG a target group, SG a security group.

## The system

The controller manager runs the Kubernetes *service controller* (vendored). For
every Service of type `LoadBalancer` that controller calls the provider, which
turns the Service into objects of the Thalassa API and polls the API until they are
usable. Nothing is stored on the provider's side: each call lists what exists, by
labels, and repairs the difference one API call at a time. A second, provider-owned
loop resyncs Services with `externalTrafficPolicy: Local` when their endpoints move.
Beside it run the *cloud node controller* and the *node lifecycle controller* (vendored),
which ask the provider about the machine behind a node.

| component | state | operations | interacts with |
|---|---|---|---|
| load balancer reconcile (`loadbalancer.go`) | none of its own; LB, status, addresses in the cloud | Get, Ensure, Update, EnsureDeleted | called by the service controller and the resync queue |
| target groups (`loadbalancer_targetgroups.go`) | TGs and their server attachments | create, update, attach, clean up unused | before and after the listeners |
| listeners (`loadbalancer_listeners.go`) | listeners, each pointing at a TG | delete, update, create | finds the TG through port labels |
| managed security group (`loadbalancer.go:766-920`) | one SG per Service | find, create, overwrite rules, delete | attached to the LB |
| service controller (vendored) | queue, finalizer, status, cached Services, last synced nodes | sync, node sync, restart | drives everything above |
| EndpointSliceWatcher (`endpointslices.go`) | informer caches, `localTrafficServices` | six handlers | triggers the resync queue |
| resync queue (`loadbalancer.go:607-758`) | work queue with back-off | process, periodic scan | calls UpdateLoadBalancer |
| NodeFilter (`nodefilter.go`) | none | Filter | Ensure and Update |
| annotations (`annotations.go`, `loadbalancer_features.go`) | none | pure | desired state |
| labels and names (`metadata.go`, `loadbalancer.go:267-320`) | none; the labels of the cloud's objects | lookups | every list call |
| InstancesV2 (`instancesv2.go`) | none; machines in the cloud, nodes in the API server | exists, shutdown, metadata | called by the node controllers |
| configuration, factory, entry point (`cloud.go`, `main.go`) | default subnet, cluster name, additional labels | start | everything above |

What is hard here:

* **Partial failure.** One reconcile is a dozen API calls; each may fail, take effect
  and lose its answer, or be cut off by a restart. The next attempt starts from
  whatever is left.
* **Interleaving.** The service worker, the node worker and the resync processor work
  on the same Service without a common lock and from different snapshots.
* **Time-outs against background work.** LB creation and deletion finish in the
  background; both polls give up after five minutes.
* **Order.** TGs must exist before a listener points at them and go only afterwards;
  a wanted port should not stop being served meanwhile.
* **Identity.** Nothing is remembered: objects are found again by labels, names, slugs
  or provider IDs, which may change or come to mean something else.
* **Triggers.** A resync is triggered by informer events that may come in an unlucky
  order or not at all.

What makes each part correct: at most one LB per Service; the finalizer released only
when the LB is gone; a successful reconcile has realised its Service; no dangling
listener; wanted ports stay served; a deleted Service leaves nothing; a Service that
stays ends up realised and published; the attached nodes end up being those the
traffic policy asks for; only the Service's own objects are touched; the attributes of
an ensured Service are the ones its annotations ask for; a node belongs to its own
machine and goes only, and eventually, when that does. The hazards are listed with their
lines in `PROJECT.json`.

## Modules

* **`LoadBalancerContract`** - abstract: one load balancer that is none, being created,
  ready or being deleted; the finalizer that holds its Service; whether an address is
  advertised. No API calls, workers, retries or crashes.
* **`DesiredState`** - pure: the ports of a Service, the keys and labels under which
  TGs and listeners are compared, the last-entry-wins Go maps.
* **`Reconcile`** (extends it, implements `LoadBalancerContract`) - one Service at the
  granularity of API calls. `Controller` is the service controller's worker, `Updaters`
  are goroutines that call UpdateLoadBalancer concurrently (the resync processor). `pc`
  is the worker's place in the code, `job` the operation with the snapshot of the Service
  and nodes it was given, `mem` what it has read or been told since. The variables `lbs`,
  `tgs`, `listeners`, `sgs` are the cloud's objects of this Service.
* **`Resync`** - which nodes are attached: watcher, queue, filter, and the three writers
  `resync`, `service`, `node`, with policy changes, slices, node states, missed
  deletions (tombstones) and restarts. What one update does in the cloud is one step here.
* **`Identity`** - which cloud objects a job takes for its Service's own: labels from the
  Service and the configuration, several Services of several clusters in one VPC, one
  API call per step, restarts with another configuration.
* **`ServiceOptions`** - pure: annotations to listeners, allowed sources, health check and
  the rules of the managed SG.
* **`Placement`** (extends it) - the attributes of one Service's LB over its life: the
  factory's default subnet, subnet, security groups, rules, reserved IP.
* **`NodeLifecycle`** - nodes and machines: `instancesV2` and the two node controllers.
* **`MCReconcile`, `MCResync`, `MCIdentity`, `MCPlacement`, `MCNodeLifecycle`** - the
  instances for TLC.
* **`ReconcileProofs`, `LifecycleProofs`, `ContractProofs`, `ListenerProofs`** (each extends
  the one before) - the theorems about `Reconcile`; **`ResyncProofs`, `IdentityProofs`,
  `PlacementProofs`, `NodeLifecycleProofs`** - those about the other models.

The detail is divided between the models: `Reconcile` has racing workers, faults and
the order of calls for one Service with constant labels and verbatim attributes;
`Identity` varies the labels, `Placement` the attributes, `Resync` the nodes. Each keeps
what its question needs of the others in one step.

### Correspondence with the code (Reconcile)

| code | actions |
|---|---|
| `syncLoadBalancerIfNeeded` | `StartSync` (with the finalizer added), `GetLoadBalancer`, `RemoveFinalizer`, `Publish` |
| `EnsureLoadBalancer` | `FetchLoadBalancer`, `CreateLoadbalancer`, `PollReady` |
| `UpdateLoadBalancer` | `StartResync`, `FetchLoadBalancer`, `ReturnUpdated` |
| `createOrUpdateTargetGroups` | `ListTargetGroups`, `CreateTargetGroup`, `UpdateTargetGroup`, `SetAttachments` |
| `updateVpcLoadbalancerListener` | `ListListeners`, `DeleteListener`, `UpdateListener`, `CreateListener` |
| `cleanupUnusedTargetGroups` | `ListUnusedTargetGroups`, `DeleteTargetGroup` |
| `verifySecurityGroupsExist`, `ensureManagedSecurityGroup` | `ListSecurityGroups`, `EnsureManagedSecurityGroup` |
| `updateVpcLoadbalancer` | `UpdateLoadbalancer` |
| `EnsureLoadBalancerDeleted` | `DeleteLoadbalancer`, `AwaitGone`, `ListRemainingTargetGroups`, `DeleteTargetGroup`, `DeleteManagedSecurityGroup` |

A loop over a list is a set of things still to do, taken in any order: Go map and API
order are not guaranteed. Two API calls are one step in three places only. The list that
verifies the user's security groups is read with the lookup of the managed one, and the VPC with what
follows it: no worker changes what the first of the two reads. The finalizer is added in
`StartSync`, the first call of an ensure: if it fails, or the process ends before it, the
Service and its queue are as they were before the sync; if it takes effect and anything goes
wrong afterwards, that is a failure or crash before the ensure's first call.

The removal of the finalizer and the patch of the status are two calls (`RemoveFinalizer`,
`Publish`), each of which may fail or lose its answer, with crashes in between. Neither is
made when there is nothing to change. A crash between them has a lasting effect: a Service
that was switched to ClusterIP has lost its finalizer and still has its old address, and
neither the Add event of the next start (`controller.go:136-140`, `needsCleanup` at line 539)
nor an update of anything but its type (`needsUpdate` at line 557) queues it again.
`StatusCleared` says that this is the only way a status can stay behind.

Abstractions: names, descriptions and verbatim attributes are left out, as are subnet and
reserved IP (`Placement` has them: two more reasons for the same UpdateLoadbalancer
call). The rules of the managed SG are named by the ports they are built from. The early
return on an invalid load-balancing policy (an error before any TG call) is in
`Placement`. The Service the controller reads from its informer is the current one: a
stale read is followed by the update event, which queues the key again. The nodes of a
job are read when it starts. In the same way a retried sync sees what the one before it wrote.

The cloud is modelled from how the code uses it: it never reuses an identity, refuses a
call that names a missing object, provisions and deletes LBs in the background, removes
the listeners with their LB, and reports the listeners of a TG when it is listed. It is
*not* assumed to refuse the deletion of a TG in use, or a second listener on a port:
the code has to get that right by itself.

### Correspondence with the code (Resync)

`HandleServiceEvent` and `HandleSliceEvent` are the six handlers, each with the store
update of its informer; an event carries the old and the new object. `StartResync`,
`GetService`, `ListNodes` are `processServiceQueue` and `processServiceResync` up to the
call of UpdateLoadBalancer; `FilterNodes` and `AttachNodes` are that call (and
EnsureLoadBalancer, for `service`): the list is computed in one step and attached in a
later one. `StartEnsure` and `StartNodeSync` are the service controller's two loops with
its node predicates, cached Service and last synced nodes. `PeriodicScan` is
`enqueueLocalTrafficPolicyLoadBalancers`. `CallFails` drops the key before
UpdateLoadBalancer and puts it back after, as the code does.

### Correspondence with the code (Identity)

`GetLabels`, `MatchLabels`, `Fetch`, `FindManagedSecurityGroup` are the functions of
`metadata.go` and `loadbalancer.go` of those names. `EnsureFetches` to `UpdateLoadbalancer`
are EnsureLoadBalancer for a Service with one port and a managed SG, `DeleteFetches` to
`Purge` are EnsureLoadBalancerDeleted. `Restart` makes a new provider with any
configuration, at any moment; the jobs under way are cut off and started afresh. A restart after
DeleteLoadbalancer and before the clean-up behind it leaves TGs, since the deletion that
follows finds no LB (`loadbalancer.go:206`): the history variable `abandoned` marks the Services
this happened to, and `GoneLeavesNoTargetGroups` excepts them. An identity is opaque to the code; in the model it also says for
which Service the object was made, so that properties can speak of ownership.
The name of an LB, `a` and the UID cut to 32 characters, is taken to be as unique as the UID.

### Correspondence with the code (ServiceOptions, Placement)

An annotation is the list of its entries, or a number with a kind (absent, not a number,
a number). `Word` stands for 2^32, scaled down; `Unsigned` and `Signed` are Go's
conversions. `CombineSources` is `append(globalAclAllowedSources, perPort...)` with the
array that all ports share when it has spare capacity; `RemoveDuplicateStrings` is the
copy that makes this harmless; both Go loops are functions of the number of passes, and
`Capacity(n)` is the room `append` reserves for n entries. `Start` is `cloudInitializer` and the factory,
`CreateBalancer` is `createVpcLoadbalancer`, `UpdateBalancer` is
`updateVpcLoadbalancerListenersAndTargetGroups` with `updateVpcLoadbalancer` and its
error returns in the code's order. `call` records whether the last ensure asked for an
update of the LB.

### Correspondence with the code (NodeLifecycle)

The functions of `instancesv2.go` are operators of their names; `fails` is an error other
than not found. `SyncNode` and `InitialiseNode` are the cloud node controller's `syncNode`
before and after its call of InstanceMetadata, `ReadAddresses` and `PatchAddresses` its
`UpdateNodeStatus`, `ExamineNode` to `TaintNode` one node's turn in `MonitorNodes`. A node
is always written by name and after the answer. Machines may be created, readdressed, shut
down, deleted, and replaced by another of the same slug; machines of other VPCs may have
the same slug. Assumed: identities are not used twice, a slug is unique in its VPC, kubelets
register without a provider ID, only `MonitorNodes` deletes node objects, and the informer
caches are current at the start of each round.

## Runs

Every bound is a constant: `MaxChanges` user changes, `MaxFaults` failed calls, lost
answers, missed deletions and crashes together.

| run | checks | instance |
|---|---|---|
| `sequential` | `TypeOK`, `AtMostOneLoadBalancer`, `NeverOrphaned`, `NoDanglingListener`, `OneListenerPerPort`, `SecurityGroupsAttached`, `SettledIsReleased`, `SettledIsRealised`, `ServedStaysServed`, `StatusCleared`, `ImplementsContract` | service worker alone, 3 Services, 2 node sets, 2 changes, 2 faults |
| `concurrent` | `LifecycleInv`, `ReconcileEstablishesSpec` | worker and resync processor, 1 change |
| `liveness` | `GoneLeavesNothing`, `SettledIsServed`, `QueueDrains`, `DeletionCompletes`, `EventuallyRealised` | 3 changes, no faults, fair |
| `resync_local` | `TypeOK`, `LocalIsTracked`, `EventuallyFiltered` | terminating and unset conditions, excluded and unready nodes, 1 change, 1 fault |
| `resync_cluster` | `EventuallyAllNodes` | healthy nodes, 2 changes, no faults |
| `identity` | `TypeOK`, `OneLoadBalancerPerService`, `BackedByOwnObjects`, `SettledUnderPresentLabels`, `GoneLeavesNoTargetGroups`, `OnlyOwnObjects` | two clusters, possibly of one cluster name, a Service of the same namespace and name in each, colliding additional labels, 2 restarts anywhere |
| `options` | `TypeOK`, `SettledAsRequested`, `SourcesAsConfigured`, `LimitsAsRequested`, `NoNeedlessUpdate` | the requests of `MCPlacement`, 1 change, 1 restart |
| `nodes` | `TypeOK`, `ProviderIDIsOwnMachine`, `LiveMachineKept`, `GoneNodeRemoved`, `ShutdownTainted`, `EventuallyInitialised`, `AddressesFollow` | one node name, two machines of it in turn and one of another VPC, 2 addresses, 4 changes, 1 fault |

Two changes and two faults are what the properties need: an edit, a failure in the
middle of realising it, a second failure or edit on the way back. `ReconcileEstablishesSpec`
speaks of a job that ran `alone`: in `concurrent` it shows that one undisturbed
reconcile repairs whatever two overlapping ones left (duplicate TGs included; a duplicate
listener stays, but points where it should). The three `Settled...` properties speak of the
moment when the service controller rests with an empty queue: whatever was edited, failed or
cut off before must have been made up for by then, since nothing else is going to happen. The
invariants of `sequential` also hold with 3 changes, those of
`concurrent` with 2 changes or 1 fault; those runs take several minutes and are not kept.
Two Services suffice in `identity`: a lookup concerns one Service and takes or leaves
objects of another. Seven objects per Service are what two restarts in unlucky places
need. In `options` one edit or VPC change relates every pair of requests and of VPCs.
`SourcesAsConfigured` needs three sources for all ports, an array with room for a fourth, and
ports with one more each. In `nodes` four changes are a machine created, changed or deleted, replaced,
and changed again; a second name would only repeat the first. Deadlock is not checked: with
the Service settled and the bounds used up the system rests.

`NoDanglingListener`, `SecurityGroupsAttached` and `ServedStaysServed` are checked with the one
worker of `sequential`, hence for reconciles, and proved for reconciles and resyncs that do not
overlap; with an overlapping resync a TG can be deleted under another worker's new listener.

### Disagreements with the documentation

These runs end in a counterexample; `PROJECT.json` quotes the lines that say otherwise.

| run | what happens |
|---|---|
| `delete_retry_leak` | a deletion that fails after the LB is gone is retried, finds no LB and succeeds at once: TGs stay |
| `same_port_protocols` | TCP and UDP on one port number collapse into one protocol, without an error |
| `status_after_timeout` | the retry after a timed-out creation publishes an empty status and nothing follows |
| `metadata_by_name` | a node that has a provider ID is given the addresses of another machine of its name |

Further counterexamples the models have, with the constants that lead to them. They are
not kept as runs of their own:

| property | instance | what happens |
|---|---|---|
| `GoneLeavesNothing` | `MCManaged`, 1 change, 1 fault | `deleteManagedSecurityGroup` swallows its error (`loadbalancer.go:917`), and a group made before a failing CreateLoadbalancer is not looked for again: the managed SG stays. `annotations.go:62` says it "will be deleted when the loadbalancer is deleted" |
| `GoneLeavesNoTargetGroup` | one updater, `MCTwoSpecs`, 1 change, no faults | a resync that overlaps with the deletion creates a TG after the clean-up listed them (`loadbalancer.go:650` does not look at the deletion timestamp) |
| `~StatusLeft` as an invariant | `sequential` with 1 change, 1 fault | a crash between the removal of the finalizer and the patch of the status (`controller.go:394`, `:427`) leaves the address of a Service that has become ClusterIP published. `controller.go:138` says that AddFunc's check "can provide a remedy when controller failed to handle changes before it exiting (e.g. crashing, restart, etc.)" |
| `GoneLeavesNoTargetGroups` without `~abandoned` | `identity` | a restart between the deletion of the LB and the clean-up behind it leaves TGs, with unchanged labels too |
| `EventuallyRealised` | `FairSpec`, `MCTwoSpecs`, 2 changes, 1 fault | a type change back to LoadBalancer while a timed-out deletion still runs in the cloud is reported as ensured, and the LB then disappears (`loadbalancer.go:114`) |
| `EventuallyRealised` | `FairSpec`, one updater, `MCTwoSpecs`, 1 change, no faults | a resync holding the Service from before an edit ends after the ensure of the edit and puts listeners and TGs back; nothing follows. The two-minute scan repairs this for Local services only |
| `EventuallyAllNodes` | `resync_cluster` with `MCNodeFails` | a node that is not ready while a service switches to Cluster is left out by the resync and not attached when it is ready (`loadbalancer.go:662`; `docs/loadbalancer-annotations.md:708`: "All nodes are included") |

Met while modelling and visible in the definitions:

* Nodes attached. `Filter` leaves every node in when a Local service has no ready endpoint
  (`docs/loadbalancer-annotations.md:707` says only nodes with ready endpoints are included).
  The resync selects nodes by readiness alone and so attaches nodes that the service
  controller's predicates exclude (`ReadyNodes`, `StableNodes`). With one failed Get, a
  resync that still took the service for Local can write last after a switch to Cluster,
  because the key is dropped (`CallFails`).
* Identity. After a change of labels the old TGs and the old managed SG are never found
  again (`GoneLeavesNoTargetGroups` is stated for Services that kept their labels and whose
  clean-up was not abandoned); going
  back to earlier labels can leave two managed SGs, of which deletion removes the first.
  The last list of TGs in the deletion (`loadbalancer.go:236`) has no VPC filter.
* Annotations. A subnet given by its slug is a difference at every reconcile
  (`loadbalancer.go:578` compares it with the identity), hence the condition in
  `NoNeedlessUpdate`; so are security groups reported in another order. An empty
  `security-groups` annotation is one group without a name and fails the ensure. An invalid
  load-balancing policy fails only after the LB was created. Limits outside 32 bits wrap
  (`LimitsAsRequested` is stated for the range), and `health-check-port` is not checked
  against 1..65535; a number that does not parse is logged and the default taken, where
  `docs/loadbalancer-annotations.md:704` says that invalid values fail the update. An ACL annotation without a valid CIDR counts as none. A managed SG for a
  Service without ACL has no ingress rule at all.
* Default subnet. It is discovered at every start, so that labelling another subnet moves
  the existing LBs after a restart. "First subnet in the VPC" (`annotations.go:4`) is never
  the default: the factory refuses to start without a labelled one among several.
* Nodes and machines. InstanceShutdown looks at the status `deleted` and `unknown` only; a
  machine that is stopped is not shut down for it. A node whose machine is gone before it
  was initialised is never removed: an empty provider ID is an error. A machine replaced
  under the same name keeps its node object while its kubelet reports, and with it the
  provider ID of the old machine, which is what the LB attaches. `MonitorNodes` deletes by
  name and without a UID precondition: if somebody else deletes the node object at that
  moment and the machine's successor registers, its node is deleted (`LiveMachineKept` fails
  when such an action is added).

### Fairness

Weak fairness for the workers (goroutines the runtime schedules, work queues that hand
out a queued key, rate limiters that let it through eventually), for the cloud's
background work (a poll that waits for it would otherwise end in a time-out, which is a
fault), for informers and for the ticker of the periodic scan. In `NodeLifecycle` strong
fairness for visiting a node (`SyncNode`, `ReadAddresses`, `ExamineNode`): the loops come
round to every node again and again, although the condition may be false in between while
they work on another; weak fairness for finishing a job, and for the node of a machine that
does not run to be reported NotReady. Users, machines, kubelets and faults owe nothing;
faults are bounded, so a retry eventually gets through.

## Proofs

Each theorem holds for every value of the constants: any sets of Services, specs, nodes,
identities, machines, labels, subnets and annotations, any number of updaters and every
bound. "Not inductive" below means that a single step from some (unreachable) state could
break the property; the invariant is what the code relies on instead.

| theorem | property | invariant | hypotheses |
|---|---|---|---|
| `TypeCorrect` | `TypeOK` (Reconcile) | itself | |
| `Lifecycle`, `AtMostOne`, `PollSafe`, `ReleasedWhenGone` | `LifecycleInv`, `AtMostOneLoadBalancer`, `PollFindsLoadBalancer`, release only when gone | `LifecycleInv` | |
| `Held`, `Implements` | `NeverOrphaned`, `ImplementsContract` | `HeldInv` | |
| `EstablishesSpec` | `ReconcileEstablishesSpec` | `ReconcileInv` | `DistinctNumbers` |
| `NoDangling` | `NoDanglingListener` | `NoDanglingInv` | `Serial` |
| `OneListener` | `OneListenerPerPort` | `PortInv` | `Serial`, `DistinctNumbers` |
| `GroupsAttached` | `SecurityGroupsAttached` | `GroupInv` | `Serial` |
| `ServedKept` | `ServedStaysServed` (action) | `ReconcileInv`, `NoDanglingInv`, `GroupInv` | `Serial` |
| `NothingLeft` | `GoneLeavesNothing` | `CleanInv` | `Serial`, `NoFaults` |
| `SettledReleased`, `StatusKept` | `SettledIsReleased`, `StatusCleared` (action) | `QueuedInv` | |
| `SettledRealised` | `SettledIsRealised` | `CurrentInv` | `Sole`, `DistinctNumbers` |
| `SettledServed` | `SettledIsServed` | `ReachInv`, `ServedInv` | `Sole`, `DistinctNumbers`, `NoFaults` |
| `NoOwnError` | `NoErrorOfItsOwn` (action; checked by TLC on the instance of `liveness`) | `ReachInv` | `Sole`, `NoFaults` |
| `ResyncTypes`, `Tracking` | `TypeOK`, `LocalIsTracked` (Resync) | itself, `WatchInv` | |
| `IdentityTypes`, `OneLoadBalancer`, `OwnBackends`, `SettledLabels`, `NoTargetGroupLeft`, `OwnObjectsOnly` | `TypeOK`, `OneLoadBalancerPerService`, `BackedByOwnObjects`, `SettledUnderPresentLabels`, `GoneLeavesNoTargetGroups`, `OnlyOwnObjects` (action) | `IdentityInv` | |
| `PlacementTypes`, `AsRequested`, `SourcesConfigured`, `LimitsRequested`, `NoUpdate` | `TypeOK`, `SettledAsRequested`, `SourcesAsConfigured`, `LimitsAsRequested`, `NoNeedlessUpdate` (action) | `PlacementInv` | |
| `NodeTypes`, `OwnMachine`, `LiveKept` | `TypeOK`, `ProviderIDIsOwnMachine`, `LiveMachineKept` (action) | `NodeInv` | |

### The arguments

**Lifecycle.** `AtMostOneLoadBalancer` is not inductive: that a worker at `createLb` may
create an LB depends on there being none, which depends on only the Controller creating LBs
and on the fetch it made earlier still being true although the cloud and other workers
moved. `LifecycleInv` says exactly that: `RoleInv` (which operation can be where),
`HoldsInv` (which steps hold an LB, and that one created by this call is not being deleted)
and `EmptyInv` (no LB exists while one is about to be created, nor after the removal was
awaited). It is proved inductive relative to `TypeOK`.

**Refinement.** The set of LBs maps to one abstract LB (`Balancer`): none, or the status of
the one there is. That this is a function of the state rests on `LifecycleInv`. The abstract
contract creates and deletes only while the Service is held, and releases only when there is
none: neither follows from a single action, since the finalizer was written when the sync
began and the type may have been switched and the process restarted since. `HeldInv`
carries it: an LB, or an ensure under way, means the finalizer is there, a gone Service has
none, and a Controller at work has a job. Each action is then simulated: creation, deletion,
the cloud's two background steps, finalizer, status and phase are abstract steps (the removal of
the finalizer is `Release`, the patch after it `Withdraw`, which need not come); every other
action, with any number of updaters, is a stutter.

**What a reconcile leaves.** `ReconcileEstablishesSpec` speaks of the end of a job; the
invariant has to say what is already right in the middle of it. `WorkInv` does so stage by
stage, for a job that nobody overlapped with: `Collecting` (every port of the spec is still
to be created, still to be updated, or has its TG returned; every TG with a wanted key is
accounted for), `Collected`, `Rewiring` (every listener is right or its turn comes, every
port has a listener that stays or gets one), `Wired`, and the stage of the clean-up (exactly
what the spec does not ask for goes). Nothing is assumed about what earlier faults, crashes
or overlapping reconciles left. A job may be `alone` in a system with any number of updaters, so
the theorem needs neither `Serial` nor `Sole`.

**Taking turns.** Any number of updaters may exist; what these theorems ask is `[]Serial`, that
the jobs on the Service do not overlap in time. `TakesTurns` then turns every step into one of a
single worker beside which all others are idle, before and after it, so that each invariant is a
statement about one job (`NoDanglingJob`, `PortJob`, `GroupJob`, `CleanJob`) proved for whoever has
its turn. What one job leaves, in success or in the middle, is all the next one can rely on.
`NoDanglingListener` is not inductive: the list of TGs to delete may be older than the listeners.
`NoDanglingInv` says that what is about to be deleted is referenced by no listener, and that a
listener is only pointed at a TG that exists. `PortInv` says that a port about to get a listener
has none, though a create may take effect and lose its answer; `GroupInv` follows the managed SG
from its lookup to the update that attaches it. `ServedStaysServed` follows from these, one action
at a time: make before break holds because listeners are moved before unused TGs are listed.

**Deletion.** `CleanInv`: without an LB there is no TG and no managed SG, except while an
ensure is about to create the LB and while a deletion is cleaning up, whose list then holds
every TG there is.

**At rest.** The `Settled...` properties are what remains of "eventually" without fairness: the
system does not stop short of its goal. `QueuedInv` says that whenever the clean-up of a
Service is incomplete, its key is queued or the Controller is at work on it; the step that
needs care is the end of a job whose Service was edited meanwhile. `StatusCleared` is an action property
over the same invariant: among all the steps that could end with a status left behind, each but
the crash without a finalizer either queues the key or has just cleared the status. `CurrentInv` adds that an
ensure whose key is not queued again has the spec of now, runs alone and still holds the only
LB, so that what it has established when it publishes is what the Service asks for. `ServedInv`
follows status and address: every LB is ready except the one that an ensure is creating and the
one a deletion waits for, and an ensure that holds an LB it did not create has its address.
That needs to know that a job which created an LB is not cut short before its poll:
`ReachInv` says that whatever the only worker is about to name in a call is there, hence no
call of it is refused (`NoOwnError`).

**Watcher.** `EventsChain`: the pending Service events lead from the policy the watcher has
seen to the present one.

**Identity.** The lookups go by labels that the configuration can make collide. `IdentityInv`
says of each Service that its objects carry its UID label whatever the additional labels are
(`LabelsOwn`), what its job holds at each step, and which of its objects carry the present
labels (`Fresh`); a restart only ends jobs, and marks the clean-up it abandons. A step for one Service leaves every other Service's part alone (`OneServiceStep`),
which is also what `OnlyOwnObjects` says of the cloud.

**Placement.** `PlacementInv` keeps, beside the types, that a settled Service has what it
asks for under the present subnets and configuration (`AsAsked`), the comparison of the next
ensure included; `UpdateBalancer` is taken branch by branch in the order of its error returns.
The conversions are proved for every even word (`UnsignedRange`, `SignedRange`). For the
sources, the loop over the ports is followed pass by pass: each pass appends behind the common
sources in an array that may be shared, leaves the common sources at its front as they were,
and keeps for its port a copy that no later pass can reach. That the loop is a function at all
(`LoopExists`), and that its invariant holds for every pass, are inductions over the number of
passes, done with the least pass that fails.

**Nodes.** `LiveMachineKept` needs the answer of InstanceExists to remain true until the
node is deleted by name: `NodeInv` says that a node about to be deleted still has the
provider ID MonitorNodes read, and that the machine stays gone, since no identity comes back.

### Assumptions

Constants: the Controller is not an Updater; `None` is not an identity, an object or a
request; identities are naturals; Services satisfy the API server's port validation; bounds
are naturals; a Service has finitely many endpoint slices. In `Placement`: annotations are
strings; a port is TCP or UDP, the two the API's listeners know of those a Service may have
(the ensure of an SCTP port fails at its TG or listener and never settles, although
`loadbalancer.go:881` has written a TCP rule for it by then); a health check node port fits 31 bits; subnet
identities are not empty, a subnet keeps its slug and no slug is another's identity. `Capacity(n)` may
be any natural number that is at least n: nothing is assumed of how `append` grows an array. TLC
evaluates all of them on the instances of the runs.

Hypotheses stated in a theorem are not properties of every deployment, and there is a
counterexample without each of them: `DistinctNumbers` (no two ports of a Service share a number; see
`same_port_protocols`), `Serial` (no two jobs on the Service at a time; with an overlapping
resync a TG can be deleted under another worker's new listener), `Sole` (no resync processor, of
which `Serial` is a consequence; an update that failed half-way leaves TGs with the nodes of two
node sets while the service controller rests),
`NoFaults` (`MaxFaults = 0`; see `delete_retry_leak`, and `status_after_timeout` for
`SettledServed`).

### Only model-checked

Everything under fairness: `QueueDrains`, `DeletionCompletes`, `EventuallyRealised`,
`EventuallyFiltered`, `EventuallyAllNodes`, `GoneNodeRemoved`, `ShutdownTainted`,
`EventuallyInitialised`, `AddressesFollow`. Every invariant and every action property of a
passing run is a theorem. For a Service under `Reconcile` the safety half of the first three is
proved as well (`SettledReleased`, `SettledRealised`, `SettledServed`): when the Controller comes
to rest, it rests where it should. That it comes to rest is `QueueDrains`.

## Not modelled

* Credentials, client construction, YAML, flags, version: they run once at start-up and
  either fail the start or leave nothing behind. If `Initialize` fails, `LoadBalancer()` goes
  on with a nil client; that path ends in the watcher's constructor and is not modelled.
* Attributes that are only copied: `internal` (at creation only), proxy protocol, path,
  protocol, intervals and thresholds of health checks, address family and priority of
  rules, region, zone and instance type of a node.
* Durations: poll interval and timeout with their configuration, the delays of the rate
  limiter, which never forgets a key. The models have no time; a poll may end at any moment.
* One composition of everything: several Services share no state in the provider but the
  queue, whose processor takes one key at a time, and the VPC, which `Identity` has.

## Plan

1. (done) `DesiredState`, `Reconcile`; lifecycle theorems.
2. (done) `Resync`: watcher, queue, filter; tracking theorem.
3. (done) `LoadBalancerContract` and the refinement, checked and proved.
4. (done) `Identity`; `ServiceOptions` and `Placement`; `NodeLifecycle`.
5. (done) Proofs of every safety and action property of the runs.
6. (done) Updaters beside the Controller in the proofs of what a reconcile leaves: a hypothesis
   on the jobs under way (`Serial`) instead of one on the workers there are.
7. The node worker as an updater of `Reconcile` with the Service it cached: its errors go
   back to the service queue, and its spec may be older than the one just realised.
8. Fairness: rankings that would turn the liveness properties into safety lemmas (a job's
   remaining calls decrease, a queue's head moves).
