------------------------------- MODULE Resync -------------------------------
(***************************************************************************)
(* Which nodes are attached to a Service's load balancer: the              *)
(* EndpointSliceWatcher, the resync queue and the NodeFilter of the        *)
(* provider, next to the two loops of the Kubernetes service controller    *)
(* that call the same provider.                                            *)
(*                                                                         *)
(*   "resync"   the provider's own queue: reads the live Service and the   *)
(*              live nodes (the ready ones), then UpdateLoadBalancer;      *)
(*   "service"  the service controller's worker: EnsureLoadBalancer with   *)
(*              the nodes its predicates select (not the excluded ones);   *)
(*   "node"     its node worker: UpdateLoadBalancer with the Service it    *)
(*              cached last and the same predicates.                       *)
(*                                                                         *)
(* The three share no lock.  Each computes its node list from the informer *)
(* cache of endpoint slices and attaches it later; Reconcile models what   *)
(* happens between the two on the cloud's side, here it is one step.  The  *)
(* deletion of the load balancer is Reconcile's subject too and is atomic  *)
(* here (RemoveService).  An endpoint without a node name contributes to   *)
(* nothing and is left out.                                                *)
(***************************************************************************)
EXTENDS Naturals, Sequences, FiniteSets, Functions

CONSTANTS
    Slices,         \* names of endpoint slices of the Service
    Contents,       \* what a slice may hold: sets of endpoints
    Worlds,         \* the states of the nodes: [ready, excluded]
    None,           \* "no slice"
    MaxChanges, MaxFaults

Writers == {"resync", "service", "node"}
Policies == {"Local", "Cluster", "absent"}
Labels == {"idle", "get", "list", "filter", "attach"}

ASSUME SlicesAssumption == IsFiniteSet(Slices)
ASSUME ContentsAssumption == None \notin Contents
ASSUME BoundsAssumption == MaxChanges \in Nat /\ MaxFaults \in Nat

VARIABLES
    \* the API server
    policy,         \* externalTrafficPolicy; "absent" without the Service
    slices,         \* the Service's endpoint slices, name to contents
    world,          \* which nodes are ready, which are excluded
    changes, faults,
    \* the watcher: its informers' pending events and what it has seen
    svcEvents, sliceEvents, seen, cache, tracked,
    \* the resync queue: the key is in it; the key waits out a back-off
    queued, delayed,
    \* the service controller: queue, node queue, cached Service, last nodes
    dirty, nodeDirty, cached, lastSynced,
    \* the writers
    pc, job,
    \* the cloud: the load balancer exists, the nodes attached to it
    lb, attached

api == <<policy, slices, world, changes>>
watcher == <<svcEvents, sliceEvents, seen, cache, tracked>>
ctl == <<nodeDirty, cached, lastSynced>>
cloud == <<lb, attached>>
vars == <<policy, slices, world, changes, faults, svcEvents, sliceEvents, seen, cache, tracked,
          queued, delayed, dirty, nodeDirty, cached, lastSynced, pc, job, lb, attached>>

AllNodes == UNION {w.ready \cup w.excluded : w \in Worlds}
NoJob == [policy |-> "absent", nodes |-> {}]
MaybeContents == Contents \cup {None}
SliceMap(f) == DOMAIN f \subseteq Slices /\ f \in [DOMAIN f -> Contents]

TypeOK ==
    /\ policy \in Policies /\ SliceMap(slices) /\ world \in Worlds
    /\ changes \in 0..MaxChanges /\ faults \in 0..MaxFaults
    /\ svcEvents \in Seq([old : Policies, new : Policies])
    /\ sliceEvents \in Seq([slice : Slices, old : MaybeContents, new : MaybeContents])
    /\ seen \in Policies /\ SliceMap(cache) /\ tracked \in BOOLEAN
    /\ queued \in BOOLEAN /\ delayed \in BOOLEAN /\ dirty \in BOOLEAN /\ nodeDirty \in BOOLEAN
    /\ cached \in Policies /\ lastSynced \in SUBSET AllNodes
    /\ pc \in [Writers -> Labels]
    /\ job \in [Writers -> [policy : Policies, nodes : SUBSET AllNodes]]
    /\ lb \in BOOLEAN /\ attached \in SUBSET AllNodes

-----------------------------------------------------------------------------
(* NodeFilter, node predicates and the watcher's comparison                *)

(* The nodes that host an endpoint Filter counts as ready: the condition   *)
(* unset or true, and not terminating.                                     *)
ReadyHosts(sls) ==
    {e.node : e \in {x \in UNION Range(sls) : x.ready # "false" /\ ~x.terminating}}

(* Filter: no slices, or none with a ready endpoint, leave every node in.  *)
Filter(p, sls, nodes) ==
    IF p # "Local" \/ ReadyHosts(sls) = {} THEN nodes ELSE nodes \cap ReadyHosts(sls)

(* hasNodeAssignmentChanged counts an endpoint only if its condition is    *)
(* set and true, and does not look at terminating.                         *)
NodeAssignment(content) == {e.node : e \in {x \in content : x.ready = "true"}}

(* filterReadyNodes, for the resync; stableNodeSetPredicates, for the      *)
(* service controller, which keeps nodes that are not ready.               *)
ReadyNodes == world.ready
StableNodes == AllNodes \ world.excluded

-----------------------------------------------------------------------------
(* Start-up: LoadBalancer() waits until the slice cache is filled, but not *)
(* until the handlers have run; the first scan is PeriodicScan.            *)

AddEvents(sls) ==
    {q \in [1..Cardinality(DOMAIN sls) -> {[slice |-> n, old |-> None, new |-> sls[n]] : n \in DOMAIN sls}] :
        \A n \in DOMAIN sls : \E i \in DOMAIN q : q[i].slice = n}

AddEvent(p) == IF p = "absent" THEN <<>> ELSE <<[old |-> "absent", new |-> p]>>

Init ==
    /\ policy \in {"Local", "Cluster"} /\ world \in Worlds
    /\ slices \in UNION {[S -> Contents] : S \in SUBSET Slices}
    /\ changes = 0 /\ faults = 0
    /\ svcEvents = AddEvent(policy) /\ sliceEvents \in AddEvents(slices)
    /\ seen = "absent" /\ cache = slices /\ tracked = FALSE
    /\ queued = FALSE /\ delayed = FALSE
    /\ dirty = TRUE /\ nodeDirty = TRUE /\ cached = "absent" /\ lastSynced = {}
    /\ pc = [w \in Writers |-> "idle"] /\ job = [w \in Writers |-> NoJob]
    /\ lb = FALSE /\ attached = {}

-----------------------------------------------------------------------------
(* The watcher.  Each step stores the event in the informer's cache and    *)
(* runs the handler; a deletion the watch missed arrives as a tombstone,   *)
(* which the handlers do not unpack: they do nothing (a fault).            *)

(* Mutants: leaving Local does not trigger a resync; a change to Local is  *)
(* not recorded.                                                           *)
MutHandleServiceEventStays ==
    /\ svcEvents # <<>> /\ svcEvents' = Tail(svcEvents)
    /\ LET e == Head(svcEvents) IN
       /\ seen' = e.new
       /\ tracked' = (e.new = "Local")
       /\ queued' = (queued \/ (e.old = "Cluster" /\ e.new = "Local"))
    /\ UNCHANGED <<api, faults, sliceEvents, cache, delayed, dirty, ctl, pc, job, cloud>>

MutHandleServiceEventAdded ==
    /\ svcEvents # <<>> /\ svcEvents' = Tail(svcEvents)
    /\ LET e == Head(svcEvents) IN
       /\ seen' = e.new
       /\ tracked' = (e.new = "Local" /\ (tracked \/ e.old = "absent"))
       /\ queued' = (queued \/ {e.old, e.new} = {"Local", "Cluster"})
    /\ UNCHANGED <<api, faults, sliceEvents, cache, delayed, dirty, ctl, pc, job, cloud>>

(* handleServiceAdd, handleServiceUpdate, handleServiceDelete.             *)
HandleServiceEvent ==
    /\ svcEvents # <<>> /\ svcEvents' = Tail(svcEvents)
    /\ LET e == Head(svcEvents) IN
       /\ seen' = e.new
       /\ \/ /\ tracked' = IF e.old # "Local" /\ e.new = "Local" THEN TRUE
                           ELSE IF e.new = "absent" \/ (e.old = "Local" /\ e.new # "Local")
                           THEN FALSE ELSE tracked
             /\ queued' = (queued \/ {e.old, e.new} = {"Local", "Cluster"})
             /\ UNCHANGED faults
          \/ /\ e.new = "absent" /\ faults < MaxFaults /\ faults' = faults + 1
             /\ UNCHANGED <<tracked, queued>>
    /\ UNCHANGED <<api, sliceEvents, cache, delayed, dirty, ctl, pc, job, cloud>>

(* Mutant: a deleted slice stays in the cache without contents.            *)
MutStored(e) == [n \in DOMAIN cache \cup {e.slice} |-> IF n = e.slice THEN e.new ELSE cache[n]]

Stored(e) ==
    IF e.new = None THEN Restrict(cache, DOMAIN cache \ {e.slice})
    ELSE [n \in DOMAIN cache \cup {e.slice} |-> IF n = e.slice THEN e.new ELSE cache[n]]

(* handleEndpointSliceAdd, handleEndpointSliceUpdate,                      *)
(* handleEndpointSliceDelete: only for a service recorded as Local.        *)
HandleSliceEvent ==
    /\ sliceEvents # <<>> /\ sliceEvents' = Tail(sliceEvents)
    /\ LET e == Head(sliceEvents) IN
       /\ cache' = Stored(e)
       /\ \/ /\ queued' = (queued \/ (tracked /\ (\/ None \in {e.old, e.new}
                                                  \/ NodeAssignment(e.old) # NodeAssignment(e.new))))
             /\ UNCHANGED faults
          \/ /\ e.new = None /\ faults < MaxFaults /\ faults' = faults + 1
             /\ UNCHANGED queued
    /\ UNCHANGED <<api, svcEvents, seen, tracked, delayed, dirty, ctl, pc, job, cloud>>

(* Mutant: the scan runs at start-up only.                                 *)
MutPeriodicScan ==
    /\ policy = "Local" /\ changes = 0 /\ queued' = TRUE
    /\ UNCHANGED <<api, faults, watcher, delayed, dirty, ctl, pc, job, cloud>>

(* enqueueLocalTrafficPolicyLoadBalancers, at start-up and every           *)
(* endpointSliceResyncInterval; a failed list skips one round.             *)
PeriodicScan ==
    /\ policy = "Local" /\ queued' = TRUE
    /\ UNCHANGED <<api, faults, watcher, delayed, dirty, ctl, pc, job, cloud>>

(* The back-off of AddRateLimited has elapsed.                             *)
BackoffElapsed ==
    /\ delayed /\ delayed' = FALSE /\ queued' = TRUE
    /\ UNCHANGED <<api, faults, watcher, dirty, ctl, pc, job, cloud>>

-----------------------------------------------------------------------------
(* The three writers.                                                      *)

Goto(w, label, p, nodes) ==
    /\ pc' = [pc EXCEPT ![w] = label]
    /\ job' = [job EXCEPT ![w] = [policy |-> p, nodes |-> nodes]]

Rest(w) == Goto(w, "idle", "absent", {})

(* The load balancer of the Service the job read exists: it is looked up   *)
(* by the Service's UID, so not the one of a Service created since.        *)
Finds(w) == lb /\ job[w].policy # "absent"

(* An error of EnsureLoadBalancer or UpdateLoadBalancer puts the key back, *)
(* the resync's into its own queue; the node worker retries through the    *)
(* service queue, and only while the load balancer exists.                 *)
Retry(w) ==
    /\ Rest(w)
    /\ delayed' = (delayed \/ w = "resync")
    /\ dirty' = (dirty \/ w = "service" \/ (w = "node" /\ Finds(w)))

(* processServiceQueue takes the key; processServiceResync follows.        *)
StartResync ==
    /\ pc["resync"] = "idle" /\ queued /\ queued' = FALSE
    /\ Goto("resync", "get", "absent", {})
    /\ UNCHANGED <<api, faults, watcher, delayed, dirty, ctl, cloud>>

GetService ==
    /\ pc["resync"] = "get"
    /\ IF policy = "absent" THEN Rest("resync") ELSE Goto("resync", "list", policy, {})
    /\ UNCHANGED <<api, faults, watcher, queued, delayed, dirty, ctl, cloud>>

ListNodes ==
    /\ pc["resync"] = "list"
    /\ Goto("resync", "filter", job["resync"].policy, ReadyNodes)
    /\ UNCHANGED <<api, faults, watcher, queued, delayed, dirty, ctl, cloud>>

(* The service controller's worker; ensureLoadBalancer records the nodes.  *)
StartEnsure ==
    /\ pc["service"] = "idle" /\ dirty /\ dirty' = FALSE
    /\ policy # "absent"
    /\ Goto("service", "filter", policy, StableNodes)
    /\ cached' = policy /\ lastSynced' = StableNodes
    /\ UNCHANGED <<api, faults, watcher, queued, delayed, nodeDirty, cloud>>

(* nodeSyncService: nothing when the nodes are those synced last.          *)
StartNodeSync ==
    /\ pc["node"] = "idle" /\ nodeDirty /\ nodeDirty' = FALSE
    /\ IF cached = "absent" \/ lastSynced = StableNodes
       THEN UNCHANGED <<pc, job>>
       ELSE Goto("node", "filter", cached, StableNodes)
    /\ lastSynced' = IF cached = "absent" THEN lastSynced ELSE StableNodes
    /\ UNCHANGED <<api, faults, watcher, queued, delayed, dirty, cached, cloud>>

(* The load balancer is fetched and the nodes are filtered; EnsureLoad-    *)
(* Balancer creates a missing load balancer, UpdateLoadBalancer fails.     *)
FilterNodes(w) ==
    /\ pc[w] = "filter"
    /\ IF Finds(w) \/ w = "service"
       THEN /\ Goto(w, "attach", job[w].policy, Filter(job[w].policy, cache, job[w].nodes))
            /\ lb' = TRUE /\ UNCHANGED <<delayed, dirty>>
       ELSE Retry(w) /\ UNCHANGED lb
    /\ UNCHANGED <<api, faults, watcher, queued, ctl, attached>>

AttachNodes(w) ==
    /\ pc[w] = "attach"
    /\ IF Finds(w) THEN Rest(w) /\ attached' = job[w].nodes /\ UNCHANGED <<delayed, dirty>>
       ELSE Retry(w) /\ UNCHANGED attached
    /\ UNCHANGED <<api, faults, watcher, queued, ctl, lb>>

(* A call fails.  Before UpdateLoadBalancer the resync drops the key.      *)
CallFails(w) ==
    /\ pc[w] # "idle" /\ faults < MaxFaults /\ faults' = faults + 1
    /\ IF pc[w] \in {"get", "list"} THEN Rest(w) /\ UNCHANGED <<delayed, dirty>> ELSE Retry(w)
    /\ UNCHANGED <<api, watcher, queued, ctl, cloud>>

-----------------------------------------------------------------------------
(* Users, nodes, pods and restarts.                                        *)

Changed ==
    /\ changes < MaxChanges /\ changes' = changes + 1
    /\ UNCHANGED <<faults, seen, cache, tracked, queued, delayed, lastSynced, pc>>

(* The user edits the Service, its policy or something else; needsUpdate   *)
(* looks at the policy and at other fields.                                *)
EditService ==
    /\ Changed /\ policy # "absent"
    /\ policy' \in {"Local", "Cluster"}
    /\ svcEvents' = Append(svcEvents, [old |-> policy, new |-> policy'])
    /\ dirty' \in {dirty, TRUE} /\ (policy' # policy => dirty')
    /\ UNCHANGED <<slices, world, sliceEvents, nodeDirty, cached, job, cloud>>

CreateService ==
    /\ Changed /\ policy = "absent"
    /\ policy' \in {"Local", "Cluster"}
    /\ svcEvents' = Append(svcEvents, [old |-> policy, new |-> policy'])
    /\ dirty' = TRUE
    /\ UNCHANGED <<slices, world, sliceEvents, nodeDirty, cached, job, cloud>>

(* The deletion of a Service with its load balancer, by the service        *)
(* controller's worker, which is therefore not ensuring it.  A job under   *)
(* way now works for a Service that is no more.                            *)
RemoveService ==
    /\ Changed /\ policy # "absent" /\ pc["service"] = "idle"
    /\ policy' = "absent" /\ cached' = "absent" /\ lb' = FALSE /\ attached' = {} /\ dirty' = FALSE
    /\ svcEvents' = Append(svcEvents, [old |-> policy, new |-> "absent"])
    /\ job' = [w \in Writers |-> [job[w] EXCEPT !.policy = "absent"]]
    /\ UNCHANGED <<slices, world, sliceEvents, nodeDirty>>

ChangeSlice ==
    /\ Changed
    /\ \E n \in Slices, c \in MaybeContents :
         LET old == IF n \in DOMAIN slices THEN slices[n] ELSE None IN
         /\ c # old
         /\ slices' = IF c = None THEN Restrict(slices, DOMAIN slices \ {n})
                      ELSE [x \in DOMAIN slices \cup {n} |-> IF x = n THEN c ELSE slices[x]]
         /\ sliceEvents' = Append(sliceEvents, [slice |-> n, old |-> old, new |-> c])
    /\ UNCHANGED <<policy, world, svcEvents, dirty, nodeDirty, cached, job, cloud>>

(* shouldSyncUpdatedNode: only a change of the exclusion label wakes the   *)
(* node worker.                                                            *)
ChangeNodes ==
    /\ Changed
    /\ world' \in Worlds \ {world}
    /\ nodeDirty' = (nodeDirty \/ world'.excluded # world.excluded)
    /\ UNCHANGED <<policy, slices, svcEvents, sliceEvents, dirty, cached, job, cloud>>

Restart ==
    /\ faults < MaxFaults /\ faults' = faults + 1
    /\ svcEvents' = AddEvent(policy) /\ sliceEvents' \in AddEvents(slices)
    /\ seen' = "absent" /\ cache' = slices /\ tracked' = FALSE
    /\ queued' = FALSE /\ delayed' = FALSE
    /\ dirty' = (policy # "absent") /\ nodeDirty' = TRUE /\ cached' = "absent" /\ lastSynced' = {}
    /\ pc' = [w \in Writers |-> "idle"] /\ job' = [w \in Writers |-> NoJob]
    /\ UNCHANGED <<api, cloud>>

Deliver == HandleServiceEvent \/ HandleSliceEvent
ResyncStep == StartResync \/ GetService \/ ListNodes
WriterStep(w) == FilterNodes(w) \/ AttachNodes(w)
Environment == EditService \/ CreateService \/ RemoveService \/ ChangeSlice \/ ChangeNodes

Next ==
    \/ Deliver \/ PeriodicScan \/ BackoffElapsed \/ ResyncStep \/ StartEnsure \/ StartNodeSync
    \/ \E w \in Writers : WriterStep(w) \/ CallFails(w)
    \/ Environment \/ Restart

Spec == Init /\ [][Next]_vars

(* Informers deliver, the ticker ticks, back-offs elapse and the workers   *)
(* run.  Users, nodes and faults owe nothing.                              *)
Fairness ==
    /\ WF_vars(HandleServiceEvent) /\ WF_vars(HandleSliceEvent)
    /\ WF_vars(PeriodicScan) /\ WF_vars(BackoffElapsed) /\ WF_vars(ResyncStep)
    /\ WF_vars(StartEnsure) /\ WF_vars(StartNodeSync)
    /\ \A w \in Writers : WF_vars(WriterStep(w))

FairSpec == Spec /\ Fairness

-----------------------------------------------------------------------------
(* Properties                                                              *)

(* Once the watcher has handled every Service event, a Local service is in *)
(* localTrafficServices and its slice events are not ignored, whatever     *)
(* deletions were missed and however the Service changed, went and came    *)
(* back, or the process restarted.                                         *)
LocalIsTracked == svcEvents = <<>> /\ policy = "Local" => tracked

(* Why it holds: the pending events lead from the policy the watcher has   *)
(* seen to the present one, and what it has seen as Local is recorded.     *)
EventsChain ==
    /\ svcEvents = <<>> => seen = policy
    /\ svcEvents # <<>> => svcEvents[1].old = seen /\ svcEvents[Len(svcEvents)].new = policy
    /\ \A i \in 1..(Len(svcEvents) - 1) : svcEvents[i].new = svcEvents[i + 1].old

SeenLocal == seen = "Local" => tracked

(* A Local service ends up with exactly the nodes Filter gives for its     *)
(* slices and the ready nodes, whatever triggers, calls and deletions were *)
(* lost and whoever wrote last: the periodic scan repairs it.              *)
EventuallyFiltered ==
    <>[](policy = "Local") => <>[](attached = Filter("Local", slices, ReadyNodes))

(* "`Cluster`: All nodes are included": a Cluster service ends up with     *)
(* every ready node that is not excluded, although a resync or an ensure   *)
(* that still took it for Local may finish after the switch.               *)
EventuallyAllNodes ==
    <>[](policy = "Cluster") => <>[](world.ready \ world.excluded \subseteq attached)
=============================================================================
