---------------------------- MODULE ResyncProofs ----------------------------
(* The watcher records every Local service, for every set of slices, nodes *)
(* and every bound; and the state of the watcher, the queue and the three  *)
(* writers keeps its types, so that only nodes of the cluster are ever     *)
(* attached.                                                               *)
EXTENDS Resync, FiniteSetTheorems, TLAPS

Events == Seq([old : Policies, new : Policies])

WatchTypeOK == policy \in Policies /\ svcEvents \in Events

WatchInv == WatchTypeOK /\ EventsChain /\ SeenLocal

(* The events of a fresh start: the Service as it is, or nothing.          *)
LEMMA FreshChain ==
    ASSUME policy \in Policies, svcEvents' = AddEvent(policy), policy' = policy,
           seen' = "absent"
    PROVE  WatchInv'
<1>1. CASE policy = "absent"
  <2>1. svcEvents' = <<>>
    BY <1>1 DEF AddEvent
  <2>2. svcEvents' \in Events /\ Len(svcEvents') = 0
    BY <2>1 DEF Events
  <2>3. EventsChain'
    BY <1>1, <2>1, <2>2 DEF EventsChain
  <2> QED
    BY <2>2, <2>3 DEF WatchInv, WatchTypeOK, SeenLocal
<1>2. CASE policy # "absent"
  <2>1. svcEvents' = <<[old |-> "absent", new |-> policy]>>
    BY <1>2 DEF AddEvent
  <2>2. Len(svcEvents') = 1 /\ svcEvents' \in Events /\ svcEvents' # <<>>
    BY <2>1 DEF Events, Policies
  <2> QED
    BY <2>1, <2>2 DEF WatchInv, WatchTypeOK, EventsChain, SeenLocal
<1> QED BY <1>1, <1>2

(* A new event that starts where the last one, or what was seen, ended.    *)
LEMMA AppendChain ==
    ASSUME WatchInv, NEW p \in Policies, policy' = p,
           svcEvents' = Append(svcEvents, [old |-> policy, new |-> p]),
           UNCHANGED <<seen, tracked>>
    PROVE  WatchInv'
<1> DEFINE e == [old |-> policy, new |-> p]
           n == Len(svcEvents)
<1>1. e \in [old : Policies, new : Policies] /\ svcEvents \in Events /\ n \in Nat
  BY DEF WatchInv, WatchTypeOK, Events
<1>2. /\ svcEvents' \in Events /\ Len(svcEvents') = n + 1 /\ svcEvents' # <<>>
      /\ svcEvents'[n + 1] = e /\ \A i \in 1..n : svcEvents'[i] = svcEvents[i]
  BY <1>1 DEF Events
<1>3. svcEvents = <<>> <=> n = 0
  BY <1>1 DEF Events
<1>4. svcEvents'[1].old = seen'
  <2>1. CASE n = 0
    BY <1>2, <1>3, <2>1 DEF WatchInv, EventsChain
  <2>2. CASE n # 0
    BY <1>1, <1>2, <1>3, <2>2 DEF WatchInv, EventsChain
  <2> QED BY <2>1, <2>2
<1>5. \A i \in 1..n : svcEvents'[i].new = svcEvents'[i + 1].old
  <2> SUFFICES ASSUME NEW i \in 1..n PROVE svcEvents'[i].new = svcEvents'[i + 1].old
    OBVIOUS
  <2>1. CASE i = n
    BY <1>1, <1>2, <1>3, <2>1 DEF WatchInv, EventsChain
  <2>2. CASE i # n
    <3>1. i \in 1..(n - 1) /\ i + 1 \in 1..n
      BY <1>1, <2>2
    <3> QED BY <1>2, <3>1 DEF WatchInv, EventsChain
  <2> QED BY <2>1, <2>2
<1>6. EventsChain'
  <2>1. Len(svcEvents') - 1 = n
    BY <1>1, <1>2
  <2> QED BY <1>2, <1>4, <1>5, <2>1 DEF EventsChain
<1> QED BY <1>2, <1>6 DEF WatchInv, WatchTypeOK, SeenLocal

(* Handling the first event moves what was seen along the chain.           *)
LEMMA HandleChain ==
    ASSUME WatchInv, HandleServiceEvent
    PROVE  WatchInv'
<1> DEFINE n == Len(svcEvents)
           e == svcEvents[1]
<1>1. /\ svcEvents \in Events /\ n \in Nat /\ n # 0 /\ svcEvents' = Tail(svcEvents)
      /\ Head(svcEvents) = e
  BY DEF WatchInv, WatchTypeOK, HandleServiceEvent, Events
<1>2. /\ svcEvents' \in Events /\ Len(svcEvents') = n - 1
      /\ \A i \in 1..(n - 1) : svcEvents'[i] = svcEvents[i + 1]
  BY <1>1 DEF Events
<1>3. policy' = policy /\ seen' = e.new
  BY <1>1 DEF HandleServiceEvent, api
<1>4. EventsChain'
  <2>1. CASE n = 1
    BY <1>1, <1>2, <1>3, <2>1 DEF WatchInv, EventsChain, Events
  <2>2. CASE n # 1
    <3>0. n - 1 \in 1..(n - 1) /\ 1 \in 1..(n - 1)
      <4> HIDE DEF n
      <4>1. n \in Nat /\ n > 1
        BY <1>1, <2>2
      <4> QED BY <4>1
    <3>1. svcEvents' # <<>>
      BY <1>2, <3>0 DEF Events
    <3>2. svcEvents'[1].old = seen' /\ svcEvents'[n - 1].new = policy'
      BY <1>1, <1>2, <1>3, <3>0 DEF WatchInv, EventsChain, Events
    <3>3. \A i \in 1..(n - 2) : svcEvents'[i].new = svcEvents'[i + 1].old
      <4> SUFFICES ASSUME NEW i \in 1..(n - 2)
                   PROVE svcEvents'[i].new = svcEvents'[i + 1].old
        OBVIOUS
      <4>1. i \in 1..(n - 1) /\ i + 1 \in 1..(n - 1)
        BY <1>1
      <4> QED BY <1>1, <1>2, <4>1 DEF WatchInv, EventsChain
    <3> QED BY <1>1, <1>2, <3>1, <3>2, <3>3 DEF EventsChain
  <2> QED BY <2>1, <2>2
<1>5. SeenLocal'
  <2>1. svcEvents # <<>> /\ e.old = seen
    BY <1>1 DEF WatchInv, EventsChain, Events
  <2>2. CASE e.new = "absent"
    BY <1>3, <2>2 DEF SeenLocal
  <2>3. CASE e.new # "absent"
    BY <1>1, <1>3, <2>1, <2>3 DEF HandleServiceEvent, WatchInv, SeenLocal
  <2> QED BY <2>2, <2>3
<1> QED BY <1>1, <1>2, <1>3, <1>4, <1>5 DEF WatchInv, WatchTypeOK

(* Steps that leave the policy and the watcher alone.                      *)
LEMMA WatchUnchanged ==
    ASSUME WatchInv, UNCHANGED <<policy, svcEvents, seen, tracked>>
    PROVE  WatchInv'
BY DEF WatchInv, WatchTypeOK, EventsChain, SeenLocal

(* Every step keeps the invariant of the watcher.                          *)
LEMMA WatchStep ==
    ASSUME WatchInv, [Next]_vars
    PROVE  WatchInv'
<1>0. policy \in Policies
  BY DEF WatchInv, WatchTypeOK
<1>1. CASE HandleServiceEvent
  BY <1>1, HandleChain
<1>2. CASE EditService \/ CreateService
  <2>1. policy' \in Policies
    BY <1>2 DEF EditService, CreateService, Policies
  <2>2. UNCHANGED <<seen, tracked>> /\ svcEvents' = Append(svcEvents, [old |-> policy, new |-> policy'])
    BY <1>2 DEF EditService, CreateService, Changed
  <2> QED BY <2>1, <2>2, AppendChain
<1>3. CASE RemoveService
  <2>1. policy' = "absent" /\ "absent" \in Policies
    BY <1>3 DEF RemoveService, Policies
  <2>2. UNCHANGED <<seen, tracked>> /\ svcEvents' = Append(svcEvents, [old |-> policy, new |-> "absent"])
    BY <1>3 DEF RemoveService, Changed
  <2> QED BY <2>1, <2>2, AppendChain
<1>4. CASE Restart
  BY <1>0, <1>4, FreshChain DEF Restart, api
<1>5. CASE UNCHANGED <<policy, svcEvents, seen, tracked>>
  BY <1>5, WatchUnchanged
<1>6. CASE HandleSliceEvent \/ PeriodicScan \/ BackoffElapsed \/ ResyncStep
  BY <1>5, <1>6 DEF HandleSliceEvent, PeriodicScan, BackoffElapsed, ResyncStep, StartResync,
                    GetService, ListNodes, api, watcher
<1>7. CASE StartEnsure \/ StartNodeSync \/ ChangeSlice \/ ChangeNodes
  BY <1>5, <1>7 DEF StartEnsure, StartNodeSync, ChangeSlice, ChangeNodes, Changed, api, watcher
<1>8. ASSUME NEW w \in Writers, WriterStep(w) \/ CallFails(w)
      PROVE  WatchInv'
  BY <1>5, <1>8 DEF WriterStep, FilterNodes, AttachNodes, CallFails, api, watcher
<1>9. CASE UNCHANGED vars
  BY <1>5, <1>9 DEF vars
<1> QED
  BY <1>1, <1>2, <1>3, <1>4, <1>6, <1>7, <1>8, <1>9 DEF Next, Deliver, Environment

(* Once the watcher has handled every Service event, a Local service is    *)
(* recorded as such: its slice events are never ignored for good.          *)
THEOREM Tracking == Spec => []LocalIsTracked
<1>1. Init => WatchInv
  <2> SUFFICES ASSUME Init PROVE WatchInv
    OBVIOUS
  <2>1. policy # "absent" /\ policy \in Policies
    BY DEF Init, Policies
  <2>2. svcEvents = <<[old |-> "absent", new |-> policy]>> /\ seen = "absent"
    BY <2>1 DEF Init, AddEvent
  <2>3. Len(svcEvents) = 1 /\ svcEvents \in Events /\ svcEvents # <<>>
    BY <2>1, <2>2 DEF Events, Policies
  <2> QED BY <2>1, <2>2, <2>3 DEF WatchInv, WatchTypeOK, EventsChain, SeenLocal
<1>2. WatchInv /\ [Next]_vars => WatchInv'
  BY WatchStep
<1>3. WatchInv => LocalIsTracked
  BY DEF WatchInv, EventsChain, SeenLocal, LocalIsTracked
<1> QED BY <1>1, <1>2, <1>3, PTL DEF Spec

-----------------------------------------------------------------------------
(* Types                                                                   *)

SliceEvent == [slice : Slices, old : MaybeContents, new : MaybeContents]
Jobs == [policy : Policies, nodes : SUBSET AllNodes]

(* The type invariant by the parts of the system that keep the state.      *)
ApiTypeOK ==
    /\ policy \in Policies /\ SliceMap(slices) /\ world \in Worlds
    /\ changes \in 0..MaxChanges /\ faults \in 0..MaxFaults

WatcherTypeOK ==
    /\ svcEvents \in Events /\ sliceEvents \in Seq(SliceEvent)
    /\ seen \in Policies /\ SliceMap(cache) /\ tracked \in BOOLEAN

QueueTypeOK ==
    /\ queued \in BOOLEAN /\ delayed \in BOOLEAN /\ dirty \in BOOLEAN /\ nodeDirty \in BOOLEAN
    /\ cached \in Policies /\ lastSynced \in SUBSET AllNodes

WriterTypeOK ==
    /\ pc \in [Writers -> Labels] /\ job \in [Writers -> Jobs]
    /\ lb \in BOOLEAN /\ attached \in SUBSET AllNodes

(* The type invariant in four parts.                                       *)
LEMMA TypeParts ==
    /\ TypeOK <=> ApiTypeOK /\ WatcherTypeOK /\ QueueTypeOK /\ WriterTypeOK
    /\ TypeOK' <=> ApiTypeOK' /\ WatcherTypeOK' /\ QueueTypeOK' /\ WriterTypeOK'
BY DEF TypeOK, ApiTypeOK, WatcherTypeOK, QueueTypeOK, WriterTypeOK, Events, SliceEvent, Jobs

(* The parts that an action leaves alone keep their types.                 *)
LEMMA TypesStay ==
    /\ ApiTypeOK /\ UNCHANGED <<api, faults>> => ApiTypeOK'
    /\ WatcherTypeOK /\ UNCHANGED watcher => WatcherTypeOK'
    /\ QueueTypeOK /\ UNCHANGED <<queued, delayed, dirty, ctl>> => QueueTypeOK'
    /\ WriterTypeOK /\ UNCHANGED <<pc, job, cloud>> => WriterTypeOK'
BY DEF ApiTypeOK, WatcherTypeOK, QueueTypeOK, WriterTypeOK, api, watcher, ctl, cloud, SliceMap

(* Both lists of nodes hold nodes of the cluster only.                     *)
LEMMA NodeLists ==
    ASSUME world \in Worlds
    PROVE  ReadyNodes \in SUBSET AllNodes /\ StableNodes \in SUBSET AllNodes
BY DEF ReadyNodes, StableNodes, AllNodes

(* Filter adds no node.                                                    *)
LEMMA FilterNarrows ==
    ASSUME NEW p, NEW sls, NEW nodes \in SUBSET AllNodes
    PROVE  Filter(p, sls, nodes) \in SUBSET AllNodes
BY DEF Filter

(* A slice that is stored or removed leaves a map of slices.               *)
LEMMA SliceMapUpdate ==
    ASSUME NEW f, SliceMap(f), NEW n \in Slices, NEW c \in MaybeContents
    PROVE  SliceMap(IF c = None THEN Restrict(f, DOMAIN f \ {n})
                    ELSE [x \in DOMAIN f \cup {n} |-> IF x = n THEN c ELSE f[x]])
<1>1. CASE c = None
  BY <1>1 DEF SliceMap, Restrict
<1>2. CASE c # None
  <2>1. c \in Contents
    BY <1>2 DEF MaybeContents
  <2> QED BY <1>2, <2>1 DEF SliceMap
<1> QED BY <1>1, <1>2

(* The events of a fresh start form a finite sequence, as there are        *)
(* finitely many slices.                                                   *)
LEMMA AddEventsType ==
    ASSUME NEW sls, SliceMap(sls), NEW q \in AddEvents(sls)
    PROVE  q \in Seq(SliceEvent)
<1> DEFINE n == Cardinality(DOMAIN sls)
           E == {[slice |-> x, old |-> None, new |-> sls[x]] : x \in DOMAIN sls}
<1>1. n \in Nat
  BY SlicesAssumption, FS_Subset, FS_CardinalityType DEF SliceMap
<1>2. E \subseteq SliceEvent
  BY DEF SliceMap, SliceEvent, MaybeContents
<1>3. q \in [1..n -> E]
  BY DEF AddEvents
<1> HIDE DEF n, E
<1>4. q \in [1..n -> SliceEvent]
  BY <1>2, <1>3
<1> QED BY <1>1, <1>4

(* The event of a new or relisted Service.                                 *)
LEMMA AddEventType ==
    ASSUME NEW p \in Policies
    PROVE  AddEvent(p) \in Events
<1>1. CASE p = "absent"
  BY <1>1 DEF AddEvent, Events
<1>2. CASE p # "absent"
  <2>1. [old |-> "absent", new |-> p] \in [old : Policies, new : Policies]
    BY DEF Policies
  <2> QED BY <1>2, <2>1 DEF AddEvent, Events
<1> QED BY <1>1, <1>2

(* The first event of a queue has the queue's type, and so has the rest.   *)
LEMMA HeadTail ==
    ASSUME NEW S, NEW s \in Seq(S), s # <<>>
    PROVE  Head(s) \in S /\ Tail(s) \in Seq(S)
OBVIOUS

(* A bounded counter that is incremented below its bound.                  *)
LEMMA CounterType ==
    ASSUME NEW max \in Nat, NEW n \in 0..max, n < max
    PROVE  n + 1 \in 0..max
OBVIOUS

(* A writer that goes on keeps the types of labels and jobs.               *)
LEMMA GotoType ==
    ASSUME WriterTypeOK, NEW w \in Writers, NEW label \in Labels,
           NEW p \in Policies, NEW nodes \in SUBSET AllNodes,
           Goto(w, label, p, nodes)
    PROVE  pc' \in [Writers -> Labels] /\ job' \in [Writers -> Jobs]
<1>1. [policy |-> p, nodes |-> nodes] \in Jobs
  BY DEF Jobs
<1> QED BY <1>1 DEF Goto, WriterTypeOK

(* A writer ends.                                                          *)
LEMMA RestType ==
    ASSUME WriterTypeOK, NEW w \in Writers, Rest(w)
    PROVE  pc' \in [Writers -> Labels] /\ job' \in [Writers -> Jobs]
BY GotoType DEF Rest, Labels, Policies

(* A writer fails and puts its key back.                                   *)
LEMMA RetryType ==
    ASSUME WriterTypeOK, QueueTypeOK, NEW w \in Writers, Retry(w)
    PROVE  /\ pc' \in [Writers -> Labels] /\ job' \in [Writers -> Jobs]
           /\ delayed' \in BOOLEAN /\ dirty' \in BOOLEAN
<1>1. Rest(w) /\ delayed' \in BOOLEAN /\ dirty' \in BOOLEAN
  BY DEF Retry
<1> QED BY <1>1, RestType

(* Types at the start.                                                     *)
LEMMA TypeInit ==
    ASSUME Init
    PROVE  TypeOK
<1>1. ApiTypeOK /\ SliceMap(slices)
  BY BoundsAssumption DEF Init, ApiTypeOK, SliceMap, Policies
<1>2. WatcherTypeOK
  BY <1>1, AddEventType, AddEventsType DEF Init, WatcherTypeOK, ApiTypeOK, Policies
<1>3. QueueTypeOK
  BY DEF Init, QueueTypeOK, Policies
<1>4. WriterTypeOK
  BY DEF Init, WriterTypeOK, Labels, Jobs, NoJob, Policies
<1> QED BY <1>1, <1>2, <1>3, <1>4, TypeParts

(* The watcher's handlers, the scan and the back-off.                      *)
LEMMA TypeWatcher ==
    ASSUME TypeOK, Deliver \/ PeriodicScan \/ BackoffElapsed
    PROVE  TypeOK'
<1> USE TypeParts
<1>1. CASE HandleServiceEvent
  <2>1. Head(svcEvents) \in [old : Policies, new : Policies] /\ Tail(svcEvents) \in Events
    BY <1>1, HeadTail DEF HandleServiceEvent, WatcherTypeOK, Events
  <2>2. WatcherTypeOK'
    BY <1>1, <2>1 DEF HandleServiceEvent, WatcherTypeOK, api, SliceMap
  <2>0. faults' \in 0..MaxFaults
    BY <1>1, CounterType, BoundsAssumption DEF HandleServiceEvent, ApiTypeOK
  <2>3. ApiTypeOK'
    BY <1>1, <2>0 DEF HandleServiceEvent, ApiTypeOK, api, SliceMap
  <2>4. QueueTypeOK' /\ WriterTypeOK'
    BY <1>1, TypesStay DEF HandleServiceEvent, QueueTypeOK, ctl, cloud
  <2> QED BY <2>2, <2>3, <2>4
<1>2. CASE HandleSliceEvent
  <2>1. Head(sliceEvents) \in SliceEvent /\ Tail(sliceEvents) \in Seq(SliceEvent)
    BY <1>2, HeadTail DEF HandleSliceEvent, WatcherTypeOK
  <2>2. SliceMap(Stored(Head(sliceEvents)))
    BY <2>1, SliceMapUpdate DEF Stored, SliceEvent, WatcherTypeOK
  <2>3. WatcherTypeOK'
    BY <1>2, <2>1, <2>2 DEF HandleSliceEvent, WatcherTypeOK, SliceMap
  <2>4. ApiTypeOK'
    BY <1>2, BoundsAssumption DEF HandleSliceEvent, ApiTypeOK, api, SliceMap
  <2>5. QueueTypeOK' /\ WriterTypeOK'
    BY <1>2, TypesStay DEF HandleSliceEvent, QueueTypeOK, ctl, cloud
  <2> QED BY <2>3, <2>4, <2>5
<1>3. CASE PeriodicScan \/ BackoffElapsed
  <2>1. ApiTypeOK' /\ WatcherTypeOK' /\ WriterTypeOK'
    BY <1>3, TypesStay DEF PeriodicScan, BackoffElapsed
  <2>2. QueueTypeOK'
    BY <1>3 DEF PeriodicScan, BackoffElapsed, QueueTypeOK, ctl
  <2> QED BY <2>1, <2>2
<1> QED BY <1>1, <1>2, <1>3 DEF Deliver

(* The writers begin with the nodes their lists give.                      *)
LEMMA TypeStarts ==
    ASSUME TypeOK, ResyncStep \/ StartEnsure \/ StartNodeSync
    PROVE  TypeOK'
<1> USE TypeParts
<1>1. ReadyNodes \in SUBSET AllNodes /\ StableNodes \in SUBSET AllNodes /\ policy \in Policies
  BY NodeLists DEF ApiTypeOK
<1>2. ApiTypeOK' /\ WatcherTypeOK'
  BY TypesStay DEF ResyncStep, StartResync, GetService, ListNodes, StartEnsure, StartNodeSync
<1>3. QueueTypeOK'
  BY <1>1 DEF ResyncStep, StartResync, GetService, ListNodes, StartEnsure, StartNodeSync,
              QueueTypeOK, ctl
<1>4. lb' \in BOOLEAN /\ attached' \in SUBSET AllNodes
  BY DEF ResyncStep, StartResync, GetService, ListNodes, StartEnsure, StartNodeSync,
         WriterTypeOK, cloud
<1>5. pc' \in [Writers -> Labels] /\ job' \in [Writers -> Jobs]
  <2>1. CASE StartResync
    BY <2>1, GotoType DEF StartResync, Writers, Labels, Policies
  <2>2. CASE GetService
    BY <1>1, <2>2, GotoType, RestType DEF GetService, Writers, Labels
  <2>3. CASE ListNodes
    <3>1. job["resync"].policy \in Policies
      BY DEF WriterTypeOK, Writers, Jobs
    <3> QED BY <1>1, <2>3, <3>1, GotoType DEF ListNodes, Writers, Labels
  <2>4. CASE StartEnsure
    BY <1>1, <2>4, GotoType DEF StartEnsure, Writers, Labels
  <2>5. CASE StartNodeSync
    <3>1. CASE UNCHANGED <<pc, job>>
      BY <3>1 DEF WriterTypeOK
    <3>2. CASE Goto("node", "filter", cached, StableNodes)
      BY <1>1, <3>2, GotoType DEF QueueTypeOK, Writers, Labels
    <3> QED BY <2>5, <3>1, <3>2 DEF StartNodeSync
  <2> QED BY <2>1, <2>2, <2>3, <2>4, <2>5 DEF ResyncStep
<1> QED BY <1>2, <1>3, <1>4, <1>5 DEF WriterTypeOK

(* The writers' calls: the nodes attached are those of the list filtered.  *)
LEMMA TypeWriters ==
    ASSUME TypeOK, NEW w \in Writers, WriterStep(w) \/ CallFails(w)
    PROVE  TypeOK'
<1> USE TypeParts
<1>1. job[w].policy \in Policies /\ job[w].nodes \in SUBSET AllNodes
  BY DEF WriterTypeOK, Jobs
<1>2. ApiTypeOK'
  BY BoundsAssumption DEF WriterStep, FilterNodes, AttachNodes, CallFails, ApiTypeOK, api, SliceMap
<1>3. WatcherTypeOK'
  BY TypesStay DEF WriterStep, FilterNodes, AttachNodes, CallFails
<1>4. CASE FilterNodes(w)
  <2>1. CASE Finds(w) \/ w = "service"
    <3>1. Filter(job[w].policy, cache, job[w].nodes) \in SUBSET AllNodes
      BY <1>1, FilterNarrows
    <3>2. pc' \in [Writers -> Labels] /\ job' \in [Writers -> Jobs]
      BY <1>1, <1>4, <2>1, <3>1, GotoType DEF FilterNodes, Labels
    <3>3. WriterTypeOK'
      BY <1>4, <2>1, <3>2 DEF FilterNodes, WriterTypeOK
    <3>4. QueueTypeOK'
      BY <1>4, <2>1, TypesStay DEF FilterNodes
    <3> QED BY <1>2, <1>3, <3>3, <3>4
  <2>2. CASE ~(Finds(w) \/ w = "service")
    <3>1. Retry(w) /\ UNCHANGED <<lb, attached, queued, ctl>>
      BY <1>4, <2>2 DEF FilterNodes
    <3> QED BY <1>2, <1>3, <3>1, RetryType DEF WriterTypeOK, QueueTypeOK, ctl
  <2> QED BY <2>1, <2>2
<1>5. CASE AttachNodes(w)
  <2>1. CASE Finds(w)
    <3>1. Rest(w) /\ attached' = job[w].nodes /\ UNCHANGED <<delayed, dirty, queued, ctl, lb>>
      BY <1>5, <2>1 DEF AttachNodes
    <3> QED BY <1>1, <1>2, <1>3, <3>1, RestType, TypesStay DEF WriterTypeOK
  <2>2. CASE ~Finds(w)
    <3>1. Retry(w) /\ UNCHANGED <<lb, attached, queued, ctl>>
      BY <1>5, <2>2 DEF AttachNodes
    <3> QED BY <1>2, <1>3, <3>1, RetryType DEF WriterTypeOK, QueueTypeOK, ctl
  <2> QED BY <2>1, <2>2
<1>6. CASE CallFails(w)
  <2>1. CASE pc[w] \in {"get", "list"}
    <3>1. Rest(w) /\ UNCHANGED <<delayed, dirty, queued, ctl, cloud>>
      BY <1>6, <2>1 DEF CallFails
    <3> QED BY <1>2, <1>3, <3>1, RestType, TypesStay DEF WriterTypeOK, cloud
  <2>2. CASE pc[w] \notin {"get", "list"}
    <3>1. Retry(w) /\ UNCHANGED <<queued, ctl, cloud>>
      BY <1>6, <2>2 DEF CallFails
    <3> QED BY <1>2, <1>3, <3>1, RetryType DEF WriterTypeOK, QueueTypeOK, ctl, cloud
  <2> QED BY <2>1, <2>2
<1> QED BY <1>4, <1>5, <1>6 DEF WriterStep

(* Users, pods, nodes and restarts.                                        *)
LEMMA TypeEnvironment ==
    ASSUME TypeOK, Environment \/ Restart
    PROVE  TypeOK'
<1> USE TypeParts
<1>1. CASE EditService \/ CreateService
  <2>1. policy' \in Policies /\ policy \in Policies
    BY <1>1 DEF EditService, CreateService, Policies, ApiTypeOK
  <2>2. svcEvents' \in Events
    <3>1. [old |-> policy, new |-> policy'] \in [old : Policies, new : Policies]
      BY <2>1
    <3>2. svcEvents' = Append(svcEvents, [old |-> policy, new |-> policy'])
      BY <1>1 DEF EditService, CreateService
    <3> QED BY <3>1, <3>2 DEF Events, WatcherTypeOK
  <2>0. changes' \in 0..MaxChanges
    BY <1>1, CounterType, BoundsAssumption DEF EditService, CreateService, Changed, ApiTypeOK
  <2>3. ApiTypeOK'
    BY <1>1, <2>0, <2>1 DEF EditService, CreateService, Changed, ApiTypeOK, SliceMap
  <2>4. WatcherTypeOK' /\ QueueTypeOK'
    BY <1>1, <2>2 DEF EditService, CreateService, Changed, WatcherTypeOK, QueueTypeOK, SliceMap
  <2>5. WriterTypeOK'
    BY <1>1, TypesStay DEF EditService, CreateService, Changed
  <2> QED BY <2>3, <2>4, <2>5
<1>2. CASE RemoveService
  <2>1. policy' = "absent" /\ "absent" \in Policies /\ policy \in Policies
    BY <1>2 DEF RemoveService, Policies, ApiTypeOK
  <2>2. svcEvents' \in Events
    BY <1>2, <2>1 DEF RemoveService, Events, WatcherTypeOK
  <2>3. ApiTypeOK'
    BY <1>2, <2>1, BoundsAssumption DEF RemoveService, Changed, ApiTypeOK, SliceMap
  <2>4. WatcherTypeOK' /\ QueueTypeOK'
    BY <1>2, <2>1, <2>2 DEF RemoveService, Changed, WatcherTypeOK, QueueTypeOK, SliceMap
  <2>5. WriterTypeOK'
    BY <1>2, <2>1 DEF RemoveService, Changed, WriterTypeOK, Jobs
  <2> QED BY <2>3, <2>4, <2>5
<1>3. CASE ChangeSlice
  <2>1. PICK n \in Slices, c \in MaybeContents :
          LET old == IF n \in DOMAIN slices THEN slices[n] ELSE None IN
          /\ slices' = IF c = None THEN Restrict(slices, DOMAIN slices \ {n})
                       ELSE [x \in DOMAIN slices \cup {n} |-> IF x = n THEN c ELSE slices[x]]
          /\ sliceEvents' = Append(sliceEvents, [slice |-> n, old |-> old, new |-> c])
    BY <1>3 DEF ChangeSlice
  <2>2. SliceMap(slices)'
    <3> DEFINE f == IF c = None THEN Restrict(slices, DOMAIN slices \ {n})
                    ELSE [x \in DOMAIN slices \cup {n} |-> IF x = n THEN c ELSE slices[x]]
    <3>1. SliceMap(f)
      BY SliceMapUpdate DEF ApiTypeOK
    <3>2. slices' = f
      BY <2>1
    <3> HIDE DEF f
    <3> QED BY <3>1, <3>2 DEF SliceMap
  <2>0. changes' \in 0..MaxChanges /\ UNCHANGED <<policy, world, faults>>
    BY <1>3, CounterType, BoundsAssumption DEF ChangeSlice, Changed, ApiTypeOK
  <2>3. ApiTypeOK'
    BY <2>0, <2>2 DEF ApiTypeOK
  <2>4. sliceEvents' \in Seq(SliceEvent)
    <3> DEFINE old == IF n \in DOMAIN slices THEN slices[n] ELSE None
    <3>1. old \in MaybeContents
      BY DEF ApiTypeOK, SliceMap, MaybeContents
    <3>2. [slice |-> n, old |-> old, new |-> c] \in SliceEvent
      BY <3>1 DEF SliceEvent
    <3> QED BY <2>1, <3>2 DEF WatcherTypeOK
  <2>5. WatcherTypeOK' /\ QueueTypeOK' /\ WriterTypeOK'
    BY <1>3, <2>4 DEF ChangeSlice, Changed, WatcherTypeOK, QueueTypeOK, WriterTypeOK, cloud, SliceMap
  <2> QED BY <2>3, <2>5
<1>4. CASE ChangeNodes
  <2>1. ApiTypeOK'
    BY <1>4, BoundsAssumption DEF ChangeNodes, Changed, ApiTypeOK, SliceMap
  <2>2. WatcherTypeOK' /\ WriterTypeOK'
    BY <1>4, TypesStay DEF ChangeNodes, Changed, watcher
  <2>3. QueueTypeOK'
    BY <1>4 DEF ChangeNodes, Changed, QueueTypeOK
  <2> QED BY <2>1, <2>2, <2>3
<1>5. CASE Restart
  <2>1. ApiTypeOK'
    BY <1>5, BoundsAssumption DEF Restart, api, ApiTypeOK, SliceMap
  <2>2. svcEvents' \in Events /\ sliceEvents' \in Seq(SliceEvent)
    BY <1>5, AddEventType, AddEventsType DEF Restart, ApiTypeOK
  <2>3. WatcherTypeOK'
    BY <1>5, <2>2 DEF Restart, WatcherTypeOK, ApiTypeOK, SliceMap, Policies
  <2>4. QueueTypeOK'
    BY <1>5 DEF Restart, QueueTypeOK, Policies
  <2>5. WriterTypeOK'
    BY <1>5 DEF Restart, WriterTypeOK, Labels, Jobs, NoJob, Policies, cloud
  <2> QED BY <2>1, <2>3, <2>4, <2>5
<1> QED BY <1>1, <1>2, <1>3, <1>4, <1>5 DEF Environment

(* The state of the API server, the watcher, the queue, the service        *)
(* controller and the writers keeps its types: whatever the slices name,   *)
(* only nodes of the cluster are attached to the load balancer.            *)
THEOREM ResyncTypes == Spec => []TypeOK
<1>1. Init => TypeOK
  BY TypeInit
<1>2. TypeOK /\ [Next]_vars => TypeOK'
  <2> SUFFICES ASSUME TypeOK, [Next]_vars PROVE TypeOK'
    OBVIOUS
  <2>1. CASE UNCHANGED vars
    BY <2>1, TypeParts, TypesStay DEF vars, api, watcher, ctl, cloud
  <2> QED BY <2>1, TypeWatcher, TypeStarts, TypeWriters, TypeEnvironment DEF Next
<1> QED BY <1>1, <1>2, PTL DEF Spec
=============================================================================
