-------------------------- MODULE ContractProofs ----------------------------
(***************************************************************************)
(* Reconcile implements LoadBalancerContract, for any number of updaters,  *)
(* specs, edits, failed calls, lost answers and crashes.  LifecycleInv     *)
(* says which load balancer there is; NeverOrphaned adds that it is held.  *)
(***************************************************************************)
EXTENDS LifecycleProofs

(* What the step simulation rests on besides LifecycleInv.  A Controller   *)
(* that is at work has a job, so Publish always ends an ensure or a delete,*)
(* and the status of a deletion is patched when the hold has ended.        *)
HeldInv ==
    /\ NeverOrphaned
    /\ pc[Controller] # "idle" => job[Controller].op # "none"
    /\ pc[Controller] = "publish" /\ job[Controller].op = "delete" => ~finalizer

-----------------------------------------------------------------------------
(* The status of the one load balancer there is.                           *)
LEMMA TheOne ==
    ASSUME NEW f, NEW l \in DOMAIN f, \A j, k \in DOMAIN f : j = k
    PROVE  f[CHOOSE x \in DOMAIN f : TRUE] = f[l]
<1>1. (CHOOSE x \in DOMAIN f : TRUE) \in DOMAIN f
  OBVIOUS
<1> QED
  BY <1>1

(* A step that changes no load balancer's status is invisible in Balancer. *)
LEMMA SameBalancer ==
    ASSUME DOMAIN lbs' = DOMAIN lbs, \A l \in DOMAIN lbs : lbs'[l].status = lbs[l].status
    PROVE  Balancer' = Balancer
<1>1. DOMAIN lbs # {} => (CHOOSE x \in DOMAIN lbs : TRUE) \in DOMAIN lbs
  OBVIOUS
<1> QED
  BY <1>1 DEF Balancer

(* The steps of a worker that leave the load balancers alone.              *)
Quiet(w) ==
    \/ GetLoadBalancer(w) \/ FetchLoadBalancer(w)
    \/ ListTargetGroups(w) \/ CreateTargetGroup(w) \/ UpdateTargetGroup(w) \/ SetAttachments(w)
    \/ ListListeners(w) \/ DeleteListener(w) \/ UpdateListener(w) \/ CreateListener(w)
    \/ ListUnusedTargetGroups(w) \/ DeleteTargetGroup(w)
    \/ ListSecurityGroups(w) \/ EnsureManagedSecurityGroup(w) \/ UpdateLoadbalancer(w)
    \/ ReturnUpdated(w) \/ PollReady(w)
    \/ AwaitGone(w) \/ ListRemainingTargetGroups(w) \/ DeleteManagedSecurityGroup(w)
    \/ CallFails(w)

(* A worker's step does not touch the Service; it keeps the worker's job   *)
(* or gives it up.                                                         *)
Works(w) ==
    /\ UNCHANGED kube
    /\ pc[w] # "idle"
    /\ \A x \in Workers \ {w} : pc'[x] = pc[x] /\ job'[x] = job[x]
    /\ \/ job'[w] = job[w]
       \/ job'[w] = NoJob /\ pc'[w] = "idle"

(* Going on, giving up and losing an answer are such steps.                *)
LEMMA EndsWork ==
    ASSUME TypeOK, NEW w \in Workers, pc[w] # "idle", UNCHANGED kube,
           Rest(w) \/ (\E label, m : Goto(w, label, m))
    PROVE  Works(w)
<1>1. CASE Rest(w)
  BY <1>1 DEF Works, Rest, TypeOK, WorkersOK, kube
<1>2. ASSUME NEW label, NEW m, Goto(w, label, m) PROVE Works(w)
  <2>1. \A x \in Workers \ {w} : pc'[x] = pc[x] /\ job'[x] = job[x]
    BY <1>2 DEF Goto, TypeOK, WorkersOK
  <2>2. job'[w] = job[w]
    BY <1>2 DEF Goto
  <2> QED
    BY <2>1, <2>2 DEF Works
<1> QED
  BY <1>1, <1>2

(* The workers' own steps lead no deletion to its status: the finalizer's  *)
(* removal does.                                                           *)
Unpublished(w) == pc'[w] = "publish" => job[w].op # "delete"

(* The label a step goes to, or none.                                      *)
LEMMA LandsOn ==
    ASSUME TypeOK, NEW w \in Workers
    PROVE  /\ \A label, m : Goto(w, label, m) => pc'[w] = label
           /\ Rest(w) => pc'[w] = "idle"
BY GoesTo DEF Rest, TypeOK, WorkersOK

(* Quiet steps are among them.                                             *)
LEMMA QuietUnpublished ==
    ASSUME TypeOK, LifecycleInv, NEW w \in Workers, Quiet(w)
    PROVE  Unpublished(w)
<1>l. /\ \A label, m : Goto(w, label, m) => pc'[w] = label
      /\ Rest(w) => pc'[w] = "idle"
  BY LandsOn
<1>r. RoleInv(w)
  BY DEF LifecycleInv
<1>1. CASE GetLoadBalancer(w) \/ FetchLoadBalancer(w)
  <2>1. pc'[w] # "publish"
    BY <1>1, <1>l DEF GetLoadBalancer, FetchLoadBalancer, FetchNothing, Abort
  <2> QED
    BY <2>1 DEF Unpublished
<1>2. CASE ListTargetGroups(w) \/ CreateTargetGroup(w) \/ UpdateTargetGroup(w)
           \/ SetAttachments(w)
  <2>1. pc'[w] # "publish"
    BY <1>2, <1>l DEF ListTargetGroups, CreateTargetGroup, UpdateTargetGroup, SetAttachments,
                Answered, Lost, Abort
  <2> QED
    BY <2>1 DEF Unpublished
<1>3. CASE ListListeners(w) \/ DeleteListener(w) \/ UpdateListener(w) \/ CreateListener(w)
  <2>1. pc'[w] # "publish"
    BY <1>3, <1>l DEF ListListeners, DeleteListener, UpdateListener, CreateListener,
                Answered, Lost, Abort
  <2> QED
    BY <2>1 DEF Unpublished
<1>4. CASE ListUnusedTargetGroups(w) \/ DeleteTargetGroup(w) \/ AwaitGone(w)
           \/ ListRemainingTargetGroups(w)
  <2>1. pc'[w] \in {"idle", "unused", "gone", "purge"}
    BY <1>4, <1>l DEF ListUnusedTargetGroups, DeleteTargetGroup, AwaitGone,
                ListRemainingTargetGroups, Answered, Lost, Abort
  <2> QED
    BY <2>1 DEF Unpublished
<1>5. CASE ListSecurityGroups(w) \/ EnsureManagedSecurityGroup(w)
  <2>1. pc'[w] # "publish"
    BY <1>5, <1>l DEF ListSecurityGroups, EnsureManagedSecurityGroup, AfterGroups,
                Answered, Lost, Abort
  <2> QED
    BY <2>1 DEF Unpublished
<1>6. CASE UpdateLoadbalancer(w)
  <2>1. pc'[w] \in {"idle", AfterUpdate(w)}
    BY <1>6, <1>l DEF UpdateLoadbalancer, Answered, Lost, Abort
  <2> QED
    BY <2>1 DEF Unpublished, AfterUpdate
<1>7. CASE ReturnUpdated(w) \/ CallFails(w) \/ DeleteManagedSecurityGroup(w)
  <2>1. pc'[w] \in {"idle", "release"}
    BY <1>7, <1>l DEF ReturnUpdated, CallFails, Return, DeleteManagedSecurityGroup, TypeOK, WorkersOK
  <2> QED
    BY <2>1 DEF Unpublished
<1>8. CASE PollReady(w)
  BY <1>8, <1>r DEF PollReady, RoleInv, Unpublished
<1> QED
  BY <1>1, <1>2, <1>3, <1>4, <1>5, <1>6, <1>7, <1>8 DEF Quiet

(* A quiet step is work, and no load balancer's status changes in it.      *)
LEMMA QuietWorks ==
    ASSUME TypeOK, NEW w \in Workers, Quiet(w)
    PROVE  /\ Works(w) /\ DOMAIN lbs' = DOMAIN lbs
           /\ \A l \in DOMAIN lbs : lbs'[l].status = lbs[l].status
<1>1. UNCHANGED kube /\ pc[w] # "idle"
  BY DEF Quiet, GetLoadBalancer, FetchLoadBalancer, ListTargetGroups, CreateTargetGroup,
         UpdateTargetGroup, SetAttachments, ListListeners, TargetGroupsDone, DeleteListener,
         UpdateListener, CreateListener, ListUnusedTargetGroups, ListenersDone, DeleteTargetGroup,
         ListSecurityGroups, EnsureManagedSecurityGroup, UpdateLoadbalancer, ReturnUpdated,
         PollReady, AwaitGone, ListRemainingTargetGroups, DeleteManagedSecurityGroup, CallFails,
         CallPending
<1>2. CASE DeleteManagedSecurityGroup(w)
  <2>1. /\ \A x \in Workers \ {w} : pc'[x] = pc[x]
        /\ job' = job /\ lbs' = lbs
    BY <1>2 DEF DeleteManagedSecurityGroup, TypeOK, WorkersOK
  <2> QED
    BY <1>1, <2>1 DEF Works
<1>3. CASE UpdateLoadbalancer(w)
  <2>1. UNCHANGED lbs \/ lbs' = [lbs EXCEPT ![mem[w].lb].groups = WantedGroups(w)]
    BY <1>3 DEF UpdateLoadbalancer
  <2>2. \A l \in DOMAIN lbs : lbs[l] \in LbType
    BY DEF TypeOK, CloudOK, Objects
  <2>3. DOMAIN lbs' = DOMAIN lbs /\ \A l \in DOMAIN lbs : lbs'[l].status = lbs[l].status
    BY <2>1, <2>2 DEF LbType
  <2>4. Rest(w) \/ \E label, m : Goto(w, label, m)
    BY <1>3 DEF UpdateLoadbalancer, Answered, Lost, Abort
  <2> QED
    BY <1>1, <2>3, <2>4, EndsWork
<1>4. CASE ~DeleteManagedSecurityGroup(w) /\ ~UpdateLoadbalancer(w)
  <2>1. UNCHANGED lbs
    BY <1>4 DEF Quiet, GetLoadBalancer, FetchLoadBalancer, ListTargetGroups, CreateTargetGroup,
         UpdateTargetGroup, SetAttachments, ListListeners, DeleteListener, UpdateListener,
         CreateListener, ListUnusedTargetGroups, DeleteTargetGroup, ListSecurityGroups,
         EnsureManagedSecurityGroup, ReturnUpdated, PollReady, AwaitGone,
         ListRemainingTargetGroups, CallFails, cloud
  <2>2. Rest(w) \/ \E label, m : Goto(w, label, m)
    <3>1. CASE GetLoadBalancer(w) \/ FetchLoadBalancer(w)
      BY <3>1 DEF GetLoadBalancer, FetchLoadBalancer, FetchNothing, Abort
    <3>2. CASE ListTargetGroups(w) \/ CreateTargetGroup(w) \/ UpdateTargetGroup(w)
               \/ SetAttachments(w)
      BY <3>2 DEF ListTargetGroups, CreateTargetGroup, UpdateTargetGroup, SetAttachments,
                  Answered, Lost, Abort
    <3>3. CASE ListListeners(w) \/ DeleteListener(w) \/ UpdateListener(w) \/ CreateListener(w)
      BY <3>3 DEF ListListeners, DeleteListener, UpdateListener, CreateListener,
                  Answered, Lost, Abort
    <3>4. CASE ListUnusedTargetGroups(w) \/ DeleteTargetGroup(w) \/ AwaitGone(w)
               \/ ListRemainingTargetGroups(w)
      BY <3>4 DEF ListUnusedTargetGroups, DeleteTargetGroup, AwaitGone,
                  ListRemainingTargetGroups, Answered, Lost, Abort
    <3>5. CASE ListSecurityGroups(w) \/ EnsureManagedSecurityGroup(w)
      BY <3>5 DEF ListSecurityGroups, EnsureManagedSecurityGroup, Answered, Lost, Abort
    <3>6. CASE ReturnUpdated(w) \/ PollReady(w) \/ CallFails(w)
      BY <3>6 DEF ReturnUpdated, PollReady, CallFails, Return
    <3> QED
      BY <1>4, <3>1, <3>2, <3>3, <3>4, <3>5, <3>6 DEF Quiet
  <2> QED
    BY <1>1, <2>1, <2>2, EndsWork
<1> QED
  BY <1>2, <1>3, <1>4

-----------------------------------------------------------------------------
(* The invariant.                                                          *)

(* The Controller's part in a step of some worker.                         *)
LEMMA WorkHolds ==
    ASSUME HeldInv, NEW w \in Workers, Works(w), Unpublished(w),
           DOMAIN lbs' # {} => DOMAIN lbs # {} \/ finalizer
    PROVE  HeldInv'
<1>1. UNCHANGED <<svc, finalizer>>
  BY DEF Works, kube
<1>2. \/ /\ job'[Controller] = job[Controller]
         /\ pc[Controller] = "idle" => pc'[Controller] = "idle"
         /\ pc'[Controller] = "publish" =>
              job[Controller].op # "delete" \/ pc[Controller] = "publish"
      \/ job'[Controller] = NoJob /\ pc'[Controller] = "idle"
  <2>1. CASE w = Controller
    BY <2>1 DEF Works, Unpublished
  <2>2. CASE w # Controller
    BY <2>2 DEF Works, Workers
  <2> QED
    BY <2>1, <2>2
<1> QED
  BY <1>1, <1>2 DEF HeldInv, NeverOrphaned, NoJob

(* Nothing exists and nobody works.                                        *)
LEMMA InitHeld == Init => HeldInv
BY DEF Init, HeldInv, NeverOrphaned, Nothing, NoJob, Workers

(* Creating and deleting a load balancer are the Controller's, and held.   *)
LEMMA CreateWorks ==
    ASSUME TypeOK, LifecycleInv, HeldInv, NEW w \in Workers, CreateLoadbalancer(w)
    PROVE  /\ Works(w) /\ Unpublished(w) /\ finalizer /\ DOMAIN lbs = {}
           /\ \E l : DOMAIN lbs' = {l} /\ lbs'[l].status = "creating"
<1>1. PICK l \in FreshLb :
        /\ lbs' = Put(lbs, l, [status |-> "creating", addr |-> FALSE, groups |-> WantedGroups(w)])
        /\ Answered(w, "list", [mem[w] EXCEPT !.lb = l, !.made = TRUE,
                                              !.groups = WantedGroups(w), !.sg = None])
  BY DEF CreateLoadbalancer
<1>2. pc[w] = "createLb" /\ UNCHANGED kube
  BY DEF CreateLoadbalancer
<1>3. DOMAIN lbs = {} /\ job[w].op = "ensure" /\ w = Controller
  BY <1>2 DEF LifecycleInv, EmptyInv, Creating, RoleInv, Workers
<1>4. DOMAIN lbs' = {l} /\ lbs'[l].status = "creating"
  BY <1>1, <1>3 DEF Put
<1>5. Rest(w) \/ (\E label, m : Goto(w, label, m))
  BY <1>1 DEF Answered, Lost
<1>6. Works(w)
  BY <1>2, <1>5, EndsWork
<1>7. Unpublished(w)
  BY <1>3 DEF Unpublished
<1> QED
  BY <1>3, <1>4, <1>6, <1>7 DEF HeldInv, NeverOrphaned

(* A deletion marks the load balancer the worker holds, if it still exists. *)
LEMMA DeleteWorks ==
    ASSUME TypeOK, NEW w \in Workers, DeleteLoadbalancer(w)
    PROVE  /\ Works(w) /\ Unpublished(w) /\ DOMAIN lbs' = DOMAIN lbs
           /\ \/ UNCHANGED lbs
              \/ mem[w].lb \in DOMAIN lbs /\ lbs'[mem[w].lb].status = "deleting"
<1>1. pc[w] = "unused" /\ UNCHANGED kube
  BY DEF DeleteLoadbalancer
<1>2. Rest(w) \/ (\E label, m : Goto(w, label, m))
  BY DEF DeleteLoadbalancer, Answered, Lost, Abort
<1>3. Works(w)
  BY <1>1, <1>2, EndsWork
<1>4. \A l \in DOMAIN lbs : lbs[l] \in LbType
  BY DEF TypeOK, CloudOK, Objects
<1>5. \/ UNCHANGED lbs
      \/ mem[w].lb \in DOMAIN lbs /\ lbs' = [lbs EXCEPT ![mem[w].lb].status = "deleting"]
  BY DEF DeleteLoadbalancer
<1>6. /\ DOMAIN lbs' = DOMAIN lbs
      /\ \/ UNCHANGED lbs
         \/ mem[w].lb \in DOMAIN lbs /\ lbs'[mem[w].lb].status = "deleting"
  BY <1>4, <1>5 DEF LbType
<1>7. Unpublished(w)
  <2>1. pc'[w] \in {"idle", "wait"}
    BY LandsOn DEF DeleteLoadbalancer, Answered, Lost, Abort
  <2> QED
    BY <2>1 DEF Unpublished
<1> QED
  BY <1>3, <1>6, <1>7

(* The Controller that records an outcome has ensured, or has deleted and  *)
(* let go before.                                                          *)
LEMMA PublishOutcome ==
    ASSUME TypeOK, LifecycleInv, HeldInv, Publish
    PROVE  /\ job'[Controller] = NoJob /\ pc'[Controller] = "idle"
           /\ UNCHANGED <<svc, finalizer, lbs>>
           /\ \/ finalizer /\ published' \in BOOLEAN
              \/ DOMAIN lbs = {} /\ ~finalizer /\ published' = FALSE
<1>1. Controller \in Workers /\ pc[Controller] = "publish" /\ published' = Outcome
  BY DEF Publish, Workers
<1>2. /\ job'[Controller] = NoJob /\ pc'[Controller] = "idle"
      /\ UNCHANGED <<svc, finalizer, lbs>>
  BY <1>1 DEF Publish, Return, Lost, Rest, TypeOK, WorkersOK, cloud
<1>3. job[Controller].op \in {"ensure", "delete"} /\ mem[Controller].addr \in BOOLEAN
  BY <1>1 DEF HeldInv, LifecycleInv, RoleInv, TypeOK, WorkersOK, JobType, MemType, Ops
<1>4. CASE job[Controller].op = "ensure"
  BY <1>1, <1>2, <1>3, <1>4 DEF Outcome, HeldInv, NeverOrphaned
<1>5. CASE job[Controller].op = "delete"
  <2>1. DOMAIN lbs = {} /\ ~finalizer
    BY <1>1, <1>5 DEF LifecycleInv, EmptyInv, Removed, HeldInv
  <2> QED
    BY <1>1, <1>2, <1>5, <2>1 DEF Outcome
<1> QED
  BY <1>3, <1>4, <1>5

(* The finalizer's removal ends the hold of a Service whose load balancer  *)
(* is gone.                                                                *)
LEMMA RemoveOutcome ==
    ASSUME TypeOK, LifecycleInv, RemoveFinalizer
    PROVE  /\ DOMAIN lbs = {} /\ finalizer' = FALSE /\ UNCHANGED <<published, lbs>>
           /\ svc'.phase = IF svc.phase = "deleting" THEN "gone" ELSE svc.phase
           /\ job'[Controller].op \in {"none", "delete"}
           /\ pc'[Controller] # "idle" => job'[Controller].op # "none"
<1>1. Controller \in Workers /\ pc[Controller] = "release"
  BY DEF RemoveFinalizer, Workers
<1>2. DOMAIN lbs = {} /\ job[Controller].op = "delete"
  BY <1>1 DEF LifecycleInv, EmptyInv, RoleInv, Removed
<1>3. finalizer' = FALSE /\ UNCHANGED <<published, lbs>>
  BY DEF RemoveFinalizer, cloud
<1>4. svc'.phase = IF svc.phase = "deleting" THEN "gone" ELSE svc.phase
  BY DEF RemoveFinalizer, TypeOK, KubeOK
<1>5. CASE Goto(Controller, "publish", mem[Controller])
  BY <1>1, <1>2, <1>3, <1>4, <1>5, GoesTo
<1>6. CASE Lost(Controller)
  <2>1. job'[Controller] = NoJob /\ pc'[Controller] = "idle"
    BY <1>1, <1>6 DEF Lost, Rest, TypeOK, WorkersOK
  <2> QED
    BY <1>2, <1>3, <1>4, <2>1 DEF NoJob
<1> QED
  BY <1>5, <1>6 DEF RemoveFinalizer

(* Every step preserves the invariant.                                     *)
LEMMA NextHeld == TypeOK /\ LifecycleInv /\ HeldInv /\ [Next]_vars => HeldInv'
<1> SUFFICES ASSUME TypeOK, LifecycleInv, HeldInv, [Next]_vars PROVE HeldInv'
  OBVIOUS
<1>t. Controller \in Workers /\ svc \in [phase : Phases, spec : Specs]
  BY DEF Workers, TypeOK, KubeOK
<1>1. CASE StartSync
  <2>1. ASSUME NEW op, NEW label, Begin(Controller, label, op)
        PROVE  job'[Controller].op = op /\ pc'[Controller] = label /\ UNCHANGED <<svc, lbs>>
    BY <2>1, <1>t DEF Begin, cloud, TypeOK, WorkersOK
  <2>2. CASE svc.phase = "active" /\ Begin(Controller, "fetch", "ensure") /\ finalizer' = TRUE
    BY <2>1, <2>2 DEF HeldInv, NeverOrphaned
  <2>3. CASE Begin(Controller, "exists", "delete") /\ UNCHANGED finalizer
    BY <2>1, <2>3 DEF HeldInv, NeverOrphaned
  <2> QED
    BY <1>1, <2>2, <2>3 DEF StartSync
<1>2. ASSUME NEW w \in Updaters, StartResync(w) PROVE HeldInv'
  <2>1. w # Controller /\ UNCHANGED <<svc, finalizer, lbs>>
    BY <1>2, WorkersAssumption DEF StartResync, Begin, cloud
  <2>2. job'[Controller].op = job[Controller].op /\ pc'[Controller] = pc[Controller]
    BY <1>2, <1>t, <2>1 DEF StartResync, Begin, TypeOK, WorkersOK, JobType
  <2> QED
    BY <2>1, <2>2 DEF HeldInv, NeverOrphaned
<1>3. CASE Publish
  <2>1. /\ job'[Controller].op = "none" /\ pc'[Controller] = "idle"
        /\ UNCHANGED <<svc, finalizer, lbs>>
    BY <1>3, PublishOutcome DEF NoJob
  <2> QED
    BY <2>1 DEF HeldInv, NeverOrphaned
<1>10. CASE RemoveFinalizer
  BY <1>10, RemoveOutcome DEF HeldInv, NeverOrphaned
<1>4. ASSUME NEW w \in Workers, Quiet(w) PROVE HeldInv'
  BY <1>4, QuietWorks, QuietUnpublished, WorkHolds
<1>5. ASSUME NEW w \in Workers, CreateLoadbalancer(w) PROVE HeldInv'
  BY <1>5, CreateWorks, WorkHolds
<1>6. ASSUME NEW w \in Workers, DeleteLoadbalancer(w) PROVE HeldInv'
  BY <1>6, DeleteWorks, WorkHolds
<1>7. CASE CloudStep
  <2>1. UNCHANGED <<svc, finalizer, pc, job>>
    BY <1>7 DEF CloudStep, LoadBalancerReady, LoadBalancerRemoved, kube
  <2>2. DOMAIN lbs' \subseteq DOMAIN lbs
    BY <1>7 DEF CloudStep, LoadBalancerReady, LoadBalancerRemoved, Drop, Restrict
  <2> QED
    BY <2>1, <2>2 DEF HeldInv, NeverOrphaned
<1>8. CASE UserStep \/ UNCHANGED vars
  <2>1. UNCHANGED <<finalizer, lbs, pc, job>>
    BY <1>8 DEF UserStep, EditService, ChangeType, DeleteService, ChangeNodes, UserChanges,
                vars, cloud
  <2>2. svc'.phase = "gone" => ~finalizer
    BY <1>8, <1>t DEF UserStep, EditService, ChangeType, DeleteService, ChangeNodes, vars,
                      HeldInv, NeverOrphaned
  <2> QED
    BY <2>1, <2>2 DEF HeldInv, NeverOrphaned
<1>9. CASE Crash
  BY <1>9, <1>t DEF Crash, kube, cloud, HeldInv, NeverOrphaned, NoJob
<1> QED
  BY <1>1, <1>2, <1>3, <1>4, <1>5, <1>6, <1>7, <1>8, <1>9, <1>10 DEF Next, WorkerStep, Quiet

(* It holds in every reachable state.                                      *)
LEMMA HeldInvariant == Spec => []HeldInv
BY TypeCorrect, Lifecycle, InitHeld, NextHeld, PTL DEF Spec

(* The load balancer of a Service is never orphaned: the cleanup finalizer *)
(* holds the Service from before the creation until after the removal.     *)
THEOREM Held == Spec => []NeverOrphaned
<1>1. HeldInv => NeverOrphaned
  BY DEF HeldInv
<1> QED
  BY <1>1, HeldInvariant, PTL

-----------------------------------------------------------------------------
(* The simulation.                                                         *)

(* The initial states are initial states of the contract.                  *)
LEMMA InitSimulates == Init => Contract!Init
BY DEF Init, Contract!Init, Balancer, Nothing

(* A worker's step that changes no status is invisible in the contract.    *)
LEMMA QuietSimulates ==
    ASSUME TypeOK, NEW w \in Workers, Quiet(w)
    PROVE  UNCHANGED Contract!vars
<1>1. UNCHANGED <<svc, finalizer, published>>
  BY QuietWorks DEF Works, kube
<1>2. UNCHANGED Balancer
  BY QuietWorks, SameBalancer
<1> QED
  BY <1>1, <1>2 DEF Contract!vars

(* A creation is the contract's: it is held, and there was none.           *)
LEMMA CreateSimulates ==
    ASSUME TypeOK, LifecycleInv, HeldInv, NEW w \in Workers, CreateLoadbalancer(w)
    PROVE  Contract!CreateBalancer
<1>1. UNCHANGED <<svc, finalizer, published>>
  BY CreateWorks DEF Works, kube
<1>2. PICK l : DOMAIN lbs' = {l} /\ lbs'[l].status = "creating"
  BY CreateWorks
<1>3. lbs'[CHOOSE x \in DOMAIN lbs' : TRUE] = lbs'[l]
  BY <1>2, TheOne
<1>4. Balancer = "none" /\ Balancer' = "creating"
  BY <1>2, <1>3, CreateWorks DEF Balancer
<1> QED
  BY <1>1, <1>4, CreateWorks DEF Contract!CreateBalancer

(* A deletion starts the contract's; one that was started is repeated      *)
(* without effect.                                                         *)
LEMMA DeleteSimulates ==
    ASSUME TypeOK, LifecycleInv, LifecycleInv', HeldInv, NEW w \in Workers, DeleteLoadbalancer(w)
    PROVE  Contract!DeleteBalancer \/ UNCHANGED Contract!vars
<1>1. UNCHANGED <<svc, finalizer, published>>
  BY DeleteWorks DEF Works, kube
<1>2. CASE UNCHANGED lbs
  BY <1>1, <1>2, SameBalancer DEF Contract!vars
<1>3. CASE mem[w].lb \in DOMAIN lbs /\ lbs'[mem[w].lb].status = "deleting"
  <2>1. finalizer /\ DOMAIN lbs' = DOMAIN lbs /\ DOMAIN lbs # {}
    BY <1>3, DeleteWorks DEF HeldInv, NeverOrphaned
  <2>2. lbs[CHOOSE x \in DOMAIN lbs : TRUE] = lbs[mem[w].lb]
    BY <1>3, TheOne DEF LifecycleInv, AtMostOneLoadBalancer
  <2>3. lbs'[CHOOSE x \in DOMAIN lbs' : TRUE] = lbs'[mem[w].lb]
    BY <1>3, <2>1, TheOne DEF LifecycleInv, AtMostOneLoadBalancer
  <2>4. Balancer = lbs[mem[w].lb].status /\ Balancer' = "deleting"
    BY <1>3, <2>1, <2>2, <2>3 DEF Balancer
  <2>5. Balancer \in {"creating", "ready", "deleting"}
    BY <1>3, <2>4 DEF TypeOK, CloudOK, Objects, LbType
  <2> QED
    BY <1>1, <2>1, <2>4, <2>5 DEF Contract!DeleteBalancer, Contract!vars
<1> QED
  BY <1>2, <1>3, DeleteWorks

(* The cloud's own steps.                                                  *)
LEMMA CloudSimulates ==
    ASSUME TypeOK, LifecycleInv, LifecycleInv', CloudStep
    PROVE  Contract!BalancerReady \/ Contract!BalancerGone
<1>1. PICK l \in DOMAIN lbs : LoadBalancerReady(l) \/ LoadBalancerRemoved(l)
  BY DEF CloudStep
<1>2. UNCHANGED <<svc, finalizer, published>>
  BY <1>1 DEF LoadBalancerReady, LoadBalancerRemoved, kube
<1>3. Balancer = lbs[l].status /\ lbs[l] \in LbType /\ DOMAIN lbs = {l}
  BY TheOne DEF LifecycleInv, AtMostOneLoadBalancer, Balancer, TypeOK, CloudOK, Objects
<1>4. CASE LoadBalancerReady(l)
  <2>1. DOMAIN lbs' = {l} /\ lbs'[l].status = "ready" /\ lbs[l].status = "creating"
    BY <1>3, <1>4 DEF LoadBalancerReady, LbType
  <2>2. lbs'[CHOOSE x \in DOMAIN lbs' : TRUE] = lbs'[l]
    BY <2>1, TheOne
  <2>3. Balancer' = "ready"
    BY <2>1, <2>2 DEF Balancer
  <2> QED
    BY <1>2, <1>3, <2>1, <2>3 DEF Contract!BalancerReady
<1>5. CASE LoadBalancerRemoved(l)
  <2>1. DOMAIN lbs' = {} /\ lbs[l].status = "deleting"
    BY <1>3, <1>5 DEF LoadBalancerRemoved, Drop, Restrict
  <2>2. Balancer' = "none"
    BY <2>1 DEF Balancer
  <2> QED
    BY <1>2, <1>3, <2>1, <2>2 DEF Contract!BalancerGone
<1> QED
  BY <1>1, <1>4, <1>5

(* The service controller's bookkeeping.                                   *)
LEMMA ControllerSimulates ==
    ASSUME TypeOK, LifecycleInv, HeldInv, StartSync \/ RemoveFinalizer \/ Publish
    PROVE  \/ Contract!Hold \/ Contract!Advertise \/ Contract!Release \/ Contract!Withdraw
           \/ UNCHANGED Contract!vars
<1>1. UNCHANGED Balancer
  <2>1. UNCHANGED lbs
    BY PublishOutcome, RemoveOutcome DEF StartSync, Begin, cloud
  <2> QED
    BY <2>1, SameBalancer
<1>2. CASE StartSync
  <2>1. UNCHANGED <<svc, published>>
    BY <1>2 DEF StartSync, Begin
  <2>2. \/ svc.phase = "active" /\ finalizer' = TRUE
        \/ UNCHANGED finalizer
    BY <1>2 DEF StartSync
  <2> QED
    BY <1>1, <2>1, <2>2 DEF Contract!Hold, Contract!vars
<1>3. CASE RemoveFinalizer
  <2>1. Balancer = "none"
    BY <1>3, RemoveOutcome DEF Balancer
  <2> QED
    BY <1>1, <1>3, <2>1, RemoveOutcome DEF Contract!Release
<1>4. CASE Publish
  <2>1. CASE finalizer /\ published' \in BOOLEAN
    BY <1>1, <1>4, <2>1, PublishOutcome DEF Contract!Advertise
  <2>2. CASE DOMAIN lbs = {} /\ ~finalizer /\ published' = FALSE
    <3>1. Balancer = "none"
      BY <2>2 DEF Balancer
    <3> QED
      BY <1>1, <1>4, <2>2, <3>1, PublishOutcome DEF Contract!Withdraw
  <2> QED
    BY <1>4, <2>1, <2>2, PublishOutcome
<1> QED
  BY <1>2, <1>3, <1>4

(* The users, the start of a resync and a crash.                           *)
LEMMA OtherSimulates ==
    ASSUME TypeOK, UserStep \/ Crash \/ (\E w \in Updaters : StartResync(w)) \/ UNCHANGED vars
    PROVE  Contract!SwitchType \/ Contract!DeleteService \/ UNCHANGED Contract!vars
<1>1. UNCHANGED <<finalizer, published, lbs>>
  BY DEF UserStep, EditService, ChangeType, DeleteService, ChangeNodes, UserChanges, Crash,
         StartResync, Begin, vars, kube, cloud
<1>2. UNCHANGED Balancer
  BY <1>1, SameBalancer
<1>t. svc \in [phase : Phases, spec : Specs]
  BY DEF TypeOK, KubeOK
<1>3. CASE ChangeType
  <2>1. /\ svc.phase \in {"active", "clusterIP"}
        /\ svc'.phase = IF svc.phase = "active" THEN "clusterIP" ELSE "active"
    BY <1>3, <1>t DEF ChangeType
  <2> QED
    BY <1>1, <1>2, <2>1 DEF Contract!SwitchType
<1>4. CASE DeleteService
  <2>1. /\ svc.phase \in {"active", "clusterIP"}
        /\ svc'.phase = IF finalizer THEN "deleting" ELSE "gone"
    BY <1>4, <1>t DEF DeleteService
  <2> QED
    BY <1>1, <1>2, <2>1 DEF Contract!DeleteService
<1>5. CASE EditService \/ ChangeNodes \/ Crash \/ (\E w \in Updaters : StartResync(w))
           \/ UNCHANGED vars
  <2>1. svc'.phase = svc.phase
    BY <1>5, <1>t DEF EditService, ChangeNodes, Crash, StartResync, Begin, vars, kube
  <2> QED
    BY <1>1, <1>2, <2>1 DEF Contract!vars
<1> QED
  BY <1>3, <1>4, <1>5 DEF UserStep

(* Every step is a step of the contract or invisible in it.                *)
LEMMA NextSimulates ==
    TypeOK /\ LifecycleInv /\ LifecycleInv' /\ HeldInv /\ [Next]_vars
      => [Contract!Next]_Contract!vars
<1> SUFFICES ASSUME TypeOK, LifecycleInv, LifecycleInv', HeldInv, [Next]_vars
             PROVE  Contract!Next \/ UNCHANGED Contract!vars
  OBVIOUS
<1>1. ASSUME NEW w \in Workers, WorkerStep(w) \/ CallFails(w)
      PROVE  Contract!CreateBalancer \/ Contract!DeleteBalancer \/ UNCHANGED Contract!vars
  BY <1>1, QuietSimulates, CreateSimulates, DeleteSimulates DEF WorkerStep, Quiet
<1> QED
  BY <1>1, CloudSimulates, ControllerSimulates, OtherSimulates DEF Next, Contract!Next

(* The reconcile implements the contract: to the owner of the Service, all *)
(* the calls, retries, lost answers, crashes and concurrent updates look   *)
(* like a single load balancer that is created and removed under the hold  *)
(* of the finalizer.                                                       *)
THEOREM Implements == Spec => ImplementsContract
<1>1. Spec => [](TypeOK /\ LifecycleInv /\ HeldInv)
  BY TypeCorrect, Lifecycle, HeldInvariant, PTL
<1>2. Spec => [][Contract!Next]_Contract!vars
  BY <1>1, NextSimulates, PTL DEF Spec
<1> QED
  BY <1>2, InitSimulates, PTL DEF Spec, ImplementsContract, Contract!Spec
=============================================================================
