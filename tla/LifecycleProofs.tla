-------------------------- MODULE LifecycleProofs ---------------------------
(***************************************************************************)
(* The life of the load balancer, proved for any number of concurrent      *)
(* updaters, any specs, any number of edits, lost answers, failed calls    *)
(* and crashes.  The inductive invariant is LifecycleInv of Reconcile.     *)
(***************************************************************************)
EXTENDS ReconcileProofs

(* What one worker knows.                                                  *)
Knows(w) == RoleInv(w) /\ HoldsInv(w) /\ EmptyInv(w)

(* A step that neither adds nor removes a load balancer nor moves one      *)
(* towards its deletion.                                                   *)
KeepsLbs ==
    /\ DOMAIN lbs' = DOMAIN lbs
    /\ \A l \in DOMAIN lbs : lbs'[l].status = "deleting" => lbs[l].status = "deleting"

(* A worker that does not move keeps what it knows, if the load balancer   *)
(* it made is left alone and none appears where it relies on none.         *)
LEMMA StandsStill ==
    ASSUME NEW w \in Workers, Knows(w),
           pc'[w] = pc[w], mem'[w] = mem[w], job'[w].op = job[w].op,
           Creating(w) \/ Removed(w) => DOMAIN lbs' = {},
           mem[w].made => mem[w].lb \in DOMAIN lbs' /\ lbs'[mem[w].lb].status # "deleting"
    PROVE  Knows(w)'
BY DEF Knows, RoleInv, HoldsInv, EmptyInv, Creating, Removed

(* A worker that gave up its job knows nothing and needs nothing.          *)
LEMMA Rested ==
    ASSUME NEW w \in Workers, pc'[w] = "idle", mem'[w] = NoMem, job'[w] = NoJob
    PROVE  Knows(w)'
BY DEF Knows, RoleInv, HoldsInv, EmptyInv, Creating, Removed, NoMem, NoJob

(* Steps of one worker that keep the load balancers: it is enough to show  *)
(* that the worker knows what the place it goes to requires.               *)
LEMMA WorkerMoves ==
    ASSUME TypeOK, LifecycleInv, NEW w \in Workers, KeepsLbs,
           \A x \in Workers \ {w} : pc'[x] = pc[x] /\ mem'[x] = mem[x] /\ job'[x].op = job[x].op,
           Knows(w)'
    PROVE  LifecycleInv'
<1>1. AtMostOneLoadBalancer'
  BY DEF LifecycleInv, AtMostOneLoadBalancer, KeepsLbs
<1>2. ASSUME NEW x \in Workers \ {w} PROVE Knows(x)'
  <2>1. Knows(x)
    BY DEF LifecycleInv, Knows
  <2>2. Creating(x) \/ Removed(x) => DOMAIN lbs' = {}
    BY <2>1 DEF Knows, EmptyInv, KeepsLbs
  <2>3. mem[x].made => mem[x].lb \in DOMAIN lbs' /\ lbs'[mem[x].lb].status # "deleting"
    BY <2>1 DEF Knows, HoldsInv, KeepsLbs
  <2> QED
    BY <1>2, <2>1, <2>2, <2>3, StandsStill
<1> QED
  BY <1>1, <1>2 DEF LifecycleInv, Knows

(* A worker that gives up its job, with or without an error.               *)
LEMMA WorkerRests ==
    ASSUME TypeOK, LifecycleInv, NEW w \in Workers, KeepsLbs, Rest(w)
    PROVE  LifecycleInv'
<1>1. /\ pc'[w] = "idle" /\ mem'[w] = NoMem /\ job'[w] = NoJob
      /\ \A x \in Workers \ {w} : pc'[x] = pc[x] /\ mem'[x] = mem[x] /\ job'[x].op = job[x].op
  BY DEF Rest, TypeOK, WorkersOK
<1> QED
  BY <1>1, Rested, WorkerMoves

(* A worker that goes on to another call.                                  *)
LEMMA WorkerGoes ==
    ASSUME TypeOK, LifecycleInv, NEW w \in Workers, KeepsLbs, NEW label, NEW m,
           Goto(w, label, m), Knows(w)'
    PROVE  LifecycleInv'
<1>1. \A x \in Workers \ {w} : pc'[x] = pc[x] /\ mem'[x] = mem[x] /\ job'[x].op = job[x].op
  BY DEF Goto, TypeOK, WorkersOK
<1> QED
  BY <1>1, WorkerMoves

(* What a worker that goes on holds afterwards.                            *)
LEMMA GoesTo ==
    ASSUME TypeOK, NEW w \in Workers, NEW label, NEW m, Goto(w, label, m)
    PROVE  pc'[w] = label /\ mem'[w] = m /\ job'[w] = job[w]
BY DEF Goto, TypeOK, WorkersOK

(* A call that keeps the load balancers, answered, lost or refused.        *)
LEMMA CallKeeps ==
    ASSUME TypeOK, LifecycleInv, NEW w \in Workers, KeepsLbs, NEW label, NEW m,
           Answered(w, label, m) \/ Abort(w),
           Goto(w, label, m) => Knows(w)'
    PROVE  LifecycleInv'
BY WorkerRests, WorkerGoes DEF Answered, Lost, Abort

-----------------------------------------------------------------------------
(* The actions, in the order of Reconcile.                                 *)

(* A job that starts.                                                      *)
LEMMA StartKeeps ==
    ASSUME TypeOK, LifecycleInv, StartSync \/ \E w \in Updaters : StartResync(w)
    PROVE  LifecycleInv'
<1>1. ASSUME NEW w \in Workers, NEW label, NEW op, Begin(w, label, op),
             \/ w = Controller /\ <<label, op>> \in {<<"fetch", "ensure">>, <<"exists", "delete">>}
             \/ w \in Updaters /\ label = "fetch" /\ op = "update"
      PROVE  LifecycleInv'
  <2>1. KeepsLbs
    BY <1>1 DEF Begin, cloud, KeepsLbs
  <2>2. pc'[w] = label /\ job'[w].op = op /\ mem'[w] = NoMem
    BY <1>1 DEF Begin, TypeOK, WorkersOK, LifecycleInv, RoleInv
  <2>3. \A x \in Workers \ {w} : pc'[x] = pc[x] /\ mem'[x] = mem[x] /\ job'[x].op = job[x].op
    BY <1>1 DEF Begin, TypeOK, WorkersOK, JobType
  <2>4. Knows(w)'
    BY <1>1, <2>2, WorkersAssumption
    DEF Knows, RoleInv, HoldsInv, EmptyInv, Creating, Removed, NoMem
  <2> QED
    BY <2>1, <2>3, <2>4, WorkerMoves
<1>2. CASE StartSync
  BY <1>1, <1>2 DEF StartSync, Workers
<1>3. CASE \E w \in Updaters : StartResync(w)
  BY <1>1, <1>3 DEF StartResync, Workers
<1> QED
  BY <1>2, <1>3

(* The two lookups of the load balancer.                                   *)
LEMMA LookupKeeps ==
    ASSUME TypeOK, LifecycleInv, NEW w \in Workers, GetLoadBalancer(w) \/ FetchLoadBalancer(w)
    PROVE  LifecycleInv'
<1>k. Knows(w) /\ mem[w] \in MemType
  BY DEF LifecycleInv, Knows, TypeOK, WorkersOK
<1>u. KeepsLbs
  BY DEF GetLoadBalancer, FetchLoadBalancer, cloud, KeepsLbs
<1>1. CASE GetLoadBalancer(w)
  <2>1. PICK label : label = (IF DOMAIN lbs = {} THEN "release" ELSE "fetch") /\ Goto(w, label, mem[w])
    BY <1>1 DEF GetLoadBalancer
  <2>2. pc'[w] = label /\ mem'[w] = mem[w] /\ job'[w] = job[w] /\ lbs' = lbs /\ pc[w] = "exists"
    BY <1>1, <2>1, GoesTo DEF GetLoadBalancer, cloud
  <2>3. Knows(w)'
    BY <1>k, <2>1, <2>2 DEF Knows, RoleInv, HoldsInv, EmptyInv, Creating, Removed
  <2> QED
    BY <1>u, <2>1, <2>3, WorkerGoes
<1>2. CASE FetchLoadBalancer(w)
  <2>f. pc[w] = "fetch" /\ lbs' = lbs
    BY <1>2 DEF FetchLoadBalancer, cloud
  <2>1. CASE DOMAIN lbs = {} /\ FetchNothing(w)
    <3>1. CASE Abort(w)
      BY <3>1, <1>u, WorkerRests DEF Abort
    <3>2. ASSUME NEW label, Goto(w, label, mem[w]),
                 <<job[w].op, label>> \in {<<"ensure", "create">>, <<"delete", "release">>}
          PROVE  LifecycleInv'
      <4>1. pc'[w] = label /\ mem'[w] = mem[w] /\ job'[w] = job[w]
        BY <3>2, GoesTo
      <4>2. Knows(w)'
        BY <1>k, <2>f, <2>1, <3>2, <4>1
        DEF Knows, RoleInv, HoldsInv, EmptyInv, Creating, Removed
      <4> QED
        BY <3>2, <4>2, <1>u, WorkerGoes
    <3> QED
      BY <2>1, <3>1, <3>2 DEF FetchNothing
  <2>2. ASSUME NEW l \in DOMAIN lbs, NEW label, NEW m,
               label = (IF job[w].op = "delete" THEN "sweep" ELSE "list"),
               m = [mem[w] EXCEPT !.lb = l, !.groups = lbs[l].groups, !.addr = lbs[l].addr],
               Goto(w, label, m)
        PROVE  LifecycleInv'
    <3>1. pc'[w] = label /\ mem'[w] = m /\ job'[w] = job[w]
      BY <2>2, GoesTo
    <3>2. l # None
      BY IdsAssumption DEF TypeOK, CloudOK, Objects
    <3>3. m.lb = l /\ m.made = mem[w].made
      BY <2>2, <1>k DEF MemType
    <3>4. Knows(w)'
      BY <1>k, <2>f, <2>2, <3>1, <3>2, <3>3
      DEF Knows, RoleInv, HoldsInv, EmptyInv, Creating, Removed
    <3> QED
      BY <2>2, <3>4, <1>u, WorkerGoes
  <2> QED
    BY <1>2, <2>1, <2>2 DEF FetchLoadBalancer
<1> QED
  BY <1>1, <1>2

(* The places a worker passes with a load balancer in its hands, in order. *)
Onward(from, to) ==
    \/ from \in {"groups", "listeners", "unused", "purge"} /\ to = from
    \/ from = "list" /\ to = "groups"
    \/ from = "groups" /\ to = "listeners"
    \/ from \in {"listeners", "sweep"} /\ to = "unused"
    \/ from = "wait" /\ to = "gone"
    \/ from = "gone" /\ to = "purge"

(* A worker that goes on with the load balancer it holds.                  *)
LEMMA HoldsOn ==
    ASSUME TypeOK, NEW w \in Workers, Knows(w), KeepsLbs, NEW label, NEW m, Goto(w, label, m),
           m.lb = mem[w].lb, m.made = mem[w].made,
           Onward(pc[w], label),
           label = "gone" => DOMAIN lbs = {}
    PROVE  Knows(w)'
<1>1. pc'[w] = label /\ mem'[w] = m /\ job'[w] = job[w]
  BY GoesTo
<1>2. RoleInv(w)'
  BY <1>1 DEF Knows, RoleInv, Onward
<1>3. HoldsInv(w)'
  BY <1>1 DEF Knows, HoldsInv, KeepsLbs, Onward
<1>4. EmptyInv(w)'
  BY <1>1 DEF Knows, EmptyInv, Creating, Removed, KeepsLbs, Onward
<1> QED
  BY <1>2, <1>3, <1>4 DEF Knows

(* The target group and listener calls.                                    *)
LEMMA UpdateKeeps ==
    ASSUME TypeOK, LifecycleInv, NEW w \in Workers,
           \/ ListTargetGroups(w) \/ CreateTargetGroup(w) \/ UpdateTargetGroup(w)
           \/ SetAttachments(w) \/ ListListeners(w) \/ DeleteListener(w) \/ UpdateListener(w)
           \/ CreateListener(w) \/ ListUnusedTargetGroups(w) \/ DeleteTargetGroup(w)
           \/ AwaitGone(w) \/ ListRemainingTargetGroups(w)
    PROVE  LifecycleInv'
<1>k. Knows(w) /\ mem[w] \in MemType
  BY DEF LifecycleInv, Knows, TypeOK, WorkersOK
<1>u. KeepsLbs
  <2>1. UNCHANGED lbs
    BY DEF ListTargetGroups, CreateTargetGroup, UpdateTargetGroup, SetAttachments, ListListeners,
           DeleteListener, UpdateListener, CreateListener, ListUnusedTargetGroups,
           DeleteTargetGroup, AwaitGone, ListRemainingTargetGroups, cloud
  <2> QED
    BY <2>1 DEF KeepsLbs
<1>g. ASSUME NEW label, NEW m, Answered(w, label, m) \/ Abort(w),
             m.lb = mem[w].lb, m.made = mem[w].made,
             Onward(pc[w], label),
             label = "gone" => DOMAIN lbs = {}
      PROVE  LifecycleInv'
  BY <1>g, <1>k, <1>u, HoldsOn, CallKeeps
<1>1. CASE ListTargetGroups(w)
  <2>1. PICK a, b : Goto(w, "groups", [mem[w] EXCEPT !.mk = a, !.up = b])
    BY <1>1 DEF ListTargetGroups
  <2>2. pc[w] = "list"
    BY <1>1 DEF ListTargetGroups
  <2> DEFINE m == [mem[w] EXCEPT !.mk = a, !.up = b]
  <2>3. m.lb = mem[w].lb /\ m.made = mem[w].made
    BY <1>k DEF MemType
  <2>4. Answered(w, "groups", m)
    BY <2>1 DEF Answered
  <2> HIDE DEF m
  <2> QED
    BY <2>2, <2>3, <2>4, <1>g DEF Onward
<1>2. CASE CreateTargetGroup(w)
  <2>1. PICK a, b, c : Answered(w, "groups", [mem[w] EXCEPT !.mk = @ \ {a}, !.att = b, !.got = @ \cup {c}])
    BY <1>2 DEF CreateTargetGroup
  <2>2. pc[w] = "groups"
    BY <1>2 DEF CreateTargetGroup
  <2>3. [mem[w] EXCEPT !.mk = @ \ {a}, !.att = b, !.got = @ \cup {c}].lb = mem[w].lb
    BY <1>k DEF MemType
  <2>4. [mem[w] EXCEPT !.mk = @ \ {a}, !.att = b, !.got = @ \cup {c}].made = mem[w].made
    BY <1>k DEF MemType
  <2>5. Answered(w, "groups", [mem[w] EXCEPT !.mk = @ \ {a}, !.att = b, !.got = @ \cup {c}])
    BY <2>1 DEF Answered
  <2> QED
    BY <2>2, <2>3, <2>4, <2>5, <1>g DEF Onward
<1>3. CASE UpdateTargetGroup(w)
  <2>1. CASE Abort(w)
    BY <2>1, <1>u, WorkerRests DEF Abort
  <2>2. CASE ~Abort(w)
    <3>1. PICK a, b, c : Answered(w, "groups", [mem[w] EXCEPT !.up = @ \ {a}, !.att = b, !.got = @ \cup {c}])
      BY <1>3, <2>2 DEF UpdateTargetGroup
    <3>2. pc[w] = "groups"
      BY <1>3, <2>2 DEF UpdateTargetGroup
    <3>3. [mem[w] EXCEPT !.up = @ \ {a}, !.att = b, !.got = @ \cup {c}].lb = mem[w].lb
      BY <1>k DEF MemType
    <3>4. [mem[w] EXCEPT !.up = @ \ {a}, !.att = b, !.got = @ \cup {c}].made = mem[w].made
      BY <1>k DEF MemType
    <3>5. Answered(w, "groups", [mem[w] EXCEPT !.up = @ \ {a}, !.att = b, !.got = @ \cup {c}])
      BY <3>1 DEF Answered
    <3> QED
      BY <3>2, <3>3, <3>4, <3>5, <1>g DEF Onward
  <2> QED
    BY <2>1, <2>2
<1>4. CASE SetAttachments(w)
  <2>1. PICK m : (Answered(w, "groups", m) \/ Abort(w)) /\ m.lb = mem[w].lb /\ m.made = mem[w].made
    BY <1>4, <1>k DEF SetAttachments, MemType
  <2> QED
    BY <1>4, <2>1, <1>g DEF Onward, SetAttachments
<1>5. CASE ListListeners(w)
  <2>1. CASE Abort(w)
    BY <2>1, <1>u, WorkerRests DEF Abort
  <2>2. CASE ~Abort(w)
    <3>1. PICK a, b, c : Goto(w, "listeners", [mem[w] EXCEPT !.rm = a, !.up = b, !.mk = c])
      BY <1>5, <2>2 DEF ListListeners
    <3>2. pc[w] = "groups"
      BY <1>5, <2>2 DEF ListListeners, TargetGroupsDone
    <3> DEFINE m == [mem[w] EXCEPT !.rm = a, !.up = b, !.mk = c]
    <3>3. m.lb = mem[w].lb /\ m.made = mem[w].made
      BY <1>k DEF MemType
    <3>4. Answered(w, "listeners", m)
      BY <3>1 DEF Answered
    <3> HIDE DEF m
    <3> QED
      BY <3>2, <3>3, <3>4, <1>g DEF Onward
  <2> QED
    BY <2>1, <2>2
<1>6. CASE DeleteListener(w)
  <2>1. PICK m : (Answered(w, "listeners", m) \/ Abort(w)) /\ m.lb = mem[w].lb /\ m.made = mem[w].made
    BY <1>6, <1>k DEF DeleteListener, MemType
  <2> QED
    BY <1>6, <2>1, <1>g DEF Onward, DeleteListener
<1>7. CASE UpdateListener(w)
  <2>1. PICK l \in mem[w].up : Answered(w, "listeners", [mem[w] EXCEPT !.up = @ \ {l}]) \/ Abort(w)
    BY <1>7 DEF UpdateListener, Answered
  <2>2. /\ [mem[w] EXCEPT !.up = @ \ {l}].lb = mem[w].lb
        /\ [mem[w] EXCEPT !.up = @ \ {l}].made = mem[w].made
    BY <1>k DEF MemType
  <2> QED
    BY <1>7, <2>1, <2>2, <1>g DEF Onward, UpdateListener
<1>8. CASE CreateListener(w)
  <2>1. PICK p \in mem[w].mk : Answered(w, "listeners", [mem[w] EXCEPT !.mk = @ \ {p}]) \/ Abort(w)
    BY <1>8 DEF CreateListener, Answered
  <2>2. /\ [mem[w] EXCEPT !.mk = @ \ {p}].lb = mem[w].lb
        /\ [mem[w] EXCEPT !.mk = @ \ {p}].made = mem[w].made
    BY <1>k DEF MemType
  <2> QED
    BY <1>8, <2>1, <2>2, <1>g DEF Onward, CreateListener
<1>9. CASE ListUnusedTargetGroups(w)
  <2>1. PICK m : Goto(w, "unused", m) /\ m.lb = mem[w].lb /\ m.made = mem[w].made
    BY <1>9, <1>k DEF ListUnusedTargetGroups, MemType
  <2> QED
    BY <1>9, <2>1, <1>g DEF Onward, ListUnusedTargetGroups, ListenersDone, Answered
<1>10. CASE DeleteTargetGroup(w)
  <2>1. PICK m : (Answered(w, pc[w], m) \/ Abort(w)) /\ m.lb = mem[w].lb /\ m.made = mem[w].made
    BY <1>10, <1>k DEF DeleteTargetGroup, MemType
  <2> QED
    BY <1>10, <2>1, <1>g DEF Onward, DeleteTargetGroup
<1>11. CASE AwaitGone(w)
  BY <1>11, <1>g DEF Onward, AwaitGone, Answered
<1>12. CASE ListRemainingTargetGroups(w)
  <2>1. PICK m : Goto(w, "purge", m) /\ m.lb = mem[w].lb /\ m.made = mem[w].made
    BY <1>12, <1>k DEF ListRemainingTargetGroups, MemType
  <2> QED
    BY <1>12, <2>1, <1>g DEF Onward, ListRemainingTargetGroups, Answered
<1> QED
  BY <1>1, <1>2, <1>3, <1>4, <1>5, <1>6, <1>7, <1>8, <1>9, <1>10, <1>11, <1>12

(* The security group calls, the update of the load balancer, and the ends *)
(* of the three operations.                                                *)
LEMMA FinishKeeps ==
    ASSUME TypeOK, LifecycleInv, NEW w \in Workers,
           \/ ListSecurityGroups(w) \/ EnsureManagedSecurityGroup(w) \/ UpdateLoadbalancer(w)
           \/ ReturnUpdated(w) \/ PollReady(w) \/ DeleteManagedSecurityGroup(w)
    PROVE  LifecycleInv'
<1>k. Knows(w) /\ mem[w] \in MemType
  BY DEF LifecycleInv, Knows, TypeOK, WorkersOK
<1>g. ASSUME KeepsLbs, NEW label, NEW m, Answered(w, label, m) \/ Abort(w),
             m.lb = mem[w].lb, m.made = mem[w].made,
             \/ pc[w] = "unused" /\ job[w].op # "delete" /\ label \in {"group", "updateLb"}
             \/ pc[w] = "create" /\ label \in {"group", "createLb"}
             \/ pc[w] = "group" /\ label = AfterGroups(w)
             \/ pc[w] = "updateLb" /\ label = AfterUpdate(w)
             \/ pc[w] = "poll" /\ label = "publish"
      PROVE  LifecycleInv'
  <2>1. ASSUME Goto(w, label, m) PROVE Knows(w)'
    <3>1. pc'[w] = label /\ mem'[w] = m /\ job'[w] = job[w]
      BY <2>1, GoesTo
    <3>2. RoleInv(w)'
      BY <1>g, <1>k, <3>1 DEF Knows, RoleInv, AfterGroups, AfterUpdate
    <3>3. HoldsInv(w)'
      BY <1>g, <1>k, <3>1 DEF Knows, HoldsInv, EmptyInv, Creating, KeepsLbs, AfterGroups, AfterUpdate
    <3>4. EmptyInv(w)'
      BY <1>g, <1>k, <3>1
      DEF Knows, RoleInv, HoldsInv, EmptyInv, Creating, Removed, KeepsLbs, AfterGroups, AfterUpdate
    <3> QED
      BY <3>2, <3>3, <3>4 DEF Knows
  <2> QED
    BY <1>g, <2>1, CallKeeps
<1>s. ASSUME NEW s
      PROVE  \E m : /\ m = [mem[w] EXCEPT !.sg = s]
                    /\ m.lb = mem[w].lb /\ m.made = mem[w].made
  <2>1. /\ [mem[w] EXCEPT !.sg = s].lb = mem[w].lb
        /\ [mem[w] EXCEPT !.sg = s].made = mem[w].made
    BY <1>k DEF MemType
  <2> QED
    BY <2>1
<1>1. CASE ListSecurityGroups(w)
  <2>1. KeepsLbs
    BY <1>1 DEF ListSecurityGroups, cloud, KeepsLbs
  <2>2. PICK m, label : /\ Answered(w, label, m) \/ Abort(w)
                        /\ m.lb = mem[w].lb /\ m.made = mem[w].made
                        /\ label \in {"group", AfterGroups(w)}
    <3>1. CASE Abort(w)
      BY <3>1, <1>s
    <3>2. ASSUME NEW label, Goto(w, label, mem[w]), label \in {"group", AfterGroups(w)}
          PROVE  Answered(w, label, mem[w])
      BY <3>2 DEF Answered
    <3>3. ASSUME NEW s, Goto(w, "group", [mem[w] EXCEPT !.sg = s])
          PROVE  Answered(w, "group", [mem[w] EXCEPT !.sg = s])
      BY <3>3 DEF Answered
    <3> QED
      BY <1>1, <3>1, <3>2, <3>3, <1>s DEF ListSecurityGroups
  <2>3. \/ pc[w] = "unused" /\ job[w].op # "delete" /\ mem[w].lb # None
        \/ pc[w] = "create" /\ mem[w].lb = None
    BY <1>1, <1>k DEF ListSecurityGroups, Knows, HoldsInv
  <2> QED
    BY <2>1, <2>2, <2>3, <1>g DEF AfterGroups
<1>2. CASE EnsureManagedSecurityGroup(w)
  <2>1. KeepsLbs
    BY <1>2 DEF EnsureManagedSecurityGroup, KeepsLbs
  <2>2. PICK m : /\ Answered(w, AfterGroups(w), m) \/ Abort(w)
                 /\ m.lb = mem[w].lb /\ m.made = mem[w].made
    BY <1>2, <1>s DEF EnsureManagedSecurityGroup
  <2> QED
    BY <1>2, <2>1, <2>2, <1>g DEF EnsureManagedSecurityGroup
<1>3. CASE UpdateLoadbalancer(w)
  <2>1. KeepsLbs
    <3>1. UNCHANGED lbs \/ lbs' = [lbs EXCEPT ![mem[w].lb].groups = WantedGroups(w)]
      BY <1>3 DEF UpdateLoadbalancer
    <3>2. \A l \in DOMAIN lbs : lbs[l] \in LbType
      BY DEF TypeOK, CloudOK, Objects
    <3> QED
      BY <3>1, <3>2 DEF KeepsLbs, LbType
  <2>2. Answered(w, AfterUpdate(w), mem[w]) \/ Abort(w)
    BY <1>3 DEF UpdateLoadbalancer, Answered
  <2> QED
    BY <1>3, <2>1, <2>2, <1>g DEF UpdateLoadbalancer
<1>4. CASE ReturnUpdated(w)
  BY <1>4, WorkerRests DEF ReturnUpdated, Return, cloud, KeepsLbs
<1>5. CASE PollReady(w)
  <2>1. KeepsLbs
    BY <1>5 DEF PollReady, cloud, KeepsLbs
  <2>2. PICK m : Answered(w, "publish", m) /\ m.lb = mem[w].lb /\ m.made = mem[w].made
    BY <1>5, <1>k DEF PollReady, MemType, Answered
  <2> QED
    BY <1>5, <2>1, <2>2, <1>g DEF PollReady
<1>6. CASE DeleteManagedSecurityGroup(w)
  <2>1. KeepsLbs
    BY <1>6 DEF DeleteManagedSecurityGroup, KeepsLbs
  <2>2. /\ pc'[w] = "release" /\ mem' = mem /\ job' = job /\ lbs' = lbs
        /\ \A x \in Workers \ {w} : pc'[x] = pc[x]
    BY <1>6 DEF DeleteManagedSecurityGroup, TypeOK, WorkersOK
  <2>3. Knows(w)'
    BY <1>6, <1>k, <2>2
    DEF DeleteManagedSecurityGroup, Knows, RoleInv, HoldsInv, EmptyInv, Creating, Removed
  <2> QED
    BY <2>1, <2>2, <2>3, WorkerMoves
<1> QED
  BY <1>1, <1>2, <1>3, <1>4, <1>5, <1>6

(* The Controller's creation: there was no load balancer, now there is the *)
(* one it made.                                                            *)
LEMMA CreateKeeps ==
    ASSUME TypeOK, LifecycleInv, NEW w \in Workers, CreateLoadbalancer(w)
    PROVE  LifecycleInv'
<1>1. PICK l \in FreshLb :
        /\ lbs' = Put(lbs, l, [status |-> "creating", addr |-> FALSE, groups |-> WantedGroups(w)])
        /\ Answered(w, "list", [mem[w] EXCEPT !.lb = l, !.made = TRUE,
                                              !.groups = WantedGroups(w), !.sg = None])
  BY DEF CreateLoadbalancer
<1>2. Knows(w) /\ mem[w] \in MemType /\ l \in Ids /\ l # None
  BY FreshTyped, IdsAssumption DEF LifecycleInv, Knows, TypeOK, WorkersOK
<1>3. pc[w] = "createLb" /\ DOMAIN lbs = {} /\ job[w].op = "ensure" /\ w = Controller
  BY <1>2 DEF CreateLoadbalancer, Knows, EmptyInv, Creating, RoleInv, Workers
<1>4. DOMAIN lbs' = {l} /\ lbs'[l].status = "creating"
  BY <1>1, <1>3 DEF Put
<1>5. AtMostOneLoadBalancer'
  BY <1>4 DEF AtMostOneLoadBalancer
<1>6. ASSUME NEW x \in Workers \ {w} PROVE Knows(x)'
  <2>1. Knows(x) /\ job[x].op \in {"none", "update"}
    BY <1>3, <1>6 DEF LifecycleInv, Knows, RoleInv, Workers
  <2>2. ~Creating(x) /\ ~Removed(x) /\ ~mem[x].made
    BY <2>1 DEF Knows, RoleInv, EmptyInv, HoldsInv, Removed
  <2>3. pc'[x] = pc[x] /\ mem'[x] = mem[x] /\ job'[x].op = job[x].op
    BY <1>1, <1>6 DEF Answered, Goto, Lost, Rest, TypeOK, WorkersOK
  <2> QED
    BY <2>1, <2>2, <2>3, StandsStill
<1>7. Knows(w)'
  <2>1. CASE Lost(w)
    <3>1. pc'[w] = "idle" /\ mem'[w] = NoMem /\ job'[w] = NoJob
      BY <2>1 DEF Lost, Rest, TypeOK, WorkersOK
    <3> QED
      BY <3>1, Rested
  <2>2. CASE ~Lost(w)
    <3> DEFINE m == [mem[w] EXCEPT !.lb = l, !.made = TRUE, !.groups = WantedGroups(w), !.sg = None]
    <3>1. m.lb = l /\ m.made = TRUE
      BY <1>2 DEF MemType
    <3>2. Goto(w, "list", m)
      BY <1>1, <2>2 DEF Answered
    <3> HIDE DEF m
    <3>3. pc'[w] = "list" /\ mem'[w] = m /\ job'[w] = job[w]
      BY <3>2, GoesTo
    <3> QED
      BY <1>2, <1>3, <1>4, <3>1, <3>3
      DEF Knows, RoleInv, HoldsInv, EmptyInv, Creating, Removed
  <2> QED
    BY <2>1, <2>2
<1> QED
  BY <1>5, <1>6, <1>7 DEF LifecycleInv, Knows

(* The Controller's deletion: nobody holds a load balancer it made.        *)
LEMMA DeleteKeeps ==
    ASSUME TypeOK, LifecycleInv, NEW w \in Workers, DeleteLoadbalancer(w)
    PROVE  LifecycleInv'
<1>1. Knows(w) /\ pc[w] = "unused" /\ job[w].op = "delete" /\ w = Controller
  BY DEF DeleteLoadbalancer, LifecycleInv, Knows, RoleInv, Workers
<1>2. CASE Abort(w) /\ UNCHANGED lbs
  BY <1>2, WorkerRests DEF Abort, KeepsLbs
<1>3. CASE mem[w].lb \in DOMAIN lbs
  <2>1. lbs' = [lbs EXCEPT ![mem[w].lb].status = "deleting"] /\ Answered(w, "wait", mem[w])
    BY <1>3 DEF DeleteLoadbalancer
  <2>2. DOMAIN lbs' = DOMAIN lbs /\ DOMAIN lbs # {}
    BY <1>3, <2>1
  <2>3. ASSUME NEW x \in Workers \ {w} PROVE Knows(x)'
    <3>1. Knows(x) /\ job[x].op \in {"none", "update"}
      BY <1>1, <2>3 DEF LifecycleInv, Knows, RoleInv, Workers
    <3>2. ~Creating(x) /\ ~Removed(x) /\ ~mem[x].made
      BY <3>1 DEF Knows, RoleInv, EmptyInv, HoldsInv, Removed
    <3>3. pc'[x] = pc[x] /\ mem'[x] = mem[x] /\ job'[x].op = job[x].op
      BY <2>1, <2>3 DEF Answered, Goto, Lost, Rest, TypeOK, WorkersOK
    <3> QED
      BY <3>1, <3>2, <3>3, StandsStill
  <2>4. Knows(w)'
    <3>1. CASE Lost(w)
      <4>1. pc'[w] = "idle" /\ mem'[w] = NoMem /\ job'[w] = NoJob
        BY <3>1 DEF Lost, Rest, TypeOK, WorkersOK
      <4> QED
        BY <4>1, Rested
    <3>2. CASE Goto(w, "wait", mem[w])
      <4>1. pc'[w] = "wait" /\ mem'[w] = mem[w] /\ job'[w] = job[w]
        BY <3>2, GoesTo
      <4> QED
        BY <1>1, <4>1 DEF Knows, RoleInv, HoldsInv, EmptyInv, Creating, Removed
    <3> QED
      BY <2>1, <3>1, <3>2 DEF Answered
  <2>5. AtMostOneLoadBalancer'
    BY <2>2 DEF LifecycleInv, AtMostOneLoadBalancer
  <2> QED
    BY <2>3, <2>4, <2>5 DEF LifecycleInv, Knows
<1> QED
  BY <1>2, <1>3 DEF DeleteLoadbalancer

(* The cloud finishing a load balancer, or removing one whose deletion was *)
(* asked for, which is never one that somebody just made.                  *)
LEMMA CloudKeeps ==
    ASSUME TypeOK, LifecycleInv, CloudStep
    PROVE  LifecycleInv'
<1>1. PICK l \in DOMAIN lbs : LoadBalancerReady(l) \/ LoadBalancerRemoved(l)
  BY DEF CloudStep
<1>2. pc' = pc /\ mem' = mem /\ job' = job
  BY <1>1 DEF LoadBalancerReady, LoadBalancerRemoved
<1>3. /\ DOMAIN lbs' \subseteq DOMAIN lbs
      /\ \A k \in DOMAIN lbs : lbs[k].status # "deleting" =>
           k \in DOMAIN lbs' /\ lbs'[k].status # "deleting"
  <2>1. \A k \in DOMAIN lbs : lbs[k] \in LbType
    BY DEF TypeOK, CloudOK, Objects
  <2>2. CASE LoadBalancerReady(l)
    BY <2>1, <2>2 DEF LoadBalancerReady, LbType
  <2>3. CASE LoadBalancerRemoved(l)
    BY <2>1, <2>3 DEF LoadBalancerRemoved, Drop, Restrict
  <2> QED
    BY <1>1, <2>2, <2>3
<1>4. ASSUME NEW x \in Workers PROVE Knows(x)'
  <2>1. Knows(x)
    BY DEF LifecycleInv, Knows
  <2>2. Creating(x) \/ Removed(x) => DOMAIN lbs' = {}
    BY <2>1, <1>3 DEF Knows, EmptyInv
  <2>3. mem[x].made => mem[x].lb \in DOMAIN lbs' /\ lbs'[mem[x].lb].status # "deleting"
    BY <2>1, <1>3 DEF Knows, HoldsInv
  <2> QED
    BY <1>2, <2>1, <2>2, <2>3, StandsStill
<1>5. AtMostOneLoadBalancer'
  BY <1>3 DEF LifecycleInv, AtMostOneLoadBalancer
<1> QED
  BY <1>4, <1>5 DEF LifecycleInv, Knows

(* The outcome recorded, the users, and the faults.                        *)
LEMMA OtherKeeps ==
    ASSUME TypeOK, LifecycleInv,
           \/ RemoveFinalizer \/ Publish \/ UserStep \/ Crash \/ UNCHANGED vars
           \/ \E w \in Workers : CallFails(w)
    PROVE  LifecycleInv'
<1>u. KeepsLbs
  BY DEF RemoveFinalizer, Publish, UserStep, EditService, ChangeType, DeleteService, ChangeNodes,
         UserChanges, Crash, CallFails, vars, cloud, KeepsLbs
<1>1. CASE Publish
  BY <1>1, <1>u, WorkerRests DEF Publish, Return, Lost, Workers
<1>5. CASE RemoveFinalizer
  <2>1. Controller \in Workers /\ pc[Controller] = "release"
    BY <1>5 DEF RemoveFinalizer, Workers
  <2>2. Knows(Controller)
    BY <2>1 DEF LifecycleInv, Knows
  <2>3. CASE Goto(Controller, "publish", mem[Controller])
    <3>1. /\ pc'[Controller] = "publish" /\ mem'[Controller] = mem[Controller]
          /\ job'[Controller] = job[Controller]
      BY <2>1, <2>3, GoesTo
    <3>2. lbs' = lbs
      BY <1>5 DEF RemoveFinalizer, cloud
    <3>3. Knows(Controller)'
      BY <2>1, <2>2, <3>1, <3>2 DEF Knows, RoleInv, HoldsInv, EmptyInv, Creating, Removed
    <3> QED
      BY <1>u, <2>1, <2>3, <3>3, WorkerGoes
  <2>4. CASE Lost(Controller)
    BY <1>u, <2>1, <2>4, WorkerRests DEF Lost
  <2> QED
    BY <1>5, <2>3, <2>4 DEF RemoveFinalizer
<1>2. CASE UserStep \/ UNCHANGED vars
  <2>1. UNCHANGED <<lbs, pc, job, mem>>
    BY <1>2 DEF UserStep, EditService, ChangeType, DeleteService, ChangeNodes, UserChanges,
                vars, cloud
  <2> QED
    BY <2>1 DEF LifecycleInv, AtMostOneLoadBalancer, RoleInv, HoldsInv, EmptyInv, Creating, Removed
<1>3. CASE Crash
  <2>1. \A x \in Workers : pc'[x] = "idle" /\ mem'[x] = NoMem /\ job'[x] = NoJob
    BY <1>3 DEF Crash
  <2>2. \A x \in Workers : Knows(x)'
    BY <2>1, Rested
  <2>3. AtMostOneLoadBalancer'
    BY <1>u DEF LifecycleInv, AtMostOneLoadBalancer, KeepsLbs
  <2> QED
    BY <2>2, <2>3 DEF LifecycleInv, Knows
<1>4. CASE \E w \in Workers : CallFails(w)
  BY <1>4, <1>u, WorkerRests DEF CallFails
<1> QED
  BY <1>1, <1>2, <1>3, <1>4, <1>5

-----------------------------------------------------------------------------
(* The initial state satisfies the invariant: nothing exists.              *)
LEMMA InitLifecycle == Init => LifecycleInv
BY DEF Init, LifecycleInv, AtMostOneLoadBalancer, RoleInv, HoldsInv, EmptyInv, Creating, Removed,
       NoMem, NoJob, Nothing, Workers

(* Every step preserves it.                                                *)
LEMMA NextLifecycle == TypeOK /\ LifecycleInv /\ [Next]_vars => LifecycleInv'
<1> SUFFICES ASSUME TypeOK, LifecycleInv, [Next]_vars PROVE LifecycleInv'
  OBVIOUS
<1> QED
  BY StartKeeps, LookupKeeps, UpdateKeeps, FinishKeeps, CreateKeeps, DeleteKeeps, CloudKeeps,
     OtherKeeps DEF Next, WorkerStep

(* The inductive invariant holds in every reachable state.                 *)
THEOREM Lifecycle == Spec => []LifecycleInv
BY TypeCorrect, InitLifecycle, NextLifecycle, PTL DEF Spec

(* However calls fail, answers are lost or the process crashes, and however *)
(* many updaters run, EnsureLoadBalancer never creates a second load        *)
(* balancer.                                                                *)
THEOREM AtMostOne == Spec => []AtMostOneLoadBalancer
<1>1. LifecycleInv => AtMostOneLoadBalancer
  BY DEF LifecycleInv
<1> QED
  BY <1>1, Lifecycle, PTL

(* EnsureLoadBalancer's poll never fetches nil, which it would dereference. *)
THEOREM PollSafe == Spec => []PollFindsLoadBalancer
<1>1. LifecycleInv => PollFindsLoadBalancer
  BY DEF LifecycleInv, PollFindsLoadBalancer, HoldsInv
<1> QED
  BY <1>1, Lifecycle, PTL

(* The finalizer is removed only when no load balancer is left, however     *)
(* many deletions failed before.                                            *)
THEOREM ReleasedWhenGone == Spec => []ReleasedOnlyWhenGone
<1>1. LifecycleInv => ReleasedOnlyWhenGone
  BY DEF LifecycleInv, ReleasedOnlyWhenGone, EmptyInv, Removed, Workers
<1> QED
  BY <1>1, Lifecycle, PTL
=============================================================================
