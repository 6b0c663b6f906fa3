--------------------------- MODULE ListenerProofs ---------------------------
(***************************************************************************)
(* What a reconcile leaves in the cloud, proved for any number of specs,   *)
(* edits, lost answers, failed calls and crashes, and for any cloud state  *)
(* that earlier reconciles left behind.  Hypotheses are stated where they  *)
(* are needed:                                                             *)
(*   DistinctNumbers  the Service's port numbers are distinct: the code    *)
(*      keys its listener maps by the port number alone (the run           *)
(*      same_port_protocols shows what becomes of 80/tcp with 80/udp);     *)
(*   Serial  the jobs of the service controller and of the resync          *)
(*      processor do not overlap on the Service.  The first theorem does   *)
(*      without it and speaks of jobs nobody overlapped with;              *)
(*   Sole  the service controller's worker is the only one, for what holds *)
(*      whenever it rests: an update under way, or one that failed half-   *)
(*      way, is the resync queue's to finish;                              *)
(*   NoFaults  no call fails, for what a deletion leaves (the run          *)
(*      delete_retry_leak shows what one failure does) and for what is     *)
(*      published (status_after_timeout).                                  *)
(* That a Service at rest is released needs none of them.                  *)
(***************************************************************************)
EXTENDS ContractProofs

DistinctNumbers ==
    \A s \in Specs : \A p, q \in Ports(s) : p.port = q.port => p = q

-----------------------------------------------------------------------------
(* The inductive invariant.                                                *)

(* A job nobody overlapped with still has the Service to itself.           *)
AloneInv ==
    \A w \in Workers : job[w].alone => \A x \in Workers \ {w} : pc[x] = "idle"

(* A listener goes with its load balancer.                                 *)
ListenersOnLbs == \A l \in DOMAIN listeners : listeners[l].lb \in DOMAIN lbs

(* Before the target groups are listed, none has been returned.            *)
Untouched(w) ==
    pc[w] \in {"exists", "fetch", "create", "createLb", "list"} \/ (pc[w] = "group" /\ mem[w].lb = None)
      => mem[w].att = None /\ mem[w].got = {}

StillThere(w) == mem[w].lb \in DOMAIN lbs
Applies(w) == job[w].alone /\ job[w].op \in {"ensure", "update"} /\ StillThere(w)

(* Target group g of the returned ones is in the cloud as port p wants it. *)
Serves(g, p) == g.key = Key(p) /\ g.label = Label(p)

(* The returned target groups are in the cloud, each with the key and the  *)
(* label of one port, and have the job's nodes (the one whose servers are  *)
(* set next does not have them yet).                                       *)
ReturnedGood(w) ==
    \A g \in mem[w].got :
        /\ \E p \in Ports(job[w].spec) : Serves(g, p)
        /\ g.id \in DOMAIN tgs /\ tgs[g.id].key = g.key
        /\ g.id # mem[w].att => tgs[g.id].nodes = job[w].nodes

Returned(w) == {g.id : g \in mem[w].got}

(* createOrUpdateTargetGroups: nothing of the spec is overlooked.          *)
Collecting(w) ==
    /\ ReturnedGood(w)
    /\ mem[w].mk \subseteq Ports(job[w].spec)
    /\ \A t \in mem[w].up : t \in DOMAIN tgs
    /\ \A p \in Ports(job[w].spec) :
         \/ p \in mem[w].mk
         \/ \E t \in mem[w].up : tgs[t].key = Key(p)
         \/ \E g \in mem[w].got : g.key = Key(p)
    /\ \A t \in DOMAIN tgs :
         tgs[t].key \in DesiredKeys(job[w].spec) => t \in mem[w].up \cup Returned(w)

Collected(w) ==
    /\ ReturnedGood(w) /\ mem[w].att = None
    /\ \A p \in Ports(job[w].spec) : \E g \in mem[w].got : g.key = Key(p)
    /\ \A t \in DOMAIN tgs : tgs[t].key \in DesiredKeys(job[w].spec) => t \in Returned(w)

(* Listener l is what port p asks for.                                     *)
Right(l, p) ==
    /\ Label(p) = <<listeners[l].port, listeners[l].proto>>
    /\ listeners[l].tg \in DOMAIN tgs /\ tgs[listeners[l].tg].key = Key(p)

(* updateVpcLoadbalancerListener: a listener is right, or its turn comes;  *)
(* a port has a listener that stays, or gets one.                          *)
Rewiring(w) ==
    /\ mem[w].mk \subseteq Ports(job[w].spec)
    /\ \A l \in DOMAIN listeners :
         \/ l \in mem[w].rm
         \/ l \in mem[w].up /\ listeners[l].port \in DesiredNumbers(job[w].spec)
         \/ \E p \in Ports(job[w].spec) : Right(l, p)
    /\ \A l \in mem[w].rm \cap DOMAIN listeners :
         listeners[l].port \notin DesiredNumbers(job[w].spec)
    /\ \A p \in Ports(job[w].spec) :
         p \in mem[w].mk \/ \E l \in DOMAIN listeners : listeners[l].port = p.port

(* Afterwards every listener is right and every port has one.              *)
Wired(w) ==
    /\ \A l \in DOMAIN listeners : \E p \in Ports(job[w].spec) : Right(l, p)
    /\ \A p \in Ports(job[w].spec) : \E l \in DOMAIN listeners : listeners[l].port = p.port

(* cleanupUnusedTargetGroups: exactly what the spec does not ask for goes. *)
Sweeping(w) ==
    \A t \in DOMAIN tgs :
        tgs[t].key \in DesiredKeys(job[w].spec) <=> ~(pc[w] = "unused" /\ t \in mem[w].rm)

Past == {"unused", "group", "updateLb", "updated", "poll", "publish"}

Stage(w) ==
    /\ pc[w] = "groups" => Collecting(w)
    /\ pc[w] \in Past \cup {"listeners"} => Collected(w)
    /\ pc[w] = "listeners" => Rewiring(w)
    /\ pc[w] \in Past => Wired(w) /\ Sweeping(w)

WorkInv(w) == Untouched(w) /\ (Applies(w) => Stage(w))

ReconcileInv == AloneInv /\ ListenersOnLbs /\ \A w \in Workers : WorkInv(w)

-----------------------------------------------------------------------------
(* The ports of a spec.                                                    *)

(* A port is determined by its key, and by its label.                      *)
LEMMA PortOf ==
    ASSUME NEW s \in Specs \cup {NoSpec}, NEW p \in Ports(s), NEW q \in Ports(s),
           Key(p) = Key(q) \/ Label(p) = Label(q)
    PROVE  p = q
<1>1. PICK i \in DOMAIN s.ports : p = s.ports[i]
  BY DEF Ports, Range
<1>2. PICK k \in DOMAIN s.ports : q = s.ports[k]
  BY DEF Ports, Range
<1>3. ValidSpec(s)
  <2>1. CASE s = NoSpec
    BY <2>1 DEF NoSpec, ValidSpec
  <2> QED
    BY <2>1, SpecsAssumption
<1> QED
  BY <1>1, <1>2, <1>3 DEF ValidSpec

(* What the two Go maps return.                                            *)
LEMMA LookedUp ==
    ASSUME NEW s, NEW k
    PROVE  /\ \A p \in TargetGroupByKey(s, k) : p \in Ports(s) /\ Key(p) = k
           /\ \A p \in ListenerByNumber(s, k) : p \in Ports(s) /\ p.port = k
BY DEF TargetGroupByKey, ListenerByNumber

-----------------------------------------------------------------------------
(* Steps and those who stand by.                                           *)

(* A worker that does not move, and whose load balancer, if it is still    *)
(* there, keeps its listeners.                                             *)
LEMMA WorkStands ==
    ASSUME NEW w \in Workers, WorkInv(w), tgs' = tgs,
           pc'[w] = pc[w], mem'[w] = mem[w], job'[w] = job[w],
           StillThere(w)' => StillThere(w) /\ listeners' = listeners
    PROVE  WorkInv(w)'
<1>1. Untouched(w)'
  BY DEF WorkInv, Untouched
<1>2. ASSUME Applies(w)' PROVE Stage(w)'
  <2>1. Applies(w) /\ listeners' = listeners
    BY <1>2 DEF Applies, StillThere
  <2>2. Stage(w)
    BY <2>1 DEF WorkInv
  <2> QED
    BY <2>1, <2>2 DEF Stage, Collecting, Collected, ReturnedGood, Returned, Rewiring, Wired,
       Sweeping, Right
<1> QED
  BY <1>1, <1>2 DEF WorkInv

(* A worker whose job is over, or is shared with others.                   *)
LEMMA WorkOff ==
    ASSUME NEW w \in Workers, Untouched(w)', ~Applies(w)'
    PROVE  WorkInv(w)'
BY DEF WorkInv

(* A worker that moves: no other one is alone, so it is enough to show     *)
(* what this one has done.                                                 *)
LEMMA WorkMoves ==
    ASSUME TypeOK, ReconcileInv, NEW w \in Workers, pc[w] # "idle",
           \A x \in Workers \ {w} : pc'[x] = pc[x] /\ mem'[x] = mem[x] /\ job'[x] = job[x],
           job'[w].alone => job[w].alone,
           ListenersOnLbs', WorkInv(w)'
    PROVE  ReconcileInv'
<1>1. AloneInv'
  BY DEF ReconcileInv, AloneInv
<1>2. ASSUME NEW x \in Workers \ {w} PROVE WorkInv(x)'
  <2>1. ~Applies(x)'
    BY DEF ReconcileInv, AloneInv, Applies
  <2>2. Untouched(x)'
    BY DEF ReconcileInv, WorkInv, Untouched
  <2> QED
    BY <2>1, <2>2, WorkOff
<1> QED
  BY <1>1, <1>2 DEF ReconcileInv

(* A worker that gives up its job.                                         *)
LEMMA WorkRests ==
    ASSUME TypeOK, ReconcileInv, NEW w \in Workers, pc[w] # "idle", Rest(w), ListenersOnLbs'
    PROVE  ReconcileInv'
<1>1. /\ pc'[w] = "idle" /\ mem'[w] = NoMem /\ job'[w] = NoJob
      /\ \A x \in Workers \ {w} : pc'[x] = pc[x] /\ mem'[x] = mem[x] /\ job'[x] = job[x]
  BY DEF Rest, TypeOK, WorkersOK
<1>2. Untouched(w)' /\ ~Applies(w)'
  BY <1>1 DEF Untouched, Applies, NoMem, NoJob
<1> QED
  BY <1>1, <1>2, WorkOff, WorkMoves DEF NoJob

(* A call, answered, lost or refused.                                      *)
LEMMA CallWorks ==
    ASSUME TypeOK, ReconcileInv, NEW w \in Workers, pc[w] # "idle", NEW label, NEW m,
           Answered(w, label, m) \/ Abort(w), ListenersOnLbs',
           Goto(w, label, m) => WorkInv(w)'
    PROVE  ReconcileInv'
<1>1. CASE Rest(w)
  BY <1>1, WorkRests
<1>2. CASE Goto(w, label, m)
  <2>1. /\ job'[w] = job[w]
        /\ \A x \in Workers \ {w} : pc'[x] = pc[x] /\ mem'[x] = mem[x] /\ job'[x] = job[x]
    BY <1>2 DEF Goto, TypeOK, WorkersOK
  <2> QED
    BY <1>2, <2>1, WorkMoves
<1> QED
  BY <1>1, <1>2 DEF Answered, Lost, Abort

-----------------------------------------------------------------------------
(* The target groups: createOrUpdateTargetGroups.                          *)

(* What the plan drawn from the list covers.                               *)
LEMMA ListTargetGroupsWorks ==
    ASSUME TypeOK, ReconcileInv, NEW w \in Workers, ListTargetGroups(w)
    PROVE  ReconcileInv'
<1>1. /\ pc[w] = "list" /\ mem[w] \in MemType /\ WorkInv(w)
      /\ lbs' = lbs /\ tgs' = tgs /\ listeners' = listeners
  BY DEF ListTargetGroups, cloud, TypeOK, WorkersOK, ReconcileInv
<1>2. PICK m : /\ Goto(w, "groups", m)
               /\ m.mk = {p \in Ports(job[w].spec) : Key(p) \notin {tgs[t].key : t \in DOMAIN tgs}}
               /\ m.up = {t \in DOMAIN tgs : tgs[t].key \in DesiredKeys(job[w].spec)}
               /\ m.got = mem[w].got /\ m.att = mem[w].att /\ m.lb = mem[w].lb
  <2> DEFINE mk == {p \in Ports(job[w].spec) : Key(p) \notin {tgs[t].key : t \in DOMAIN tgs}}
             up == {t \in DOMAIN tgs : tgs[t].key \in DesiredKeys(job[w].spec)}
  <2>1. Goto(w, "groups", [mem[w] EXCEPT !.mk = mk, !.up = up])
    BY DEF ListTargetGroups
  <2> HIDE DEF mk, up
  <2>2. PICK m : m = [mem[w] EXCEPT !.mk = mk, !.up = up]
    OBVIOUS
  <2>3. m.mk = mk /\ m.up = up /\ m.got = mem[w].got /\ m.att = mem[w].att /\ m.lb = mem[w].lb
    BY <1>1, <2>2 DEF MemType
  <2> QED
    BY <2>1, <2>2, <2>3 DEF mk, up
<1>3. pc'[w] = "groups" /\ mem'[w] = m /\ job'[w] = job[w]
  BY <1>2, GoesTo
<1>4. m.got = {} /\ m.att = None
  BY <1>1, <1>2 DEF WorkInv, Untouched
<1>5. Collecting(w)'
  BY <1>1, <1>2, <1>3, <1>4 DEF Collecting, ReturnedGood, Returned, DesiredKeys
<1>6. WorkInv(w)'
  BY <1>3, <1>5 DEF WorkInv, Untouched, Stage, Past
<1>7. ListenersOnLbs'
  BY <1>1 DEF ReconcileInv, ListenersOnLbs
<1>8. pc[w] # "idle" /\ Answered(w, "groups", m)
  BY <1>1, <1>2 DEF Answered
<1> QED
  BY <1>6, <1>7, <1>8, CallWorks

(* A step of createOrUpdateTargetGroups that keeps Collecting.             *)
LEMMA GroupsWork ==
    ASSUME TypeOK, ReconcileInv, NEW w \in Workers, pc[w] = "groups", NEW m,
           Answered(w, "groups", m) \/ Abort(w), m.lb = mem[w].lb,
           UNCHANGED <<lbs, listeners>>,
           Goto(w, "groups", m) /\ Collecting(w) => Collecting(w)'
    PROVE  ReconcileInv'
<1>1. ListenersOnLbs'
  BY DEF ReconcileInv, ListenersOnLbs
<1>2. ASSUME Goto(w, "groups", m) PROVE WorkInv(w)'
  <2>1. pc'[w] = "groups" /\ mem'[w] = m /\ job'[w] = job[w]
    BY <1>2, GoesTo
  <2>2. Applies(w)' => Collecting(w)
    BY <2>1 DEF Applies, StillThere, ReconcileInv, WorkInv, Stage
  <2> QED
    BY <1>2, <2>1, <2>2 DEF WorkInv, Untouched, Stage, Past
<1> QED
  BY <1>1, <1>2, CallWorks

(* A target group is created for a port that had none.                     *)
LEMMA CreateTargetGroupWorks ==
    ASSUME TypeOK, ReconcileInv, NEW w \in Workers, CreateTargetGroup(w)
    PROVE  ReconcileInv'
<1>1. PICK p \in mem[w].mk, t \in FreshTg :
        /\ tgs' = Put(tgs, t, [key |-> Key(p), label |-> Label(p), nodes |-> {}])
        /\ Answered(w, "groups",
             [mem[w] EXCEPT !.mk = @ \ {p}, !.att = t,
                            !.got = @ \cup {[id |-> t, key |-> Key(p), label |-> Label(p)]}])
  BY DEF CreateTargetGroup
<1>2. /\ pc[w] = "groups" /\ mem[w].att = None /\ mem[w] \in MemType
      /\ lbs' = lbs /\ listeners' = listeners
  BY DEF CreateTargetGroup, TypeOK, WorkersOK
<1> DEFINE g == [id |-> t, key |-> Key(p), label |-> Label(p)]
           m == [mem[w] EXCEPT !.mk = @ \ {p}, !.att = t, !.got = @ \cup {g}]
<1>3. /\ m.lb = mem[w].lb /\ m.mk = mem[w].mk \ {p} /\ m.up = mem[w].up /\ m.att = t
      /\ m.got = mem[w].got \cup {g}
      /\ g.id = t /\ g.key = Key(p) /\ g.label = Label(p)
  BY <1>2 DEF MemType
<1>4. Answered(w, "groups", m)
  BY <1>1
<1> HIDE DEF m, g
<1>5. t \notin DOMAIN tgs /\ t \in Ids
  BY FreshTyped DEF FreshTg, FreshIds
<1>6. /\ DOMAIN tgs' = DOMAIN tgs \cup {t} /\ tgs'[t].key = Key(p)
      /\ \A x \in DOMAIN tgs : tgs'[x] = tgs[x]
  BY <1>1, <1>5 DEF Put
<1>7. ASSUME Goto(w, "groups", m), Collecting(w) PROVE Collecting(w)'
  <2>1. mem'[w] = m /\ job'[w] = job[w]
    BY <1>7, GoesTo
  <2>2. p \in Ports(job[w].spec)
    BY <1>7 DEF Collecting
  <2>3. ReturnedGood(w)'
    <3>1. \A x \in mem[w].got : x.id \in Ids
      BY <1>2 DEF MemType
    <3> QED
      BY <1>2, <1>3, <1>5, <1>6, <1>7, <2>1, <2>2, <3>1, IdsAssumption
      DEF Collecting, ReturnedGood, Serves
  <2>4. mem'[w].mk \subseteq Ports(job'[w].spec) /\ \A x \in mem'[w].up : x \in DOMAIN tgs'
    BY <1>3, <1>6, <1>7, <2>1 DEF Collecting
  <2>5. ASSUME NEW q \in Ports(job[w].spec)
        PROVE  \/ q \in mem'[w].mk
               \/ \E x \in mem'[w].up : tgs'[x].key = Key(q)
               \/ \E x \in mem'[w].got : x.key = Key(q)
    <3>1. CASE q = p
      BY <3>1, <1>3, <2>1
    <3>2. CASE q # p
      BY <3>2, <1>3, <1>6, <1>7, <2>1 DEF Collecting
    <3> QED
      BY <3>1, <3>2
  <2>6. ASSUME NEW x \in DOMAIN tgs', tgs'[x].key \in DesiredKeys(job'[w].spec)
        PROVE  x \in mem'[w].up \cup Returned(w)'
    <3>1. CASE x = t
      BY <3>1, <1>3, <2>1 DEF Returned
    <3>2. CASE x # t
      BY <3>2, <1>3, <1>6, <1>7, <2>1, <2>6 DEF Collecting, Returned
    <3> QED
      BY <3>1, <3>2
  <2> QED
    BY <2>1, <2>3, <2>4, <2>5, <2>6 DEF Collecting
<1> QED
  BY <1>2, <1>3, <1>4, <1>7, GroupsWork

(* A target group's labels are set from the port with its key.             *)
LEMMA UpdateTargetGroupWorks ==
    ASSUME TypeOK, ReconcileInv, NEW w \in Workers, UpdateTargetGroup(w)
    PROVE  ReconcileInv'
<1>1. /\ pc[w] = "groups" /\ mem[w].att = None /\ mem[w] \in MemType
      /\ lbs' = lbs /\ listeners' = listeners
  BY DEF UpdateTargetGroup, TypeOK, WorkersOK
<1>2. CASE Abort(w)
  <2>1. mem[w].lb = mem[w].lb /\ ~Goto(w, "groups", mem[w])
    BY <1>1, <1>2 DEF Abort, Rest, Goto, TypeOK, WorkersOK
  <2> QED
    BY <1>1, <1>2, <2>1, GroupsWork
<1>3. CASE ~Abort(w)
  <2>1. PICK t \in mem[w].up : t \in DOMAIN tgs
          /\ \E p \in TargetGroupByKey(job[w].spec, tgs[t].key) :
              /\ tgs' = [tgs EXCEPT ![t].label = Label(p)]
              /\ Answered(w, "groups",
                   [mem[w] EXCEPT !.up = @ \ {t}, !.att = t,
                                  !.got = @ \cup {[id |-> t, key |-> Key(p), label |-> Label(p)]}])
    BY <1>3 DEF UpdateTargetGroup
  <2>2. PICK p \in TargetGroupByKey(job[w].spec, tgs[t].key) :
              /\ tgs' = [tgs EXCEPT ![t].label = Label(p)]
              /\ Answered(w, "groups",
                   [mem[w] EXCEPT !.up = @ \ {t}, !.att = t,
                                  !.got = @ \cup {[id |-> t, key |-> Key(p), label |-> Label(p)]}])
    BY <2>1
  <2> DEFINE g == [id |-> t, key |-> Key(p), label |-> Label(p)]
             m == [mem[w] EXCEPT !.up = @ \ {t}, !.att = t, !.got = @ \cup {g}]
  <2>3. /\ m.lb = mem[w].lb /\ m.mk = mem[w].mk /\ m.up = mem[w].up \ {t} /\ m.att = t
        /\ m.got = mem[w].got \cup {g}
        /\ g.id = t /\ g.key = Key(p) /\ g.label = Label(p)
    BY <1>1 DEF MemType
  <2>4. Answered(w, "groups", m)
    BY <2>2
  <2> HIDE DEF m, g
  <2>5. p \in Ports(job[w].spec) /\ Key(p) = tgs[t].key
    BY <2>2, LookedUp
  <2>6. /\ DOMAIN tgs' = DOMAIN tgs
        /\ \A x \in DOMAIN tgs : tgs'[x].key = tgs[x].key /\ tgs'[x].nodes = tgs[x].nodes
    <3>1. \A x \in DOMAIN tgs : tgs[x] \in TgType
      BY DEF TypeOK, CloudOK, Objects
    <3> QED
      BY <2>2, <3>1 DEF TgType
  <2>7. ASSUME Goto(w, "groups", m), Collecting(w) PROVE Collecting(w)'
    <3>1. mem'[w] = m /\ job'[w] = job[w]
      BY <2>7, GoesTo
    <3>2. ReturnedGood(w)'
      <4>1. \A x \in mem[w].got : x.id \in Ids
        BY <1>1 DEF MemType
      <4> QED
        BY <1>1, <2>1, <2>3, <2>5, <2>6, <2>7, <3>1, <4>1, IdsAssumption
        DEF Collecting, ReturnedGood, Serves
    <3>3. mem'[w].mk \subseteq Ports(job'[w].spec) /\ \A x \in mem'[w].up : x \in DOMAIN tgs'
      BY <2>3, <2>6, <2>7, <3>1 DEF Collecting
    <3>4. ASSUME NEW q \in Ports(job[w].spec)
          PROVE  \/ q \in mem'[w].mk
                 \/ \E x \in mem'[w].up : tgs'[x].key = Key(q)
                 \/ \E x \in mem'[w].got : x.key = Key(q)
      <4>1. CASE Key(q) = Key(p)
        BY <4>1, <2>3, <3>1
      <4>2. CASE Key(q) # Key(p)
        BY <4>2, <2>3, <2>5, <2>6, <2>7, <3>1 DEF Collecting
      <4> QED
        BY <4>1, <4>2
    <3>5. ASSUME NEW x \in DOMAIN tgs', tgs'[x].key \in DesiredKeys(job'[w].spec)
          PROVE  x \in mem'[w].up \cup Returned(w)'
      <4>1. CASE x = t
        BY <4>1, <2>3, <3>1 DEF Returned
      <4>2. CASE x # t
        BY <4>2, <2>3, <2>6, <2>7, <3>1, <3>5 DEF Collecting, Returned
      <4> QED
        BY <4>1, <4>2
    <3> QED
      BY <3>1, <3>2, <3>3, <3>4, <3>5 DEF Collecting
  <2> QED
    BY <1>1, <2>3, <2>4, <2>7, GroupsWork
<1> QED
  BY <1>2, <1>3

(* The servers of the target group created or updated last are replaced.   *)
LEMMA SetAttachmentsWorks ==
    ASSUME TypeOK, ReconcileInv, NEW w \in Workers, SetAttachments(w)
    PROVE  ReconcileInv'
<1>1. /\ pc[w] = "groups" /\ mem[w].att # None /\ mem[w] \in MemType
      /\ lbs' = lbs /\ listeners' = listeners
  BY DEF SetAttachments, TypeOK, WorkersOK
<1>2. PICK m : /\ m.lb = mem[w].lb /\ m.mk = mem[w].mk /\ m.up = mem[w].up /\ m.att = None
               /\ m.got = mem[w].got
               /\ \/ Abort(w)
                  \/ /\ mem[w].att \in DOMAIN tgs
                     /\ tgs' = [tgs EXCEPT ![mem[w].att].nodes = job[w].nodes]
                     /\ Answered(w, "groups", m)
  <2> DEFINE m == [mem[w] EXCEPT !.att = None]
  <2>1. /\ m.lb = mem[w].lb /\ m.mk = mem[w].mk /\ m.up = mem[w].up /\ m.att = None
        /\ m.got = mem[w].got
    BY <1>1 DEF MemType
  <2> QED
    BY <2>1 DEF SetAttachments
<1>3. ASSUME Goto(w, "groups", m), Collecting(w) PROVE Collecting(w)'
  <2>1. pc'[w] = "groups" /\ mem'[w] = m /\ job'[w] = job[w]
    BY <1>3, GoesTo
  <2>2. /\ mem[w].att \in DOMAIN tgs
        /\ tgs' = [tgs EXCEPT ![mem[w].att].nodes = job[w].nodes]
    BY <1>2, <2>1 DEF Abort, Rest, TypeOK, WorkersOK
  <2>3. /\ DOMAIN tgs' = DOMAIN tgs
        /\ \A x \in DOMAIN tgs :
             /\ tgs'[x].key = tgs[x].key
             /\ tgs'[x].nodes = IF x = mem[w].att THEN job[w].nodes ELSE tgs[x].nodes
    <3>1. \A x \in DOMAIN tgs : tgs[x] \in TgType
      BY DEF TypeOK, CloudOK, Objects
    <3> QED
      BY <2>2, <3>1 DEF TgType
  <2>4. ReturnedGood(w)'
    BY <1>2, <1>3, <2>1, <2>3 DEF Collecting, ReturnedGood, Serves
  <2> QED
    BY <1>2, <1>3, <2>1, <2>3, <2>4 DEF Collecting, Returned
<1> QED
  BY <1>1, <1>2, <1>3, GroupsWork

-----------------------------------------------------------------------------
(* The listeners: updateVpcLoadbalancerListener.                           *)

(* Every listener in the cloud is on the load balancer the worker holds.   *)
LEMMA AllMine ==
    ASSUME LifecycleInv, ReconcileInv, NEW w \in Workers, StillThere(w)
    PROVE  \A l \in DOMAIN listeners : listeners[l].lb = mem[w].lb
BY DEF LifecycleInv, AtMostOneLoadBalancer, ReconcileInv, ListenersOnLbs, StillThere

(* What the plan drawn from the list covers.                               *)
LEMMA ListListenersWorks ==
    ASSUME TypeOK, LifecycleInv, ReconcileInv, NEW w \in Workers, ListListeners(w)
    PROVE  ReconcileInv'
<1>1. /\ pc[w] = "groups" /\ mem[w].mk = {} /\ mem[w].up = {} /\ mem[w].att = None
      /\ mem[w] \in MemType /\ WorkInv(w)
      /\ lbs' = lbs /\ tgs' = tgs /\ listeners' = listeners
  BY DEF ListListeners, TargetGroupsDone, cloud, TypeOK, WorkersOK, ReconcileInv
<1> DEFINE mine == {l \in DOMAIN listeners : listeners[l].lb = mem[w].lb}
           kept == {l \in mine : listeners[l].port \in DesiredNumbers(job[w].spec)}
           gone == mine \ kept
           new == {p \in Ports(job[w].spec) : p.port \notin {listeners[l].port : l \in mine}}
           m == [mem[w] EXCEPT !.rm = gone, !.up = kept, !.mk = new]
<1>2. (StillThere(w) /\ Goto(w, "listeners", m)) \/ Abort(w)
  BY DEF ListListeners, StillThere
<1> HIDE DEF gone, kept, new
<1>3. /\ m.rm = gone /\ m.up = kept /\ m.mk = new
      /\ m.got = mem[w].got /\ m.att = mem[w].att /\ m.lb = mem[w].lb
  BY <1>1 DEF MemType
<1> HIDE DEF m
<1>4. ListenersOnLbs'
  BY <1>1 DEF ReconcileInv, ListenersOnLbs
<1>5. ASSUME StillThere(w), Goto(w, "listeners", m) PROVE WorkInv(w)'
  <2>1. pc'[w] = "listeners" /\ mem'[w] = m /\ job'[w] = job[w]
    BY <1>5, GoesTo
  <2>2. ASSUME Applies(w)' PROVE Stage(w)'
    <3>1. Collecting(w)
      BY <1>1, <1>3, <2>1, <2>2 DEF Applies, StillThere, WorkInv, Stage
    <3>2. Collected(w)'
      BY <1>1, <1>3, <2>1, <3>1 DEF Collecting, Collected, ReturnedGood, Returned
    <3>3. mine = DOMAIN listeners
      BY <1>5, AllMine
    <3>4. Rewiring(w)'
      BY <1>1, <1>3, <2>1, <3>3 DEF Rewiring, gone, kept, new
    <3> QED
      BY <2>1, <3>2, <3>4 DEF Stage, Past
  <2> QED
    BY <2>1, <2>2 DEF WorkInv, Untouched
<1>6. Answered(w, "listeners", m) \/ Abort(w)
  BY <1>2 DEF Answered
<1>7. Goto(w, "listeners", m) => WorkInv(w)'
  <2>1. ASSUME Goto(w, "listeners", m) PROVE ~Abort(w)
    BY <2>1 DEF Goto, Abort, Rest, TypeOK, WorkersOK
  <2> QED
    BY <1>2, <1>5, <2>1
<1> QED
  BY <1>1, <1>4, <1>6, <1>7, CallWorks

(* A step of updateVpcLoadbalancerListener that keeps Rewiring.            *)
LEMMA ListenersWork ==
    ASSUME TypeOK, ReconcileInv, NEW w \in Workers, pc[w] = "listeners", NEW m,
           Answered(w, "listeners", m) \/ Abort(w),
           m.lb = mem[w].lb, m.got = mem[w].got, m.att = mem[w].att,
           UNCHANGED <<lbs, tgs>>, ListenersOnLbs',
           Goto(w, "listeners", m) /\ Applies(w) /\ Collected(w) /\ Rewiring(w) => Rewiring(w)'
    PROVE  ReconcileInv'
<1>1. ASSUME Goto(w, "listeners", m) PROVE WorkInv(w)'
  <2>1. pc'[w] = "listeners" /\ mem'[w] = m /\ job'[w] = job[w]
    BY <1>1, GoesTo
  <2>2. ASSUME Applies(w)' PROVE Stage(w)'
    <3>1. Applies(w) /\ Collected(w) /\ Rewiring(w)
      BY <2>1, <2>2 DEF Applies, StillThere, ReconcileInv, WorkInv, Stage, Past
    <3>2. Collected(w)'
      BY <2>1, <3>1 DEF Collected, ReturnedGood, Returned
    <3> QED
      BY <1>1, <2>1, <3>1, <3>2 DEF Stage, Past
  <2> QED
    BY <2>1, <2>2 DEF WorkInv, Untouched
<1> QED
  BY <1>1, CallWorks

(* A listener that no port asks for goes.                                  *)
LEMMA DeleteListenerWorks ==
    ASSUME TypeOK, ReconcileInv, NEW w \in Workers, DeleteListener(w)
    PROVE  ReconcileInv'
<1>1. /\ pc[w] = "listeners" /\ mem[w] \in MemType /\ lbs' = lbs /\ tgs' = tgs
  BY DEF DeleteListener, TypeOK, WorkersOK
<1>2. PICK l \in mem[w].rm :
        \/ /\ l \in DOMAIN listeners /\ listeners' = Drop(listeners, {l})
           /\ Answered(w, "listeners", [mem[w] EXCEPT !.rm = @ \ {l}])
        \/ Abort(w) /\ listeners' = listeners
  BY DEF DeleteListener
<1> DEFINE m == [mem[w] EXCEPT !.rm = @ \ {l}]
<1>3. /\ m.lb = mem[w].lb /\ m.got = mem[w].got /\ m.att = mem[w].att
      /\ m.mk = mem[w].mk /\ m.up = mem[w].up /\ m.rm = mem[w].rm \ {l}
  BY <1>1 DEF MemType
<1>4. Answered(w, "listeners", m) \/ Abort(w)
  BY <1>2
<1>5. ListenersOnLbs'
  BY <1>1, <1>2 DEF ReconcileInv, ListenersOnLbs, Drop, Restrict
<1> HIDE DEF m
<1>6. ASSUME Goto(w, "listeners", m), Rewiring(w) PROVE Rewiring(w)'
  <2>1. pc'[w] = "listeners" /\ mem'[w] = m /\ job'[w] = job[w]
    BY <1>6, GoesTo
  <2>2. l \in DOMAIN listeners /\ listeners' = Drop(listeners, {l})
    BY <1>2, <2>1 DEF Abort, Rest, TypeOK, WorkersOK
  <2>3. /\ DOMAIN listeners' = DOMAIN listeners \ {l}
        /\ \A k \in DOMAIN listeners' : listeners'[k] = listeners[k]
    BY <2>2 DEF Drop, Restrict
  <2>4. listeners[l].port \notin DesiredNumbers(job[w].spec)
    BY <1>6, <2>2 DEF Rewiring
  <2>5. \A p \in Ports(job[w].spec) :
          p \in mem'[w].mk \/ \E k \in DOMAIN listeners' : listeners'[k].port = p.port
    BY <1>3, <1>6, <2>1, <2>3, <2>4 DEF Rewiring, DesiredNumbers
  <2>6. \A k \in DOMAIN listeners' :
         \/ k \in mem'[w].rm
         \/ k \in mem'[w].up /\ listeners'[k].port \in DesiredNumbers(job'[w].spec)
         \/ \E p \in Ports(job'[w].spec) : Right(k, p)'
    BY <1>1, <1>3, <1>6, <2>1, <2>3 DEF Rewiring, Right
  <2> QED
    BY <1>3, <1>6, <2>1, <2>3, <2>5, <2>6 DEF Rewiring
<1> QED
  BY <1>1, <1>3, <1>4, <1>5, <1>6, ListenersWork

(* The target group found by its label is the one with the port's key.     *)
LEMMA FoundByLabel ==
    ASSUME TypeOK, NEW w \in Workers, Collected(w), NEW p \in Ports(job[w].spec)
    PROVE  /\ TargetGroupsFor(p, mem[w].got) # {}
           /\ \A t \in TargetGroupsFor(p, mem[w].got) :
                t.id \in DOMAIN tgs /\ tgs[t.id].key = Key(p)
<1>1. job[w].spec \in Specs \cup {NoSpec}
  BY DEF TypeOK, WorkersOK, JobType
<1>2. PICK g \in mem[w].got : g.key = Key(p)
  BY DEF Collected
<1>3. PICK q \in Ports(job[w].spec) : Serves(g, q)
  BY <1>2 DEF Collected, ReturnedGood
<1>4. q = p
  BY <1>1, <1>2, <1>3, PortOf DEF Serves
<1>5. g \in TargetGroupsFor(p, mem[w].got)
  BY <1>2, <1>3, <1>4 DEF Serves, TargetGroupsFor
<1>6. ASSUME NEW t \in TargetGroupsFor(p, mem[w].got)
      PROVE  t.id \in DOMAIN tgs /\ tgs[t.id].key = Key(p)
  <2>1. t \in mem[w].got /\ t.label = Label(p)
    BY DEF TargetGroupsFor
  <2>2. PICK r \in Ports(job[w].spec) : Serves(t, r)
    BY <2>1 DEF Collected, ReturnedGood
  <2>3. r = p
    BY <1>1, <2>1, <2>2, PortOf DEF Serves
  <2> QED
    BY <2>1, <2>2, <2>3 DEF Serves, Collected, ReturnedGood
<1> QED
  BY <1>5, <1>6

(* A listener that stays is pointed at the target group of its port.       *)
LEMMA UpdateListenerWorks ==
    ASSUME TypeOK, ReconcileInv, NEW w \in Workers, UpdateListener(w)
    PROVE  ReconcileInv'
<1>1. /\ pc[w] = "listeners" /\ mem[w] \in MemType /\ lbs' = lbs /\ tgs' = tgs
      /\ \A k \in DOMAIN listeners : listeners[k] \in ListenerType
  BY DEF UpdateListener, TypeOK, WorkersOK, CloudOK, Objects
<1>2. PICK l \in mem[w].up :
        \/ Abort(w) /\ listeners' = listeners
        \/ /\ l \in DOMAIN listeners
           /\ \E p \in ListenerByNumber(job[w].spec, listeners[l].port) :
                \/ /\ TargetGroupsFor(p, mem[w].got) = {}
                   /\ Goto(w, "listeners", [mem[w] EXCEPT !.up = @ \ {l}])
                   /\ listeners' = listeners
                \/ \E t \in TargetGroupsFor(p, mem[w].got) :
                   /\ listeners' = [listeners EXCEPT ![l].proto = p.proto, ![l].tg = t.id]
                   /\ Answered(w, "listeners", [mem[w] EXCEPT !.up = @ \ {l}])
  BY DEF UpdateListener
<1> DEFINE m == [mem[w] EXCEPT !.up = @ \ {l}]
<1>3. /\ m.lb = mem[w].lb /\ m.got = mem[w].got /\ m.att = mem[w].att
      /\ m.mk = mem[w].mk /\ m.up = mem[w].up \ {l} /\ m.rm = mem[w].rm
  BY <1>1 DEF MemType
<1>4. Answered(w, "listeners", m) \/ Abort(w)
  BY <1>2 DEF Answered
<1>5. ListenersOnLbs'
  <2>1. \/ listeners' = listeners
        \/ \E a, b : listeners' = [listeners EXCEPT ![l].proto = a, ![l].tg = b]
    BY <1>2
  <2> QED
    BY <1>1, <2>1 DEF ReconcileInv, ListenersOnLbs, ListenerType
<1>6. ASSUME Goto(w, "listeners", m), Collected(w), Rewiring(w) PROVE Rewiring(w)'
  <2>1. pc'[w] = "listeners" /\ mem'[w] = m /\ job'[w] = job[w]
    BY <1>6, GoesTo
  <2>2. ~Abort(w)
    BY <1>6, <2>1 DEF Abort, Rest, TypeOK, WorkersOK
  <2>3. PICK p \in ListenerByNumber(job[w].spec, listeners[l].port) :
                /\ l \in DOMAIN listeners
                /\ \/ /\ TargetGroupsFor(p, mem[w].got) = {}
                      /\ Goto(w, "listeners", [mem[w] EXCEPT !.up = @ \ {l}])
                      /\ listeners' = listeners
                   \/ \E t \in TargetGroupsFor(p, mem[w].got) :
                      /\ listeners' = [listeners EXCEPT ![l].proto = p.proto, ![l].tg = t.id]
                      /\ Answered(w, "listeners", [mem[w] EXCEPT !.up = @ \ {l}])
    BY <1>2, <2>2
  <2>4. p \in Ports(job[w].spec) /\ p.port = listeners[l].port
    <3>1. \A n : \A q \in ListenerByNumber(job[w].spec, n) :
            q \in Ports(job[w].spec) /\ q.port = n
      BY LookedUp
    <3> QED
      BY <3>1
  <2>f. /\ TargetGroupsFor(p, mem[w].got) # {}
         /\ \A t \in TargetGroupsFor(p, mem[w].got) :
              t.id \in DOMAIN tgs /\ tgs[t.id].key = Key(p)
    BY <1>6, <2>4, FoundByLabel
  <2>5. PICK t \in TargetGroupsFor(p, mem[w].got) :
               /\ t.id \in DOMAIN tgs /\ tgs[t.id].key = Key(p)
               /\ listeners' = [listeners EXCEPT ![l].proto = p.proto, ![l].tg = t.id]
    BY <2>3, <2>f
  <2> HIDE DEF m
  <2>6. /\ DOMAIN listeners' = DOMAIN listeners
        /\ \A k \in DOMAIN listeners : listeners'[k].port = listeners[k].port
        /\ \A k \in DOMAIN listeners : k # l => listeners'[k] = listeners[k]
        /\ listeners'[l].proto = p.proto /\ listeners'[l].tg = t.id
    <3>1. listeners'[l].proto = p.proto /\ listeners'[l].tg = t.id
          /\ listeners'[l].port = listeners[l].port
      BY <1>1, <2>3, <2>5 DEF ListenerType
    <3>2. \A k \in DOMAIN listeners : k # l => listeners'[k] = listeners[k]
      BY <2>3, <2>5
    <3> QED
      BY <2>3, <2>5, <3>1, <3>2
  <2>7. Right(l, p)'
    <3>1. Label(p) = <<listeners'[l].port, listeners'[l].proto>>
      BY <2>3, <2>4, <2>6 DEF Label
    <3> QED
      BY <1>1, <2>5, <2>6, <3>1 DEF Right
  <2>8. \A k \in DOMAIN listeners' :
         \/ k \in mem'[w].rm
         \/ k \in mem'[w].up /\ listeners'[k].port \in DesiredNumbers(job'[w].spec)
         \/ \E q \in Ports(job'[w].spec) : Right(k, q)'
    <3>1. ASSUME NEW k \in DOMAIN listeners, k # l
          PROVE  \/ k \in mem'[w].rm
                 \/ k \in mem'[w].up /\ listeners'[k].port \in DesiredNumbers(job'[w].spec)
                 \/ \E q \in Ports(job'[w].spec) : Right(k, q)'
      BY <1>1, <1>3, <1>6, <2>1, <2>6, <3>1 DEF Rewiring, Right
    <3> QED
      BY <2>1, <2>4, <2>6, <2>7, <3>1
  <2> QED
    BY <1>3, <1>6, <2>1, <2>6, <2>8 DEF Rewiring
<1> HIDE DEF m
<1> QED
  BY <1>1, <1>3, <1>4, <1>5, <1>6, ListenersWork

(* A port without a listener gets one.                                     *)
LEMMA CreateListenerWorks ==
    ASSUME TypeOK, ReconcileInv, NEW w \in Workers, CreateListener(w)
    PROVE  ReconcileInv'
<1>1. /\ pc[w] = "listeners" /\ mem[w] \in MemType /\ lbs' = lbs /\ tgs' = tgs
      /\ mem[w].rm = {} /\ mem[w].up = {}
  BY DEF CreateListener, TypeOK, WorkersOK
<1>2. PICK p \in mem[w].mk :
        \/ Abort(w) /\ listeners' = listeners
        \/ /\ TargetGroupsFor(p, mem[w].got) = {}
           /\ Goto(w, "listeners", [mem[w] EXCEPT !.mk = @ \ {p}])
           /\ listeners' = listeners
        \/ \E t \in TargetGroupsFor(p, mem[w].got), l \in FreshListener :
             /\ mem[w].lb \in DOMAIN lbs
             /\ listeners' = Put(listeners, l, [lb |-> mem[w].lb, port |-> p.port,
                                                proto |-> p.proto, tg |-> t.id])
             /\ Answered(w, "listeners", [mem[w] EXCEPT !.mk = @ \ {p}])
  BY DEF CreateListener
<1> DEFINE m == [mem[w] EXCEPT !.mk = @ \ {p}]
<1>3. /\ m.lb = mem[w].lb /\ m.got = mem[w].got /\ m.att = mem[w].att
      /\ m.mk = mem[w].mk \ {p} /\ m.up = mem[w].up /\ m.rm = mem[w].rm
  BY <1>1 DEF MemType
<1>4. Answered(w, "listeners", m) \/ Abort(w)
  BY <1>2 DEF Answered
<1>5. ListenersOnLbs'
  <2>1. \/ listeners' = listeners
        \/ \E l, a, b, c : /\ mem[w].lb \in DOMAIN lbs
                           /\ listeners' = Put(listeners, l, [lb |-> mem[w].lb, port |-> a,
                                                              proto |-> b, tg |-> c])
    BY <1>2
  <2>2. ListenersOnLbs
    BY DEF ReconcileInv
  <2>3. ASSUME NEW l, NEW v, v.lb \in DOMAIN lbs, listeners' = Put(listeners, l, v)
        PROVE  ListenersOnLbs'
    BY <1>1, <2>2, <2>3 DEF ListenersOnLbs, Put
  <2> QED
    BY <1>1, <2>1, <2>2, <2>3 DEF ListenersOnLbs
<1>6. ASSUME Goto(w, "listeners", m), Collected(w), Rewiring(w) PROVE Rewiring(w)'
  <2>1. pc'[w] = "listeners" /\ mem'[w] = m /\ job'[w] = job[w]
    BY <1>6, GoesTo
  <2>2. ~Abort(w)
    BY <1>6, <2>1 DEF Abort, Rest, TypeOK, WorkersOK
  <2>3. p \in Ports(job[w].spec)
    BY <1>6 DEF Rewiring
  <2>4. PICK t \in TargetGroupsFor(p, mem[w].got), l \in FreshListener :
             /\ t.id \in DOMAIN tgs /\ tgs[t.id].key = Key(p)
             /\ listeners' = Put(listeners, l, [lb |-> mem[w].lb, port |-> p.port,
                                                proto |-> p.proto, tg |-> t.id])
    BY <1>2, <1>6, <2>2, <2>3, FoundByLabel
  <2> HIDE DEF m
  <2>5. l \notin DOMAIN listeners
    BY DEF FreshListener, FreshIds
  <2>6. /\ DOMAIN listeners' = DOMAIN listeners \cup {l}
        /\ \A k \in DOMAIN listeners : listeners'[k] = listeners[k]
        /\ listeners'[l].port = p.port /\ listeners'[l].proto = p.proto /\ listeners'[l].tg = t.id
    BY <2>4, <2>5 DEF Put
  <2>7. Right(l, p)'
    BY <1>1, <2>4, <2>6 DEF Right, Label
  <2>8. \A k \in DOMAIN listeners : \E q \in Ports(job'[w].spec) : Right(k, q)'
    BY <1>1, <1>6, <2>1, <2>6 DEF Rewiring, Right
  <2>9. \A q \in Ports(job'[w].spec) :
          q \in mem'[w].mk \/ \E k \in DOMAIN listeners' : listeners'[k].port = q.port
    BY <1>3, <1>6, <2>1, <2>6 DEF Rewiring
  <2> QED
    BY <1>1, <1>3, <1>6, <2>1, <2>3, <2>6, <2>7, <2>8, <2>9 DEF Rewiring
<1> HIDE DEF m
<1> QED
  BY <1>1, <1>3, <1>4, <1>5, <1>6, ListenersWork

-----------------------------------------------------------------------------
(* The target groups nobody needs: cleanupUnusedTargetGroups.              *)

(* The list holds exactly the target groups that the spec does not ask     *)
(* for: one that a listener still points at is one the spec asks for.      *)
LEMMA ListUnusedWorks ==
    ASSUME TypeOK, LifecycleInv, ReconcileInv, NEW w \in Workers, ListUnusedTargetGroups(w)
    PROVE  ReconcileInv'
<1>1. /\ mem[w] \in MemType /\ WorkInv(w) /\ RoleInv(w)
      /\ lbs' = lbs /\ tgs' = tgs /\ listeners' = listeners
      /\ ListenersDone(w) \/ pc[w] = "sweep"
  BY DEF ListUnusedTargetGroups, cloud, TypeOK, WorkersOK, ReconcileInv, LifecycleInv
<1>2. PICK m : /\ Goto(w, "unused", m) /\ m.rm = UnusedTargetGroups(w)
               /\ m.got = mem[w].got /\ m.att = mem[w].att /\ m.lb = mem[w].lb
  BY <1>1 DEF ListUnusedTargetGroups, MemType
<1>3. pc'[w] = "unused" /\ mem'[w] = m /\ job'[w] = job[w]
  BY <1>2, GoesTo
<1>4. ListenersOnLbs'
  BY <1>1 DEF ReconcileInv, ListenersOnLbs
<1>5. ASSUME Applies(w)' PROVE Stage(w)'
  <2>1. Applies(w)
    BY <1>1, <1>2, <1>3, <1>5 DEF Applies, StillThere
  <2>2. ListenersDone(w)
    BY <1>1, <2>1 DEF RoleInv, Applies
  <2>3. Collected(w) /\ Rewiring(w)
    BY <1>1, <2>1, <2>2 DEF WorkInv, Stage, ListenersDone
  <2>4. Wired(w)
    BY <2>2, <2>3 DEF Rewiring, Wired, ListenersDone
  <2>5. Wired(w)' /\ Collected(w)'
    BY <1>1, <1>2, <1>3, <2>3, <2>4 DEF Wired, Right, Collected, ReturnedGood, Returned
  <2>6. ASSUME NEW t \in DOMAIN tgs
        PROVE  tgs[t].key \in DesiredKeys(job[w].spec) <=> t \notin UnusedTargetGroups(w)
    <3>1. ASSUME tgs[t].key \in DesiredKeys(job[w].spec) PROVE t \notin UnusedTargetGroups(w)
      BY <2>3, <3>1 DEF Collected, DesiredKeys, UnusedTargetGroups
    <3>2. ASSUME t \notin UnusedTargetGroups(w) PROVE tgs[t].key \in DesiredKeys(job[w].spec)
      <4>1. \/ \E l \in DOMAIN listeners : listeners[l].tg = t
            \/ \E g \in mem[w].got : g.key = tgs[t].key
        BY <3>2 DEF UnusedTargetGroups, Unreferenced
      <4>2. CASE \E l \in DOMAIN listeners : listeners[l].tg = t
        BY <4>2, <2>4 DEF Wired, Right, DesiredKeys
      <4>3. CASE \E g \in mem[w].got : g.key = tgs[t].key
        BY <4>3, <2>3 DEF Collected, ReturnedGood, Serves, DesiredKeys
      <4> QED
        BY <4>1, <4>2, <4>3
    <3> QED
      BY <3>1, <3>2
  <2>7. Sweeping(w)'
    BY <1>1, <1>2, <1>3, <2>6 DEF Sweeping
  <2> QED
    BY <1>3, <2>5, <2>7 DEF Stage, Past
<1>6. WorkInv(w)'
  BY <1>3, <1>5 DEF WorkInv, Untouched
<1>7. pc[w] # "idle" /\ Answered(w, "unused", m)
  BY <1>1, <1>2 DEF Answered, ListenersDone
<1> QED
  BY <1>4, <1>6, <1>7, CallWorks

(* Only what the spec does not ask for is deleted, so no listener of the   *)
(* Service loses its target group.                                         *)
LEMMA DeleteTargetGroupWorks ==
    ASSUME TypeOK, LifecycleInv, ReconcileInv, NEW w \in Workers, DeleteTargetGroup(w)
    PROVE  ReconcileInv'
<1>1. /\ mem[w] \in MemType /\ WorkInv(w) /\ RoleInv(w)
      /\ lbs' = lbs /\ listeners' = listeners /\ pc[w] \in {"unused", "purge"}
  BY DEF DeleteTargetGroup, TypeOK, WorkersOK, ReconcileInv, LifecycleInv
<1>2. PICK t \in mem[w].rm :
        \/ /\ t \in DOMAIN tgs /\ tgs' = Drop(tgs, {t})
           /\ Answered(w, pc[w], [mem[w] EXCEPT !.rm = @ \ {t}])
        \/ Abort(w)
  BY DEF DeleteTargetGroup
<1> DEFINE m == [mem[w] EXCEPT !.rm = @ \ {t}]
<1>3. /\ m.lb = mem[w].lb /\ m.got = mem[w].got /\ m.att = mem[w].att
      /\ m.rm = mem[w].rm \ {t}
  BY <1>1 DEF MemType
<1>4. Answered(w, pc[w], m) \/ Abort(w)
  BY <1>2
<1> HIDE DEF m
<1>5. ListenersOnLbs'
  BY <1>1 DEF ReconcileInv, ListenersOnLbs
<1>6. ASSUME Goto(w, pc[w], m) PROVE WorkInv(w)'
  <2>1. pc'[w] = pc[w] /\ mem'[w] = m /\ job'[w] = job[w]
    BY <1>6, GoesTo
  <2>2. t \in DOMAIN tgs /\ tgs' = Drop(tgs, {t})
    BY <1>1, <1>2, <2>1 DEF Abort, Rest, TypeOK, WorkersOK
  <2>3. DOMAIN tgs' = DOMAIN tgs \ {t} /\ \A x \in DOMAIN tgs' : tgs'[x] = tgs[x]
    BY <2>2 DEF Drop, Restrict
  <2>4. ASSUME Applies(w)' PROVE Stage(w)'
    <3>1. Applies(w) /\ pc[w] = "unused"
      BY <1>1, <1>3, <2>1, <2>4 DEF Applies, StillThere, RoleInv
    <3>2. Collected(w) /\ Wired(w) /\ Sweeping(w)
      BY <1>1, <3>1 DEF WorkInv, Stage, Past
    <3>3. tgs[t].key \notin DesiredKeys(job[w].spec)
      BY <1>2, <2>2, <3>1, <3>2 DEF Sweeping
    <3>4. Sweeping(w)'
      BY <1>3, <2>1, <2>3, <3>1, <3>2 DEF Sweeping
    <3>5. Wired(w)'
      BY <1>1, <2>1, <2>3, <3>2, <3>3 DEF Wired, Right, DesiredKeys
    <3>6. Collected(w)'
      <4>1. \A g \in mem[w].got : g.id \in DOMAIN tgs'
        BY <2>3, <3>2, <3>3 DEF Collected, ReturnedGood, Serves, DesiredKeys
      <4> QED
        BY <1>3, <2>1, <2>3, <3>2, <4>1 DEF Collected, ReturnedGood, Returned
    <3> QED
      BY <2>1, <3>1, <3>4, <3>5, <3>6 DEF Stage, Past
  <2> QED
    BY <1>1, <2>1, <2>4 DEF WorkInv, Untouched
<1>7. pc[w] # "idle"
  BY <1>1
<1> QED
  BY <1>4, <1>5, <1>6, <1>7, CallWorks

-----------------------------------------------------------------------------
(* The other calls of a worker.                                            *)

(* Steps on the way to the load balancer, and the steps of a deletion.     *)
LEMMA OnTheWay ==
    ASSUME TypeOK, ReconcileInv, NEW w \in Workers, pc[w] # "idle", NEW label, NEW m,
           Answered(w, label, m) \/ Abort(w),
           DOMAIN lbs \subseteq DOMAIN lbs', listeners' = listeners,
           \/ /\ Untouched(w) /\ m.att = mem[w].att /\ m.got = mem[w].got
              /\ pc[w] \in {"exists", "fetch", "create", "createLb"} \/ (pc[w] = "group" /\ mem[w].lb = None)
              /\ \/ label \in {"list", "fetch", "create", "createLb"}
                 \/ label = "group" /\ m.lb = None
                 \/ label = "sweep" /\ job[w].op = "delete"
                 \/ label = "release" /\ job[w].op = "delete"
           \/ /\ job[w].op = "delete"
              /\ label \in {"wait", "gone", "purge"},
           None \notin DOMAIN lbs'
    PROVE  ReconcileInv'
<1>1. ListenersOnLbs'
  BY DEF ReconcileInv, ListenersOnLbs
<1>2. ASSUME Goto(w, label, m) PROVE WorkInv(w)'
  <2>1. pc'[w] = label /\ mem'[w] = m /\ job'[w] = job[w]
    BY <1>2, GoesTo
  <2>2. Untouched(w)'
    BY <2>1 DEF Untouched
  <2>3. ASSUME Applies(w)' PROVE Stage(w)'
    BY <2>1, <2>3 DEF Applies, StillThere, Stage, Past
  <2> QED
    BY <2>2, <2>3 DEF WorkInv
<1> QED
  BY <1>1, <1>2, CallWorks

(* The lookups, the creation, and the deletion.                            *)
LEMMA WayWorks ==
    ASSUME TypeOK, LifecycleInv, ReconcileInv, NEW w \in Workers,
           \/ GetLoadBalancer(w) \/ FetchLoadBalancer(w) \/ CreateLoadbalancer(w)
           \/ DeleteLoadbalancer(w) \/ AwaitGone(w) \/ ListRemainingTargetGroups(w)
    PROVE  ReconcileInv'
<1>1. mem[w] \in MemType /\ Untouched(w) /\ RoleInv(w) /\ HoldsInv(w) /\ None \notin DOMAIN lbs
  BY IdsAssumption DEF TypeOK, WorkersOK, CloudOK, Objects, ReconcileInv, WorkInv, LifecycleInv
<1>2. CASE GetLoadBalancer(w)
  <2>1. PICK label \in {"release", "fetch"} : Answered(w, label, mem[w])
    BY <1>2 DEF GetLoadBalancer, Answered
  <2>2. pc[w] = "exists" /\ job[w].op = "delete" /\ lbs' = lbs /\ listeners' = listeners
    BY <1>1, <1>2 DEF GetLoadBalancer, RoleInv, cloud
  <2> QED
    BY <1>1, <2>1, <2>2, OnTheWay
<1>3. CASE FetchLoadBalancer(w)
  <2>1. pc[w] = "fetch" /\ lbs' = lbs /\ listeners' = listeners
    BY <1>3 DEF FetchLoadBalancer, cloud
  <2>2. PICK label, m :
          /\ Answered(w, label, m) \/ Abort(w)
          /\ m.att = mem[w].att /\ m.got = mem[w].got
          /\ \/ label \in {"list", "create"}
             \/ label \in {"sweep", "release"} /\ job[w].op = "delete"
    <3>1. CASE FetchNothing(w)
      BY <3>1 DEF FetchNothing, Answered
    <3>2. CASE ~FetchNothing(w)
      <4>1. PICK l \in DOMAIN lbs, label \in {"list", "sweep"} :
              /\ Goto(w, label, [mem[w] EXCEPT !.lb = l, !.groups = lbs[l].groups, !.addr = lbs[l].addr])
              /\ label = "list" \/ (label = "sweep" /\ job[w].op = "delete")
        BY <1>3, <3>2 DEF FetchLoadBalancer
      <4> DEFINE m == [mem[w] EXCEPT !.lb = l, !.groups = lbs[l].groups, !.addr = lbs[l].addr]
      <4>2. m.att = mem[w].att /\ m.got = mem[w].got
        BY <1>1 DEF MemType
      <4>3. Answered(w, label, m)
        BY <4>1 DEF Answered
      <4> HIDE DEF m
      <4> QED
        BY <4>1, <4>2, <4>3
    <3> QED
      BY <3>1, <3>2
  <2> QED
    BY <1>1, <2>1, <2>2, OnTheWay
<1>4. CASE CreateLoadbalancer(w)
  <2>1. PICK l \in FreshLb :
        /\ lbs' = Put(lbs, l, [status |-> "creating", addr |-> FALSE, groups |-> WantedGroups(w)])
        /\ Answered(w, "list", [mem[w] EXCEPT !.lb = l, !.made = TRUE,
                                              !.groups = WantedGroups(w), !.sg = None])
    BY <1>4 DEF CreateLoadbalancer
  <2> DEFINE m == [mem[w] EXCEPT !.lb = l, !.made = TRUE, !.groups = WantedGroups(w), !.sg = None]
  <2>2. m.att = mem[w].att /\ m.got = mem[w].got
    BY <1>1 DEF MemType
  <2>3. Answered(w, "list", m)
    BY <2>1
  <2> HIDE DEF m
  <2>4. DOMAIN lbs' = DOMAIN lbs \cup {l} /\ None \notin DOMAIN lbs'
    BY <1>1, <2>1, FreshTyped, IdsAssumption DEF Put
  <2>5. pc[w] = "createLb" /\ listeners' = listeners
    BY <1>4 DEF CreateLoadbalancer
  <2> QED
    BY <1>1, <2>2, <2>3, <2>4, <2>5, OnTheWay
<1>5. CASE DeleteLoadbalancer(w)
  <2>1. /\ pc[w] = "unused" /\ job[w].op = "delete" /\ listeners' = listeners
        /\ DOMAIN lbs' = DOMAIN lbs
        /\ Answered(w, "wait", mem[w]) \/ Abort(w)
    BY <1>5 DEF DeleteLoadbalancer
  <2> QED
    BY <1>1, <2>1, OnTheWay
<1>6. CASE AwaitGone(w)
  <2>1. /\ pc[w] = "wait" /\ job[w].op = "delete" /\ listeners' = listeners /\ lbs' = lbs
        /\ Answered(w, "gone", mem[w])
    BY <1>1, <1>6 DEF AwaitGone, Answered, RoleInv, cloud
  <2> QED
    BY <1>1, <2>1, OnTheWay
<1>7. CASE ListRemainingTargetGroups(w)
  <2>1. pc[w] = "gone" /\ job[w].op = "delete" /\ listeners' = listeners /\ lbs' = lbs
    BY <1>1, <1>7 DEF ListRemainingTargetGroups, RoleInv, cloud
  <2>2. PICK m : Answered(w, "purge", m)
    BY <1>7 DEF ListRemainingTargetGroups, Answered
  <2> QED
    BY <1>1, <2>1, <2>2, OnTheWay
<1> QED
  BY <1>2, <1>3, <1>4, <1>5, <1>6, <1>7

(* The calls after the listeners: they touch neither listeners nor target  *)
(* groups.                                                                 *)
LEMMA AfterwardsWorks ==
    ASSUME TypeOK, ReconcileInv, NEW w \in Workers, NEW label, NEW m,
           Answered(w, label, m) \/ Abort(w),
           DOMAIN lbs' = DOMAIN lbs, UNCHANGED <<tgs, listeners>>,
           m.lb = mem[w].lb, m.got = mem[w].got, m.att = mem[w].att,
           pc[w] \in Past, pc[w] = "unused" => mem[w].rm = {},
           label \in Past \ {"unused"}, mem[w].lb # None
    PROVE  ReconcileInv'
<1>1. ListenersOnLbs'
  BY DEF ReconcileInv, ListenersOnLbs
<1>2. ASSUME Goto(w, label, m) PROVE WorkInv(w)'
  <2>1. pc'[w] = label /\ mem'[w] = m /\ job'[w] = job[w]
    BY <1>2, GoesTo
  <2>2. Untouched(w)'
    BY <2>1 DEF Untouched, Past
  <2>3. ASSUME Applies(w)' PROVE Stage(w)'
    <3>1. Collected(w) /\ Wired(w) /\ Sweeping(w)
      BY <2>1, <2>3 DEF Applies, StillThere, ReconcileInv, WorkInv, Stage, Past
    <3>2. Collected(w)' /\ Wired(w)'
      BY <2>1, <3>1 DEF Collected, ReturnedGood, Returned, Wired, Right
    <3>3. Sweeping(w)'
      BY <2>1, <3>1 DEF Sweeping, Past
    <3> QED
      BY <2>1, <3>2, <3>3 DEF Stage, Past
  <2> QED
    BY <2>2, <2>3 DEF WorkInv
<1>3. pc[w] # "idle"
  BY DEF Past
<1> QED
  BY <1>1, <1>2, <1>3, CallWorks

(* The security group calls, the update of the load balancer, and the ends *)
(* of the three operations.                                                *)
LEMMA FinishWorks ==
    ASSUME TypeOK, LifecycleInv, ReconcileInv, NEW w \in Workers,
           \/ ListSecurityGroups(w) \/ EnsureManagedSecurityGroup(w) \/ UpdateLoadbalancer(w)
           \/ ReturnUpdated(w) \/ PollReady(w) \/ DeleteManagedSecurityGroup(w)
    PROVE  ReconcileInv'
<1>1. mem[w] \in MemType /\ Untouched(w) /\ RoleInv(w) /\ HoldsInv(w) /\ None \notin DOMAIN lbs
  BY IdsAssumption DEF TypeOK, WorkersOK, CloudOK, Objects, ReconcileInv, WorkInv, LifecycleInv
<1>s. ASSUME NEW s
      PROVE  \E m : /\ m = [mem[w] EXCEPT !.sg = s]
                    /\ m.lb = mem[w].lb /\ m.got = mem[w].got /\ m.att = mem[w].att
  <2>1. PICK m : m = [mem[w] EXCEPT !.sg = s]
    OBVIOUS
  <2>2. m.lb = mem[w].lb /\ m.got = mem[w].got /\ m.att = mem[w].att
    BY <1>1, <2>1 DEF MemType
  <2> QED
    BY <2>1, <2>2
<1>2. CASE ListSecurityGroups(w)
  <2>1. lbs' = lbs /\ tgs' = tgs /\ listeners' = listeners
    BY <1>2 DEF ListSecurityGroups, cloud
  <2>2. PICK m, label : /\ Answered(w, label, m) \/ Abort(w)
                        /\ m.lb = mem[w].lb /\ m.got = mem[w].got /\ m.att = mem[w].att
                        /\ label \in {"group", AfterGroups(w)}
    <3>1. CASE Abort(w)
      BY <3>1
    <3>2. ASSUME NEW label, Goto(w, label, mem[w]), label \in {"group", AfterGroups(w)}
          PROVE  Answered(w, label, mem[w])
      BY <3>2 DEF Answered
    <3>3. ASSUME NEW s, Goto(w, "group", [mem[w] EXCEPT !.sg = s])
          PROVE  Answered(w, "group", [mem[w] EXCEPT !.sg = s])
      BY <3>3 DEF Answered
    <3> QED
      BY <1>2, <3>1, <3>2, <3>3, <1>s DEF ListSecurityGroups
  <2>3. CASE pc[w] = "create"
    BY <1>1, <2>1, <2>2, <2>3, OnTheWay DEF HoldsInv, AfterGroups
  <2>4. CASE pc[w] # "create"
    <3>1. pc[w] = "unused" /\ mem[w].rm = {} /\ mem[w].lb # None
      BY <1>1, <1>2, <2>4 DEF ListSecurityGroups, HoldsInv
    <3>2. pc[w] \in Past /\ label \in Past \ {"unused"}
      BY <2>2, <3>1 DEF Past, AfterGroups
    <3> QED
      BY <2>1, <2>2, <3>1, <3>2, AfterwardsWorks
  <2> QED
    BY <2>3, <2>4
<1>3. CASE EnsureManagedSecurityGroup(w)
  <2>1. pc[w] = "group" /\ lbs' = lbs /\ tgs' = tgs /\ listeners' = listeners
    BY <1>3 DEF EnsureManagedSecurityGroup
  <2>2. PICK m : /\ Answered(w, AfterGroups(w), m) \/ Abort(w)
                 /\ m.lb = mem[w].lb /\ m.got = mem[w].got /\ m.att = mem[w].att
    BY <1>3, <1>s DEF EnsureManagedSecurityGroup
  <2>3. CASE mem[w].lb = None
    <3>1. AfterGroups(w) = "createLb"
      BY <2>3 DEF AfterGroups
    <3> QED
      BY <1>1, <2>1, <2>2, <2>3, <3>1, OnTheWay
  <2>4. CASE mem[w].lb # None
    <3>1. pc[w] \in Past /\ AfterGroups(w) \in Past \ {"unused"}
      BY <2>1, <2>4 DEF Past, AfterGroups
    <3> QED
      BY <2>1, <2>2, <2>4, <3>1, AfterwardsWorks
  <2> QED
    BY <2>3, <2>4
<1>4. CASE UpdateLoadbalancer(w)
  <2>1. pc[w] = "updateLb" /\ DOMAIN lbs' = DOMAIN lbs /\ tgs' = tgs /\ listeners' = listeners
    BY <1>4 DEF UpdateLoadbalancer
  <2>2. Answered(w, AfterUpdate(w), mem[w]) \/ Abort(w)
    BY <1>4 DEF UpdateLoadbalancer, Answered
  <2>3. pc[w] \in Past /\ AfterUpdate(w) \in Past \ {"unused"} /\ mem[w].lb # None
    BY <1>1, <2>1 DEF Past, AfterUpdate, HoldsInv
  <2> QED
    BY <2>1, <2>2, <2>3, AfterwardsWorks
<1>5. CASE ReturnUpdated(w)
  <2>1. ListenersOnLbs'
    BY <1>5 DEF ReturnUpdated, cloud, ReconcileInv, ListenersOnLbs
  <2> QED
    BY <1>5, <2>1, WorkRests DEF ReturnUpdated, Return
<1>6. CASE PollReady(w)
  <2>1. pc[w] = "poll" /\ lbs' = lbs /\ tgs' = tgs /\ listeners' = listeners
    BY <1>6 DEF PollReady, cloud
  <2>2. PICK m : /\ Answered(w, "publish", m)
                 /\ m.lb = mem[w].lb /\ m.got = mem[w].got /\ m.att = mem[w].att
    BY <1>1, <1>6 DEF PollReady, MemType, Answered
  <2>3. pc[w] \in Past /\ "publish" \in Past \ {"unused"} /\ mem[w].lb # None
    BY <1>1, <2>1 DEF Past, HoldsInv
  <2> QED
    BY <2>1, <2>2, <2>3, AfterwardsWorks
<1>7. CASE DeleteManagedSecurityGroup(w)
  <2>1. /\ pc[w] = "purge" /\ pc'[w] = "release" /\ mem' = mem /\ job' = job
        /\ lbs' = lbs /\ listeners' = listeners
        /\ \A x \in Workers \ {w} : pc'[x] = pc[x]
    BY <1>7 DEF DeleteManagedSecurityGroup, TypeOK, WorkersOK
  <2>2. WorkInv(w)'
    BY <1>1, <2>1 DEF WorkInv, Untouched, Applies, RoleInv
  <2>3. ListenersOnLbs'
    BY <2>1 DEF ReconcileInv, ListenersOnLbs
  <2> QED
    BY <2>1, <2>2, <2>3, WorkMoves
<1> QED
  BY <1>2, <1>3, <1>4, <1>5, <1>6, <1>7

-----------------------------------------------------------------------------
(* The jobs that start, the cloud, the users and the faults.               *)

(* A job that starts ends the solitude of every other.                     *)
LEMMA StartWorks ==
    ASSUME TypeOK, LifecycleInv, ReconcileInv, StartSync \/ \E w \in Updaters : StartResync(w)
    PROVE  ReconcileInv'
<1>1. ASSUME NEW w \in Workers, NEW label \in {"fetch", "exists"}, NEW op, Begin(w, label, op)
      PROVE  ReconcileInv'
  <2>1. /\ pc[w] = "idle" /\ pc'[w] = label /\ mem' = mem /\ mem[w] = NoMem
        /\ lbs' = lbs /\ listeners' = listeners
        /\ \A x \in Workers \ {w} : pc'[x] = pc[x]
    BY <1>1 DEF Begin, cloud, TypeOK, WorkersOK, LifecycleInv, RoleInv
  <2>2. /\ job'[w].alone => \A x \in Workers \ {w} : pc[x] = "idle"
        /\ \A x \in Workers \ {w} : ~job'[x].alone
    <3>1. \A x \in Workers : job[x] \in JobType
      BY DEF TypeOK, WorkersOK
    <3> QED
      BY <1>1, <3>1 DEF Begin, JobType
  <2>3. AloneInv'
    BY <2>1, <2>2 DEF AloneInv
  <2>4. ListenersOnLbs'
    BY <2>1 DEF ReconcileInv, ListenersOnLbs
  <2>5. WorkInv(w)'
    BY <2>1 DEF WorkInv, Untouched, Stage, Past, NoMem
  <2>6. ASSUME NEW x \in Workers \ {w} PROVE WorkInv(x)'
    BY <2>1, <2>2 DEF ReconcileInv, WorkInv, Untouched, Applies
  <2> QED
    BY <2>3, <2>4, <2>5, <2>6 DEF ReconcileInv
<1>2. CASE StartSync
  BY <1>1, <1>2 DEF StartSync, Workers
<1>3. CASE \E w \in Updaters : StartResync(w)
  BY <1>1, <1>3 DEF StartResync, Workers
<1> QED
  BY <1>2, <1>3

(* A load balancer that is removed takes its listeners with it, and there  *)
(* is no other.                                                            *)
LEMMA CloudWorks ==
    ASSUME TypeOK, LifecycleInv, ReconcileInv, CloudStep
    PROVE  ReconcileInv'
<1>1. PICK l \in DOMAIN lbs : LoadBalancerReady(l) \/ LoadBalancerRemoved(l)
  BY DEF CloudStep
<1>2. pc' = pc /\ mem' = mem /\ job' = job /\ tgs' = tgs
  BY <1>1 DEF LoadBalancerReady, LoadBalancerRemoved
<1>3. \/ DOMAIN lbs' = DOMAIN lbs /\ listeners' = listeners
      \/ /\ DOMAIN lbs' = DOMAIN lbs \ {l}
         /\ listeners' = Drop(listeners, {x \in DOMAIN listeners : listeners[x].lb = l})
  BY <1>1 DEF LoadBalancerReady, LoadBalancerRemoved, Drop, Restrict
<1>4. ListenersOnLbs'
  BY <1>3 DEF ReconcileInv, ListenersOnLbs, Drop, Restrict
<1>5. AloneInv'
  BY <1>2 DEF ReconcileInv, AloneInv
<1>6. ASSUME NEW w \in Workers PROVE WorkInv(w)'
  <2>1. StillThere(w)' => StillThere(w) /\ listeners' = listeners
    BY <1>2, <1>3 DEF StillThere, LifecycleInv, AtMostOneLoadBalancer
  <2> QED
    BY <1>2, <2>1, WorkStands DEF ReconcileInv
<1> QED
  BY <1>4, <1>5, <1>6 DEF ReconcileInv

(* Recording the outcome leaves the cloud alone and ends the job, or goes  *)
(* from a finalizer removed to the status.                                 *)
LEMMA Records ==
    ASSUME TypeOK, LifecycleInv, RemoveFinalizer \/ Publish
    PROVE  /\ pc[Controller] \in {"release", "publish"} /\ (dirty => dirty')
           /\ UNCHANGED <<lbs, tgs, listeners, sgs>>
           /\ \A x \in Workers \ {Controller} :
                pc'[x] = pc[x] /\ mem'[x] = mem[x] /\ job'[x] = job[x]
           /\ \/ /\ pc'[Controller] = "idle" /\ mem'[Controller] = NoMem
                 /\ job'[Controller] = NoJob /\ (RemoveFinalizer => dirty')
              \/ /\ pc[Controller] = "release" /\ pc'[Controller] = "publish"
                 /\ mem'[Controller] = mem[Controller] /\ job'[Controller] = job[Controller]
                 /\ job[Controller].op = "delete" /\ dirty' = dirty /\ RemoveFinalizer
<1>c. Controller \in Workers /\ RoleInv(Controller)
  BY DEF Workers, LifecycleInv
<1>1. CASE Publish
  BY <1>c, <1>1 DEF Publish, RemoveFinalizer, Return, Lost, Rest, TypeOK, WorkersOK, cloud
<1>2. CASE RemoveFinalizer
  <2>1. pc[Controller] = "release" /\ job[Controller].op = "delete"
        /\ UNCHANGED <<lbs, tgs, listeners, sgs>>
    BY <1>c, <1>2 DEF RemoveFinalizer, RoleInv, cloud
  <2>2. CASE Lost(Controller)
    BY <1>c, <1>2, <2>1, <2>2 DEF Lost, Rest, TypeOK, WorkersOK
  <2>3. CASE Goto(Controller, "publish", mem[Controller])
    BY <1>c, <1>2, <2>1, <2>3 DEF Goto, TypeOK, WorkersOK
  <2> QED
    BY <1>2, <2>2, <2>3 DEF RemoveFinalizer
<1> QED
  BY <1>1, <1>2

(* The outcome recorded, the users, and the faults.                        *)
LEMMA OtherWorks ==
    ASSUME TypeOK, LifecycleInv, ReconcileInv,
           \/ RemoveFinalizer \/ Publish \/ UserStep \/ Crash \/ UNCHANGED vars
           \/ \E w \in Workers : CallFails(w)
    PROVE  ReconcileInv'
<1>u. lbs' = lbs /\ listeners' = listeners /\ tgs' = tgs
  BY Records DEF UserStep, EditService, ChangeType, DeleteService, ChangeNodes, UserChanges,
         Crash, CallFails, vars, cloud
<1>l. ListenersOnLbs'
  BY <1>u DEF ReconcileInv, ListenersOnLbs
<1>1. CASE RemoveFinalizer \/ Publish
  <2>1. Controller \in Workers /\ pc[Controller] # "idle"
    BY <1>1, Records DEF Workers
  <2>2. WorkInv(Controller)'
    BY <1>1, <2>1, Records DEF WorkInv, Untouched, Applies, NoJob
  <2>3. job'[Controller].alone => job[Controller].alone
    BY <1>1, Records DEF NoJob
  <2> QED
    BY <1>1, <1>l, <2>1, <2>2, <2>3, Records, WorkMoves
<1>2. CASE UserStep \/ UNCHANGED vars
  <2>1. UNCHANGED <<pc, job, mem>>
    BY <1>2 DEF UserStep, EditService, ChangeType, DeleteService, ChangeNodes, UserChanges, vars
  <2>2. \A w \in Workers : WorkInv(w)'
    BY <1>u, <2>1, WorkStands DEF ReconcileInv, StillThere
  <2> QED
    BY <1>l, <2>1, <2>2 DEF ReconcileInv, AloneInv
<1>3. CASE Crash
  <2>1. \A x \in Workers : pc'[x] = "idle" /\ mem'[x] = NoMem /\ job'[x] = NoJob
    BY <1>3 DEF Crash
  <2>2. \A x \in Workers : WorkInv(x)'
    BY <2>1 DEF WorkInv, Untouched, Applies, NoJob
  <2> QED
    BY <1>l, <2>1, <2>2 DEF ReconcileInv, AloneInv
<1>4. CASE \E w \in Workers : CallFails(w)
  BY <1>4, <1>l, WorkRests DEF CallFails, CallPending
<1> QED
  BY <1>1, <1>2, <1>3, <1>4

-----------------------------------------------------------------------------
(* Nothing exists and nobody works.                                        *)
LEMMA InitWork == Init => ReconcileInv
BY DEF Init, ReconcileInv, AloneInv, ListenersOnLbs, WorkInv, Untouched, Applies, NoJob, Nothing

(* Every step preserves the invariant.                                     *)
LEMMA NextWork == TypeOK /\ LifecycleInv /\ ReconcileInv /\ [Next]_vars => ReconcileInv'
<1> SUFFICES ASSUME TypeOK, LifecycleInv, ReconcileInv, [Next]_vars PROVE ReconcileInv'
  OBVIOUS
<1> QED
  BY StartWorks, WayWorks, ListTargetGroupsWorks, CreateTargetGroupWorks, UpdateTargetGroupWorks,
     SetAttachmentsWorks, ListListenersWorks, DeleteListenerWorks, UpdateListenerWorks,
     CreateListenerWorks, ListUnusedWorks, DeleteTargetGroupWorks, FinishWorks, CloudWorks,
     OtherWorks DEF Next, WorkerStep

(* The inductive invariant holds in every reachable state.                 *)
LEMMA ReconcileInvariant == Spec => []ReconcileInv
BY TypeCorrect, Lifecycle, InitWork, NextWork, PTL DEF Spec

(* Distinct port numbers turn the invariant into what the property says.   *)
LEMMA StageRealises ==
    ASSUME TypeOK, LifecycleInv, ReconcileInv, DistinctNumbers, NEW w \in Workers,
           Reconciled(w), job[w].alone
    PROVE  Realises(mem[w].lb, job[w].spec, job[w].nodes)
<1> DEFINE s == job[w].spec
<1>1. s \in Specs \cup {NoSpec}
  BY DEF TypeOK, WorkersOK, JobType
<1>2. \A p, q \in Ports(s) : p.port = q.port => p = q
  <2>1. CASE s = NoSpec
    BY <2>1 DEF NoSpec, Ports, Range
  <2> QED
    BY <1>1, <2>1 DEF DistinctNumbers
<1>3. Applies(w) /\ pc[w] \in Past /\ (pc[w] = "unused" => mem[w].rm = {})
  BY DEF Reconciled, Lives, Applies, StillThere, Past
<1>4. Collected(w) /\ Wired(w) /\ Sweeping(w)
  BY <1>3 DEF ReconcileInv, WorkInv, Stage
<1>5. {<<listeners[l].port, listeners[l].proto>> : l \in DOMAIN listeners}
         = {Label(p) : p \in Ports(s)}
  <2>1. ASSUME NEW l \in DOMAIN listeners
        PROVE  \E p \in Ports(s) : <<listeners[l].port, listeners[l].proto>> = Label(p)
    BY <1>4 DEF Wired, Right
  <2>2. ASSUME NEW p \in Ports(s)
        PROVE  \E l \in DOMAIN listeners : <<listeners[l].port, listeners[l].proto>> = Label(p)
    <3>1. PICK l \in DOMAIN listeners : listeners[l].port = p.port
      BY <1>4 DEF Wired
    <3>2. PICK q \in Ports(s) : Label(q) = <<listeners[l].port, listeners[l].proto>>
      BY <1>4 DEF Wired, Right
    <3>3. q = p
      BY <1>2, <3>1, <3>2 DEF Label
    <3> QED
      BY <3>2, <3>3
  <2> QED
    BY <2>1, <2>2
<1>6. ASSUME NEW l \in DOMAIN listeners, NEW p \in Ports(s),
             Label(p) = <<listeners[l].port, listeners[l].proto>>
      PROVE  /\ listeners[l].lb = mem[w].lb
             /\ listeners[l].tg \in DOMAIN tgs /\ tgs[listeners[l].tg].key = Key(p)
  <2>1. PICK q \in Ports(s) : Right(l, q)
    BY <1>4 DEF Wired
  <2>2. q = p
    BY <1>1, <1>6, <2>1, PortOf DEF Right
  <2> QED
    BY <1>3, <2>1, <2>2, AllMine DEF Right, Applies
<1>7. ASSUME NEW t \in DOMAIN tgs
      PROVE  tgs[t].key \in DesiredKeys(s) /\ tgs[t].nodes = job[w].nodes
  <2>1. tgs[t].key \in DesiredKeys(s)
    BY <1>3, <1>4 DEF Sweeping
  <2>2. PICK g \in mem[w].got : g.id = t
    BY <1>4, <2>1 DEF Collected, Returned
  <2>3. t # None
    BY IdsAssumption DEF TypeOK, CloudOK, Objects
  <2> QED
    BY <1>4, <2>1, <2>2, <2>3 DEF Collected, ReturnedGood
<1> QED
  BY <1>5, <1>6, <1>7 DEF Realises

(* A reconcile (EnsureLoadBalancer or UpdateLoadBalancer) that no other    *)
(* one overlapped with and that reached its end without an error has made  *)
(* listeners and target groups exactly what the Service and the nodes it   *)
(* was handed ask for, whatever earlier failures, lost answers, crashes,   *)
(* edits and overlapping reconciles had left in the cloud.                 *)
THEOREM EstablishesSpec ==
    ASSUME DistinctNumbers
    PROVE  Spec => []ReconcileEstablishesSpec
<1>1. TypeOK /\ LifecycleInv /\ ReconcileInv => ReconcileEstablishesSpec
  BY StageRealises DEF ReconcileEstablishesSpec
<1> QED
  BY <1>1, TypeCorrect, Lifecycle, ReconcileInvariant, PTL

-----------------------------------------------------------------------------
(* Jobs that do not overlap.                                               *)

(* The service controller's worker and the resync processor take turns on  *)
(* the Service: at most one of them has a job at a time.                   *)
Serial == \A v, w \in Workers : v = w \/ pc[v] = "idle" \/ pc[w] = "idle"

(* The Controller without the resync processor.                            *)
Sole == Updaters = {}

(* Nobody but c has a job, before and after the step.                      *)
Turn(c) == \A x \in Workers \ {c} : pc[x] = "idle" /\ pc'[x] = "idle"

(* What may happen while c has its turn.                                   *)
Moves(c) ==
    \/ WorkerStep(c) \/ CallFails(c)
    \/ c = Controller /\ (StartSync \/ RemoveFinalizer \/ Publish)
    \/ c \in Updaters /\ StartResync(c)
    \/ CloudStep \/ UserStep \/ Crash \/ UNCHANGED vars

(* One worker is never in its own way.                                     *)
LEMMA SoleSerial ==
    ASSUME Sole
    PROVE  Spec => []Serial
<1>1. Serial
  BY DEF Serial, Sole, Workers
<1> QED
  BY <1>1, PTL

(* The other workers do not move in a worker's step.                       *)
LEMMA OthersStand ==
    ASSUME TypeOK, NEW w \in Workers, WorkerStep(w) \/ CallFails(w)
    PROVE  pc[w] # "idle" /\ \A x \in Workers \ {w} : pc'[x] = pc[x]
<1>1. CASE CreateLoadbalancer(w)
  <2>1. pc[w] = "createLb" /\ UNCHANGED kube
    BY <1>1 DEF CreateLoadbalancer
  <2>2. Rest(w) \/ \E label, m : Goto(w, label, m)
    BY <1>1 DEF CreateLoadbalancer, Answered, Lost
  <2> QED
    BY <2>1, <2>2, EndsWork DEF Works
<1>2. CASE DeleteLoadbalancer(w)
  BY <1>2, DeleteWorks DEF Works
<1>3. CASE Quiet(w)
  BY <1>3, QuietWorks DEF Works
<1> QED
  BY <1>1, <1>2, <1>3 DEF WorkerStep, Quiet

(* Every step is made in somebody's turn.                                  *)
LEMMA TakesTurns ==
    ASSUME TypeOK, LifecycleInv, Serial, Serial', [Next]_vars
    PROVE  \E c \in Workers : Moves(c) /\ Turn(c)
<1>c. Controller \in Workers /\ Updaters \subseteq Workers
  BY DEF Workers
<1>1. ASSUME NEW w \in Workers, WorkerStep(w) \/ CallFails(w)
      PROVE  Moves(w) /\ Turn(w)
  BY <1>1, OthersStand DEF Moves, Turn, Serial
<1>2. ASSUME NEW w \in Workers, NEW label, NEW op, Begin(w, label, op), label # "idle"
      PROVE  Turn(w)
  <2>1. pc'[w] = label /\ \A x \in Workers \ {w} : pc'[x] = pc[x]
    BY <1>2 DEF Begin, TypeOK, WorkersOK
  <2> QED
    BY <1>2, <2>1 DEF Turn, Serial
<1>3. CASE StartSync
  <2>1. PICK label \in {"fetch", "exists"} : \E op : Begin(Controller, label, op)
    BY <1>3 DEF StartSync
  <2> QED
    BY <1>c, <1>2, <1>3, <2>1 DEF Moves
<1>4. CASE RemoveFinalizer \/ Publish
  <2>1. pc[Controller] # "idle" /\ \A x \in Workers \ {Controller} : pc'[x] = pc[x]
    BY <1>4, Records
  <2> QED
    BY <1>c, <1>4, <2>1 DEF Moves, Turn, Serial
<1>5. ASSUME NEW w \in Updaters, StartResync(w) PROVE Moves(w) /\ Turn(w)
  BY <1>c, <1>2, <1>5 DEF StartResync, Moves
<1>6. PICK c \in Workers : \A x \in Workers \ {c} : pc[x] = "idle"
  BY <1>c DEF Serial
<1>7. CASE CloudStep \/ UserStep \/ UNCHANGED vars
  <2>1. pc' = pc
    BY <1>7 DEF CloudStep, LoadBalancerReady, LoadBalancerRemoved, UserStep, EditService,
       ChangeType, DeleteService, ChangeNodes, UserChanges, vars
  <2> QED
    BY <1>6, <1>7, <2>1 DEF Moves, Turn
<1>8. CASE Crash
  <2>1. \A x \in Workers : pc'[x] = "idle"
    BY <1>8 DEF Crash
  <2> QED
    BY <1>6, <1>8, <2>1 DEF Moves, Turn
<1> QED
  BY <1>c, <1>1, <1>3, <1>4, <1>5, <1>7, <1>8 DEF Next

(* A job in its turn is alone, and what it is about to delete is           *)
(* referenced by no listener, however old the list it works from.          *)
NoDanglingJob(w) ==
    pc[w] # "idle" =>
        /\ job[w].alone
        /\ pc[w] \in {"unused", "purge"} =>
             \A l \in DOMAIN listeners : listeners[l].tg \notin mem[w].rm

NoDanglingInv == NoDanglingListener /\ \A w \in Workers : NoDanglingJob(w)

(* It is enough to look at the worker whose turn it is.                    *)
LEMMA NoDanglingTurn ==
    ASSUME NEW c \in Workers, Turn(c), NoDanglingListener', NoDanglingJob(c)'
    PROVE  NoDanglingInv'
BY DEF NoDanglingInv, NoDanglingJob, Turn

(* Where a call can take the worker.                                       *)
LEMMA Lands ==
    ASSUME TypeOK, NEW w \in Workers, NEW label, NEW m,
           Answered(w, label, m) \/ Goto(w, label, m) \/ Abort(w) \/ Return(w)
    PROVE  /\ \/ pc'[w] = label /\ mem'[w] = m /\ job'[w] = job[w]
              \/ pc'[w] = "idle" /\ mem'[w] = NoMem /\ job'[w] = NoJob
BY DEF Answered, Goto, Lost, Abort, Return, Rest, TypeOK, WorkersOK

(* A step that leaves listeners alone, takes no target group away, and     *)
(* leads neither into updateVpcLoadbalancerListener nor into the deletion  *)
(* of target groups.                                                       *)
Harmless(c) ==
    /\ DOMAIN tgs \subseteq DOMAIN tgs' /\ listeners' = listeners
    /\ \/ UNCHANGED <<pc, mem, job>>
       \/ pc'[c] = "idle"
       \/ pc'[c] \notin {"listeners", "unused", "purge"} /\ job'[c].alone

(* Such a step disturbs nothing.                                           *)
LEMMA HarmlessStep ==
    ASSUME NoDanglingInv, NEW c \in Workers, Turn(c), Harmless(c)
    PROVE  NoDanglingInv'
<1>1. NoDanglingListener'
  BY DEF NoDanglingInv, NoDanglingListener, Harmless
<1>2. NoDanglingJob(c)'
  BY DEF NoDanglingInv, NoDanglingJob, Harmless
<1> QED
  BY <1>1, <1>2, NoDanglingTurn

(* A call that leads elsewhere, answered, lost or refused.                 *)
LEMMA HarmlessCall ==
    ASSUME TypeOK, NoDanglingInv, NEW c \in Workers,
           DOMAIN tgs \subseteq DOMAIN tgs', listeners' = listeners,
           pc[c] # "idle", NEW label, NEW m, label \notin {"listeners", "unused", "purge"},
           Answered(c, label, m) \/ Goto(c, label, m) \/ Abort(c) \/ Return(c)
    PROVE  Harmless(c)
BY Lands DEF NoDanglingInv, NoDanglingJob, Harmless

(* The steps that neither touch listeners nor delete target groups.        *)
LEMMA HarmlessSteps ==
    ASSUME TypeOK, LifecycleInv, NoDanglingInv, NEW c \in Workers, Turn(c),
           \/ c = Controller /\ (StartSync \/ RemoveFinalizer \/ Publish)
           \/ c \in Updaters /\ StartResync(c)
           \/ UserStep \/ Crash \/ UNCHANGED vars \/ CallFails(c)
           \/ GetLoadBalancer(c) \/ FetchLoadBalancer(c)
           \/ ListTargetGroups(c) \/ CreateTargetGroup(c)
           \/ UpdateTargetGroup(c) \/ SetAttachments(c)
           \/ ListSecurityGroups(c) \/ EnsureManagedSecurityGroup(c)
           \/ CreateLoadbalancer(c) \/ UpdateLoadbalancer(c)
           \/ ReturnUpdated(c) \/ PollReady(c)
           \/ DeleteLoadbalancer(c) \/ AwaitGone(c)
           \/ DeleteManagedSecurityGroup(c)
    PROVE  Harmless(c)
<1>1. CASE \/ c = Controller /\ StartSync
           \/ c \in Updaters /\ StartResync(c)
  <2>1. PICK label \in {"fetch", "exists"}, op \in {"ensure", "update", "delete"} :
          Begin(c, label, op)
    BY <1>1 DEF StartSync, StartResync
  <2>2. \A y \in Workers \ {c} : pc[y] = "idle"
    BY DEF Turn
  <2>3. pc'[c] = label /\ job'[c].alone /\ tgs' = tgs /\ listeners' = listeners
    BY <2>1, <2>2 DEF Begin, cloud, TypeOK, WorkersOK
  <2> QED
    BY <2>3 DEF Harmless
<1>2. CASE c = Controller /\ (RemoveFinalizer \/ Publish)
  <2>1. UNCHANGED <<tgs, listeners>>
        /\ (pc'[c] = "idle" \/ (pc[c] # "idle" /\ pc'[c] = "publish" /\ job'[c] = job[c]))
    BY <1>2, Records
  <2> QED
    BY <2>1 DEF NoDanglingInv, NoDanglingJob, Harmless
<1>3. CASE UserStep \/ UNCHANGED vars
  <2>1. UNCHANGED <<pc, job, mem, tgs, listeners>>
    BY <1>3 DEF UserStep, EditService, ChangeType, DeleteService, ChangeNodes, UserChanges, vars,
       cloud
  <2> QED
    BY <2>1 DEF NoDanglingInv, NoDanglingJob, Harmless
<1>4. CASE Crash \/ CallFails(c)
  <2>1. pc'[c] = "idle" /\ UNCHANGED <<tgs, listeners>>
    BY <1>4 DEF Crash, CallFails, Rest, cloud, TypeOK, WorkersOK
  <2> QED
    BY <2>1 DEF Harmless
<1>5. CASE GetLoadBalancer(c) \/ FetchLoadBalancer(c)
  <2>1. pc[c] # "idle" /\ UNCHANGED <<tgs, listeners>>
    BY <1>5 DEF GetLoadBalancer, FetchLoadBalancer, cloud
  <2>2. CASE Abort(c)
    BY <2>1, <2>2, HarmlessCall
  <2>3. CASE ~Abort(c)
    <3>1. PICK label \in {"release", "fetch", "create", "sweep", "list"} : \E m : Goto(c, label, m)
      <4>1. CASE GetLoadBalancer(c)
        BY <4>1 DEF GetLoadBalancer
      <4>2. CASE FetchLoadBalancer(c) /\ FetchNothing(c)
        BY <2>3, <4>2 DEF FetchNothing
      <4>3. CASE FetchLoadBalancer(c) /\ ~FetchNothing(c)
        BY <4>3 DEF FetchLoadBalancer
      <4> QED
        BY <1>5, <4>1, <4>2, <4>3
    <3> QED
      BY <2>1, <3>1, HarmlessCall
  <2> QED
    BY <2>2, <2>3
<1>6. CASE \/ ListTargetGroups(c) \/ CreateTargetGroup(c) \/ UpdateTargetGroup(c)
           \/ SetAttachments(c)
  <2>1. pc[c] # "idle" /\ listeners' = listeners
    BY <1>6 DEF ListTargetGroups, CreateTargetGroup, UpdateTargetGroup, SetAttachments, cloud
  <2>2. DOMAIN tgs \subseteq DOMAIN tgs'
    BY <1>6 DEF ListTargetGroups, CreateTargetGroup, UpdateTargetGroup, SetAttachments, Put, cloud
  <2>3. PICK m : Answered(c, "groups", m) \/ Goto(c, "groups", m) \/ Abort(c)
    BY <1>6 DEF ListTargetGroups, CreateTargetGroup, UpdateTargetGroup, SetAttachments
  <2> QED
    BY <2>1, <2>2, <2>3, HarmlessCall
<1>7. CASE ListSecurityGroups(c) \/ EnsureManagedSecurityGroup(c)
  <2>1. pc[c] # "idle" /\ UNCHANGED <<tgs, listeners>>
    BY <1>7 DEF ListSecurityGroups, EnsureManagedSecurityGroup, cloud
  <2>2. AfterGroups(c) \notin {"listeners", "unused", "purge"}
    BY DEF AfterGroups
  <2>3. CASE ListSecurityGroups(c)
    <3>1. \/ Abort(c) \/ Goto(c, AfterGroups(c), mem[c])
          \/ \E m : Goto(c, "group", m)
      BY <2>3 DEF ListSecurityGroups
    <3> QED
      BY <2>1, <2>2, <3>1, HarmlessCall
  <2>4. CASE EnsureManagedSecurityGroup(c)
    <3>1. \/ Abort(c) \/ Answered(c, AfterGroups(c), mem[c])
          \/ \E m : Answered(c, AfterGroups(c), m)
      BY <2>4 DEF EnsureManagedSecurityGroup
    <3> QED
      BY <2>1, <2>2, <3>1, HarmlessCall
  <2> QED
    BY <1>7, <2>3, <2>4
<1>8. CASE CreateLoadbalancer(c) \/ UpdateLoadbalancer(c)
  <2>1. pc[c] # "idle" /\ UNCHANGED <<tgs, listeners>>
    BY <1>8 DEF CreateLoadbalancer, UpdateLoadbalancer
  <2>2. CASE CreateLoadbalancer(c)
    <3>1. PICK m : Answered(c, "list", m)
      BY <2>2 DEF CreateLoadbalancer
    <3> QED
      BY <2>1, <3>1, HarmlessCall
  <2>3. CASE UpdateLoadbalancer(c)
    <3>1. Abort(c) \/ Answered(c, AfterUpdate(c), mem[c]) \/ Goto(c, AfterUpdate(c), mem[c])
      BY <2>3 DEF UpdateLoadbalancer
    <3>2. AfterUpdate(c) \notin {"listeners", "unused", "purge"}
      BY DEF AfterUpdate
    <3> QED
      BY <2>1, <3>1, <3>2, HarmlessCall
  <2> QED
    BY <1>8, <2>2, <2>3
<1>9. CASE ReturnUpdated(c) \/ PollReady(c) \/ DeleteLoadbalancer(c) \/ AwaitGone(c)
  <2>1. pc[c] # "idle" /\ UNCHANGED <<tgs, listeners>>
    BY <1>9 DEF ReturnUpdated, PollReady, DeleteLoadbalancer, AwaitGone, cloud
  <2>2. CASE ReturnUpdated(c)
    BY <2>1, <2>2, HarmlessCall DEF ReturnUpdated
  <2>3. CASE PollReady(c)
    <3>1. PICK m : Goto(c, "publish", m)
      BY <2>3 DEF PollReady
    <3> QED
      BY <2>1, <3>1, HarmlessCall
  <2>4. CASE DeleteLoadbalancer(c)
    BY <2>1, <2>4, HarmlessCall DEF DeleteLoadbalancer
  <2>5. CASE AwaitGone(c)
    BY <2>1, <2>5, HarmlessCall DEF AwaitGone
  <2> QED
    BY <1>9, <2>2, <2>3, <2>4, <2>5
<1>10. CASE DeleteManagedSecurityGroup(c)
  <2>1. pc[c] # "idle" /\ pc'[c] = "release" /\ job' = job /\ UNCHANGED <<tgs, listeners>>
    BY <1>10 DEF DeleteManagedSecurityGroup, TypeOK, WorkersOK
  <2> QED
    BY <2>1 DEF NoDanglingInv, NoDanglingJob, Harmless
<1> QED
  BY <1>1, <1>2, <1>3, <1>4, <1>5, <1>6, <1>7, <1>8, <1>9, <1>10

(* The calls on target groups: what is deleted is what was listed.         *)
LEMMA TargetGroupCalls ==
    ASSUME TypeOK, NoDanglingInv, NEW c \in Workers, Turn(c),
           \/ DeleteTargetGroup(c)
           \/ ListUnusedTargetGroups(c) \/ ListRemainingTargetGroups(c)
    PROVE  NoDanglingInv'
<1>c. mem[c] \in MemType
  BY DEF TypeOK, WorkersOK
<1>1. CASE ListUnusedTargetGroups(c) \/ ListRemainingTargetGroups(c)
  <2>1. PICK label, m : Goto(c, label, m) /\ m.rm \subseteq Unreferenced
    BY <1>1, <1>c DEF ListUnusedTargetGroups, ListRemainingTargetGroups, UnusedTargetGroups, MemType
  <2>2. mem'[c] = m /\ job'[c] = job[c] /\ UNCHANGED <<tgs, listeners>> /\ pc[c] # "idle"
    BY <1>1, <1>c, <2>1, GoesTo
    DEF ListUnusedTargetGroups, ListRemainingTargetGroups, ListenersDone, cloud
  <2> QED
    BY <2>1, <2>2, NoDanglingTurn
    DEF NoDanglingInv, NoDanglingListener, NoDanglingJob, Unreferenced
<1>2. CASE DeleteTargetGroup(c)
  <2>1. pc[c] \in {"unused", "purge"} /\ listeners' = listeners
    BY <1>2 DEF DeleteTargetGroup
  <2>2. PICK t \in mem[c].rm :
        \/ /\ t \in DOMAIN tgs /\ tgs' = Drop(tgs, {t})
           /\ Answered(c, pc[c], [mem[c] EXCEPT !.rm = @ \ {t}])
        \/ Abort(c) /\ tgs' = tgs
    BY <1>2 DEF DeleteTargetGroup
  <2> DEFINE m == [mem[c] EXCEPT !.rm = @ \ {t}]
  <2>3. m.rm = mem[c].rm \ {t}
    BY <1>c DEF MemType
  <2> HIDE DEF m
  <2>4. \/ pc'[c] = pc[c] /\ mem'[c] = m /\ job'[c] = job[c]
        \/ pc'[c] = "idle"
    BY <1>c, <2>2, Lands DEF m
  <2>5. NoDanglingListener'
    BY <1>2, <2>1, <2>2 DEF NoDanglingInv, NoDanglingListener, NoDanglingJob, Drop, Restrict
  <2> QED
    BY <2>1, <2>3, <2>4, <2>5, NoDanglingTurn DEF NoDanglingInv, NoDanglingJob
<1> QED
  BY <1>1, <1>2

(* The calls on listeners, and the removal of a load balancer.             *)
LEMMA ListenerCalls ==
    ASSUME TypeOK, NoDanglingInv, NEW c \in Workers, Turn(c),
           \/ ListListeners(c) \/ DeleteListener(c)
           \/ UpdateListener(c) \/ CreateListener(c) \/ CloudStep
    PROVE  NoDanglingInv'
<1>c. \A l \in DOMAIN listeners : listeners[l] \in ListenerType
  BY DEF TypeOK, CloudOK, Objects
<1>1. CASE CloudStep
  <2>1. pc' = pc /\ mem' = mem /\ job' = job /\ tgs' = tgs
    BY <1>1 DEF CloudStep, LoadBalancerReady, LoadBalancerRemoved
  <2>2. /\ DOMAIN listeners' \subseteq DOMAIN listeners
        /\ \A l \in DOMAIN listeners' : listeners'[l] = listeners[l]
    BY <1>1 DEF CloudStep, LoadBalancerReady, LoadBalancerRemoved, Drop, Restrict
  <2> QED
    BY <2>1, <2>2, NoDanglingTurn DEF NoDanglingInv, NoDanglingListener, NoDanglingJob
<1>2. CASE DeleteListener(c) \/ UpdateListener(c) \/ CreateListener(c)
  <2>1. pc[c] = "listeners" /\ tgs' = tgs
    BY <1>2 DEF DeleteListener, UpdateListener, CreateListener
  <2>2. PICK m : Answered(c, "listeners", m) \/ Abort(c) \/ Goto(c, "listeners", m)
    BY <1>2 DEF DeleteListener, UpdateListener, CreateListener
  <2>3. pc'[c] \in {"listeners", "idle"} /\ (pc'[c] # "idle" => job'[c] = job[c])
    BY <1>c, <2>2, Lands
  <2>4. \/ listeners' = listeners
        \/ \E l : listeners' = Drop(listeners, {l})
        \/ \E l \in DOMAIN listeners, t \in DOMAIN tgs : \E a :
             listeners' = [listeners EXCEPT ![l].proto = a, ![l].tg = t]
        \/ \E l, v : v.tg \in DOMAIN tgs /\ listeners' = Put(listeners, l, v)
    <3>1. CASE DeleteListener(c)
      BY <3>1 DEF DeleteListener
    <3>2. CASE UpdateListener(c)
      BY <3>2 DEF UpdateListener
    <3>3. CASE CreateListener(c)
      <4>1. ASSUME NEW l, NEW a, NEW b, NEW d, NEW t \in DOMAIN tgs,
                   listeners' = Put(listeners, l, [lb |-> a, port |-> b, proto |-> d, tg |-> t])
            PROVE  \E k, v : v.tg \in DOMAIN tgs /\ listeners' = Put(listeners, k, v)
        <5>1. [lb |-> a, port |-> b, proto |-> d, tg |-> t].tg \in DOMAIN tgs
          OBVIOUS
        <5> QED
          BY <4>1, <5>1
      <4> QED
        BY <3>3, <4>1 DEF CreateListener
    <3> QED
      BY <1>2, <3>1, <3>2, <3>3
  <2>5. NoDanglingListener'
    <3>1. NoDanglingListener
      BY DEF NoDanglingInv
    <3>2. ASSUME NEW l, listeners' = Drop(listeners, {l}) PROVE NoDanglingListener'
      BY <2>1, <3>1, <3>2 DEF NoDanglingListener, Drop, Restrict
    <3>3. ASSUME NEW l \in DOMAIN listeners, NEW a, NEW t \in DOMAIN tgs,
                 listeners' = [listeners EXCEPT ![l].proto = a, ![l].tg = t]
          PROVE  NoDanglingListener'
      BY <1>c, <2>1, <3>1, <3>3 DEF NoDanglingListener, ListenerType
    <3>4. ASSUME NEW l, NEW v, v.tg \in DOMAIN tgs, listeners' = Put(listeners, l, v)
          PROVE  NoDanglingListener'
      BY <2>1, <3>1, <3>4 DEF NoDanglingListener, Put
    <3> QED
      BY <2>1, <2>4, <3>1, <3>2, <3>3, <3>4 DEF NoDanglingListener
  <2> QED
    BY <2>1, <2>3, <2>5, NoDanglingTurn DEF NoDanglingInv, NoDanglingJob
<1>3. CASE ListListeners(c)
  <2>1. pc[c] = "groups" /\ UNCHANGED <<tgs, listeners>>
    BY <1>3 DEF ListListeners, TargetGroupsDone, cloud
  <2>2. PICK m : Goto(c, "listeners", m) \/ Abort(c)
    BY <1>3 DEF ListListeners
  <2>3. pc'[c] \in {"listeners", "idle"} /\ (pc'[c] # "idle" => job'[c] = job[c])
    BY <1>c, <2>2, Lands
  <2> QED
    BY <2>1, <2>3, NoDanglingTurn DEF NoDanglingInv, NoDanglingListener, NoDanglingJob
<1> QED
  BY <1>1, <1>2, <1>3

(* Every step preserves it.                                                *)
LEMMA NextNoDangling ==
    ASSUME TypeOK, LifecycleInv, Serial, Serial', NoDanglingInv, [Next]_vars
    PROVE  NoDanglingInv'
<1>1. PICK c \in Workers : Moves(c) /\ Turn(c)
  BY TakesTurns
<1> QED
  BY <1>1, HarmlessSteps, HarmlessStep, TargetGroupCalls, ListenerCalls DEF Moves, WorkerStep

(* It holds in every reachable state.                                      *)
LEMMA NoDanglingInvariant == Spec /\ []Serial => []NoDanglingInv
<1>1. Init => NoDanglingInv
  BY DEF Init, NoDanglingInv, NoDanglingListener, NoDanglingJob, Nothing
<1>2. TypeOK /\ LifecycleInv /\ Serial /\ Serial' /\ NoDanglingInv /\ [Next]_vars => NoDanglingInv'
  BY NextNoDangling
<1> QED
  BY <1>1, <1>2, TypeCorrect, Lifecycle, PTL DEF Spec

(* As long as the jobs of the service controller and of the resync         *)
(* processor do not overlap, the order of the calls (listeners first,      *)
(* target groups that no listener names afterwards) never leaves a         *)
(* listener without its target group, whatever fails, is lost or crashes   *)
(* between two calls; the cloud does not prevent it.                       *)
THEOREM NoDangling == Spec /\ []Serial => []NoDanglingListener
<1>1. NoDanglingInv => NoDanglingListener
  BY DEF NoDanglingInv
<1> QED
  BY <1>1, NoDanglingInvariant, PTL

-----------------------------------------------------------------------------
(* One listener per port number.                                           *)

(* What a worker is about to create has no listener yet.                   *)
PortJob(w) ==
    pc[w] = "listeners" =>
        /\ mem[w].mk \subseteq Ports(job[w].spec)
        /\ \A p \in mem[w].mk : \A l \in DOMAIN listeners : listeners[l].port # p.port

PortInv == OneListenerPerPort /\ \A w \in Workers : PortJob(w)

(* It is enough to look at the worker whose turn it is.                    *)
LEMMA PortTurn ==
    ASSUME NEW c \in Workers, Turn(c), OneListenerPerPort', PortJob(c)'
    PROVE  PortInv'
BY DEF PortInv, PortJob, Turn

(* A step that adds no listener and renumbers none.                        *)
LEMMA FewerPorts ==
    ASSUME PortInv, NEW c \in Workers, Turn(c), DOMAIN listeners' \subseteq DOMAIN listeners,
           \A l \in DOMAIN listeners' : listeners'[l].port = listeners[l].port,
           pc'[c] = "listeners" =>
             /\ pc[c] = "listeners"
             /\ mem'[c].mk \subseteq mem[c].mk
             /\ job'[c] = job[c]
    PROVE  PortInv'
<1>1. OneListenerPerPort' /\ PortJob(c)'
  BY DEF PortInv, PortJob, OneListenerPerPort
<1> QED
  BY <1>1, PortTurn

(* Every step preserves it.                                                *)
LEMMA NextPort ==
    ASSUME DistinctNumbers, TypeOK, LifecycleInv, ReconcileInv, Serial, Serial', NoDanglingInv,
           PortInv, [Next]_vars
    PROVE  PortInv'
<1>t. PICK c \in Workers : Moves(c) /\ Turn(c)
  BY TakesTurns
<1>c. c \in Workers /\ Turn(c) /\ mem[c] \in MemType /\ job[c] \in JobType
  BY <1>t DEF TypeOK, WorkersOK
<1>q. ASSUME Harmless(c) PROVE PortInv'
  BY <1>q, <1>c, FewerPorts DEF Harmless
<1>1. CASE CloudStep
  <2>1. pc' = pc /\ mem' = mem /\ job' = job
    BY <1>1 DEF CloudStep, LoadBalancerReady, LoadBalancerRemoved
  <2>2. /\ DOMAIN listeners' \subseteq DOMAIN listeners
        /\ \A l \in DOMAIN listeners' : listeners'[l] = listeners[l]
    BY <1>1 DEF CloudStep, LoadBalancerReady, LoadBalancerRemoved, Drop, Restrict
  <2> QED
    BY <2>1, <2>2, <1>c, FewerPorts
<1>2. CASE DeleteTargetGroup(c) \/ ListUnusedTargetGroups(c) \/ ListRemainingTargetGroups(c)
  <2>1. listeners' = listeners
    BY <1>2 DEF DeleteTargetGroup, ListUnusedTargetGroups, ListRemainingTargetGroups, cloud
  <2>2. PICK label \in {"unused", "purge"} :
          \E m : Answered(c, label, m) \/ Goto(c, label, m) \/ Abort(c)
    BY <1>2 DEF DeleteTargetGroup, ListUnusedTargetGroups, ListRemainingTargetGroups
  <2>3. pc'[c] # "listeners"
    BY <1>c, <2>2, Lands
  <2> QED
    BY <2>1, <2>3, <1>c, FewerPorts
<1>3. CASE ListListeners(c)
  <2>1. /\ UNCHANGED <<lbs, listeners>>
        /\ \/ Abort(c)
           \/ /\ StillThere(c)
              /\ \E rm, up : Goto(c, "listeners",
                   [mem[c] EXCEPT !.rm = rm, !.up = up,
                       !.mk = {p \in Ports(job[c].spec) : p.port \notin
                           {listeners[l].port : l \in {k \in DOMAIN listeners : listeners[k].lb = mem[c].lb}}}])
    BY <1>3 DEF ListListeners, cloud, StillThere
  <2>2. CASE Abort(c)
    BY <1>c, <2>1, <2>2, Lands, FewerPorts
  <2>3. CASE ~Abort(c)
    <3>1. {k \in DOMAIN listeners : listeners[k].lb = mem[c].lb} = DOMAIN listeners
      BY <1>c, <2>1, <2>3, AllMine
    <3> DEFINE mk == {p \in Ports(job[c].spec) : p.port \notin {listeners[l].port : l \in DOMAIN listeners}}
    <3>2. PICK rm, up : Goto(c, "listeners", [mem[c] EXCEPT !.rm = rm, !.up = up, !.mk = mk])
      BY <2>1, <2>3, <3>1
    <3> HIDE DEF mk
    <3> DEFINE m == [mem[c] EXCEPT !.rm = rm, !.up = up, !.mk = mk]
    <3>3. m.mk = mk /\ Goto(c, "listeners", m)
      BY <1>c, <3>2 DEF MemType
    <3> HIDE DEF m
    <3>4. mem'[c].mk = mk /\ job'[c] = job[c]
      BY <1>c, <3>3, GoesTo
    <3>5. PortJob(c)' /\ OneListenerPerPort'
      BY <2>1, <3>4 DEF PortInv, PortJob, OneListenerPerPort, mk
    <3> QED
      BY <1>c, <3>5, PortTurn
  <2> QED
    BY <2>2, <2>3
<1>4. CASE DeleteListener(c)
  <2>1. PICK l \in mem[c].rm :
          /\ listeners' = listeners \/ listeners' = Drop(listeners, {l})
          /\ Answered(c, "listeners", [mem[c] EXCEPT !.rm = @ \ {l}]) \/ Abort(c)
    BY <1>4 DEF DeleteListener
  <2>2. [mem[c] EXCEPT !.rm = @ \ {l}].mk = mem[c].mk /\ pc[c] = "listeners"
    BY <1>c, <1>4 DEF MemType, DeleteListener
  <2>3. /\ DOMAIN listeners' \subseteq DOMAIN listeners
        /\ \A k \in DOMAIN listeners' : listeners'[k] = listeners[k]
    BY <2>1 DEF Drop, Restrict
  <2>4. pc'[c] = "listeners" => mem'[c].mk = mem[c].mk /\ job'[c] = job[c]
    BY <1>c, <2>1, <2>2, Lands
  <2> QED
    BY <2>2, <2>3, <2>4, <1>c, FewerPorts
<1>5. CASE UpdateListener(c)
  <2>1. PICK l \in mem[c].up :
          /\ Answered(c, "listeners", [mem[c] EXCEPT !.up = @ \ {l}]) \/ Abort(c)
          /\ \/ listeners' = listeners
             \/ \E a, b : listeners' = [listeners EXCEPT ![l].proto = a, ![l].tg = b]
    BY <1>5 DEF UpdateListener, Answered
  <2>2. [mem[c] EXCEPT !.up = @ \ {l}].mk = mem[c].mk /\ pc[c] = "listeners"
    BY <1>c, <1>5 DEF MemType, UpdateListener
  <2>3. /\ DOMAIN listeners' = DOMAIN listeners
        /\ \A k \in DOMAIN listeners : listeners'[k].port = listeners[k].port
    <3>1. \A k \in DOMAIN listeners : listeners[k] \in ListenerType
      BY DEF TypeOK, CloudOK, Objects
    <3>2. ASSUME NEW a, NEW b, listeners' = [listeners EXCEPT ![l].proto = a, ![l].tg = b]
          PROVE  /\ DOMAIN listeners' = DOMAIN listeners
                 /\ \A k \in DOMAIN listeners : listeners'[k].port = listeners[k].port
      BY <3>1, <3>2 DEF ListenerType
    <3> QED
      BY <2>1, <3>2
  <2>4. pc'[c] = "listeners" => mem'[c].mk = mem[c].mk /\ job'[c] = job[c]
    BY <1>c, <2>1, <2>2, Lands
  <2> QED
    BY <2>2, <2>3, <2>4, <1>c, FewerPorts
<1>6. CASE CreateListener(c)
  <2>1. PICK p \in mem[c].mk :
          /\ Answered(c, "listeners", [mem[c] EXCEPT !.mk = @ \ {p}]) \/ Abort(c)
          /\ \/ listeners' = listeners
             \/ \E l \in FreshListener : \E t : listeners' =
                  Put(listeners, l, [lb |-> mem[c].lb, port |-> p.port, proto |-> p.proto, tg |-> t])
    BY <1>6 DEF CreateListener, Answered
  <2> DEFINE m == [mem[c] EXCEPT !.mk = @ \ {p}]
  <2>2. m.mk = mem[c].mk \ {p} /\ pc[c] = "listeners"
    BY <1>c, <1>6 DEF MemType, CreateListener
  <2>3. pc'[c] = "listeners" => mem'[c].mk = mem[c].mk \ {p} /\ job'[c] = job[c]
    BY <1>c, <2>1, <2>2, Lands
  <2>4. CASE listeners' = listeners
    BY <2>2, <2>3, <2>4, <1>c, FewerPorts
  <2>5. CASE listeners' # listeners
    <3>1. PICK l \in FreshListener : \E t : listeners' =
             Put(listeners, l, [lb |-> mem[c].lb, port |-> p.port, proto |-> p.proto, tg |-> t])
      BY <2>1, <2>5
    <3>2. /\ DOMAIN listeners' = DOMAIN listeners \cup {l} /\ listeners'[l].port = p.port
          /\ \A k \in DOMAIN listeners : k # l => listeners'[k] = listeners[k]
          /\ l \notin DOMAIN listeners
      BY <3>1 DEF Put, FreshListener, FreshIds
    <3>3. \A k \in DOMAIN listeners : listeners[k].port # p.port
      BY <2>2 DEF PortInv, PortJob
    <3>4. OneListenerPerPort'
      BY <3>2, <3>3 DEF PortInv, OneListenerPerPort
    <3>5. ASSUME NEW q \in mem[c].mk \ {p} PROVE q.port # p.port
      <4>1. p \in Ports(job[c].spec) /\ q \in Ports(job[c].spec) /\ q # p
        BY <2>2 DEF PortInv, PortJob
      <4>2. job[c].spec \in Specs
        <5>1. Ports(NoSpec) = {}
          BY DEF NoSpec, Ports, Range
        <5> QED
          BY <1>c, <4>1, <5>1 DEF JobType
      <4> QED
        BY <4>1, <4>2 DEF DistinctNumbers
    <3> QED
      BY <1>c, <2>2, <2>3, <3>2, <3>4, <3>5, PortTurn DEF PortInv, PortJob
  <2> QED
    BY <2>4, <2>5
<1> QED
  BY <1>t, <1>q, <1>1, <1>2, <1>3, <1>4, <1>5, <1>6, HarmlessSteps DEF Moves, WorkerStep

(* As long as jobs do not overlap, no port number ever has two listeners,  *)
(* even though a creation whose answer was lost is retried: the next list  *)
(* shows it.                                                               *)
THEOREM OneListener ==
    ASSUME DistinctNumbers
    PROVE  Spec /\ []Serial => []OneListenerPerPort
<1>1. Init => PortInv
  BY DEF Init, PortInv, PortJob, OneListenerPerPort, Nothing
<1>2. TypeOK /\ LifecycleInv /\ ReconcileInv /\ Serial /\ Serial' /\ NoDanglingInv /\ PortInv
        /\ [Next]_vars => PortInv'
  BY NextPort
<1>3. PortInv => OneListenerPerPort
  BY DEF PortInv
<1> QED
  BY <1>1, <1>2, <1>3, TypeCorrect, Lifecycle, ReconcileInvariant, NoDanglingInvariant, PTL DEF Spec

-----------------------------------------------------------------------------
(* The security groups of the load balancer.                               *)

Working == {"list", "groups", "listeners", "sweep", "unused"}

(* The worker has found no managed group before it looks for it, works on  *)
(* one that exists, and from then on on one whose rules it has set; until  *)
(* it updates the load balancer, the groups it remembers are the attached  *)
(* ones, so that skipping the update when they are as wanted is right.     *)
(* While it works there is no load balancer but the one it holds.          *)
GroupJob(w) ==
    LET m == mem[w]
        spec == job[w].spec
    IN /\ pc[w] \in Working \cup {"exists", "fetch", "create"} => m.sg = None
       /\ pc[w] = "group" => spec.managed /\ m.sg \in DOMAIN sgs \cup {None}
       /\ pc[w] \in {"createLb", "updateLb", "updated", "poll", "publish"} /\ job[w].op # "delete" =>
            IF spec.managed
            THEN m.sg \in DOMAIN sgs /\ sgs[m.sg].rules = Ports(spec)
            ELSE m.sg = None
       /\ pc[w] \in Working \cup {"group", "updateLb"} /\ m.lb \in DOMAIN lbs =>
            lbs[m.lb].groups = m.groups
       /\ pc[w] \in Working => DOMAIN lbs \subseteq {m.lb}
       /\ pc[w] \in {"updated", "poll", "publish"} /\ job[w].op # "delete" /\ m.lb \in DOMAIN lbs =>
            lbs[m.lb].groups = WantedGroups(w)

GroupInv == \A w \in Workers : GroupJob(w)

(* It is enough to look at the worker whose turn it is.                    *)
LEMMA GroupTurn ==
    ASSUME NEW c \in Workers, Turn(c), GroupJob(c)'
    PROVE  GroupInv'
BY DEF GroupInv, GroupJob, Turn, Working

(* The worker gives up its job.                                            *)
LEMMA GroupsRest ==
    ASSUME NEW c \in Workers, pc'[c] = "idle"
    PROVE  GroupJob(c)'
BY DEF GroupJob, Working

(* The worker stays where it is, or goes on with target groups and         *)
(* listeners, and the security groups stay as they are.                    *)
LEMMA GroupsStand ==
    ASSUME NEW c \in Workers, GroupJob(c), sgs' = sgs, job'[c] = job[c],
           \/ pc'[c] = pc[c]
           \/ pc[c] \in Working /\ pc'[c] \in Working,
           mem'[c].lb = mem[c].lb,
           mem'[c].groups = mem[c].groups,
           mem'[c].sg = mem[c].sg,
           DOMAIN lbs' \subseteq DOMAIN lbs,
           mem[c].lb \in DOMAIN lbs' => lbs'[mem[c].lb].groups = lbs[mem[c].lb].groups
    PROVE  GroupJob(c)'
BY DEF GroupJob, WantedGroups, Working

(* The calls on target groups and listeners leave alone what the worker    *)
(* remembers of the load balancer.                                         *)
LEMMA WorkingCalls ==
    ASSUME TypeOK, NEW w \in Workers,
           \/ ListTargetGroups(w) \/ CreateTargetGroup(w) \/ UpdateTargetGroup(w)
           \/ SetAttachments(w) \/ ListListeners(w) \/ DeleteListener(w) \/ UpdateListener(w)
           \/ CreateListener(w) \/ ListUnusedTargetGroups(w) \/ DeleteTargetGroup(w)
    PROVE  /\ UNCHANGED <<lbs, sgs>>
           /\ \/ pc[w] \in Working /\ pc'[w] \in Working
              \/ pc[w] = "purge" /\ pc'[w] = "purge"
              \/ pc'[w] = "idle" /\ mem'[w] = NoMem
           /\ pc'[w] # "idle" =>
                /\ job'[w] = job[w]
                /\ mem'[w].lb = mem[w].lb /\ mem'[w].groups = mem[w].groups
                /\ mem'[w].sg = mem[w].sg /\ mem'[w].addr = mem[w].addr
                /\ mem'[w].made = mem[w].made
<1>k. mem[w] \in MemType
  BY DEF TypeOK, WorkersOK
<1>u. UNCHANGED <<lbs, sgs>>
  BY DEF ListTargetGroups, CreateTargetGroup, UpdateTargetGroup, SetAttachments, ListListeners,
         DeleteListener, UpdateListener, CreateListener, ListUnusedTargetGroups,
         DeleteTargetGroup, cloud
<1> DEFINE Goal ==
             /\ \/ pc[w] \in Working /\ pc'[w] \in Working
                \/ pc[w] = "purge" /\ pc'[w] = "purge"
                \/ pc'[w] = "idle" /\ mem'[w] = NoMem
             /\ pc'[w] # "idle" =>
                  /\ job'[w] = job[w]
                  /\ mem'[w].lb = mem[w].lb /\ mem'[w].groups = mem[w].groups
                  /\ mem'[w].sg = mem[w].sg /\ mem'[w].addr = mem[w].addr
                  /\ mem'[w].made = mem[w].made
<1>g. ASSUME NEW label, NEW m, Answered(w, label, m) \/ Goto(w, label, m) \/ Abort(w),
             m.lb = mem[w].lb, m.groups = mem[w].groups, m.sg = mem[w].sg,
             m.addr = mem[w].addr, m.made = mem[w].made,
             \/ label \in Working /\ pc[w] \in Working
             \/ label = "purge" /\ pc[w] = "purge"
      PROVE  Goal
  <2>1. \/ pc'[w] = label /\ mem'[w] = m /\ job'[w] = job[w]
        \/ pc'[w] = "idle" /\ mem'[w] = NoMem
    BY <1>g, Lands
  <2> QED
    BY <1>g, <2>1
<1>a. ASSUME Abort(w) PROVE Goal
  BY <1>a, Lands
<1> HIDE DEF Goal
<1>1. ASSUME ListTargetGroups(w), ~Abort(w) PROVE Goal
  <2>1. PICK a, b : \/ Answered(w, "groups", [mem[w] EXCEPT !.mk = a, !.up = b])
                    \/ Goto(w, "groups", [mem[w] EXCEPT !.mk = a, !.up = b])
    BY <1>1 DEF ListTargetGroups
  <2>2. PICK m : m = [mem[w] EXCEPT !.mk = a, !.up = b]
    OBVIOUS
  <2>3. /\ m.lb = mem[w].lb /\ m.groups = mem[w].groups /\ m.sg = mem[w].sg
        /\ m.addr = mem[w].addr /\ m.made = mem[w].made
    BY <1>k, <2>2 DEF MemType
  <2>4. "groups" \in Working /\ pc[w] \in Working
    BY <1>1 DEF ListTargetGroups, Working
  <2> QED
    BY <2>1, <2>2, <2>3, <2>4, <1>g
<1>2. ASSUME CreateTargetGroup(w), ~Abort(w) PROVE Goal
  <2>1. PICK a, b, d : \/ Answered(w, "groups", [mem[w] EXCEPT !.mk = @ \ {a}, !.att = b, !.got = @ \cup {d}])
                       \/ Goto(w, "groups", [mem[w] EXCEPT !.mk = @ \ {a}, !.att = b, !.got = @ \cup {d}])
    BY <1>2 DEF CreateTargetGroup
  <2>2. PICK m : m = [mem[w] EXCEPT !.mk = @ \ {a}, !.att = b, !.got = @ \cup {d}]
    OBVIOUS
  <2>3. /\ m.lb = mem[w].lb /\ m.groups = mem[w].groups /\ m.sg = mem[w].sg
        /\ m.addr = mem[w].addr /\ m.made = mem[w].made
    BY <1>k, <2>2 DEF MemType
  <2>4. "groups" \in Working /\ pc[w] \in Working
    BY <1>2 DEF CreateTargetGroup, Working
  <2> QED
    BY <2>1, <2>2, <2>3, <2>4, <1>g
<1>3. ASSUME UpdateTargetGroup(w), ~Abort(w) PROVE Goal
  <2>1. PICK a, b, d : \/ Answered(w, "groups", [mem[w] EXCEPT !.up = @ \ {a}, !.att = b, !.got = @ \cup {d}])
                       \/ Goto(w, "groups", [mem[w] EXCEPT !.up = @ \ {a}, !.att = b, !.got = @ \cup {d}])
    BY <1>3 DEF UpdateTargetGroup
  <2>2. PICK m : m = [mem[w] EXCEPT !.up = @ \ {a}, !.att = b, !.got = @ \cup {d}]
    OBVIOUS
  <2>3. /\ m.lb = mem[w].lb /\ m.groups = mem[w].groups /\ m.sg = mem[w].sg
        /\ m.addr = mem[w].addr /\ m.made = mem[w].made
    BY <1>k, <2>2 DEF MemType
  <2>4. "groups" \in Working /\ pc[w] \in Working
    BY <1>3 DEF UpdateTargetGroup, Working
  <2> QED
    BY <2>1, <2>2, <2>3, <2>4, <1>g
<1>4. ASSUME SetAttachments(w), ~Abort(w) PROVE Goal
  <2>1. PICK a : \/ Answered(w, "groups", [mem[w] EXCEPT !.att = a])
                 \/ Goto(w, "groups", [mem[w] EXCEPT !.att = a])
    BY <1>4 DEF SetAttachments
  <2>2. PICK m : m = [mem[w] EXCEPT !.att = a]
    OBVIOUS
  <2>3. /\ m.lb = mem[w].lb /\ m.groups = mem[w].groups /\ m.sg = mem[w].sg
        /\ m.addr = mem[w].addr /\ m.made = mem[w].made
    BY <1>k, <2>2 DEF MemType
  <2>4. "groups" \in Working /\ pc[w] \in Working
    BY <1>4 DEF SetAttachments, Working
  <2> QED
    BY <2>1, <2>2, <2>3, <2>4, <1>g
<1>5. ASSUME ListListeners(w), ~Abort(w) PROVE Goal
  <2>1. PICK a, b, d : \/ Answered(w, "listeners", [mem[w] EXCEPT !.rm = a, !.up = b, !.mk = d])
                       \/ Goto(w, "listeners", [mem[w] EXCEPT !.rm = a, !.up = b, !.mk = d])
    BY <1>5 DEF ListListeners
  <2>2. PICK m : m = [mem[w] EXCEPT !.rm = a, !.up = b, !.mk = d]
    OBVIOUS
  <2>3. /\ m.lb = mem[w].lb /\ m.groups = mem[w].groups /\ m.sg = mem[w].sg
        /\ m.addr = mem[w].addr /\ m.made = mem[w].made
    BY <1>k, <2>2 DEF MemType
  <2>4. "listeners" \in Working /\ pc[w] \in Working
    BY <1>5 DEF ListListeners, Working, TargetGroupsDone
  <2> QED
    BY <2>1, <2>2, <2>3, <2>4, <1>g
<1>6. ASSUME DeleteListener(w), ~Abort(w) PROVE Goal
  <2>1. PICK a : \/ Answered(w, "listeners", [mem[w] EXCEPT !.rm = @ \ {a}])
                 \/ Goto(w, "listeners", [mem[w] EXCEPT !.rm = @ \ {a}])
    BY <1>6 DEF DeleteListener
  <2>2. PICK m : m = [mem[w] EXCEPT !.rm = @ \ {a}]
    OBVIOUS
  <2>3. /\ m.lb = mem[w].lb /\ m.groups = mem[w].groups /\ m.sg = mem[w].sg
        /\ m.addr = mem[w].addr /\ m.made = mem[w].made
    BY <1>k, <2>2 DEF MemType
  <2>4. "listeners" \in Working /\ pc[w] \in Working
    BY <1>6 DEF DeleteListener, Working
  <2> QED
    BY <2>1, <2>2, <2>3, <2>4, <1>g
<1>7. ASSUME UpdateListener(w), ~Abort(w) PROVE Goal
  <2>1. PICK a : \/ Answered(w, "listeners", [mem[w] EXCEPT !.up = @ \ {a}])
                 \/ Goto(w, "listeners", [mem[w] EXCEPT !.up = @ \ {a}])
    BY <1>7 DEF UpdateListener
  <2>2. PICK m : m = [mem[w] EXCEPT !.up = @ \ {a}]
    OBVIOUS
  <2>3. /\ m.lb = mem[w].lb /\ m.groups = mem[w].groups /\ m.sg = mem[w].sg
        /\ m.addr = mem[w].addr /\ m.made = mem[w].made
    BY <1>k, <2>2 DEF MemType
  <2>4. "listeners" \in Working /\ pc[w] \in Working
    BY <1>7 DEF UpdateListener, Working
  <2> QED
    BY <2>1, <2>2, <2>3, <2>4, <1>g
<1>8. ASSUME CreateListener(w), ~Abort(w) PROVE Goal
  <2>1. PICK a : \/ Answered(w, "listeners", [mem[w] EXCEPT !.mk = @ \ {a}])
                 \/ Goto(w, "listeners", [mem[w] EXCEPT !.mk = @ \ {a}])
    BY <1>8 DEF CreateListener
  <2>2. PICK m : m = [mem[w] EXCEPT !.mk = @ \ {a}]
    OBVIOUS
  <2>3. /\ m.lb = mem[w].lb /\ m.groups = mem[w].groups /\ m.sg = mem[w].sg
        /\ m.addr = mem[w].addr /\ m.made = mem[w].made
    BY <1>k, <2>2 DEF MemType
  <2>4. "listeners" \in Working /\ pc[w] \in Working
    BY <1>8 DEF CreateListener, Working
  <2> QED
    BY <2>1, <2>2, <2>3, <2>4, <1>g
<1>9. ASSUME ListUnusedTargetGroups(w), ~Abort(w) PROVE Goal
  <2>1. PICK a : \/ Answered(w, "unused", [mem[w] EXCEPT !.rm = a])
                 \/ Goto(w, "unused", [mem[w] EXCEPT !.rm = a])
    BY <1>9 DEF ListUnusedTargetGroups
  <2>2. PICK m : m = [mem[w] EXCEPT !.rm = a]
    OBVIOUS
  <2>3. /\ m.lb = mem[w].lb /\ m.groups = mem[w].groups /\ m.sg = mem[w].sg
        /\ m.addr = mem[w].addr /\ m.made = mem[w].made
    BY <1>k, <2>2 DEF MemType
  <2>4. "unused" \in Working /\ pc[w] \in Working
    BY <1>9 DEF ListUnusedTargetGroups, Working, ListenersDone
  <2> QED
    BY <2>1, <2>2, <2>3, <2>4, <1>g
<1>10. ASSUME DeleteTargetGroup(w), ~Abort(w) PROVE Goal
  <2>1. PICK a : \/ Answered(w, pc[w], [mem[w] EXCEPT !.rm = @ \ {a}])
                 \/ Goto(w, pc[w], [mem[w] EXCEPT !.rm = @ \ {a}])
    BY <1>10 DEF DeleteTargetGroup
  <2>2. PICK m : m = [mem[w] EXCEPT !.rm = @ \ {a}]
    OBVIOUS
  <2>3. /\ m.lb = mem[w].lb /\ m.groups = mem[w].groups /\ m.sg = mem[w].sg
        /\ m.addr = mem[w].addr /\ m.made = mem[w].made
    BY <1>k, <2>2 DEF MemType
  <2>4. (pc[w] \in Working) \/ pc[w] = "purge"
    BY <1>10 DEF DeleteTargetGroup, Working
  <2> QED
    BY <2>1, <2>2, <2>3, <2>4, <1>g
<1> QED
  BY <1>u, <1>a, <1>1, <1>2, <1>3, <1>4, <1>5, <1>6, <1>7, <1>8, <1>9, <1>10 DEF Goal

(* The jobs that start and end, the lookups, the cloud and the deletion.   *)
LEMMA GroupsElsewhere ==
    ASSUME TypeOK, LifecycleInv, NEW c \in Workers, GroupJob(c),
           \/ c = Controller /\ (StartSync \/ RemoveFinalizer \/ Publish)
           \/ c \in Updaters /\ StartResync(c)
           \/ UserStep \/ Crash \/ UNCHANGED vars \/ CallFails(c)
           \/ CloudStep \/ GetLoadBalancer(c) \/ FetchLoadBalancer(c)
           \/ ReturnUpdated(c) \/ DeleteLoadbalancer(c) \/ AwaitGone(c)
           \/ ListRemainingTargetGroups(c) \/ DeleteManagedSecurityGroup(c)
    PROVE  GroupJob(c)'
<1>c. mem[c] \in MemType /\ RoleInv(c) /\ HoldsInv(c)
  BY DEF TypeOK, WorkersOK, LifecycleInv
<1>l. \A l \in DOMAIN lbs : lbs[l] \in LbType
  BY DEF TypeOK, CloudOK, Objects
<1>1. CASE \/ c = Controller /\ StartSync
           \/ c \in Updaters /\ StartResync(c)
  <2>1. PICK label \in {"fetch", "exists"}, op \in {"ensure", "update", "delete"} :
          Begin(c, label, op)
    BY <1>1 DEF StartSync, StartResync
  <2>2. pc'[c] = label /\ mem'[c] = NoMem
    BY <1>c, <2>1 DEF Begin, TypeOK, WorkersOK, RoleInv
  <2> QED
    BY <2>2 DEF GroupJob, NoMem, Working
<1>2. CASE (c = Controller /\ (RemoveFinalizer \/ Publish)) \/ ReturnUpdated(c) \/ CallFails(c) \/ Crash
  <2>1. CASE pc'[c] = "idle" /\ mem'[c] = NoMem
    BY <2>1, GroupsRest
  <2>2. CASE pc'[c] = "publish" /\ job'[c].op = "delete"
    BY <2>2 DEF GroupJob, Working
  <2>3. CASE ReturnUpdated(c) \/ CallFails(c) \/ Crash
    BY <1>c, <2>1, <2>3 DEF ReturnUpdated, Return, CallFails, Crash, Rest, TypeOK, WorkersOK
  <2> QED
    BY <1>2, <2>1, <2>2, <2>3, Records
<1>3. CASE UserStep \/ UNCHANGED vars
  <2>1. UNCHANGED <<pc, job, mem, lbs, sgs>>
    BY <1>3 DEF UserStep, EditService, ChangeType, DeleteService, ChangeNodes, UserChanges, vars,
       cloud
  <2> QED
    BY <2>1, GroupsStand
<1>4. CASE CloudStep
  <2>1. UNCHANGED <<pc, job, mem, sgs>>
    BY <1>4 DEF CloudStep, LoadBalancerReady, LoadBalancerRemoved
  <2>2. /\ DOMAIN lbs' \subseteq DOMAIN lbs
        /\ \A l \in DOMAIN lbs' : lbs'[l].groups = lbs[l].groups
    <3>1. PICK l \in DOMAIN lbs : LoadBalancerReady(l) \/ LoadBalancerRemoved(l)
      BY <1>4 DEF CloudStep
    <3>2. CASE LoadBalancerReady(l)
      BY <1>l, <3>2 DEF LoadBalancerReady, LbType
    <3>3. CASE LoadBalancerRemoved(l)
      BY <3>3 DEF LoadBalancerRemoved, Drop, Restrict
    <3> QED
      BY <3>1, <3>2, <3>3
  <2> QED
    BY <2>1, <2>2, GroupsStand
<1>5. CASE GetLoadBalancer(c)
  <2>1. PICK label \in {"release", "fetch"} : Goto(c, label, mem[c])
    BY <1>5 DEF GetLoadBalancer
  <2>2. pc[c] = "exists" /\ job[c].op = "delete"
    BY <1>c, <1>5 DEF GetLoadBalancer, RoleInv
  <2>3. pc'[c] = label /\ mem'[c] = mem[c] /\ job'[c] = job[c]
    BY <1>c, <2>1, GoesTo
  <2> QED
    BY <2>2, <2>3 DEF GroupJob, Working
<1>6. CASE FetchLoadBalancer(c)
  <2>1. pc[c] = "fetch" /\ lbs' = lbs /\ mem[c].sg = None /\ mem[c].lb = None
    BY <1>6, <1>c DEF FetchLoadBalancer, cloud, GroupJob, HoldsInv
  <2>2. CASE FetchNothing(c)
    <3>1. CASE Abort(c)
      BY <1>c, <3>1, Lands, GroupsRest
    <3>2. ASSUME NEW label, Goto(c, label, mem[c]),
                 label = "create" \/ (label = "release" /\ job[c].op = "delete")
          PROVE  GroupJob(c)'
      <4>1. pc'[c] = label /\ mem'[c] = mem[c] /\ job'[c] = job[c]
        BY <1>c, <3>2, GoesTo
      <4> QED
        BY <2>1, <3>2, <4>1 DEF GroupJob, Working
    <3> QED
      BY <2>2, <3>1, <3>2 DEF FetchNothing
  <2>3. CASE ~FetchNothing(c)
    <3>1. PICK l \in DOMAIN lbs, label \in {"sweep", "list"} :
            Goto(c, label, [mem[c] EXCEPT !.lb = l, !.groups = lbs[l].groups, !.addr = lbs[l].addr])
      BY <1>6, <2>3 DEF FetchLoadBalancer
    <3> DEFINE m == [mem[c] EXCEPT !.lb = l, !.groups = lbs[l].groups, !.addr = lbs[l].addr]
    <3>2. m.lb = l /\ m.groups = lbs[l].groups /\ m.sg = mem[c].sg /\ Goto(c, label, m)
      BY <1>c, <3>1 DEF MemType
    <3> HIDE DEF m
    <3>3. pc'[c] = label /\ mem'[c] = m /\ job'[c] = job[c]
      BY <1>c, <3>2, GoesTo
    <3>4. DOMAIN lbs = {l}
      BY DEF LifecycleInv, AtMostOneLoadBalancer
    <3> QED
      BY <2>1, <3>2, <3>3, <3>4 DEF GroupJob, Working
  <2> QED
    BY <2>2, <2>3
<1>7. CASE DeleteLoadbalancer(c) \/ AwaitGone(c) \/ ListRemainingTargetGroups(c)
  <2>1. PICK label \in {"wait", "gone", "purge"} :
          \E m : Answered(c, label, m) \/ Goto(c, label, m) \/ Abort(c)
    BY <1>7 DEF DeleteLoadbalancer, AwaitGone, ListRemainingTargetGroups
  <2>2. pc'[c] = label \/ (pc'[c] = "idle" /\ mem'[c] = NoMem)
    BY <1>c, <2>1, Lands
  <2>3. CASE pc'[c] = label
    BY <2>3 DEF GroupJob, Working
  <2> QED
    BY <2>2, <2>3, GroupsRest
<1>8. CASE DeleteManagedSecurityGroup(c)
  <2>1. pc'[c] = "release" /\ job'[c].op = "delete"
    BY <1>8, <1>c DEF DeleteManagedSecurityGroup, RoleInv, TypeOK, WorkersOK
  <2> QED
    BY <2>1 DEF GroupJob, Working
<1> QED
  BY <1>1, <1>2, <1>3, <1>4, <1>5, <1>6, <1>7, <1>8

(* The managed group is looked up, and created or given its rules.         *)
LEMMA GroupsFound ==
    ASSUME TypeOK, LifecycleInv, NEW c \in Workers, GroupJob(c),
           ListSecurityGroups(c) \/ EnsureManagedSecurityGroup(c)
    PROVE  GroupJob(c)'
<1>c. mem[c] \in MemType /\ HoldsInv(c) /\ None \notin DOMAIN lbs
  BY IdsAssumption DEF TypeOK, WorkersOK, CloudOK, Objects, LifecycleInv
<1>r. CASE Abort(c)
  BY <1>c, <1>r, Lands, GroupsRest
<1>s. ASSUME NEW s
      PROVE  \E m : /\ m = [mem[c] EXCEPT !.sg = s]
                    /\ m.lb = mem[c].lb /\ m.groups = mem[c].groups /\ m.sg = s
  <2>1. PICK m : m = [mem[c] EXCEPT !.sg = s]
    OBVIOUS
  <2>2. m.lb = mem[c].lb /\ m.groups = mem[c].groups /\ m.sg = s
    BY <1>c, <2>1 DEF MemType
  <2> QED
    BY <2>1, <2>2
<1>1. CASE ListSecurityGroups(c) /\ ~Abort(c)
  <2>1. /\ lbs' = lbs /\ sgs' = sgs /\ mem[c].sg = None
        /\ mem[c].lb \in DOMAIN lbs => lbs[mem[c].lb].groups = mem[c].groups
    BY <1>1, <1>c DEF ListSecurityGroups, cloud, GroupJob, Working, HoldsInv
  <2>2. CASE ~job[c].spec.managed
    <3>1. Goto(c, AfterGroups(c), mem[c])
      BY <1>1, <2>2 DEF ListSecurityGroups
    <3>2. pc'[c] = AfterGroups(c) /\ mem'[c] = mem[c] /\ job'[c] = job[c]
      BY <1>c, <3>1, GoesTo
    <3> QED
      BY <2>1, <2>2, <3>2 DEF GroupJob, Working, AfterGroups
  <2>3. CASE job[c].spec.managed
    <3>1. PICK m : /\ Goto(c, "group", m) /\ m.sg \in DOMAIN sgs \cup {None}
                   /\ m.lb = mem[c].lb /\ m.groups = mem[c].groups
      <4>1. CASE Goto(c, "group", mem[c])
        BY <2>1, <4>1
      <4>2. CASE ~Goto(c, "group", mem[c])
        <5>1. PICK s \in DOMAIN sgs : Goto(c, "group", [mem[c] EXCEPT !.sg = s])
          BY <1>1, <2>3, <4>2 DEF ListSecurityGroups
        <5>2. PICK m : /\ m = [mem[c] EXCEPT !.sg = s]
                       /\ m.lb = mem[c].lb /\ m.groups = mem[c].groups /\ m.sg = s
          BY <1>s
        <5> QED
          BY <5>1, <5>2
      <4> QED
        BY <4>1, <4>2
    <3>2. pc'[c] = "group" /\ mem'[c] = m /\ job'[c] = job[c]
      BY <1>c, <3>1, GoesTo
    <3> QED
      BY <2>1, <2>3, <3>1, <3>2 DEF GroupJob, Working
  <2> QED
    BY <2>2, <2>3
<1>2. CASE EnsureManagedSecurityGroup(c) /\ ~Abort(c)
  <2>1. /\ lbs' = lbs /\ pc[c] = "group" /\ job[c].spec.managed
        /\ mem[c].lb \in DOMAIN lbs => lbs[mem[c].lb].groups = mem[c].groups
    BY <1>2 DEF EnsureManagedSecurityGroup, GroupJob
  <2>2. PICK m : /\ Answered(c, AfterGroups(c), m)
                 /\ m.lb = mem[c].lb /\ m.groups = mem[c].groups
                 /\ m.sg \in DOMAIN sgs' /\ sgs'[m.sg].rules = Ports(job[c].spec)
    <3>1. CASE mem[c].sg = None
      <4>1. PICK s \in FreshSg :
              /\ sgs' = Put(sgs, s, [rules |-> Ports(job[c].spec)])
              /\ Answered(c, AfterGroups(c), [mem[c] EXCEPT !.sg = s])
        BY <1>2, <3>1 DEF EnsureManagedSecurityGroup
      <4>2. s \in DOMAIN sgs' /\ sgs'[s].rules = Ports(job[c].spec)
        BY <4>1 DEF Put
      <4>3. PICK m : /\ m = [mem[c] EXCEPT !.sg = s]
                     /\ m.lb = mem[c].lb /\ m.groups = mem[c].groups /\ m.sg = s
        BY <1>s
      <4> QED
        BY <4>1, <4>2, <4>3
    <3>2. CASE mem[c].sg # None
      <4>1. /\ sgs' = [sgs EXCEPT ![mem[c].sg].rules = Ports(job[c].spec)]
            /\ mem[c].sg \in DOMAIN sgs /\ Answered(c, AfterGroups(c), mem[c])
        BY <1>2, <3>2 DEF EnsureManagedSecurityGroup
      <4>2. sgs[mem[c].sg] \in SgType
        BY <4>1 DEF TypeOK, CloudOK, Objects
      <4>3. mem[c].sg \in DOMAIN sgs' /\ sgs'[mem[c].sg].rules = Ports(job[c].spec)
        BY <4>1, <4>2 DEF SgType
      <4> QED
        BY <4>1, <4>3
    <3> QED
      BY <3>1, <3>2
  <2>3. \/ pc'[c] = AfterGroups(c) /\ mem'[c] = m /\ job'[c] = job[c]
        \/ pc'[c] = "idle" /\ mem'[c] = NoMem
    BY <1>c, <2>2, Lands
  <2>4. CASE pc'[c] = AfterGroups(c) /\ mem'[c] = m /\ job'[c] = job[c]
    BY <2>1, <2>2, <2>4 DEF GroupJob, Working, AfterGroups
  <2> QED
    BY <2>3, <2>4, GroupsRest
<1> QED
  BY <1>r, <1>1, <1>2

(* The groups are attached, or were attached already.                      *)
LEMMA GroupsAttach ==
    ASSUME TypeOK, LifecycleInv, NEW c \in Workers, GroupJob(c),
           \/ CreateLoadbalancer(c) \/ UpdateLoadbalancer(c)
           \/ PollReady(c)
    PROVE  GroupJob(c)'
<1>c. mem[c] \in MemType /\ HoldsInv(c)
  BY DEF TypeOK, WorkersOK, LifecycleInv
<1>1. CASE CreateLoadbalancer(c)
  <2>1. PICK l \in FreshLb :
        /\ lbs' = Put(lbs, l, [status |-> "creating", addr |-> FALSE, groups |-> WantedGroups(c)])
        /\ Answered(c, "list", [mem[c] EXCEPT !.lb = l, !.made = TRUE,
                                              !.groups = WantedGroups(c), !.sg = None])
    BY <1>1 DEF CreateLoadbalancer
  <2> DEFINE m == [mem[c] EXCEPT !.lb = l, !.made = TRUE, !.groups = WantedGroups(c), !.sg = None]
  <2>2. m.lb = l /\ m.groups = WantedGroups(c) /\ m.sg = None /\ Answered(c, "list", m)
    BY <1>c, <2>1 DEF MemType
  <2> HIDE DEF m
  <2>3. lbs'[l].groups = WantedGroups(c) /\ DOMAIN lbs' = {l}
    <3>1. DOMAIN lbs = {}
      BY <1>1, <1>c DEF CreateLoadbalancer, LifecycleInv, EmptyInv, Creating
    <3> QED
      BY <2>1, <3>1 DEF Put
  <2>4. \/ pc'[c] = "list" /\ mem'[c] = m /\ job'[c] = job[c]
        \/ pc'[c] = "idle" /\ mem'[c] = NoMem
    BY <1>c, <2>2, Lands
  <2>5. CASE pc'[c] = "list" /\ mem'[c] = m
    BY <2>2, <2>3, <2>5 DEF GroupJob, Working
  <2> QED
    BY <2>4, <2>5, GroupsRest
<1>2. CASE UpdateLoadbalancer(c)
  <2>1. pc[c] = "updateLb" /\ sgs' = sgs
    BY <1>2 DEF UpdateLoadbalancer
  <2>2. Answered(c, AfterUpdate(c), mem[c]) \/ Goto(c, AfterUpdate(c), mem[c]) \/ Abort(c)
    BY <1>2 DEF UpdateLoadbalancer
  <2>3. \/ pc'[c] = AfterUpdate(c) /\ mem'[c] = mem[c] /\ job'[c] = job[c]
        \/ pc'[c] = "idle" /\ mem'[c] = NoMem
    BY <1>c, <2>2, Lands
  <2>4. CASE pc'[c] = AfterUpdate(c) /\ mem'[c] = mem[c] /\ job'[c] = job[c]
    <3>1. ~Abort(c)
      BY <1>c, <2>4 DEF Abort, Rest, TypeOK, WorkersOK, AfterUpdate
    <3>2. mem[c].lb \in DOMAIN lbs' => lbs'[mem[c].lb].groups = WantedGroups(c)
      <4>1. CASE WantedGroups(c) = mem[c].groups
        BY <1>2, <2>1, <4>1 DEF UpdateLoadbalancer, GroupJob
      <4>2. CASE WantedGroups(c) # mem[c].groups
        <5>1. /\ lbs' = [lbs EXCEPT ![mem[c].lb].groups = WantedGroups(c)]
              /\ mem[c].lb \in DOMAIN lbs
          BY <1>2, <3>1, <4>2 DEF UpdateLoadbalancer
        <5>2. lbs[mem[c].lb] \in LbType
          BY <5>1 DEF TypeOK, CloudOK, Objects
        <5> QED
          BY <5>1, <5>2 DEF LbType
      <4> QED
        BY <4>1, <4>2
    <3>3. WantedGroups(c)' = WantedGroups(c)
      BY <2>4 DEF WantedGroups
    <3> QED
      BY <2>1, <2>4, <3>2, <3>3 DEF GroupJob, Working, AfterUpdate
  <2> QED
    BY <2>3, <2>4, GroupsRest
<1>3. CASE PollReady(c)
  <2>1. pc[c] = "poll" /\ lbs' = lbs /\ sgs' = sgs
    BY <1>3 DEF PollReady, cloud
  <2>2. PICK m : Goto(c, "publish", m) /\ m.lb = mem[c].lb /\ m.sg = mem[c].sg
    BY <1>3, <1>c DEF PollReady, MemType
  <2>3. pc'[c] = "publish" /\ mem'[c] = m /\ job'[c] = job[c]
    BY <1>c, <2>2, GoesTo
  <2>4. WantedGroups(c)' = WantedGroups(c)
    BY <2>2, <2>3 DEF WantedGroups
  <2> QED
    BY <2>1, <2>2, <2>3, <2>4 DEF GroupJob, Working
<1> QED
  BY <1>1, <1>2, <1>3

(* Every step preserves it.                                                *)
LEMMA NextGroup ==
    ASSUME TypeOK, LifecycleInv, Serial, Serial', GroupInv, [Next]_vars
    PROVE  GroupInv'
<1>c. PICK c \in Workers : Moves(c) /\ Turn(c)
  BY TakesTurns
<1>g. GroupJob(c)
  BY DEF GroupInv
<1>1. CASE \/ ListTargetGroups(c) \/ CreateTargetGroup(c) \/ UpdateTargetGroup(c)
           \/ SetAttachments(c) \/ ListListeners(c) \/ DeleteListener(c) \/ UpdateListener(c)
           \/ CreateListener(c) \/ ListUnusedTargetGroups(c) \/ DeleteTargetGroup(c)
  <2>1. CASE pc'[c] = "idle"
    BY <1>c, <2>1, GroupsRest, GroupTurn
  <2>2. CASE pc'[c] # "idle"
    <3>1. /\ UNCHANGED <<lbs, sgs>>
          /\ \/ pc[c] \in Working /\ pc'[c] \in Working
             \/ pc[c] = "purge" /\ pc'[c] = "purge"
      BY <1>1, <2>2, WorkingCalls
    <3>2. /\ job'[c] = job[c] /\ mem'[c].lb = mem[c].lb /\ mem'[c].groups = mem[c].groups
          /\ mem'[c].sg = mem[c].sg
      BY <1>1, <2>2, WorkingCalls
    <3> QED
      BY <1>c, <1>g, <3>1, <3>2, GroupsStand, GroupTurn
  <2> QED
    BY <2>1, <2>2
<1>2. CASE ~(\/ ListTargetGroups(c) \/ CreateTargetGroup(c) \/ UpdateTargetGroup(c)
             \/ SetAttachments(c) \/ ListListeners(c) \/ DeleteListener(c) \/ UpdateListener(c)
             \/ CreateListener(c) \/ ListUnusedTargetGroups(c) \/ DeleteTargetGroup(c))
  <2>1. GroupJob(c)'
    BY <1>c, <1>g, <1>2, GroupsElsewhere, GroupsFound, GroupsAttach DEF Moves, WorkerStep
  <2> QED
    BY <1>c, <2>1, GroupTurn
<1> QED
  BY <1>1, <1>2

(* It holds in every reachable state.                                      *)
LEMMA GroupInvariant == Spec /\ []Serial => []GroupInv
<1>1. Init => GroupInv
  BY DEF Init, GroupInv, GroupJob, Working
<1>2. TypeOK /\ LifecycleInv /\ Serial /\ Serial' /\ GroupInv /\ [Next]_vars => GroupInv'
  BY NextGroup
<1> QED
  BY <1>1, <1>2, TypeCorrect, Lifecycle, PTL DEF Spec

(* As long as jobs do not overlap: when a reconcile or a resync has        *)
(* reached the point where it reports success, exactly the requested       *)
(* security groups are attached to the load balancer and the managed one   *)
(* exists with the rules of this very spec, whether the load balancer was  *)
(* just created, updated, or left alone because the groups fetched at the  *)
(* start were right.                                                       *)
THEOREM GroupsAttached == Spec /\ []Serial => []SecurityGroupsAttached
<1>1. ASSUME NEW w \in Workers, GroupJob(w), pc[w] \in {"updated", "poll", "publish"},
             job[w].op \in {"ensure", "update"}, Lives(mem[w].lb)
      PROVE  /\ lbs[mem[w].lb].groups = WantedGroups(w)
             /\ IF job[w].spec.managed
                THEN mem[w].sg \in DOMAIN sgs /\ sgs[mem[w].sg].rules = Ports(job[w].spec)
                ELSE mem[w].sg = None
  BY <1>1 DEF GroupJob, Lives
<1>2. \A w \in Workers :
        WantedGroups(w).user = job[w].spec.groups /\ WantedGroups(w).managed = mem[w].sg
  BY DEF WantedGroups
<1>3. GroupInv => SecurityGroupsAttached
  BY <1>1, <1>2 DEF GroupInv, SecurityGroupsAttached
<1> QED
  BY <1>3, GroupInvariant, PTL

-----------------------------------------------------------------------------
(* Make before break.                                                      *)

(* Listener l answers port n.                                              *)
Answers(l, n) ==
    /\ l \in DOMAIN listeners /\ listeners[l].port = n /\ Lives(listeners[l].lb)
    /\ listeners[l].tg \in DOMAIN tgs /\ tgs[listeners[l].tg].nodes # {}

(* Neither an ensure nor an update takes a load balancer away: only one    *)
(* that is being deleted goes, and only a deletion asks for that.          *)
LEMMA LivesOn ==
    ASSUME TypeOK, LifecycleInv, NEW c \in Workers, Moves(c),
           job[c].op \in {"ensure", "update"},
           NEW k, Lives(k)
    PROVE  Lives(k)'
<1>c. RoleInv(c)
  BY DEF LifecycleInv
<1>k. k \in DOMAIN lbs /\ lbs[k].status # "deleting" /\ \A l \in DOMAIN lbs : lbs[l] \in LbType
  BY DEF Lives, TypeOK, CloudOK, Objects
<1>1. CASE lbs' = lbs
  BY <1>1, <1>k DEF Lives
<1>2. CASE CloudStep
  <2>1. PICK l \in DOMAIN lbs : LoadBalancerReady(l) \/ LoadBalancerRemoved(l)
    BY <1>2 DEF CloudStep
  <2>2. CASE LoadBalancerReady(l)
    BY <1>k, <2>2 DEF LoadBalancerReady, LbType, Lives
  <2>3. CASE LoadBalancerRemoved(l)
    BY <1>k, <2>3 DEF LoadBalancerRemoved, Drop, Restrict, Lives
  <2> QED
    BY <2>1, <2>2, <2>3
<1>3. CASE CreateLoadbalancer(c)
  <2>1. DOMAIN lbs = {}
    BY <1>3, <1>c DEF CreateLoadbalancer, LifecycleInv, EmptyInv, Creating
  <2> QED
    BY <1>k, <2>1
<1>4. CASE UpdateLoadbalancer(c)
  <2>1. lbs' = lbs \/ (mem[c].lb \in DOMAIN lbs /\ lbs' = [lbs EXCEPT ![mem[c].lb].groups = WantedGroups(c)])
    BY <1>4 DEF UpdateLoadbalancer
  <2> QED
    BY <1>1, <1>k, <2>1 DEF LbType, Lives
<1>5. ~DeleteLoadbalancer(c)
  BY DEF DeleteLoadbalancer
<1>6. CASE \/ ListTargetGroups(c) \/ CreateTargetGroup(c) \/ UpdateTargetGroup(c)
           \/ SetAttachments(c) \/ ListListeners(c) \/ DeleteListener(c) \/ UpdateListener(c)
           \/ CreateListener(c) \/ ListUnusedTargetGroups(c) \/ DeleteTargetGroup(c)
  BY <1>1, <1>6, <1>c, WorkingCalls
<1>7. CASE \/ StartSync \/ StartResync(c) \/ RemoveFinalizer \/ Publish \/ UserStep \/ Crash
           \/ UNCHANGED vars \/ CallFails(c)
  BY <1>1, <1>7, Records DEF StartSync, StartResync, Begin, UserStep, EditService,
     ChangeType, DeleteService, ChangeNodes, UserChanges, Crash, CallFails, vars, cloud
<1>8. CASE \/ GetLoadBalancer(c) \/ FetchLoadBalancer(c) \/ ListSecurityGroups(c)
           \/ EnsureManagedSecurityGroup(c) \/ ReturnUpdated(c) \/ PollReady(c) \/ AwaitGone(c)
           \/ ListRemainingTargetGroups(c) \/ DeleteManagedSecurityGroup(c)
  BY <1>1, <1>8 DEF GetLoadBalancer, FetchLoadBalancer, ListSecurityGroups,
     EnsureManagedSecurityGroup, ReturnUpdated, PollReady, AwaitGone, ListRemainingTargetGroups,
     DeleteManagedSecurityGroup, cloud
<1> QED
  BY <1>c, <1>2, <1>3, <1>4, <1>5, <1>6, <1>7, <1>8 DEF Moves, WorkerStep

(* The calls on target groups leave those that listeners forward to with   *)
(* servers.                                                                *)
LEMMA GroupCallsAnswer ==
    ASSUME TypeOK, NoDanglingInv, NEW c \in Workers, job[c].nodes # {},
           \/ CreateTargetGroup(c) \/ UpdateTargetGroup(c)
           \/ SetAttachments(c) \/ DeleteTargetGroup(c),
           NEW n, NEW l, Answers(l, n)
    PROVE  /\ listeners' = listeners
           /\ listeners[l].tg \in DOMAIN tgs' /\ tgs'[listeners[l].tg].nodes # {}
<1> DEFINE g == listeners[l].tg
<1>g. /\ l \in DOMAIN listeners /\ g \in DOMAIN tgs /\ tgs[g].nodes # {}
      /\ \A t \in DOMAIN tgs : tgs[t] \in TgType
  BY DEF Answers, TypeOK, CloudOK, Objects
<1>1. listeners' = listeners
  BY DEF CreateTargetGroup, UpdateTargetGroup, SetAttachments, DeleteTargetGroup
<1>2. CASE CreateTargetGroup(c)
  <2>1. PICK t \in FreshTg : \E v : tgs' = Put(tgs, t, v)
    BY <1>2 DEF CreateTargetGroup
  <2>2. t # g
    BY <1>g, <2>1 DEF FreshTg, FreshIds
  <2> QED
    BY <1>1, <1>g, <2>1, <2>2 DEF Put
<1>3. CASE UpdateTargetGroup(c)
  <2>1. tgs' = tgs \/ \E t \in DOMAIN tgs : \E a : tgs' = [tgs EXCEPT ![t].label = a]
    BY <1>3 DEF UpdateTargetGroup
  <2>2. ASSUME NEW t \in DOMAIN tgs, NEW a, tgs' = [tgs EXCEPT ![t].label = a]
        PROVE  g \in DOMAIN tgs' /\ tgs'[g].nodes = tgs[g].nodes
    BY <1>g, <2>2 DEF TgType
  <2> QED
    BY <1>1, <1>g, <2>1, <2>2
<1>4. CASE SetAttachments(c)
  <2>1. tgs' = tgs \/ (mem[c].att \in DOMAIN tgs /\ tgs' = [tgs EXCEPT ![mem[c].att].nodes = job[c].nodes])
    BY <1>4 DEF SetAttachments
  <2> QED
    BY <1>1, <1>g, <2>1 DEF TgType
<1>5. CASE DeleteTargetGroup(c)
  <2>1. PICK t \in mem[c].rm : tgs' = tgs \/ tgs' = Drop(tgs, {t})
    BY <1>5 DEF DeleteTargetGroup
  <2>2. t # g
    BY <1>5, <1>g DEF DeleteTargetGroup, NoDanglingInv, NoDanglingJob, Workers
  <2> QED
    BY <1>1, <1>g, <2>1, <2>2 DEF Drop, Restrict
<1> QED
  BY <1>2, <1>3, <1>4, <1>5

(* The calls on listeners keep a listener of every port that is wanted, on *)
(* a target group that has the job's servers already.                      *)
LEMMA ListenerCallsAnswer ==
    ASSUME TypeOK, ReconcileInv, NoDanglingInv, GroupInv,
           NEW c \in Workers, job[c].op \in {"ensure", "update"}, job[c].nodes # {},
           DeleteListener(c) \/ UpdateListener(c) \/ CreateListener(c),
           NEW n \in DesiredNumbers(job[c].spec), NEW l, Answers(l, n)
    PROVE  /\ tgs' = tgs /\ l \in DOMAIN listeners'
           /\ listeners'[l].port = listeners[l].port /\ listeners'[l].lb = listeners[l].lb
           /\ listeners'[l].tg \in DOMAIN tgs' /\ tgs'[listeners'[l].tg].nodes # {}
<1>l. /\ l \in DOMAIN listeners /\ listeners[l].port = n /\ listeners[l].lb \in DOMAIN lbs
      /\ listeners[l].tg \in DOMAIN tgs /\ tgs[listeners[l].tg].nodes # {}
      /\ \A k \in DOMAIN listeners : listeners[k] \in ListenerType
  BY DEF Answers, Lives, TypeOK, CloudOK, Objects
<1>c. c \in Workers /\ mem[c] \in MemType /\ pc[c] = "listeners" /\ tgs' = tgs
  BY DEF Workers, TypeOK, WorkersOK, DeleteListener, UpdateListener, CreateListener
<1>1. Collected(c) /\ Rewiring(c)
  <2>1. DOMAIN lbs \subseteq {mem[c].lb}
    BY <1>c DEF GroupInv, GroupJob, Working
  <2>2. Applies(c)
    BY <1>c, <1>l, <2>1 DEF Applies, StillThere, NoDanglingInv, NoDanglingJob
  <2> QED
    BY <1>c, <2>2 DEF ReconcileInv, WorkInv, Stage
<1>2. CASE DeleteListener(c)
  <2>1. PICK k \in mem[c].rm : listeners' = listeners \/ (k \in DOMAIN listeners /\ listeners' = Drop(listeners, {k}))
    BY <1>2 DEF DeleteListener
  <2>2. k \in DOMAIN listeners => k # l
    BY <1>1, <1>l, <2>1 DEF Rewiring
  <2> QED
    BY <1>c, <1>l, <2>1, <2>2 DEF Drop, Restrict
<1>3. CASE UpdateListener(c)
  <2>1. \/ listeners' = listeners
        \/ \E k \in DOMAIN listeners, g \in mem[c].got : \E a :
             listeners' = [listeners EXCEPT ![k].proto = a, ![k].tg = g.id]
    BY <1>3 DEF UpdateListener, TargetGroupsFor
  <2>2. ASSUME NEW k \in DOMAIN listeners, NEW g \in mem[c].got, NEW a,
               listeners' = [listeners EXCEPT ![k].proto = a, ![k].tg = g.id]
        PROVE  /\ l \in DOMAIN listeners'
               /\ listeners'[l].port = listeners[l].port /\ listeners'[l].lb = listeners[l].lb
               /\ listeners'[l].tg \in {listeners[l].tg, g.id}
    BY <1>l, <2>2 DEF ListenerType
  <2>3. \A g \in mem[c].got : g.id \in DOMAIN tgs /\ tgs[g.id].nodes # {}
    <3> SUFFICES ASSUME NEW g \in mem[c].got
                 PROVE  g.id \in DOMAIN tgs /\ tgs[g.id].nodes # {}
      OBVIOUS
    <3>1. g.id \in Ids /\ g.id # None
      BY <1>c, IdsAssumption DEF MemType
    <3> QED
      BY <1>1, <3>1 DEF Collected, ReturnedGood
  <2>4. CASE listeners' = listeners
    BY <1>c, <1>l, <2>4
  <2>5. CASE listeners' # listeners
    <3>1. PICK k \in DOMAIN listeners, g \in mem[c].got :
            \E a : listeners' = [listeners EXCEPT ![k].proto = a, ![k].tg = g.id]
      BY <2>1, <2>5
    <3>2. /\ l \in DOMAIN listeners'
          /\ listeners'[l].port = listeners[l].port /\ listeners'[l].lb = listeners[l].lb
          /\ listeners'[l].tg \in {listeners[l].tg, g.id}
      BY <2>2, <3>1
    <3>3. g.id \in DOMAIN tgs /\ tgs[g.id].nodes # {}
      BY <2>3
    <3> QED
      BY <1>c, <1>l, <3>2, <3>3
  <2> QED
    BY <2>4, <2>5
<1>4. CASE CreateListener(c)
  <2>1. listeners' = listeners \/ \E k \in FreshListener : \E v : listeners' = Put(listeners, k, v)
    BY <1>4 DEF CreateListener
  <2>2. l \notin FreshListener
    BY <1>l DEF FreshListener, FreshIds
  <2> QED
    BY <1>c, <1>l, <2>1, <2>2 DEF Put
<1> QED
  BY <1>2, <1>3, <1>4

(* One step of an ensure or an update, or of anything that happens         *)
(* meanwhile.                                                              *)
LEMMA ServedOn ==
    ASSUME TypeOK, LifecycleInv, ReconcileInv, Serial, Serial', NoDanglingInv, GroupInv,
           [Next]_vars, NEW c \in Workers,
           job[c].op \in {"ensure", "update"}, job[c].nodes # {},
           NEW n \in DesiredNumbers(job[c].spec), Served(n)
    PROVE  Served(n)'
<1>c. pc[c] # "idle"
  BY DEF LifecycleInv, RoleInv
<1>m. Moves(c)
  BY <1>c, TakesTurns DEF Turn
<1>1. PICK l : Answers(l, n)
  BY DEF Served, Answers
<1>2. PICK k : k = listeners[l].lb /\ Lives(k)
  BY <1>1 DEF Answers
<1>3. Lives(k)'
  BY <1>2, <1>m, LivesOn
<1>4. ASSUME l \in DOMAIN listeners', listeners'[l].port = listeners[l].port, listeners'[l].lb = k,
             listeners'[l].tg \in DOMAIN tgs', tgs'[listeners'[l].tg].nodes # {}
      PROVE  Served(n)'
  BY <1>1, <1>3, <1>4 DEF Served, Answers
<1>5. CASE UNCHANGED <<tgs, listeners>>
  BY <1>1, <1>2, <1>4, <1>5 DEF Answers
<1>6. CASE \/ CreateTargetGroup(c) \/ UpdateTargetGroup(c)
           \/ SetAttachments(c) \/ DeleteTargetGroup(c)
  BY <1>1, <1>2, <1>4, <1>6, GroupCallsAnswer DEF Answers
<1>7. CASE DeleteListener(c) \/ UpdateListener(c) \/ CreateListener(c)
  BY <1>1, <1>2, <1>4, <1>7, ListenerCallsAnswer
<1>8. CASE CloudStep
  <2>1. PICK b \in DOMAIN lbs : LoadBalancerReady(b) \/ LoadBalancerRemoved(b)
    BY <1>8 DEF CloudStep
  <2>2. CASE LoadBalancerReady(b)
    BY <1>5, <2>2 DEF LoadBalancerReady
  <2>3. CASE LoadBalancerRemoved(b)
    <3>1. k # b
      BY <1>2, <2>3 DEF LoadBalancerRemoved, Lives
    <3>2. tgs' = tgs /\ l \in DOMAIN listeners' /\ listeners'[l] = listeners[l]
      BY <1>1, <1>2, <2>3, <3>1 DEF LoadBalancerRemoved, Drop, Restrict, Answers
    <3> QED
      BY <1>1, <1>2, <1>4, <3>2 DEF Answers
  <2> QED
    BY <2>1, <2>2, <2>3
<1>9. CASE \/ StartSync \/ StartResync(c) \/ RemoveFinalizer \/ Publish \/ UserStep \/ Crash
           \/ UNCHANGED vars \/ CallFails(c)
  BY <1>5, <1>9, Records DEF StartSync, StartResync, Begin, UserStep, EditService,
     ChangeType, DeleteService, ChangeNodes, UserChanges, Crash, CallFails, vars, cloud
<1>10. CASE \/ GetLoadBalancer(c) \/ FetchLoadBalancer(c) \/ ListTargetGroups(c) \/ ListListeners(c)
            \/ ListUnusedTargetGroups(c) \/ ListSecurityGroups(c) \/ EnsureManagedSecurityGroup(c)
            \/ CreateLoadbalancer(c) \/ UpdateLoadbalancer(c) \/ ReturnUpdated(c) \/ PollReady(c)
            \/ DeleteLoadbalancer(c) \/ AwaitGone(c) \/ ListRemainingTargetGroups(c)
            \/ DeleteManagedSecurityGroup(c)
  BY <1>5, <1>10 DEF GetLoadBalancer, FetchLoadBalancer, ListTargetGroups, ListListeners,
     ListUnusedTargetGroups, ListSecurityGroups, EnsureManagedSecurityGroup, CreateLoadbalancer,
     UpdateLoadbalancer, ReturnUpdated, PollReady, DeleteLoadbalancer, AwaitGone,
     ListRemainingTargetGroups, DeleteManagedSecurityGroup, cloud
<1> QED
  BY <1>c, <1>m, <1>6, <1>7, <1>8, <1>9, <1>10 DEF Moves, WorkerStep

(* Make before break: as long as jobs do not overlap, a port that is       *)
(* answered and still wanted is answered after every single step of a      *)
(* reconcile or a resync: its listener is never deleted, is moved only to  *)
(* a target group that has its servers, and no target group a listener     *)
(* forwards to is deleted, whatever an earlier job left behind.            *)
THEOREM ServedKept == Spec /\ []Serial => ServedStaysServed
<1>1. TypeOK /\ LifecycleInv /\ ReconcileInv /\ Serial /\ Serial' /\ NoDanglingInv /\ GroupInv
      /\ [Next]_vars =>
        [\A w \in Workers : \A n \in DesiredNumbers(job[w].spec) :
           Served(n) /\ job[w].op \in {"ensure", "update"} /\ job[w].nodes # {}
             => Served(n)']_vars
  BY ServedOn
<1> QED
  BY <1>1, TypeCorrect, Lifecycle, ReconcileInvariant, NoDanglingInvariant, GroupInvariant, PTL
  DEF Spec, ServedStaysServed

-----------------------------------------------------------------------------
(* A Service that is gone leaves nothing, if no call fails.                *)

NoFaults == MaxFaults = 0

(* While c has its turn: without a load balancer there is no target group  *)
(* and no managed group, except while an ensure is about to create the     *)
(* load balancer and while a deletion cleans up after it; only that        *)
(* deletion waits for the removal, and what it still has to delete are all *)
(* target groups there are.                                                *)
CleanJob(c) ==
    /\ \A l \in DOMAIN lbs : lbs[l].status = "deleting" => pc[c] = "wait"
    /\ pc[c] \in Working \cup {"updateLb"} \/ (pc[c] = "group" /\ mem[c].lb # None) =>
         DOMAIN lbs # {}
    /\ \A s, t \in DOMAIN sgs : s = t
    /\ pc[c] = "group" /\ mem[c].sg = None => DOMAIN sgs = {}
    /\ DOMAIN lbs = {} /\ pc[c] \notin {"wait", "gone", "purge"} =>
         /\ DOMAIN tgs = {}
         /\ pc[c] \notin {"group", "createLb"} => DOMAIN sgs = {}
    /\ pc[c] = "purge" => mem[c].rm = DOMAIN tgs

(* Whose turn it is: the one who has a job, anybody if nobody has one.     *)
CleanInv ==
    \A c \in Workers : (\A x \in Workers \ {c} : pc[x] = "idle") => CleanJob(c)

(* It is enough to look at the worker whose turn it is.                    *)
LEMMA CleanTurn ==
    ASSUME NEW c \in Workers, Turn(c), CleanJob(c)'
    PROVE  CleanInv'
<1> SUFFICES ASSUME NEW w \in Workers, w # c, pc'[c] = "idle" PROVE CleanJob(w)'
  BY DEF CleanInv
<1>1. pc'[w] = "idle"
  BY DEF Turn
<1> QED
  BY <1>1 DEF CleanJob, Working

(* Every call is answered, and the process does not crash.                 *)
LEMMA AllAnswered ==
    ASSUME NoFaults, TypeOK, NEW w \in Workers
    PROVE  /\ ~Lost(w) /\ ~CallFails(w) /\ ~Crash /\ ~(faults < MaxFaults)
           /\ \A label, m : Answered(w, label, m) => Goto(w, label, m)
<1>1. ~(faults < MaxFaults)
  BY DEF NoFaults, TypeOK, WorkersOK
<1> QED
  BY <1>1 DEF Lost, CallFails, Crash, Answered

(* The cloud stays as it is and the worker goes on, where no clean-up and  *)
(* no creation is under way.                                               *)
LEMMA CleanSame ==
    ASSUME NEW c \in Workers, CleanJob(c), UNCHANGED <<lbs, tgs, sgs>>,
           pc[c] \notin {"wait", "gone", "purge", "group", "createLb"},
           pc'[c] \notin {"group", "purge"},
           pc'[c] \in Working \cup {"updateLb"} => DOMAIN lbs # {}
    PROVE  CleanJob(c)'
BY DEF CleanJob

(* There is a load balancer that stays.                                    *)
LEMMA CleanWithLb ==
    ASSUME NEW c \in Workers, CleanJob(c), DOMAIN lbs' # {}, sgs' = sgs,
           \A l \in DOMAIN lbs' : lbs'[l].status = "deleting" => pc'[c] = "wait",
           pc'[c] \notin {"group", "purge"}
    PROVE  CleanJob(c)'
BY DEF CleanJob

(* The steps that leave the cloud alone.                                   *)
LEMMA CleanElsewhere ==
    ASSUME NoFaults, TypeOK, LifecycleInv, NEW c \in Workers, CleanJob(c),
           \/ c = Controller /\ (StartSync \/ RemoveFinalizer \/ Publish)
           \/ c \in Updaters /\ StartResync(c)
           \/ UserStep \/ UNCHANGED vars
           \/ GetLoadBalancer(c) \/ FetchLoadBalancer(c)
           \/ ReturnUpdated(c) \/ PollReady(c) \/ AwaitGone(c)
    PROVE  CleanJob(c)'
<1>1. CASE \/ c = Controller /\ StartSync
           \/ c \in Updaters /\ StartResync(c)
  <2>1. PICK label \in {"fetch", "exists"}, op \in {"ensure", "update", "delete"} :
          Begin(c, label, op)
    BY <1>1 DEF StartSync, StartResync
  <2>2. pc[c] = "idle" /\ pc'[c] = label /\ UNCHANGED <<lbs, tgs, sgs>>
    BY <2>1 DEF Begin, TypeOK, WorkersOK, cloud
  <2> QED
    BY <2>2, CleanSame DEF Working
<1>2. CASE (c = Controller /\ (RemoveFinalizer \/ Publish)) \/ ReturnUpdated(c)
  <2>1. /\ pc[c] \in {"release", "publish", "updated"} /\ pc'[c] \in {"publish", "idle"}
        /\ UNCHANGED <<lbs, tgs, sgs>>
    BY <1>2, Records DEF ReturnUpdated, Return, Rest, TypeOK, WorkersOK, cloud
  <2> QED
    BY <2>1, CleanSame DEF Working
<1>3. CASE UserStep \/ UNCHANGED vars
  <2>1. UNCHANGED <<pc, mem, lbs, tgs, sgs>>
    BY <1>3 DEF UserStep, EditService, ChangeType, DeleteService, ChangeNodes, UserChanges, vars,
       cloud
  <2> QED
    BY <2>1 DEF CleanJob
<1>4. CASE GetLoadBalancer(c) \/ PollReady(c)
  <2>1. PICK label \in {"release", "publish", "fetch"} : \E m : Goto(c, label, m)
    BY <1>4 DEF GetLoadBalancer, PollReady
  <2>2. pc'[c] = label /\ pc[c] \in {"exists", "poll"} /\ UNCHANGED <<lbs, tgs, sgs>>
    BY <1>4, <2>1, GoesTo DEF GetLoadBalancer, PollReady, cloud
  <2> QED
    BY <2>2, CleanSame DEF Working
<1>5. CASE FetchLoadBalancer(c)
  <2>1. pc[c] = "fetch" /\ UNCHANGED <<lbs, tgs, sgs>>
    BY <1>5 DEF FetchLoadBalancer, cloud
  <2>2. \/ DOMAIN lbs # {} /\ \E label \in {"sweep", "list"} : \E m : Goto(c, label, m)
        \/ (\E label \in {"create", "release"} : Goto(c, label, mem[c])) \/ Abort(c)
    BY <1>5 DEF FetchLoadBalancer, FetchNothing
  <2>3. \/ DOMAIN lbs # {} /\ pc'[c] \in {"sweep", "list"}
        \/ pc'[c] \in {"create", "release", "idle"}
    BY <2>2, Lands, GoesTo
  <2> QED
    BY <2>1, <2>3, CleanSame DEF Working
<1>6. CASE AwaitGone(c)
  <2>1. pc'[c] = "gone" /\ UNCHANGED <<lbs, tgs, sgs>> /\ DOMAIN lbs = {}
    BY <1>6, GoesTo DEF AwaitGone, cloud
  <2> QED
    BY <2>1 DEF CleanJob, Working
<1> QED
  BY <1>1, <1>2, <1>3, <1>4, <1>5, <1>6

(* The cloud provisions a load balancer, or removes it while the deletion  *)
(* waits for that.                                                         *)
LEMMA CleanCloud ==
    ASSUME TypeOK, LifecycleInv, NEW c \in Workers, CleanJob(c), CloudStep
    PROVE  CleanJob(c)'
<1>l. \A l \in DOMAIN lbs : lbs[l] \in LbType
  BY DEF TypeOK, CloudOK, Objects
<1>1. PICK l \in DOMAIN lbs : LoadBalancerReady(l) \/ LoadBalancerRemoved(l)
  BY DEF CloudStep
<1>2. CASE LoadBalancerReady(l)
  <2>1. DOMAIN lbs' = DOMAIN lbs /\ \A k \in DOMAIN lbs : lbs'[k].status \in {lbs[k].status, "ready"}
    BY <1>l, <1>2 DEF LoadBalancerReady, LbType
  <2>2. UNCHANGED <<pc, mem, tgs, sgs>>
    BY <1>2 DEF LoadBalancerReady
  <2> QED
    BY <2>1, <2>2 DEF CleanJob
<1>3. CASE LoadBalancerRemoved(l)
  <2>1. UNCHANGED <<pc, mem, tgs, sgs>> /\ lbs' = Drop(lbs, {l}) /\ pc[c] = "wait"
    BY <1>3 DEF LoadBalancerRemoved, CleanJob
  <2>2. DOMAIN lbs' \subseteq DOMAIN lbs
    BY <2>1 DEF Drop, Restrict
  <2> QED
    BY <2>1 DEF CleanJob, Working
<1> QED
  BY <1>1, <1>2, <1>3

(* The calls on target groups and listeners.                               *)
LEMMA CleanWorking ==
    ASSUME NoFaults, TypeOK, LifecycleInv, NEW c \in Workers, CleanJob(c),
           \/ ListTargetGroups(c) \/ CreateTargetGroup(c)
           \/ UpdateTargetGroup(c) \/ SetAttachments(c)
           \/ ListListeners(c) \/ DeleteListener(c)
           \/ UpdateListener(c) \/ CreateListener(c)
           \/ ListUnusedTargetGroups(c) \/ DeleteTargetGroup(c)
    PROVE  CleanJob(c)'
<1>c. mem[c] \in MemType
  BY DEF TypeOK, WorkersOK
<1>1. UNCHANGED <<lbs, sgs>> /\ (pc'[c] \in Working \cup {"idle"} \/ pc[c] = "purge")
  BY <1>c, WorkingCalls
<1>2. CASE pc[c] # "purge"
  <2>1. pc[c] \in Working
    BY <1>2 DEF Working, ListTargetGroups, CreateTargetGroup, UpdateTargetGroup, SetAttachments,
       ListListeners, TargetGroupsDone, DeleteListener, UpdateListener, CreateListener,
       ListUnusedTargetGroups, ListenersDone, DeleteTargetGroup
  <2>2. DOMAIN lbs # {} /\ \A l \in DOMAIN lbs : lbs[l].status # "deleting"
    BY <2>1 DEF CleanJob, Working
  <2> QED
    BY <1>1, <1>2, <2>2, CleanWithLb DEF Working
<1>3. CASE pc[c] = "purge"
  <2>1. DeleteTargetGroup(c)
    BY <1>3 DEF ListTargetGroups, CreateTargetGroup, UpdateTargetGroup, SetAttachments,
       ListListeners, TargetGroupsDone, DeleteListener, UpdateListener, CreateListener,
       ListUnusedTargetGroups, ListenersDone
  <2>2. mem[c].rm = DOMAIN tgs
    BY <1>3 DEF CleanJob
  <2>3. PICK t \in DOMAIN tgs : /\ tgs' = Drop(tgs, {t})
                                /\ Answered(c, "purge", [mem[c] EXCEPT !.rm = @ \ {t}])
    BY <1>3, <2>1, <2>2 DEF DeleteTargetGroup
  <2>4. PICK m : m = [mem[c] EXCEPT !.rm = @ \ {t}]
    OBVIOUS
  <2>5. m.rm = mem[c].rm \ {t}
    BY <1>c, <2>4 DEF MemType
  <2>6. Goto(c, "purge", m)
    BY <1>c, <2>3, <2>4, AllAnswered
  <2>7. pc'[c] = "purge" /\ mem'[c] = m
    BY <1>c, <2>6, GoesTo
  <2>8. DOMAIN tgs' = DOMAIN tgs \ {t}
    BY <2>3 DEF Drop, Restrict
  <2> QED
    BY <1>1, <1>3, <2>2, <2>5, <2>7, <2>8 DEF CleanJob, Working
<1> QED
  BY <1>2, <1>3

(* The managed group is looked up, and created only if there is none.      *)
LEMMA CleanGroups ==
    ASSUME NoFaults, TypeOK, LifecycleInv, NEW c \in Workers, GroupJob(c), CleanJob(c),
           ListSecurityGroups(c) \/ EnsureManagedSecurityGroup(c)
    PROVE  CleanJob(c)'
<1>c. mem[c] \in MemType /\ HoldsInv(c) /\ DOMAIN sgs \subseteq Ids
  BY DEF TypeOK, WorkersOK, CloudOK, Objects, LifecycleInv
<1>1. CASE ListSecurityGroups(c)
  <2>1. /\ pc[c] \in {"create", "unused"} /\ UNCHANGED <<lbs, tgs, sgs>>
        /\ pc[c] = "create" => mem[c].lb = None
        /\ pc[c] = "unused" => mem[c].lb # None
    BY <1>1, <1>c DEF ListSecurityGroups, cloud, HoldsInv
  <2>2. /\ mem[c].sg = None /\ (pc[c] = "unused" => DOMAIN lbs # {})
        /\ \A l \in DOMAIN lbs : lbs[l].status # "deleting"
    BY <2>1 DEF GroupJob, CleanJob, Working
  <2>3. \/ Abort(c) \/ Goto(c, AfterGroups(c), mem[c])
        \/ DOMAIN sgs = {} /\ Goto(c, "group", mem[c])
        \/ \E s \in DOMAIN sgs : Goto(c, "group", [mem[c] EXCEPT !.sg = s])
    BY <1>1 DEF ListSecurityGroups
  <2>4. CASE Abort(c) \/ Goto(c, AfterGroups(c), mem[c])
    <3>1. pc'[c] = "idle" \/ pc'[c] = AfterGroups(c)
      BY <1>c, <2>4, Lands
    <3>2. pc[c] = "create" => AfterGroups(c) = "createLb"
      BY <2>1 DEF AfterGroups
    <3>3. pc'[c] \notin {"group", "purge"} /\ (pc'[c] \in Working \cup {"updateLb"} => DOMAIN lbs # {})
      BY <2>1, <2>2, <3>1, <3>2 DEF AfterGroups, Working
    <3> QED
      BY <2>1, <3>3, CleanSame
  <2>5. ASSUME NEW m, Goto(c, "group", m), m.lb = mem[c].lb, m.sg = None => DOMAIN sgs = {}
        PROVE  CleanJob(c)'
    <3>1. pc'[c] = "group" /\ mem'[c] = m
      BY <1>c, <2>5, GoesTo
    <3> QED
      BY <2>1, <2>2, <2>5, <3>1 DEF CleanJob, Working
  <2>6. CASE DOMAIN sgs = {} /\ Goto(c, "group", mem[c])
    BY <2>5, <2>6
  <2>7. ASSUME NEW s \in DOMAIN sgs, Goto(c, "group", [mem[c] EXCEPT !.sg = s])
        PROVE  CleanJob(c)'
    <3>1. PICK m : m = [mem[c] EXCEPT !.sg = s]
      OBVIOUS
    <3>2. m.lb = mem[c].lb /\ m.sg = s
      BY <1>c, <3>1 DEF MemType
    <3>3. s # None
      BY <1>c, IdsAssumption
    <3> QED
      BY <2>5, <2>7, <3>1, <3>2, <3>3
  <2> QED
    BY <2>3, <2>4, <2>6, <2>7
<1>2. CASE EnsureManagedSecurityGroup(c)
  <2>1. pc[c] = "group" /\ UNCHANGED <<lbs, tgs>> /\ mem[c].sg \in DOMAIN sgs \cup {None}
    BY <1>2 DEF EnsureManagedSecurityGroup, GroupJob
  <2>2. PICK m : Goto(c, AfterGroups(c), m)
    BY <1>2, <1>c, <2>1, AllAnswered DEF EnsureManagedSecurityGroup
  <2>3. pc'[c] = AfterGroups(c)
    BY <1>c, <2>2, GoesTo
  <2>4. \A s, t \in DOMAIN sgs' : s = t
    <3>1. CASE mem[c].sg = None
      <4>1. DOMAIN sgs = {}
        BY <2>1, <3>1 DEF CleanJob
      <4>2. PICK s : \E v : sgs' = Put(sgs, s, v)
        BY <1>2, <3>1 DEF EnsureManagedSecurityGroup
      <4> QED
        BY <4>1, <4>2 DEF Put
    <3>2. CASE mem[c].sg # None
      <4>1. DOMAIN sgs' = DOMAIN sgs
        BY <1>2, <2>1, <3>2 DEF EnsureManagedSecurityGroup
      <4> QED
        BY <4>1 DEF CleanJob
    <3> QED
      BY <3>1, <3>2
  <2> QED
    BY <2>1, <2>3, <2>4 DEF CleanJob, AfterGroups, Working
<1> QED
  BY <1>1, <1>2

(* The calls on the load balancer, and the clean-up after its removal.     *)
LEMMA CleanLifecycle ==
    ASSUME NoFaults, TypeOK, LifecycleInv, ListenersOnLbs, NEW c \in Workers, CleanJob(c),
           \/ CreateLoadbalancer(c) \/ UpdateLoadbalancer(c)
           \/ DeleteLoadbalancer(c) \/ ListRemainingTargetGroups(c)
           \/ DeleteManagedSecurityGroup(c)
    PROVE  CleanJob(c)'
<1>c. mem[c] \in MemType /\ EmptyInv(c)
  BY DEF TypeOK, WorkersOK, LifecycleInv
<1>l. \A l \in DOMAIN lbs : lbs[l] \in LbType
  BY DEF TypeOK, CloudOK, Objects
<1>1. CASE CreateLoadbalancer(c)
  <2>1. DOMAIN lbs = {} /\ sgs' = sgs
    BY <1>1, <1>c DEF CreateLoadbalancer, EmptyInv, Creating
  <2>2. PICK l : lbs' = Put(lbs, l, [status |-> "creating", addr |-> FALSE, groups |-> WantedGroups(c)])
    BY <1>1 DEF CreateLoadbalancer
  <2>3. DOMAIN lbs' = {l} /\ lbs'[l].status = "creating"
    BY <2>1, <2>2 DEF Put
  <2>4. PICK m : Answered(c, "list", m)
    BY <1>1 DEF CreateLoadbalancer
  <2>5. pc'[c] \in {"list", "idle"}
    BY <1>c, <2>4, Lands
  <2> QED
    BY <2>1, <2>3, <2>5, CleanWithLb
<1>2. CASE UpdateLoadbalancer(c)
  <2>1. pc[c] = "updateLb" /\ sgs' = sgs
    BY <1>2 DEF UpdateLoadbalancer
  <2>2. lbs' = lbs \/ (mem[c].lb \in DOMAIN lbs /\ lbs' = [lbs EXCEPT ![mem[c].lb].groups = WantedGroups(c)])
    BY <1>2 DEF UpdateLoadbalancer
  <2>3. DOMAIN lbs' = DOMAIN lbs /\ \A l \in DOMAIN lbs : lbs'[l].status = lbs[l].status
    BY <1>l, <2>2 DEF LbType
  <2>4. DOMAIN lbs # {} /\ \A l \in DOMAIN lbs : lbs[l].status # "deleting"
    BY <2>1 DEF CleanJob
  <2>5. Answered(c, AfterUpdate(c), mem[c]) \/ Goto(c, AfterUpdate(c), mem[c]) \/ Abort(c)
    BY <1>2 DEF UpdateLoadbalancer
  <2>6. pc'[c] \in {"poll", "publish", "updated", "idle"}
    BY <1>c, <2>5, Lands DEF AfterUpdate
  <2> QED
    BY <2>1, <2>3, <2>4, <2>6, CleanWithLb
<1>3. CASE DeleteLoadbalancer(c)
  <2>1. pc[c] = "unused" /\ sgs' = sgs
    BY <1>3 DEF DeleteLoadbalancer
  <2>2. DOMAIN lbs # {} /\ \A l \in DOMAIN lbs : lbs[l].status # "deleting"
    BY <2>1 DEF CleanJob, Working
  <2>3. CASE mem[c].lb \in DOMAIN lbs
    <3>1. lbs' = [lbs EXCEPT ![mem[c].lb].status = "deleting"] /\ Goto(c, "wait", mem[c])
      BY <1>c, <1>3, <2>3, AllAnswered DEF DeleteLoadbalancer
    <3>2. DOMAIN lbs' = DOMAIN lbs /\ pc'[c] = "wait"
      BY <1>c, <3>1, GoesTo
    <3> QED
      BY <2>1, <2>2, <3>2, CleanWithLb
  <2>4. CASE mem[c].lb \notin DOMAIN lbs
    <3>1. lbs' = lbs /\ pc'[c] = "idle"
      BY <1>c, <1>3, <2>4, Lands DEF DeleteLoadbalancer
    <3> QED
      BY <2>1, <2>2, <3>1, CleanWithLb
  <2> QED
    BY <2>3, <2>4
<1>4. CASE ListRemainingTargetGroups(c)
  <2>1. pc[c] = "gone" /\ UNCHANGED <<lbs, tgs, sgs>> /\ DOMAIN lbs = {}
    BY <1>4, <1>c DEF ListRemainingTargetGroups, cloud, EmptyInv, Removed
  <2>2. DOMAIN listeners = {}
    BY <2>1 DEF ListenersOnLbs
  <2>3. Unreferenced = DOMAIN tgs
    BY <2>2 DEF Unreferenced
  <2>4. PICK m : Goto(c, "purge", m) /\ m.rm = Unreferenced
    BY <1>4, <1>c DEF ListRemainingTargetGroups, MemType
  <2>5. pc'[c] = "purge" /\ mem'[c] = m
    BY <1>c, <2>4, GoesTo
  <2> QED
    BY <2>1, <2>3, <2>4, <2>5 DEF CleanJob, Working
<1>5. CASE DeleteManagedSecurityGroup(c)
  <2>1. /\ pc[c] = "purge" /\ mem[c].rm = {} /\ UNCHANGED <<lbs, tgs>> /\ DOMAIN lbs = {}
        /\ pc'[c] = "release"
    BY <1>5, <1>c DEF DeleteManagedSecurityGroup, EmptyInv, Removed, TypeOK, WorkersOK
  <2>2. DOMAIN tgs = {}
    BY <2>1 DEF CleanJob
  <2>3. (DOMAIN sgs = {} /\ sgs' = sgs) \/ \E s \in DOMAIN sgs : sgs' = Drop(sgs, {s})
    BY <1>5, <1>c, AllAnswered DEF DeleteManagedSecurityGroup
  <2>4. DOMAIN sgs' = {}
    <3>1. \A s \in DOMAIN sgs : DOMAIN Drop(sgs, {s}) = {}
      BY DEF CleanJob, Drop, Restrict
    <3> QED
      BY <2>3, <3>1
  <2> QED
    BY <2>1, <2>2, <2>4 DEF CleanJob, Working
<1> QED
  BY <1>1, <1>2, <1>3, <1>4, <1>5

(* Every step preserves it.                                                *)
LEMMA NextClean ==
    ASSUME NoFaults, TypeOK, LifecycleInv, ReconcileInv, Serial, Serial', GroupInv, CleanInv,
           [Next]_vars
    PROVE  CleanInv'
<1>1. PICK c \in Workers : Moves(c) /\ Turn(c)
  BY TakesTurns
<1>2. ListenersOnLbs /\ GroupJob(c) /\ CleanJob(c) /\ ~CallFails(c) /\ ~Crash
  BY <1>1, AllAnswered DEF ReconcileInv, GroupInv, CleanInv, Turn
<1>3. CleanJob(c)'
  BY <1>1, <1>2, CleanElsewhere, CleanCloud, CleanWorking, CleanGroups, CleanLifecycle
  DEF Moves, WorkerStep
<1> QED
  BY <1>1, <1>3, CleanTurn

(* It holds in every reachable state.                                      *)
LEMMA CleanInvariant ==
    ASSUME NoFaults
    PROVE  Spec /\ []Serial => []CleanInv
<1>1. Init => CleanInv
  BY DEF Init, CleanInv, CleanJob, Nothing, Working
<1>2. TypeOK /\ LifecycleInv /\ ReconcileInv /\ Serial /\ Serial' /\ GroupInv /\ CleanInv
        /\ [Next]_vars => CleanInv'
  BY NextClean
<1> QED
  BY <1>1, <1>2, TypeCorrect, Lifecycle, ReconcileInvariant, GroupInvariant, PTL DEF Spec

(* If no call fails, is lost or is cut short by a crash, and jobs do not   *)
(* overlap, nothing that was created for a Service is left when the        *)
(* Service is gone, through any edits, changes of its type and resyncs     *)
(* before: load balancer, listeners, target groups, managed security       *)
(* group.  Run delete_retry_leak shows what one failed call leaves behind. *)
THEOREM NothingLeft ==
    ASSUME NoFaults
    PROVE  Spec /\ []Serial => []GoneLeavesNothing
<1>1. NeverOrphaned /\ ReconcileInv /\ CleanInv => GoneLeavesNothing
  <2> SUFFICES ASSUME NeverOrphaned, ReconcileInv, CleanInv, ServiceGone
               PROVE  DOMAIN lbs = {} /\ DOMAIN tgs = {} /\ DOMAIN listeners = {} /\ DOMAIN sgs = {}
    BY DEF GoneLeavesNothing
  <2>1. /\ Controller \in Workers /\ (\A w \in Workers : pc[w] = "idle")
        /\ DOMAIN lbs = {}
    BY DEF ServiceGone, NeverOrphaned, Workers
  <2>2. CleanJob(Controller)
    BY <2>1 DEF CleanInv
  <2> QED
    BY <2>1, <2>2 DEF CleanJob, ReconcileInv, ListenersOnLbs
<1> QED
  BY <1>1, ReconcileInvariant, CleanInvariant, Held, PTL

-----------------------------------------------------------------------------
(* At rest.                                                                *)

(* What the queue and the finalizer owe each other.  A clean-up that is    *)
(* still to be done is queued or under way, and no deletion waits without  *)
(* the finalizer.                                                          *)
QueuedInv ==
    /\ svc.phase = "deleting" => finalizer
    /\ ~dirty /\ svc.phase \in {"clusterIP", "deleting"} =>
         IF pc[Controller] = "idle" THEN ~finalizer ELSE job[Controller].op = "delete"
    /\ pc[Controller] # "updated"

(* The queue during a step of worker w: an error puts the key back, and    *)
(* only an error ends a job before its outcome is recorded.                *)
Queues(w) ==
    /\ dirty => dirty'
    /\ w = Controller => pc'[w] # "updated" /\ (pc'[w] = "idle" => dirty')

(* Going on, giving up and losing an answer.                               *)
LEMMA EndsQueue ==
    ASSUME TypeOK, NEW w \in Workers,
           Lost(w) \/ Abort(w) \/ (\E label \in Labels \ {"idle", "updated"} : \E m : Goto(w, label, m))
    PROVE  Queues(w)
<1>1. CASE Lost(w) \/ Abort(w)
  BY <1>1 DEF Queues, Lost, Abort, Rest, TypeOK, WorkersOK
<1>2. ASSUME NEW label \in Labels \ {"idle", "updated"}, NEW m, Goto(w, label, m) PROVE Queues(w)
  BY <1>2 DEF Queues, Goto, TypeOK, WorkersOK
<1> QED
  BY <1>1, <1>2

(* Every step of a worker is one of these, but for the end of an update    *)
(* job, which is no job of the Controller's.                               *)
LEMMA StepQueues ==
    ASSUME TypeOK, LifecycleInv, HeldInv, NEW w \in Workers, WorkerStep(w) \/ CallFails(w),
           pc[Controller] # "updated"
    PROVE  Queues(w)
<1>1. CASE GetLoadBalancer(w) \/ FetchLoadBalancer(w)
  BY <1>1, EndsQueue DEF GetLoadBalancer, FetchLoadBalancer, FetchNothing, Labels
<1>2. CASE ListTargetGroups(w) \/ CreateTargetGroup(w) \/ UpdateTargetGroup(w) \/ SetAttachments(w)
  BY <1>2, EndsQueue DEF ListTargetGroups, CreateTargetGroup, UpdateTargetGroup, SetAttachments,
                         Answered, Labels
<1>3. CASE ListListeners(w) \/ DeleteListener(w) \/ UpdateListener(w) \/ CreateListener(w)
  BY <1>3, EndsQueue DEF ListListeners, DeleteListener, UpdateListener, CreateListener, Answered,
                         Labels
<1>4. CASE ListUnusedTargetGroups(w) \/ DeleteTargetGroup(w) \/ AwaitGone(w)
           \/ ListRemainingTargetGroups(w) \/ DeleteLoadbalancer(w)
  BY <1>4, EndsQueue DEF ListUnusedTargetGroups, DeleteTargetGroup, AwaitGone,
                         ListRemainingTargetGroups, DeleteLoadbalancer, Answered, Labels
<1>5. CASE ListSecurityGroups(w) \/ EnsureManagedSecurityGroup(w) \/ CreateLoadbalancer(w)
           \/ PollReady(w)
  BY <1>5, EndsQueue DEF ListSecurityGroups, EnsureManagedSecurityGroup, CreateLoadbalancer,
                         PollReady, Answered, AfterGroups, Labels
<1>6. CASE UpdateLoadbalancer(w)
  <2>1. CASE w # Controller
    BY <1>6, <2>1 DEF UpdateLoadbalancer, Answered, Goto, Lost, Abort, Queues
  <2>2. CASE w = Controller
    <3>1. job[w].op = "ensure"
      BY <1>6, <2>2 DEF UpdateLoadbalancer, HeldInv, LifecycleInv, RoleInv, TypeOK, WorkersOK,
                        JobType, Ops
    <3>2. AfterUpdate(w) \in Labels \ {"idle", "updated"}
      BY <3>1 DEF AfterUpdate, Labels
    <3> QED
      BY <1>6, <3>2, EndsQueue DEF UpdateLoadbalancer, Answered
  <2> QED
    BY <2>1, <2>2
<1>7. CASE DeleteManagedSecurityGroup(w)
  BY <1>7 DEF DeleteManagedSecurityGroup, Queues, TypeOK, WorkersOK
<1>8. CASE ReturnUpdated(w)
  BY <1>8 DEF ReturnUpdated, Return, Queues
<1>9. CASE CallFails(w)
  BY <1>9 DEF CallFails, Rest, Queues, TypeOK, WorkersOK
<1> QED
  BY <1>1, <1>2, <1>3, <1>4, <1>5, <1>6, <1>7, <1>8, <1>9 DEF WorkerStep

(* A worker's step keeps the invariant.                                    *)
LEMMA StepQueued ==
    ASSUME TypeOK, LifecycleInv, HeldInv, QueuedInv, NEW w \in Workers,
           WorkerStep(w) \/ CallFails(w)
    PROVE  QueuedInv'
<1>1. Works(w)
  BY QuietWorks, CreateWorks, DeleteWorks DEF WorkerStep, Quiet
<1>2. Queues(w)
  BY StepQueues DEF QueuedInv
<1>3. UNCHANGED <<svc, finalizer, published>>
  BY <1>1 DEF Works, kube
<1>4. CASE w = Controller
  BY <1>1, <1>2, <1>3, <1>4 DEF Works, Queues, QueuedInv
<1>5. CASE w # Controller
  <2>1. UNCHANGED <<pc[Controller], job[Controller]>>
    BY <1>1, <1>5 DEF Works, Workers
  <2> QED
    BY <1>2, <1>3, <2>1 DEF Queues, QueuedInv
<1> QED
  BY <1>4, <1>5

(* So does every other step.                                               *)
LEMMA NextQueued == TypeOK /\ LifecycleInv /\ HeldInv /\ QueuedInv /\ [Next]_vars => QueuedInv'
<1> SUFFICES ASSUME TypeOK, LifecycleInv, HeldInv, QueuedInv, [Next]_vars PROVE QueuedInv'
  OBVIOUS
<1>t. Controller \in Workers /\ svc \in [phase : Phases, spec : Specs]
  BY DEF Workers, TypeOK, KubeOK
<1>1. CASE StartSync
  <2>1. ASSUME NEW op, NEW label, Begin(Controller, label, op)
        PROVE  job'[Controller].op = op /\ pc'[Controller] = label /\ UNCHANGED <<svc, published>>
    BY <2>1, <1>t DEF Begin, TypeOK, WorkersOK
  <2>2. CASE svc.phase = "active" /\ Begin(Controller, "fetch", "ensure") /\ finalizer' = TRUE
    BY <2>1, <2>2 DEF QueuedInv
  <2>3. CASE Begin(Controller, "exists", "delete") /\ UNCHANGED finalizer
    BY <2>1, <2>3 DEF QueuedInv
  <2> QED
    BY <1>1, <2>2, <2>3 DEF StartSync
<1>2. ASSUME NEW w \in Updaters, StartResync(w) PROVE QueuedInv'
  <2>1. w # Controller /\ UNCHANGED <<svc, finalizer, published, dirty>>
    BY <1>2, WorkersAssumption DEF StartResync, Begin
  <2>2. job'[Controller].op = job[Controller].op /\ pc'[Controller] = pc[Controller]
    BY <1>2, <1>t, <2>1 DEF StartResync, Begin, TypeOK, WorkersOK, JobType
  <2> QED
    BY <2>1, <2>2 DEF QueuedInv
<1>3. CASE Publish
  <2>1. /\ pc'[Controller] = "idle" /\ (dirty => dirty') /\ pc[Controller] = "publish"
        /\ UNCHANGED <<svc, finalizer>>
    BY <1>3, Records, PublishOutcome DEF Publish
  <2>2. job[Controller].op = "delete" => ~finalizer
    BY <2>1 DEF HeldInv
  <2> QED
    BY <2>1, <2>2 DEF QueuedInv
<1>7. CASE RemoveFinalizer
  <2>1. finalizer' = FALSE /\ svc'.phase # "deleting"
    BY <1>7, RemoveOutcome
  <2>2. (dirty => dirty') /\ pc'[Controller] # "updated" /\ (pc'[Controller] = "idle" => dirty')
    BY <1>7, Records
  <2>3. pc'[Controller] = "idle" \/ job'[Controller].op = "delete"
    BY <1>7, Records
  <2> QED
    BY <2>1, <2>2, <2>3 DEF QueuedInv
<1>4. CASE CloudStep
  BY <1>4 DEF CloudStep, LoadBalancerReady, LoadBalancerRemoved, kube, QueuedInv
<1>5. CASE UserStep \/ UNCHANGED vars
  <2>1. UNCHANGED <<finalizer, published, pc, job>>
    BY <1>5 DEF UserStep, EditService, ChangeType, DeleteService, ChangeNodes, UserChanges, vars
  <2>2. dirty' \/ UNCHANGED <<svc, dirty>>
    BY <1>5 DEF UserStep, EditService, ChangeType, DeleteService, ChangeNodes, vars
  <2>3. svc'.phase = "deleting" => finalizer
    BY <1>5, <1>t DEF UserStep, EditService, ChangeType, DeleteService, ChangeNodes, vars,
                      QueuedInv
  <2> QED
    BY <2>1, <2>2, <2>3 DEF QueuedInv
<1>6. CASE Crash
  BY <1>6, <1>t DEF Crash, kube, QueuedInv
<1> QED
  BY <1>1, <1>2, <1>3, <1>4, <1>5, <1>6, <1>7, StepQueued DEF Next

(* It holds in every reachable state.                                      *)
LEMMA QueuedInvariant == Spec => []QueuedInv
<1>1. Init => QueuedInv
  BY DEF Init, QueuedInv, Workers
<1> QED
  BY <1>1, TypeCorrect, Lifecycle, HeldInvariant, NextQueued, PTL DEF Spec

(* Whenever the service controller rests and the Service wants no load     *)
(* balancer, it holds nothing any more: no finalizer, no load balancer, no *)
(* listener, with any number of updaters, failed calls, lost answers,      *)
(* crashes and edits behind it.                                            *)
THEOREM SettledReleased == Spec => []SettledIsReleased
<1>1. TypeOK /\ HeldInv /\ ReconcileInv /\ QueuedInv => SettledIsReleased
  BY DEF HeldInv, NeverOrphaned, ReconcileInv, ListenersOnLbs, QueuedInv, SettledIsReleased,
         Resting, TypeOK, KubeOK, Phases
<1> QED
  BY <1>1, TypeCorrect, Lifecycle, HeldInvariant, ReconcileInvariant, QueuedInvariant, PTL

(* One step, seen from the status.                                         *)
LEMMA StatusStep ==
    ASSUME TypeOK, LifecycleInv, HeldInv, QueuedInv, Next, StatusLeft', ~StatusLeft
    PROVE  Crash /\ ~finalizer
<1>c. Controller \in Workers /\ svc \in [phase : Phases, spec : Specs]
  BY DEF Workers, TypeOK, KubeOK
<1>1. pc'[Controller] = "idle" /\ ~dirty' /\ svc'.phase = "clusterIP" /\ published'
  BY DEF StatusLeft, Resting
<1>2. ASSUME UNCHANGED <<svc, published>>, dirty => dirty', pc'[Controller] = pc[Controller]
      PROVE  FALSE
  BY <1>1, <1>2 DEF StatusLeft, Resting
<1>3. ~StartSync
  <2>1. ASSUME NEW label \in {"fetch", "exists"}, NEW op, Begin(Controller, label, op)
        PROVE  FALSE
    BY <1>c, <1>1, <2>1 DEF Begin, TypeOK, WorkersOK
  <2> QED
    BY <2>1 DEF StartSync
<1>4. ~RemoveFinalizer
  BY <1>1, Records DEF Publish, RemoveFinalizer
<1>5. ~Publish
  <2> SUFFICES ASSUME Publish PROVE FALSE
    OBVIOUS
  <2>1. svc.phase = "clusterIP" /\ ~dirty /\ pc[Controller] = "publish"
    BY <1>1, Records, PublishOutcome DEF Publish
  <2>2. job[Controller].op = "ensure"
    BY <1>1 DEF Publish, Outcome
  <2> QED
    BY <2>1, <2>2 DEF QueuedInv
<1>6. ASSUME NEW w \in Updaters, StartResync(w) PROVE FALSE
  <2>1. w # Controller /\ UNCHANGED <<svc, published, dirty>> /\ pc'[Controller] = pc[Controller]
    BY <1>c, <1>6, WorkersAssumption DEF StartResync, Begin, TypeOK, WorkersOK
  <2> QED
    BY <1>2, <2>1
<1>7. ASSUME NEW w \in Workers, WorkerStep(w) \/ CallFails(w) PROVE FALSE
  <2>1. Works(w)
    BY <1>7, QuietWorks, CreateWorks, DeleteWorks DEF WorkerStep, Quiet
  <2>2. Queues(w)
    BY <1>7, StepQueues DEF QueuedInv
  <2>3. w # Controller
    BY <1>1, <2>2 DEF Queues
  <2> QED
    BY <1>2, <1>c, <2>1, <2>2, <2>3 DEF Works, Queues, kube
<1>8. ~CloudStep
  <2>1. CloudStep => UNCHANGED <<svc, published, dirty, pc>>
    BY DEF CloudStep, LoadBalancerReady, LoadBalancerRemoved, kube
  <2> QED
    BY <1>2, <2>1
<1>9. ~UserStep
  <2>1. UserStep => UNCHANGED <<published, pc>> /\ (dirty' \/ UNCHANGED <<svc, dirty>>)
    BY DEF UserStep, EditService, ChangeType, DeleteService, ChangeNodes, UserChanges
  <2> QED
    BY <1>1, <1>2, <2>1
<1>10. Crash => ~finalizer
  BY <1>1 DEF Crash
<1> QED
  BY <1>3, <1>4, <1>5, <1>6, <1>7, <1>8, <1>9, <1>10 DEF Next

(* The status of a Service that wants no load balancer any more is cleared *)
(* before the service controller rests, through any failed calls, lost     *)
(* answers, edits and crashes, but for the one crash between the removal   *)
(* of the finalizer and the call that clears the status: at that moment    *)
(* nothing on the Service tells a restarted controller that work is left.  *)
THEOREM StatusKept == Spec => StatusCleared
<1>1. TypeOK /\ LifecycleInv /\ HeldInv /\ QueuedInv /\ [Next]_vars
        => [StatusLeft' => StatusLeft \/ (Crash /\ ~finalizer)]_vars
  BY StatusStep
<1> QED
  BY <1>1, TypeCorrect, Lifecycle, HeldInvariant, QueuedInvariant, PTL DEF Spec, StatusCleared

(* The only worker always has its turn.                                    *)
LEMMA SoleNoDangling ==
    ASSUME Sole
    PROVE  Spec => []NoDanglingInv
BY SoleSerial, NoDanglingInvariant, PTL

(* Likewise for what it remembers of the security groups.                  *)
LEMMA SoleGroups ==
    ASSUME Sole
    PROVE  Spec => []GroupJob(Controller)
<1>1. GroupInv => GroupJob(Controller)
  BY DEF GroupInv, Workers
<1> QED
  BY <1>1, SoleSerial, GroupInvariant, PTL

(* Likewise for what there is without a load balancer.                     *)
LEMMA SoleClean ==
    ASSUME Sole, NoFaults
    PROVE  Spec => []CleanJob(Controller)
<1>1. CleanInv => CleanJob(Controller)
  BY DEF CleanInv, Sole, Workers
<1> QED
  BY <1>1, SoleSerial, CleanInvariant, PTL

(* The only worker: its job is the Service of now unless the Service is    *)
(* queued again, with nodes it was handed, and while it ensures there is   *)
(* no load balancer but the one it holds.                                  *)
CurrentInv ==
    LET c == Controller IN
    /\ pc[c] # "idle" => job[c].nodes \in NodeSets
    /\ ~dirty /\ svc.phase = "active" /\ pc[c] # "idle" =>
         job[c].op = "ensure" /\ job[c].spec = svc.spec
    /\ job[c].op = "ensure" /\ pc[c] # "fetch" => DOMAIN lbs \subseteq {mem[c].lb}

(* The calls that neither find nor create a load balancer.                 *)
LEMMA KeepsHolding ==
    ASSUME TypeOK, LifecycleInv, LifecycleInv', WorkerStep(Controller) \/ CallFails(Controller),
           ~FetchLoadBalancer(Controller), ~CreateLoadbalancer(Controller)
    PROVE  /\ DOMAIN lbs' = DOMAIN lbs
           /\ job'[Controller].op = "ensure" =>
                pc[Controller] # "fetch" /\ mem'[Controller].lb = mem[Controller].lb
<1> DEFINE c == Controller
<1>c. c \in Workers /\ mem[c] \in MemType /\ RoleInv(c) /\ HoldsInv(c)
  BY DEF Workers, TypeOK, WorkersOK, LifecycleInv
<1>d. DOMAIN lbs' = DOMAIN lbs
  BY <1>c, QuietWorks, DeleteWorks DEF WorkerStep, Quiet
<1> DEFINE Goal == job'[c].op = "ensure" => pc[c] # "fetch" /\ mem'[c].lb = mem[c].lb
<1>g. ASSUME NEW label, NEW m, Answered(c, label, m) \/ Goto(c, label, m) \/ Abort(c),
             m.lb = mem[c].lb, pc[c] # "fetch"
      PROVE  Goal
  BY <1>g, <1>c, Lands DEF NoJob
<1>r. ASSUME Rest(c) PROVE Goal
  BY <1>r, <1>c DEF Rest, NoJob, TypeOK, WorkersOK
<1>e. ASSUME job[c].op = "delete" PROVE Goal
  <2>1. Works(c)
    BY <1>c, QuietWorks, DeleteWorks DEF WorkerStep, Quiet
  <2> QED
    BY <1>e, <2>1 DEF Works, NoJob
<1> HIDE DEF Goal
<1>1. ASSUME \/ ListTargetGroups(c) \/ CreateTargetGroup(c) \/ UpdateTargetGroup(c)
             \/ SetAttachments(c) \/ ListListeners(c) \/ DeleteListener(c) \/ UpdateListener(c)
             \/ CreateListener(c) \/ ListUnusedTargetGroups(c) \/ DeleteTargetGroup(c)
      PROVE  Goal
  <2>1. pc[c] # "fetch"
    BY <1>1 DEF ListTargetGroups, CreateTargetGroup, UpdateTargetGroup, SetAttachments,
         ListListeners, TargetGroupsDone, DeleteListener, UpdateListener, CreateListener,
         ListUnusedTargetGroups, ListenersDone, DeleteTargetGroup
  <2>2. pc'[c] # "idle" => mem'[c].lb = mem[c].lb
    BY <1>1, <1>c, WorkingCalls
  <2>3. pc'[c] = "idle" => job'[c].op # "ensure"
    BY <1>c DEF LifecycleInv, RoleInv
  <2> QED
    BY <2>1, <2>2, <2>3 DEF Goal
<1>2. ASSUME GetLoadBalancer(c) \/ DeleteLoadbalancer(c) \/ AwaitGone(c)
             \/ ListRemainingTargetGroups(c) \/ DeleteManagedSecurityGroup(c)
      PROVE  Goal
  BY <1>2, <1>c, <1>e DEF GetLoadBalancer, DeleteLoadbalancer, AwaitGone,
     ListRemainingTargetGroups, DeleteManagedSecurityGroup, RoleInv
<1>3. ASSUME ListSecurityGroups(c) \/ EnsureManagedSecurityGroup(c) PROVE Goal
  <2>1. PICK label, m : /\ Answered(c, label, m) \/ Goto(c, label, m) \/ Abort(c)
                        /\ m.lb = mem[c].lb
    <3>1. \E label, s : \/ Answered(c, label, [mem[c] EXCEPT !.sg = s])
                        \/ Goto(c, label, [mem[c] EXCEPT !.sg = s])
                        \/ Answered(c, label, mem[c]) \/ Goto(c, label, mem[c])
                        \/ Abort(c)
      BY <1>3 DEF ListSecurityGroups, EnsureManagedSecurityGroup
    <3> QED
      BY <3>1, <1>c DEF MemType
  <2>2. pc[c] # "fetch"
    BY <1>3 DEF ListSecurityGroups, EnsureManagedSecurityGroup
  <2> QED
    BY <2>1, <2>2, <1>g
<1>4. ASSUME UpdateLoadbalancer(c) \/ PollReady(c) PROVE Goal
  <2>1. PICK label, m : /\ Answered(c, label, m) \/ Goto(c, label, m) \/ Abort(c)
                        /\ m.lb = mem[c].lb
    BY <1>4, <1>c DEF UpdateLoadbalancer, PollReady, MemType
  <2>2. pc[c] # "fetch"
    BY <1>4 DEF UpdateLoadbalancer, PollReady
  <2> QED
    BY <2>1, <2>2, <1>g
<1>5. ASSUME CallFails(c) \/ ReturnUpdated(c) PROVE Goal
  BY <1>5, <1>r DEF CallFails, ReturnUpdated, Return
<1> QED
  BY <1>d, <1>1, <1>2, <1>3, <1>4, <1>5 DEF WorkerStep, Goal

(* What the only worker holds, through every step.                         *)
LEMMA StepHolds ==
    ASSUME TypeOK, LifecycleInv, LifecycleInv', HeldInv, CurrentInv,
           WorkerStep(Controller) \/ CallFails(Controller)
    PROVE  job'[Controller].op = "ensure" /\ pc'[Controller] # "fetch" =>
             DOMAIN lbs' \subseteq {mem'[Controller].lb}
<1> DEFINE c == Controller
<1>c. c \in Workers /\ mem[c] \in MemType /\ RoleInv(c)
  BY DEF Workers, TypeOK, WorkersOK, LifecycleInv
<1>w. job'[c] = job[c] \/ job'[c] = NoJob
  BY <1>c, QuietWorks, CreateWorks, DeleteWorks DEF WorkerStep, Quiet, Works
<1>1. CASE FetchLoadBalancer(c)
  <2>1. UNCHANGED lbs
    BY <1>1 DEF FetchLoadBalancer, cloud
  <2>2. CASE DOMAIN lbs = {}
    BY <2>1, <2>2
  <2>3. CASE DOMAIN lbs # {}
    <3>1. PICK l \in DOMAIN lbs, label \in {"sweep", "list"} :
            Goto(c, label, [mem[c] EXCEPT !.lb = l, !.groups = lbs[l].groups, !.addr = lbs[l].addr])
      BY <1>1, <2>3 DEF FetchLoadBalancer
    <3> DEFINE m == [mem[c] EXCEPT !.lb = l, !.groups = lbs[l].groups, !.addr = lbs[l].addr]
    <3>2. Goto(c, label, m) /\ m.lb = l
      BY <1>c, <3>1 DEF MemType
    <3> HIDE DEF m
    <3>3. mem'[c].lb = l
      BY <1>c, <3>2, GoesTo
    <3> QED
      BY <2>1, <3>3 DEF LifecycleInv, AtMostOneLoadBalancer
  <2> QED
    BY <2>2, <2>3
<1>2. CASE CreateLoadbalancer(c)
  <2>1. PICK l \in FreshLb :
        /\ lbs' = Put(lbs, l, [status |-> "creating", addr |-> FALSE, groups |-> WantedGroups(c)])
        /\ Answered(c, "list", [mem[c] EXCEPT !.lb = l, !.made = TRUE,
                                              !.groups = WantedGroups(c), !.sg = None])
    BY <1>2 DEF CreateLoadbalancer
  <2>2. DOMAIN lbs' = {l}
    <3>1. DOMAIN lbs = {}
      BY <1>2, <1>c DEF CreateLoadbalancer, LifecycleInv, EmptyInv, Creating
    <3> QED
      BY <2>1, <3>1 DEF Put
  <2>3. mem'[c].lb = l \/ job'[c] = NoJob
    BY <1>c, <2>1, Lands DEF MemType
  <2> QED
    BY <2>2, <2>3 DEF NoJob
<1>3. CASE ~FetchLoadBalancer(c) /\ ~CreateLoadbalancer(c)
  <2>1. ASSUME job'[c].op = "ensure" PROVE DOMAIN lbs' \subseteq {mem'[c].lb}
    <3>1. /\ DOMAIN lbs' = DOMAIN lbs /\ job[c].op = "ensure"
          /\ pc[c] # "fetch" /\ mem'[c].lb = mem[c].lb
      BY <1>3, <1>w, <2>1, KeepsHolding DEF NoJob
    <3> QED
      BY <3>1 DEF CurrentInv
  <2> QED
    BY <2>1
<1> QED
  BY <1>1, <1>2, <1>3

(* A step of the only worker keeps the invariant; it leaves the rest only  *)
(* for the queue.                                                          *)
LEMMA StepCurrent ==
    ASSUME TypeOK, LifecycleInv, LifecycleInv', HeldInv, QueuedInv, CurrentInv,
           WorkerStep(Controller) \/ CallFails(Controller)
    PROVE  CurrentInv' /\ (pc'[Controller] = "idle" => dirty')
<1> DEFINE c == Controller
<1>c. c \in Workers
  BY DEF Workers
<1>1. Works(c) /\ Queues(c)
  BY <1>c, QuietWorks, CreateWorks, DeleteWorks, StepQueues DEF WorkerStep, Quiet, QueuedInv
<1>2. UNCHANGED <<svc>> /\ pc[c] # "idle" /\ (pc'[c] # "idle" => job'[c] = job[c])
  BY <1>1 DEF Works, kube
<1>3. (dirty => dirty') /\ (pc'[c] = "idle" => dirty')
  BY <1>1 DEF Queues
<1>4. job'[c].op = "ensure" /\ pc'[c] # "fetch" => DOMAIN lbs' \subseteq {mem'[c].lb}
  BY StepHolds
<1> QED
  BY <1>2, <1>3, <1>4 DEF CurrentInv

(* Every step preserves it.                                                *)
LEMMA NextCurrent ==
    ASSUME Sole, TypeOK, LifecycleInv, LifecycleInv', HeldInv, QueuedInv, CurrentInv, [Next]_vars
    PROVE  CurrentInv'
<1> DEFINE c == Controller
<1>c. c \in Workers /\ Workers = {c} /\ nodes \in NodeSets
  BY DEF Workers, Sole, TypeOK, KubeOK
<1>1. CASE StartSync
  <2>1. PICK label \in {"fetch", "exists"}, op \in {"ensure", "delete"} :
          /\ Begin(c, label, op) /\ (svc.phase = "active" => op = "ensure")
          /\ op = "ensure" => label = "fetch"
    BY <1>1 DEF StartSync
  <2>2. /\ pc'[c] = label /\ UNCHANGED svc
        /\ job'[c].op = op /\ job'[c].spec = svc.spec /\ job'[c].nodes = nodes
    BY <1>c, <2>1 DEF Begin, TypeOK, WorkersOK
  <2> QED
    BY <1>c, <2>1, <2>2 DEF CurrentInv
<1>2. CASE Crash \/ Publish
  <2>1. pc'[c] = "idle" /\ job'[c] = NoJob
    BY <1>2, <1>c, PublishOutcome DEF Crash
  <2> QED
    BY <2>1 DEF CurrentInv, NoJob
<1>6. CASE RemoveFinalizer
  <2>1. \/ pc'[c] = "idle" /\ job'[c] = NoJob
        \/ pc[c] = "release" /\ job[c].op = "delete" /\ job'[c] = job[c] /\ dirty' = dirty
    BY <1>6, Records
  <2>2. svc'.phase = "active" => svc.phase = "active"
    BY <1>6, RemoveOutcome
  <2> QED
    BY <2>1, <2>2 DEF CurrentInv, NoJob
<1>3. CASE WorkerStep(c) \/ CallFails(c)
  BY <1>3, StepCurrent
<1>4. CASE CloudStep
  <2>1. UNCHANGED <<svc, dirty, pc, job, mem>> /\ DOMAIN lbs' \subseteq DOMAIN lbs
    BY <1>4 DEF CloudStep, LoadBalancerReady, LoadBalancerRemoved, kube, Drop, Restrict
  <2> QED
    BY <2>1 DEF CurrentInv
<1>5. CASE UserStep \/ UNCHANGED vars
  <2>1. UNCHANGED <<lbs, pc, job, mem>> /\ (dirty' \/ UNCHANGED <<svc, dirty>>)
    BY <1>5 DEF UserStep, EditService, ChangeType, DeleteService, ChangeNodes, UserChanges, vars,
       cloud
  <2> QED
    BY <2>1 DEF CurrentInv
<1> QED
  BY <1>c, <1>1, <1>2, <1>3, <1>4, <1>5, <1>6 DEF Next, Sole

(* It holds in every reachable state.                                      *)
LEMMA CurrentInvariant ==
    ASSUME Sole
    PROVE  Spec => []CurrentInv
<1>1. Init => CurrentInv
  BY DEF Init, CurrentInv, Workers, NoJob
<1>2. TypeOK /\ LifecycleInv /\ LifecycleInv' /\ HeldInv /\ QueuedInv /\ CurrentInv /\ [Next]_vars
        => CurrentInv'
  BY NextCurrent
<1> QED
  BY <1>1, <1>2, TypeCorrect, Lifecycle, HeldInvariant, QueuedInvariant, PTL DEF Spec

(* At rest with what was asked for, the cloud does not undo it.            *)
LEMMA RestsOn ==
    ASSUME TypeOK, LifecycleInv, SettledIsRealised, CloudStep \/ UserStep \/ UNCHANGED vars
    PROVE  SettledIsRealised'
<1>t. svc \in [phase : Phases, spec : Specs]
  BY DEF TypeOK, KubeOK
<1>1. CASE CloudStep
  <2>1. PICK l \in DOMAIN lbs : LoadBalancerReady(l) \/ LoadBalancerRemoved(l)
    BY <1>1 DEF CloudStep
  <2>2. UNCHANGED <<svc, dirty, tgs, sgs, pc, job, mem>>
    BY <2>1 DEF LoadBalancerReady, LoadBalancerRemoved, kube
  <2>3. CASE LoadBalancerReady(l)
    <3>1. UNCHANGED listeners
      BY <2>3 DEF LoadBalancerReady
    <3>2. \A k \in DOMAIN lbs : lbs[k] \in LbType
      BY DEF TypeOK, CloudOK, Objects
    <3>3. \A k \in DOMAIN lbs' :
            k \in DOMAIN lbs /\ lbs'[k].groups = lbs[k].groups /\ (Lives(k)' => Lives(k))
      BY <2>3, <3>2 DEF LoadBalancerReady, LbType, Lives
    <3>4. ASSUME (Resting /\ svc.phase = "active")', NEW k \in DOMAIN lbs', Lives(k)'
          PROVE  GroupsAsAsked(k)' /\ \E ns \in NodeSets : Realises(k, svc.spec, ns)'
      <4>1. GroupsAsAsked(k) /\ \E ns \in NodeSets : Realises(k, svc.spec, ns)
        BY <2>2, <3>3, <3>4 DEF SettledIsRealised, Resting
      <4>2. GroupsAsAsked(k)'
        BY <2>2, <3>3, <4>1 DEF GroupsAsAsked
      <4>3. PICK ns \in NodeSets : Realises(k, svc.spec, ns)
        BY <4>1
      <4>4. Realises(k, svc.spec, ns)'
        BY <2>2, <3>1, <4>3 DEF Realises
      <4> QED
        BY <4>2, <4>4
    <3> QED
      BY <3>4 DEF SettledIsRealised
  <2>4. CASE LoadBalancerRemoved(l)
    <3>1. DOMAIN lbs' = {}
      BY <2>1, <2>4 DEF LoadBalancerRemoved, LifecycleInv, AtMostOneLoadBalancer, Drop, Restrict
    <3> QED
      BY <3>1 DEF SettledIsRealised
  <2> QED
    BY <2>1, <2>3, <2>4
<1>2. CASE UserStep \/ UNCHANGED vars
  <2>1. UNCHANGED <<lbs, tgs, listeners, sgs, pc, job, mem>>
    BY <1>2 DEF UserStep, EditService, ChangeType, DeleteService, ChangeNodes, UserChanges, vars,
       cloud
  <2>2. dirty' \/ UNCHANGED <<svc, dirty>>
    BY <1>2 DEF UserStep, EditService, ChangeType, DeleteService, ChangeNodes, vars
  <2>3. CASE dirty'
    BY <2>3 DEF SettledIsRealised, Resting
  <2>4. CASE UNCHANGED <<svc, dirty>>
    BY <2>1, <2>4 DEF SettledIsRealised, Resting, GroupsAsAsked, Realises, Lives
  <2> QED
    BY <2>2, <2>3, <2>4
<1> QED
  BY <1>1, <1>2

(* The outcome of an ensure is recorded: what it established is what the   *)
(* Service asks for now.                                                   *)
LEMMA PublishSettles ==
    ASSUME DistinctNumbers, TypeOK, LifecycleInv, HeldInv, ReconcileInv, NoDanglingInv,
           GroupJob(Controller),
           CurrentInv, Publish
    PROVE  SettledIsRealised'
<1> DEFINE c == Controller
<1>c. c \in Workers
  BY DEF Workers
<1>1. /\ pc[c] = "publish" /\ pc'[c] = "idle" /\ job'[c] = NoJob
      /\ UNCHANGED <<svc, lbs, tgs, listeners, sgs>> /\ (dirty => dirty')
  BY PublishOutcome, Records DEF Publish
<1>2. CASE ~(Resting /\ svc.phase = "active")'
  BY <1>2 DEF SettledIsRealised
<1>3. CASE (Resting /\ svc.phase = "active")'
  <2>1. ~dirty
    BY <1>1, <1>3 DEF Resting
  <2>2. svc.phase = "active"
    BY <1>1, <1>3
  <2>3. job[c].op = "ensure" /\ job[c].spec = svc.spec /\ job[c].nodes \in NodeSets /\ job[c].alone
    BY <1>c, <1>1, <2>1, <2>2 DEF CurrentInv, NoDanglingInv, NoDanglingJob
  <2>4. DOMAIN lbs \subseteq {mem[c].lb}
    BY <1>1, <2>3 DEF CurrentInv
  <2>5. ASSUME NEW k \in DOMAIN lbs, Lives(k)
        PROVE  GroupsAsAsked(k) /\ \E ns \in NodeSets : Realises(k, svc.spec, ns)
    <3>1. k = mem[c].lb
      BY <2>4
    <3>2. Reconciled(c)
      BY <1>1, <2>3, <2>5, <3>1 DEF Reconciled
    <3>3. Realises(k, svc.spec, job[c].nodes)
      BY <1>c, <2>3, <3>1, <3>2, StageRealises
    <3>4. GroupsAsAsked(k)
      BY <1>1, <2>3, <3>1 DEF GroupJob, GroupsAsAsked, WantedGroups
    <3> QED
      BY <2>3, <3>3, <3>4
  <2>6. \A k \in DOMAIN lbs : Lives(k) =>
          GroupsAsAsked(k) /\ \E ns \in NodeSets : Realises(k, svc.spec, ns)
    BY <2>5
  <2> QED
    BY <1>1, <2>4, <2>6 DEF SettledIsRealised, GroupsAsAsked, Realises, Lives
<1> QED
  BY <1>2, <1>3

(* Every step keeps what rests.                                            *)
LEMMA NextSettles ==
    ASSUME Sole, DistinctNumbers, TypeOK, LifecycleInv, LifecycleInv', HeldInv, ReconcileInv,
           NoDanglingInv,
           GroupJob(Controller), QueuedInv, CurrentInv, SettledIsRealised, [Next]_vars
    PROVE  SettledIsRealised'
<1> DEFINE c == Controller
<1>c. c \in Workers /\ Workers = {c}
  BY DEF Workers, Sole
<1>1. CASE StartSync
  <2>1. PICK label \in {"fetch", "exists"}, op \in {"ensure", "delete"} : Begin(c, label, op)
    BY <1>1 DEF StartSync
  <2>2. pc'[c] = label
    BY <1>c, <2>1 DEF Begin, TypeOK, WorkersOK
  <2> QED
    BY <2>2 DEF SettledIsRealised, Resting
<1>2. CASE Crash
  BY <1>2 DEF Crash, kube, SettledIsRealised, Resting
<1>3. CASE WorkerStep(c) \/ CallFails(c)
  BY <1>3, StepCurrent DEF SettledIsRealised, Resting
<1>4. CASE RemoveFinalizer
  <2>1. dirty' \/ pc'[c] = "publish"
    BY <1>4, Records
  <2> QED
    BY <2>1 DEF SettledIsRealised, Resting
<1> QED
  BY <1>c, <1>1, <1>2, <1>3, <1>4, RestsOn, PublishSettles DEF Next, Sole

(* An edit is never forgotten: whenever the only worker rests and the      *)
(* Service wants a load balancer, the one that lives has the listeners,    *)
(* target groups and security groups of the spec of now, with any failed   *)
(* calls, lost answers, crashes and edits behind it.                       *)
THEOREM SettledRealised ==
    ASSUME Sole, DistinctNumbers
    PROVE  Spec => []SettledIsRealised
<1>1. Init => SettledIsRealised
  BY DEF Init, SettledIsRealised, Resting
<1>2. TypeOK /\ LifecycleInv /\ LifecycleInv' /\ HeldInv /\ ReconcileInv /\ NoDanglingInv
        /\ GroupJob(Controller)
        /\ QueuedInv /\ CurrentInv /\ SettledIsRealised /\ [Next]_vars
        => SettledIsRealised'
  BY NextSettles
<1> QED
  BY <1>1, <1>2, TypeCorrect, Lifecycle, HeldInvariant, ReconcileInvariant,
     SoleNoDangling, SoleGroups, QueuedInvariant, CurrentInvariant, PTL DEF Spec

-----------------------------------------------------------------------------
(* Without failing calls: nothing fails by itself, and who rests serves.   *)

(* What a worker at label with memory m is about to name is there.         *)
Named(label, m) ==
    /\ label = "groups" => m.up \subseteq DOMAIN tgs /\ m.att \in DOMAIN tgs \cup {None}
    /\ label \in {"groups", "listeners"} => \A g \in m.got : g.id \in DOMAIN tgs
    /\ label = "listeners" => m.rm \cup m.up \subseteq DOMAIN listeners /\ m.rm \cap m.up = {}
    /\ label = "unused" => m.rm \subseteq DOMAIN tgs

(* The only worker names what exists, and has looked up the user's groups  *)
(* before it creates anything.                                             *)
ReachInv ==
    LET c == Controller IN
    /\ Named(pc[c], mem[c])
    /\ mem[c].made \/ pc[c] \in {"group", "createLb"} => job[c].spec.groups \subseteq UserGroups

(* The worker goes on.                                                     *)
LEMMA ReachGoes ==
    ASSUME TypeOK, ReachInv, NEW label, NEW m, Goto(Controller, label, m), label # "idle",
           m.made = mem[Controller].made, label \notin {"group", "createLb"},
           Named(label, m)'
    PROVE  ReachInv' /\ pc'[Controller] # "idle"
<1>1. Controller \in Workers
  BY DEF Workers
<1>2. pc'[Controller] = label /\ mem'[Controller] = m /\ job'[Controller] = job[Controller]
  BY <1>1, GoesTo
<1> QED
  BY <1>2 DEF ReachInv, Named

(* The worker gives up.                                                    *)
LEMMA ReachRests ==
    ASSUME pc'[Controller] = "idle", mem'[Controller] = NoMem
    PROVE  ReachInv'
BY DEF ReachInv, Named, NoMem

(* The calls on target groups.                                             *)
LEMMA ReachGroups ==
    ASSUME NoFaults, TypeOK, ReconcileInv, CleanJob(Controller), ReachInv,
           \/ ListTargetGroups(Controller) \/ CreateTargetGroup(Controller)
           \/ UpdateTargetGroup(Controller) \/ SetAttachments(Controller)
           \/ ListUnusedTargetGroups(Controller) \/ DeleteTargetGroup(Controller)
    PROVE  ReachInv' /\ pc'[Controller] # "idle"
<1> DEFINE c == Controller
           Goal == ReachInv' /\ pc'[c] # "idle"
<1>c. c \in Workers /\ mem[c] \in MemType /\ Named(pc[c], mem[c]) /\ DOMAIN tgs \subseteq Ids
  BY DEF Workers, TypeOK, WorkersOK, CloudOK, Objects, ReachInv
<1>a. \A label, m : Answered(c, label, m) => Goto(c, label, m)
  BY <1>c, AllAnswered
<1>g. ASSUME NEW label \in {"groups", "unused", "purge"}, NEW m, Goto(c, label, m),
             m.made = mem[c].made, Named(label, m)'
      PROVE  Goal
  BY <1>g, ReachGoes
<1> HIDE DEF Goal
<1>1. ASSUME ListTargetGroups(c) PROVE Goal
  <2>1. pc[c] = "list" /\ UNCHANGED <<tgs, listeners>>
    BY <1>1 DEF ListTargetGroups, cloud
  <2>2. mem[c].att = None /\ mem[c].got = {}
    BY <1>c, <2>1 DEF ReconcileInv, WorkInv, Untouched
  <2>3. PICK a, b : Goto(c, "groups", [mem[c] EXCEPT !.mk = a, !.up = b]) /\ b \subseteq DOMAIN tgs
    BY <1>1 DEF ListTargetGroups
  <2>4. PICK m : m = [mem[c] EXCEPT !.mk = a, !.up = b]
    OBVIOUS
  <2>5. m.made = mem[c].made /\ m.up = b /\ m.att = None /\ m.got = {}
    BY <1>c, <2>2, <2>4 DEF MemType
  <2>6. Named("groups", m)'
    BY <2>1, <2>3, <2>5 DEF Named
  <2> QED
    BY <1>g, <2>3, <2>4, <2>5, <2>6
<1>2. ASSUME CreateTargetGroup(c) PROVE Goal
  <2>1. pc[c] = "groups" /\ listeners' = listeners
    BY <1>2 DEF CreateTargetGroup
  <2>2. PICK p, t, k : /\ tgs' = Put(tgs, t, k)
                       /\ Goto(c, "groups", [mem[c] EXCEPT !.mk = @ \ {p}, !.att = t,
                             !.got = @ \cup {[id |-> t, key |-> Key(p), label |-> Label(p)]}])
    BY <1>2, <1>a DEF CreateTargetGroup
  <2>3. PICK m : m = [mem[c] EXCEPT !.mk = @ \ {p}, !.att = t,
                             !.got = @ \cup {[id |-> t, key |-> Key(p), label |-> Label(p)]}]
    OBVIOUS
  <2>4. /\ m.made = mem[c].made /\ m.up = mem[c].up /\ m.att = t
        /\ m.got = mem[c].got \cup {[id |-> t, key |-> Key(p), label |-> Label(p)]}
    BY <1>c, <2>3 DEF MemType
  <2>5. DOMAIN tgs' = DOMAIN tgs \cup {t}
    BY <2>2 DEF Put
  <2>6. Named("groups", m)'
    BY <1>c, <2>1, <2>4, <2>5 DEF Named
  <2> QED
    BY <1>g, <2>2, <2>3, <2>4, <2>6
<1>3. ASSUME UpdateTargetGroup(c) PROVE Goal
  <2>1. pc[c] = "groups" /\ listeners' = listeners
    BY <1>3 DEF UpdateTargetGroup
  <2>2. PICK t, p, v :
          /\ t \in mem[c].up
          /\ tgs' = [tgs EXCEPT ![t] = v]
          /\ Goto(c, "groups", [mem[c] EXCEPT !.up = @ \ {t}, !.att = t,
                        !.got = @ \cup {[id |-> t, key |-> Key(p), label |-> Label(p)]}])
    BY <1>3, <1>a, <1>c, <2>1 DEF UpdateTargetGroup, Named
  <2>3. PICK m : m = [mem[c] EXCEPT !.up = @ \ {t}, !.att = t,
                             !.got = @ \cup {[id |-> t, key |-> Key(p), label |-> Label(p)]}]
    OBVIOUS
  <2>4. /\ m.made = mem[c].made /\ m.up = mem[c].up \ {t} /\ m.att = t
        /\ m.got = mem[c].got \cup {[id |-> t, key |-> Key(p), label |-> Label(p)]}
    BY <1>c, <2>3 DEF MemType
  <2>5. DOMAIN tgs' = DOMAIN tgs /\ t \in DOMAIN tgs
    BY <1>c, <2>1, <2>2 DEF Named
  <2>6. Named("groups", m)'
    BY <1>c, <2>1, <2>4, <2>5 DEF Named
  <2> QED
    BY <1>g, <2>2, <2>3, <2>4, <2>6
<1>4. ASSUME SetAttachments(c) PROVE Goal
  <2>1. pc[c] = "groups" /\ listeners' = listeners
    BY <1>4 DEF SetAttachments
  <2>2. PICK v : /\ tgs' = [tgs EXCEPT ![mem[c].att] = v]
                 /\ Goto(c, "groups", [mem[c] EXCEPT !.att = None])
    BY <1>4, <1>a, <1>c, <2>1 DEF SetAttachments, Named
  <2>3. PICK m : m = [mem[c] EXCEPT !.att = None]
    OBVIOUS
  <2>4. m.made = mem[c].made /\ m.up = mem[c].up /\ m.att = None /\ m.got = mem[c].got
    BY <1>c, <2>3 DEF MemType
  <2>5. Named("groups", m)'
    BY <1>c, <2>1, <2>2, <2>4 DEF Named
  <2> QED
    BY <1>g, <2>2, <2>3, <2>4, <2>5
<1>5. ASSUME ListUnusedTargetGroups(c) PROVE Goal
  <2>1. PICK a : Goto(c, "unused", [mem[c] EXCEPT !.rm = a]) /\ a \subseteq DOMAIN tgs
    BY <1>5 DEF ListUnusedTargetGroups, UnusedTargetGroups, Unreferenced
  <2>2. PICK m : m = [mem[c] EXCEPT !.rm = a]
    OBVIOUS
  <2>3. m.made = mem[c].made /\ m.rm = a
    BY <1>c, <2>2 DEF MemType
  <2>4. tgs' = tgs
    BY <1>5 DEF ListUnusedTargetGroups, cloud
  <2>5. Named("unused", m)'
    BY <2>1, <2>3, <2>4 DEF Named
  <2> QED
    BY <1>g, <2>1, <2>2, <2>3, <2>5
<1>6. ASSUME DeleteTargetGroup(c) PROVE Goal
  <2>1. pc[c] \in {"unused", "purge"} /\ mem[c].rm \subseteq DOMAIN tgs
    BY <1>6, <1>c DEF DeleteTargetGroup, Named, CleanJob
  <2>2. PICK t \in mem[c].rm : /\ tgs' = Drop(tgs, {t})
                               /\ Goto(c, pc[c], [mem[c] EXCEPT !.rm = @ \ {t}])
    BY <1>6, <1>a, <2>1 DEF DeleteTargetGroup
  <2>3. PICK m : m = [mem[c] EXCEPT !.rm = @ \ {t}]
    OBVIOUS
  <2>4. m.made = mem[c].made /\ m.rm = mem[c].rm \ {t}
    BY <1>c, <2>3 DEF MemType
  <2>5. DOMAIN tgs' = DOMAIN tgs \ {t}
    BY <2>2 DEF Drop, Restrict
  <2>6. PICK label \in {"unused", "purge"} : label = pc[c]
    BY <2>1
  <2>7. Named(label, m)'
    BY <2>1, <2>4, <2>5 DEF Named
  <2> QED
    BY <1>g, <2>2, <2>3, <2>4, <2>6, <2>7
<1> QED
  BY <1>1, <1>2, <1>3, <1>4, <1>5, <1>6 DEF Goal

(* The calls on listeners.                                                 *)
LEMMA ReachListeners ==
    ASSUME NoFaults, TypeOK, GroupJob(Controller), CleanJob(Controller), ReachInv,
           \/ ListListeners(Controller) \/ DeleteListener(Controller)
           \/ UpdateListener(Controller) \/ CreateListener(Controller)
    PROVE  ReachInv' /\ pc'[Controller] # "idle"
<1> DEFINE c == Controller
           Goal == ReachInv' /\ pc'[c] # "idle"
<1>c. c \in Workers /\ mem[c] \in MemType /\ Named(pc[c], mem[c])
  BY DEF Workers, TypeOK, WorkersOK, ReachInv
<1>a. \A label, m : Answered(c, label, m) => Goto(c, label, m)
  BY <1>c, AllAnswered
<1>g. ASSUME NEW m, Goto(c, "listeners", m), m.made = mem[c].made, Named("listeners", m)'
      PROVE  Goal
  BY <1>g, ReachGoes
<1> HIDE DEF Goal
<1>t. tgs' = tgs /\ pc[c] \in {"groups", "listeners"} /\ mem[c].lb \in DOMAIN lbs
  <2>1. tgs' = tgs /\ pc[c] \in {"groups", "listeners"}
    BY DEF ListListeners, TargetGroupsDone, DeleteListener, UpdateListener, CreateListener, cloud
  <2>2. DOMAIN lbs # {} /\ DOMAIN lbs \subseteq {mem[c].lb}
    BY <2>1 DEF CleanJob, GroupJob, Working
  <2> QED
    BY <2>1, <2>2
<1>n. \A g \in mem[c].got : g.id \in DOMAIN tgs'
  BY <1>c, <1>t DEF Named
<1>1. ASSUME ListListeners(c) PROVE Goal
  <2>1. listeners' = listeners
    BY <1>1 DEF ListListeners, cloud
  <2> DEFINE mine == {l \in DOMAIN listeners : listeners[l].lb = mem[c].lb}
             b == {l \in mine : listeners[l].port \in DesiredNumbers(job[c].spec)}
             a == mine \ b
  <2>2. /\ \E d : Goto(c, "listeners", [mem[c] EXCEPT !.rm = a, !.up = b, !.mk = d])
        /\ a \cup b \subseteq DOMAIN listeners /\ a \cap b = {}
    BY <1>1, <1>t DEF ListListeners
  <2> HIDE DEF a, b, mine
  <2>3. PICK d, m : m = [mem[c] EXCEPT !.rm = a, !.up = b, !.mk = d] /\ Goto(c, "listeners", m)
    BY <2>2
  <2>4. m.made = mem[c].made /\ m.rm = a /\ m.up = b /\ m.got = mem[c].got
    BY <1>c, <2>3 DEF MemType
  <2>5. Named("listeners", m)'
    BY <1>n, <2>1, <2>2, <2>4 DEF Named
  <2> QED
    BY <1>g, <2>3, <2>4, <2>5
<1>2. ASSUME DeleteListener(c) PROVE Goal
  <2>1. pc[c] = "listeners"
    BY <1>2 DEF DeleteListener
  <2>2. PICK l \in mem[c].rm : /\ listeners' = Drop(listeners, {l})
                               /\ Goto(c, "listeners", [mem[c] EXCEPT !.rm = @ \ {l}])
    BY <1>2, <1>a, <1>c, <2>1 DEF DeleteListener, Named
  <2>3. PICK m : m = [mem[c] EXCEPT !.rm = @ \ {l}]
    OBVIOUS
  <2>4. m.made = mem[c].made /\ m.rm = mem[c].rm \ {l} /\ m.up = mem[c].up /\ m.got = mem[c].got
    BY <1>c, <2>3 DEF MemType
  <2>5. DOMAIN listeners' = DOMAIN listeners \ {l}
    BY <2>2 DEF Drop, Restrict
  <2>6. Named("listeners", m)'
    BY <1>c, <1>n, <2>1, <2>4, <2>5 DEF Named
  <2> QED
    BY <1>g, <2>2, <2>3, <2>4, <2>6
<1>3. ASSUME UpdateListener(c) PROVE Goal
  <2>1. pc[c] = "listeners"
    BY <1>3 DEF UpdateListener
  <2>2. PICK l \in mem[c].up : /\ DOMAIN listeners' = DOMAIN listeners
                               /\ Goto(c, "listeners", [mem[c] EXCEPT !.up = @ \ {l}])
    <3>1. PICK l \in mem[c].up :
            \E p \in ListenerByNumber(job[c].spec, listeners[l].port) :
                   IF TargetGroupsFor(p, mem[c].got) = {}
                   THEN Goto(c, "listeners", [mem[c] EXCEPT !.up = @ \ {l}]) /\ UNCHANGED listeners
                   ELSE \E t \in TargetGroupsFor(p, mem[c].got) :
                     IF t.id \in DOMAIN tgs
                     THEN /\ listeners' = [listeners EXCEPT ![l].proto = p.proto, ![l].tg = t.id]
                          /\ Goto(c, "listeners", [mem[c] EXCEPT !.up = @ \ {l}])
                     ELSE Abort(c) /\ UNCHANGED listeners
      BY <1>3, <1>a, <1>c, <2>1 DEF UpdateListener, Named
    <3>2. \A p : \A t \in TargetGroupsFor(p, mem[c].got) : t.id \in DOMAIN tgs
      BY <1>c, <2>1 DEF Named, TargetGroupsFor
    <3> QED
      BY <3>1, <3>2
  <2>3. PICK m : m = [mem[c] EXCEPT !.up = @ \ {l}]
    OBVIOUS
  <2>4. m.made = mem[c].made /\ m.rm = mem[c].rm /\ m.up = mem[c].up \ {l} /\ m.got = mem[c].got
    BY <1>c, <2>3 DEF MemType
  <2>5. Named("listeners", m)'
    BY <1>c, <1>n, <2>1, <2>2, <2>4 DEF Named
  <2> QED
    BY <1>g, <2>2, <2>3, <2>4, <2>5
<1>4. ASSUME CreateListener(c) PROVE Goal
  <2>1. pc[c] = "listeners"
    BY <1>4 DEF CreateListener
  <2>2. PICK p : /\ DOMAIN listeners \subseteq DOMAIN listeners'
                 /\ Goto(c, "listeners", [mem[c] EXCEPT !.mk = @ \ {p}])
    <3>1. \A p : \A t \in TargetGroupsFor(p, mem[c].got) : t.id \in DOMAIN tgs
      BY <1>c, <2>1 DEF Named, TargetGroupsFor
    <3>2. \A l, v : DOMAIN listeners \subseteq DOMAIN Put(listeners, l, v)
      BY DEF Put
    <3> QED
      BY <1>4, <1>a, <1>t, <3>1, <3>2 DEF CreateListener
  <2>3. PICK m : m = [mem[c] EXCEPT !.mk = @ \ {p}]
    OBVIOUS
  <2>4. m.made = mem[c].made /\ m.rm = mem[c].rm /\ m.up = mem[c].up /\ m.got = mem[c].got
    BY <1>c, <2>3 DEF MemType
  <2>5. Named("listeners", m)'
    BY <1>c, <1>n, <2>1, <2>2, <2>4 DEF Named
  <2> QED
    BY <1>g, <2>2, <2>3, <2>4, <2>5
<1> QED
  BY <1>1, <1>2, <1>3, <1>4 DEF Goal

(* The lookups of the load balancer, its update, its deletion, the waits.  *)
LEMMA ReachLifecycle ==
    ASSUME NoFaults, TypeOK, LifecycleInv, HeldInv,
           GroupJob(Controller), CleanJob(Controller), CurrentInv, ReachInv,
           \/ GetLoadBalancer(Controller) \/ FetchLoadBalancer(Controller)
           \/ UpdateLoadbalancer(Controller) \/ PollReady(Controller)
           \/ DeleteLoadbalancer(Controller) \/ AwaitGone(Controller)
           \/ ListRemainingTargetGroups(Controller) \/ DeleteManagedSecurityGroup(Controller)
    PROVE  ReachInv' /\ pc'[Controller] # "idle"
<1> DEFINE c == Controller
           Goal == ReachInv' /\ pc'[c] # "idle"
<1>c. c \in Workers /\ mem[c] \in MemType /\ RoleInv(c)
  BY DEF Workers, TypeOK, WorkersOK, LifecycleInv
<1>a. \A label, m : Answered(c, label, m) => Goto(c, label, m)
  BY <1>c, AllAnswered
<1>g. ASSUME NEW label \in {"release", "publish", "fetch", "create", "list", "sweep", "poll",
                            "wait", "gone", "purge"},
             NEW m, Goto(c, label, m), m.made = mem[c].made
      PROVE  Goal
  BY <1>g, ReachGoes DEF Named
<1>o. pc[c] # "idle" => job[c].op \in {"ensure", "delete"}
  BY <1>c DEF HeldInv, RoleInv, TypeOK, WorkersOK, JobType, Ops
<1> HIDE DEF Goal
<1>1. ASSUME GetLoadBalancer(c) \/ AwaitGone(c) \/ ListRemainingTargetGroups(c) \/ PollReady(c)
      PROVE  Goal
  <2>1. PICK label, m :
          label \in {"release", "publish", "fetch", "gone", "purge"} /\ Goto(c, label, m) /\ m.made = mem[c].made
    BY <1>1, <1>c DEF GetLoadBalancer, AwaitGone, ListRemainingTargetGroups, PollReady, MemType
  <2> QED
    BY <1>g, <2>1
<1>2. ASSUME FetchLoadBalancer(c) PROVE Goal
  <2>1. pc[c] = "fetch"
    BY <1>2 DEF FetchLoadBalancer
  <2>2. CASE FetchNothing(c)
    <3>1. PICK label \in {"create", "release"} : Goto(c, label, mem[c])
      BY <1>o, <2>1, <2>2 DEF FetchNothing
    <3> QED
      BY <1>g, <3>1
  <2>3. CASE ~FetchNothing(c)
    <3>0. PICK label \in {"sweep", "list"} :
            \E l, g, a : Goto(c, label, [mem[c] EXCEPT !.lb = l, !.groups = g, !.addr = a])
      BY <1>2, <2>3 DEF FetchLoadBalancer
    <3>1. PICK l, g, a : Goto(c, label, [mem[c] EXCEPT !.lb = l, !.groups = g, !.addr = a])
      BY <3>0
    <3>2. PICK m : m = [mem[c] EXCEPT !.lb = l, !.groups = g, !.addr = a]
      OBVIOUS
    <3>3. m.made = mem[c].made
      BY <1>c, <3>2 DEF MemType
    <3> QED
      BY <1>g, <3>1, <3>2, <3>3
  <2> QED
    BY <2>2, <2>3
<1>3. ASSUME UpdateLoadbalancer(c) PROVE Goal
  <2>1. pc[c] = "updateLb" /\ DOMAIN lbs # {}
    BY <1>3 DEF UpdateLoadbalancer, CleanJob
  <2>2. job[c].op = "ensure"
    BY <1>c, <1>o, <2>1 DEF RoleInv
  <2>3. mem[c].lb \in DOMAIN lbs /\ AfterUpdate(c) \in {"poll", "publish"}
    BY <2>1, <2>2 DEF CurrentInv, AfterUpdate
  <2>4. Goto(c, AfterUpdate(c), mem[c])
    BY <1>3, <1>a, <2>3 DEF UpdateLoadbalancer
  <2> QED
    BY <1>g, <2>3, <2>4
<1>4. ASSUME DeleteLoadbalancer(c) PROVE Goal
  <2>1. DOMAIN lbs # {} /\ DOMAIN lbs \subseteq {mem[c].lb}
    BY <1>4 DEF DeleteLoadbalancer, CleanJob, GroupJob, Working
  <2>2. Goto(c, "wait", mem[c])
    BY <1>4, <1>a, <2>1 DEF DeleteLoadbalancer
  <2> QED
    BY <1>g, <2>2
<1>5. ASSUME DeleteManagedSecurityGroup(c) PROVE Goal
  <2>1. pc'[c] = "release" /\ UNCHANGED <<mem, job>>
    BY <1>5, <1>c DEF DeleteManagedSecurityGroup, TypeOK, WorkersOK
  <2> QED
    BY <2>1 DEF Goal, ReachInv, Named
<1> QED
  BY <1>1, <1>2, <1>3, <1>4, <1>5 DEF Goal

(* The security groups and the creation.  Only here can a call find        *)
(* something missing: a security group the user named.                     *)
LEMMA ReachCreates ==
    ASSUME NoFaults, TypeOK, GroupJob(Controller), ReachInv,
           \/ ListSecurityGroups(Controller) \/ EnsureManagedSecurityGroup(Controller)
           \/ CreateLoadbalancer(Controller)
    PROVE  ReachInv' /\ (job[Controller].spec.groups \subseteq UserGroups => pc'[Controller] # "idle")
<1> DEFINE c == Controller
           Goal == ReachInv' /\ pc'[c] # "idle"
<1>c. c \in Workers /\ mem[c] \in MemType
  BY DEF Workers, TypeOK, WorkersOK
<1>a. \A label, m : Answered(c, label, m) => Goto(c, label, m)
  BY <1>c, AllAnswered
<1>g. ASSUME NEW label \in {"group", "createLb", "updateLb", "list"}, NEW m, Goto(c, label, m),
             job[c].spec.groups \subseteq UserGroups
      PROVE  Goal
  <2>1. pc'[c] = label /\ mem'[c] = m /\ job'[c] = job[c]
    BY <1>c, <1>g, GoesTo
  <2> QED
    BY <1>g, <2>1 DEF ReachInv, Named
<1>f. AfterGroups(c) \in {"createLb", "updateLb"}
  BY DEF AfterGroups
<1> HIDE DEF Goal
<1>1. CASE ListSecurityGroups(c)
  <2>1. CASE job[c].spec.groups \subseteq UserGroups
    <3>1. PICK label \in {"group", "createLb", "updateLb"} : \E m : Goto(c, label, m)
      BY <1>1, <1>f, <2>1 DEF ListSecurityGroups
    <3> QED
      BY <1>g, <2>1, <3>1 DEF Goal
  <2>2. CASE ~(job[c].spec.groups \subseteq UserGroups)
    <3>1. pc'[c] = "idle" /\ mem'[c] = NoMem
      BY <1>1, <1>c, <2>2 DEF ListSecurityGroups, Abort, Rest, TypeOK, WorkersOK
    <3> QED
      BY <2>2, <3>1, ReachRests
  <2> QED
    BY <2>1, <2>2
<1>2. CASE EnsureManagedSecurityGroup(c)
  <2>1. mem[c].sg \in DOMAIN sgs \cup {None} /\ job[c].spec.groups \subseteq UserGroups
    BY <1>2 DEF EnsureManagedSecurityGroup, GroupJob, ReachInv
  <2>2. PICK m : Goto(c, AfterGroups(c), m)
    BY <1>2, <1>a, <2>1 DEF EnsureManagedSecurityGroup
  <2> QED
    BY <1>f, <1>g, <2>1, <2>2 DEF Goal
<1>3. CASE CreateLoadbalancer(c)
  <2>1. job[c].spec.groups \subseteq UserGroups
    BY <1>3 DEF CreateLoadbalancer, ReachInv
  <2>2. PICK m : Goto(c, "list", m)
    BY <1>3, <1>a DEF CreateLoadbalancer
  <2> QED
    BY <1>g, <2>1, <2>2 DEF Goal
<1> QED
  BY <1>1, <1>2, <1>3

(* The steps of the others, and the start and the end of a job.            *)
LEMMA ReachElsewhere ==
    ASSUME TypeOK, LifecycleInv, CleanJob(Controller), ReachInv,
           \/ StartSync \/ RemoveFinalizer \/ Publish \/ ReturnUpdated(Controller)
           \/ CloudStep \/ UserStep \/ UNCHANGED vars
    PROVE  ReachInv'
<1> DEFINE c == Controller
<1>c. c \in Workers
  BY DEF Workers
<1>1. CASE StartSync
  <2>1. PICK label \in {"fetch", "exists"}, op \in {"ensure", "delete"} : Begin(c, label, op)
    BY <1>1 DEF StartSync
  <2>2. pc'[c] = label /\ mem'[c] = NoMem
    BY <1>c, <2>1 DEF Begin, TypeOK, WorkersOK, LifecycleInv, RoleInv
  <2> QED
    BY <2>2 DEF ReachInv, Named, NoMem
<1>2. CASE RemoveFinalizer \/ Publish \/ ReturnUpdated(c)
  <2>1. CASE pc'[c] = "idle" /\ mem'[c] = NoMem
    BY <2>1, ReachRests
  <2>2. CASE pc'[c] = "publish" /\ mem'[c] = mem[c] /\ job'[c] = job[c]
    BY <2>2 DEF ReachInv, Named
  <2>3. CASE ReturnUpdated(c)
    BY <1>c, <2>1, <2>3 DEF ReturnUpdated, Return, Rest, TypeOK, WorkersOK
  <2> QED
    BY <1>2, <2>1, <2>2, <2>3, Records
<1>3. CASE CloudStep
  <2>1. UNCHANGED <<tgs, pc, job, mem>> /\ (listeners' # listeners => pc[c] = "wait")
    BY <1>3 DEF CloudStep, LoadBalancerReady, LoadBalancerRemoved, CleanJob
  <2> QED
    BY <2>1 DEF ReachInv, Named
<1>4. CASE UserStep \/ UNCHANGED vars
  <2>1. UNCHANGED <<tgs, listeners, pc, job, mem>>
    BY <1>4 DEF UserStep, EditService, ChangeType, DeleteService, ChangeNodes, UserChanges, vars,
       cloud
  <2> QED
    BY <2>1 DEF ReachInv, Named
<1> QED
  BY <1>1, <1>2, <1>3, <1>4

(* A step of the worker fails only for a security group the user named.    *)
LEMMA Proceeds ==
    ASSUME NoFaults, TypeOK, LifecycleInv, HeldInv, ReconcileInv,
           GroupJob(Controller), CleanJob(Controller), QueuedInv,
           CurrentInv, ReachInv, WorkerStep(Controller)
    PROVE  ReachInv' /\ (job[Controller].spec.groups \subseteq UserGroups => pc'[Controller] # "idle")
<1>1. ~ReturnUpdated(Controller)
  BY DEF ReturnUpdated, QueuedInv
<1> QED
  BY <1>1, ReachGroups, ReachListeners, ReachLifecycle, ReachCreates DEF WorkerStep

(* Every step preserves it.                                                *)
LEMMA NextReach ==
    ASSUME Sole, NoFaults, TypeOK, LifecycleInv, HeldInv, ReconcileInv,
           GroupJob(Controller), CleanJob(Controller),
           QueuedInv, CurrentInv, ReachInv, [Next]_vars
    PROVE  ReachInv'
<1>1. Workers = {Controller} /\ Controller \in Workers
  BY DEF Workers, Sole
<1>2. ~CallFails(Controller) /\ ~Crash
  BY <1>1, AllAnswered
<1> QED
  BY <1>1, <1>2, Proceeds, ReachElsewhere DEF Next, Sole

(* The only worker names what exists.                                      *)
LEMMA ReachInvariant ==
    ASSUME Sole, NoFaults
    PROVE  Spec => []ReachInv
<1>1. Init => ReachInv
  BY DEF Init, ReachInv, Named, NoMem, Workers
<1>2. TypeOK /\ LifecycleInv /\ HeldInv /\ ReconcileInv
        /\ GroupJob(Controller) /\ CleanJob(Controller)
        /\ QueuedInv /\ CurrentInv /\ ReachInv /\ [Next]_vars
        => ReachInv'
  BY NextReach
<1> QED
  BY <1>1, <1>2, TypeCorrect, Lifecycle, HeldInvariant, ReconcileInvariant, SoleGroups,
     SoleClean, QueuedInvariant, CurrentInvariant, PTL DEF Spec

(* Every load balancer is ready and has its address.                       *)
AllReady == \A l \in DOMAIN lbs : lbs[l].status = "ready" /\ lbs[l].addr

(* A load balancer that is there is ready with its address, except the one *)
(* that an ensure is creating and the one that a deletion waits for; an    *)
(* ensure holds the address it will publish; and who rests has published.  *)
ServedInv ==
    LET c == Controller
        m == mem[c]
    IN /\ pc[c] # "wait" /\ (m.made => pc[c] = "publish") => AllReady
       /\ job[c].op = "ensure" /\ m.lb # None /\ (m.made => pc[c] = "publish") => m.addr
       /\ job[c].op = "ensure" /\ pc[c] \in {"poll", "publish"} => DOMAIN lbs # {}
       /\ Resting /\ svc.phase = "active" => published /\ DOMAIN lbs # {}

(* The load balancers keep status and address, where none is created or    *)
(* deleted.                                                                *)
LEMMA KeepsReady ==
    ASSUME TypeOK, WorkerStep(Controller),
           ~CreateLoadbalancer(Controller), ~DeleteLoadbalancer(Controller)
    PROVE  DOMAIN lbs' = DOMAIN lbs /\ (AllReady => AllReady')
<1> DEFINE c == Controller
<1>c. c \in Workers /\ \A l \in DOMAIN lbs : lbs[l] \in LbType
  BY DEF Workers, TypeOK, CloudOK, Objects
<1>1. CASE UpdateLoadbalancer(c)
  <2>1. lbs' = lbs \/ lbs' = [lbs EXCEPT ![mem[c].lb].groups = WantedGroups(c)]
    BY <1>1 DEF UpdateLoadbalancer
  <2> QED
    BY <1>c, <2>1 DEF AllReady, LbType
<1>2. CASE ~UpdateLoadbalancer(c)
  <2>1. UNCHANGED lbs
    BY <1>2 DEF WorkerStep, GetLoadBalancer, FetchLoadBalancer, ListTargetGroups,
       CreateTargetGroup, UpdateTargetGroup, SetAttachments, ListListeners, DeleteListener,
       UpdateListener, CreateListener, ListUnusedTargetGroups, DeleteTargetGroup,
       ListSecurityGroups, EnsureManagedSecurityGroup, ReturnUpdated, PollReady, AwaitGone,
       ListRemainingTargetGroups, DeleteManagedSecurityGroup, cloud
  <2> QED
    BY <2>1 DEF AllReady
<1> QED
  BY <1>1, <1>2

(* The calls in the middle of an ensure, on target groups, listeners and   *)
(* security groups.                                                        *)
LEMMA ServedMidway ==
    ASSUME TypeOK, ServedInv, QueuedInv, pc'[Controller] # "idle",
           \/ ListTargetGroups(Controller) \/ CreateTargetGroup(Controller)
           \/ UpdateTargetGroup(Controller) \/ SetAttachments(Controller)
           \/ ListListeners(Controller) \/ DeleteListener(Controller)
           \/ UpdateListener(Controller) \/ CreateListener(Controller)
           \/ ListUnusedTargetGroups(Controller) \/ DeleteTargetGroup(Controller)
           \/ ListSecurityGroups(Controller) \/ EnsureManagedSecurityGroup(Controller)
    PROVE  ServedInv'
<1> DEFINE c == Controller
<1>c. c \in Workers /\ mem[c] \in MemType
  BY DEF Workers, TypeOK, WorkersOK
<1> DEFINE Keeps == /\ mem'[c].made = mem[c].made /\ mem'[c].lb = mem[c].lb
                    /\ mem'[c].addr = mem[c].addr /\ job'[c] = job[c] /\ UNCHANGED lbs
                    /\ pc[c] \notin {"wait", "publish"} /\ pc'[c] \notin {"wait", "poll", "publish"}
<1>1. ASSUME ListSecurityGroups(c) \/ EnsureManagedSecurityGroup(c) PROVE Keeps
  <2>1. UNCHANGED lbs /\ pc[c] \in {"create", "unused", "group"}
    BY <1>1 DEF ListSecurityGroups, EnsureManagedSecurityGroup, cloud
  <2>2. PICK label \in {"createLb", "updateLb", "group"} : \E s :
          \/ Answered(c, label, [mem[c] EXCEPT !.sg = s]) \/ Answered(c, label, mem[c])
          \/ Goto(c, label, [mem[c] EXCEPT !.sg = s]) \/ Goto(c, label, mem[c])
          \/ Abort(c)
    BY <1>1 DEF ListSecurityGroups, EnsureManagedSecurityGroup, AfterGroups
  <2>3. PICK s :
          \/ Answered(c, label, [mem[c] EXCEPT !.sg = s]) \/ Answered(c, label, mem[c])
          \/ Goto(c, label, [mem[c] EXCEPT !.sg = s]) \/ Goto(c, label, mem[c])
          \/ Abort(c)
    BY <2>2
  <2>a. PICK m : m = [mem[c] EXCEPT !.sg = s]
    OBVIOUS
  <2>4. m.made = mem[c].made /\ m.lb = mem[c].lb /\ m.addr = mem[c].addr
    BY <1>c, <2>a DEF MemType
  <2>5. pc'[c] = label /\ job'[c] = job[c] /\ (mem'[c] = m \/ mem'[c] = mem[c])
    BY <1>c, <2>3, <2>a, Lands
  <2> QED
    BY <2>1, <2>4, <2>5 DEF Keeps
<1>2. ASSUME ~(ListSecurityGroups(c) \/ EnsureManagedSecurityGroup(c)) PROVE Keeps
  <2>1. /\ mem'[c].made = mem[c].made /\ mem'[c].lb = mem[c].lb
        /\ mem'[c].addr = mem[c].addr /\ job'[c] = job[c] /\ UNCHANGED lbs
        /\ \/ pc[c] \in Working /\ pc'[c] \in Working
           \/ pc[c] = "purge" /\ pc'[c] = "purge"
    BY <1>c, <1>2, WorkingCalls
  <2> QED
    BY <2>1 DEF Working
<1>3. Keeps
  BY <1>1, <1>2
<1> QED
  BY <1>3 DEF ServedInv, AllReady, Resting

(* The calls on the load balancer.                                         *)
LEMMA ServedLifecycle ==
    ASSUME TypeOK, LifecycleInv, LifecycleInv',
           CleanJob(Controller), ServedInv, pc'[Controller] # "idle",
           \/ FetchLoadBalancer(Controller) \/ CreateLoadbalancer(Controller)
           \/ UpdateLoadbalancer(Controller) \/ PollReady(Controller)
    PROVE  ServedInv'
<1> DEFINE c == Controller
<1>c. c \in Workers /\ mem[c] \in MemType /\ HoldsInv(c) /\ HoldsInv(c)' /\ RoleInv(c)
  BY DEF Workers, TypeOK, WorkersOK, LifecycleInv
<1>n. ~Resting'
  BY DEF Resting
<1>1. CASE FetchLoadBalancer(c)
  <2>1. pc[c] = "fetch" /\ UNCHANGED lbs /\ ~mem[c].made /\ mem[c].lb = None
    BY <1>1, <1>c DEF FetchLoadBalancer, HoldsInv, cloud
  <2>2. AllReady /\ AllReady'
    BY <2>1 DEF ServedInv, AllReady
  <2>3. CASE FetchNothing(c)
    <3>1. PICK label \in {"create", "release"} :
            Goto(c, label, mem[c]) /\ (label = "release" => job[c].op = "delete")
      BY <1>c, <2>3, Lands DEF FetchNothing
    <3>2. pc'[c] = label /\ mem'[c] = mem[c] /\ job'[c] = job[c]
      BY <1>c, <3>1, GoesTo
    <3> QED
      BY <1>n, <2>1, <2>2, <3>1, <3>2 DEF ServedInv
  <2>4. CASE ~FetchNothing(c)
    <3>1. PICK label \in {"sweep", "list"}, l \in DOMAIN lbs :
            Goto(c, label, [mem[c] EXCEPT !.lb = l, !.groups = lbs[l].groups, !.addr = lbs[l].addr])
      BY <1>1, <2>4 DEF FetchLoadBalancer
    <3>2. PICK m : m = [mem[c] EXCEPT !.lb = l, !.groups = lbs[l].groups, !.addr = lbs[l].addr]
      OBVIOUS
    <3>3. m.addr = lbs[l].addr
      BY <1>c, <3>2 DEF MemType
    <3>4. pc'[c] = label /\ mem'[c] = m
      BY <1>c, <3>1, <3>2, GoesTo
    <3>5. lbs[l].addr
      BY <2>2 DEF AllReady
    <3>6. mem'[c].addr
      BY <3>3, <3>4, <3>5, Zenon
    <3> QED
      BY <1>n, <2>2, <3>4, <3>6 DEF ServedInv
  <2> QED
    BY <2>3, <2>4
<1>2. CASE CreateLoadbalancer(c)
  <2>1. PICK l : Answered(c, "list", [mem[c] EXCEPT !.lb = l, !.made = TRUE,
                                              !.groups = WantedGroups(c), !.sg = None])
    BY <1>2 DEF CreateLoadbalancer
  <2>2. PICK m : m = [mem[c] EXCEPT !.lb = l, !.made = TRUE, !.groups = WantedGroups(c), !.sg = None]
    OBVIOUS
  <2>3. m.made
    BY <1>c, <2>2 DEF MemType
  <2>4. pc'[c] = "list" /\ mem'[c].made
    BY <1>c, <2>1, <2>2, <2>3, Lands
  <2> QED
    BY <1>n, <2>4 DEF ServedInv
<1>3. CASE UpdateLoadbalancer(c)
  <2>1. pc[c] = "updateLb" /\ DOMAIN lbs # {} /\ DOMAIN lbs' = DOMAIN lbs /\ (AllReady => AllReady')
    BY <1>3, KeepsReady DEF UpdateLoadbalancer, CleanJob, WorkerStep, CreateLoadbalancer,
       DeleteLoadbalancer
  <2>2. pc'[c] = AfterUpdate(c) /\ mem'[c] = mem[c] /\ job'[c] = job[c]
    BY <1>3, <1>c, Lands DEF UpdateLoadbalancer
  <2>3. mem[c].made => pc'[c] = "poll"
    BY <2>2 DEF AfterUpdate
  <2>4. ~mem[c].made => AllReady' /\ (job[c].op = "ensure" /\ mem[c].lb # None => mem[c].addr)
    BY <2>1 DEF ServedInv
  <2> QED
    BY <1>n, <2>1, <2>2, <2>3, <2>4 DEF ServedInv
<1>4. CASE PollReady(c)
  <2>1. PICK l \in DOMAIN lbs : /\ lbs[l].status = "ready" /\ lbs[l].addr
                                /\ Goto(c, "publish", [mem[c] EXCEPT !.addr = TRUE])
    BY <1>4 DEF PollReady
  <2>2. PICK m : m = [mem[c] EXCEPT !.addr = TRUE]
    OBVIOUS
  <2>3. m.addr
    BY <1>c, <2>2 DEF MemType
  <2>a. pc'[c] = "publish" /\ mem'[c] = m
    BY <1>c, <2>1, <2>2, GoesTo
  <2>4. pc'[c] = "publish" /\ mem'[c].addr
    BY <2>3, <2>a, Zenon
  <2>5. UNCHANGED lbs /\ AllReady
    BY <1>4, <2>1 DEF PollReady, cloud, LifecycleInv, AtMostOneLoadBalancer, AllReady
  <2> QED
    BY <1>n, <2>1, <2>4, <2>5 DEF ServedInv, AllReady
<1> QED
  BY <1>1, <1>2, <1>3, <1>4

(* A step of the worker.                                                   *)
LEMMA ServedStep ==
    ASSUME NoFaults, TypeOK, LifecycleInv, LifecycleInv', HeldInv, ReconcileInv,
           GroupJob(Controller), CleanJob(Controller),
           QueuedInv, CurrentInv, ReachInv, ServedInv, WorkerStep(Controller)
    PROVE  ServedInv'
<1> DEFINE c == Controller
<1>c. c \in Workers /\ RoleInv(c) /\ RoleInv(c)' /\ HoldsInv(c)' /\ EmptyInv(c)
  BY DEF Workers, LifecycleInv
<1>w. Works(c) /\ Queues(c)
  BY <1>c, QuietWorks, CreateWorks, DeleteWorks, StepQueues DEF WorkerStep, Quiet, QueuedInv
<1>1. CASE pc'[c] = "idle"
  <2>1. mem'[c] = NoMem /\ job'[c].op = "none" /\ dirty'
    BY <1>1, <1>c, <1>w DEF RoleInv, Queues
  <2>2. ~mem[c].made
    BY <1>1, Proceeds DEF ReachInv
  <2>3. ~CreateLoadbalancer(c) /\ ~DeleteLoadbalancer(c) /\ pc[c] # "wait"
    <3>1. ~CreateLoadbalancer(c)
      BY <1>1, Proceeds DEF CreateLoadbalancer, ReachInv
    <3>2. ~DeleteLoadbalancer(c)
      BY <1>1, ReachLifecycle
    <3>3. pc[c] = "wait" => AwaitGone(c)
      BY DEF WorkerStep, GetLoadBalancer, FetchLoadBalancer, ListTargetGroups,
       CreateTargetGroup, UpdateTargetGroup, SetAttachments, ListListeners, DeleteListener,
       UpdateListener, CreateListener, ListUnusedTargetGroups, DeleteTargetGroup,
       ListSecurityGroups, EnsureManagedSecurityGroup, ReturnUpdated, PollReady, AwaitGone,
       ListRemainingTargetGroups, DeleteManagedSecurityGroup, TargetGroupsDone, ListenersDone,
       CreateLoadbalancer, UpdateLoadbalancer, DeleteLoadbalancer
    <3> QED
      BY <1>1, <3>1, <3>2, <3>3, ReachLifecycle
  <2>4. AllReady'
    BY <2>2, <2>3, KeepsReady DEF ServedInv
  <2> QED
    BY <2>1, <2>4 DEF ServedInv, NoMem, Resting
<1>2. CASE pc'[c] # "idle" /\ (GetLoadBalancer(c) \/ DeleteLoadbalancer(c) \/ AwaitGone(c)
                                \/ ListRemainingTargetGroups(c) \/ DeleteManagedSecurityGroup(c))
  <2>1. job[c].op = "delete" /\ job'[c].op = "delete"
    BY <1>2, <1>c, <1>w DEF GetLoadBalancer, DeleteLoadbalancer, AwaitGone,
       ListRemainingTargetGroups, DeleteManagedSecurityGroup, RoleInv, Works
  <2>2. pc'[c] = "wait" \/ AllReady'
    <3>1. CASE GetLoadBalancer(c)
      <4>1. ~mem[c].made /\ pc[c] = "exists" /\ UNCHANGED lbs
        BY <3>1, <2>1, <1>c DEF GetLoadBalancer, LifecycleInv, HoldsInv, cloud
      <4> QED
        BY <4>1 DEF ServedInv, AllReady
    <3>2. CASE DeleteLoadbalancer(c)
      <4>1. Answered(c, "wait", mem[c]) \/ Abort(c)
        BY <3>2 DEF DeleteLoadbalancer
      <4> QED
        BY <1>2, <1>c, <4>1, Lands
    <3>3. CASE AwaitGone(c) \/ ListRemainingTargetGroups(c) \/ DeleteManagedSecurityGroup(c)
      <4>1. DOMAIN lbs = {} /\ UNCHANGED lbs
        BY <3>3, <1>c DEF AwaitGone, ListRemainingTargetGroups, DeleteManagedSecurityGroup,
           EmptyInv, Removed, cloud
      <4> QED
        BY <4>1 DEF AllReady
    <3> QED
      BY <1>2, <3>1, <3>2, <3>3
  <2> QED
    BY <1>2, <2>1, <2>2 DEF ServedInv, Resting
<1>3. ~ReturnUpdated(c)
  BY DEF ReturnUpdated, QueuedInv
<1> QED
  BY <1>1, <1>2, <1>3, ServedMidway, ServedLifecycle DEF WorkerStep

(* The outcome of an ensure is an address of a load balancer that is ready.*)
LEMMA ServedPublish ==
    ASSUME TypeOK, LifecycleInv, HeldInv, CurrentInv, ServedInv, Publish
    PROVE  ServedInv'
<1> DEFINE c == Controller
<1>1. /\ pc[c] = "publish" /\ pc'[c] = "idle" /\ job'[c] = NoJob /\ mem'[c] = NoMem
      /\ UNCHANGED <<svc, lbs>> /\ (dirty => dirty')
  BY PublishOutcome, Records DEF Publish
<1>2. AllReady'
  BY <1>1 DEF ServedInv, AllReady
<1>3. ASSUME (Resting /\ svc.phase = "active")' PROVE published' /\ DOMAIN lbs' # {}
  <2>1. ~dirty /\ svc.phase = "active"
    BY <1>1, <1>3 DEF Resting
  <2>2. job[c].op = "ensure"
    BY <1>1, <2>1 DEF CurrentInv
  <2>3. DOMAIN lbs # {} /\ DOMAIN lbs \subseteq {mem[c].lb} /\ DOMAIN lbs \subseteq Ids
    BY <1>1, <2>2 DEF ServedInv, CurrentInv, TypeOK, CloudOK, Objects
  <2>4. mem[c].addr
    BY <1>1, <2>2, <2>3, IdsAssumption DEF ServedInv
  <2> QED
    BY <1>1, <2>2, <2>3, <2>4 DEF Publish, Outcome
<1> QED
  BY <1>1, <1>2, <1>3 DEF ServedInv, NoMem, NoJob

(* Every step preserves it.                                                *)
LEMMA NextServed ==
    ASSUME Sole, NoFaults, TypeOK, LifecycleInv, LifecycleInv', HeldInv, ReconcileInv,
           GroupJob(Controller),
           CleanJob(Controller), QueuedInv, CurrentInv, ReachInv, ServedInv, [Next]_vars
    PROVE  ServedInv'
<1> DEFINE c == Controller
<1>c. Workers = {c} /\ c \in Workers /\ RoleInv(c)
  BY DEF Workers, Sole, LifecycleInv
<1>f. ~CallFails(c) /\ ~Crash
  BY <1>c, AllAnswered
<1>l. \A l \in DOMAIN lbs : lbs[l] \in LbType
  BY DEF TypeOK, CloudOK, Objects
<1>1. CASE StartSync
  <2>1. PICK label \in {"fetch", "exists"}, op \in {"ensure", "delete"} : Begin(c, label, op)
    BY <1>1 DEF StartSync
  <2>2. pc[c] = "idle" /\ pc'[c] = label /\ mem[c] = NoMem /\ UNCHANGED <<mem, lbs>>
    BY <1>c, <2>1 DEF Begin, TypeOK, WorkersOK, RoleInv, cloud
  <2> QED
    BY <2>2 DEF ServedInv, AllReady, NoMem, Resting
<1>2. CASE CloudStep
  <2>1. PICK l \in DOMAIN lbs : LoadBalancerReady(l) \/ LoadBalancerRemoved(l)
    BY <1>2 DEF CloudStep
  <2>2. UNCHANGED <<svc, published, dirty, pc, job, mem>>
    BY <2>1 DEF LoadBalancerReady, LoadBalancerRemoved, kube
  <2>3. CASE LoadBalancerReady(l)
    <3>1. ~AllReady /\ DOMAIN lbs' = DOMAIN lbs
      BY <2>3 DEF LoadBalancerReady, AllReady
    <3> QED
      BY <2>2, <3>1 DEF ServedInv, Resting
  <2>4. CASE LoadBalancerRemoved(l)
    <3>1. pc[c] = "wait"
      BY <2>4 DEF LoadBalancerRemoved, CleanJob
    <3>2. job[c].op # "ensure" \/ (mem[c].lb # None /\ ~mem[c].made => mem[c].addr)
      BY <3>1 DEF ServedInv
    <3> QED
      BY <2>2, <3>1, <3>2 DEF ServedInv, Resting
  <2> QED
    BY <2>1, <2>3, <2>4
<1>3. CASE UserStep \/ UNCHANGED vars
  <2>1. UNCHANGED <<published, lbs, pc, job, mem>>
    BY <1>3 DEF UserStep, EditService, ChangeType, DeleteService, ChangeNodes, UserChanges, vars,
       cloud
  <2>2. dirty' \/ UNCHANGED <<svc, dirty>>
    BY <1>3 DEF UserStep, EditService, ChangeType, DeleteService, ChangeNodes, vars
  <2> QED
    BY <2>1, <2>2 DEF ServedInv, AllReady, Resting
<1>4. CASE RemoveFinalizer
  <2>1. UNCHANGED lbs /\ (dirty' \/ pc'[c] = "publish") /\ pc[c] = "release" /\ DOMAIN lbs = {}
    BY <1>4, Records, RemoveOutcome DEF RemoveFinalizer
  <2>2. job'[c].op # "ensure"
    BY <1>4, RemoveOutcome
  <2> QED
    BY <2>1, <2>2 DEF ServedInv, AllReady, Resting
<1> QED
  BY <1>c, <1>f, <1>1, <1>2, <1>3, <1>4, ServedStep, ServedPublish DEF Next, Sole

(* What a load balancer that is there, an ensure and who rests can show.   *)
LEMMA ServedInvariant ==
    ASSUME Sole, NoFaults
    PROVE  Spec => []ServedInv
<1>1. Init => ServedInv
  BY DEF Init, ServedInv, AllReady, NoMem, NoJob, Workers, Nothing, Resting
<1>2. TypeOK /\ LifecycleInv /\ LifecycleInv' /\ HeldInv /\ ReconcileInv
        /\ GroupJob(Controller) /\ CleanJob(Controller)
        /\ QueuedInv /\ CurrentInv /\ ReachInv /\ ServedInv /\ [Next]_vars
        => ServedInv'
  BY NextServed
<1> QED
  BY <1>1, <1>2, TypeCorrect, Lifecycle, HeldInvariant, ReconcileInvariant, SoleGroups,
     SoleClean, QueuedInvariant, CurrentInvariant, ReachInvariant, PTL DEF Spec

(* With one worker whose calls are answered, whenever it rests and the     *)
(* Service wants a load balancer, one is there and ready, it realises the  *)
(* spec of now, and its address is in the status, after any edits, changes *)
(* of type and changes of the nodes.                                       *)
THEOREM SettledServed ==
    ASSUME Sole, DistinctNumbers, NoFaults
    PROVE  Spec => []SettledIsServed
<1>1. TypeOK /\ LifecycleInv /\ ServedInv /\ SettledIsRealised => SettledIsServed
  <2> SUFFICES ASSUME TypeOK, LifecycleInv, ServedInv, SettledIsRealised,
                      Resting, svc.phase = "active"
               PROVE  /\ published
                      /\ \E l \in DOMAIN lbs :
                           /\ lbs[l].status = "ready" /\ GroupsAsAsked(l)
                           /\ \E ns \in NodeSets : Realises(l, svc.spec, ns)
    BY DEF SettledIsServed
  <2>1. pc[Controller] = "idle" /\ mem[Controller] = NoMem
    BY DEF Resting, LifecycleInv, RoleInv, Workers
  <2>2. AllReady /\ published /\ DOMAIN lbs # {}
    BY <2>1 DEF ServedInv, NoMem
  <2>3. PICK l \in DOMAIN lbs : lbs[l].status = "ready"
    BY <2>2 DEF AllReady
  <2>4. Lives(l)
    BY <2>3 DEF Lives
  <2> QED
    BY <2>2, <2>3, <2>4 DEF SettledIsRealised
<1> QED
  BY <1>1, TypeCorrect, Lifecycle, ServedInvariant, SettledRealised, PTL

(* The only worker gives a job up early for one reason alone.              *)
LEMMA GivesUp ==
    ASSUME Sole, NoFaults, TypeOK, LifecycleInv, HeldInv, ReconcileInv,
           GroupJob(Controller), CleanJob(Controller),
           QueuedInv, CurrentInv, ReachInv, [Next]_vars,
           pc[Controller] \notin {"idle", "publish"}, pc'[Controller] = "idle"
    PROVE  ~(job[Controller].spec.groups \subseteq UserGroups)
<1>1. Workers = {Controller} /\ Controller \in Workers
  BY DEF Workers, Sole
<1>2. ~CallFails(Controller) /\ ~Crash
  BY <1>1, AllAnswered
<1>3. ~StartSync /\ ~Publish
  BY DEF StartSync, Begin, Publish
<1>5. ~RemoveFinalizer
  <2>1. RemoveFinalizer => Goto(Controller, "publish", mem[Controller])
    BY <1>1, AllAnswered DEF RemoveFinalizer, Answered
  <2> QED
    BY <1>1, <2>1, GoesTo
<1>4. ~(CloudStep \/ UserStep \/ UNCHANGED vars)
  BY DEF CloudStep, LoadBalancerReady, LoadBalancerRemoved, UserStep, EditService, ChangeType,
     DeleteService, ChangeNodes, UserChanges, vars
<1> QED
  BY <1>1, <1>2, <1>3, <1>4, <1>5, Proceeds DEF Next, Sole

(* With one worker whose calls are answered, a reconcile never names an    *)
(* object that is gone: it gives up early only for a security group the    *)
(* Service names and the VPC does not have.                                *)
THEOREM NoOwnError ==
    ASSUME Sole, NoFaults
    PROVE  Spec => NoErrorOfItsOwn
<1>1. TypeOK /\ LifecycleInv /\ HeldInv /\ ReconcileInv
        /\ GroupJob(Controller) /\ CleanJob(Controller) /\ QueuedInv
        /\ CurrentInv /\ ReachInv /\ [Next]_vars
        => [pc[Controller] \notin {"idle", "publish"} /\ pc'[Controller] = "idle"
              => ~(job[Controller].spec.groups \subseteq UserGroups)]_vars
  BY GivesUp
<1> QED
  BY <1>1, TypeCorrect, Lifecycle, HeldInvariant, ReconcileInvariant, SoleGroups,
     SoleClean, QueuedInvariant, CurrentInvariant, ReachInvariant, PTL
     DEF Spec, NoErrorOfItsOwn
=============================================================================
