-------------------------- MODULE ReconcileProofs ---------------------------
(***************************************************************************)
(* Theorems about Reconcile, for any set of updaters, specs, node sets and *)
(* identities and any number of changes and faults.                        *)
(***************************************************************************)
EXTENDS Reconcile, TLAPS

-----------------------------------------------------------------------------
(* The cloud's object maps.                                                *)

(* Adding or replacing an object keeps a map well typed.                   *)
LEMMA PutObject ==
    ASSUME NEW f, NEW T, Objects(f, T), NEW k \in Ids, NEW v \in T
    PROVE  Objects(Put(f, k, v), T)
BY DEF Objects, Put

(* Removing objects keeps a map well typed.                                *)
LEMMA DropObjects ==
    ASSUME NEW f, NEW T, Objects(f, T), NEW S
    PROVE  Objects(Drop(f, S), T)
BY DEF Objects, Drop, Restrict

(* Changing one object keeps a map well typed.                             *)
LEMMA SetObject ==
    ASSUME NEW f, NEW T, Objects(f, T), NEW k \in DOMAIN f, NEW v \in T
    PROVE  Objects([f EXCEPT ![k] = v], T)
BY DEF Objects

-----------------------------------------------------------------------------
(* How a worker's step ends.                                               *)

(* The idle worker's job and memory are well typed.                        *)
LEMMA IdleTypes == NoJob \in JobType /\ NoMem \in MemType
BY DEF NoJob, JobType, Ops, NoMem, MemType, MaybeId, NoGroups, GroupsType

(* Going on to another call keeps the workers' state well typed.           *)
LEMMA GotoTypes ==
    ASSUME WorkersOK, NEW w \in Workers, NEW label \in Labels, NEW m \in MemType,
           Goto(w, label, m)
    PROVE  WorkersOK'
BY DEF WorkersOK, Goto

(* So does giving up a job ...                                             *)
LEMMA RestTypes ==
    ASSUME WorkersOK, NEW w \in Workers, Rest(w)
    PROVE  /\ pc' \in [Workers -> Labels]
           /\ job' \in [Workers -> JobType]
           /\ mem' \in [Workers -> MemType]
BY IdleTypes DEF WorkersOK, Rest, Labels

(* ... with an error, ...                                                  *)
LEMMA AbortTypes ==
    ASSUME WorkersOK, NEW w \in Workers, Abort(w)
    PROVE  WorkersOK'
BY RestTypes DEF WorkersOK, Abort

(* ... because the answer was lost, ...                                    *)
LEMMA LostTypes ==
    ASSUME WorkersOK, NEW w \in Workers, Lost(w)
    PROVE  WorkersOK'
BY RestTypes, BoundsAssumption DEF WorkersOK, Lost

(* ... and a call that may or may not be answered.                         *)
LEMMA AnsweredTypes ==
    ASSUME WorkersOK, NEW w \in Workers, NEW label \in Labels, NEW m \in MemType,
           Answered(w, label, m)
    PROVE  WorkersOK'
BY GotoTypes, LostTypes DEF Answered

-----------------------------------------------------------------------------
(* What the actions read is well typed.                                    *)

(* The ports of a job's spec are ports.                                    *)
LEMMA PortsTyped ==
    ASSUME NEW s \in Specs \cup {NoSpec}
    PROVE  /\ s \in SpecType
           /\ Ports(s) \subseteq PortType
           /\ \A p \in Ports(s) : Key(p) \in Keys /\ Label(p) \in PortLabels
<1>1. s \in SpecType
  <2>1. <<>> \in Seq(PortType)
    OBVIOUS
  <2>2. NoSpec \in SpecType
    BY <2>1 DEF NoSpec, SpecType
  <2>3. CASE s \in Specs
    BY <2>3, SpecsAssumption DEF SpecsAssumption
  <2> QED
    BY <2>2, <2>3
<1>2. Ports(s) \subseteq PortType
  BY <1>1 DEF SpecType, Ports, Range
<1>3. ASSUME NEW p \in Ports(s) PROVE Key(p) \in Keys /\ Label(p) \in PortLabels
  <2>1. p.port \in Nat /\ p.nodePort \in Nat /\ p.proto \in {"tcp", "udp"}
    BY <1>2, <1>3 DEF PortType
  <2> QED
    BY <2>1 DEF Key, Label, Keys, PortLabels
<1> QED
  BY <1>1, <1>2, <1>3

(* A map lookup yields a listed port.                                      *)
LEMMA LookupsTyped ==
    ASSUME NEW s, NEW k
    PROVE  TargetGroupByKey(s, k) \subseteq Ports(s) /\ ListenerByNumber(s, k) \subseteq Ports(s)
BY DEF TargetGroupByKey, ListenerByNumber

(* The cloud hands out identities.                                         *)
LEMMA FreshTyped ==
    FreshLb \subseteq Ids /\ FreshTg \subseteq Ids /\ FreshListener \subseteq Ids /\ FreshSg \subseteq Ids
BY DEF FreshLb, FreshTg, FreshListener, FreshSg, FreshIds

(* The security groups a worker asks for are well typed.                   *)
LEMMA WantedTyped ==
    ASSUME WorkersOK, NEW w \in Workers
    PROVE  WantedGroups(w) \in GroupsType
BY PortsTyped DEF WorkersOK, WantedGroups, GroupsType, JobType, MemType, SpecType

-----------------------------------------------------------------------------
(* Type correctness, one lemma per group of actions.                       *)

(* The jobs that start.                                                    *)
LEMMA StartTypes ==
    ASSUME TypeOK, StartSync \/ \E w \in Updaters : StartResync(w)
    PROVE  TypeOK'
<1>1. ASSUME NEW w \in Workers, NEW label \in Labels, NEW op \in Ops,
             Begin(w, label, op), dirty' \in BOOLEAN, finalizer' \in BOOLEAN
      PROVE  TypeOK'
  <2>1. job' \in [Workers -> JobType]
    BY <1>1 DEF TypeOK, KubeOK, WorkersOK, Begin, JobType
  <2> QED
    BY <1>1, <2>1 DEF TypeOK, KubeOK, CloudOK, WorkersOK, Begin, cloud
<1>2. CASE StartSync
  BY <1>1, <1>2 DEF StartSync, Workers, Labels, Ops, TypeOK, KubeOK
<1>3. CASE \E w \in Updaters : StartResync(w)
  BY <1>1, <1>3 DEF StartResync, Workers, Labels, Ops, TypeOK, KubeOK, WorkersOK
<1> QED
  BY <1>2, <1>3

(* The calls that only read.                                               *)
LEMMA ReadTypes ==
    ASSUME TypeOK, NEW w \in Workers,
           \/ GetLoadBalancer(w) \/ FetchLoadBalancer(w) \/ ListTargetGroups(w)
           \/ ListListeners(w) \/ ListUnusedTargetGroups(w) \/ ListSecurityGroups(w)
           \/ ReturnUpdated(w) \/ PollReady(w) \/ AwaitGone(w) \/ ListRemainingTargetGroups(w)
    PROVE  TypeOK'
<1> USE DEF TypeOK
<1>m. mem[w] \in MemType /\ job[w] \in JobType
  BY DEF WorkersOK
<1>p. /\ Ports(job[w].spec) \subseteq PortType
  BY <1>m, PortsTyped DEF JobType
<1>r. WorkersOK' /\ UNCHANGED <<kube, cloud>> => TypeOK'
  BY DEF KubeOK, CloudOK, kube, cloud
<1>1. CASE GetLoadBalancer(w)
  BY <1>1, <1>m, <1>r, GotoTypes DEF GetLoadBalancer, Labels
<1>2. CASE FetchLoadBalancer(w)
  <2>1. CASE FetchNothing(w)
    BY <1>2, <2>1, <1>m, <1>r, GotoTypes, AbortTypes DEF FetchLoadBalancer, FetchNothing, Labels
  <2>2. ASSUME NEW l \in DOMAIN lbs,
               Goto(w, IF job[w].op = "delete" THEN "sweep" ELSE "list",
                    [mem[w] EXCEPT !.lb = l, !.groups = lbs[l].groups, !.addr = lbs[l].addr])
        PROVE  TypeOK'
    <3>1. lbs[l] \in LbType /\ l \in Ids
      BY DEF CloudOK, Objects
    <3>2. [mem[w] EXCEPT !.lb = l, !.groups = lbs[l].groups, !.addr = lbs[l].addr] \in MemType
      BY <3>1, <1>m DEF MemType, LbType, MaybeId
    <3> QED
      BY <1>2, <2>2, <3>2, <1>r, GotoTypes DEF FetchLoadBalancer, Labels
  <2> QED
    BY <1>2, <2>1, <2>2 DEF FetchLoadBalancer
<1>3. CASE ListTargetGroups(w)
  <2> DEFINE have == {tgs[t].key : t \in DOMAIN tgs}
             m == [mem[w] EXCEPT !.mk = {p \in Ports(job[w].spec) : Key(p) \notin have},
                                 !.up = {t \in DOMAIN tgs : tgs[t].key \in DesiredKeys(job[w].spec)}]
  <2>1. m \in MemType
    BY <1>m, <1>p DEF MemType, CloudOK, Objects
  <2> QED
    BY <1>3, <2>1, <1>r, GotoTypes DEF ListTargetGroups, Labels
<1>4. CASE ListListeners(w)
  <2> DEFINE mine == {l \in DOMAIN listeners : listeners[l].lb = mem[w].lb}
             kept == {l \in mine : listeners[l].port \in DesiredNumbers(job[w].spec)}
             have == {listeners[l].port : l \in mine}
             m == [mem[w] EXCEPT !.rm = mine \ kept, !.up = kept,
                                 !.mk = {p \in Ports(job[w].spec) : p.port \notin have}]
  <2>1. m \in MemType
    BY <1>m, <1>p DEF MemType, CloudOK, Objects
  <2>2. Goto(w, "listeners", m) \/ Abort(w)
    BY <1>4 DEF ListListeners
  <2> QED
    BY <1>4, <2>1, <2>2, <1>r, GotoTypes, AbortTypes DEF ListListeners, Labels
<1>5. CASE ListUnusedTargetGroups(w)
  <2>1. [mem[w] EXCEPT !.rm = UnusedTargetGroups(w)] \in MemType
    BY <1>m DEF MemType, CloudOK, Objects, UnusedTargetGroups, Unreferenced
  <2> QED
    BY <1>5, <2>1, <1>r, GotoTypes DEF ListUnusedTargetGroups, Labels
<1>6. CASE ListSecurityGroups(w)
  <2>1. \A s \in DOMAIN sgs : [mem[w] EXCEPT !.sg = s] \in MemType
    BY <1>m DEF MemType, CloudOK, Objects, MaybeId
  <2>2. AfterGroups(w) \in Labels
    BY DEF AfterGroups, Labels
  <2> QED
    BY <1>6, <2>1, <2>2, <1>m, <1>r, GotoTypes, AbortTypes DEF ListSecurityGroups, Labels
<1>7. CASE ReturnUpdated(w)
  BY <1>7, <1>r, RestTypes DEF ReturnUpdated, Return, WorkersOK
<1>8. CASE PollReady(w)
  <2>1. [mem[w] EXCEPT !.addr = TRUE] \in MemType
    BY <1>m DEF MemType
  <2> QED
    BY <1>8, <2>1, <1>r, GotoTypes DEF PollReady, Labels
<1>9. CASE AwaitGone(w)
  BY <1>9, <1>m, <1>r, GotoTypes DEF AwaitGone, Labels
<1>10. CASE ListRemainingTargetGroups(w)
  <2>1. [mem[w] EXCEPT !.rm = Unreferenced] \in MemType
    BY <1>m DEF MemType, CloudOK, Objects, Unreferenced
  <2> QED
    BY <1>10, <2>1, <1>r, GotoTypes DEF ListRemainingTargetGroups, Labels
<1> QED
  BY <1>1, <1>2, <1>3, <1>4, <1>5, <1>6, <1>7, <1>8, <1>9, <1>10

(* The calls that change target groups.                                    *)
LEMMA TargetGroupTypes ==
    ASSUME TypeOK, NEW w \in Workers,
           CreateTargetGroup(w) \/ UpdateTargetGroup(w) \/ SetAttachments(w) \/ DeleteTargetGroup(w)
    PROVE  TypeOK'
<1> USE DEF TypeOK
<1>m. mem[w] \in MemType /\ job[w] \in JobType
  BY DEF WorkersOK
<1>p. \A p \in Ports(job[w].spec) : Key(p) \in Keys /\ Label(p) \in PortLabels
  BY <1>m, PortsTyped DEF JobType
<1>r. WorkersOK' /\ Objects(tgs', TgType) /\ UNCHANGED <<kube, lbs, listeners, sgs>> => TypeOK'
  BY DEF KubeOK, CloudOK, kube
<1>g. ASSUME NEW p, Key(p) \in Keys, Label(p) \in PortLabels, NEW t \in Ids
      PROVE  /\ mem[w].got \cup {[id |-> t, key |-> Key(p), label |-> Label(p)]}
                  \in SUBSET [id : Ids, key : Keys, label : PortLabels]
             /\ t \in MaybeId
  BY <1>g, <1>m DEF MemType, MaybeId
<1>1. CASE CreateTargetGroup(w)
  <2>1. PICK p \in mem[w].mk, t \in FreshTg :
          /\ tgs' = Put(tgs, t, [key |-> Key(p), label |-> Label(p), nodes |-> {}])
          /\ Answered(w, "groups",
               [mem[w] EXCEPT !.mk = @ \ {p}, !.att = t,
                              !.got = @ \cup {[id |-> t, key |-> Key(p), label |-> Label(p)]}])
    BY <1>1 DEF CreateTargetGroup
  <2>2. p \in PortType /\ t \in Ids
    BY <1>m, FreshTyped DEF MemType
  <2>3. Key(p) \in Keys /\ Label(p) \in PortLabels
    <3>1. p.port \in Nat /\ p.nodePort \in Nat /\ p.proto \in {"tcp", "udp"}
      BY <2>2 DEF PortType
    <3> QED
      BY <3>1 DEF Key, Label, Keys, PortLabels
  <2>4. Objects(tgs', TgType)
    <3>1. [key |-> Key(p), label |-> Label(p), nodes |-> {}] \in TgType
      BY <2>3 DEF TgType
    <3> QED
      BY <3>1, <2>1, <2>2, PutObject DEF CloudOK
  <2>5. [mem[w] EXCEPT !.mk = @ \ {p}, !.att = t,
                       !.got = @ \cup {[id |-> t, key |-> Key(p), label |-> Label(p)]}] \in MemType
    BY <1>m, <1>g, <2>2, <2>3 DEF MemType
  <2> QED
    BY <1>1, <1>r, <2>1, <2>4, <2>5, AnsweredTypes DEF CreateTargetGroup, Labels
<1>2. CASE UpdateTargetGroup(w)
  <2>1. PICK t \in mem[w].up :
          IF t \in DOMAIN tgs
          THEN \E p \in TargetGroupByKey(job[w].spec, tgs[t].key) :
               /\ tgs' = [tgs EXCEPT ![t].label = Label(p)]
               /\ Answered(w, "groups",
                    [mem[w] EXCEPT !.up = @ \ {t}, !.att = t,
                                   !.got = @ \cup {[id |-> t, key |-> Key(p), label |-> Label(p)]}])
          ELSE Abort(w) /\ UNCHANGED tgs
    BY <1>2 DEF UpdateTargetGroup
  <2>2. CASE t \in DOMAIN tgs
    <3>1. PICK p \in TargetGroupByKey(job[w].spec, tgs[t].key) :
               /\ tgs' = [tgs EXCEPT ![t].label = Label(p)]
               /\ Answered(w, "groups",
                    [mem[w] EXCEPT !.up = @ \ {t}, !.att = t,
                                   !.got = @ \cup {[id |-> t, key |-> Key(p), label |-> Label(p)]}])
      BY <2>1, <2>2
    <3>2. Key(p) \in Keys /\ Label(p) \in PortLabels /\ t \in Ids
      BY <1>p, <1>m, LookupsTyped DEF MemType
    <3>3. Objects(tgs', TgType)
      <4>1. tgs[t] \in TgType
        BY <2>2 DEF CloudOK, Objects
      <4>2. [tgs[t] EXCEPT !.label = Label(p)] \in TgType
        BY <4>1, <3>2 DEF TgType
      <4>3. tgs' = [tgs EXCEPT ![t] = [tgs[t] EXCEPT !.label = Label(p)]]
        BY <3>1
      <4> QED
        BY <4>2, <4>3, <2>2, SetObject DEF CloudOK
    <3>4. [mem[w] EXCEPT !.up = @ \ {t}, !.att = t,
                         !.got = @ \cup {[id |-> t, key |-> Key(p), label |-> Label(p)]}] \in MemType
      BY <1>m, <1>g, <3>2 DEF MemType
    <3> QED
      BY <1>2, <1>r, <3>1, <3>3, <3>4, AnsweredTypes DEF UpdateTargetGroup, Labels
  <2>3. CASE t \notin DOMAIN tgs
    BY <1>2, <2>1, <2>3, <1>r, AbortTypes DEF UpdateTargetGroup, CloudOK
  <2> QED
    BY <2>2, <2>3
<1>3. CASE SetAttachments(w)
  <2>1. CASE mem[w].att \in DOMAIN tgs
    <3>1. /\ tgs' = [tgs EXCEPT ![mem[w].att].nodes = job[w].nodes]
          /\ Answered(w, "groups", [mem[w] EXCEPT !.att = None])
      BY <1>3, <2>1 DEF SetAttachments
    <3>2. tgs[mem[w].att] \in TgType /\ job[w].nodes \in NodeSets \cup {{}}
      BY <2>1, <1>m DEF CloudOK, Objects, JobType
    <3>3. [tgs[mem[w].att] EXCEPT !.nodes = job[w].nodes] \in TgType
      BY <3>2 DEF TgType
    <3>4. tgs' = [tgs EXCEPT ![mem[w].att] = [tgs[mem[w].att] EXCEPT !.nodes = job[w].nodes]]
      BY <3>1
    <3>5. Objects(tgs', TgType)
      BY <3>3, <3>4, <2>1, SetObject DEF CloudOK
    <3>6. [mem[w] EXCEPT !.att = None] \in MemType
      BY <1>m DEF MemType, MaybeId
    <3> QED
      BY <1>3, <1>r, <3>1, <3>5, <3>6, AnsweredTypes DEF SetAttachments, Labels
  <2>2. CASE mem[w].att \notin DOMAIN tgs
    BY <1>3, <2>2, <1>r, AbortTypes DEF SetAttachments, CloudOK
  <2> QED
    BY <2>1, <2>2
<1>4. CASE DeleteTargetGroup(w)
  <2>1. PICK t \in mem[w].rm :
          IF t \in DOMAIN tgs
          THEN /\ tgs' = Drop(tgs, {t})
               /\ Answered(w, pc[w], [mem[w] EXCEPT !.rm = @ \ {t}])
          ELSE Abort(w) /\ UNCHANGED tgs
    BY <1>4 DEF DeleteTargetGroup
  <2>2. Objects(tgs', TgType)
    BY <2>1, DropObjects DEF CloudOK
  <2>3. [mem[w] EXCEPT !.rm = @ \ {t}] \in MemType
    BY <1>m DEF MemType
  <2> QED
    BY <1>4, <1>r, <2>1, <2>2, <2>3, AnsweredTypes, AbortTypes DEF DeleteTargetGroup, Labels
<1> QED
  BY <1>1, <1>2, <1>3, <1>4

(* The calls that change listeners.                                        *)
LEMMA ListenerTypes ==
    ASSUME TypeOK, NEW w \in Workers,
           DeleteListener(w) \/ UpdateListener(w) \/ CreateListener(w)
    PROVE  TypeOK'
<1> USE DEF TypeOK
<1>m. mem[w] \in MemType /\ job[w] \in JobType
  BY DEF WorkersOK
<1>p. Ports(job[w].spec) \subseteq PortType
  BY <1>m, PortsTyped DEF JobType
<1>r. WorkersOK' /\ Objects(listeners', ListenerType) /\ UNCHANGED <<kube, lbs, tgs, sgs>> => TypeOK'
  BY DEF KubeOK, CloudOK, kube
<1>u. \A l : /\ [mem[w] EXCEPT !.rm = @ \ {l}] \in MemType
             /\ [mem[w] EXCEPT !.up = @ \ {l}] \in MemType
             /\ [mem[w] EXCEPT !.mk = @ \ {l}] \in MemType
  BY <1>m DEF MemType
<1>a. Abort(w) /\ UNCHANGED <<listeners, kube, lbs, tgs, sgs>> => TypeOK'
  BY <1>r, AbortTypes DEF CloudOK
<1>1. CASE DeleteListener(w)
  <2>1. PICK l \in mem[w].rm :
          IF l \in DOMAIN listeners
          THEN /\ listeners' = Drop(listeners, {l})
               /\ Answered(w, "listeners", [mem[w] EXCEPT !.rm = @ \ {l}])
          ELSE Abort(w) /\ UNCHANGED listeners
    BY <1>1 DEF DeleteListener
  <2>2. Objects(listeners', ListenerType)
    BY <2>1, DropObjects DEF CloudOK
  <2> QED
    BY <1>1, <1>r, <1>u, <2>1, <2>2, AnsweredTypes, AbortTypes DEF DeleteListener, Labels
<1>2. CASE UpdateListener(w)
  <2>1. PICK l \in mem[w].up :
         IF l \in DOMAIN listeners
         THEN \E p \in ListenerByNumber(job[w].spec, listeners[l].port) :
              IF TargetGroupsFor(p, mem[w].got) = {}
              THEN Goto(w, "listeners", [mem[w] EXCEPT !.up = @ \ {l}]) /\ UNCHANGED listeners
              ELSE \E t \in TargetGroupsFor(p, mem[w].got) :
                     IF t.id \in DOMAIN tgs
                     THEN /\ listeners' = [listeners EXCEPT ![l].proto = p.proto, ![l].tg = t.id]
                          /\ Answered(w, "listeners", [mem[w] EXCEPT !.up = @ \ {l}])
                     ELSE Abort(w) /\ UNCHANGED listeners
         ELSE Abort(w) /\ UNCHANGED listeners
    BY <1>2 DEF UpdateListener
  <2>f. UNCHANGED <<kube, lbs, tgs, sgs>>
    BY <1>2 DEF UpdateListener
  <2>2. CASE l \in DOMAIN listeners
    <3>1. PICK p \in ListenerByNumber(job[w].spec, listeners[l].port) :
              IF TargetGroupsFor(p, mem[w].got) = {}
              THEN Goto(w, "listeners", [mem[w] EXCEPT !.up = @ \ {l}]) /\ UNCHANGED listeners
              ELSE \E t \in TargetGroupsFor(p, mem[w].got) :
                     IF t.id \in DOMAIN tgs
                     THEN /\ listeners' = [listeners EXCEPT ![l].proto = p.proto, ![l].tg = t.id]
                          /\ Answered(w, "listeners", [mem[w] EXCEPT !.up = @ \ {l}])
                     ELSE Abort(w) /\ UNCHANGED listeners
      BY <2>1, <2>2
    <3>2. CASE TargetGroupsFor(p, mem[w].got) = {}
      BY <3>1, <3>2, <2>f, <1>r, <1>u, GotoTypes DEF CloudOK, Labels
    <3>3. ASSUME NEW t \in TargetGroupsFor(p, mem[w].got), t.id \in DOMAIN tgs,
                 listeners' = [listeners EXCEPT ![l].proto = p.proto, ![l].tg = t.id],
                 Answered(w, "listeners", [mem[w] EXCEPT !.up = @ \ {l}])
          PROVE  TypeOK'
      <4>1. p.proto \in {"tcp", "udp"} /\ t.id \in Ids
        BY <3>3, <1>p, LookupsTyped DEF PortType, CloudOK, Objects
      <4>2. listeners[l] \in ListenerType
        BY <2>2 DEF CloudOK, Objects
      <4>3. [listeners[l] EXCEPT !.proto = p.proto, !.tg = t.id] \in ListenerType
        BY <4>1, <4>2 DEF ListenerType
      <4>4. listeners' = [listeners EXCEPT ![l] = [listeners[l] EXCEPT !.proto = p.proto, !.tg = t.id]]
        BY <3>3, <2>2
      <4>5. Objects(listeners', ListenerType)
        BY <4>3, <4>4, <2>2, SetObject DEF CloudOK
      <4> QED
        BY <3>3, <4>5, <2>f, <1>r, <1>u, AnsweredTypes DEF Labels
    <3> QED
      BY <3>1, <3>2, <3>3, <2>f, <1>a
  <2>3. CASE l \notin DOMAIN listeners
    BY <2>1, <2>3, <2>f, <1>a
  <2> QED
    BY <2>2, <2>3
<1>3. CASE CreateListener(w)
  <2>f. UNCHANGED <<kube, lbs, tgs, sgs>>
    BY <1>3 DEF CreateListener
  <2>1. PICK p \in mem[w].mk :
         IF TargetGroupsFor(p, mem[w].got) = {}
         THEN Goto(w, "listeners", [mem[w] EXCEPT !.mk = @ \ {p}]) /\ UNCHANGED listeners
         ELSE \E t \in TargetGroupsFor(p, mem[w].got), l \in FreshListener :
                IF t.id \in DOMAIN tgs /\ mem[w].lb \in DOMAIN lbs
                THEN /\ listeners' = Put(listeners, l, [lb |-> mem[w].lb, port |-> p.port,
                                                        proto |-> p.proto, tg |-> t.id])
                     /\ Answered(w, "listeners", [mem[w] EXCEPT !.mk = @ \ {p}])
                ELSE Abort(w) /\ UNCHANGED listeners
    BY <1>3 DEF CreateListener
  <2>2. CASE TargetGroupsFor(p, mem[w].got) = {}
    BY <2>1, <2>2, <2>f, <1>r, <1>u, GotoTypes DEF CloudOK, Labels
  <2>3. ASSUME NEW t \in TargetGroupsFor(p, mem[w].got), NEW l \in FreshListener,
               t.id \in DOMAIN tgs, mem[w].lb \in DOMAIN lbs,
               listeners' = Put(listeners, l, [lb |-> mem[w].lb, port |-> p.port,
                                               proto |-> p.proto, tg |-> t.id]),
               Answered(w, "listeners", [mem[w] EXCEPT !.mk = @ \ {p}])
        PROVE  TypeOK'
    <3>1. p \in PortType /\ l \in Ids /\ t.id \in Ids /\ mem[w].lb \in Ids
      BY <2>3, <1>m, FreshTyped DEF MemType, CloudOK, Objects
    <3>2. [lb |-> mem[w].lb, port |-> p.port, proto |-> p.proto, tg |-> t.id] \in ListenerType
      BY <3>1 DEF PortType, ListenerType
    <3>3. Objects(listeners', ListenerType)
      BY <2>3, <3>1, <3>2, PutObject DEF CloudOK
    <3> QED
      BY <2>3, <3>3, <2>f, <1>r, <1>u, AnsweredTypes DEF Labels
  <2> QED
    BY <2>1, <2>2, <2>3, <2>f, <1>a
<1> QED
  BY <1>1, <1>2, <1>3

(* The calls that change load balancers and security groups.               *)
LEMMA LoadBalancerTypes ==
    ASSUME TypeOK, NEW w \in Workers,
           \/ EnsureManagedSecurityGroup(w) \/ CreateLoadbalancer(w) \/ UpdateLoadbalancer(w)
           \/ DeleteLoadbalancer(w) \/ DeleteManagedSecurityGroup(w)
    PROVE  TypeOK'
<1> USE DEF TypeOK
<1>m. mem[w] \in MemType /\ job[w] \in JobType
  BY DEF WorkersOK
<1>p. Ports(job[w].spec) \subseteq PortType
  BY <1>m, PortsTyped DEF JobType
<1>g. WantedGroups(w) \in GroupsType
  BY WantedTyped
<1>l. AfterGroups(w) \in Labels /\ AfterUpdate(w) \in Labels
  BY DEF AfterGroups, AfterUpdate, Labels
<1>r. WorkersOK' /\ Objects(lbs', LbType) /\ Objects(sgs', SgType)
        /\ UNCHANGED <<kube, tgs, listeners>> => TypeOK'
  BY DEF KubeOK, CloudOK, kube
<1>a. Abort(w) /\ UNCHANGED <<kube, lbs, tgs, listeners, sgs>> => TypeOK'
  BY <1>r, AbortTypes DEF CloudOK
<1>1. CASE EnsureManagedSecurityGroup(w)
  <2>f. UNCHANGED <<kube, lbs, tgs, listeners>> /\ Objects(lbs', LbType)
    BY <1>1 DEF EnsureManagedSecurityGroup, CloudOK
  <2>1. CASE mem[w].sg = None
    <3>1. PICK s \in FreshSg :
            /\ sgs' = Put(sgs, s, [rules |-> Ports(job[w].spec)])
            /\ Answered(w, AfterGroups(w), [mem[w] EXCEPT !.sg = s])
      BY <1>1, <2>1 DEF EnsureManagedSecurityGroup
    <3>2. s \in Ids
      BY FreshTyped
    <3>3. [rules |-> Ports(job[w].spec)] \in SgType
      BY <1>p DEF SgType
    <3>4. Objects(sgs', SgType)
      BY <3>1, <3>2, <3>3, PutObject DEF CloudOK
    <3>5. [mem[w] EXCEPT !.sg = s] \in MemType
      BY <3>2, <1>m DEF MemType, MaybeId
    <3>6. WorkersOK'
      BY <3>1, <3>5, <1>l, AnsweredTypes
    <3> QED
      BY <3>4, <3>6, <2>f, <1>r
  <2>2. CASE mem[w].sg # None /\ mem[w].sg \in DOMAIN sgs
    <3>1. /\ sgs' = [sgs EXCEPT ![mem[w].sg].rules = Ports(job[w].spec)]
          /\ Answered(w, AfterGroups(w), mem[w])
      BY <1>1, <2>2 DEF EnsureManagedSecurityGroup
    <3>2. sgs[mem[w].sg] \in SgType
      BY <2>2 DEF CloudOK, Objects
    <3>3. [sgs[mem[w].sg] EXCEPT !.rules = Ports(job[w].spec)] \in SgType
      BY <3>2, <1>p DEF SgType
    <3>4. sgs' = [sgs EXCEPT ![mem[w].sg] = [sgs[mem[w].sg] EXCEPT !.rules = Ports(job[w].spec)]]
      BY <3>1
    <3>5. Objects(sgs', SgType)
      BY <3>3, <3>4, <2>2, SetObject DEF CloudOK
    <3>6. WorkersOK'
      BY <3>1, <1>m, <1>l, AnsweredTypes
    <3> QED
      BY <3>5, <3>6, <2>f, <1>r
  <2>3. CASE mem[w].sg # None /\ mem[w].sg \notin DOMAIN sgs
    BY <1>1, <2>3, <2>f, <1>a DEF EnsureManagedSecurityGroup
  <2> QED
    BY <2>1, <2>2, <2>3
<1>2. CASE CreateLoadbalancer(w)
  <2>1. PICK l \in FreshLb :
          /\ lbs' = Put(lbs, l, [status |-> "creating", addr |-> FALSE, groups |-> WantedGroups(w)])
          /\ Answered(w, "list", [mem[w] EXCEPT !.lb = l, !.made = TRUE,
                                                !.groups = WantedGroups(w), !.sg = None])
    BY <1>2 DEF CreateLoadbalancer
  <2>2. l \in Ids
    BY FreshTyped
  <2>3. [status |-> "creating", addr |-> FALSE, groups |-> WantedGroups(w)] \in LbType
    BY <1>g DEF LbType
  <2>4. Objects(lbs', LbType)
    BY <2>1, <2>2, <2>3, PutObject DEF CloudOK
  <2>5. [mem[w] EXCEPT !.lb = l, !.made = TRUE, !.groups = WantedGroups(w), !.sg = None] \in MemType
    BY <2>2, <1>m, <1>g DEF MemType, MaybeId
  <2>6. WorkersOK'
    BY <2>1, <2>5, AnsweredTypes DEF Labels
  <2> QED
    BY <1>2, <2>4, <2>6, <1>r DEF CreateLoadbalancer, CloudOK
<1>3. ASSUME NEW v \in LbType, mem[w].lb \in DOMAIN lbs,
             lbs' = [lbs EXCEPT ![mem[w].lb] = v], WorkersOK', UNCHANGED <<kube, tgs, listeners, sgs>>
      PROVE  TypeOK'
  <2>1. Objects(lbs', LbType)
    BY <1>3, SetObject DEF CloudOK
  <2> QED
    BY <1>3, <2>1, <1>r DEF CloudOK
<1>4. CASE UpdateLoadbalancer(w)
  <2>f. UNCHANGED <<kube, tgs, listeners, sgs>>
    BY <1>4 DEF UpdateLoadbalancer
  <2>1. CASE WantedGroups(w) = mem[w].groups
    <3>1. Goto(w, AfterUpdate(w), mem[w]) /\ UNCHANGED lbs
      BY <1>4, <2>1 DEF UpdateLoadbalancer
    <3> QED
      BY <3>1, <2>f, <1>m, <1>l, <1>r, GotoTypes DEF CloudOK
  <2>2. CASE WantedGroups(w) # mem[w].groups /\ mem[w].lb \in DOMAIN lbs
    <3>1. /\ lbs' = [lbs EXCEPT ![mem[w].lb].groups = WantedGroups(w)]
          /\ Answered(w, AfterUpdate(w), mem[w])
      BY <1>4, <2>2 DEF UpdateLoadbalancer
    <3>2. lbs[mem[w].lb] \in LbType
      BY <2>2 DEF CloudOK, Objects
    <3>3. [lbs[mem[w].lb] EXCEPT !.groups = WantedGroups(w)] \in LbType
      BY <3>2, <1>g DEF LbType
    <3>4. WorkersOK'
      BY <3>1, <1>m, <1>l, AnsweredTypes
    <3> QED
      BY <3>1, <3>3, <3>4, <2>2, <2>f, <1>3
  <2>3. CASE WantedGroups(w) # mem[w].groups /\ mem[w].lb \notin DOMAIN lbs
    BY <1>4, <2>3, <2>f, <1>a DEF UpdateLoadbalancer
  <2> QED
    BY <2>1, <2>2, <2>3
<1>5. CASE DeleteLoadbalancer(w)
  <2>f. UNCHANGED <<kube, tgs, listeners, sgs>>
    BY <1>5 DEF DeleteLoadbalancer
  <2>1. CASE mem[w].lb \in DOMAIN lbs
    <3>1. /\ lbs' = [lbs EXCEPT ![mem[w].lb].status = "deleting"]
          /\ Answered(w, "wait", mem[w])
      BY <1>5, <2>1 DEF DeleteLoadbalancer
    <3>2. lbs[mem[w].lb] \in LbType
      BY <2>1 DEF CloudOK, Objects
    <3>3. [lbs[mem[w].lb] EXCEPT !.status = "deleting"] \in LbType
      BY <3>2 DEF LbType
    <3>4. WorkersOK'
      BY <3>1, <1>m, AnsweredTypes DEF Labels
    <3> QED
      BY <3>1, <3>3, <3>4, <2>1, <2>f, <1>3
  <2>2. CASE mem[w].lb \notin DOMAIN lbs
    BY <1>5, <2>2, <2>f, <1>a DEF DeleteLoadbalancer
  <2> QED
    BY <2>1, <2>2
<1>6. CASE DeleteManagedSecurityGroup(w)
  <2>1. Objects(sgs', SgType)
    <3>1. UNCHANGED sgs \/ \E s \in DOMAIN sgs : sgs' = Drop(sgs, {s})
      BY <1>6 DEF DeleteManagedSecurityGroup
    <3> QED
      BY <3>1, DropObjects DEF CloudOK
  <2>2. WorkersOK'
    BY <1>6, BoundsAssumption DEF DeleteManagedSecurityGroup, WorkersOK, Labels
  <2> QED
    BY <1>6, <2>1, <2>2, <1>r DEF DeleteManagedSecurityGroup, CloudOK
<1> QED
  BY <1>1, <1>2, <1>4, <1>5, <1>6

(* The outcome recorded, and the steps of the cloud, the users and the     *)
(* faults.                                                                 *)
LEMMA EnvironmentTypes ==
    ASSUME TypeOK,
           \/ RemoveFinalizer \/ Publish \/ CloudStep \/ UserStep \/ Crash
           \/ \E w \in Workers : CallFails(w)
    PROVE  TypeOK'
<1> USE DEF TypeOK
<1>1. CASE Publish
  <2>1. Controller \in Workers
    BY DEF Workers
  <2>2. Outcome \in BOOLEAN
    BY <2>1 DEF Outcome, WorkersOK, MemType
  <2>3. WorkersOK'
    BY <1>1, <2>1, RestTypes, LostTypes DEF Publish, Return, WorkersOK
  <2>4. KubeOK'
    BY <1>1, <2>2 DEF Publish, KubeOK
  <2> QED
    BY <1>1, <2>3, <2>4 DEF Publish, CloudOK, cloud
<1>6. CASE RemoveFinalizer
  <2>1. Controller \in Workers
    BY DEF Workers
  <2>2. mem[Controller] \in MemType
    BY <2>1 DEF WorkersOK
  <2>3. WorkersOK'
    BY <1>6, <2>1, <2>2, GotoTypes, LostTypes DEF RemoveFinalizer, Labels
  <2>4. KubeOK'
    BY <1>6 DEF RemoveFinalizer, KubeOK, Phases
  <2> QED
    BY <1>6, <2>3, <2>4 DEF RemoveFinalizer, CloudOK, cloud
<1>2. CASE CloudStep
  <2>1. PICK l \in DOMAIN lbs : LoadBalancerReady(l) \/ LoadBalancerRemoved(l)
    BY <1>2 DEF CloudStep
  <2>2. CASE LoadBalancerReady(l)
    <3>1. lbs[l] \in LbType
      BY DEF CloudOK, Objects
    <3>2. [lbs[l] EXCEPT !.status = "ready", !.addr = TRUE] \in LbType
      BY <3>1 DEF LbType
    <3>3. lbs' = [lbs EXCEPT ![l] = [lbs[l] EXCEPT !.status = "ready", !.addr = TRUE]]
      BY <2>2 DEF LoadBalancerReady, CloudOK, Objects
    <3>4. Objects(lbs', LbType)
      BY <3>2, <3>3, SetObject DEF CloudOK
    <3> QED
      BY <2>2, <3>4 DEF LoadBalancerReady, KubeOK, CloudOK, WorkersOK, kube
  <2>3. CASE LoadBalancerRemoved(l)
    <3>1. Objects(lbs', LbType) /\ Objects(listeners', ListenerType)
      BY <2>3, DropObjects DEF LoadBalancerRemoved, CloudOK
    <3> QED
      BY <2>3, <3>1 DEF LoadBalancerRemoved, KubeOK, CloudOK, WorkersOK, kube
  <2> QED
    BY <2>1, <2>2, <2>3
<1>3. CASE UserStep
  <2>1. UserChanges
    BY <1>3 DEF UserStep, EditService, ChangeType, DeleteService, ChangeNodes
  <2>2. CloudOK' /\ changes' \in 0..MaxChanges /\ finalizer' \in BOOLEAN /\ published' \in BOOLEAN
    BY <2>1, BoundsAssumption DEF UserChanges, CloudOK, KubeOK, cloud
  <2>3. svc' \in [phase : Phases, spec : Specs] /\ nodes' \in NodeSets /\ dirty' \in BOOLEAN
    BY <1>3 DEF UserStep, EditService, ChangeType, DeleteService, ChangeNodes, KubeOK, WorkersOK, Phases
  <2> QED
    BY <2>1, <2>2, <2>3 DEF UserChanges, KubeOK, WorkersOK
<1>4. CASE Crash
  <2>1. WorkersOK'
    BY <1>4, IdleTypes, BoundsAssumption DEF Crash, WorkersOK, KubeOK, Labels
  <2> QED
    BY <1>4, <2>1 DEF Crash, KubeOK, CloudOK, kube, cloud
<1>5. ASSUME NEW w \in Workers, CallFails(w) PROVE TypeOK'
  <2>1. WorkersOK'
    BY <1>5, RestTypes, BoundsAssumption DEF CallFails, WorkersOK
  <2> QED
    BY <1>5, <2>1 DEF CallFails, KubeOK, CloudOK, kube, cloud
<1> QED
  BY <1>1, <1>2, <1>3, <1>4, <1>5, <1>6

(* The initial state is well typed.                                        *)
LEMMA InitTypes == Init => TypeOK
<1> SUFFICES ASSUME Init PROVE TypeOK
  OBVIOUS
<1>1. KubeOK
  <2>1. svc \in [phase : Phases, spec : Specs]
    BY DEF Init, Phases
  <2>2. changes \in 0..MaxChanges
    BY BoundsAssumption DEF Init
  <2> QED
    BY <2>1, <2>2 DEF Init, KubeOK
<1>2. CloudOK
  BY DEF Init, CloudOK, Objects, Nothing
<1>3. WorkersOK
  BY IdleTypes, BoundsAssumption DEF Init, WorkersOK, Labels
<1> QED
  BY <1>1, <1>2, <1>3 DEF TypeOK

(* Every step keeps the state well typed.                                  *)
LEMMA NextTypes == TypeOK /\ [Next]_vars => TypeOK'
<1> SUFFICES ASSUME TypeOK, [Next]_vars PROVE TypeOK'
  OBVIOUS
<1>1. CASE Next
  BY <1>1, StartTypes, ReadTypes, TargetGroupTypes, ListenerTypes, LoadBalancerTypes,
     EnvironmentTypes DEF Next, WorkerStep
<1>2. CASE UNCHANGED vars
  BY <1>2 DEF vars, TypeOK, KubeOK, CloudOK, WorkersOK
<1> QED
  BY <1>1, <1>2

(* The Service, the cloud's objects and what the workers hold keep their   *)
(* types: whatever the interleaving, the provider never stores an identity *)
(* the cloud did not hand out or a job it was not given.                   *)
THEOREM TypeCorrect == Spec => []TypeOK
BY InitTypes, NextTypes, PTL DEF Spec
=============================================================================
