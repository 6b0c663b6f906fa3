--------------------------- MODULE IdentityProofs ---------------------------
(* Whose objects a job touches, for every set of Services and clusters,    *)
(* every configuration, every number of restarts and of objects.           *)
EXTENDS Identity, TLAPS

LabelMaps ==
    UNION {[D -> Values] : D \in {K \in SUBSET LabelKeys : BuiltIn \subseteq K}}
Records == [kind : {"lb", "tg", "sg"}, name : Services, labels : LabelMaps, tg : Maybe, sg : Maybe]
JobRecords == [lb : Maybe, tg : Maybe, sg : Maybe]

(* TypeOK, and that what it says of records and of functions they are.     *)
ObjectsTypeOK ==
    /\ created \in [Services -> 0..MaxObjects]
    /\ DOMAIN objects \subseteq {i \in Identities : i[2] <= created[i[1]]}
    /\ objects \in [DOMAIN objects -> Records]
JobsTypeOK ==
    /\ phase \in [Services -> {"active", "deleting", "gone"}]
    /\ pc \in [Services -> Steps] /\ job \in [Services -> JobRecords]
    /\ settled \in [Services -> BOOLEAN] /\ relabelled \in [Services -> BOOLEAN]
    /\ abandoned \in [Services -> BOOLEAN]
ConfigTypeOK ==
    /\ config \in [Clusters -> Configs]
    /\ restarts \in [Clusters -> Nat] /\ \A c \in Clusters : restarts[c] <= MaxRestarts[c]
Types == ObjectsTypeOK /\ JobsTypeOK /\ ConfigTypeOK

(* A label map is a finite function and carries the UID.                   *)
LEMMA LabelMapsAre ==
    ASSUME NEW f \in LabelMaps
    PROVE  LabelMap(f) /\ "uid" \in DOMAIN f
<1>1. PICK D \in {K \in SUBSET LabelKeys : BuiltIn \subseteq K} : f \in [D -> Values]
  BY DEF LabelMaps
<1>2. Range(f) \subseteq Values
  BY <1>1 DEF Range
<1> QED BY <1>1, <1>2 DEF LabelMap, BuiltIn

(* The parts together are the type invariant.                              *)
LEMMA TypesAreTypeOK == Types => TypeOK
<1> SUFFICES ASSUME Types PROVE TypeOK OBVIOUS
<1>1. \A c \in Clusters : restarts[c] \in 0..MaxRestarts[c]
  BY BoundsAssumption DEF Types, ConfigTypeOK
<1>2. \A i \in DOMAIN objects :
         /\ objects[i].kind \in {"lb", "tg", "sg"}
         /\ objects[i].name \in Services /\ LabelMap(objects[i].labels)
         /\ objects[i].tg \in Maybe /\ objects[i].sg \in Maybe
  <2> SUFFICES ASSUME NEW i \in DOMAIN objects
               PROVE  /\ objects[i].kind \in {"lb", "tg", "sg"}
                      /\ objects[i].name \in Services /\ LabelMap(objects[i].labels)
                      /\ objects[i].tg \in Maybe /\ objects[i].sg \in Maybe
    OBVIOUS
  <2>1. objects[i] \in Records
    BY DEF Types, ObjectsTypeOK
  <2> QED BY <2>1, LabelMapsAre DEF Records
<1> QED BY <1>1, <1>2 DEF TypeOK, Types, ObjectsTypeOK, JobsTypeOK, ConfigTypeOK, JobRecords

-----------------------------------------------------------------------------
(* Labels                                                                  *)

(* Additional labels never take the place of the UID.                      *)
LEMMA GetLabelsOwn ==
    ASSUME NEW c \in Configs, NEW s \in Services
    PROVE  /\ GetLabels(c, s) \in LabelMaps
           /\ "uid" \in DOMAIN GetLabels(c, s) /\ GetLabels(c, s)["uid"] = s
<1> DEFINE f == GetLabels(c, s)
           D == BuiltIn \cup DOMAIN c.extra
<1>1. D \in {K \in SUBSET LabelKeys : BuiltIn \subseteq K}
  BY DEF LabelKeys
<1>2. f = [k \in D |-> CASE k = "cluster" -> c.cluster [] k = "service" -> Key[s] [] k = "uid" -> s
                         [] OTHER -> c.extra[k]]
  BY DEF GetLabels
<1>3. c.cluster \in Values /\ Key[s] \in Values /\ s \in Values
  BY ServicesAssumption DEF Values, Range
<1>4. \A k \in DOMAIN c.extra : c.extra[k] \in Values
  BY DEF Values, Range
<1>5. \A k \in D : f[k] \in Values
  BY <1>2, <1>3, <1>4 DEF BuiltIn
<1>6. f \in [D -> Values]
  BY <1>2, <1>5
<1>7. "uid" \in D /\ f["uid"] = s
  BY <1>2 DEF BuiltIn
<1> HIDE DEF f, D
<1>8. f \in LabelMaps
  BY <1>1, <1>6 DEF LabelMaps
<1> QED BY <1>6, <1>7, <1>8 DEF f

(* GetLabelsForVpcLoadbalancer: whatever the additional labels are, the    *)
(* UID label is the Service's own.                                         *)
LEMMA LabelsOwn ==
    ASSUME ConfigTypeOK, NEW s \in Services
    PROVE  /\ Labels(s) \in LabelMaps
           /\ "uid" \in DOMAIN Labels(s) /\ Labels(s)["uid"] = s
BY GetLabelsOwn, ServicesAssumption DEF ConfigTypeOK, Labels

(* The objects created for a Service.                                      *)
Own(s, kind) == {i \in DOMAIN objects : Owner(i) = s /\ objects[i].kind = kind}

(* Name and UID label of an object say for which Service it was created.   *)
Marked(s) ==
    \A i \in DOMAIN objects : Owner(i) = s =>
        objects[i].name = s /\ objects[i].labels["uid"] = s

(* Every object names its owner and carries the UID of its owner.          *)
LEMMA MarkedByOwner ==
    ASSUME Types, \A s \in Services : Marked(s), NEW i \in DOMAIN objects
    PROVE  /\ Owner(i) \in Services /\ objects[i].name = Owner(i)
           /\ "uid" \in DOMAIN objects[i].labels /\ objects[i].labels["uid"] = Owner(i)
<1>1. i \in Identities /\ objects[i] \in Records
  BY DEF Types, ObjectsTypeOK
<1>2. Owner(i) \in Services /\ objects[i].labels \in LabelMaps
  BY <1>1 DEF Identities, Owner, Records
<1> QED BY <1>2, LabelMapsAre DEF Marked

(* A load balancer is found under its Service only, by labels or by name,  *)
(* and none is found only if there is none.                                *)
LEMMA FetchOwn ==
    ASSUME Types, \A t \in Services : Marked(t), NEW s \in Services
    PROVE  Fetch(s) \subseteq Own(s, "lb") /\ (Fetch(s) = {} <=> Own(s, "lb") = {})
<1>1. "uid" \in DOMAIN Labels(s) /\ Labels(s)["uid"] = s
  BY LabelsOwn DEF Types
<1>2. \A i \in Of("lb") : MatchLabels(Labels(s), objects[i].labels) => Owner(i) = s
  BY <1>1, MarkedByOwner DEF MatchLabels, Of
<1>3. \A i \in Of("lb") : objects[i].name = s <=> Owner(i) = s
  BY MarkedByOwner DEF Of
<1> QED BY <1>2, <1>3 DEF Fetch, Own, Of

(* A label filter finds objects of the Service only, and all that carry    *)
(* the labels of the present configuration.                                *)
LEMMA FilterOwn ==
    ASSUME Types, \A t \in Services : Marked(t), NEW s \in Services
    PROVE  /\ ListTargetGroups(s) \subseteq Own(s, "tg")
           /\ FindManagedSecurityGroup(s) \subseteq Own(s, "sg")
           /\ \A i \in Own(s, "tg") : objects[i].labels = Labels(s) => i \in ListTargetGroups(s)
           /\ \A i \in Own(s, "sg") : objects[i].labels = Labels(s) => i \in FindManagedSecurityGroup(s)
<1>1. "uid" \in DOMAIN Labels(s) /\ Labels(s)["uid"] = s
  BY LabelsOwn DEF Types
<1>2. \A i \in DOMAIN objects : LabelFilter(Labels(s), objects[i].labels) => Owner(i) = s
  BY <1>1, MarkedByOwner DEF LabelFilter
<1>3. LabelFilter(Labels(s), Labels(s)) /\ MatchLabels(Labels(s), Labels(s))
  BY DEF LabelFilter, MatchLabels
<1> QED BY <1>2, <1>3 DEF ListTargetGroups, FindManagedSecurityGroup, Own, Of

-----------------------------------------------------------------------------
(* The inductive invariant, Service by Service.  Each part speaks of the   *)
(* Service's own objects and own job only, so that a step of another one's *)
(* job, which leaves them alone, keeps it.                                 *)

Fresh(s, kind) == {i \in Own(s, kind) : objects[i].labels = Labels(s)}

(* The load balancer a job holds, or the absence it saw, is still so.      *)
HoldsLoadbalancer(s) ==
    /\ \A i, k \in Own(s, "lb") : i = k
    /\ pc[s] \in {"group", "create"} => Own(s, "lb") = {}
    /\ pc[s] \in {"targets", "listener", "update", "unused", "remove"} => job[s].lb \in Own(s, "lb")

(* What load balancers and jobs refer to are the Service's own objects,    *)
(* under the labels of the present configuration once they were updated.   *)
HoldsOwn(s) ==
    /\ \A l \in Own(s, "lb") :
         objects[l].tg \in Own(s, "tg") \cup {None} /\ objects[l].sg \in Own(s, "sg") \cup {None}
    /\ pc[s] = "create" => job[s].sg \in Own(s, "sg")
    /\ pc[s] = "listener" => job[s].tg \in Fresh(s, "tg")
    /\ pc[s] = "update" => objects[job[s].lb].tg \in Fresh(s, "tg")

SettledInv(s) ==
    settled[s] =>
        /\ phase[s] = "active" /\ pc[s] = "idle"
        /\ \E l \in Own(s, "lb") : objects[l].tg \in Fresh(s, "tg") /\ objects[l].sg \in Fresh(s, "sg")

(* A target group has a load balancer, or a deletion that will clean up,   *)
(* unless a restart has cut that deletion short.                           *)
DeletionInv(s) ==
    /\ phase[s] = "gone" => pc[s] = "idle"
    /\ pc[s] \in {"unused", "remove", "purge"} => phase[s] = "deleting"
    /\ ~relabelled[s] => \A i \in Own(s, "tg") : objects[i].labels = Labels(s)
    /\ phase[s] # "gone" /\ Own(s, "tg") # {} => Own(s, "lb") # {} \/ pc[s] = "purge" \/ abandoned[s]
    /\ phase[s] = "gone" /\ ~relabelled[s] /\ ~abandoned[s] => Own(s, "tg") = {}

ServiceInv(s) == Marked(s) /\ HoldsLoadbalancer(s) /\ HoldsOwn(s) /\ SettledInv(s) /\ DeletionInv(s)

IdentityInv == Types /\ \A s \in Services : ServiceInv(s)

(* A step of one Service's job, seen from the others.                      *)
SameObjects(s) ==
    \A i \in DOMAIN objects \cup DOMAIN objects' : Owner(i) = s =>
        i \in DOMAIN objects /\ i \in DOMAIN objects' /\ objects'[i] = objects[i]

SameJob(s) ==
    /\ pc'[s] = pc[s] /\ job'[s] = job[s] /\ phase'[s] = phase[s]
    /\ settled'[s] = settled[s] /\ relabelled'[s] = relabelled[s]
    /\ abandoned'[s] = abandoned[s]

OthersKept(s) ==
    config' = config /\ \A t \in Services \ {s} : SameObjects(t) /\ SameJob(t)

(* A Service's labels change with the configuration only.                  *)
LEMMA LabelsKept ==
    ASSUME NEW s, config' = config PROVE Labels(s)' = Labels(s)
BY DEF Labels

(* A Service whose objects are left alone has the same ones.               *)
LEMMA SameOwn ==
    ASSUME NEW s, NEW kind, SameObjects(s), Labels(s)' = Labels(s)
    PROVE  /\ Own(s, kind)' = Own(s, kind) /\ Fresh(s, kind)' = Fresh(s, kind)
           /\ \A i \in Own(s, kind) : objects'[i] = objects[i]
<1>1. Own(s, kind)' = Own(s, kind) /\ \A i \in Own(s, kind) : objects'[i] = objects[i]
  BY DEF SameObjects, Own
<1> QED BY <1>1 DEF Fresh

(* The invariant of a Service that a step does not concern.                *)
LEMMA FrameInv ==
    ASSUME NEW s, ServiceInv(s), SameObjects(s), SameJob(s), Labels(s)' = Labels(s)
    PROVE  ServiceInv(s)'
<1>1. Marked(s)'
  BY DEF ServiceInv, SameObjects, Marked
<1>2. \A k \in {"lb", "tg", "sg"} :
         /\ Own(s, k)' = Own(s, k) /\ Fresh(s, k)' = Fresh(s, k)
         /\ \A i \in Own(s, k) : objects'[i] = objects[i]
  BY SameOwn
<1>3. HoldsLoadbalancer(s)'
  BY <1>2 DEF ServiceInv, SameJob, HoldsLoadbalancer
<1>4. HoldsOwn(s)'
  BY <1>2 DEF ServiceInv, SameJob, HoldsOwn, HoldsLoadbalancer
<1>5. SettledInv(s)'
  BY <1>2 DEF ServiceInv, SameJob, SettledInv
<1>6. DeletionInv(s)'
  BY <1>2 DEF ServiceInv, SameJob, DeletionInv
<1> QED BY <1>1, <1>3, <1>4, <1>5, <1>6 DEF ServiceInv

(* A step for one Service: the others are not concerned.                   *)
LEMMA OneServiceStep ==
    ASSUME IdentityInv, NEW s \in Services, Types', OthersKept(s), ServiceInv(s)'
    PROVE  IdentityInv'
<1>1. ASSUME NEW t \in Services PROVE ServiceInv(t)'
  <2>1. CASE t = s
    BY <2>1
  <2>2. CASE t # s
    BY <2>2, FrameInv, LabelsKept DEF IdentityInv, OthersKept
  <2> QED BY <2>1, <2>2
<1> QED BY <1>1 DEF IdentityInv

-----------------------------------------------------------------------------
(* What steps do to objects                                                *)

NewObject(s) == <<s, created[s] + 1>>

(* A new object has an identity of its own and the Service's marks.        *)
LEMMA CreateEffect ==
    ASSUME Types, NEW s \in Services, NEW kind, kind \in {"lb", "tg", "sg"}, NEW sg, sg \in Maybe,
           Create(s, kind, sg)
    PROVE  /\ ObjectsTypeOK' /\ NewObject(s) \notin DOMAIN objects /\ NewObject(s) \in Identities
           /\ Owner(NewObject(s)) = s /\ NewObject(s) = <<s, created'[s]>>
           /\ DOMAIN objects' = DOMAIN objects \cup {NewObject(s)}
           /\ objects'[NewObject(s)] = [kind |-> kind, name |-> s, labels |-> Labels(s),
                                        tg |-> None, sg |-> sg]
           /\ \A i \in DOMAIN objects : objects'[i] = objects[i]
<1> DEFINE n == NewObject(s)
           r == [kind |-> kind, name |-> s, labels |-> Labels(s), tg |-> None, sg |-> sg]
<1>1. created[s] \in Nat /\ created[s] + 1 \in 1..MaxObjects
  BY BoundsAssumption DEF Types, ObjectsTypeOK, Create
<1>2. /\ created' \in [Services -> 0..MaxObjects] /\ created'[s] = created[s] + 1
      /\ \A t \in Services \ {s} : created'[t] = created[t]
  BY <1>1 DEF Create, Types, ObjectsTypeOK
<1>3. n \in Identities /\ Owner(n) = s /\ n[1] = s /\ n[2] = created[s] + 1 /\ n = <<s, created'[s]>>
  BY <1>1, <1>2 DEF NewObject, Identities, Owner
<1>4. n \notin DOMAIN objects
  BY <1>1, <1>3 DEF Types, ObjectsTypeOK
<1>5. r \in Records
  BY LabelsOwn DEF Types, Records, Maybe
<1>6. objects' = With(objects, n, r)
  BY <1>3 DEF Create
<1> HIDE DEF n, r
<1>7. /\ DOMAIN objects' = DOMAIN objects \cup {n} /\ objects'[n] = r
      /\ \A i \in DOMAIN objects : objects'[i] = objects[i]
      /\ objects' \in [DOMAIN objects' -> Records]
  BY <1>4, <1>5, <1>6 DEF With, Types, ObjectsTypeOK
<1>8. \A i \in DOMAIN objects' : i \in Identities /\ i[2] <= created'[i[1]]
  <2> SUFFICES ASSUME NEW i \in DOMAIN objects' PROVE i \in Identities /\ i[2] <= created'[i[1]]
    OBVIOUS
  <2>1. CASE i = n
    BY <1>1, <1>2, <1>3, <2>1
  <2>2. CASE i \in DOMAIN objects
    <3>1. i \in Identities /\ i[2] <= created[i[1]]
      BY <2>2 DEF Types, ObjectsTypeOK
    <3>2. i[1] \in Services /\ i[2] \in Nat /\ created[i[1]] \in Nat
      BY <3>1 DEF Identities, Types, ObjectsTypeOK
    <3>3. created'[i[1]] = created[i[1]] \/ created'[i[1]] = created[i[1]] + 1
      BY <1>2, <3>2
    <3> QED BY <3>1, <3>2, <3>3
  <2> QED BY <1>7, <2>1, <2>2
<1>9. ObjectsTypeOK'
  BY <1>2, <1>7, <1>8 DEF ObjectsTypeOK
<1> QED BY <1>3, <1>4, <1>7, <1>9 DEF n, r

(* The Service's objects after a creation.                                 *)
LEMMA CreateOwn ==
    ASSUME Types, NEW s \in Services, NEW kind, kind \in {"lb", "tg", "sg"}, NEW sg, sg \in Maybe,
           Create(s, kind, sg), Marked(s), config' = config
    PROVE  /\ \A t \in Services \ {s} : SameObjects(t)
           /\ Marked(s)'
           /\ Own(s, kind)' = Own(s, kind) \cup {NewObject(s)}
           /\ Fresh(s, kind)' = Fresh(s, kind) \cup {NewObject(s)}
           /\ \A k \in {"lb", "tg", "sg"} \ {kind} :
                 Own(s, k)' = Own(s, k) /\ Fresh(s, k)' = Fresh(s, k)
           /\ \A i \in DOMAIN objects : objects'[i] = objects[i]
<1> DEFINE n == NewObject(s)
<1>0. /\ NewObject(s) \notin DOMAIN objects /\ Owner(NewObject(s)) = s
      /\ DOMAIN objects' = DOMAIN objects \cup {NewObject(s)}
      /\ objects'[NewObject(s)] = [kind |-> kind, name |-> s, labels |-> Labels(s),
                                   tg |-> None, sg |-> sg]
      /\ \A i \in DOMAIN objects : objects'[i] = objects[i]
  BY CreateEffect
<1>1. /\ n \notin DOMAIN objects /\ Owner(n) = s
      /\ DOMAIN objects' = DOMAIN objects \cup {n}
      /\ objects'[n].kind = kind /\ objects'[n].name = s /\ objects'[n].labels = Labels(s)
      /\ \A i \in DOMAIN objects : objects'[i] = objects[i]
  BY <1>0
<1>2. Labels(s)' = Labels(s) /\ Labels(s)["uid"] = s
  BY LabelsKept, LabelsOwn DEF Types
<1> HIDE DEF n
<1>3. \A t \in Services \ {s} : SameObjects(t)
  BY <1>1 DEF SameObjects
<1>4. Marked(s)'
  BY <1>1, <1>2 DEF Marked
<1>5. Own(s, kind)' = Own(s, kind) \cup {n}
  BY <1>1 DEF Own
<1>6. \A k \in {"lb", "tg", "sg"} \ {kind} : Own(s, k)' = Own(s, k)
  BY <1>1 DEF Own
<1>7. \A k \in {"lb", "tg", "sg"} : Own(s, k) \subseteq DOMAIN objects
  BY DEF Own
<1>8. Fresh(s, kind)' = Fresh(s, kind) \cup {n}
  BY <1>1, <1>2, <1>5, <1>7 DEF Fresh
<1>9. \A k \in {"lb", "tg", "sg"} \ {kind} : Fresh(s, k)' = Fresh(s, k)
  BY <1>1, <1>2, <1>6, <1>7 DEF Fresh
<1> QED BY <1>1, <1>3, <1>4, <1>5, <1>6, <1>8, <1>9 DEF n

Kinds == {"lb", "tg", "sg"}

(* An update of the Service's objects: kind and name stay, labels stay or  *)
(* become those of the present configuration.                              *)
UpdatesOwn(s) ==
    /\ created' = created /\ objects' \in [DOMAIN objects -> Records]
    /\ \A i \in DOMAIN objects :
         /\ Owner(i) # s => objects'[i] = objects[i]
         /\ objects'[i].kind = objects[i].kind /\ objects'[i].name = objects[i].name
         /\ objects'[i].labels \in {objects[i].labels, Labels(s)}

(* Objects updated to the present labels of their owner.                   *)
LEMMA UpdateEffect ==
    ASSUME Types, NEW s \in Services, Marked(s), config' = config, UpdatesOwn(s)
    PROVE  /\ ObjectsTypeOK' /\ Marked(s)'
           /\ \A t \in Services \ {s} : SameObjects(t)
           /\ \A k \in Kinds :
                /\ Own(s, k)' = Own(s, k) /\ Fresh(s, k) \subseteq Fresh(s, k)'
                /\ \A i \in Own(s, k) : objects'[i].labels = Labels(s) => i \in Fresh(s, k)'
<1>1. DOMAIN objects' = DOMAIN objects
  BY DEF UpdatesOwn
<1>2. ObjectsTypeOK'
  BY <1>1 DEF UpdatesOwn, Types, ObjectsTypeOK
<1>3. Labels(s)' = Labels(s) /\ Labels(s)["uid"] = s
  BY LabelsKept, LabelsOwn DEF Types
<1>4. Marked(s)'
  BY <1>1, <1>3 DEF Marked, UpdatesOwn
<1>5. \A t \in Services \ {s} : SameObjects(t)
  BY <1>1 DEF SameObjects, UpdatesOwn
<1>6. \A k \in Kinds : Own(s, k)' = Own(s, k) /\ Own(s, k) \subseteq DOMAIN objects
  BY <1>1 DEF Own, UpdatesOwn
<1>7. \A k \in Kinds : \A i \in Own(s, k) : objects'[i].labels = Labels(s) => i \in Fresh(s, k)'
  BY <1>3, <1>6 DEF Fresh
<1>8. \A k \in Kinds : Fresh(s, k) \subseteq Fresh(s, k)'
  <2> SUFFICES ASSUME NEW k \in Kinds, NEW i \in Fresh(s, k) PROVE i \in Fresh(s, k)'
    OBVIOUS
  <2>1. i \in Own(s, k) /\ i \in DOMAIN objects /\ objects[i].labels = Labels(s)
    BY DEF Fresh, Own
  <2>2. objects'[i].labels = Labels(s)
    BY <2>1 DEF UpdatesOwn
  <2> QED BY <1>7, <2>1, <2>2
<1> QED BY <1>2, <1>4, <1>5, <1>6, <1>7, <1>8

(* A deletion of the Service's objects.                                    *)
LEMMA DeleteEffect ==
    ASSUME Types, NEW s \in Services, NEW S, \A i \in S \cap DOMAIN objects : Owner(i) = s,
           Delete(S), Marked(s), created' = created, config' = config
    PROVE  /\ ObjectsTypeOK' /\ Marked(s)'
           /\ \A t \in Services \ {s} : SameObjects(t)
           /\ \A k \in Kinds :
                /\ Own(s, k)' = Own(s, k) \ S /\ Fresh(s, k)' = Fresh(s, k) \ S
                /\ \A i \in Own(s, k)' : objects'[i] = objects[i]
<1>1. /\ DOMAIN objects' = DOMAIN objects \ S /\ objects' \in [DOMAIN objects' -> Records]
      /\ \A i \in DOMAIN objects' : objects'[i] = objects[i]
  BY DEF Delete, Restrict, Types, ObjectsTypeOK
<1>2. ObjectsTypeOK'
  BY <1>1 DEF Types, ObjectsTypeOK
<1>3. Marked(s)' /\ \A t \in Services \ {s} : SameObjects(t)
  BY <1>1 DEF Marked, SameObjects
<1>4. \A k \in Kinds : /\ Own(s, k)' = Own(s, k) \ S
                       /\ \A i \in Own(s, k)' : objects'[i] = objects[i]
  BY <1>1 DEF Own
<1>5. Labels(s)' = Labels(s)
  BY LabelsKept
<1>6. \A k \in Kinds : Fresh(s, k)' = Fresh(s, k) \ S
  BY <1>4, <1>5 DEF Fresh
<1> QED BY <1>2, <1>3, <1>4, <1>6

(* A step that only reads.                                                 *)
LEMMA NoObjectChange ==
    ASSUME Types, NEW s \in Services, Marked(s), UNCHANGED <<objects, created, config>>
    PROVE  /\ ObjectsTypeOK' /\ Marked(s)'
           /\ \A t \in Services \ {s} : SameObjects(t)
           /\ \A k \in Kinds : Own(s, k)' = Own(s, k) /\ Fresh(s, k)' = Fresh(s, k)
<1>1. ObjectsTypeOK' /\ Marked(s)' /\ \A t \in Services : SameObjects(t)
  BY DEF Types, ObjectsTypeOK, Marked, SameObjects
<1>2. Labels(s)' = Labels(s)
  BY LabelsKept
<1> QED BY <1>1, <1>2, SameOwn

(* A job's next step, and what it holds.                                   *)
LEMMA GotoEffect ==
    ASSUME JobsTypeOK, NEW s \in Services, NEW step, step \in Steps, NEW j, j \in JobRecords,
           Goto(s, step, j)
    PROVE  /\ pc' \in [Services -> Steps] /\ job' \in [Services -> JobRecords]
           /\ pc'[s] = step /\ job'[s] = j
           /\ \A t \in Services \ {s} : pc'[t] = pc[t] /\ job'[t] = job[t]
BY DEF Goto, JobsTypeOK

(* A Service without a job.                                                *)
LEMMA NoJobRecord == NoJob \in JobRecords
BY DEF NoJob, JobRecords, Maybe

(* The parts of a step that leaves phase and the three flags alone.        *)
LEMMA JobStepKeeps ==
    ASSUME Types, NEW s \in Services, UNCHANGED Service,
           ObjectsTypeOK', pc' \in [Services -> Steps], job' \in [Services -> JobRecords],
           \A t \in Services \ {s} : pc'[t] = pc[t] /\ job'[t] = job[t],
           \A t \in Services \ {s} : SameObjects(t)
    PROVE  Types' /\ OthersKept(s)
<1>1. UNCHANGED <<config, phase, settled, relabelled, abandoned, restarts>>
  BY DEF Service
<1>2. JobsTypeOK' /\ ConfigTypeOK'
  BY <1>1 DEF Types, JobsTypeOK, ConfigTypeOK
<1> QED BY <1>1, <1>2 DEF Types, OthersKept, SameJob

-----------------------------------------------------------------------------
(* EnsureLoadBalancer, step by step                                        *)

StepKeeps(s) == Types' /\ OthersKept(s) /\ ServiceInv(s)'

(* What each step starts from.                                             *)
LEMMA Given ==
    ASSUME IdentityInv, NEW s \in Services
    PROVE  /\ Types /\ JobsTypeOK /\ (\A t \in Services : Marked(t)) /\ Marked(s)
           /\ HoldsLoadbalancer(s) /\ HoldsOwn(s) /\ SettledInv(s) /\ DeletionInv(s)
           /\ job[s] \in JobRecords
           /\ pc[s] # "idle" => ~settled[s] /\ phase[s] # "gone"
<1>1. Types /\ JobsTypeOK /\ (\A t \in Services : Marked(t)) /\ Marked(s)
      /\ HoldsLoadbalancer(s) /\ HoldsOwn(s) /\ SettledInv(s) /\ DeletionInv(s)
  BY DEF IdentityInv, Types, ServiceInv
<1>2. job[s] \in JobRecords
  BY <1>1 DEF JobsTypeOK
<1> QED BY <1>1, <1>2 DEF SettledInv, DeletionInv

(* The first fetch of EnsureLoadBalancer.                                  *)
LEMMA EnsureFetchesKeeps ==
    ASSUME IdentityInv, NEW s \in Services, EnsureFetches(s)
    PROVE  StepKeeps(s)
<1>1. /\ Types /\ JobsTypeOK /\ (\A t \in Services : Marked(t)) /\ Marked(s)
      /\ HoldsLoadbalancer(s) /\ HoldsOwn(s) /\ DeletionInv(s)
  BY Given
<1>2. /\ UNCHANGED <<objects, created, config, phase, settled, relabelled, abandoned>> /\ UNCHANGED Service
      /\ pc[s] = "idle" /\ phase[s] = "active" /\ ~settled[s]
  BY DEF EnsureFetches, Service
<1>3. /\ ObjectsTypeOK' /\ Marked(s)' /\ \A t \in Services \ {s} : SameObjects(t)
      /\ \A k \in Kinds : Own(s, k)' = Own(s, k) /\ Fresh(s, k)' = Fresh(s, k)
  BY <1>1, <1>2, NoObjectChange
<1>4. Labels(s)' = Labels(s)
  BY <1>2, LabelsKept
<1>5. PICK step, j : /\ Goto(s, step, j)
                     /\ \/ step = "group" /\ j = NoJob /\ Fetch(s) = {}
                        \/ step = "targets" /\ \E i \in Fetch(s) : j = [NoJob EXCEPT !.lb = i]
  BY DEF EnsureFetches
<1>6. j \in JobRecords /\ (step = "targets" => j.lb \in Own(s, "lb"))
  <2>1. \A i \in Fetch(s) : i \in Own(s, "lb") /\ i \in Maybe
    BY <1>1, FetchOwn DEF Own, Maybe, Types, ObjectsTypeOK
  <2> QED BY <1>5, <2>1 DEF NoJob, JobRecords, Maybe
<1>7. step = "group" => Own(s, "lb") = {}
  BY <1>1, <1>5, FetchOwn
<1>8. step \in Steps
  BY <1>5 DEF Steps
<1>9. /\ pc' \in [Services -> Steps] /\ job' \in [Services -> JobRecords]
      /\ pc'[s] = step /\ job'[s] = j
      /\ \A t \in Services \ {s} : pc'[t] = pc[t] /\ job'[t] = job[t]
  BY <1>1, <1>5, <1>6, <1>8, GotoEffect
<1>10. Types' /\ OthersKept(s)
  BY <1>1, <1>2, <1>3, <1>9, JobStepKeeps
<1>11. HoldsLoadbalancer(s)'
  BY <1>1, <1>3, <1>5, <1>6, <1>7, <1>9 DEF HoldsLoadbalancer, Kinds
<1>12. HoldsOwn(s)'
  BY <1>1, <1>2, <1>3, <1>5, <1>9 DEF HoldsOwn, Kinds
<1>13. SettledInv(s)'
  BY <1>2 DEF SettledInv
<1>14. DeletionInv(s)'
  BY <1>1, <1>2, <1>3, <1>4, <1>5, <1>9 DEF DeletionInv, Kinds
<1> QED BY <1>3, <1>10, <1>11, <1>12, <1>13, <1>14 DEF StepKeeps, ServiceInv

(* The managed group is found, under its labels, or created.               *)
LEMMA EnsureManagedSecurityGroupKeeps ==
    ASSUME IdentityInv, NEW s \in Services, EnsureManagedSecurityGroup(s)
    PROVE  StepKeeps(s)
<1>1. /\ Types /\ JobsTypeOK /\ (\A t \in Services : Marked(t)) /\ Marked(s)
      /\ HoldsLoadbalancer(s) /\ HoldsOwn(s) /\ DeletionInv(s) /\ job[s] \in JobRecords
  BY Given
<1>2. /\ UNCHANGED <<config, phase, settled, relabelled, abandoned>> /\ UNCHANGED Service
      /\ pc[s] = "group" /\ ~settled[s] /\ phase[s] # "gone"
  BY Given DEF EnsureManagedSecurityGroup, Service
<1>4. Labels(s)' = Labels(s)
  BY <1>2, LabelsKept
<1>5. PICK g :
        /\ Goto(s, "create", [job[s] EXCEPT !.sg = g]) /\ g \in Maybe
        /\ ObjectsTypeOK' /\ Marked(s)' /\ \A t \in Services \ {s} : SameObjects(t)
        /\ Own(s, "lb")' = Own(s, "lb") /\ Own(s, "tg")' = Own(s, "tg") /\ g \in Own(s, "sg")'
        /\ \A i \in Own(s, "tg") : objects'[i].labels \in {objects[i].labels, Labels(s)}
  <2>1. ASSUME NEW g \in FindManagedSecurityGroup(s),
               objects' = [objects EXCEPT ![g].labels = Labels(s)],
               Goto(s, "create", [job[s] EXCEPT !.sg = g]), UNCHANGED created
        PROVE  /\ g \in Maybe /\ ObjectsTypeOK' /\ Marked(s)' /\ \A t \in Services \ {s} : SameObjects(t)
               /\ Own(s, "lb")' = Own(s, "lb") /\ Own(s, "tg")' = Own(s, "tg") /\ g \in Own(s, "sg")'
               /\ \A i \in Own(s, "tg") : objects'[i].labels \in {objects[i].labels, Labels(s)}
    <3>1. g \in Own(s, "sg") /\ g \in DOMAIN objects /\ Owner(g) = s
      BY <1>1, FilterOwn DEF Own
    <3>2. objects \in [DOMAIN objects -> Records] /\ Labels(s) \in LabelMaps /\ g \in Maybe
      BY <1>1, <3>1, LabelsOwn DEF Types, ObjectsTypeOK, Maybe
    <3>3. UpdatesOwn(s)
      BY <2>1, <3>1, <3>2 DEF UpdatesOwn, Records
    <3>4. \A i \in Own(s, "tg") : objects'[i].labels \in {objects[i].labels, Labels(s)}
      BY <3>3 DEF UpdatesOwn, Own
    <3> QED BY <1>1, <1>2, <3>1, <3>2, <3>3, <3>4, UpdateEffect DEF Kinds
  <2>2. ASSUME Create(s, "sg", None)
        PROVE  LET g == <<s, created'[s]>> IN
               /\ g \in Maybe /\ ObjectsTypeOK' /\ Marked(s)' /\ \A t \in Services \ {s} : SameObjects(t)
               /\ Own(s, "lb")' = Own(s, "lb") /\ Own(s, "tg")' = Own(s, "tg") /\ g \in Own(s, "sg")'
               /\ \A i \in Own(s, "tg") : objects'[i].labels \in {objects[i].labels, Labels(s)}
    <3>1. None \in Maybe
      BY DEF Maybe
    <3>2. ObjectsTypeOK' /\ NewObject(s) \in Identities /\ NewObject(s) = <<s, created'[s]>>
      BY <1>1, <2>2, <3>1, CreateEffect
    <3>3. /\ Marked(s)' /\ \A t \in Services \ {s} : SameObjects(t)
          /\ Own(s, "sg")' = Own(s, "sg") \cup {NewObject(s)}
          /\ \A k \in {"lb", "tg", "sg"} \ {"sg"} : Own(s, k)' = Own(s, k)
          /\ \A i \in DOMAIN objects : objects'[i] = objects[i]
      BY <1>1, <1>2, <2>2, <3>1, CreateOwn
    <3>4. \A i \in Own(s, "tg") : objects'[i].labels \in {objects[i].labels, Labels(s)}
      BY <3>3 DEF Own
    <3> QED BY <3>2, <3>3, <3>4 DEF Maybe
  <2> QED BY <2>1, <2>2 DEF EnsureManagedSecurityGroup
<1>6. PICK j \in JobRecords : Goto(s, "create", j) /\ j.sg = g
  BY <1>1, <1>5 DEF JobRecords
<1>7. "create" \in Steps
  BY DEF Steps
<1>9. /\ pc' \in [Services -> Steps] /\ job' \in [Services -> JobRecords]
      /\ pc'[s] = "create" /\ job'[s].sg = g
      /\ \A t \in Services \ {s} : pc'[t] = pc[t] /\ job'[t] = job[t]
  BY <1>1, <1>6, <1>7, GotoEffect
<1>10. Types' /\ OthersKept(s)
  BY <1>1, <1>2, <1>5, <1>9, JobStepKeeps
<1>11. HoldsLoadbalancer(s)'
  BY <1>1, <1>2, <1>5, <1>9 DEF HoldsLoadbalancer
<1>12. HoldsOwn(s)'
  BY <1>1, <1>2, <1>5, <1>9 DEF HoldsOwn, HoldsLoadbalancer
<1>13. SettledInv(s)'
  BY <1>2 DEF SettledInv
<1>14. DeletionInv(s)'
  BY <1>1, <1>2, <1>4, <1>5, <1>9 DEF DeletionInv
<1> QED BY <1>5, <1>10, <1>11, <1>12, <1>13, <1>14 DEF StepKeeps, ServiceInv

(* A load balancer is created only when the fetch found none.              *)
LEMMA CreateLoadbalancerKeeps ==
    ASSUME IdentityInv, NEW s \in Services, CreateLoadbalancer(s)
    PROVE  StepKeeps(s)
<1>1. /\ Types /\ JobsTypeOK /\ Marked(s) /\ HoldsLoadbalancer(s) /\ HoldsOwn(s) /\ DeletionInv(s)
      /\ job[s] \in JobRecords /\ job[s].sg \in Maybe
  BY Given DEF JobRecords
<1>2. /\ UNCHANGED <<config, phase, settled, relabelled, abandoned>> /\ UNCHANGED Service
      /\ pc[s] = "create" /\ ~settled[s] /\ phase[s] # "gone"
  BY Given DEF CreateLoadbalancer, Service
<1>3. Labels(s)' = Labels(s)
  BY <1>2, LabelsKept
<1> DEFINE n == NewObject(s)
<1>4. Create(s, "lb", job[s].sg)
  BY DEF CreateLoadbalancer
<1>5. /\ ObjectsTypeOK' /\ n \in Identities /\ n = <<s, created'[s]>> /\ n \notin DOMAIN objects
      /\ objects'[n] = [kind |-> "lb", name |-> s, labels |-> Labels(s), tg |-> None, sg |-> job[s].sg]
  BY <1>1, <1>4, CreateEffect
<1>6. /\ Marked(s)' /\ \A t \in Services \ {s} : SameObjects(t)
      /\ Own(s, "lb")' = Own(s, "lb") \cup {n}
      /\ \A k \in {"lb", "tg", "sg"} \ {"lb"} : Own(s, k)' = Own(s, k)
      /\ \A i \in DOMAIN objects : objects'[i] = objects[i]
  BY <1>1, <1>2, <1>4, CreateOwn
<1>7. PICK j \in JobRecords : Goto(s, "targets", j) /\ j.lb = n
  BY <1>1, <1>5 DEF CreateLoadbalancer, JobRecords, Maybe
<1>8. "targets" \in Steps
  BY DEF Steps
<1> HIDE DEF n
<1>9. /\ pc' \in [Services -> Steps] /\ job' \in [Services -> JobRecords]
      /\ pc'[s] = "targets" /\ job'[s].lb = n
      /\ \A t \in Services \ {s} : pc'[t] = pc[t] /\ job'[t] = job[t]
  BY <1>1, <1>7, <1>8, GotoEffect
<1>10. Types' /\ OthersKept(s)
  BY <1>1, <1>2, <1>5, <1>6, <1>9, JobStepKeeps
<1>11. Own(s, "lb")' = {n} /\ Own(s, "tg")' = Own(s, "tg") /\ Own(s, "sg")' = Own(s, "sg")
  BY <1>1, <1>2, <1>6 DEF HoldsLoadbalancer
<1>12. HoldsLoadbalancer(s)'
  BY <1>9, <1>11 DEF HoldsLoadbalancer
<1>13. HoldsOwn(s)'
  BY <1>1, <1>2, <1>5, <1>9, <1>11 DEF HoldsOwn
<1>14. SettledInv(s)'
  BY <1>2 DEF SettledInv
<1>15. \A i \in Own(s, "tg") : objects'[i] = objects[i]
  BY <1>6 DEF Own
<1>16. DeletionInv(s)'
  BY <1>1, <1>2, <1>3, <1>9, <1>11, <1>15 DEF DeletionInv
<1> QED BY <1>6, <1>10, <1>12, <1>13, <1>14, <1>16 DEF StepKeeps, ServiceInv

(* The target groups found by label are updated, or one is created.        *)
LEMMA CreateOrUpdateTargetGroupsKeeps ==
    ASSUME IdentityInv, NEW s \in Services, CreateOrUpdateTargetGroups(s)
    PROVE  StepKeeps(s)
<1>1. /\ Types /\ JobsTypeOK /\ (\A t \in Services : Marked(t)) /\ Marked(s)
      /\ HoldsLoadbalancer(s) /\ HoldsOwn(s) /\ DeletionInv(s) /\ job[s] \in JobRecords
  BY Given
<1>2. /\ UNCHANGED <<config, phase, settled, relabelled, abandoned>> /\ UNCHANGED Service
      /\ pc[s] = "targets" /\ ~settled[s] /\ phase[s] # "gone"
  BY Given DEF CreateOrUpdateTargetGroups, Service
<1>3. Labels(s)' = Labels(s)
  BY <1>2, LabelsKept
<1>4. PICK g :
        /\ Goto(s, "listener", [job[s] EXCEPT !.tg = g]) /\ g \in Maybe
        /\ ObjectsTypeOK' /\ Marked(s)' /\ \A t \in Services \ {s} : SameObjects(t)
        /\ Own(s, "lb")' = Own(s, "lb") /\ Own(s, "sg")' = Own(s, "sg")
        /\ Own(s, "tg") \subseteq Own(s, "tg")' /\ g \in Fresh(s, "tg")'
        /\ \A i \in Own(s, "lb") : objects'[i] = objects[i]
        /\ \A i \in Own(s, "tg") : objects'[i].labels \in {objects[i].labels, Labels(s)}
        /\ \A i \in Own(s, "tg")' \ Own(s, "tg") : objects'[i].labels = Labels(s)
  <2>1. ASSUME NEW g \in ListTargetGroups(s),
               objects' = [i \in DOMAIN objects |-> IF i \in ListTargetGroups(s)
                              THEN [objects[i] EXCEPT !.labels = Labels(s)] ELSE objects[i]],
               Goto(s, "listener", [job[s] EXCEPT !.tg = g]), UNCHANGED created
        PROVE  /\ g \in Maybe /\ ObjectsTypeOK' /\ Marked(s)' /\ \A t \in Services \ {s} : SameObjects(t)
               /\ Own(s, "lb")' = Own(s, "lb") /\ Own(s, "sg")' = Own(s, "sg")
               /\ Own(s, "tg") \subseteq Own(s, "tg")' /\ g \in Fresh(s, "tg")'
               /\ \A i \in Own(s, "lb") : objects'[i] = objects[i]
               /\ \A i \in Own(s, "tg") : objects'[i].labels \in {objects[i].labels, Labels(s)}
               /\ \A i \in Own(s, "tg")' \ Own(s, "tg") : objects'[i].labels = Labels(s)
    <3>1. ListTargetGroups(s) \subseteq Own(s, "tg") /\ g \in Own(s, "tg")
      BY <1>1, FilterOwn
    <3>2. objects \in [DOMAIN objects -> Records] /\ Labels(s) \in LabelMaps /\ g \in Maybe
      BY <1>1, <3>1, LabelsOwn DEF Types, ObjectsTypeOK, Maybe, Own
    <3>3. \A i \in DOMAIN objects :
             /\ [objects[i] EXCEPT !.labels = Labels(s)] \in Records
             /\ [objects[i] EXCEPT !.labels = Labels(s)].kind = objects[i].kind
             /\ [objects[i] EXCEPT !.labels = Labels(s)].name = objects[i].name
             /\ [objects[i] EXCEPT !.labels = Labels(s)].labels = Labels(s)
      BY <3>2 DEF Records
    <3>4. UpdatesOwn(s)
      BY <2>1, <3>1, <3>2, <3>3 DEF UpdatesOwn, Own
    <3>5. /\ ObjectsTypeOK' /\ Marked(s)' /\ \A t \in Services \ {s} : SameObjects(t)
          /\ \A k \in Kinds : Own(s, k)' = Own(s, k)
          /\ \A i \in Own(s, "tg") : objects'[i].labels = Labels(s) => i \in Fresh(s, "tg")'
      BY <1>1, <1>2, <3>4, UpdateEffect DEF Kinds
    <3>6. g \in DOMAIN objects /\ objects'[g].labels = Labels(s)
      BY <2>1, <3>1, <3>3 DEF Own
    <3>7. \A i \in Own(s, "tg") : objects'[i].labels \in {objects[i].labels, Labels(s)}
      BY <3>4 DEF UpdatesOwn, Own
    <3>8. \A i \in Own(s, "lb") : objects'[i] = objects[i]
      BY <2>1, <3>1 DEF Own
    <3> QED BY <3>1, <3>2, <3>5, <3>6, <3>7, <3>8 DEF Kinds
  <2>2. ASSUME Create(s, "tg", None)
        PROVE  LET g == <<s, created'[s]>> IN
               /\ g \in Maybe /\ ObjectsTypeOK' /\ Marked(s)' /\ \A t \in Services \ {s} : SameObjects(t)
               /\ Own(s, "lb")' = Own(s, "lb") /\ Own(s, "sg")' = Own(s, "sg")
               /\ Own(s, "tg") \subseteq Own(s, "tg")' /\ g \in Fresh(s, "tg")'
               /\ \A i \in Own(s, "lb") : objects'[i] = objects[i]
               /\ \A i \in Own(s, "tg") : objects'[i].labels \in {objects[i].labels, Labels(s)}
               /\ \A i \in Own(s, "tg")' \ Own(s, "tg") : objects'[i].labels = Labels(s)
    <3>1. None \in Maybe
      BY DEF Maybe
    <3>2. /\ ObjectsTypeOK' /\ NewObject(s) \in Identities /\ NewObject(s) = <<s, created'[s]>>
          /\ objects'[NewObject(s)] = [kind |-> "tg", name |-> s, labels |-> Labels(s),
                                       tg |-> None, sg |-> None]
      BY <1>1, <2>2, <3>1, CreateEffect
    <3>3. /\ Marked(s)' /\ \A t \in Services \ {s} : SameObjects(t)
          /\ Own(s, "tg")' = Own(s, "tg") \cup {NewObject(s)}
          /\ Fresh(s, "tg")' = Fresh(s, "tg") \cup {NewObject(s)}
          /\ \A k \in {"lb", "tg", "sg"} \ {"tg"} : Own(s, k)' = Own(s, k)
          /\ \A i \in DOMAIN objects : objects'[i] = objects[i]
      BY <1>1, <1>2, <2>2, <3>1, CreateOwn
    <3>4. /\ \A i \in Own(s, "tg") : objects'[i].labels \in {objects[i].labels, Labels(s)}
          /\ \A i \in Own(s, "lb") : objects'[i] = objects[i]
      BY <3>3 DEF Own
    <3> QED BY <3>2, <3>3, <3>4 DEF Maybe
  <2> QED BY <2>1, <2>2 DEF CreateOrUpdateTargetGroups
<1>5. PICK j \in JobRecords : Goto(s, "listener", j) /\ j.tg = g /\ j.lb = job[s].lb
  BY <1>1, <1>4 DEF JobRecords
<1>6. "listener" \in Steps
  BY DEF Steps
<1>9. /\ pc' \in [Services -> Steps] /\ job' \in [Services -> JobRecords]
      /\ pc'[s] = "listener" /\ job'[s].tg = g /\ job'[s].lb = job[s].lb
      /\ \A t \in Services \ {s} : pc'[t] = pc[t] /\ job'[t] = job[t]
  BY <1>1, <1>5, <1>6, GotoEffect
<1>10. Types' /\ OthersKept(s)
  BY <1>1, <1>2, <1>4, <1>9, JobStepKeeps
<1>11. HoldsLoadbalancer(s)'
  BY <1>1, <1>2, <1>4, <1>9 DEF HoldsLoadbalancer
<1>12. HoldsOwn(s)'
  BY <1>1, <1>2, <1>4, <1>9 DEF HoldsOwn
<1>13. SettledInv(s)'
  BY <1>2 DEF SettledInv
<1>14. DeletionInv(s)'
  BY <1>1, <1>2, <1>3, <1>4, <1>9 DEF DeletionInv, HoldsLoadbalancer
<1> QED BY <1>4, <1>10, <1>11, <1>12, <1>13, <1>14 DEF StepKeeps, ServiceInv

(* The listener is pointed at the target group just returned.              *)
LEMMA UpdateListenerKeeps ==
    ASSUME IdentityInv, NEW s \in Services, UpdateListener(s)
    PROVE  StepKeeps(s)
<1>1. /\ Types /\ JobsTypeOK /\ Marked(s) /\ HoldsLoadbalancer(s) /\ HoldsOwn(s) /\ DeletionInv(s)
      /\ job[s] \in JobRecords
  BY Given
<1>2. /\ UNCHANGED <<config, phase, settled, relabelled, abandoned>> /\ UNCHANGED Service
      /\ pc[s] = "listener" /\ ~settled[s] /\ phase[s] # "gone"
  BY Given DEF UpdateListener, Service
<1>3. Labels(s)' = Labels(s)
  BY <1>2, LabelsKept
<1> DEFINE l == job[s].lb
           g == job[s].tg
<1>4. /\ objects' = [objects EXCEPT ![l].tg = g] /\ created' = created
      /\ Goto(s, "update", job[s]) /\ "update" \in Steps
  BY DEF UpdateListener, Steps
<1>5. l \in Own(s, "lb") /\ g \in Fresh(s, "tg") /\ g \in Own(s, "tg")
  BY <1>1, <1>2 DEF HoldsLoadbalancer, HoldsOwn, Fresh
<1>6. l \in DOMAIN objects /\ Owner(l) = s /\ g \in Maybe /\ objects \in [DOMAIN objects -> Records]
  BY <1>1, <1>5 DEF Own, Types, ObjectsTypeOK, Maybe
<1>7. /\ pc' \in [Services -> Steps] /\ job' \in [Services -> JobRecords]
      /\ pc'[s] = "update" /\ job'[s] = job[s]
      /\ \A t \in Services \ {s} : pc'[t] = pc[t] /\ job'[t] = job[t]
  BY <1>1, <1>4, GotoEffect
<1> HIDE DEF l, g
<1>8. UpdatesOwn(s) /\ objects'[l].tg = g /\ objects'[l].sg = objects[l].sg
      /\ \A i \in DOMAIN objects : i # l => objects'[i] = objects[i]
  BY <1>4, <1>6 DEF UpdatesOwn, Records
<1>9. /\ ObjectsTypeOK' /\ Marked(s)' /\ \A t \in Services \ {s} : SameObjects(t)
      /\ \A k \in Kinds : Own(s, k)' = Own(s, k) /\ Fresh(s, k) \subseteq Fresh(s, k)'
  BY <1>1, <1>2, <1>8, UpdateEffect
<1>10. Types' /\ OthersKept(s)
  BY <1>1, <1>2, <1>7, <1>9, JobStepKeeps
<1>11. HoldsLoadbalancer(s)'
  BY <1>1, <1>2, <1>5, <1>7, <1>9 DEF HoldsLoadbalancer, Kinds
<1>12. \A i \in Own(s, "lb") : i = l
  BY <1>1, <1>5 DEF HoldsLoadbalancer
<1>13. HoldsOwn(s)'
  BY <1>1, <1>5, <1>7, <1>8, <1>9, <1>12 DEF HoldsOwn, Kinds, l
<1>14. SettledInv(s)'
  BY <1>2 DEF SettledInv
<1>15. \A i \in Own(s, "tg") : objects'[i].labels = objects[i].labels
  BY <1>5, <1>8 DEF Own
<1>16. DeletionInv(s)'
  BY <1>1, <1>2, <1>3, <1>5, <1>7, <1>9, <1>15 DEF DeletionInv, Kinds
<1> QED BY <1>9, <1>10, <1>11, <1>13, <1>14, <1>16 DEF StepKeeps, ServiceInv

(* The security group is found and attached, which ends the job, or made   *)
(* for the next round.                                                     *)
LEMMA UpdateLoadbalancerKeeps ==
    ASSUME IdentityInv, NEW s \in Services, UpdateLoadbalancer(s)
    PROVE  StepKeeps(s)
<1>1. /\ Types /\ JobsTypeOK /\ (\A t \in Services : Marked(t)) /\ Marked(s)
      /\ HoldsLoadbalancer(s) /\ HoldsOwn(s) /\ DeletionInv(s) /\ job[s] \in JobRecords
  BY Given
<1>2. /\ UNCHANGED <<config, phase, relabelled, abandoned, restarts>>
      /\ pc[s] = "update" /\ ~settled[s] /\ phase[s] # "gone"
  BY Given DEF UpdateLoadbalancer
<1>3. Labels(s)' = Labels(s) /\ ConfigTypeOK'
  BY <1>1, <1>2, LabelsKept DEF Types, ConfigTypeOK
<1> DEFINE l == job[s].lb
<1>4. /\ l \in Own(s, "lb") /\ objects[l].tg \in Fresh(s, "tg") /\ objects[l].tg \in Own(s, "tg")
      /\ \A i \in Own(s, "lb") : i = l
  BY <1>1, <1>2 DEF HoldsLoadbalancer, HoldsOwn, Fresh
<1>5. l \in DOMAIN objects /\ Owner(l) = s /\ objects \in [DOMAIN objects -> Records] /\ objects[l].kind = "lb"
  BY <1>1, <1>4 DEF Own, Types, ObjectsTypeOK
<1> HIDE DEF l
<1>6. ASSUME NEW g \in FindManagedSecurityGroup(s),
             objects' = [objects EXCEPT ![l].sg = g, ![g].labels = Labels(s)],
             Goto(s, "idle", NoJob), settled' = [settled EXCEPT ![s] = phase[s] = "active"],
             UNCHANGED created
      PROVE  StepKeeps(s)
  <2>1. g \in Own(s, "sg") /\ g \in DOMAIN objects /\ Owner(g) = s /\ objects[g].kind = "sg" /\ g # l
    BY <1>1, <1>5, FilterOwn DEF Own
  <2>2. Labels(s) \in LabelMaps /\ g \in Maybe
    BY <1>1, <2>1, LabelsOwn DEF Types, ObjectsTypeOK, Maybe
  <2>3. /\ UpdatesOwn(s) /\ objects'[l].sg = g /\ objects'[l].tg = objects[l].tg
        /\ objects'[g].labels = Labels(s)
    BY <1>5, <1>6, <2>1, <2>2 DEF UpdatesOwn, Records
  <2>4. /\ ObjectsTypeOK' /\ Marked(s)' /\ \A t \in Services \ {s} : SameObjects(t)
        /\ \A k \in Kinds :
             /\ Own(s, k)' = Own(s, k) /\ Fresh(s, k) \subseteq Fresh(s, k)'
             /\ \A i \in Own(s, k) : objects'[i].labels = Labels(s) => i \in Fresh(s, k)'
    BY <1>1, <1>2, <2>3, UpdateEffect
  <2>5. "idle" \in Steps /\ NoJob \in JobRecords
    BY NoJobRecord DEF Steps
  <2>6. /\ pc' \in [Services -> Steps] /\ job' \in [Services -> JobRecords]
        /\ pc'[s] = "idle" /\ job'[s] = NoJob
        /\ \A t \in Services \ {s} : pc'[t] = pc[t] /\ job'[t] = job[t]
    BY <1>1, <1>6, <2>5, GotoEffect
  <2>7. /\ settled' \in [Services -> BOOLEAN] /\ (settled'[s] <=> phase[s] = "active")
        /\ \A t \in Services \ {s} : settled'[t] = settled[t]
    BY <1>1, <1>6 DEF JobsTypeOK
  <2>8. JobsTypeOK'
    BY <1>1, <1>2, <2>6, <2>7 DEF JobsTypeOK
  <2>9. OthersKept(s)
    BY <1>2, <2>4, <2>6, <2>7 DEF OthersKept, SameJob
  <2>10. HoldsLoadbalancer(s)'
    BY <1>1, <2>4, <2>6 DEF HoldsLoadbalancer, Kinds
  <2>11. HoldsOwn(s)'
    BY <1>4, <2>1, <2>3, <2>4, <2>6 DEF HoldsOwn, Kinds
  <2>12. SettledInv(s)'
    <3>1. objects'[l].tg \in Fresh(s, "tg")' /\ objects'[l].sg \in Fresh(s, "sg")' /\ l \in Own(s, "lb")'
      BY <1>4, <2>1, <2>3, <2>4 DEF Kinds
    <3> QED BY <1>2, <2>6, <2>7, <3>1 DEF SettledInv
  <2>13. \A i \in Own(s, "tg") : objects'[i].labels \in {objects[i].labels, Labels(s)}
    BY <2>3 DEF UpdatesOwn, Own
  <2>14. DeletionInv(s)'
    BY <1>1, <1>2, <1>3, <1>4, <2>4, <2>6, <2>13 DEF DeletionInv, Kinds
  <2> QED BY <1>3, <2>4, <2>8, <2>9, <2>10, <2>11, <2>12, <2>14 DEF StepKeeps, ServiceInv, Types
<1>7. ASSUME Create(s, "sg", None), pc' = pc, job' = job, UNCHANGED settled
      PROVE  StepKeeps(s)
  <2>1. None \in Maybe
    BY DEF Maybe
  <2>2. ObjectsTypeOK'
    BY <1>1, <1>7, <2>1, CreateEffect
  <2>3. /\ Marked(s)' /\ \A t \in Services \ {s} : SameObjects(t)
        /\ Own(s, "sg")' = Own(s, "sg") \cup {NewObject(s)}
        /\ \A k \in {"lb", "tg", "sg"} \ {"sg"} : Own(s, k)' = Own(s, k) /\ Fresh(s, k)' = Fresh(s, k)
        /\ \A i \in DOMAIN objects : objects'[i] = objects[i]
    BY <1>1, <1>2, <1>7, <2>1, CreateOwn
  <2>4. /\ \A i \in Own(s, "lb") : objects'[i] = objects[i]
        /\ \A i \in Own(s, "tg") : objects'[i] = objects[i]
    BY <2>3 DEF Own
  <2>5. JobsTypeOK' /\ OthersKept(s)
    BY <1>1, <1>2, <1>7, <2>3 DEF JobsTypeOK, OthersKept, SameJob
  <2>6. HoldsLoadbalancer(s)'
    BY <1>1, <1>7, <2>3 DEF HoldsLoadbalancer
  <2>7. HoldsOwn(s)'
    BY <1>1, <1>2, <1>4, <1>7, <2>3, <2>4 DEF HoldsOwn, l
  <2>8. SettledInv(s)'
    BY <1>2, <1>7 DEF SettledInv
  <2>9. DeletionInv(s)'
    BY <1>1, <1>2, <1>3, <1>7, <2>3, <2>4 DEF DeletionInv
  <2> QED BY <1>3, <2>2, <2>3, <2>5, <2>6, <2>7, <2>8, <2>9 DEF StepKeeps, ServiceInv, Types
<1> QED BY <1>6, <1>7 DEF UpdateLoadbalancer, l

-----------------------------------------------------------------------------
(* EnsureLoadBalancerDeleted, step by step                                 *)

(* The first fetch of EnsureLoadBalancerDeleted.                           *)
LEMMA DeleteFetchesKeeps ==
    ASSUME IdentityInv, NEW s \in Services, DeleteFetches(s)
    PROVE  StepKeeps(s)
<1>1. /\ Types /\ JobsTypeOK /\ (\A t \in Services : Marked(t)) /\ Marked(s)
      /\ HoldsLoadbalancer(s) /\ HoldsOwn(s) /\ SettledInv(s) /\ DeletionInv(s)
  BY Given
<1>2. /\ UNCHANGED <<config, objects, created, settled, relabelled, abandoned, restarts>>
      /\ pc[s] = "idle" /\ phase[s] = "deleting" /\ ~settled[s]
  BY <1>1 DEF DeleteFetches, SettledInv
<1>3. Labels(s)' = Labels(s) /\ ConfigTypeOK'
  BY <1>1, <1>2, LabelsKept DEF Types, ConfigTypeOK
<1>4. /\ ObjectsTypeOK' /\ Marked(s)' /\ \A t \in Services \ {s} : SameObjects(t)
      /\ \A k \in Kinds : Own(s, k)' = Own(s, k) /\ Fresh(s, k)' = Fresh(s, k)
  BY <1>1, <1>2, NoObjectChange
<1>5. SettledInv(s)'
  BY <1>2 DEF SettledInv
<1>6. CASE Fetch(s) = {} /\ phase' = [phase EXCEPT ![s] = "gone"] /\ UNCHANGED <<pc, job>>
  <2>1. Own(s, "lb") = {}
    BY <1>1, <1>6, FetchOwn
  <2>2. /\ phase' \in [Services -> {"active", "deleting", "gone"}] /\ phase'[s] = "gone"
        /\ \A t \in Services \ {s} : phase'[t] = phase[t]
    BY <1>1, <1>6 DEF JobsTypeOK
  <2>3. JobsTypeOK' /\ OthersKept(s)
    BY <1>1, <1>2, <1>4, <1>6, <2>2 DEF JobsTypeOK, OthersKept, SameJob
  <2>4. HoldsLoadbalancer(s)' /\ HoldsOwn(s)'
    BY <1>1, <1>2, <1>4, <1>6 DEF HoldsLoadbalancer, HoldsOwn, Kinds
  <2>5. DeletionInv(s)'
    BY <1>1, <1>2, <1>3, <1>4, <1>6, <2>1, <2>2 DEF DeletionInv, Kinds
  <2> QED BY <1>3, <1>4, <1>5, <2>3, <2>4, <2>5 DEF StepKeeps, ServiceInv, Types
<1>7. ASSUME NEW i \in Fetch(s), Goto(s, "unused", [NoJob EXCEPT !.lb = i]), UNCHANGED phase
      PROVE  StepKeeps(s)
  <2>1. i \in Own(s, "lb") /\ i \in Maybe
    BY <1>1, FetchOwn DEF Own, Types, ObjectsTypeOK, Maybe
  <2>2. PICK j \in JobRecords : Goto(s, "unused", j) /\ j.lb = i
    BY <1>7, <2>1 DEF NoJob, JobRecords, Maybe
  <2>3. "unused" \in Steps
    BY DEF Steps
  <2>4. /\ pc' \in [Services -> Steps] /\ job' \in [Services -> JobRecords]
        /\ pc'[s] = "unused" /\ job'[s].lb = i
        /\ \A t \in Services \ {s} : pc'[t] = pc[t] /\ job'[t] = job[t]
    BY <1>1, <2>2, <2>3, GotoEffect
  <2>5. Types' /\ OthersKept(s)
    BY <1>1, <1>2, <1>4, <1>7, <2>4, JobStepKeeps DEF Service
  <2>6. HoldsLoadbalancer(s)' /\ HoldsOwn(s)'
    BY <1>1, <1>2, <1>4, <2>1, <2>4 DEF HoldsLoadbalancer, HoldsOwn, Kinds
  <2>7. DeletionInv(s)'
    BY <1>1, <1>2, <1>3, <1>4, <1>7, <2>4 DEF DeletionInv, Kinds
  <2> QED BY <1>4, <1>5, <2>5, <2>6, <2>7 DEF StepKeeps, ServiceInv
<1> QED BY <1>6, <1>7 DEF DeleteFetches

(* Target groups found by label and used by no listener go.                *)
LEMMA CleanupUnusedTargetGroupsKeeps ==
    ASSUME IdentityInv, NEW s \in Services, CleanupUnusedTargetGroups(s)
    PROVE  StepKeeps(s)
<1>1. /\ Types /\ JobsTypeOK /\ (\A t \in Services : Marked(t)) /\ Marked(s)
      /\ HoldsLoadbalancer(s) /\ HoldsOwn(s) /\ DeletionInv(s) /\ job[s] \in JobRecords
  BY Given
<1>2. /\ UNCHANGED <<config, phase, settled, relabelled, abandoned>> /\ UNCHANGED Service /\ created' = created
      /\ pc[s] = "unused" /\ ~settled[s] /\ phase[s] # "gone"
  BY Given DEF CleanupUnusedTargetGroups, Service
<1>3. Labels(s)' = Labels(s)
  BY <1>2, LabelsKept
<1> DEFINE S == {i \in ListTargetGroups(s) : ~Referenced(i)}
<1>4. Delete(S) /\ Goto(s, "remove", job[s]) /\ "remove" \in Steps
  BY DEF CleanupUnusedTargetGroups, Steps
<1>5. S \subseteq Own(s, "tg") /\ \A l \in Own(s, "lb") : objects[l].tg \notin S
  BY <1>1, FilterOwn DEF Referenced, Of, Own
<1>6. \A i \in S : Owner(i) = s /\ i \notin Own(s, "lb") /\ i \notin Own(s, "sg")
  BY <1>5 DEF Own
<1> HIDE DEF S
<1>7. /\ ObjectsTypeOK' /\ Marked(s)' /\ \A t \in Services \ {s} : SameObjects(t)
      /\ \A k \in Kinds : /\ Own(s, k)' = Own(s, k) \ S
                          /\ \A i \in Own(s, k)' : objects'[i] = objects[i]
  BY <1>1, <1>2, <1>4, <1>6, DeleteEffect
<1>8. /\ pc' \in [Services -> Steps] /\ job' \in [Services -> JobRecords]
      /\ pc'[s] = "remove" /\ job'[s] = job[s]
      /\ \A t \in Services \ {s} : pc'[t] = pc[t] /\ job'[t] = job[t]
  BY <1>1, <1>4, GotoEffect
<1>9. Types' /\ OthersKept(s)
  BY <1>1, <1>2, <1>7, <1>8, JobStepKeeps
<1>10. Own(s, "lb")' = Own(s, "lb") /\ Own(s, "sg")' = Own(s, "sg") /\ Own(s, "tg")' = Own(s, "tg") \ S
  BY <1>6, <1>7 DEF Kinds
<1>11. HoldsLoadbalancer(s)'
  BY <1>1, <1>2, <1>8, <1>10 DEF HoldsLoadbalancer
<1>12. HoldsOwn(s)'
  BY <1>1, <1>5, <1>7, <1>8, <1>10 DEF HoldsOwn, Kinds
<1>13. SettledInv(s)'
  BY <1>2 DEF SettledInv
<1>14. DeletionInv(s)'
  BY <1>1, <1>2, <1>3, <1>7, <1>8, <1>10 DEF DeletionInv, Kinds
<1> QED BY <1>7, <1>9, <1>11, <1>12, <1>13, <1>14 DEF StepKeeps, ServiceInv

(* The load balancer that the deletion fetched goes.                       *)
LEMMA DeleteLoadbalancerKeeps ==
    ASSUME IdentityInv, NEW s \in Services, DeleteLoadbalancer(s)
    PROVE  StepKeeps(s)
<1>1. /\ Types /\ JobsTypeOK /\ Marked(s) /\ HoldsLoadbalancer(s) /\ HoldsOwn(s) /\ DeletionInv(s)
      /\ job[s] \in JobRecords
  BY Given
<1>2. /\ UNCHANGED <<config, phase, settled, relabelled, abandoned>> /\ UNCHANGED Service /\ created' = created
      /\ pc[s] = "remove" /\ ~settled[s] /\ phase[s] # "gone"
  BY Given DEF DeleteLoadbalancer, Service
<1>3. Labels(s)' = Labels(s)
  BY <1>2, LabelsKept
<1> DEFINE S == {job[s].lb}
<1>4. Delete(S) /\ Goto(s, "purge", job[s]) /\ "purge" \in Steps
  BY DEF DeleteLoadbalancer, Steps
<1>5. Own(s, "lb") = S
  BY <1>1, <1>2 DEF HoldsLoadbalancer
<1>6. \A i \in S : Owner(i) = s /\ i \notin Own(s, "tg")
  BY <1>5 DEF Own
<1> HIDE DEF S
<1>7. /\ ObjectsTypeOK' /\ Marked(s)' /\ \A t \in Services \ {s} : SameObjects(t)
      /\ \A k \in Kinds : /\ Own(s, k)' = Own(s, k) \ S
                          /\ \A i \in Own(s, k)' : objects'[i] = objects[i]
  BY <1>1, <1>2, <1>4, <1>6, DeleteEffect
<1>8. /\ pc' \in [Services -> Steps] /\ job' \in [Services -> JobRecords]
      /\ pc'[s] = "purge" /\ job'[s] = job[s]
      /\ \A t \in Services \ {s} : pc'[t] = pc[t] /\ job'[t] = job[t]
  BY <1>1, <1>4, GotoEffect
<1>9. Types' /\ OthersKept(s)
  BY <1>1, <1>2, <1>7, <1>8, JobStepKeeps
<1>10. Own(s, "lb")' = {} /\ Own(s, "tg")' = Own(s, "tg")
  BY <1>5, <1>6, <1>7 DEF Kinds
<1>11. HoldsLoadbalancer(s)' /\ HoldsOwn(s)'
  BY <1>8, <1>10 DEF HoldsLoadbalancer, HoldsOwn
<1>12. SettledInv(s)'
  BY <1>2 DEF SettledInv
<1>13. DeletionInv(s)'
  BY <1>1, <1>2, <1>3, <1>7, <1>8, <1>10 DEF DeletionInv, Kinds
<1> QED BY <1>7, <1>9, <1>11, <1>12, <1>13 DEF StepKeeps, ServiceInv

(* No load balancer refers to a target group of a Service without one.     *)
LEMMA OrphansUnreferenced ==
    ASSUME IdentityInv, NEW s \in Services, Own(s, "lb") = {}, NEW i \in Own(s, "tg")
    PROVE  ~Referenced(i)
<1> SUFFICES ASSUME NEW l \in Of("lb"), objects[l].tg = i PROVE FALSE
  BY DEF Referenced
<1>1. Types /\ \A t \in Services : HoldsOwn(t)
  BY DEF IdentityInv, ServiceInv
<1>2. i \in DOMAIN objects /\ Owner(i) = s /\ i # None
  BY <1>1, NoneAssumption DEF Own, Types, ObjectsTypeOK
<1>3. l \in DOMAIN objects /\ objects[l].kind = "lb" /\ Owner(l) \in Services
  BY <1>1 DEF Of, Types, ObjectsTypeOK, Identities, Owner
<1>4. l \in Own(Owner(l), "lb")
  BY <1>3 DEF Own
<1>5. i \in Own(Owner(l), "tg")
  BY <1>1, <1>2, <1>3, <1>4 DEF HoldsOwn
<1>6. Owner(l) = s
  BY <1>2, <1>5 DEF Own
<1> QED BY <1>4, <1>6

(* What is left under the labels goes after the load balancer.             *)
LEMMA PurgeKeeps ==
    ASSUME IdentityInv, NEW s \in Services, Purge(s)
    PROVE  StepKeeps(s)
<1>1. /\ Types /\ JobsTypeOK /\ (\A t \in Services : Marked(t)) /\ Marked(s)
      /\ HoldsLoadbalancer(s) /\ HoldsOwn(s) /\ DeletionInv(s)
  BY Given
<1>2. /\ UNCHANGED <<config, created, settled, relabelled, abandoned, restarts>>
      /\ pc[s] = "purge" /\ ~settled[s] /\ Fetch(s) = {}
  BY Given DEF Purge
<1>3. Labels(s)' = Labels(s) /\ ConfigTypeOK'
  BY <1>1, <1>2, LabelsKept DEF Types, ConfigTypeOK
<1>4. Own(s, "lb") = {}
  BY <1>1, <1>2, FetchOwn
<1>5. PICK G \in SUBSET FindManagedSecurityGroup(s) :
         Delete(G \cup {i \in ListTargetGroups(s) : ~Referenced(i)})
  BY DEF Purge
<1> DEFINE S == G \cup {i \in ListTargetGroups(s) : ~Referenced(i)}
<1>6. \A i \in S : Owner(i) = s
  BY <1>1, FilterOwn DEF Own
<1>7. ~relabelled[s] => Own(s, "tg") \subseteq S
  <2> SUFFICES ASSUME ~relabelled[s], NEW i \in Own(s, "tg")
               PROVE  i \in ListTargetGroups(s) /\ ~Referenced(i)
    OBVIOUS
  <2>1. objects[i].labels = Labels(s)
    BY <1>1 DEF DeletionInv
  <2> QED BY <1>1, <1>4, <2>1, FilterOwn, OrphansUnreferenced
<1>8. Delete(S)
  BY <1>5
<1> HIDE DEF S
<1>9. /\ ObjectsTypeOK' /\ Marked(s)' /\ \A t \in Services \ {s} : SameObjects(t)
      /\ \A k \in Kinds : /\ Own(s, k)' = Own(s, k) \ S
                          /\ \A i \in Own(s, k)' : objects'[i] = objects[i]
  BY <1>1, <1>2, <1>6, <1>8, DeleteEffect
<1>10. Goto(s, "idle", NoJob) /\ "idle" \in Steps /\ NoJob \in JobRecords
  BY NoJobRecord DEF Purge, Steps
<1>11. /\ pc' \in [Services -> Steps] /\ job' \in [Services -> JobRecords]
       /\ pc'[s] = "idle" /\ job'[s] = NoJob
       /\ \A t \in Services \ {s} : pc'[t] = pc[t] /\ job'[t] = job[t]
  BY <1>1, <1>10, GotoEffect
<1>12. /\ phase' \in [Services -> {"active", "deleting", "gone"}] /\ phase'[s] = "gone"
       /\ \A t \in Services \ {s} : phase'[t] = phase[t]
  BY <1>1 DEF JobsTypeOK, Purge
<1>13. JobsTypeOK' /\ OthersKept(s)
  BY <1>1, <1>2, <1>9, <1>11, <1>12 DEF JobsTypeOK, OthersKept, SameJob
<1>14. Own(s, "lb")' = {} /\ (~relabelled[s] => Own(s, "tg")' = {})
  BY <1>4, <1>7, <1>9 DEF Kinds
<1>15. HoldsLoadbalancer(s)' /\ HoldsOwn(s)'
  BY <1>11, <1>14 DEF HoldsLoadbalancer, HoldsOwn
<1>16. SettledInv(s)'
  BY <1>2 DEF SettledInv
<1>17. DeletionInv(s)'
  BY <1>2, <1>11, <1>12, <1>14 DEF DeletionInv
<1> QED BY <1>3, <1>9, <1>13, <1>15, <1>16, <1>17 DEF StepKeeps, ServiceInv, Types

-----------------------------------------------------------------------------
(* The Service and the provider                                            *)

(* A Service is removed by its user.                                       *)
LEMMA DeleteServiceKeeps ==
    ASSUME IdentityInv, NEW s \in Services, DeleteService(s)
    PROVE  StepKeeps(s)
<1>1. /\ Types /\ JobsTypeOK /\ Marked(s) /\ HoldsLoadbalancer(s) /\ HoldsOwn(s) /\ DeletionInv(s)
  BY Given
<1>2. /\ UNCHANGED <<config, objects, created, pc, job, relabelled, abandoned, restarts>> /\ phase[s] = "active"
  BY DEF DeleteService
<1>3. Labels(s)' = Labels(s) /\ ConfigTypeOK'
  BY <1>1, <1>2, LabelsKept DEF Types, ConfigTypeOK
<1>4. /\ ObjectsTypeOK' /\ Marked(s)' /\ \A t \in Services \ {s} : SameObjects(t)
      /\ \A k \in Kinds : Own(s, k)' = Own(s, k) /\ Fresh(s, k)' = Fresh(s, k)
  BY <1>1, <1>2, NoObjectChange
<1>5. /\ phase' \in [Services -> {"active", "deleting", "gone"}] /\ phase'[s] = "deleting"
      /\ settled' \in [Services -> BOOLEAN] /\ ~settled'[s]
      /\ \A t \in Services \ {s} : phase'[t] = phase[t] /\ settled'[t] = settled[t]
  BY <1>1 DEF JobsTypeOK, DeleteService
<1>6. JobsTypeOK' /\ OthersKept(s)
  BY <1>1, <1>2, <1>4, <1>5 DEF JobsTypeOK, OthersKept, SameJob
<1>7. HoldsLoadbalancer(s)' /\ HoldsOwn(s)'
  BY <1>1, <1>2, <1>4 DEF HoldsLoadbalancer, HoldsOwn, Kinds
<1>8. SettledInv(s)' /\ DeletionInv(s)'
  BY <1>1, <1>2, <1>3, <1>4, <1>5 DEF SettledInv, DeletionInv, Kinds
<1> QED BY <1>3, <1>4, <1>6, <1>7, <1>8 DEF StepKeeps, ServiceInv, Types

(* A restart drops the jobs of its cluster and may change the labels.      *)
LEMMA RestartKeeps ==
    ASSUME IdentityInv, NEW c \in Clusters, Restart(c)
    PROVE  IdentityInv'
<1>1. Types /\ JobsTypeOK /\ ConfigTypeOK /\ ObjectsTypeOK
  BY DEF IdentityInv, Types
<1>2. UNCHANGED <<objects, created, phase>>
  BY DEF Restart
<1>3. PICK f \in Configs :
         /\ config' = [config EXCEPT ![c] = f]
         /\ relabelled' = [s \in Services |->
                relabelled[s] \/ (Home[s] = c /\ GetLabels(f, s) # Labels(s))]
  BY DEF Restart
<1>4. /\ pc' = [s \in Services |-> IF Home[s] = c THEN "idle" ELSE pc[s]]
      /\ job' = [s \in Services |-> IF Home[s] = c THEN NoJob ELSE job[s]]
      /\ settled' = [s \in Services |-> settled[s] /\ Home[s] # c]
      /\ restarts[c] < MaxRestarts[c] /\ restarts' = [restarts EXCEPT ![c] = @ + 1]
      /\ abandoned' = [s \in Services |-> abandoned[s] \/ (Home[s] = c /\ pc[s] = "purge")]
  BY DEF Restart
<1>5. ConfigTypeOK'
  <2>1. config' \in [Clusters -> Configs]
    BY <1>1, <1>3 DEF ConfigTypeOK
  <2>2. restarts' \in [Clusters -> Nat] /\ restarts'[c] = restarts[c] + 1
        /\ \A d \in Clusters \ {c} : restarts'[d] = restarts[d]
    BY <1>1, <1>4 DEF ConfigTypeOK
  <2>3. MaxRestarts[c] \in Nat /\ restarts[c] \in Nat
    BY <1>1, BoundsAssumption DEF ConfigTypeOK
  <2>4. \A d \in Clusters : restarts'[d] <= MaxRestarts[d]
    BY <1>1, <1>4, <2>2, <2>3 DEF ConfigTypeOK
  <2> QED BY <2>1, <2>2, <2>4 DEF ConfigTypeOK
<1>6. JobsTypeOK'
  <2>1. pc' \in [Services -> Steps] /\ job' \in [Services -> JobRecords]
    BY <1>1, <1>4, NoJobRecord DEF JobsTypeOK, Steps
  <2>2. /\ settled' \in [Services -> BOOLEAN] /\ relabelled' \in [Services -> BOOLEAN]
        /\ abandoned' \in [Services -> BOOLEAN]
    BY <1>3, <1>4
  <2> QED BY <1>1, <1>2, <2>1, <2>2 DEF JobsTypeOK
<1>7. ObjectsTypeOK'
  BY <1>1, <1>2 DEF ObjectsTypeOK
<1>8. ASSUME NEW s \in Services PROVE ServiceInv(s)'
  <2>1. ServiceInv(s) /\ SameObjects(s)
    BY <1>2 DEF IdentityInv, SameObjects
  <2>2. CASE Home[s] # c
    <3>1. Labels(s)' = Labels(s)
      BY <1>1, <1>3, <2>2, ServicesAssumption DEF ConfigTypeOK, Labels
    <3>2. settled'[s] = settled[s] /\ relabelled'[s] = relabelled[s] /\ abandoned'[s] = abandoned[s]
      BY <1>1, <1>3, <1>4, <2>2 DEF JobsTypeOK
    <3>3. SameJob(s)
      BY <1>2, <1>4, <2>2, <3>2 DEF SameJob
    <3> QED BY <2>1, <3>1, <3>3, FrameInv
  <2>3. CASE Home[s] = c
    <3>1. Labels(s)' = GetLabels(f, s)
      BY <1>1, <1>3, <2>3 DEF ConfigTypeOK, Labels
    <3>2. ~relabelled'[s] => ~relabelled[s] /\ Labels(s)' = Labels(s)
      BY <1>3, <2>3, <3>1
    <3>3. ~settled'[s] /\ pc'[s] = "idle" /\ (abandoned'[s] <=> abandoned[s] \/ pc[s] = "purge")
      BY <1>4, <2>3
    <3>4. \A k \in Kinds : Own(s, k)' = Own(s, k)
      BY <1>2 DEF Own
    <3>5. Marked(s)'
      BY <1>2, <2>1 DEF ServiceInv, Marked
    <3>6. HoldsLoadbalancer(s)' /\ HoldsOwn(s)' /\ SettledInv(s)'
      BY <1>2, <2>1, <3>3, <3>4 DEF ServiceInv, HoldsLoadbalancer, HoldsOwn, SettledInv, Kinds
    <3>7. DeletionInv(s)'
      BY <1>2, <2>1, <3>2, <3>3, <3>4 DEF ServiceInv, DeletionInv, Kinds
    <3> QED BY <3>5, <3>6, <3>7 DEF ServiceInv
  <2> QED BY <2>2, <2>3
<1> QED BY <1>5, <1>6, <1>7, <1>8 DEF IdentityInv, Types

(* The invariant holds at the start.                                       *)
LEMMA InitIdentityInv == Init => IdentityInv
<1> SUFFICES ASSUME Init PROVE IdentityInv OBVIOUS
<1>1. DOMAIN objects = {} /\ objects = <<>>
  BY DEF Init
<1>2. ObjectsTypeOK
  BY <1>1, BoundsAssumption DEF Init, ObjectsTypeOK
<1>3. JobsTypeOK
  BY NoJobRecord DEF Init, JobsTypeOK, Steps
<1>4. ConfigTypeOK
  BY BoundsAssumption DEF Init, ConfigTypeOK
<1>5. ASSUME NEW s \in Services PROVE ServiceInv(s)
  <2>1. \A k : Own(s, k) = {}
    BY <1>1 DEF Own
  <2>2. Marked(s) /\ pc[s] = "idle" /\ ~settled[s] /\ phase[s] = "active"
    BY <1>1 DEF Marked, Init
  <2> QED BY <2>1, <2>2 DEF ServiceInv, HoldsLoadbalancer, HoldsOwn, SettledInv, DeletionInv
<1> QED BY <1>2, <1>3, <1>4, <1>5 DEF IdentityInv, Types

(* Every step of a job keeps the other Services' objects and jobs.         *)
LEMMA JobSteps ==
    ASSUME IdentityInv, NEW s \in Services, Ensure(s) \/ EnsureDeleted(s) \/ DeleteService(s)
    PROVE  StepKeeps(s)
BY EnsureFetchesKeeps, EnsureManagedSecurityGroupKeeps, CreateLoadbalancerKeeps,
   CreateOrUpdateTargetGroupsKeeps, UpdateListenerKeeps, UpdateLoadbalancerKeeps,
   DeleteFetchesKeeps, CleanupUnusedTargetGroupsKeeps, DeleteLoadbalancerKeeps, PurgeKeeps,
   DeleteServiceKeeps
   DEF Ensure, EnsureDeleted

(* Every step keeps the invariant.                                         *)
LEMMA NextIdentityInv == IdentityInv /\ [Next]_vars => IdentityInv'
<1> SUFFICES ASSUME IdentityInv, [Next]_vars PROVE IdentityInv' OBVIOUS
<1>1. ASSUME NEW s \in Services, Ensure(s) \/ EnsureDeleted(s) \/ DeleteService(s) PROVE IdentityInv'
  <2>1. StepKeeps(s)
    BY <1>1, JobSteps
  <2> QED BY <2>1, OneServiceStep DEF StepKeeps
<1>2. ASSUME NEW c \in Clusters, Restart(c) PROVE IdentityInv'
  BY <1>2, RestartKeeps
<1>3. CASE UNCHANGED vars
  <2>1. Types'
    BY <1>3 DEF vars, IdentityInv, Types, ObjectsTypeOK, JobsTypeOK, ConfigTypeOK
  <2>2. ASSUME NEW s \in Services PROVE ServiceInv(s)'
    <3>1. SameObjects(s) /\ SameJob(s) /\ Labels(s)' = Labels(s)
      BY <1>3 DEF vars, SameObjects, SameJob, Labels
    <3> QED BY <3>1, FrameInv DEF IdentityInv
  <2> QED BY <2>1, <2>2 DEF IdentityInv
<1> QED BY <1>1, <1>2, <1>3 DEF Next

(* The inductive invariant of this module.                                 *)
LEMMA Invariance == Spec => []IdentityInv
BY InitIdentityInv, NextIdentityInv, PTL DEF Spec

-----------------------------------------------------------------------------
(* Identities, jobs, labels and configurations are well typed: every       *)
(* object carries the built-in labels, whatever additional labels are      *)
(* configured (GetLabelsForVpcLoadbalancer).                               *)
THEOREM IdentityTypes == Spec => []TypeOK
<1>1. IdentityInv => TypeOK
  BY TypesAreTypeOK DEF IdentityInv
<1> QED BY <1>1, Invariance, PTL

(* fetchVpcLoadbalancerFromCloud: with the fallback by name no Service     *)
(* ever has two load balancers, across restarts, changes of configuration  *)
(* and jobs cut short.                                                     *)
THEOREM OneLoadBalancer == Spec => []OneLoadBalancerPerService
<1>1. IdentityInv => OneLoadBalancerPerService
  <2> SUFFICES ASSUME IdentityInv, NEW i \in Of("lb"), NEW k \in Of("lb"), Owner(i) = Owner(k)
               PROVE  i = k
    BY DEF OneLoadBalancerPerService
  <2>1. Owner(i) \in Services
    BY DEF IdentityInv, Types, ObjectsTypeOK, Identities, Owner, Of
  <2>2. i \in Own(Owner(i), "lb") /\ k \in Own(Owner(i), "lb")
    BY DEF Own, Of
  <2> QED BY <2>1, <2>2 DEF IdentityInv, ServiceInv, HoldsLoadbalancer
<1> QED BY <1>1, Invariance, PTL

(* A load balancer's target group and security group exist and are its     *)
(* Service's own: target groups are deleted only when no listener uses     *)
(* them, and lookups by label never cross Services.                        *)
THEOREM OwnBackends == Spec => []BackedByOwnObjects
<1>1. IdentityInv => BackedByOwnObjects
  <2> SUFFICES ASSUME IdentityInv, NEW l \in Of("lb"),
                      NEW i \in {objects[l].tg, objects[l].sg} \ {None}
               PROVE  i \in DOMAIN objects /\ Owner(i) = Owner(l)
    BY DEF BackedByOwnObjects
  <2>1. Owner(l) \in Services
    BY DEF IdentityInv, Types, ObjectsTypeOK, Identities, Owner, Of
  <2>2. l \in Own(Owner(l), "lb")
    BY DEF Own, Of
  <2>3. i \in Own(Owner(l), "tg") \cup Own(Owner(l), "sg")
    BY <2>1, <2>2 DEF IdentityInv, ServiceInv, HoldsOwn
  <2> QED BY <2>3 DEF Own
<1> QED BY <1>1, Invariance, PTL

(* An ensured Service is served under the labels of the configuration the  *)
(* provider runs with, so that the next job and the deletion find what     *)
(* this one made (createOrUpdateTargetGroups, updateVpcLoadbalancer).      *)
THEOREM SettledLabels == Spec => []SettledUnderPresentLabels
<1>1. IdentityInv => SettledUnderPresentLabels
  <2> SUFFICES ASSUME IdentityInv, NEW s \in Services, settled[s]
               PROVE  \E l \in Of("lb") : /\ Owner(l) = s
                                          /\ objects[l].tg \in ListTargetGroups(s)
                                          /\ objects[l].sg \in FindManagedSecurityGroup(s)
    BY DEF SettledUnderPresentLabels
  <2>1. PICK l \in Own(s, "lb") : objects[l].tg \in Fresh(s, "tg") /\ objects[l].sg \in Fresh(s, "sg")
    BY DEF IdentityInv, ServiceInv, SettledInv
  <2>2. Types /\ \A t \in Services : Marked(t)
    BY DEF IdentityInv, ServiceInv
  <2>3. objects[l].tg \in ListTargetGroups(s) /\ objects[l].sg \in FindManagedSecurityGroup(s)
    BY <2>1, <2>2, FilterOwn DEF Fresh
  <2> QED BY <2>1, <2>3 DEF Own, Of
<1> QED BY <1>1, Invariance, PTL

(* EnsureLoadBalancerDeleted: a Service that kept its labels leaves no     *)
(* target group behind, however its jobs were interleaved and wherever     *)
(* restarts cut them short, except for a restart after the deletion of the *)
(* load balancer and before the clean-up of the target groups behind it.   *)
THEOREM NoTargetGroupLeft == Spec => []GoneLeavesNoTargetGroups
<1>1. IdentityInv => GoneLeavesNoTargetGroups
  BY DEF IdentityInv, ServiceInv, DeletionInv, GoneLeavesNoTargetGroups, Own, Of
<1> QED BY <1>1, Invariance, PTL

(* No job changes or deletes another Service's objects, in whatever        *)
(* cluster of the VPC that Service lives and however it is named.          *)
THEOREM OwnObjectsOnly == Spec => OnlyOwnObjects
<1> DEFINE Only ==
      \A s \in Services : <<pc[s], phase[s]>>' # <<pc[s], phase[s]>> =>
          \A i \in DOMAIN objects :
              i \notin DOMAIN objects' \/ objects'[i] # objects[i] => Owner(i) = s
<1>1. IdentityInv /\ [Next]_vars => [Only]_vars
  <2> SUFFICES ASSUME IdentityInv, [Next]_vars, NEW s \in Services,
                      <<pc[s], phase[s]>>' # <<pc[s], phase[s]>>, NEW i \in DOMAIN objects,
                      i \notin DOMAIN objects' \/ objects'[i] # objects[i]
               PROVE  Owner(i) = s
    OBVIOUS
  <2>1. ASSUME NEW t \in Services, Ensure(t) \/ EnsureDeleted(t) \/ DeleteService(t)
        PROVE  Owner(i) = s
    <3>1. OthersKept(t)
      BY <2>1, JobSteps DEF StepKeeps
    <3>2. s = t
      BY <3>1 DEF OthersKept, SameJob
    <3>3. Owner(i) \in Services
      BY DEF IdentityInv, Types, ObjectsTypeOK, Identities, Owner
    <3> QED BY <3>1, <3>2, <3>3 DEF OthersKept, SameObjects
  <2>2. ASSUME NEW c \in Clusters, Restart(c) PROVE Owner(i) = s
    BY <2>2 DEF Restart
  <2>3. CASE UNCHANGED vars
    BY <2>3 DEF vars
  <2> QED BY <2>1, <2>2, <2>3 DEF Next
<1> QED BY <1>1, Invariance, PTL DEF Spec, OnlyOwnObjects
=============================================================================
