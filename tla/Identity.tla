------------------------------ MODULE Identity ------------------------------
(***************************************************************************)
(* How the provider tells which cloud objects are a Service's own.  Load   *)
(* balancers, target groups and security groups of every cluster live in   *)
(* one VPC, and nothing but labels and names links them to a Service: the  *)
(* provider keeps no identities.  Target groups and security groups are    *)
(* found by labels, a load balancer by labels and else by its name.  The   *)
(* labels follow from the Service and from the configuration (the cluster  *)
(* name, additional labels), which may be another one after a restart.     *)
(*                                                                         *)
(* The provider of each cluster works on several Services at a time, here  *)
(* one job per Service and one API call per step, each of one port with a  *)
(* managed security group; Reconcile has the ports, the racing jobs for    *)
(* one Service and the failures.  With one port the clean-up of target     *)
(* groups at the end of an ensure finds nothing to do: the only key is     *)
(* desired.  A restart may cut any job short, a deletion too.              *)
(***************************************************************************)
EXTENDS Naturals, FiniteSets, Functions

CONSTANTS
    Services,       \* Services, of every cluster in the VPC
    Clusters,
    Home,           \* the cluster of a Service
    Key,            \* "namespace/name" of a Service
    Configs,        \* configurations: [cluster, extra]
    None,
    MaxObjects,     \* objects created for a Service
    MaxRestarts     \* of each cluster's provider

BuiltIn == {"cluster", "service", "uid"}

(* The label values: a missing key reads as the empty string in Go.        *)
Values == {c.cluster : c \in Configs} \cup (UNION {Range(c.extra) : c \in Configs})
              \cup Range(Key) \cup Services
LabelKeys == BuiltIn \cup UNION {DOMAIN c.extra : c \in Configs}

ASSUME ServicesAssumption ==
    Home \in [Services -> Clusters] /\ DOMAIN Key = Services
ASSUME BoundsAssumption == MaxObjects \in Nat /\ MaxRestarts \in [Clusters -> Nat]

VARIABLES
    config,         \* the configuration each cluster's provider runs with
    objects,        \* the objects in the VPC by identity
    created,        \* how many were created for each Service
    phase,          \* of a Service: active, deleting, gone
    pc, job,        \* the job for a Service: its next step, what it holds
    settled,        \* the Service was ensured since the provider started
    relabelled,     \* its labels changed during its life
    abandoned,      \* the load balancer was deleted and the clean-up after it cut short
    restarts

vars == <<config, objects, created, phase, pc, job, settled, relabelled, abandoned, restarts>>

(* An identity is opaque to the code; here it says for which Service the   *)
(* object was created.  name: as derived from the Service's UID ("a" and   *)
(* the UID cut to 32 characters, taken to be as unique as the UID).        *)
(* tg, sg: for a load balancer its listener's target group and its managed *)
(* security group.                                                         *)
Identities == Services \X (1..MaxObjects)
Maybe == Identities \cup {None}
ASSUME NoneAssumption == None \notin Identities

Owner(i) == i[1]
LabelMap(f) == BuiltIn \subseteq DOMAIN f /\ DOMAIN f \subseteq LabelKeys /\ Range(f) \subseteq Values
Steps == {"idle", "group", "create", "targets", "listener", "update", "unused", "remove", "purge"}

TypeOK ==
    /\ config \in [Clusters -> Configs] /\ created \in [Services -> 0..MaxObjects]
    /\ \A c \in Clusters : restarts[c] \in 0..MaxRestarts[c]
    /\ DOMAIN objects \subseteq {i \in Identities : i[2] <= created[i[1]]}
    /\ \A i \in DOMAIN objects :
         /\ objects[i].kind \in {"lb", "tg", "sg"}
         /\ objects[i].name \in Services /\ LabelMap(objects[i].labels)
         /\ objects[i].tg \in Maybe /\ objects[i].sg \in Maybe
    /\ phase \in [Services -> {"active", "deleting", "gone"}]
    /\ pc \in [Services -> Steps] /\ job \in [Services -> [lb : Maybe, tg : Maybe, sg : Maybe]]
    /\ settled \in [Services -> BOOLEAN] /\ relabelled \in [Services -> BOOLEAN]
    /\ abandoned \in [Services -> BOOLEAN]

-----------------------------------------------------------------------------
(* Labels                                                                  *)

(* Mutants: configured labels replace the provider's own; they are the     *)
(* only ones.                                                              *)
MutGetLabelsOverride(c, s) ==
    [k \in BuiltIn \cup DOMAIN c.extra |->
        IF k \in DOMAIN c.extra THEN c.extra[k]
        ELSE CASE k = "cluster" -> c.cluster [] k = "service" -> Key[s] [] k = "uid" -> s]

MutGetLabelsOnlyExtra(c, s) ==
    IF c.extra # <<>> THEN c.extra
    ELSE [k \in BuiltIn |-> CASE k = "cluster" -> c.cluster [] k = "service" -> Key[s] [] k = "uid" -> s]

(* GetLabelsForVpcLoadbalancer: additional labels never replace a built-in *)
(* one.                                                                    *)
GetLabels(c, s) ==
    [k \in BuiltIn \cup DOMAIN c.extra |->
        CASE k = "cluster" -> c.cluster [] k = "service" -> Key[s] [] k = "uid" -> s
          [] OTHER -> c.extra[k]]

Labels(s) == GetLabels(config[Home[s]], s)

(* Every expected label has its value; a missing one counts as empty.      *)
MatchLabels(expected, actual) ==
    \A k \in DOMAIN expected :
        expected[k] = IF k \in DOMAIN actual THEN actual[k] ELSE ""

(* The API's own label filter takes a missing label for a mismatch.        *)
LabelFilter(expected, actual) ==
    \A k \in DOMAIN expected : k \in DOMAIN actual /\ actual[k] = expected[k]

Of(kind) == {i \in DOMAIN objects : objects[i].kind = kind}

(* Mutant: without the fallback.                                           *)
MutFetch(s) == {i \in Of("lb") : MatchLabels(Labels(s), objects[i].labels)}

(* fetchVpcLoadbalancerFromCloud; the list has no promised order.          *)
Fetch(s) ==
    LET byLabels == {i \in Of("lb") : MatchLabels(Labels(s), objects[i].labels)}
        byName == {i \in Of("lb") : objects[i].name = s}
    IN IF byLabels # {} THEN byLabels ELSE byName

ListTargetGroups(s) == {i \in Of("tg") : LabelFilter(Labels(s), objects[i].labels)}

FindManagedSecurityGroup(s) ==
    {i \in Of("sg") : /\ LabelFilter(Labels(s), objects[i].labels)
                      /\ MatchLabels(Labels(s), objects[i].labels)}

Referenced(i) == \E l \in Of("lb") : objects[l].tg = i

-----------------------------------------------------------------------------
NoJob == [lb |-> None, tg |-> None, sg |-> None]

Init ==
    /\ config \in [Clusters -> Configs] /\ objects = <<>> /\ created = [s \in Services |-> 0]
    /\ phase = [s \in Services |-> "active"]
    /\ pc = [s \in Services |-> "idle"] /\ job = [s \in Services |-> NoJob]
    /\ settled = [s \in Services |-> FALSE] /\ relabelled = [s \in Services |-> FALSE]
    /\ abandoned = [s \in Services |-> FALSE] /\ restarts = [c \in Clusters |-> 0]

Goto(s, step, j) == pc' = [pc EXCEPT ![s] = step] /\ job' = [job EXCEPT ![s] = j]
Service == <<config, phase, settled, relabelled, abandoned, restarts>>

With(f, x, v) == [y \in DOMAIN f \cup {x} |-> IF y = x THEN v ELSE f[y]]

Create(s, kind, sg) ==
    /\ created[s] < MaxObjects /\ created' = [created EXCEPT ![s] = @ + 1]
    /\ objects' = With(objects, <<s, created'[s]>>,
                       [kind |-> kind, name |-> s, labels |-> Labels(s), tg |-> None, sg |-> sg])

(* EnsureLoadBalancer                                                      *)

EnsureFetches(s) ==
    /\ pc[s] = "idle" /\ phase[s] = "active" /\ ~settled[s]
    /\ \/ Fetch(s) = {} /\ Goto(s, "group", NoJob)
       \/ \E i \in Fetch(s) : Goto(s, "targets", [NoJob EXCEPT !.lb = i])
    /\ UNCHANGED <<Service, objects, created>>

(* createVpcLoadbalancer: the security group, then the load balancer.      *)
EnsureManagedSecurityGroup(s) ==
    /\ pc[s] = "group"
    /\ \/ \E g \in FindManagedSecurityGroup(s) :
            /\ objects' = [objects EXCEPT ![g].labels = Labels(s)]
            /\ Goto(s, "create", [job[s] EXCEPT !.sg = g]) /\ UNCHANGED created
       \/ /\ FindManagedSecurityGroup(s) = {} /\ Create(s, "sg", None)
          /\ Goto(s, "create", [job[s] EXCEPT !.sg = <<s, created'[s]>>])
    /\ UNCHANGED Service

CreateLoadbalancer(s) ==
    /\ pc[s] = "create" /\ Create(s, "lb", job[s].sg)
    /\ Goto(s, "targets", [job[s] EXCEPT !.lb = <<s, created'[s]>>])
    /\ UNCHANGED Service

(* createOrUpdateTargetGroups: the listed ones are given the labels of     *)
(* today; the listener takes the first that matches.                       *)
CreateOrUpdateTargetGroups(s) ==
    /\ pc[s] = "targets"
    /\ \/ \E t \in ListTargetGroups(s) :
            /\ objects' = [i \in DOMAIN objects |-> IF i \in ListTargetGroups(s)
                            THEN [objects[i] EXCEPT !.labels = Labels(s)] ELSE objects[i]]
            /\ Goto(s, "listener", [job[s] EXCEPT !.tg = t]) /\ UNCHANGED created
       \/ /\ ListTargetGroups(s) = {} /\ Create(s, "tg", None)
          /\ Goto(s, "listener", [job[s] EXCEPT !.tg = <<s, created'[s]>>])
    /\ UNCHANGED Service

(* Mutant: a listener that exists is left as it is.                        *)
MutUpdateListener(s) ==
    /\ pc[s] = "listener" /\ Goto(s, "update", job[s])
    /\ objects' = [objects EXCEPT ![job[s].lb].tg = IF @ = None THEN job[s].tg ELSE @]
    /\ UNCHANGED <<Service, created>>

(* updateVpcLoadbalancerListener: created or pointed at the target group.  *)
UpdateListener(s) ==
    /\ pc[s] = "listener" /\ Goto(s, "update", job[s])
    /\ objects' = [objects EXCEPT ![job[s].lb].tg = job[s].tg]
    /\ UNCHANGED <<Service, created>>

(* updateVpcLoadbalancer: finds or creates the security group, attaches    *)
(* it, and leaves the load balancer's labels as they are.                  *)
UpdateLoadbalancer(s) ==
    /\ pc[s] = "update"
    /\ \/ \E g \in FindManagedSecurityGroup(s) :
            /\ objects' = [objects EXCEPT ![job[s].lb].sg = g, ![g].labels = Labels(s)]
            /\ Goto(s, "idle", NoJob)
            /\ settled' = [settled EXCEPT ![s] = phase[s] = "active"]
            /\ UNCHANGED created
       \/ /\ FindManagedSecurityGroup(s) = {} /\ Create(s, "sg", None)
          /\ pc' = pc /\ job' = job /\ UNCHANGED settled
    /\ UNCHANGED <<config, phase, relabelled, abandoned, restarts>>

(* EnsureLoadBalancerDeleted                                               *)

(* The Service is gone when no load balancer is found.                     *)
DeleteFetches(s) ==
    /\ pc[s] = "idle" /\ phase[s] = "deleting"
    /\ \/ /\ Fetch(s) = {} /\ phase' = [phase EXCEPT ![s] = "gone"]
          /\ UNCHANGED <<pc, job>>
       \/ /\ \E i \in Fetch(s) : Goto(s, "unused", [NoJob EXCEPT !.lb = i])
          /\ UNCHANGED phase
    /\ UNCHANGED <<config, objects, created, settled, relabelled, abandoned, restarts>>

Delete(S) == objects' = Restrict(objects, DOMAIN objects \ S)

(* Mutant: target groups are deleted under their listeners.                *)
MutCleanupUnusedTargetGroups(s) ==
    /\ pc[s] = "unused" /\ Goto(s, "remove", job[s])
    /\ Delete(ListTargetGroups(s))
    /\ UNCHANGED <<Service, created>>

CleanupUnusedTargetGroups(s) ==
    /\ pc[s] = "unused" /\ Goto(s, "remove", job[s])
    /\ Delete({i \in ListTargetGroups(s) : ~Referenced(i)})
    /\ UNCHANGED <<Service, created>>

(* The load balancer goes with its listeners, and the poll sees it gone.   *)
DeleteLoadbalancer(s) ==
    /\ pc[s] = "remove" /\ Goto(s, "purge", job[s])
    /\ Delete({job[s].lb})
    /\ UNCHANGED <<Service, created>>

(* Mutant: the target groups are taken for cleaned up.                     *)
MutPurge(s) ==
    /\ pc[s] = "purge" /\ Fetch(s) = {} /\ Goto(s, "idle", NoJob)
    /\ \E S \in SUBSET FindManagedSecurityGroup(s) :
         /\ Cardinality(S) = IF FindManagedSecurityGroup(s) = {} THEN 0 ELSE 1
         /\ Delete(S)
    /\ phase' = [phase EXCEPT ![s] = "gone"]
    /\ UNCHANGED <<config, created, settled, relabelled, abandoned, restarts>>

(* The remaining target groups, and the first security group found.        *)
Purge(s) ==
    /\ pc[s] = "purge" /\ Fetch(s) = {} /\ Goto(s, "idle", NoJob)
    /\ \E S \in SUBSET FindManagedSecurityGroup(s) :
         /\ Cardinality(S) = IF FindManagedSecurityGroup(s) = {} THEN 0 ELSE 1
         /\ Delete(S \cup {i \in ListTargetGroups(s) : ~Referenced(i)})
    /\ phase' = [phase EXCEPT ![s] = "gone"]
    /\ UNCHANGED <<config, created, settled, relabelled, abandoned, restarts>>

Ensure(s) ==
    \/ EnsureFetches(s) \/ EnsureManagedSecurityGroup(s) \/ CreateLoadbalancer(s)
    \/ CreateOrUpdateTargetGroups(s) \/ UpdateListener(s) \/ UpdateLoadbalancer(s)

EnsureDeleted(s) ==
    DeleteFetches(s) \/ CleanupUnusedTargetGroups(s) \/ DeleteLoadbalancer(s) \/ Purge(s)

-----------------------------------------------------------------------------
DeleteService(s) ==
    /\ phase[s] = "active" /\ phase' = [phase EXCEPT ![s] = "deleting"]
    /\ settled' = [settled EXCEPT ![s] = FALSE]
    /\ UNCHANGED <<config, objects, created, pc, job, relabelled, abandoned, restarts>>

(* The provider of a cluster starts again, between any two calls and with  *)
(* any configuration, and works on all its Services afresh.                *)
Restart(c) ==
    /\ restarts[c] < MaxRestarts[c] /\ restarts' = [restarts EXCEPT ![c] = @ + 1]
    /\ \E f \in Configs :
         /\ config' = [config EXCEPT ![c] = f]
         /\ relabelled' = [s \in Services |->
                relabelled[s] \/ (Home[s] = c /\ GetLabels(f, s) # Labels(s))]
    /\ abandoned' = [s \in Services |-> abandoned[s] \/ (Home[s] = c /\ pc[s] = "purge")]
    /\ pc' = [s \in Services |-> IF Home[s] = c THEN "idle" ELSE pc[s]]
    /\ job' = [s \in Services |-> IF Home[s] = c THEN NoJob ELSE job[s]]
    /\ settled' = [s \in Services |-> settled[s] /\ Home[s] # c]
    /\ UNCHANGED <<objects, created, phase>>

Next ==
    \/ \E s \in Services : Ensure(s) \/ EnsureDeleted(s) \/ DeleteService(s)
    \/ \E c \in Clusters : Restart(c)

Spec == Init /\ [][Next]_vars

-----------------------------------------------------------------------------
(* Properties                                                              *)

(* A Service never has two load balancers: the name finds the one whose    *)
(* labels were made under another configuration, or a job cut short made.  *)
OneLoadBalancerPerService ==
    \A i, k \in Of("lb") : Owner(i) = Owner(k) => i = k

(* A job changes or deletes only objects created for its own Service,      *)
(* although Services of two clusters may have the same name in clusters    *)
(* configured with the same cluster name, and additional labels may use    *)
(* the keys of built-in ones.                                              *)
OnlyOwnObjects ==
    [][\A s \in Services : <<pc[s], phase[s]>>' # <<pc[s], phase[s]>> =>
          \A i \in DOMAIN objects :
              i \notin DOMAIN objects' \/ objects'[i] # objects[i] => Owner(i) = s]_vars

(* A listener's target group and the attached security group exist and     *)
(* were created for the same Service as the load balancer.                 *)
BackedByOwnObjects ==
    \A l \in Of("lb") : \A i \in {objects[l].tg, objects[l].sg} \ {None} :
        i \in DOMAIN objects /\ Owner(i) = Owner(l)

(* An ensured Service is served by a target group and guarded by a         *)
(* security group that carry the labels of the present configuration, so   *)
(* that the next job finds them, also when the load balancer was made      *)
(* under other labels.                                                     *)
SettledUnderPresentLabels ==
    \A s \in Services : settled[s] =>
        \E l \in Of("lb") :
            /\ Owner(l) = s
            /\ objects[l].tg \in ListTargetGroups(s)
            /\ objects[l].sg \in FindManagedSecurityGroup(s)

(* A Service that kept its labels all its life leaves no target group      *)
(* behind, wherever restarts cut its jobs short, with one exception: after *)
(* the load balancer's deletion and before the clean-up behind it, for the *)
(* deletion that follows finds no load balancer and returns at once (the   *)
(* same happens when a call fails there, see GoneLeavesNoTargetGroup).     *)
GoneLeavesNoTargetGroups ==
    \A s \in Services : phase[s] = "gone" /\ ~relabelled[s] /\ ~abandoned[s] =>
        \A i \in Of("tg") : Owner(i) # s
=============================================================================
