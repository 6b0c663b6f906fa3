----------------------------- MODULE Reconcile ------------------------------
(***************************************************************************)
(* The load balancer of one Service, at the granularity of cloud API       *)
(* calls: pkg/provider/loadbalancer.go with its target group, listener and *)
(* security group helpers, driven by the Kubernetes service controller.    *)
(*                                                                         *)
(*   Controller  the service controller's worker for this Service: it runs *)
(*               EnsureLoadBalancer, or GetLoadBalancer and                *)
(*               EnsureLoadBalancerDeleted, and owns finalizer and status; *)
(*   Updaters    the goroutines that call UpdateLoadBalancer on the same   *)
(*               Service without any lock shared with the Controller: the  *)
(*               resync queue processor.                                   *)
(*                                                                         *)
(* A worker remembers what it read (mem) and acts on it later, so its view *)
(* goes stale when another worker moves.  Every call may fail without      *)
(* effect (CallFails), take effect and lose its answer (Lost), and the     *)
(* process may crash between any two calls (Crash); MaxFaults bounds all   *)
(* three together.  MaxChanges bounds what users do to Service and nodes.  *)
(*                                                                         *)
(* The cloud is modelled from how the code uses it: a call that names an   *)
(* object that is gone is refused; load balancers are provisioned and      *)
(* deleted in the background; nothing else is enforced, in particular a    *)
(* target group can be deleted under a listener.                           *)
(***************************************************************************)
EXTENDS DesiredState, FiniteSets

CONSTANTS
    Controller,     \* the service controller's worker
    Updaters,       \* the other callers of UpdateLoadBalancer
    Specs,          \* the Service specs a user may write
    NodeSets,       \* the node sets a reconcile may be handed
    UserGroups,     \* security groups of the user that exist in the VPC
    Ids,            \* identities the cloud hands out, a set of naturals
    None,           \* "no identity"
    MaxChanges, MaxFaults

Workers == {Controller} \cup Updaters

ASSUME WorkersAssumption == Controller \notin Updaters
ASSUME IdsAssumption == Ids \subseteq Nat /\ None \notin Ids
ASSUME SpecsAssumption == \A s \in Specs : s \in SpecType /\ ValidSpec(s)
ASSUME BoundsAssumption == MaxChanges \in Nat /\ MaxFaults \in Nat

VARIABLES
    \* Kubernetes
    svc,            \* the Service object: [phase, spec]
    nodes,          \* the nodes a reconcile starting now is handed
    finalizer,      \* the load balancer cleanup finalizer is on the Service
    published,      \* status.loadBalancer carries an address (while there is a Service)
    dirty,          \* the Service's key is in the service controller's queue
    changes, faults,
    \* the cloud
    lbs, tgs, listeners, sgs,
    \* the workers
    pc, job, mem

kube == <<svc, nodes, finalizer, published, changes>>
cloud == <<lbs, tgs, listeners, sgs>>
vars == <<svc, nodes, finalizer, published, dirty, changes, faults,
          lbs, tgs, listeners, sgs, pc, job, mem>>

Nothing == [x \in {} |-> None]
Put(f, k, v) == [x \in DOMAIN f \cup {k} |-> IF x = k THEN v ELSE f[x]]
Drop(f, S) == Restrict(f, DOMAIN f \ S)

NoSpec == [ports |-> <<>>, groups |-> {}, managed |-> FALSE]
NoJob == [op |-> "none", spec |-> NoSpec, nodes |-> {}, alone |-> FALSE]
NoGroups == [user |-> {}, managed |-> None]

(* lb, groups, addr: the load balancer object the worker holds; made: it   *)
(* was created by this very call.  mk, up, rm: what the current loop still *)
(* has to create, update and remove.  att: the target group whose servers  *)
(* are set next.  got: what createOrUpdateTargetGroups returns.  sg: the   *)
(* managed security group found.                                           *)
NoMem == [lb |-> None, groups |-> NoGroups, addr |-> FALSE, made |-> FALSE,
          mk |-> {}, up |-> {}, rm |-> {}, att |-> None, got |-> {},
          sg |-> None]

Phases == {"active", "clusterIP", "deleting", "gone"}
Ops == {"none", "ensure", "update", "delete"}
Labels == {"idle", "exists", "fetch", "list", "groups", "listeners", "sweep", "unused",
           "create", "group", "createLb", "updateLb", "updated", "poll", "wait", "gone",
           "purge", "release", "publish"}

MaybeId == Ids \cup {None}
Keys == {"tcp", "udp"} \X Nat
PortLabels == Nat \X {"tcp", "udp"}
GroupsType == [user : SUBSET STRING, managed : MaybeId]
LbType == [status : {"creating", "ready", "deleting"}, addr : BOOLEAN, groups : GroupsType]
TgType == [key : Keys, label : PortLabels, nodes : NodeSets \cup {{}}]
ListenerType == [lb : Ids, port : Nat, proto : {"tcp", "udp"}, tg : Ids]
SgType == [rules : SUBSET PortType]
JobType == [op : Ops, spec : Specs \cup {NoSpec}, nodes : NodeSets \cup {{}}, alone : BOOLEAN]
MemType == [lb : MaybeId, groups : GroupsType, addr : BOOLEAN, made : BOOLEAN,
            mk : SUBSET PortType, up : SUBSET Ids, rm : SUBSET Ids, att : MaybeId,
            got : SUBSET [id : Ids, key : Keys, label : PortLabels], sg : MaybeId]

Objects(f, T) == DOMAIN f \subseteq Ids /\ f \in [DOMAIN f -> T]

KubeOK ==
    /\ svc \in [phase : Phases, spec : Specs] /\ nodes \in NodeSets
    /\ finalizer \in BOOLEAN /\ published \in BOOLEAN /\ changes \in 0..MaxChanges

CloudOK ==
    /\ Objects(lbs, LbType) /\ Objects(tgs, TgType)
    /\ Objects(listeners, ListenerType) /\ Objects(sgs, SgType)

WorkersOK ==
    /\ dirty \in BOOLEAN /\ faults \in 0..MaxFaults
    /\ pc \in [Workers -> Labels]
    /\ job \in [Workers -> JobType]
    /\ mem \in [Workers -> MemType]

(* The type invariant: the shape of the Service, of the cloud's objects    *)
(* and of what each worker holds.                                          *)
TypeOK == KubeOK /\ CloudOK /\ WorkersOK

(* An identity nobody uses or remembers: the cloud never reuses one.  The  *)
(* least is taken, identities having no other meaning.                     *)
FreshIds(used) == {i \in Ids \ used : \A j \in Ids \ used : i =< j}
Remembered == UNION {mem[w].up \cup mem[w].rm \cup {mem[w].lb, mem[w].att, mem[w].sg}
                       \cup {t.id : t \in mem[w].got} : w \in Workers}
FreshLb == FreshIds(DOMAIN lbs \cup {mem[w].lb : w \in Workers})
FreshTg == FreshIds(DOMAIN tgs \cup Remembered \cup {listeners[l].tg : l \in DOMAIN listeners})
FreshListener == FreshIds(DOMAIN listeners \cup Remembered)
FreshSg == FreshIds(DOMAIN sgs \cup {mem[w].sg : w \in Workers}
                      \cup {lbs[l].groups.managed : l \in DOMAIN lbs})

Init ==
    /\ svc \in [phase : {"active"}, spec : Specs]
    /\ nodes \in NodeSets
    /\ finalizer = FALSE /\ published = FALSE /\ dirty = TRUE
    /\ changes = 0 /\ faults = 0
    /\ lbs = Nothing /\ tgs = Nothing /\ listeners = Nothing /\ sgs = Nothing
    /\ pc = [w \in Workers |-> "idle"]
    /\ job = [w \in Workers |-> NoJob]
    /\ mem = [w \in Workers |-> NoMem]

-----------------------------------------------------------------------------
(* How a worker's step ends.                                               *)

Goto(w, label, m) ==
    /\ pc' = [pc EXCEPT ![w] = label]
    /\ mem' = [mem EXCEPT ![w] = m]
    /\ UNCHANGED <<job, dirty, faults>>

Rest(w) ==
    /\ pc' = [pc EXCEPT ![w] = "idle"]
    /\ job' = [job EXCEPT ![w] = NoJob]
    /\ mem' = [mem EXCEPT ![w] = NoMem]

Return(w) == Rest(w) /\ UNCHANGED <<dirty, faults>>

(* The call returns an error: the service controller puts its key back     *)
(* with AddRateLimited; the resync processor does the same in a queue of   *)
(* its own, from which StartResync may take it at any time.                *)
Abort(w) == Rest(w) /\ dirty' = (dirty \/ w = Controller) /\ UNCHANGED faults

(* The cloud performed the call and its answer was lost.                   *)
Lost(w) ==
    /\ faults < MaxFaults /\ faults' = faults + 1
    /\ Rest(w) /\ dirty' = (dirty \/ w = Controller)

Answered(w, label, m) == Goto(w, label, m) \/ Lost(w)

-----------------------------------------------------------------------------
(* Starting a job.  `alone' is a history flag: no job of another worker    *)
(* has overlapped with this one so far.                                    *)

Begin(w, label, op) ==
    /\ pc[w] = "idle"
    /\ pc' = [pc EXCEPT ![w] = label]
    /\ job' = [x \in Workers |->
                 IF x = w THEN [op |-> op, spec |-> svc.spec, nodes |-> nodes,
                                alone |-> \A y \in Workers \ {w} : pc[y] = "idle"]
                 ELSE [job[x] EXCEPT !.alone = FALSE]]
    /\ UNCHANGED <<svc, nodes, published, changes, faults, cloud, mem>>

(* Mutant: the finalizer is left to a later sync.                          *)
MutStartSync ==
    /\ dirty /\ dirty' = FALSE
    /\ \/ svc.phase = "active" /\ Begin(Controller, "fetch", "ensure")
       \/ svc.phase \in {"clusterIP", "deleting"} /\ Begin(Controller, "exists", "delete")
    /\ finalizer' = (finalizer \/ (svc.phase = "active" /\ DOMAIN lbs # {}))

(* syncLoadBalancerIfNeeded: ensure when the Service wants a load balancer *)
(* (adding the finalizer first), clean up when it does not.                *)
StartSync ==
    /\ dirty /\ dirty' = FALSE
    /\ \/ /\ svc.phase = "active"
          /\ Begin(Controller, "fetch", "ensure") /\ finalizer' = TRUE
       \/ /\ svc.phase \in {"clusterIP", "deleting"}
          /\ Begin(Controller, "exists", "delete") /\ UNCHANGED finalizer

(* processServiceResync reads the live Service and checks its type; it     *)
(* does not look at the deletion timestamp.                                *)
StartResync(w) ==
    /\ svc.phase \in {"active", "deleting"}
    /\ Begin(w, "fetch", "update")
    /\ UNCHANGED <<dirty, finalizer>>

(* Mutant: a load balancer that is being deleted counts as gone.           *)
MutGetLoadBalancer(w) ==
    /\ pc[w] = "exists"
    /\ Goto(w, IF \A l \in DOMAIN lbs : lbs[l].status = "deleting" THEN "release" ELSE "fetch",
            mem[w])
    /\ UNCHANGED <<kube, cloud>>

(* GetLoadBalancer, which the service controller asks before it deletes:   *)
(* with no load balancer EnsureLoadBalancerDeleted is not called at all.   *)
GetLoadBalancer(w) ==
    /\ pc[w] = "exists"
    /\ Goto(w, IF DOMAIN lbs = {} THEN "release" ELSE "fetch", mem[w])
    /\ UNCHANGED <<kube, cloud>>

(* fetchVpcLoadbalancerFromCloud, and what each caller does with nil.      *)
FetchNothing(w) ==
    CASE job[w].op = "ensure" -> Goto(w, "create", mem[w])
      [] job[w].op = "delete" -> Goto(w, "release", mem[w])
      [] OTHER                -> Abort(w)

(* Mutant: only load balancers that are ready are found.                   *)
MutFetchLoadBalancer(w) ==
    /\ pc[w] = "fetch"
    /\ LET found == {l \in DOMAIN lbs : lbs[l].status = "ready"} IN
       \/ found = {} /\ FetchNothing(w)
       \/ \E l \in found :
            Goto(w, IF job[w].op = "delete" THEN "sweep" ELSE "list",
                 [mem[w] EXCEPT !.lb = l, !.groups = lbs[l].groups, !.addr = lbs[l].addr])
    /\ UNCHANGED <<kube, cloud>>

FetchLoadBalancer(w) ==
    /\ pc[w] = "fetch"
    /\ \/ DOMAIN lbs = {} /\ FetchNothing(w)
       \/ \E l \in DOMAIN lbs :
            Goto(w, IF job[w].op = "delete" THEN "sweep" ELSE "list",
                 [mem[w] EXCEPT !.lb = l, !.groups = lbs[l].groups, !.addr = lbs[l].addr])
    /\ UNCHANGED <<kube, cloud>>

-----------------------------------------------------------------------------
(* createOrUpdateTargetGroups                                              *)

ListTargetGroups(w) ==
    /\ pc[w] = "list"
    /\ LET spec == job[w].spec
           have == {tgs[t].key : t \in DOMAIN tgs}
       IN Goto(w, "groups",
            [mem[w] EXCEPT !.mk = {p \in Ports(spec) : Key(p) \notin have},
                           !.up = {t \in DOMAIN tgs : tgs[t].key \in DesiredKeys(spec)}])
    /\ UNCHANGED <<kube, cloud>>

(* Mutant: servers are attached on updates only.                           *)
MutCreateTargetGroup(w) ==
    /\ pc[w] = "groups" /\ mem[w].att = None
    /\ \E p \in mem[w].mk, t \in FreshTg :
         /\ tgs' = Put(tgs, t, [key |-> Key(p), label |-> Label(p), nodes |-> {}])
         /\ Answered(w, "groups",
              [mem[w] EXCEPT !.mk = @ \ {p},
                             !.got = @ \cup {[id |-> t, key |-> Key(p), label |-> Label(p)]}])
    /\ UNCHANGED <<kube, lbs, listeners, sgs>>

CreateTargetGroup(w) ==
    /\ pc[w] = "groups" /\ mem[w].att = None
    /\ \E p \in mem[w].mk, t \in FreshTg :
         /\ tgs' = Put(tgs, t, [key |-> Key(p), label |-> Label(p), nodes |-> {}])
         /\ Answered(w, "groups",
              [mem[w] EXCEPT !.mk = @ \ {p}, !.att = t,
                             !.got = @ \cup {[id |-> t, key |-> Key(p), label |-> Label(p)]}])
    /\ UNCHANGED <<kube, lbs, listeners, sgs>>

(* Mutant: an update leaves the target group's labels as they were.        *)
MutUpdateTargetGroup(w) ==
    /\ pc[w] = "groups" /\ mem[w].att = None /\ mem[w].mk = {}
    /\ \E t \in mem[w].up :
         IF t \in DOMAIN tgs
         THEN /\ Answered(w, "groups",
                   [mem[w] EXCEPT !.up = @ \ {t}, !.att = t,
                                  !.got = @ \cup {[id |-> t, key |-> tgs[t].key,
                                                   label |-> tgs[t].label]}])
              /\ UNCHANGED tgs
         ELSE Abort(w) /\ UNCHANGED tgs
    /\ UNCHANGED <<kube, lbs, listeners, sgs>>

UpdateTargetGroup(w) ==
    /\ pc[w] = "groups" /\ mem[w].att = None /\ mem[w].mk = {}
    /\ \E t \in mem[w].up :
         IF t \in DOMAIN tgs
         THEN \E p \in TargetGroupByKey(job[w].spec, tgs[t].key) :
              /\ tgs' = [tgs EXCEPT ![t].label = Label(p)]
              /\ Answered(w, "groups",
                   [mem[w] EXCEPT !.up = @ \ {t}, !.att = t,
                                  !.got = @ \cup {[id |-> t, key |-> Key(p), label |-> Label(p)]}])
         ELSE Abort(w) /\ UNCHANGED tgs
    /\ UNCHANGED <<kube, lbs, listeners, sgs>>

(* Mutant: the servers are added to those attached already.                *)
MutSetAttachments(w) ==
    /\ pc[w] = "groups" /\ mem[w].att # None
    /\ IF mem[w].att \in DOMAIN tgs
       THEN /\ tgs' = [tgs EXCEPT ![mem[w].att].nodes = @ \cup job[w].nodes]
            /\ Answered(w, "groups", [mem[w] EXCEPT !.att = None])
       ELSE Abort(w) /\ UNCHANGED tgs
    /\ UNCHANGED <<kube, lbs, listeners, sgs>>

(* upgradeTargetGroupAttachments: the whole set is replaced.               *)
SetAttachments(w) ==
    /\ pc[w] = "groups" /\ mem[w].att # None
    /\ IF mem[w].att \in DOMAIN tgs
       THEN /\ tgs' = [tgs EXCEPT ![mem[w].att].nodes = job[w].nodes]
            /\ Answered(w, "groups", [mem[w] EXCEPT !.att = None])
       ELSE Abort(w) /\ UNCHANGED tgs
    /\ UNCHANGED <<kube, lbs, listeners, sgs>>

TargetGroupsDone(w) ==
    pc[w] = "groups" /\ mem[w].mk = {} /\ mem[w].up = {} /\ mem[w].att = None

-----------------------------------------------------------------------------
(* updateVpcLoadbalancerListener: both Go maps are keyed by port number.   *)

(* Mutants of the plan drawn from the list of listeners: the existing ones *)
(* are not consulted before creating; all are deleted and created anew;    *)
(* missing ones are created for a new load balancer only.                  *)
MutPlan(w, rm(_), up(_), mk(_)) ==
    /\ TargetGroupsDone(w)
    /\ LET mine == {l \in DOMAIN listeners : listeners[l].lb = mem[w].lb}
       IN Goto(w, "listeners", [mem[w] EXCEPT !.rm = rm(mine), !.up = up(mine), !.mk = mk(mine)])
    /\ UNCHANGED <<kube, cloud>>

MutKept(w, mine) == {l \in mine : listeners[l].port \in DesiredNumbers(job[w].spec)}

MutListListenersDuplicate(w) ==
    MutPlan(w, LAMBDA mine : mine \ MutKept(w, mine), LAMBDA mine : MutKept(w, mine),
            LAMBDA mine : Ports(job[w].spec))

MutListListenersRecreate(w) ==
    MutPlan(w, LAMBDA mine : mine, LAMBDA mine : {}, LAMBDA mine : Ports(job[w].spec))

MutListListenersInitialOnly(w) ==
    MutPlan(w, LAMBDA mine : mine \ MutKept(w, mine), LAMBDA mine : MutKept(w, mine),
            LAMBDA mine : IF mine = {} THEN Ports(job[w].spec) ELSE {})

ListListeners(w) ==
    /\ TargetGroupsDone(w)
    /\ IF mem[w].lb \in DOMAIN lbs
       THEN LET mine == {l \in DOMAIN listeners : listeners[l].lb = mem[w].lb}
                kept == {l \in mine : listeners[l].port \in DesiredNumbers(job[w].spec)}
                have == {listeners[l].port : l \in mine}
            IN Goto(w, "listeners",
                 [mem[w] EXCEPT !.rm = mine \ kept, !.up = kept,
                                !.mk = {p \in Ports(job[w].spec) : p.port \notin have}])
       ELSE Abort(w)
    /\ UNCHANGED <<kube, cloud>>

DeleteListener(w) ==
    /\ pc[w] = "listeners"
    /\ \E l \in mem[w].rm :
         IF l \in DOMAIN listeners
         THEN /\ listeners' = Drop(listeners, {l})
              /\ Answered(w, "listeners", [mem[w] EXCEPT !.rm = @ \ {l}])
         ELSE Abort(w) /\ UNCHANGED listeners
    /\ UNCHANGED <<kube, lbs, tgs, sgs>>

UpdateListener(w) ==
    /\ pc[w] = "listeners"
    /\ \E l \in mem[w].up :
         IF l \in DOMAIN listeners
         THEN \E p \in ListenerByNumber(job[w].spec, listeners[l].port) :
              IF TargetGroupsFor(p, mem[w].got) = {}
              THEN Goto(w, "listeners", [mem[w] EXCEPT !.up = @ \ {l}]) /\ UNCHANGED listeners
              ELSE \E t \in TargetGroupsFor(p, mem[w].got) :
                     IF t.id \in DOMAIN tgs
                     THEN /\ listeners' = [listeners EXCEPT ![l].proto = p.proto, ![l].tg = t.id]
                          /\ Answered(w, "listeners", [mem[w] EXCEPT !.up = @ \ {l}])
                     ELSE Abort(w) /\ UNCHANGED listeners
         ELSE Abort(w) /\ UNCHANGED listeners
    /\ UNCHANGED <<kube, lbs, tgs, sgs>>

CreateListener(w) ==
    /\ pc[w] = "listeners" /\ mem[w].rm = {} /\ mem[w].up = {}
    /\ \E p \in mem[w].mk :
         LET m == [mem[w] EXCEPT !.mk = @ \ {p}] IN
         IF TargetGroupsFor(p, mem[w].got) = {}
         THEN Goto(w, "listeners", m) /\ UNCHANGED listeners
         ELSE \E t \in TargetGroupsFor(p, mem[w].got), l \in FreshListener :
                IF t.id \in DOMAIN tgs /\ mem[w].lb \in DOMAIN lbs
                THEN /\ listeners' = Put(listeners, l, [lb |-> mem[w].lb, port |-> p.port,
                                                        proto |-> p.proto, tg |-> t.id])
                     /\ Answered(w, "listeners", m)
                ELSE Abort(w) /\ UNCHANGED listeners
    /\ UNCHANGED <<kube, lbs, tgs, sgs>>

ListenersDone(w) ==
    pc[w] = "listeners" /\ mem[w].mk = {} /\ mem[w].up = {} /\ mem[w].rm = {}

-----------------------------------------------------------------------------
(* cleanupUnusedTargetGroups, with the returned groups as the desired ones *)
(* in an update and with none of them when the load balancer is deleted.   *)

(* Mutant: listeners are not looked at.                                    *)
MutUnreferenced == DOMAIN tgs

Unreferenced == {t \in DOMAIN tgs : \A l \in DOMAIN listeners : listeners[l].tg # t}

UnusedTargetGroups(w) ==
    {t \in Unreferenced : \A g \in mem[w].got : g.key # tgs[t].key}

ListUnusedTargetGroups(w) ==
    /\ ListenersDone(w) \/ pc[w] = "sweep"
    /\ Goto(w, "unused", [mem[w] EXCEPT !.rm = UnusedTargetGroups(w)])
    /\ UNCHANGED <<kube, cloud>>

DeleteTargetGroup(w) ==
    /\ pc[w] \in {"unused", "purge"}
    /\ \E t \in mem[w].rm :
         IF t \in DOMAIN tgs
         THEN /\ tgs' = Drop(tgs, {t})
              /\ Answered(w, pc[w], [mem[w] EXCEPT !.rm = @ \ {t}])
         ELSE Abort(w) /\ UNCHANGED tgs
    /\ UNCHANGED <<kube, lbs, listeners, sgs>>

-----------------------------------------------------------------------------
(* createVpcLoadbalancer and updateVpcLoadbalancer: security groups first. *)

AfterGroups(w) == IF mem[w].lb = None THEN "createLb" ELSE "updateLb"

ListSecurityGroups(w) ==
    /\ \/ pc[w] = "create"
       \/ pc[w] = "unused" /\ mem[w].rm = {} /\ job[w].op # "delete"
    /\ IF ~(job[w].spec.groups \subseteq UserGroups) THEN Abort(w)
       ELSE IF ~job[w].spec.managed THEN Goto(w, AfterGroups(w), mem[w])
       ELSE IF DOMAIN sgs = {} THEN Goto(w, "group", mem[w])
       ELSE \E s \in DOMAIN sgs : Goto(w, "group", [mem[w] EXCEPT !.sg = s])
    /\ UNCHANGED <<kube, cloud>>

(* ensureManagedSecurityGroup creates the group or overwrites its rules.   *)
(* A rule set is named by the ports it is built from; which sources each   *)
(* port contributes is left out.                                           *)
EnsureManagedSecurityGroup(w) ==
    /\ pc[w] = "group"
    /\ IF mem[w].sg = None
       THEN \E s \in FreshSg :
              /\ sgs' = Put(sgs, s, [rules |-> Ports(job[w].spec)])
              /\ Answered(w, AfterGroups(w), [mem[w] EXCEPT !.sg = s])
       ELSE IF mem[w].sg \in DOMAIN sgs
       THEN /\ sgs' = [sgs EXCEPT ![mem[w].sg].rules = Ports(job[w].spec)]
            /\ Answered(w, AfterGroups(w), mem[w])
       ELSE Abort(w) /\ UNCHANGED sgs
    /\ UNCHANGED <<kube, lbs, tgs, listeners>>

WantedGroups(w) == [user |-> job[w].spec.groups, managed |-> mem[w].sg]

CreateLoadbalancer(w) ==
    /\ pc[w] = "createLb"
    /\ \E l \in FreshLb :
         /\ lbs' = Put(lbs, l, [status |-> "creating", addr |-> FALSE, groups |-> WantedGroups(w)])
         /\ Answered(w, "list", [mem[w] EXCEPT !.lb = l, !.made = TRUE,
                                               !.groups = WantedGroups(w), !.sg = None])
    /\ UNCHANGED <<kube, tgs, listeners, sgs>>

(* Only a created load balancer is polled; an existing one returns at once *)
(* with the addresses of the object fetched at the start.                  *)
AfterUpdate(w) ==
    IF mem[w].made THEN "poll" ELSE IF job[w].op = "ensure" THEN "publish" ELSE "updated"

(* Mutant: only the user's groups decide whether an update is needed.      *)
MutUpdateLoadbalancer(w) ==
    /\ pc[w] = "updateLb"
    /\ IF WantedGroups(w).user = mem[w].groups.user
       THEN Goto(w, AfterUpdate(w), mem[w]) /\ UNCHANGED lbs
       ELSE IF mem[w].lb \in DOMAIN lbs
       THEN /\ lbs' = [lbs EXCEPT ![mem[w].lb].groups = WantedGroups(w)]
            /\ Answered(w, AfterUpdate(w), mem[w])
       ELSE Abort(w) /\ UNCHANGED lbs
    /\ UNCHANGED <<kube, tgs, listeners, sgs>>

UpdateLoadbalancer(w) ==
    /\ pc[w] = "updateLb"
    /\ IF WantedGroups(w) = mem[w].groups
       THEN Goto(w, AfterUpdate(w), mem[w]) /\ UNCHANGED lbs
       ELSE IF mem[w].lb \in DOMAIN lbs
       THEN /\ lbs' = [lbs EXCEPT ![mem[w].lb].groups = WantedGroups(w)]
            /\ Answered(w, AfterUpdate(w), mem[w])
       ELSE Abort(w) /\ UNCHANGED lbs
    /\ UNCHANGED <<kube, tgs, listeners, sgs>>

(* UpdateLoadBalancer has nothing left to do.                              *)
ReturnUpdated(w) == pc[w] = "updated" /\ Return(w) /\ UNCHANGED <<kube, cloud>>

(* Mutants: the poll looks at the object it started with; the polled one   *)
(* is not kept for the status.                                             *)
MutPollReadyStale(w) ==
    /\ pc[w] = "poll" /\ mem[w].addr
    /\ Goto(w, "publish", mem[w])
    /\ UNCHANGED <<kube, cloud>>

MutPollReadyDropped(w) ==
    /\ pc[w] = "poll"
    /\ \E l \in DOMAIN lbs :
         lbs[l].status = "ready" /\ lbs[l].addr /\ Goto(w, "publish", mem[w])
    /\ UNCHANGED <<kube, cloud>>

(* EnsureLoadBalancer's poll; its timeout is CallFails.                    *)
PollReady(w) ==
    /\ pc[w] = "poll"
    /\ \E l \in DOMAIN lbs :
         lbs[l].status = "ready" /\ lbs[l].addr /\ Goto(w, "publish", [mem[w] EXCEPT !.addr = TRUE])
    /\ UNCHANGED <<kube, cloud>>

-----------------------------------------------------------------------------
(* EnsureLoadBalancerDeleted                                               *)

DeleteLoadbalancer(w) ==
    /\ pc[w] = "unused" /\ mem[w].rm = {} /\ job[w].op = "delete"
    /\ IF mem[w].lb \in DOMAIN lbs
       THEN /\ lbs' = [lbs EXCEPT ![mem[w].lb].status = "deleting"]
            /\ Answered(w, "wait", mem[w])
       ELSE Abort(w) /\ UNCHANGED lbs
    /\ UNCHANGED <<kube, tgs, listeners, sgs>>

(* Mutant: the load balancer counts as gone once its deletion is accepted. *)
MutAwaitGone(w) ==
    /\ pc[w] = "wait" /\ \A l \in DOMAIN lbs : lbs[l].status = "deleting"
    /\ Goto(w, "gone", mem[w])
    /\ UNCHANGED <<kube, cloud>>

(* Mutant: the poll looks at the object it was given, not at the cloud.    *)
MutAwaitGoneStale(w) ==
    /\ pc[w] = "wait" /\ mem[w].lb = None
    /\ Goto(w, "gone", mem[w])
    /\ UNCHANGED <<kube, cloud>>

(* The poll until the load balancer is gone; its timeout is CallFails.     *)
AwaitGone(w) ==
    /\ pc[w] = "wait" /\ DOMAIN lbs = {}
    /\ Goto(w, "gone", mem[w])
    /\ UNCHANGED <<kube, cloud>>

(* Mutant: the target groups freed by the deletion are forgotten.          *)
MutListRemainingTargetGroups(w) ==
    /\ pc[w] = "gone"
    /\ Goto(w, "purge", mem[w])
    /\ UNCHANGED <<kube, cloud>>

ListRemainingTargetGroups(w) ==
    /\ pc[w] = "gone"
    /\ Goto(w, "purge", [mem[w] EXCEPT !.rm = Unreferenced])
    /\ UNCHANGED <<kube, cloud>>

(* deleteManagedSecurityGroup deletes the first group it finds, and        *)
(* swallows the error when a call fails.                                   *)
DeleteManagedSecurityGroup(w) ==
    /\ pc[w] = "purge" /\ mem[w].rm = {}
    /\ pc' = [pc EXCEPT ![w] = "release"]
    /\ \/ /\ IF DOMAIN sgs = {} THEN UNCHANGED sgs
             ELSE \E s \in DOMAIN sgs : sgs' = Drop(sgs, {s})
          /\ UNCHANGED faults
       \/ faults < MaxFaults /\ faults' = faults + 1 /\ UNCHANGED sgs
    /\ UNCHANGED <<kube, lbs, tgs, listeners, dirty, job, mem>>

-----------------------------------------------------------------------------
(* The service controller records the outcome.                             *)

(* Mutant: a sync that has removed the finalizer ends there.               *)
MutRemoveFinalizer ==
    /\ pc[Controller] = "release"
    /\ finalizer' = FALSE
    /\ svc' = [svc EXCEPT !.phase = IF @ = "deleting" THEN "gone" ELSE @]
    /\ Return(Controller) \/ (finalizer /\ Lost(Controller))
    /\ UNCHANGED <<nodes, published, changes, cloud>>

(* After a clean-up the finalizer goes, which lets a Service that is being *)
(* deleted disappear.  Without one there is no call, and nothing to lose.  *)
RemoveFinalizer ==
    /\ pc[Controller] = "release"
    /\ finalizer' = FALSE
    /\ svc' = [svc EXCEPT !.phase = IF @ = "deleting" THEN "gone" ELSE @]
    /\ \/ Goto(Controller, "publish", mem[Controller])
       \/ finalizer /\ Lost(Controller)
    /\ UNCHANGED <<nodes, published, changes, cloud>>

(* The status to record: an ensure's address, none after a clean-up.       *)
Outcome == job[Controller].op = "ensure" /\ mem[Controller].addr

(* patchStatus makes a call only when the status is another one.  That the *)
(* Service is not there any more is no error.                              *)
Publish ==
    /\ pc[Controller] = "publish"
    /\ published' = Outcome
    /\ Return(Controller) \/ (published # Outcome /\ Lost(Controller))
    /\ UNCHANGED <<svc, nodes, finalizer, changes, cloud>>

-----------------------------------------------------------------------------
(* The cloud, the users and the faults.                                    *)

LoadBalancerReady(l) ==
    /\ lbs[l].status = "creating"
    /\ lbs' = [lbs EXCEPT ![l].status = "ready", ![l].addr = TRUE]
    /\ UNCHANGED <<kube, dirty, faults, tgs, listeners, sgs, pc, job, mem>>

LoadBalancerRemoved(l) ==
    /\ lbs[l].status = "deleting"
    /\ lbs' = Drop(lbs, {l})
    /\ listeners' = Drop(listeners, {x \in DOMAIN listeners : listeners[x].lb = l})
    /\ UNCHANGED <<kube, dirty, faults, tgs, sgs, pc, job, mem>>

UserChanges ==
    /\ changes < MaxChanges /\ changes' = changes + 1
    /\ UNCHANGED <<finalizer, published, faults, cloud, pc, job, mem>>

EditService ==
    /\ UserChanges /\ svc.phase = "active"
    /\ \E s \in Specs \ {svc.spec} : svc' = [svc EXCEPT !.spec = s]
    /\ dirty' = TRUE /\ UNCHANGED nodes

ChangeType ==
    /\ UserChanges /\ svc.phase \in {"active", "clusterIP"}
    /\ svc' = [svc EXCEPT !.phase = IF @ = "active" THEN "clusterIP" ELSE "active"]
    /\ dirty' = TRUE /\ UNCHANGED nodes

DeleteService ==
    /\ UserChanges /\ svc.phase \in {"active", "clusterIP"}
    /\ svc' = [svc EXCEPT !.phase = IF finalizer THEN "deleting" ELSE "gone"]
    /\ dirty' = TRUE /\ UNCHANGED nodes

ChangeNodes ==
    /\ UserChanges /\ svc.phase = "active"
    /\ nodes' \in NodeSets \ {nodes}
    /\ UNCHANGED <<svc, dirty>>

(* The step the worker is at makes an API call whose failure is returned.  *)
CallPending(w) ==
    /\ pc[w] \notin {"idle", "updated"}
    /\ pc[w] = "purge" => mem[w].rm # {}
    /\ pc[w] = "unused" /\ mem[w].rm = {} /\ job[w].op # "delete" =>
         job[w].spec.groups # {} \/ job[w].spec.managed
    /\ pc[w] = "updateLb" => WantedGroups(w) # mem[w].groups
    /\ pc[w] = "release" => finalizer
    /\ pc[w] = "publish" => published # Outcome

CallFails(w) ==
    /\ CallPending(w)
    /\ faults < MaxFaults /\ faults' = faults + 1
    /\ Rest(w) /\ dirty' = (dirty \/ w = Controller)
    /\ UNCHANGED <<kube, cloud>>

(* Mutant: a restart queues only what wants a load balancer.               *)
MutCrash ==
    /\ faults < MaxFaults /\ faults' = faults + 1
    /\ pc' = [w \in Workers |-> "idle"]
    /\ job' = [w \in Workers |-> NoJob]
    /\ mem' = [w \in Workers |-> NoMem]
    /\ dirty' = (svc.phase = "active")
    /\ UNCHANGED <<kube, cloud>>

(* A restart forgets every job; the informers then deliver the Service     *)
(* again, and it is queued if it wants a load balancer or needs clean-up.  *)
Crash ==
    /\ faults < MaxFaults /\ faults' = faults + 1
    /\ pc' = [w \in Workers |-> "idle"]
    /\ job' = [w \in Workers |-> NoJob]
    /\ mem' = [w \in Workers |-> NoMem]
    /\ dirty' = (svc.phase = "active" \/ finalizer)
    /\ UNCHANGED <<kube, cloud>>

-----------------------------------------------------------------------------
WorkerStep(w) ==
    \/ GetLoadBalancer(w) \/ FetchLoadBalancer(w)
    \/ ListTargetGroups(w) \/ CreateTargetGroup(w) \/ UpdateTargetGroup(w) \/ SetAttachments(w)
    \/ ListListeners(w) \/ DeleteListener(w) \/ UpdateListener(w) \/ CreateListener(w)
    \/ ListUnusedTargetGroups(w) \/ DeleteTargetGroup(w)
    \/ ListSecurityGroups(w) \/ EnsureManagedSecurityGroup(w)
    \/ CreateLoadbalancer(w) \/ UpdateLoadbalancer(w) \/ ReturnUpdated(w) \/ PollReady(w)
    \/ DeleteLoadbalancer(w) \/ AwaitGone(w) \/ ListRemainingTargetGroups(w)
    \/ DeleteManagedSecurityGroup(w)

CloudStep == \E l \in DOMAIN lbs : LoadBalancerReady(l) \/ LoadBalancerRemoved(l)

UserStep == EditService \/ ChangeType \/ DeleteService \/ ChangeNodes

Next ==
    \/ StartSync \/ RemoveFinalizer \/ Publish
    \/ \E w \in Updaters : StartResync(w)
    \/ \E w \in Workers : WorkerStep(w) \/ CallFails(w)
    \/ CloudStep \/ UserStep \/ Crash

Spec == Init /\ [][Next]_vars

(* The controller manager keeps its goroutines running and the cloud keeps *)
(* working off what it accepted.  Users and faults owe nothing.            *)
Fairness ==
    /\ WF_vars(StartSync) /\ WF_vars(RemoveFinalizer \/ Publish) /\ WF_vars(CloudStep)
    /\ \A w \in Workers : WF_vars(WorkerStep(w))

FairSpec == Spec /\ Fairness

-----------------------------------------------------------------------------
(* Properties                                                              *)

(* At most one load balancer ever exists for the Service, whatever fails   *)
(* or is lost: EnsureLoadBalancer creates one only after a list that shows *)
(* none, and a creation whose answer was lost is found by its labels.      *)
AtMostOneLoadBalancer == \A k, l \in DOMAIN lbs : k = l

(* EnsureLoadBalancer's poll dereferences the load balancer it fetches     *)
(* without a nil check: nothing in the provider removes it meanwhile.      *)
PollFindsLoadBalancer ==
    \A w \in Workers : pc[w] = "poll" => mem[w].lb \in DOMAIN lbs

(* The finalizer is given up only when the load balancer is gone, however  *)
(* often the deletion failed, crashed or timed out before.                 *)
ReleasedOnlyWhenGone ==
    pc[Controller] = "release" => DOMAIN lbs = {}

(* Who does what where: the inductive core of the three properties above.  *)
(* Only the Controller creates and deletes load balancers; each step knows *)
(* what it may rely on although other workers and the cloud run meanwhile: *)
(* that it still has no load balancer, that the one it made is not being   *)
(* deleted, and, before it creates one and once it waited for the removal, *)
(* that there is none in the cloud.                                        *)
RoleInv(w) ==
    /\ pc[w] = "idle" => job[w].op = "none" /\ mem[w] = NoMem
    /\ w \in Updaters => job[w].op \in {"none", "update"}
    /\ w = Controller => job[w].op # "update"
    /\ job[w].op = "delete" =>
         pc[w] \in {"exists", "fetch", "sweep", "unused", "wait", "gone", "purge", "release",
                   "publish"}
    /\ pc[w] \in {"exists", "sweep", "wait", "gone", "purge", "release"} => job[w].op = "delete"

HoldsInv(w) ==
    /\ pc[w] \in {"exists", "fetch", "create", "createLb"} => ~mem[w].made /\ mem[w].lb = None
    /\ pc[w] \in {"list", "groups", "listeners", "sweep", "unused", "updateLb"} => mem[w].lb # None
    /\ pc[w] = "poll" => mem[w].made
    /\ mem[w].made => /\ job[w].op = "ensure" /\ mem[w].lb \in DOMAIN lbs
                      /\ lbs[mem[w].lb].status # "deleting"

Creating(w) ==
    \/ pc[w] \in {"create", "createLb"}
    \/ pc[w] = "group" /\ mem[w].lb = None

Removed(w) ==
    \/ pc[w] \in {"gone", "purge", "release"}
    \/ pc[w] = "publish" /\ job[w].op = "delete"

EmptyInv(w) ==
    /\ Creating(w) => job[w].op = "ensure" /\ DOMAIN lbs = {}
    /\ Removed(w) => DOMAIN lbs = {}

LifecycleInv ==
    AtMostOneLoadBalancer /\ \A w \in Workers : RoleInv(w) /\ HoldsInv(w) /\ EmptyInv(w)

(* A load balancer is never orphaned: while one exists, and already while  *)
(* an ensure that may create one runs, the finalizer holds the Service,    *)
(* whatever failed, crashed or was switched back and forth meanwhile, and  *)
(* a Service that is gone is held by nothing.                              *)
NeverOrphaned ==
    /\ DOMAIN lbs # {} \/ job[Controller].op = "ensure" => finalizer
    /\ svc.phase = "gone" => ~finalizer

(* No listener forwards to a target group that does not exist.  The cloud  *)
(* of this model does not prevent it; the order of the calls does, as long *)
(* as one worker at a time acts on the Service.                            *)
NoDanglingListener == \A l \in DOMAIN listeners : listeners[l].tg \in DOMAIN tgs

(* The listeners and target groups in the cloud are those of spec: every   *)
(* port has its listener on load balancer lb, every listener is a port's   *)
(* and forwards to that port's node port, and every target group is a      *)
(* port's with exactly the given nodes attached.                           *)
Realises(lb, spec, ns) ==
    /\ {<<listeners[l].port, listeners[l].proto>> : l \in DOMAIN listeners}
         = {Label(p) : p \in Ports(spec)}
    /\ \A l \in DOMAIN listeners, p \in Ports(spec) :
         Label(p) = <<listeners[l].port, listeners[l].proto>> =>
            /\ listeners[l].lb = lb
            /\ listeners[l].tg \in DOMAIN tgs /\ tgs[listeners[l].tg].key = Key(p)
    /\ \A t \in DOMAIN tgs : tgs[t].key \in DesiredKeys(spec) /\ tgs[t].nodes = ns

(* The load balancer is there to stay: its deletion was not requested.     *)
Lives(lb) == lb \in DOMAIN lbs /\ lbs[lb].status # "deleting"

(* The target group and listener work of the worker's job is behind it.    *)
Reconciled(w) ==
    /\ job[w].op \in {"ensure", "update"} /\ Lives(mem[w].lb)
    /\ \/ pc[w] \in {"group", "updateLb", "updated", "poll", "publish"}
       \/ pc[w] = "unused" /\ mem[w].rm = {}

(* A reconcile that ran without another worker's interference and reached  *)
(* its end without an error has made the cloud what its Service and its    *)
(* nodes ask for, from whatever earlier failures, lost answers, crashes,   *)
(* edits and overlapping reconciles left behind.                           *)
ReconcileEstablishesSpec ==
    \A w \in Workers :
        Reconciled(w) /\ job[w].alone
          => Realises(mem[w].lb, job[w].spec, job[w].nodes)

(* No port number has two listeners.                                       *)
OneListenerPerPort ==
    \A l, k \in DOMAIN listeners : listeners[l].port = listeners[k].port => l = k

(* The same for the security groups of the load balancer: when a reconcile *)
(* or a resync reports success, exactly the requested groups are attached, *)
(* and the managed one carries the rules built from the ports of that job. *)
SecurityGroupsAttached ==
    \A w \in Workers :
        LET j == job[w]
            attached == lbs[mem[w].lb].groups
        IN /\ pc[w] \in {"updated", "poll", "publish"} /\ j.op \in {"ensure", "update"}
           /\ Lives(mem[w].lb)
           => /\ attached.user = j.spec.groups
              /\ IF j.spec.managed
                 THEN /\ attached.managed \in DOMAIN sgs
                      /\ sgs[attached.managed].rules = Ports(j.spec)
                 ELSE attached.managed = None

(* The service controller is at rest: it works on nothing, nothing waits.  *)
Resting == pc[Controller] = "idle" /\ ~dirty

(* No failure is forgotten: whenever the service controller rests and the  *)
(* Service wants no load balancer, the clean-up is complete, whatever      *)
(* failed, lost its answer, crashed or was edited before.  An error puts   *)
(* the key back, a restart queues what still carries the finalizer, and an *)
(* edit in the middle of a job queues the Service once more.               *)
SettledIsReleased ==
    Resting /\ svc.phase # "active" =>
        /\ svc.phase # "deleting" /\ ~finalizer
        /\ DOMAIN lbs = {} /\ DOMAIN listeners = {}

(* The Service has become one without a load balancer, nothing is left to  *)
(* do, and its status still shows an address.                              *)
StatusLeft == Resting /\ svc.phase = "clusterIP" /\ published

(* There is only one way to get there: the process ends when the finalizer *)
(* has been removed and the status not yet cleared.  What AddFunc queues   *)
(* at the next start is what wants a load balancer or has the finalizer.   *)
(* Failed calls, lost answers, edits and any other restart are made up for.*)
StatusCleared == [][StatusLeft' => StatusLeft \/ (Crash /\ ~finalizer)]_vars

(* Load balancer l carries the security groups the Service asks for.       *)
GroupsAsAsked(l) ==
    LET g == lbs[l].groups IN
    /\ g.user = svc.spec.groups
    /\ IF svc.spec.managed
       THEN g.managed \in DOMAIN sgs /\ sgs[g.managed].rules = Ports(svc.spec)
       ELSE g.managed = None

(* Nor is an edit: with one worker, whenever the service controller rests  *)
(* and the Service wants a load balancer, the one that lives realises the  *)
(* spec of now, not that of the last reconcile, with one of the node sets  *)
(* that were handed out and the security groups asked for.                 *)
SettledIsRealised ==
    Resting /\ svc.phase = "active" =>
        \A l \in DOMAIN lbs : Lives(l) =>
            GroupsAsAsked(l) /\ \E ns \in NodeSets : Realises(l, svc.spec, ns)

(* With calls that are answered, it is also in service: whenever the       *)
(* service controller rests and the Service wants a load balancer, there   *)
(* is one that is ready, realises the spec of now, and its address is in   *)
(* the status.                                                             *)
SettledIsServed ==
    Resting /\ svc.phase = "active" =>
        /\ published
        /\ \E l \in DOMAIN lbs :
             /\ lbs[l].status = "ready" /\ GroupsAsAsked(l)
             /\ \E ns \in NodeSets : Realises(l, svc.spec, ns)

(* A reconcile makes no error of its own: with calls that are answered, no *)
(* call of it names an object that is gone, and it gives up early only     *)
(* because the Service names a security group that does not exist.         *)
NoErrorOfItsOwn ==
    [][pc[Controller] \notin {"idle", "publish"} /\ pc'[Controller] = "idle"
         => ~(job[Controller].spec.groups \subseteq UserGroups)]_vars

(* The Service is gone and no worker is still busy with it.                *)
ServiceGone == svc.phase = "gone" /\ \A w \in Workers : pc[w] = "idle"

(* When the Service is gone, so is everything created for it: "this        *)
(* ensures Services can be deleted after all corresponding load balancer   *)
(* resources are deleted" (service controller).                            *)
GoneLeavesNothing ==
    ServiceGone =>
        DOMAIN lbs = {} /\ DOMAIN tgs = {} /\ DOMAIN listeners = {} /\ DOMAIN sgs = {}

(* The part of it EnsureLoadBalancerDeleted retries for: no target group   *)
(* of the Service survives it.                                             *)
GoneLeavesNoTargetGroup == ServiceGone => DOMAIN tgs = {}

(* EnsureLoadBalancer "is expected to return an error for unsupported      *)
(* protocols": when it reports success, every port of the Service has a    *)
(* listener of its protocol.                                               *)
PortsExposed ==
    pc[Controller] = "publish" /\ job[Controller].op = "ensure" /\ Lives(mem[Controller].lb)
      => \A p \in Ports(job[Controller].spec) : \E l \in DOMAIN listeners :
            <<listeners[l].port, listeners[l].proto>> = Label(p)

(* Port n is answered: a listener forwards it to servers.                  *)
Served(n) ==
    \E l \in DOMAIN listeners :
        /\ listeners[l].port = n /\ Lives(listeners[l].lb)
        /\ listeners[l].tg \in DOMAIN tgs /\ tgs[listeners[l].tg].nodes # {}

(* Make before break: while a reconcile or a resync runs, a port that is   *)
(* answered and is still wanted stays answered at every single API call,   *)
(* though its node port, and with it its target group, may be replaced.    *)
ServedStaysServed ==
    [][\A w \in Workers : \A n \in DesiredNumbers(job[w].spec) :
         Served(n) /\ job[w].op \in {"ensure", "update"} /\ job[w].nodes # {}
           => Served(n)']_vars

(* Every job ends: no worker waits for ever, and the controller's queue    *)
(* drains.                                                                 *)
QueueDrains == []<>(pc[Controller] = "idle" /\ (dirty => svc.phase = "gone"))

(* A deletion comes to its end: the finalizer goes and the Service with it *)
(* (it is the wait for the cloud, and the worker's own queue, that could   *)
(* keep a Service in deletion for ever).                                   *)
DeletionCompletes == svc.phase = "deleting" ~> svc.phase = "gone"

(* A Service that stays a load balancer Service ends up with a load        *)
(* balancer that realises its last spec: listeners, target groups and one  *)
(* of the node sets that were handed out, and with an address in its       *)
(* status.                                                                 *)
EventuallyRealised ==
    <>[](svc.phase = "active") =>
        <>[](/\ published
             /\ \E l \in DOMAIN lbs, ns \in NodeSets :
                  lbs[l].status = "ready" /\ Realises(l, svc.spec, ns))

(* "Returns the status of the balancer": a Service that stays a load       *)
(* balancer Service ends up with an address in its status.                 *)
EventuallyPublished == <>[](svc.phase = "active") => <>[]published

-----------------------------------------------------------------------------
(* The abstract view of the one load balancer there may be.                *)
Balancer ==
    IF DOMAIN lbs = {} THEN "none" ELSE lbs[CHOOSE l \in DOMAIN lbs : TRUE].status

Contract == INSTANCE LoadBalancerContract WITH
    phase <- svc.phase, held <- finalizer, advertised <- published, balancer <- Balancer

(* Every step of every worker, of the cloud and of the faults is a step of *)
(* the contract or invisible in it.                                        *)
ImplementsContract == Contract!Spec
=============================================================================
