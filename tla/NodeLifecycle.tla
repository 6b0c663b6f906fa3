--------------------------- MODULE NodeLifecycle ----------------------------
(***************************************************************************)
(* The nodes of the cluster and the machines behind them: instancesV2 and  *)
(* the two controllers that call it.  The cloud node controller            *)
(* initialises a registered node (syncNode) and refreshes its addresses    *)
(* (UpdateNodeStatus) with InstanceMetadata, which finds the machine by    *)
(* its slug; the node lifecycle controller removes a node whose machine is *)
(* gone and taints one whose machine is shut down (MonitorNodes) with      *)
(* InstanceExists and InstanceShutdown, which go by the provider ID.  A    *)
(* machine replaced by another of the same name is where the two differ.   *)
(*                                                                         *)
(* The controllers are vendored code and external to the provider.  Each   *)
(* reads a node, asks the cloud, and writes the node by name, later.       *)
(* Assumed of the rest: identities are never given out again, a VPC has at *)
(* most one machine of a slug at a time, kubelets register without a       *)
(* provider ID, and only MonitorNodes deletes node objects.  Region, zone  *)
(* and instance type are only copied into labels and are left out, but     *)
(* reading the region can fail like every call.                            *)
(***************************************************************************)
EXTENDS Naturals, FiniteSets, Functions

CONSTANTS
    Names,          \* of nodes, and slugs of machines
    Ids,            \* machine identities
    Slug,           \* the slug of a machine
    Foreign,        \* the machines of other VPCs
    None,
    MaxAddress, MaxChanges, MaxFaults

ASSUME IdentityAssumption ==
    /\ Slug \in [Ids -> Names] /\ Foreign \subseteq Ids /\ None \notin Ids
    /\ None \notin Ids \X (1..MaxAddress)
ASSUME BoundsAssumption == MaxAddress \in Nat /\ MaxChanges \in Nat /\ MaxFaults \in Nat

VARIABLES
    \* the cloud: its machines, the identities given out so far
    machines, used,
    \* the API server: the node objects
    nodes,
    \* the jobs of syncNode, UpdateNodeStatus and MonitorNodes
    init, refresh, monitor,
    changes, faults

jobs == <<init, refresh, monitor>>
vars == <<machines, used, nodes, init, refresh, monitor, changes, faults>>

(* An address belongs to a machine, which may be given several in turn.    *)
Addresses == Ids \X (1..MaxAddress)
Statuses == {"ready", "deleted", "unknown"}
Idle == [step |-> "idle", node |-> None, pid |-> None, addr |-> None]
Jobs(steps) ==
    {Idle} \cup [step : steps, node : Names, pid : Ids \cup {None}, addr : Addresses \cup {None}]

(* nodes: tainted as not yet initialised by the cloud provider; ready as   *)
(* its kubelet reports; tainted as shut down.  address 0: no interface     *)
(* "default" with an address yet.                                          *)
TypeOK ==
    /\ DOMAIN machines \subseteq used /\ used \subseteq Ids
    /\ machines \in [DOMAIN machines -> [status : Statuses, address : 0..MaxAddress]]
    /\ DOMAIN nodes \subseteq Names
    /\ nodes \in [DOMAIN nodes -> [pid : Ids \cup {None}, tainted : BOOLEAN, ready : BOOLEAN,
                                   shutdown : BOOLEAN, addr : Addresses \cup {None}]]
    /\ init \in Jobs({"update"}) /\ refresh \in Jobs({"patch"})
    /\ monitor \in Jobs({"exists", "delete", "shutdown", "taint"})
    /\ changes \in 0..MaxChanges /\ faults \in 0..MaxFaults

Init ==
    /\ machines = <<>> /\ used = {} /\ nodes = <<>>
    /\ init = Idle /\ refresh = Idle /\ monitor = Idle
    /\ changes = 0 /\ faults = 0

With(f, x, v) == [y \in DOMAIN f \cup {x} |-> IF y = x THEN v ELSE f[y]]
Without(f, x) == Restrict(f, DOMAIN f \ {x})

-----------------------------------------------------------------------------
(* instancesV2                                                             *)

(* Mutant: the filter by VPC is left to the API, which does not have it.   *)
MutFindVirtualMachine(n) == {i \in DOMAIN machines : Slug[i] = n}

(* The machines with the node's name; none is InstanceNotFound.            *)
FindVirtualMachine(n) == {i \in DOMAIN machines : i \notin Foreign /\ Slug[i] = n}

(* Mutants: the interface's empty address is reported; the previously      *)
(* known address is preferred.                                             *)
MutGetNodeAddresses(i, prev) == <<i, machines[i].address>>

MutGetNodeAddressesPrevious(i, prev) ==
    IF prev # None \/ machines[i].address = 0 THEN prev ELSE <<i, machines[i].address>>

GetNodeAddresses(i, prev) ==
    IF machines[i].address > 0 THEN <<i, machines[i].address>> ELSE prev

(* Mutant: a machine without an address has no metadata.                   *)
MutInstanceMetadata(n, prev) ==
    {[pid |-> i, addr |-> GetNodeAddresses(i, prev)] :
        i \in {m \in FindVirtualMachine(n) : machines[m].address > 0}}

InstanceMetadata(n, prev) ==
    {[pid |-> i, addr |-> GetNodeAddresses(i, prev)] : i \in FindVirtualMachine(n)}

(* The answer of GetMachine: the machine's status, or that there is none.  *)
GetMachine(pid) == IF pid \in DOMAIN machines THEN machines[pid].status ELSE "notfound"

(* Mutants: every failure means gone; not found is passed on as an error.  *)
MutInstanceExists(pid, fails) ==
    IF pid = None \/ fails \/ GetMachine(pid) = "notfound" THEN "no" ELSE "yes"

MutInstanceExistsError(pid, fails) ==
    IF pid = None \/ fails \/ GetMachine(pid) = "notfound" THEN "error" ELSE "yes"

(* An empty provider ID does not parse.                                    *)
InstanceExists(pid, fails) ==
    IF pid = None \/ fails THEN "error"
    ELSE IF GetMachine(pid) = "notfound" THEN "no" ELSE "yes"

(* Mutant: no status means shut down.                                      *)
MutInstanceShutdown(pid, fails) ==
    IF pid = None \/ fails \/ GetMachine(pid) = "unknown" THEN "error"
    ELSE IF GetMachine(pid) = "notfound" THEN "yes" ELSE "no"

(* "unknown" is answered with an error, other statuses are not shut down.  *)
InstanceShutdown(pid, fails) ==
    IF pid = None \/ fails \/ GetMachine(pid) = "unknown" THEN "error"
    ELSE IF GetMachine(pid) \in {"notfound", "deleted"} THEN "yes" ELSE "no"

-----------------------------------------------------------------------------
(* The cloud node controller.  A tainted node stays queued until it is     *)
(* initialised: an error puts it back.                                     *)

SyncNode(n) ==
    /\ init = Idle /\ n \in DOMAIN nodes /\ nodes[n].tainted
    /\ \E m \in InstanceMetadata(n, nodes[n].addr) :
         init' = [step |-> "update", node |-> n, pid |-> m.pid, addr |-> m.addr]
    /\ UNCHANGED <<machines, used, nodes, refresh, monitor, changes, faults>>

(* The node is read again and updated: provider ID if it had none, taint,  *)
(* and then the addresses, unless there are none.                          *)
InitialiseNode ==
    /\ init.step = "update" /\ init' = Idle
    /\ IF init.node \in DOMAIN nodes
       THEN nodes' = [nodes EXCEPT ![init.node].pid = IF @ = None THEN init.pid ELSE @,
                                   ![init.node].tainted = FALSE,
                                   ![init.node].addr = IF init.addr = None THEN @ ELSE init.addr]
       ELSE UNCHANGED nodes
    /\ UNCHANGED <<machines, used, refresh, monitor, changes, faults>>

(* UpdateNodeStatus, every nodeStatusUpdateFrequency, for a node that is   *)
(* not tainted.                                                            *)
ReadAddresses(n) ==
    /\ refresh = Idle /\ n \in DOMAIN nodes /\ ~nodes[n].tainted
    /\ \E m \in InstanceMetadata(n, nodes[n].addr) :
         /\ m.addr \notin {None, nodes[n].addr}
         /\ refresh' = [step |-> "patch", node |-> n, pid |-> m.pid, addr |-> m.addr]
    /\ UNCHANGED <<machines, used, nodes, init, monitor, changes, faults>>

PatchAddresses ==
    /\ refresh.step = "patch" /\ refresh' = Idle
    /\ nodes' = IF refresh.node \in DOMAIN nodes
                THEN [nodes EXCEPT ![refresh.node].addr = refresh.addr] ELSE nodes
    /\ UNCHANGED <<machines, used, init, monitor, changes, faults>>

-----------------------------------------------------------------------------
(* The node lifecycle controller: MonitorNodes takes the nodes one by one, *)
(* every nodeMonitorPeriod.                                                *)

Monitoring(step) == monitor' = [monitor EXCEPT !.step = step]

ExamineNode(n) ==
    /\ monitor = Idle /\ n \in DOMAIN nodes
    /\ IF nodes[n].ready
       THEN nodes' = [nodes EXCEPT ![n].shutdown = FALSE] /\ UNCHANGED monitor
       ELSE /\ monitor' = [step |-> "exists", node |-> n, pid |-> nodes[n].pid, addr |-> None]
            /\ UNCHANGED nodes
    /\ UNCHANGED <<machines, used, init, refresh, changes, faults>>

(* The answer decides what follows; an error leaves the node for the next  *)
(* round.                                                                  *)
CheckExists(fails) ==
    /\ monitor.step = "exists"
    /\ LET answer == InstanceExists(monitor.pid, fails) IN
       CASE answer = "no" -> Monitoring("delete")
         [] answer = "yes" -> Monitoring("shutdown")
         [] answer = "error" -> monitor' = Idle
    /\ UNCHANGED <<machines, used, nodes, init, refresh, changes>>

CheckShutdown(fails) ==
    /\ monitor.step = "shutdown"
    /\ IF InstanceShutdown(monitor.pid, fails) = "yes"
       THEN Monitoring("taint") ELSE monitor' = Idle
    /\ UNCHANGED <<machines, used, nodes, init, refresh, changes>>

DeleteNode ==
    /\ monitor.step = "delete" /\ monitor' = Idle
    /\ nodes' = Without(nodes, monitor.node)
    /\ UNCHANGED <<machines, used, init, refresh, changes, faults>>

TaintNode ==
    /\ monitor.step = "taint" /\ monitor' = Idle
    /\ nodes' = IF monitor.node \in DOMAIN nodes
                THEN [nodes EXCEPT ![monitor.node].shutdown = TRUE] ELSE nodes
    /\ UNCHANGED <<machines, used, init, refresh, changes, faults>>

MonitorStep ==
    \/ (CheckExists(FALSE) \/ CheckShutdown(FALSE)) /\ UNCHANGED faults
    \/ DeleteNode \/ TaintNode

-----------------------------------------------------------------------------
(* Faults: a call fails, and its job with it; the process restarts.        *)

Fault == faults < MaxFaults /\ faults' = faults + 1

MonitorFails ==
    /\ Fault
    /\ \/ CheckExists(TRUE) \/ CheckShutdown(TRUE)
       \/ /\ monitor.step \in {"delete", "taint"} /\ monitor' = Idle
          /\ UNCHANGED <<machines, used, nodes, init, refresh, changes>>

WriteFails ==
    /\ Fault
    /\ \/ init # Idle /\ init' = Idle /\ UNCHANGED refresh
       \/ refresh # Idle /\ refresh' = Idle /\ UNCHANGED init
    /\ UNCHANGED <<machines, used, nodes, monitor, changes>>

Restart ==
    /\ Fault /\ init' = Idle /\ refresh' = Idle /\ monitor' = Idle
    /\ UNCHANGED <<machines, used, nodes, changes>>

-----------------------------------------------------------------------------
(* Machines and kubelets                                                   *)

Holders(n) == {i \in DOMAIN machines : i \notin Foreign /\ Slug[i] = n}
Running(n) == \E i \in Holders(n) : machines[i].status = "ready"

Change == changes < MaxChanges /\ changes' = changes + 1

CreateMachine(i) ==
    /\ Change /\ i \notin used /\ used' = used \cup {i}
    /\ i \in Foreign \/ Holders(Slug[i]) = {}
    /\ \E a \in 0..MaxAddress : machines' = With(machines, i, [status |-> "ready", address |-> a])
    /\ UNCHANGED <<nodes, jobs, faults>>

ChangeMachine(i) ==
    /\ Change /\ i \in DOMAIN machines
    /\ \E s \in Statuses, a \in 0..MaxAddress :
         /\ machines' = [machines EXCEPT ![i] = [status |-> s, address |-> a]]
         /\ machines' # machines
    /\ UNCHANGED <<used, nodes, jobs, faults>>

DeleteMachine(i) ==
    /\ Change /\ i \in DOMAIN machines
    /\ machines' = Without(machines, i)
    /\ UNCHANGED <<used, nodes, jobs, faults>>

Register(n) ==
    /\ Running(n) /\ n \notin DOMAIN nodes
    /\ nodes' = With(nodes, n, [pid |-> None, tainted |-> TRUE, ready |-> FALSE,
                                shutdown |-> FALSE, addr |-> None])
    /\ UNCHANGED <<machines, used, jobs, changes, faults>>

(* A kubelet reports to the node object of its name, also one that was     *)
(* registered for an earlier machine.                                      *)
Heartbeat(n) ==
    /\ Running(n) /\ n \in DOMAIN nodes /\ nodes' = [nodes EXCEPT ![n].ready = TRUE]
    /\ UNCHANGED <<machines, used, jobs, changes, faults>>

HeartbeatMissed(n) ==
    /\ n \in DOMAIN nodes /\ nodes' = [nodes EXCEPT ![n].ready = FALSE]
    /\ UNCHANGED <<machines, used, jobs, changes, faults>>

Next ==
    \/ \E n \in Names : SyncNode(n) \/ ReadAddresses(n) \/ ExamineNode(n)
    \/ InitialiseNode \/ PatchAddresses \/ MonitorStep
    \/ MonitorFails \/ WriteFails \/ Restart
    \/ \E i \in Ids : CreateMachine(i) \/ ChangeMachine(i) \/ DeleteMachine(i)
    \/ \E n \in Names : Register(n) \/ Heartbeat(n) \/ HeartbeatMissed(n)

Spec == Init /\ [][Next]_vars

(* The controllers' loops visit every node again and again, and the node   *)
(* of a machine that does not run is reported NotReady.  Machines and      *)
(* faults owe nothing.                                                     *)
Fairness ==
    /\ \A n \in Names : SF_vars(SyncNode(n)) /\ SF_vars(ReadAddresses(n)) /\ SF_vars(ExamineNode(n))
    /\ WF_vars(InitialiseNode) /\ WF_vars(PatchAddresses) /\ WF_vars(MonitorStep)
    /\ \A n \in Names : WF_vars(~Running(n) /\ HeartbeatMissed(n))

FairSpec == Spec /\ Fairness

-----------------------------------------------------------------------------
(* Properties                                                              *)

Is(n, P(_)) == n \in DOMAIN nodes /\ P(nodes[n])

(* The provider ID a node is initialised with names a machine of the       *)
(* cluster's own VPC that carries the node's name, although the machine    *)
(* list may hold machines of other VPCs with the same slug and the machine *)
(* may be replaced between the lookup and the update.                      *)
ProviderIDIsOwnMachine ==
    \A n \in DOMAIN nodes :
        nodes[n].pid # None => nodes[n].pid \notin Foreign /\ Slug[nodes[n].pid] = n

(* MonitorNodes never removes the node of a machine that exists, however   *)
(* often GetMachine fails and whatever happens between its answer and the  *)
(* deletion.                                                               *)
LiveMachineKept ==
    [][\A n \in DOMAIN nodes \ DOMAIN nodes' : nodes[n].pid \notin DOMAIN machines]_vars

(* An initialised node whose machine is gone, and no other machine took    *)
(* its name, is removed: InstanceExists tells not found from an error.     *)
GoneNodeRemoved ==
    \A n \in Names :
        <>[](Holders(n) = {}) => <>[](~Is(n, LAMBDA x : x.pid # None))

(* A node whose machine is shut down ends up with the shutdown taint.      *)
ShutdownTainted ==
    \A n \in Names, i \in Ids :
        <>[](Is(n, LAMBDA x : x.pid = i) /\ GetMachine(i) = "deleted")
            => <>[]Is(n, LAMBDA x : x.shutdown)

(* A registered node whose machine is there is initialised, with or        *)
(* without addresses, and whatever calls fail on the way.                  *)
EventuallyInitialised ==
    \A n \in Names :
        <>[](n \in DOMAIN nodes /\ Holders(n) # {})
            => <>[]Is(n, LAMBDA x : ~x.tainted /\ x.pid # None)

(* A node of a machine that has an address ends up with that address, also *)
(* when the address changes and when a patch computed earlier, even for an *)
(* earlier node of that name, is applied late.                             *)
AddressesFollow ==
    \A n \in Names, i \in Ids, a \in 1..MaxAddress :
        <>[](Is(n, LAMBDA x : x.pid = i) /\ i \in DOMAIN machines /\ machines[i].address = a)
            => <>[]Is(n, LAMBDA x : x.addr = <<i, a>>)

(* "Implementations should always check node.spec.providerID first when    *)
(* trying to discover the instance for a given node": the addresses of a   *)
(* node with a provider ID are those of the machine the ID names.          *)
AddressesOfOwnMachine ==
    \A n \in DOMAIN nodes :
        nodes[n].pid # None /\ nodes[n].addr # None => nodes[n].addr[1] = nodes[n].pid
=============================================================================
