------------------------ MODULE NodeLifecycleProofs -------------------------
(* What holds of nodes and machines for every set of names and machines,   *)
(* every number of changes to them and every number of failed calls.       *)
EXTENDS NodeLifecycle, TLAPS

MachineRecords == [status : Statuses, address : 0..MaxAddress]
NodeRecords ==
    [pid : Ids \cup {None}, tainted : BOOLEAN, ready : BOOLEAN,
     shutdown : BOOLEAN, addr : Addresses \cup {None}]

CloudTypeOK ==
    /\ DOMAIN machines \subseteq used /\ used \subseteq Ids
    /\ machines \in [DOMAIN machines -> MachineRecords]
NodesTypeOK == DOMAIN nodes \subseteq Names /\ nodes \in [DOMAIN nodes -> NodeRecords]
JobsTypeOK ==
    /\ init \in Jobs({"update"}) /\ refresh \in Jobs({"patch"})
    /\ monitor \in Jobs({"exists", "delete", "shutdown", "taint"})
CountersTypeOK == changes \in 0..MaxChanges /\ faults \in 0..MaxFaults

(* The type invariant in four parts.                                       *)
LEMMA TypeParts ==
    /\ TypeOK <=> CloudTypeOK /\ NodesTypeOK /\ JobsTypeOK /\ CountersTypeOK
    /\ TypeOK' <=> CloudTypeOK' /\ NodesTypeOK' /\ JobsTypeOK' /\ CountersTypeOK'
BY DEF TypeOK, CloudTypeOK, NodesTypeOK, JobsTypeOK, CountersTypeOK, MachineRecords, NodeRecords

-----------------------------------------------------------------------------
(* What the cloud answers, and the jobs                                    *)

(* What InstanceMetadata tells of a node: a machine of the cluster's VPC   *)
(* that carries the node's name, and an address, or the one known before.  *)
LEMMA MetadataOwn ==
    ASSUME CloudTypeOK, NEW n \in Names, NEW prev \in Addresses \cup {None},
           NEW m \in InstanceMetadata(n, prev)
    PROVE  /\ m.pid \in DOMAIN machines /\ m.pid \notin Foreign /\ Slug[m.pid] = n
           /\ m.addr \in Addresses \cup {None}
<1>1. PICK i \in FindVirtualMachine(n) : m = [pid |-> i, addr |-> GetNodeAddresses(i, prev)]
  BY DEF InstanceMetadata
<1>2. i \in DOMAIN machines /\ i \notin Foreign /\ Slug[i] = n /\ i \in Ids
  BY DEF FindVirtualMachine, CloudTypeOK
<1>3. machines[i] \in MachineRecords
  BY <1>2 DEF CloudTypeOK
<1>4. machines[i].address \in 0..MaxAddress
  BY <1>3 DEF MachineRecords
<1>5. machines[i].address > 0 => machines[i].address \in 1..MaxAddress
  BY <1>4, BoundsAssumption
<1>6. GetNodeAddresses(i, prev) \in Addresses \cup {None}
  BY <1>2, <1>5 DEF GetNodeAddresses, Addresses
<1> QED BY <1>1, <1>2, <1>6

(* Jobs are idle or have a step, a node and what they found.               *)
LEMMA JobFields ==
    ASSUME NEW steps, NEW j \in Jobs(steps), j.step # "idle"
    PROVE  /\ j.step \in steps /\ j.node \in Names
           /\ j.pid \in Ids \cup {None} /\ j.addr \in Addresses \cup {None}
           /\ j \in [step : steps, node : Names, pid : Ids \cup {None}, addr : Addresses \cup {None}]
BY DEF Jobs, Idle

(* No job is a job too.                                                    *)
LEMMA JobsIdle == ASSUME NEW steps PROVE Idle \in Jobs(steps) /\ Idle.step = "idle"
BY DEF Jobs, Idle

-----------------------------------------------------------------------------
(* Type correctness, action by action                                      *)

(* syncNode asks the provider about one node; the answer is a machine of   *)
(* that name.                                                              *)
LEMMA SyncNodeType ==
    ASSUME TypeOK, NEW n \in Names, SyncNode(n)
    PROVE  /\ TypeOK' /\ init'.step = "update" /\ init'.node = n
           /\ init'.pid \in DOMAIN machines /\ init'.pid \notin Foreign /\ Slug[init'.pid] = n
<1>1. nodes[n].addr \in Addresses \cup {None}
  BY DEF SyncNode, TypeOK
<1>2. PICK m \in InstanceMetadata(n, nodes[n].addr) :
         init' = [step |-> "update", node |-> n, pid |-> m.pid, addr |-> m.addr]
  BY DEF SyncNode
<1>3. /\ m.pid \in DOMAIN machines /\ m.pid \notin Foreign /\ Slug[m.pid] = n
      /\ m.addr \in Addresses \cup {None}
  BY <1>1, MetadataOwn, TypeParts
<1>4. init' \in Jobs({"update"})
  BY <1>2, <1>3 DEF Jobs, TypeOK
<1> QED BY <1>2, <1>3, <1>4 DEF SyncNode, TypeOK

(* UpdateNodeStatus asks the provider about one node.                      *)
LEMMA ReadAddressesType ==
    ASSUME TypeOK, NEW n \in Names, ReadAddresses(n)
    PROVE  TypeOK'
<1>1. nodes[n].addr \in Addresses \cup {None}
  BY DEF ReadAddresses, TypeOK
<1>2. PICK m \in InstanceMetadata(n, nodes[n].addr) :
         refresh' = [step |-> "patch", node |-> n, pid |-> m.pid, addr |-> m.addr]
  BY DEF ReadAddresses
<1>3. m.pid \in DOMAIN machines /\ m.addr \in Addresses \cup {None}
  BY <1>1, MetadataOwn, TypeParts
<1>4. refresh' \in Jobs({"patch"})
  BY <1>2, <1>3 DEF Jobs, TypeOK
<1> QED BY <1>4 DEF ReadAddresses, TypeOK

(* InitialiseNode writes one node, keeps a provider ID that is set, and    *)
(* leaves the others alone.                                                *)
LEMMA InitialiseNodeType ==
    ASSUME TypeOK, InitialiseNode
    PROVE  /\ TypeOK' /\ DOMAIN nodes' = DOMAIN nodes
           /\ \A n \in DOMAIN nodes :
                \/ nodes'[n].pid = nodes[n].pid
                \/ nodes[n].pid = None /\ n = init.node /\ nodes'[n].pid = init.pid
<1>1. init.pid \in Ids \cup {None} /\ init.addr \in Addresses \cup {None}
  BY JobFields DEF InitialiseNode, TypeOK
<1>2. NodesTypeOK
  BY TypeParts
<1>3. /\ DOMAIN nodes' = DOMAIN nodes /\ nodes' \in [DOMAIN nodes -> NodeRecords]
      /\ \A n \in DOMAIN nodes :
            \/ nodes'[n].pid = nodes[n].pid
            \/ nodes[n].pid = None /\ n = init.node /\ nodes'[n].pid = init.pid
  BY <1>1, <1>2 DEF InitialiseNode, NodesTypeOK, NodeRecords
<1>4. JobsTypeOK'
  BY JobsIdle, TypeParts DEF InitialiseNode, JobsTypeOK
<1>5. CloudTypeOK' /\ CountersTypeOK'
  BY TypeParts DEF InitialiseNode, CloudTypeOK, CountersTypeOK
<1>6. NodesTypeOK'
  BY <1>2, <1>3 DEF NodesTypeOK
<1>7. TypeOK'
  BY <1>4, <1>5, <1>6, TypeParts
<1> QED BY <1>3, <1>7

(* The other writes to nodes keep every provider ID.                       *)
KeepsProviderIDs ==
    DOMAIN nodes' = DOMAIN nodes /\ \A n \in DOMAIN nodes : nodes'[n].pid = nodes[n].pid

(* Conditions and taints of a node.                                        *)
LEMMA NodeFlags ==
    ASSUME NodesTypeOK, NEW n \in DOMAIN nodes,
           \/ nodes' = [nodes EXCEPT ![n].shutdown = FALSE]
           \/ nodes' = [nodes EXCEPT ![n].shutdown = TRUE]
           \/ nodes' = [nodes EXCEPT ![n].ready = FALSE]
           \/ nodes' = [nodes EXCEPT ![n].ready = TRUE]
    PROVE  NodesTypeOK' /\ KeepsProviderIDs
<1> DEFINE x == nodes[n]
<1>1. x \in NodeRecords
  BY DEF NodesTypeOK
<1>2. \A b \in BOOLEAN : /\ [x EXCEPT !.shutdown = b] \in NodeRecords
                         /\ [x EXCEPT !.shutdown = b].pid = x.pid
                         /\ [x EXCEPT !.ready = b] \in NodeRecords
                         /\ [x EXCEPT !.ready = b].pid = x.pid
  <2> HIDE DEF x
  <2> QED BY <1>1 DEF NodeRecords
<1>3. PICK r \in NodeRecords : nodes' = [nodes EXCEPT ![n] = r] /\ r.pid = x.pid
  BY <1>2
<1> QED BY <1>3 DEF NodesTypeOK, KeepsProviderIDs

(* UpdateNodeStatus writes the addresses.                                  *)
LEMMA PatchAddressesType ==
    ASSUME TypeOK, PatchAddresses
    PROVE  TypeOK' /\ KeepsProviderIDs
<1>1. refresh.addr \in Addresses \cup {None}
  BY JobFields DEF PatchAddresses, TypeOK
<1>2. NodesTypeOK' /\ KeepsProviderIDs
  BY <1>1, TypeParts DEF PatchAddresses, NodesTypeOK, NodeRecords, KeepsProviderIDs
<1>3. JobsTypeOK'
  BY JobsIdle, TypeParts DEF PatchAddresses, JobsTypeOK
<1>4. CloudTypeOK' /\ CountersTypeOK'
  BY TypeParts DEF PatchAddresses, CloudTypeOK, CountersTypeOK
<1> QED BY <1>2, <1>3, <1>4, TypeParts

(* MonitorNodes takes up a node with the provider ID it has now.           *)
LEMMA ExamineNodeType ==
    ASSUME TypeOK, NEW n \in Names, ExamineNode(n)
    PROVE  /\ TypeOK' /\ KeepsProviderIDs
           /\ \/ monitor' = Idle
              \/ /\ monitor'.step = "exists" /\ monitor'.node = n /\ n \in DOMAIN nodes
                 /\ monitor'.pid = nodes[n].pid
<1>0. n \in DOMAIN nodes /\ NodesTypeOK /\ JobsTypeOK
  BY TypeParts DEF ExamineNode
<1>1. NodesTypeOK' /\ KeepsProviderIDs
  <2>1. CASE nodes' = nodes
    BY <1>0, <2>1 DEF NodesTypeOK, KeepsProviderIDs
  <2>2. CASE nodes' = [nodes EXCEPT ![n].shutdown = FALSE]
    BY <1>0, <2>2, NodeFlags
  <2> QED BY <2>1, <2>2 DEF ExamineNode
<1>2. nodes[n].pid \in Ids \cup {None}
  BY <1>0 DEF NodesTypeOK, NodeRecords
<1>3. JobsTypeOK'
  BY <1>0, <1>2, JobsIdle DEF ExamineNode, JobsTypeOK, Jobs
<1>4. CloudTypeOK' /\ CountersTypeOK'
  BY TypeParts DEF ExamineNode, CloudTypeOK, CountersTypeOK
<1> QED BY <1>0, <1>1, <1>3, <1>4, TypeParts DEF ExamineNode

(* A check moves the job on or ends it.  It reaches the deletion only with *)
(* a provider ID whose machine the cloud does not have.                    *)
MonitorMoved ==
    \/ monitor' = Idle
    \/ /\ monitor.step # "idle" /\ monitor'.step # "idle"
       /\ monitor'.node = monitor.node /\ monitor'.pid = monitor.pid
       /\ monitor'.step = "delete" => monitor.pid # None /\ monitor.pid \notin DOMAIN machines

(* MonitorNodes goes on with the node it took up.                          *)
LEMMA MonitoringType ==
    ASSUME TypeOK, monitor.step # "idle",
           NEW step \in {"exists", "delete", "shutdown", "taint"}, Monitoring(step)
    PROVE  /\ monitor' \in Jobs({"exists", "delete", "shutdown", "taint"}) /\ monitor'.step = step
           /\ monitor'.node = monitor.node /\ monitor'.pid = monitor.pid
<1> DEFINE steps == {"exists", "delete", "shutdown", "taint"}
           J == [step : steps, node : Names, pid : Ids \cup {None}, addr : Addresses \cup {None}]
<1>1. monitor \in Jobs(steps)
  BY DEF TypeOK
<1>2. monitor \in J
  <2> HIDE DEF steps
  <2> QED BY <1>1, JobFields
<1>3. monitor' \in J /\ monitor'.step = step
      /\ monitor'.node = monitor.node /\ monitor'.pid = monitor.pid
  BY <1>2 DEF Monitoring
<1> QED BY <1>3 DEF Jobs

(* InstanceExists answers or fails.                                        *)
LEMMA CheckExistsType ==
    ASSUME TypeOK, NEW fails \in BOOLEAN, CheckExists(fails)
    PROVE  JobsTypeOK' /\ MonitorMoved
<1>0. monitor.step = "exists"
  BY DEF CheckExists
<1>1. JobsTypeOK /\ init' = init /\ refresh' = refresh
  BY TypeParts DEF CheckExists
<1>2. CASE InstanceExists(monitor.pid, fails) = "no"
  <2>1. Monitoring("delete")
    BY <1>2 DEF CheckExists
  <2>2. monitor.pid # None /\ monitor.pid \notin DOMAIN machines
    BY <1>2, TypeParts DEF InstanceExists, GetMachine, CloudTypeOK, MachineRecords, Statuses
  <2>3. /\ monitor' \in Jobs({"exists", "delete", "shutdown", "taint"}) /\ monitor'.step = "delete"
        /\ monitor'.node = monitor.node /\ monitor'.pid = monitor.pid
    BY <1>0, <2>1, MonitoringType
  <2> QED BY <1>0, <1>1, <2>2, <2>3 DEF JobsTypeOK, MonitorMoved
<1>3. CASE InstanceExists(monitor.pid, fails) = "yes"
  <2>1. Monitoring("shutdown")
    BY <1>3 DEF CheckExists
  <2>3. /\ monitor' \in Jobs({"exists", "delete", "shutdown", "taint"}) /\ monitor'.step = "shutdown"
        /\ monitor'.node = monitor.node /\ monitor'.pid = monitor.pid
    BY <1>0, <2>1, MonitoringType
  <2> QED BY <1>0, <1>1, <2>3 DEF JobsTypeOK, MonitorMoved
<1>4. CASE InstanceExists(monitor.pid, fails) = "error"
  <2>1. monitor' = Idle
    BY <1>4 DEF CheckExists
  <2> QED BY <1>1, <2>1, JobsIdle DEF JobsTypeOK, MonitorMoved
<1>5. InstanceExists(monitor.pid, fails) \in {"no", "yes", "error"}
  BY DEF InstanceExists
<1> QED BY <1>2, <1>3, <1>4, <1>5

(* InstanceShutdown answers or fails.                                      *)
LEMMA CheckShutdownType ==
    ASSUME TypeOK, NEW fails \in BOOLEAN, CheckShutdown(fails)
    PROVE  JobsTypeOK' /\ MonitorMoved
<1>1. JobsTypeOK /\ init' = init /\ refresh' = refresh /\ monitor.step # "idle"
  BY TypeParts DEF CheckShutdown
<1>2. CASE monitor' = Idle
  BY <1>1, <1>2, JobsIdle DEF JobsTypeOK, MonitorMoved
<1>3. CASE Monitoring("taint")
  <2>1. /\ monitor' \in Jobs({"exists", "delete", "shutdown", "taint"}) /\ monitor'.step = "taint"
        /\ monitor'.node = monitor.node /\ monitor'.pid = monitor.pid
    BY <1>1, <1>3, MonitoringType
  <2> QED BY <1>1, <2>1 DEF JobsTypeOK, MonitorMoved
<1> QED BY <1>2, <1>3 DEF CheckShutdown

(* MonitorNodes deletes the node by its name, and no other.                *)
LEMMA DeleteNodeType ==
    ASSUME TypeOK, DeleteNode
    PROVE  /\ TypeOK' /\ DOMAIN nodes' = DOMAIN nodes \ {monitor.node}
           /\ \A n \in DOMAIN nodes' : nodes'[n] = nodes[n]
<1>1. NodesTypeOK /\ JobsTypeOK /\ CloudTypeOK /\ CountersTypeOK
  BY TypeParts
<1>2. nodes' = Without(nodes, monitor.node)
  BY DEF DeleteNode
<1>3. /\ DOMAIN nodes' = DOMAIN nodes \ {monitor.node} /\ nodes' \in [DOMAIN nodes' -> NodeRecords]
      /\ \A n \in DOMAIN nodes' : nodes'[n] = nodes[n]
  BY <1>1, <1>2 DEF NodesTypeOK, Without, Restrict
<1>4. NodesTypeOK'
  BY <1>1, <1>3 DEF NodesTypeOK
<1>5. JobsTypeOK'
  BY <1>1, JobsIdle DEF DeleteNode, JobsTypeOK
<1>6. CloudTypeOK' /\ CountersTypeOK'
  BY <1>1 DEF DeleteNode, CloudTypeOK, CountersTypeOK
<1> QED BY <1>3, <1>4, <1>5, <1>6, TypeParts

(* MonitorNodes taints a node that is shut down.                           *)
LEMMA TaintNodeType ==
    ASSUME TypeOK, TaintNode
    PROVE  TypeOK' /\ KeepsProviderIDs
<1>1. NodesTypeOK /\ JobsTypeOK /\ CloudTypeOK /\ CountersTypeOK
  BY TypeParts
<1>2. NodesTypeOK' /\ KeepsProviderIDs
  <2>1. CASE nodes' = nodes
    BY <1>1, <2>1 DEF NodesTypeOK, KeepsProviderIDs
  <2>2. CASE /\ monitor.node \in DOMAIN nodes
             /\ nodes' = [nodes EXCEPT ![monitor.node].shutdown = TRUE]
    BY <1>1, <2>2, NodeFlags
  <2> QED BY <2>1, <2>2 DEF TaintNode
<1>3. JobsTypeOK'
  BY <1>1, JobsIdle DEF TaintNode, JobsTypeOK
<1>4. CloudTypeOK' /\ CountersTypeOK'
  BY <1>1 DEF TaintNode, CloudTypeOK, CountersTypeOK
<1> QED BY <1>2, <1>3, <1>4, TypeParts

(* A fault leaves the cloud and the nodes alone; a job goes on or ends.    *)
FaultStep == MonitorFails \/ WriteFails \/ Restart

(* A failing call changes no node and no machine.                          *)
LEMMA FaultType ==
    ASSUME TypeOK, FaultStep
    PROVE  /\ TypeOK' /\ UNCHANGED <<machines, used, nodes>>
           /\ init' = init \/ init' = Idle
           /\ monitor' = monitor \/ MonitorMoved
<1>1. NodesTypeOK /\ JobsTypeOK /\ CloudTypeOK /\ CountersTypeOK
  BY TypeParts
<1>2. UNCHANGED <<machines, used, nodes, changes>> /\ Fault
  BY DEF FaultStep, MonitorFails, WriteFails, Restart, CheckExists, CheckShutdown
<1>3. /\ JobsTypeOK' /\ (init' = init \/ init' = Idle)
      /\ monitor' = monitor \/ MonitorMoved
  <2>1. CASE CheckExists(TRUE) \/ CheckShutdown(TRUE)
    <3>1. init' = init
      BY <2>1 DEF CheckExists, CheckShutdown
    <3> QED BY <2>1, <3>1, CheckExistsType, CheckShutdownType
  <2>2. CASE MonitorFails /\ monitor' = Idle /\ UNCHANGED <<init, refresh>>
    BY <1>1, <2>2, JobsIdle DEF JobsTypeOK, MonitorMoved
  <2>3. CASE WriteFails
    BY <1>1, <2>3, JobsIdle DEF WriteFails, JobsTypeOK
  <2>4. CASE Restart
    BY <1>1, <2>4, JobsIdle DEF Restart, JobsTypeOK, MonitorMoved
  <2> QED BY <2>1, <2>2, <2>3, <2>4 DEF FaultStep, MonitorFails
<1>4. CloudTypeOK' /\ NodesTypeOK'
  BY <1>1, <1>2 DEF CloudTypeOK, NodesTypeOK
<1>5. CountersTypeOK'
  BY <1>1, <1>2, BoundsAssumption DEF CountersTypeOK, Fault
<1> QED BY <1>2, <1>3, <1>4, <1>5, TypeParts

(* The cloud gives out an identity once and never gives it out again.      *)
CloudStep == \E i \in Ids : CreateMachine(i) \/ ChangeMachine(i) \/ DeleteMachine(i)

(* Machines come, change and go; an identity does not come back.           *)
LEMMA CloudType ==
    ASSUME TypeOK, CloudStep
    PROVE  /\ TypeOK' /\ UNCHANGED <<nodes, jobs>> /\ used \subseteq used'
           /\ DOMAIN machines' \cap used \subseteq DOMAIN machines
<1>1. NodesTypeOK /\ JobsTypeOK /\ CloudTypeOK /\ CountersTypeOK
  BY TypeParts
<1>2. UNCHANGED <<nodes, jobs, faults>> /\ Change
  BY DEF CloudStep, CreateMachine, ChangeMachine, DeleteMachine
<1>3. PICK i \in Ids : CreateMachine(i) \/ ChangeMachine(i) \/ DeleteMachine(i)
  BY DEF CloudStep
<1>4. /\ CloudTypeOK' /\ used \subseteq used'
      /\ DOMAIN machines' \cap used \subseteq DOMAIN machines
  <2>1. CASE CreateMachine(i)
    <3>1. PICK a \in 0..MaxAddress : machines' = With(machines, i, [status |-> "ready", address |-> a])
      BY <2>1 DEF CreateMachine
    <3>2. [status |-> "ready", address |-> a] \in MachineRecords
      BY DEF MachineRecords, Statuses
    <3>3. DOMAIN machines' = DOMAIN machines \cup {i} /\ machines' \in [DOMAIN machines' -> MachineRecords]
      BY <1>1, <3>1, <3>2 DEF CloudTypeOK, With
    <3> QED BY <1>1, <2>1, <3>3 DEF CreateMachine, CloudTypeOK
  <2>2. CASE ChangeMachine(i)
    <3>1. PICK s \in Statuses, a \in 0..MaxAddress :
             machines' = [machines EXCEPT ![i] = [status |-> s, address |-> a]]
      BY <2>2 DEF ChangeMachine
    <3>2. [status |-> s, address |-> a] \in MachineRecords
      BY DEF MachineRecords
    <3> QED BY <1>1, <2>2, <3>1, <3>2 DEF ChangeMachine, CloudTypeOK
  <2>3. CASE DeleteMachine(i)
    <3>1. machines' = Without(machines, i) /\ used' = used
      BY <2>3 DEF DeleteMachine
    <3>2. DOMAIN machines' = DOMAIN machines \ {i} /\ machines' \in [DOMAIN machines' -> MachineRecords]
      BY <1>1, <3>1 DEF CloudTypeOK, Without, Restrict
    <3> QED BY <1>1, <3>1, <3>2 DEF CloudTypeOK
  <2> QED BY <1>3, <2>1, <2>2, <2>3
<1>5. CountersTypeOK'
  BY <1>1, <1>2, BoundsAssumption DEF CountersTypeOK, Change
<1>6. NodesTypeOK' /\ JobsTypeOK'
  BY <1>1, <1>2 DEF NodesTypeOK, JobsTypeOK, jobs
<1> QED BY <1>2, <1>4, <1>5, <1>6, TypeParts

(* A kubelet registers a node that is not there, without a provider ID, or *)
(* reports on the one that is.                                             *)
KubeletStep == \E n \in Names : Register(n) \/ Heartbeat(n) \/ HeartbeatMissed(n)

(* Kubelets register nodes without a provider ID and report.               *)
LEMMA KubeletType ==
    ASSUME TypeOK, KubeletStep
    PROVE  /\ TypeOK' /\ UNCHANGED <<machines, used, jobs>>
           /\ DOMAIN nodes \subseteq DOMAIN nodes'
           /\ \A n \in DOMAIN nodes : nodes'[n].pid = nodes[n].pid
           /\ \A n \in DOMAIN nodes' \ DOMAIN nodes : nodes'[n].pid = None
<1>1. NodesTypeOK /\ JobsTypeOK /\ CloudTypeOK /\ CountersTypeOK
  BY TypeParts
<1>2. UNCHANGED <<machines, used, jobs, changes, faults>>
  BY DEF KubeletStep, Register, Heartbeat, HeartbeatMissed
<1>3. PICK n \in Names : Register(n) \/ Heartbeat(n) \/ HeartbeatMissed(n)
  BY DEF KubeletStep
<1>4. /\ NodesTypeOK' /\ DOMAIN nodes \subseteq DOMAIN nodes'
      /\ \A m \in DOMAIN nodes : nodes'[m].pid = nodes[m].pid
      /\ \A m \in DOMAIN nodes' \ DOMAIN nodes : nodes'[m].pid = None
  <2>1. CASE Register(n)
    <3> DEFINE r == [pid |-> None, tainted |-> TRUE, ready |-> FALSE, shutdown |-> FALSE, addr |-> None]
    <3>1. r \in NodeRecords /\ r.pid = None
      BY DEF NodeRecords
    <3>2. nodes' = With(nodes, n, r) /\ n \notin DOMAIN nodes
      BY <2>1 DEF Register
    <3> HIDE DEF r
    <3>3. /\ DOMAIN nodes' = DOMAIN nodes \cup {n} /\ nodes' \in [DOMAIN nodes' -> NodeRecords]
          /\ nodes'[n] = r /\ \A m \in DOMAIN nodes \ {n} : nodes'[m] = nodes[m]
      BY <1>1, <3>1, <3>2 DEF NodesTypeOK, With
    <3> QED BY <1>1, <3>1, <3>2, <3>3 DEF NodesTypeOK
  <2>2. CASE Heartbeat(n) \/ HeartbeatMissed(n)
    <3>1. NodesTypeOK' /\ KeepsProviderIDs
      BY <1>1, <2>2, NodeFlags DEF Heartbeat, HeartbeatMissed
    <3> QED BY <3>1 DEF KeepsProviderIDs
  <2> QED BY <1>3, <2>1, <2>2
<1>5. JobsTypeOK' /\ CloudTypeOK' /\ CountersTypeOK'
  BY <1>1, <1>2 DEF JobsTypeOK, CloudTypeOK, CountersTypeOK, jobs
<1> QED BY <1>2, <1>4, <1>5, TypeParts

-----------------------------------------------------------------------------
(* The inductive invariant.  ProviderIDIsOwnMachine needs it of the job    *)
(* that will write the provider ID; LiveMachineKept needs that identities  *)
(* of nodes were given out, so that a machine found gone stays gone, and   *)
(* that the node of a monitor job keeps the provider ID that was checked.  *)

InitJobOwn ==
    init.step = "update" =>
        init.pid \in used /\ init.pid \notin Foreign /\ Slug[init.pid] = init.node

ProviderIDsGivenOut ==
    \A n \in DOMAIN nodes : nodes[n].pid # None => nodes[n].pid \in used

MonitorJobOwn ==
    monitor.step # "idle" /\ monitor.pid # None =>
        monitor.node \in DOMAIN nodes /\ nodes[monitor.node].pid = monitor.pid

MachineStaysGone ==
    monitor.step = "delete" => monitor.pid # None /\ monitor.pid \notin DOMAIN machines

NodeInv ==
    TypeOK /\ ProviderIDIsOwnMachine /\ InitJobOwn /\ ProviderIDsGivenOut
        /\ MonitorJobOwn /\ MachineStaysGone

(* The invariant holds at the start.                                       *)
LEMMA InitNodeInv == Init => NodeInv
<1> SUFFICES ASSUME Init PROVE NodeInv OBVIOUS
<1>1. CloudTypeOK /\ NodesTypeOK
  BY DEF Init, CloudTypeOK, NodesTypeOK
<1>2. JobsTypeOK /\ CountersTypeOK
  BY JobsIdle, BoundsAssumption DEF Init, JobsTypeOK, CountersTypeOK
<1>3. DOMAIN nodes = {} /\ init.step = "idle" /\ monitor.step = "idle"
  BY DEF Init, Idle
<1> QED BY <1>1, <1>2, <1>3, TypeParts
        DEF NodeInv, ProviderIDIsOwnMachine, InitJobOwn, ProviderIDsGivenOut, MonitorJobOwn,
            MachineStaysGone

(* A step that keeps the provider IDs and the cloud, and only moves jobs.  *)
LEMMA QuietStepInv ==
    ASSUME NodeInv, TypeOK', KeepsProviderIDs, UNCHANGED <<machines, used>>,
           init' = init \/ init' = Idle,
           monitor' = monitor \/ MonitorMoved
    PROVE  NodeInv'
<1>1. ProviderIDIsOwnMachine' /\ ProviderIDsGivenOut'
  BY DEF NodeInv, KeepsProviderIDs, ProviderIDIsOwnMachine, ProviderIDsGivenOut
<1>2. InitJobOwn'
  BY DEF NodeInv, InitJobOwn, Idle
<1>3. MonitorJobOwn' /\ MachineStaysGone'
  BY DEF NodeInv, KeepsProviderIDs, MonitorJobOwn, MachineStaysGone, MonitorMoved, Idle
<1> QED BY <1>1, <1>2, <1>3 DEF NodeInv

(* The metadata was read: the machine is the node's own.                   *)
LEMMA SyncNodeInv ==
    ASSUME NodeInv, NEW n \in Names, SyncNode(n)
    PROVE  NodeInv'
<1>1. TypeOK /\ TypeOK'
  BY SyncNodeType DEF NodeInv
<1>2. InitJobOwn'
  BY <1>1, SyncNodeType DEF InitJobOwn, SyncNode, TypeOK
<1>3. UNCHANGED <<machines, used, nodes, monitor>>
  BY DEF SyncNode
<1> QED BY <1>1, <1>2, <1>3
        DEF NodeInv, ProviderIDIsOwnMachine, ProviderIDsGivenOut, MonitorJobOwn, MachineStaysGone

(* The provider ID read before is written now.                             *)
LEMMA InitialiseNodeInv ==
    ASSUME NodeInv, InitialiseNode
    PROVE  NodeInv'
<1>1. TypeOK' /\ DOMAIN nodes' = DOMAIN nodes
  BY InitialiseNodeType DEF NodeInv
<1>2. \A n \in DOMAIN nodes :
          \/ nodes'[n].pid = nodes[n].pid
          \/ nodes[n].pid = None /\ n = init.node /\ nodes'[n].pid = init.pid
  BY InitialiseNodeType DEF NodeInv
<1>3. UNCHANGED <<machines, used, monitor>> /\ init.step = "update" /\ init' = Idle
  BY DEF InitialiseNode
<1>4. ProviderIDIsOwnMachine' /\ ProviderIDsGivenOut'
  BY <1>1, <1>2, <1>3 DEF NodeInv, ProviderIDIsOwnMachine, ProviderIDsGivenOut, InitJobOwn
<1>5. MonitorJobOwn' /\ MachineStaysGone' /\ InitJobOwn'
  BY <1>1, <1>2, <1>3 DEF NodeInv, MonitorJobOwn, MachineStaysGone, InitJobOwn, Idle
<1> QED BY <1>1, <1>4, <1>5 DEF NodeInv

(* The node is taken up.                                                   *)
LEMMA ExamineNodeInv ==
    ASSUME NodeInv, NEW n \in Names, ExamineNode(n)
    PROVE  NodeInv'
<1>1. TypeOK' /\ KeepsProviderIDs
  BY ExamineNodeType DEF NodeInv
<1>2. \/ monitor' = Idle
      \/ /\ monitor'.step = "exists" /\ monitor'.node = n /\ n \in DOMAIN nodes
         /\ monitor'.pid = nodes[n].pid
  BY ExamineNodeType DEF NodeInv
<1>3. UNCHANGED <<machines, used, init>>
  BY DEF ExamineNode
<1>4. ProviderIDIsOwnMachine' /\ ProviderIDsGivenOut' /\ InitJobOwn'
  BY <1>1, <1>3 DEF NodeInv, KeepsProviderIDs, ProviderIDIsOwnMachine, ProviderIDsGivenOut, InitJobOwn
<1>5. MonitorJobOwn' /\ MachineStaysGone'
  BY <1>1, <1>2, <1>3 DEF KeepsProviderIDs, MonitorJobOwn, MachineStaysGone, Idle
<1> QED BY <1>1, <1>4, <1>5 DEF NodeInv

(* MonitorNodes, after its answers.                                        *)
LEMMA MonitorStepInv ==
    ASSUME NodeInv, MonitorStep
    PROVE  NodeInv'
<1>0. TypeOK
  BY DEF NodeInv
<1>1. CASE (CheckExists(FALSE) \/ CheckShutdown(FALSE)) /\ UNCHANGED faults
  <2>1. JobsTypeOK' /\ MonitorMoved
    BY <1>0, <1>1, CheckExistsType, CheckShutdownType
  <2>2. UNCHANGED <<machines, used, nodes, init, changes, faults>>
    BY <1>1 DEF CheckExists, CheckShutdown
  <2>3. TypeOK'
    BY <1>0, <2>1, <2>2, TypeParts DEF CloudTypeOK, NodesTypeOK, CountersTypeOK
  <2>4. KeepsProviderIDs
    BY <2>2 DEF KeepsProviderIDs
  <2> QED BY <2>1, <2>2, <2>3, <2>4, QuietStepInv
<1>2. CASE DeleteNode
  <2>1. /\ TypeOK' /\ DOMAIN nodes' = DOMAIN nodes \ {monitor.node}
        /\ \A n \in DOMAIN nodes' : nodes'[n] = nodes[n]
    BY <1>0, <1>2, DeleteNodeType
  <2>2. UNCHANGED <<machines, used, init>> /\ monitor' = Idle
    BY <1>2 DEF DeleteNode
  <2>3. ProviderIDIsOwnMachine' /\ ProviderIDsGivenOut' /\ InitJobOwn'
    BY <2>1, <2>2 DEF NodeInv, ProviderIDIsOwnMachine, ProviderIDsGivenOut, InitJobOwn
  <2>4. MonitorJobOwn' /\ MachineStaysGone'
    BY <2>2 DEF MonitorJobOwn, MachineStaysGone, Idle
  <2> QED BY <2>1, <2>3, <2>4 DEF NodeInv
<1>3. CASE TaintNode
  <2>1. TypeOK' /\ KeepsProviderIDs
    BY <1>0, <1>3, TaintNodeType
  <2>2. UNCHANGED <<machines, used, init>> /\ MonitorMoved
    BY <1>3 DEF TaintNode, MonitorMoved
  <2> QED BY <2>1, <2>2, QuietStepInv
<1> QED BY <1>1, <1>2, <1>3 DEF MonitorStep

(* Machines change under a job.                                            *)
LEMMA CloudStepInv ==
    ASSUME NodeInv, CloudStep
    PROVE  NodeInv'
<1>1. /\ TypeOK' /\ UNCHANGED <<nodes, jobs>> /\ used \subseteq used'
      /\ DOMAIN machines' \cap used \subseteq DOMAIN machines
  BY CloudType DEF NodeInv
<1>2. nodes' = nodes /\ init' = init /\ monitor' = monitor
  BY <1>1 DEF jobs
<1>3. ProviderIDIsOwnMachine' /\ ProviderIDsGivenOut' /\ InitJobOwn' /\ MonitorJobOwn'
  BY <1>1, <1>2 DEF NodeInv, ProviderIDIsOwnMachine, ProviderIDsGivenOut, InitJobOwn, MonitorJobOwn
<1>4. MachineStaysGone'
  BY <1>1, <1>2 DEF NodeInv, MachineStaysGone, MonitorJobOwn, ProviderIDsGivenOut
<1> QED BY <1>1, <1>3, <1>4 DEF NodeInv

(* Nodes are registered and report under a job.                            *)
LEMMA KubeletStepInv ==
    ASSUME NodeInv, KubeletStep
    PROVE  NodeInv'
<1>1. /\ TypeOK' /\ UNCHANGED <<machines, used, jobs>> /\ DOMAIN nodes \subseteq DOMAIN nodes'
      /\ \A n \in DOMAIN nodes : nodes'[n].pid = nodes[n].pid
      /\ \A n \in DOMAIN nodes' \ DOMAIN nodes : nodes'[n].pid = None
  BY KubeletType DEF NodeInv
<1>2. machines' = machines /\ used' = used /\ init' = init /\ monitor' = monitor
  BY <1>1 DEF jobs
<1>3. ProviderIDIsOwnMachine' /\ ProviderIDsGivenOut'
  BY <1>1, <1>2 DEF NodeInv, ProviderIDIsOwnMachine, ProviderIDsGivenOut
<1>4. InitJobOwn' /\ MonitorJobOwn' /\ MachineStaysGone'
  BY <1>1, <1>2 DEF NodeInv, InitJobOwn, MonitorJobOwn, MachineStaysGone
<1> QED BY <1>1, <1>3, <1>4 DEF NodeInv

(* Every step keeps the invariant.                                         *)
LEMMA NextNodeInv == NodeInv /\ [Next]_vars => NodeInv'
<1> SUFFICES ASSUME NodeInv, [Next]_vars PROVE NodeInv' OBVIOUS
<1>0. TypeOK
  BY DEF NodeInv
<1>1. ASSUME NEW n \in Names, SyncNode(n) PROVE NodeInv'
  BY <1>1, SyncNodeInv
<1>2. ASSUME NEW n \in Names, ReadAddresses(n) PROVE NodeInv'
  <2>1. TypeOK'
    BY <1>0, <1>2, ReadAddressesType
  <2>2. UNCHANGED <<machines, used, nodes, init, monitor>> /\ KeepsProviderIDs
    BY <1>2 DEF ReadAddresses, KeepsProviderIDs
  <2> QED BY <2>1, <2>2, QuietStepInv
<1>3. ASSUME NEW n \in Names, ExamineNode(n) PROVE NodeInv'
  BY <1>3, ExamineNodeInv
<1>4. CASE InitialiseNode
  BY <1>4, InitialiseNodeInv
<1>5. CASE PatchAddresses
  <2>1. TypeOK' /\ KeepsProviderIDs
    BY <1>0, <1>5, PatchAddressesType
  <2>2. UNCHANGED <<machines, used, init, monitor>>
    BY <1>5 DEF PatchAddresses
  <2> QED BY <2>1, <2>2, QuietStepInv
<1>6. CASE MonitorStep
  BY <1>6, MonitorStepInv
<1>7. CASE FaultStep
  <2>1. /\ TypeOK' /\ UNCHANGED <<machines, used, nodes>>
        /\ init' = init \/ init' = Idle
        /\ monitor' = monitor \/ MonitorMoved
    BY <1>0, <1>7, FaultType
  <2>2. KeepsProviderIDs
    BY <2>1 DEF KeepsProviderIDs
  <2> QED BY <2>1, <2>2, QuietStepInv
<1>8. CASE CloudStep
  BY <1>8, CloudStepInv
<1>9. CASE KubeletStep
  BY <1>9, KubeletStepInv
<1>10. CASE UNCHANGED vars
  <2>1. TypeOK'
    BY <1>0, <1>10 DEF vars, TypeOK
  <2>2. KeepsProviderIDs
    BY <1>10 DEF vars, KeepsProviderIDs
  <2> QED BY <1>10, <2>1, <2>2, QuietStepInv DEF vars
<1> QED BY <1>1, <1>2, <1>3, <1>4, <1>5, <1>6, <1>7, <1>8, <1>9, <1>10
        DEF Next, FaultStep, CloudStep, KubeletStep

(* The inductive invariant of this module.                                 *)
LEMMA Invariance == Spec => []NodeInv
BY InitNodeInv, NextNodeInv, PTL DEF Spec

(* The model of instancesV2 and of the controllers that call it is well    *)
(* typed: in particular every machine has an identity that was given out,  *)
(* and every node's provider ID is empty or a machine identity.            *)
THEOREM NodeTypes == Spec => []TypeOK
<1>1. NodeInv => TypeOK
  BY DEF NodeInv
<1> QED BY <1>1, Invariance, PTL

(* findVirtualMachine and syncNode: a node's provider ID names a machine   *)
(* of the cluster's VPC with the node's name, whatever other VPCs hold and *)
(* whenever machines are replaced.                                         *)
THEOREM OwnMachine == Spec => []ProviderIDIsOwnMachine
<1>1. NodeInv => ProviderIDIsOwnMachine
  BY DEF NodeInv
<1> QED BY <1>1, Invariance, PTL

(* InstanceExists and MonitorNodes: a node is only removed when the        *)
(* machine its provider ID names is gone, also at the moment of removal.   *)
THEOREM LiveKept == Spec => LiveMachineKept
<1> DEFINE Kept == \A n \in DOMAIN nodes \ DOMAIN nodes' : nodes[n].pid \notin DOMAIN machines
<1>1. NodeInv /\ [Next]_vars => [Kept]_vars
  <2> SUFFICES ASSUME NodeInv, [Next]_vars, ~UNCHANGED vars, NEW n \in DOMAIN nodes \ DOMAIN nodes'
               PROVE nodes[n].pid \notin DOMAIN machines
    OBVIOUS
  <2>0. TypeOK
    BY DEF NodeInv
  <2>1. DeleteNode
    <3>1. ~InitialiseNode /\ ~PatchAddresses /\ ~TaintNode
      BY <2>0, InitialiseNodeType, PatchAddressesType, TaintNodeType DEF KeepsProviderIDs
    <3>2. ~\E m \in Names : SyncNode(m) \/ ReadAddresses(m) \/ ExamineNode(m)
      BY <2>0, ExamineNodeType DEF KeepsProviderIDs, SyncNode, ReadAddresses
    <3>3. ~FaultStep /\ ~CloudStep /\ ~KubeletStep
      BY <2>0, FaultType, CloudType, KubeletType
    <3>4. ~CheckExists(FALSE) /\ ~CheckShutdown(FALSE)
      BY DEF CheckExists, CheckShutdown
    <3> QED BY <3>1, <3>2, <3>3, <3>4 DEF Next, MonitorStep, FaultStep, CloudStep, KubeletStep
  <2>2. n = monitor.node
    BY <2>0, <2>1, DeleteNodeType
  <2> QED BY <2>1, <2>2 DEF NodeInv, DeleteNode, MonitorJobOwn, MachineStaysGone
<1> QED BY <1>1, Invariance, PTL DEF Spec, LiveMachineKept
=============================================================================
