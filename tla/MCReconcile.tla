---------------------------- MODULE MCReconcile -----------------------------
(* Small instances of Reconcile for TLC.                                   *)
EXTENDS Reconcile

Port(n, proto, np) == [port |-> n, proto |-> proto, nodePort |-> np]
SpecOf(ports, groups, managed) == [ports |-> ports, groups |-> groups, managed |-> managed]

P80 == Port(80, "tcp", 1)
P80Moved == Port(80, "tcp", 2)
P443 == Port(443, "tcp", 2)
P443Swap == Port(443, "tcp", 1)
P80Udp == Port(80, "udp", 1)

(* Edits that move a node port, swap node ports between two ports, add and *)
(* drop a port, and switch the managed security group on and off.          *)
MCSpecs == { SpecOf(<<P80>>, {}, FALSE),
             SpecOf(<<P80, P443>>, {}, TRUE),
             SpecOf(<<P443Swap, P80Moved>>, {"g1"}, TRUE) }

(* One edit that replaces a port's target group; and no managed group.     *)
MCTwoSpecs == { SpecOf(<<P80>>, {}, FALSE), SpecOf(<<P80Moved>>, {}, FALSE) }
MCManaged == { SpecOf(<<P80>>, {}, TRUE) }
MCSamePort == { SpecOf(<<P80, P80Udp>>, {}, FALSE), SpecOf(<<P80, P80Udp>>, {"g1"}, FALSE) }

MCNodeSets == {{"n1"}, {"n2"}}
MCOneNode == {{"n1"}}
MCIds == 0..4
=============================================================================
