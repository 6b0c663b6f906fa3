---------------------------- MODULE DesiredState ----------------------------
(***************************************************************************)
(* What one Service asks of the cloud: the pure part of                    *)
(* loadbalancer_targetgroups.go, loadbalancer_listeners.go and             *)
(* metadata.go.  A service port is [port, proto, nodePort]; the Service    *)
(* lists its ports in a sequence, and the order matters wherever the code  *)
(* builds a Go map from the list (the last entry with a given key wins).   *)
(*                                                                         *)
(* Names, descriptions, health checks and the other attributes copied      *)
(* verbatim into a request are left out: they follow the port.             *)
(***************************************************************************)
EXTENDS Integers, Sequences, Functions

PortType == [port : Nat, proto : {"tcp", "udp"}, nodePort : Nat]

(* groups: the user's own security groups (annotation security-groups);    *)
(* managed: the create-security-group annotation is true.                  *)
SpecType == [ports : Seq(PortType), groups : SUBSET STRING, managed : BOOLEAN]

(* Every port the service lists: one desired listener and one desired      *)
(* target group each.                                                      *)
Ports(spec) == Range(spec.ports)

(* "proto:nodePort", the key under which target groups are compared.       *)
Key(p) == <<p.proto, p.nodePort>>

(* The two labels by which a listener finds its target group.              *)
Label(p) == <<p.port, p.proto>>

DesiredKeys(spec) == {Key(p) : p \in Ports(spec)}

DesiredNumbers(spec) == {p.port : p \in Ports(spec)}

(* desiredListenersPortMap[n]: keyed by the port NUMBER alone, last wins.  *)
(* The set holds that one port, or nothing when n is not in the map.       *)
ListenerByNumber(spec, n) ==
    {p \in Ports(spec) :
        \E i \in DOMAIN spec.ports :
            /\ p = spec.ports[i] /\ p.port = n
            /\ \A k \in DOMAIN spec.ports : spec.ports[k].port = n => k =< i}

(* desiredTargetGroupsMap["proto:nodePort"], last wins.                    *)
TargetGroupByKey(spec, key) ==
    {p \in Ports(spec) :
        \E i \in DOMAIN spec.ports :
            /\ p = spec.ports[i] /\ Key(p) = key
            /\ \A k \in DOMAIN spec.ports : Key(spec.ports[k]) = key => k =< i}

(* getTargetGroupIdentityForListener: the target groups among the ones     *)
(* returned by createOrUpdateTargetGroups whose labels match; the code     *)
(* takes the first, and the API does not promise an order.                 *)
TargetGroupsFor(p, returned) == {t \in returned : t.label = Label(p)}

(* What the API server's validation guarantees of a Service: no two ports  *)
(* share (port, protocol), and no two share (nodePort, protocol).          *)
ValidSpec(spec) ==
    \A i, k \in DOMAIN spec.ports :
        i # k => /\ Label(spec.ports[i]) # Label(spec.ports[k])
                 /\ Key(spec.ports[i]) # Key(spec.ports[k])
=============================================================================
