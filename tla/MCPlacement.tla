---------------------------- MODULE MCPlacement -----------------------------
(* A small instance of Placement for TLC: requests that differ from a      *)
(* plain one in what each annotation may hold.                             *)
EXTENDS Placement

(* Growing by append: 1, 2, 4, 8 elements.                                 *)
MCCapacity(n) == CHOOSE c \in {0, 1, 2, 4, 8} : c >= n /\ (n = 0 => c = 0) /\ (c > 0 => c < 2 * n)

Number(kind, n) == [kind |-> kind, n |-> n]
Port(name, port, proto) == [name |-> name, port |-> port, proto |-> proto]
Web == <<Port("http", 1, "tcp"), Port("", 2, "udp")>>

Plain ==
    [subnet |-> "", groups |-> <<>>, managed |-> "absent", reserved |-> "", policy |-> "absent",
     ports |-> Web, acl |-> <<>>, aclName |-> [n \in {"http"} |-> <<>>], aclNumber |-> [n \in {1, 2} |-> <<>>],
     idle |-> Number("absent", 0), check |-> "absent", checkPort |-> Number("absent", 0), checkNodePort |-> 0]

(* Three global sources leave room for one more in their array.            *)
Restricted ==
    [Plain EXCEPT !.acl = <<"a", "bad", "b", "c">>, !.managed = "true",
                  !.aclName = [n \in {"http"} |-> <<"d">>], !.aclNumber = [n \in {1, 2} |-> IF n = 1 THEN <<"d">> ELSE <<"e">>]]

MCRequests ==
    {Plain, Restricted,
     [Restricted EXCEPT !.acl = <<"a", "", "a", "b">>],
     [Restricted EXCEPT !.acl = <<"bad">>, !.managed = "bad"]}
    \cup {[Plain EXCEPT !.subnet = s] : s \in {"s2", "slug2", "unknown"}}
    \cup {[Plain EXCEPT !.groups = g, !.managed = "true"] : g \in {<<"g1">>, <<"g2", "g1">>, <<"">>}}
    \cup {[Plain EXCEPT !.reserved = r] : r \in {"ip", " "}}
    \cup {[Plain EXCEPT !.policy = p] : p \in {"MAGLEV", "bad"}}
    \cup {[Plain EXCEPT !.idle = t] : t \in {Number("bad", 0), Number("int", -1), Number("int", 15), Number("int", 16)}}
    \cup {[Plain EXCEPT !.checkNodePort = n, !.check = c, !.checkPort = p] :
            n \in {0, 5}, c \in {"true", "absent"}, p \in {Number("absent", 0), Number("bad", 0), Number("int", 7)}}

Subnet(id, slug, role) == [id |-> id, slug |-> slug, role |-> role]

MCVpcs ==
    {<<Subnet("s1", "slug1", FALSE)>>,
     <<Subnet("s1", "slug1", FALSE), Subnet("s2", "slug2", FALSE)>>,
     <<Subnet("s2", "slug2", FALSE), Subnet("s1", "slug1", TRUE)>>}

Config(cluster, subnet) == [cluster |-> cluster, defaultSubnet |-> subnet]
MCConfigs == {Config("k8s", ""), Config("", ""), Config("k8s", "s1"), Config("k8s", "slug1")}
=============================================================================
