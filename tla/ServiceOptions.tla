--------------------------- MODULE ServiceOptions ---------------------------
(***************************************************************************)
(* What the annotations of a Service turn into: the parsing helpers of     *)
(* loadbalancer_features.go, the listeners of desiredVpcLoadbalancer-      *)
(* Listener with their allowed sources and limits, the health check of the *)
(* target groups and the rules of the managed security group.              *)
(*                                                                         *)
(* An annotation with a list is the sequence of its entries, one with a    *)
(* number is [kind, n] with kind absent, bad (Atoi fails) or int.  Go's    *)
(* int has more bits than the API's 32: Word stands for 2^32, scaled down, *)
(* and the defaults and ports with it.                                     *)
(***************************************************************************)
EXTENDS Integers, Sequences, SequencesExt

CONSTANTS
    Cidrs,          \* the entries net.ParseCIDR accepts
    Capacity(_),    \* of the array behind a slice grown one by one to a length
    Word,           \* 2^32
    DefaultIdleConnectionTimeout

ASSUME WordAssumption ==
    /\ Word \in Nat \ {0} /\ Word % 2 = 0
    /\ DefaultIdleConnectionTimeout \in 0..(Word - 1)

(* Mutant: a limit keeps the width of a Go int.                            *)
MutUnsigned(x) == x

(* uint32(x) and int32(x).                                                 *)
Unsigned(x) == x % Word
Signed(x) == ((x + Word \div 2) % Word) - Word \div 2

-----------------------------------------------------------------------------
(* Annotations: an error is logged by the callers, which go on with the    *)
(* default; only the load balancing policy's is passed on.                 *)

GetIntAnnotation(a, default) == IF a.kind = "int" THEN a.n ELSE default

GetBoolAnnotation(a) == a = "true"

PolicyAccepted(a) == a \in {"absent", "ROUND_ROBIN", "RANDOM", "MAGLEV"}

-----------------------------------------------------------------------------
(* Allowed sources.  Appending one port's sources to the global ones       *)
(* writes into the array behind the global slice when that has room, the   *)
(* same for every port; a slice is a view of that array or of one of its   *)
(* own.                                                                    *)

(* A loop over s that appends the elements at the positions I.             *)
AtPositions(s, I) ==
    LET loop[n \in 0..Len(s)] ==
            IF n = 0 THEN <<>> ELSE IF n \in I THEN Append(loop[n - 1], s[n]) ELSE loop[n - 1]
    IN loop[Len(s)]

(* Blank entries and entries that are no CIDR are skipped.                 *)
ParseAclSources(entries) == AtPositions(entries, {i \in DOMAIN entries : entries[i] \in Cidrs})

Own(s) == [shared |-> FALSE, own |-> s, len |-> Len(s)]

Content(shared, slice) == IF slice.shared THEN SubSeq(shared, 1, slice.len) ELSE slice.own

(* The first occurrences.                                                  *)
Distinct(s) == AtPositions(s, {i \in DOMAIN s : \A j \in 1..(i - 1) : s[j] # s[i]})

(* Mutant: a slice without duplicates is returned as it is.                *)
MutRemoveDuplicateStrings(shared, slice) ==
    LET s == Content(shared, slice) IN IF Distinct(s) = s THEN slice ELSE Own(Distinct(s))

RemoveDuplicateStrings(shared, slice) == Own(Distinct(Content(shared, slice)))

(* The annotation for the port's name, then the one for its number.        *)
GetPerPortAclAllowedSources(req, port) ==
    Distinct((IF port.name = "" THEN <<>> ELSE ParseAclSources(req.aclName[port.name]))
             \o ParseAclSources(req.aclNumber[port.port]))

(* append(global, perPort...) for one port, and what is kept of it.        *)
CombineSources(global, cap, acc, perPort) ==
    LET n == Len(global) + Len(perPort)
        fits == n <= cap
        shared == [k \in 1..cap |-> IF fits /\ k > Len(global) /\ k <= n
                                    THEN perPort[k - Len(global)] ELSE acc.shared[k]]
        slice == IF fits THEN [shared |-> TRUE, own |-> <<>>, len |-> n] ELSE Own(global \o perPort)
    IN [shared |-> shared, slices |-> Append(acc.slices, RemoveDuplicateStrings(shared, slice))]

AllowedSources(req) ==
    LET global == ParseAclSources(req.acl)
        cap == Capacity(Len(global))
        start == [shared |-> [k \in 1..cap |-> IF k <= Len(global) THEN global[k] ELSE ""],
                  slices |-> <<>>]
        loop[n \in 0..Len(req.ports)] ==
            IF n = 0 THEN start
            ELSE CombineSources(global, cap, loop[n - 1], GetPerPortAclAllowedSources(req, req.ports[n]))
        end == loop[Len(req.ports)]
    IN [i \in DOMAIN req.ports |-> Content(end.shared, end.slices[i])]

(* Mutant: the timeout is narrowed further.                                *)
MutDesiredListeners(req) ==
    [i \in DOMAIN req.ports |->
        [port |-> req.ports[i].port, proto |-> req.ports[i].proto, sources |-> AllowedSources(req)[i],
         idle |-> GetIntAnnotation(req.idle, DefaultIdleConnectionTimeout) % (Word \div 2)]]

(* desiredVpcLoadbalancerListener; the connection limit is converted as    *)
(* the idle timeout is.                                                    *)
DesiredListeners(req) ==
    [i \in DOMAIN req.ports |->
        [port |-> req.ports[i].port, proto |-> req.ports[i].proto, sources |-> AllowedSources(req)[i],
         idle |-> Unsigned(GetIntAnnotation(req.idle, DefaultIdleConnectionTimeout))]]

-----------------------------------------------------------------------------
NoHealthCheck == [on |-> FALSE, port |-> 0]

(* getDesiredVpcLoadbalancerTargetGroups: a Service with a health check    *)
(* node port is always checked; path, intervals and thresholds are copied. *)
HealthCheck(req) ==
    LET port == GetIntAnnotation(req.checkPort, -1) IN
    IF req.checkNodePort > 0
    THEN [on |-> TRUE, port |-> Signed(IF port > 0 THEN port ELSE req.checkNodePort)]
    ELSE IF port # -1 /\ GetBoolAnnotation(req.check) THEN [on |-> TRUE, port |-> Signed(port)]
    ELSE NoHealthCheck

(* buildIngressRulesFromListeners: a rule for each source of a listener;   *)
(* what is not UDP is TCP.                                                 *)
BuildIngressRules(listeners) ==
    UNION {{[proto |-> IF listeners[i].proto = "udp" THEN "udp" ELSE "tcp",
             port |-> listeners[i].port, source |-> s] : s \in ToSet(listeners[i].sources)}
           : i \in DOMAIN listeners}
=============================================================================
