------------------------------ MODULE MCResync ------------------------------
(* Small instances of Resync for TLC.                                      *)
EXTENDS Resync

Endpoint(n, r, t) == [node |-> n, ready |-> r, terminating |-> t]

On1 == {Endpoint("n1", "true", FALSE)}
On2 == {Endpoint("n2", "true", FALSE)}
OnBoth == On1 \cup On2

(* A pod that publishes its address while it terminates: ready and         *)
(* terminating; and an endpoint whose condition is not set.                *)
Leaving1 == {Endpoint("n1", "true", TRUE)}
Unset2 == {Endpoint("n2", "unset", FALSE)}

NotReady1 == {Endpoint("n1", "false", FALSE)}

MCContents == {NotReady1, Leaving1 \cup On2, OnBoth, Unset2}
MCMoving == {On1, On2}

World(ready, excluded) == [ready |-> ready, excluded |-> excluded]
MCAllReady == {World({"n1", "n2"}, {})}
MCNodeFails == {World({"n1", "n2"}, {}), World({"n1"}, {})}
MCNodes == {World({"n1"}, {}), World({"n1", "n2"}, {"n2"})}
=============================================================================
