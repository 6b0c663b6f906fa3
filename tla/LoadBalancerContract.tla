------------------------ MODULE LoadBalancerContract ------------------------
(***************************************************************************)
(* What is promised to the owner of a Service of type LoadBalancer: the    *)
(* contract between the service controller's finalizer protocol and the    *)
(* provider's EnsureLoadBalancer and EnsureLoadBalancerDeleted.  There is  *)
(* one load balancer or none; it is created, and its deletion is started,  *)
(* only while the Service is held by its cleanup finalizer; the hold ends  *)
(* only when it is gone; and the Service object disappears only after the  *)
(* hold has ended.  API calls, workers, retries, crashes and the objects   *)
(* behind the load balancer are not visible here: Reconcile implements     *)
(* this specification with all of them.                                    *)
(***************************************************************************)

VARIABLES
    phase,          \* of the Service: active, clusterIP, deleting, gone
    held,           \* the cleanup finalizer is on the Service
    advertised,     \* the status carries an address
    balancer        \* none, creating, ready, deleting

vars == <<phase, held, advertised, balancer>>

Init == phase = "active" /\ ~held /\ ~advertised /\ balancer = "none"

(* The owner switches the Service type back and forth, or deletes the      *)
(* Service, which stays while it is held.                                  *)
SwitchType ==
    /\ phase \in {"active", "clusterIP"}
    /\ phase' = IF phase = "active" THEN "clusterIP" ELSE "active"
    /\ UNCHANGED <<held, advertised, balancer>>

DeleteService ==
    /\ phase \in {"active", "clusterIP"}
    /\ phase' = IF held THEN "deleting" ELSE "gone"
    /\ UNCHANGED <<held, advertised, balancer>>

Hold ==
    /\ phase = "active" /\ held' = TRUE
    /\ UNCHANGED <<phase, advertised, balancer>>

CreateBalancer ==
    /\ held /\ balancer = "none" /\ balancer' = "creating"
    /\ UNCHANGED <<phase, held, advertised>>

BalancerReady ==
    /\ balancer = "creating" /\ balancer' = "ready"
    /\ UNCHANGED <<phase, held, advertised>>

DeleteBalancer ==
    /\ held /\ balancer \in {"creating", "ready"} /\ balancer' = "deleting"
    /\ UNCHANGED <<phase, held, advertised>>

BalancerGone ==
    /\ balancer = "deleting" /\ balancer' = "none"
    /\ UNCHANGED <<phase, held, advertised>>

(* The outcome of an ensure is recorded in the status.                     *)
Advertise ==
    /\ held /\ advertised' \in BOOLEAN
    /\ UNCHANGED <<phase, held, balancer>>

Release ==
    /\ balancer = "none" /\ held' = FALSE
    /\ phase' = IF phase = "deleting" THEN "gone" ELSE phase
    /\ UNCHANGED <<advertised, balancer>>

(* The status is cleared after the release, if the provider gets to it.    *)
Withdraw ==
    /\ ~held /\ balancer = "none" /\ advertised' = FALSE
    /\ UNCHANGED <<phase, held, balancer>>

Next ==
    \/ SwitchType \/ DeleteService \/ Hold \/ CreateBalancer \/ BalancerReady
    \/ DeleteBalancer \/ BalancerGone \/ Advertise \/ Release \/ Withdraw

Spec == Init /\ [][Next]_vars

(* What the owner relies on: while anything of the load balancer is left,  *)
(* the Service is held, so that it cannot disappear before its load        *)
(* balancer has.                                                           *)
NeverOrphaned == (balancer # "none" => held) /\ (phase = "gone" => balancer = "none")
=============================================================================
