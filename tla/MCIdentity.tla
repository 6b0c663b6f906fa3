----------------------------- MODULE MCIdentity -----------------------------
(* Two clusters in one VPC with a Service each, both of the same name.     *)
EXTENDS Identity, TLC

MCHome == ("uid1" :> "c1") @@ ("uid2" :> "c2")
MCKey == [s \in Services |-> "default/web"]

(* Two clusters configured alike; one renamed; additional labels, one that *)
(* takes a built-in key and one with an empty value.                       *)
MCConfigs ==
    {[cluster |-> "k8s", extra |-> <<>>],
     [cluster |-> "prod", extra |-> <<>>],
     [cluster |-> "k8s", extra |-> ("uid" :> "x") @@ ("team" :> "")]}

(* Two restarts for one: away from a configuration and back to it.         *)
MCMaxRestarts == ("c1" :> 2) @@ ("c2" :> 0)
=============================================================================
