-------------------------- MODULE MCNodeLifecycle ---------------------------
(* A small instance of NodeLifecycle for TLC: a machine, the one that      *)
(* replaces it, and one of the same name in another VPC.                   *)
EXTENDS NodeLifecycle

MCSlug == [i \in Ids |-> "n1"]
=============================================================================
