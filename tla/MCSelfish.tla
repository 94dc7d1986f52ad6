------------------------------- MODULE MCSelfish ------------------------------
(* Instances of SelfishCoordinator for TLC. *)
EXTENDS SelfishCoordinator
==============================================================================
