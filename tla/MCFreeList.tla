------------------------------ MODULE MCFreeList ------------------------------
(* Instances of FreeList for TLC. *)
EXTENDS FreeList
==============================================================================
