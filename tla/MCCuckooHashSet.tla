---------------------------- MODULE MCCuckooHashSet ----------------------------
(* The instance of CuckooHashSet for TLC. *)
EXTENDS CuckooHashSet
================================================================================
