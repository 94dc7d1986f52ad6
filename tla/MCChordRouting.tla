---------------------------- MODULE MCChordRouting ----------------------------
(* The instance of ChordRouting for TLC: a small ring with every set of nodes. *)
EXTENDS ChordRouting
===============================================================================
