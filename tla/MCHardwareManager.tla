------------------------- MODULE MCHardwareManager --------------------------
(* Instances of HardwareManager for TLC. *)
EXTENDS HardwareManager, TLC

\* Workers are interchangeable, and so are the ids when every id is treated alike.
Symmetry == Permutations(Workers) \cup Permutations(NodeId)
==============================================================================
