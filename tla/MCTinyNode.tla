----------------------------- MODULE MCTinyNode ------------------------------
(* Instances of TinyNode for TLC. *)
EXTENDS TinyNode, TLC

\* The workers are interchangeable.
Symmetry == Permutations(Workers)

\* Another node puts its transaction into the first block only.
ForeignFirst == \A b \in Block \ (mine \cup {1}) : txs[b] \subseteq Own
==============================================================================
