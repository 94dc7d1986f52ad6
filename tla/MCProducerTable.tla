---------------------------- MODULE MCProducerTable ---------------------------
(* Instances of ProducerTable for TLC. *)
EXTENDS ProducerTable
CONSTANTS t1, t2, t3
\* Two threads collide in every table, and the third is next to them.
MCHash == [t \in Threads |-> IF t = t3 THEN 4 ELSE 3]
==============================================================================
