---------------------------- MODULE MCImplicitQueue ---------------------------
(* Instances of ImplicitQueue for TLC. *)
EXTENDS ImplicitQueue
CONSTANTS c1, c2
MCProducers == 1 .. 2
Work(n1, n2, cs, i) == [todo |-> <<n1, n2>>, active |-> cs, start |-> i]
MCWorkloads == {
  Work(0, 3, {c1, c2}, 14),   \* two consumers of one producer, whose indices wrap
  Work(1, 1, {c1, c2}, 0),    \* two consumers of two producers
  Work(2, 3, {c1}, 0),        \* producers that share the blocks
  Work(0, 7, {c1}, 14)}       \* a producer that fills and enlarges its block index
==============================================================================
