------------------------------ MODULE NodeQueue ------------------------------
(***************************************************************************)
(* The two message queues of a node (include/node.hpp): `messages`, for    *)
(* messages without a delay, and the min-heap `delayed_messages`, ordered  *)
(* by the instant a message may be handled.  A queue is a record of three  *)
(* counters, because nothing outside a protocol looks into a message:      *)
(*                                                                         *)
(*   messages   the undelayed messages                                     *)
(*   later      the delayed messages whose instant is still to come        *)
(*   ripe       the delayed messages whose instant has passed              *)
(*                                                                         *)
(* The top of the heap has the smallest instant, so it is ripe exactly     *)
(* when some delayed message is.                                           *)
(***************************************************************************)
EXTENDS Naturals

\* The queues of a node that has just been constructed.
EmptyQueue == [messages |-> 0, later |-> 0, ripe |-> 0]

Queue == [messages : Nat, later : Nat, ripe : Nat]

\* The messages held by the node, in either queue.
Size(q) == q.messages + q.later + q.ripe

\* Node::enqueue: msg.delay() decides which queue receives the message.
enqueue(q, delayed) ==
  IF delayed THEN [q EXCEPT !.later = @ + 1] ELSE [q EXCEPT !.messages = @ + 1]

\* handle_one_message finds a message it may handle now, and takes it: the
\* undelayed queue first, the heap only when that one is empty.
HasMessage(q) == q.messages > 0 \/ q.ripe > 0

TakeMessage(q) ==
  IF q.messages > 0 THEN [q EXCEPT !.messages = @ - 1] ELSE [q EXCEPT !.ripe = @ - 1]

\* handle_one_message returns -1: there are messages, none of them may be
\* handled yet.
OnlyLater(q) == ~HasMessage(q) /\ q.later > 0

\* The clock passes the instant of one more delayed message.
Ripen(q) == [messages |-> q.messages, later |-> q.later - 1, ripe |-> q.ripe + 1]
==============================================================================
