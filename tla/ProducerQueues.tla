---------------------------- MODULE ProducerQueues ----------------------------
(***************************************************************************)
(* What the lock-free queue promises to its users: one queue per producer, *)
(* first in first out, and every element is handed to one consumer.  Which *)
(* producer's queue a dequeue takes from, and whether it finds an element  *)
(* at all, is open; an enqueue may fail, and then has no effect.           *)
(***************************************************************************)
EXTENDS Naturals, Sequences

CONSTANTS Producers, Consumers, Items, None

VARIABLES
  q,     \* the elements of each producer that nobody has dequeued
  alive, \* the queue has not been destroyed
  hand   \* the element a consumer has dequeued and not yet returned, or None

Init ==
  /\ q = [p \in Producers |-> <<>>]
  /\ alive = TRUE
  /\ hand = [c \in Consumers |-> None]

Enqueue(p) ==
  /\ alive = TRUE
  /\ \E v \in Items : q' = [q EXCEPT ![p] = Append(@, v)]
  /\ UNCHANGED <<alive, hand>>

Dequeue(c, p) ==
  /\ alive = TRUE
  /\ hand[c] = None
  /\ q[p] # <<>>
  /\ hand' = [hand EXCEPT ![c] = Head(q[p])]
  /\ q' = [q EXCEPT ![p] = Tail(@)]
  /\ UNCHANGED alive

Return(c) ==
  /\ hand[c] # None
  /\ hand' = [hand EXCEPT ![c] = None]
  /\ UNCHANGED <<q, alive>>

\* What remains is destroyed with the queue, between two calls.
Destroy ==
  /\ alive = TRUE /\ \A c \in Consumers : hand[c] = None
  /\ alive' = FALSE
  /\ q' = [p \in Producers |-> <<>>]
  /\ UNCHANGED hand

Next ==
  \/ Destroy
  \/ \E p \in Producers : Enqueue(p)
  \/ \E c \in Consumers : Return(c) \/ \E p \in Producers : Dequeue(c, p)

Spec == Init /\ [][Next]_<<q, alive, hand>>
==============================================================================
