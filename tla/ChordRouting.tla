----------------------------- MODULE ChordRouting -----------------------------
(***************************************************************************)
(* Chord on the engine (protocols/chord.hpp) as the program                *)
(* examples/chord_hop_distribution.cpp uses it: nodes with random ids are  *)
(* added, then messages for random keys are routed along the fingers.      *)
(*                                                                         *)
(* A node keeps nothing but its id: its fingers are computed from the      *)
(* engine's map of nodes whenever a message is handled.  Messages do not   *)
(* influence each other, and the model follows one of them.  The program   *)
(* sets the chance of a link failure to 0.                                 *)
(***************************************************************************)
EXTENDS Integers, FiniteSets, FiniteSetsExt

CONSTANT Bits       \* ids and keys have this many bits

ASSUME ChordAssumption == Bits \in Nat \ {0}

Ring == 2 ^ Bits
Id == 0 .. Ring - 1     \* random_id() is below max_id, which is 1<<bits

VARIABLES
  nodes,    \* the ids in the engine's map
  phase,    \* setup; start, in start_message; moving; received, lost
  at,       \* the node that handles the message
  data,     \* its key
  hops      \* how often it has been sent

vars == <<nodes, phase, at, data, hops>>

Init == nodes = {} /\ phase = "setup" /\ at = 0 /\ data = 0 /\ hops = 0

has_bigger_id(i) == \E n \in nodes : n >= i
next_id(i) == Min({n \in nodes : n >= i})

\* Mutant: the successor of an id is never the node with that id.
successorStrict(i) ==
  LET id == (i % Ring) + 1
  IN  IF has_bigger_id(id) THEN next_id(id) ELSE next_id(0)

successor(i) ==
  LET id == i % Ring
  IN  IF has_bigger_id(id) THEN next_id(id) ELSE next_id(0)

\* How far it is from node id to other, clockwise.
distance(id, other) ==
  LET o == other % Ring
  IN  IF o >= id THEN o - id ELSE Ring + o - id

finger(id, i) == successor(id + 2 ^ (i - 1))

\* Mutant: a finger may be beyond the destination.
UsableBeyond(id, i, dst) == finger(id, i) # id

\* Finger i does not lie beyond the destination.
Usable(id, i, dst) == distance(id, finger(id, i)) <= distance(id, dst)

\* Mutant: the loop ends before the first finger.
RoutesWithoutFirst(id, i, dst) ==
  /\ i > 1
  /\ Usable(id, i, dst)
  /\ \A j \in i + 1 .. Bits : ~Usable(id, j, dst)

\* The loop takes the usable finger with the largest index.
Routes(id, i, dst) ==
  /\ Usable(id, i, dst)
  /\ \A j \in i + 1 .. Bits : ~Usable(id, j, dst)

\* gen_id, which refuses to fill the ids up, and add_node.
AddNode(n) ==
  /\ phase = "setup"
  /\ (4 * Cardinality(nodes)) \div 3 < Ring
  /\ n \notin nodes
  /\ nodes' = nodes \cup {n}
  /\ UNCHANGED <<phase, at, data, hops>>

\* gen_message at the node of get_random_node.
GenMessage(n) ==
  /\ phase = "setup"
  /\ n \in nodes
  /\ phase' = "start"
  /\ at' = n
  /\ UNCHANGED <<nodes, data, hops>>

\* start_message draws keys until one is not its own, and handles the message.
DrawKey(k) ==
  /\ phase = "start"
  /\ successor(k) # at
  /\ data' = k
  /\ phase' = "moving"
  /\ UNCHANGED <<nodes, at, hops>>

\* handle_message: the message has arrived; the callback counts its hops.
Receive ==
  /\ phase = "moving"
  /\ at = successor(data)
  /\ phase' = "received"
  /\ UNCHANGED <<nodes, at, data, hops>>

Forward(i) ==
  /\ phase = "moving"
  /\ at # successor(data)
  /\ Routes(at, i, successor(data))
  /\ finger(at, i) # at
  /\ at' = finger(at, i)
  /\ hops' = hops + 1
  /\ UNCHANGED <<nodes, phase, data>>

\* The finger is the node itself: send_message throws, the handler ends, and
\* the message is gone.
SendThrows(i) ==
  /\ phase = "moving"
  /\ at # successor(data)
  /\ Routes(at, i, successor(data))
  /\ finger(at, i) = at
  /\ phase' = "lost"
  /\ UNCHANGED <<nodes, at, data, hops>>

HandleMessage == Receive \/ \E i \in 1 .. Bits : Forward(i) \/ SendThrows(i)

Next ==
  \/ \E n \in Id : AddNode(n) \/ GenMessage(n)
  \/ \E k \in Id : DrawKey(k)
  \/ HandleMessage

Spec == Init /\ [][Next]_vars

\* A message that has been enqueued is handled.
FairSpec == Spec /\ WF_vars(HandleMessage)
------------------------------------------------------------------------------
(* Properties. *)

\* How far it is from a to b, clockwise, whatever the nodes compute.
Clockwise(a, b) == (b - a) % Ring

\* No node lies in the half of the ring before a: its last finger is a itself.
GapBefore(a) == \A n \in nodes : Clockwise(a, n) < Ring \div 2

\* A message is received by the first node from its key on, clockwise, and its hops
\* are an index of the program's `counts`, which has bits+1 entries, that it prints.
AtResponsible ==
  phase = "received" =>
    /\ at \in nodes /\ \A n \in nodes : Clockwise(data, at) <= Clockwise(data, n)
    /\ hops \in 1 .. Bits

\* Each hop at least halves the way that is left: handle_message takes the
\* farthest finger that is not beyond the destination.
Halves ==
  [][at' # at /\ phase = "moving" =>
       2 * Clockwise(at', successor(data)) < Clockwise(at, successor(data))]_vars

\* Every message is received, or lost at a node that has no other node in the half of
\* the ring before it: only there is a finger the node itself, and send_message throws.
DeliveredButForGap ==
  phase = "moving" ~> phase = "received" \/ (phase = "lost" /\ GapBefore(at))

===============================================================================
