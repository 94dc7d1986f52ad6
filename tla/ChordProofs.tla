------------------------------ MODULE ChordProofs -----------------------------
(***************************************************************************)
(* ChordRouting for rings of any size: what a finger is, that a hop halves *)
(* the way that is left, and so where and after how many hops a message    *)
(* is received.                                                            *)
(***************************************************************************)
EXTENDS ChordRouting, BlockTreeProofs
------------------------------------------------------------------------------
(* The ring. *)

\* There is at least one id.
LEMMA RingSize == Ring \in Nat \ {0}
  BY ChordAssumption, PowerGrows DEF Ring

\* The way from a to b, and how the nodes compute it.
LEMMA Ways ==
  ASSUME NEW a \in Id, NEW b \in Id
  PROVE  /\ Clockwise(a, b) = IF b >= a THEN b - a ELSE b - a + Ring
         /\ Clockwise(a, b) \in Id
         /\ Clockwise(a, b) = 0 <=> a = b
         /\ distance(a, b) = Clockwise(a, b)
  <1>1. Ring \in Nat \ {0} BY RingSize
  <1>2. a \in 0 .. Ring - 1 /\ b \in 0 .. Ring - 1 BY DEF Id
  <1>3. Clockwise(a, b) = IF b >= a THEN b - a ELSE b - a + Ring
    <2>1. CASE b >= a
      <3>1. b - a \in 0 .. Ring - 1 BY <1>1, <1>2, <2>1
      <3>2. (b - a) % Ring = b - a BY <1>1, <3>1, Wraps
      <3> QED BY <2>1, <3>2 DEF Clockwise
    <2>2. CASE ~(b >= a)
      <3> DEFINE x == b - a + Ring
      <3>1. x \in 0 .. Ring - 1 /\ x - Ring = b - a BY <1>1, <1>2, <2>2
      <3>2. (x - Ring) % Ring = x
        <4> HIDE DEF x
        <4> QED BY <1>1, <3>1, Wraps
      <3>3. (b - a) % Ring = x BY <3>1, <3>2
      <3> QED BY <2>2, <3>3 DEF Clockwise
    <2> QED BY <2>1, <2>2
  <1>4. b % Ring = b BY <1>1, <1>2, Wraps
  <1> QED BY <1>1, <1>2, <1>3, <1>4 DEF distance, Id

\* The first id of a node from i on.
LEMMA NextId ==
  ASSUME NEW i \in Nat, nodes \in SUBSET Id, has_bigger_id(i)
  PROVE  next_id(i) \in nodes /\ next_id(i) >= i /\ \A n \in nodes : n >= i => next_id(i) <= n
  <1> DEFINE T == {n \in nodes : n >= i}
  <1>1. T \in SUBSET Nat /\ T # {}
    <2>1. nodes \in SUBSET Nat BY RingSize DEF Id
    <2>2. T # {} BY DEF has_bigger_id
    <2> QED BY <2>1, <2>2
  <1>2. \E x \in T : \A y \in T : x <= y
    <2> HIDE DEF T
    <2> QED BY <1>1, LeastNat
  <1>3. next_id(i) \in T /\ \A y \in T : next_id(i) <= y
    <2>1. next_id(i) = CHOOSE x \in T : \A y \in T : x <= y BY DEF next_id, Min
    <2> HIDE DEF T
    <2> QED BY <1>2, <2>1
  <1> QED BY <1>3

\* The successor of an id is the first node from it on, clockwise.
LEMMA SuccessorFirst ==
  ASSUME NEW k \in Nat, nodes \in SUBSET Id, nodes # {}
  PROVE  /\ k % Ring \in Id
         /\ successor(k) \in nodes
         /\ \A n \in nodes : Clockwise(k % Ring, successor(k)) <= Clockwise(k % Ring, n)
  <1> DEFINE i == k % Ring
  <1>1. Ring \in Nat \ {0} BY RingSize
  <1>2. i \in Id BY <1>1 DEF Id
  <1>3. successor(k) = IF has_bigger_id(i) THEN next_id(i) ELSE next_id(0) BY DEF successor
  <1> HIDE DEF i
  <1>4. i \in Nat /\ \A n \in nodes : n \in Nat /\ n < Ring /\ n >= 0 BY <1>1, <1>2 DEF Id
  <1>5. \A n \in nodes : Clockwise(i, n) = IF n >= i THEN n - i ELSE n - i + Ring BY <1>2, Ways
  <1>6. CASE has_bigger_id(i)
    <2> DEFINE s == next_id(i)
    <2>1. s \in nodes /\ s >= i /\ \A n \in nodes : n >= i => s <= n BY <1>4, <1>6, NextId
    <2>2. successor(k) = s BY <1>3, <1>6
    <2> HIDE DEF s
    <2>3. \A n \in nodes : Clockwise(i, s) <= Clockwise(i, n)
      <3> SUFFICES ASSUME NEW n \in nodes PROVE Clockwise(i, s) <= Clockwise(i, n) OBVIOUS
      <3>1. s \in Nat /\ n \in Nat /\ s < Ring BY <1>4, <2>1
      <3>2. Clockwise(i, s) = s - i BY <1>5, <2>1
      <3>3. Clockwise(i, n) = IF n >= i THEN n - i ELSE n - i + Ring BY <1>5
      <3> QED BY <1>1, <1>4, <2>1, <3>1, <3>2, <3>3
    <2> QED BY <1>2, <2>1, <2>2, <2>3 DEF i
  <1>7. CASE ~has_bigger_id(i)
    <2> DEFINE s == next_id(0)
    <2>1. has_bigger_id(0) BY <1>4 DEF has_bigger_id
    <2>2. s \in nodes /\ \A n \in nodes : s <= n
      <3>1. s \in nodes /\ \A n \in nodes : n >= 0 => s <= n BY <2>1, NextId
      <3> HIDE DEF s
      <3> QED BY <1>4, <3>1
    <2>3. successor(k) = s BY <1>3, <1>7
    <2> HIDE DEF s
    <2>4. \A n \in nodes : n \in Nat /\ n < i BY <1>4, <1>7 DEF has_bigger_id
    <2>5. \A n \in nodes : Clockwise(i, n) = n - i + Ring BY <1>4, <1>5, <2>4
    <2>6. \A n \in nodes : Clockwise(i, s) <= Clockwise(i, n)
      BY <1>1, <1>4, <2>2, <2>4, <2>5
    <2> QED BY <1>2, <2>2, <2>3, <2>6 DEF i
  <1> QED BY <1>6, <1>7

\* Finger i of a node is the first node at least 2^(i-1) away from it, or the node
\* itself when there is none.
LEMMA FingerFirst ==
  ASSUME nodes \in SUBSET Id, NEW a \in nodes, NEW i \in 1 .. Bits
  PROVE  LET p == 2 ^ (i - 1)  f == finger(a, i)
         IN  /\ p \in Nat \ {0} /\ 2 * p <= Ring
             /\ f \in nodes
             /\ f # a => p <= Clockwise(a, f)
             /\ \A n \in nodes : p <= Clockwise(a, n) =>
                  f # a /\ Clockwise(a, f) <= Clockwise(a, n)
  <1> DEFINE p == 2 ^ (i - 1)
             f == finger(a, i)
             k == (a + p) % Ring
  <1>1. Ring \in Nat \ {0} /\ a \in Id BY RingSize
  <1>2. p \in Nat \ {0} /\ 2 * p <= Ring
    <2>1. Bits \in Nat /\ i \in Nat /\ i <= Bits /\ i - 1 \in Nat /\ (i - 1) + 1 = i
      BY ChordAssumption
    <2>2. 2 ^ i = 2 * p BY <2>1, PowerStep
    <2>3. 2 ^ i <= Ring BY <2>1, PowerGrows DEF Ring
    <2>4. p \in Nat \ {0} BY <2>1, PowerGrows
    <2> QED BY <2>2, <2>3, <2>4
  <1>3. f = successor(a + p) BY DEF finger
  <1> HIDE DEF p, f
  <1>4. a \in 0 .. Ring - 1 BY <1>1 DEF Id
  <1>5. a + p \in Nat BY <1>1, <1>2, <1>4
  <1>6. k \in Id /\ f \in nodes /\ \A n \in nodes : Clockwise(k, f) <= Clockwise(k, n)
    BY <1>3, <1>5, SuccessorFirst
  <1>7. k = IF a + p < Ring THEN a + p ELSE a + p - Ring
    <2>1. CASE a + p < Ring
      <3>1. a + p \in 0 .. Ring - 1 BY <1>1, <1>5, <2>1
      <3> QED BY <1>1, <2>1, <3>1, Wraps
    <2>2. CASE ~(a + p < Ring)
      <3> DEFINE x == a + p - Ring
      <3>1. x \in 0 .. Ring - 1 /\ x + Ring = a + p BY <1>1, <1>2, <1>4, <2>2
      <3>2. (x + Ring) % Ring = x
        <4> HIDE DEF x
        <4> QED BY <1>1, <3>1, Wraps
      <3>3. (a + p) % Ring = x BY <3>1, <3>2
      <3> QED BY <2>2, <3>3
    <2> QED BY <2>1, <2>2
  <1> HIDE DEF k
  <1>8. ASSUME NEW n \in nodes
        PROVE  /\ Clockwise(a, n) \in 0 .. Ring - 1
               /\ Clockwise(a, n) = 0 <=> n = a
               /\ Clockwise(k, n) = IF p <= Clockwise(a, n) THEN Clockwise(a, n) - p
                                    ELSE Clockwise(a, n) - p + Ring
    <2>1. n \in Id /\ n \in 0 .. Ring - 1 /\ k \in 0 .. Ring - 1 BY <1>6 DEF Id
    <2>2. Clockwise(a, n) = IF n >= a THEN n - a ELSE n - a + Ring BY <1>1, <2>1, Ways
    <2>3. Clockwise(k, n) = IF n >= k THEN n - k ELSE n - k + Ring BY <1>6, <2>1, Ways
    <2> QED BY <1>1, <1>2, <1>4, <1>7, <2>1, <2>2, <2>3
  <1>9. ASSUME f # a PROVE p <= Clockwise(a, f)
    <2>1. Clockwise(k, f) <= Clockwise(k, a) BY <1>6
    <2>2. /\ Clockwise(a, f) \in 0 .. Ring - 1 /\ Clockwise(a, f) # 0
          /\ Clockwise(k, f) = IF p <= Clockwise(a, f) THEN Clockwise(a, f) - p
                                    ELSE Clockwise(a, f) - p + Ring
      BY <1>6, <1>8, <1>9
    <2>3. /\ Clockwise(a, a) = 0
          /\ Clockwise(k, a) = IF p <= Clockwise(a, a) THEN Clockwise(a, a) - p
                                    ELSE Clockwise(a, a) - p + Ring
      BY <1>8
    <2> QED BY <1>1, <1>2, <2>1, <2>2, <2>3
  <1>10. ASSUME NEW n \in nodes, p <= Clockwise(a, n)
         PROVE  f # a /\ Clockwise(a, f) <= Clockwise(a, n)
    <2>1. Clockwise(k, f) <= Clockwise(k, n) BY <1>6
    <2>2. /\ Clockwise(a, f) \in 0 .. Ring - 1 /\ (Clockwise(a, f) = 0 <=> f = a)
          /\ Clockwise(k, f) = IF p <= Clockwise(a, f) THEN Clockwise(a, f) - p
                                    ELSE Clockwise(a, f) - p + Ring
      BY <1>6, <1>8
    <2>3. Clockwise(a, n) \in 0 .. Ring - 1 /\ Clockwise(k, n) = Clockwise(a, n) - p
      BY <1>8, <1>10
    <2>4. p <= Clockwise(a, f) BY <1>1, <1>2, <1>10, <2>1, <2>2, <2>3
    <2>5. f # a BY <1>1, <1>2, <2>2, <2>4
    <2> QED BY <1>1, <1>2, <1>10, <2>1, <2>2, <2>3, <2>4, <2>5
  <1> QED BY <1>2, <1>6, <1>9, <1>10 DEF p, f
------------------------------------------------------------------------------
(* A step of handle_message. *)

\* The finger that the loop takes towards another node leaves less than half of the
\* way, or it is the node itself; then it is the last one, and no node lies in the
\* half of the ring before it.
LEMMA HopHalves ==
  ASSUME nodes \in SUBSET Id, NEW a \in nodes, NEW dst \in nodes, dst # a,
         NEW i \in 1 .. Bits, Routes(a, i, dst)
  PROVE  /\ finger(a, i) \in nodes
         /\ finger(a, i) # a => 2 * Clockwise(finger(a, i), dst) < Clockwise(a, dst)
         /\ finger(a, i) = a => GapBefore(a)
  <1> DEFINE p == 2 ^ (i - 1)
             f == finger(a, i)
  <1>1. Ring \in Nat \ {0} BY RingSize
  <1>2. /\ p \in Nat \ {0} /\ 2 * p <= Ring /\ f \in nodes
        /\ f # a => p <= Clockwise(a, f)
        /\ \A n \in nodes : p <= Clockwise(a, n) => f # a /\ Clockwise(a, f) <= Clockwise(a, n)
    BY FingerFirst
  <1>3. Bits \in Nat /\ i \in Nat /\ i <= Bits /\ i - 1 \in Nat /\ (i - 1) + 1 = i
    BY ChordAssumption
  <1>4. \A n \in nodes : /\ Clockwise(a, n) \in 0 .. Ring - 1
                         /\ Clockwise(a, n) = 0 <=> a = n
                         /\ distance(a, n) = Clockwise(a, n)
    BY Ways DEF Id
  <1>5. Clockwise(a, f) <= Clockwise(a, dst) BY <1>2, <1>4 DEF Routes, Usable
  <1>6. i = Bits => 2 * p = Ring BY <1>3, PowerStep DEF Ring
  <1>7. ASSUME i # Bits
        PROVE  Clockwise(a, dst) < 2 * p /\ f # a
    <2> DEFINE g == finger(a, i + 1)
               q == 2 ^ i
    <2>1. i + 1 \in 1 .. Bits /\ i + 1 \in i + 1 .. Bits /\ (i + 1) - 1 = i BY <1>3, <1>7
    <2>2. q = 2 * p BY <1>3, PowerStep
    <2>3. /\ g \in nodes
          /\ g # a => q <= Clockwise(a, g)
          /\ \A n \in nodes : q <= Clockwise(a, n) => g # a /\ Clockwise(a, g) <= Clockwise(a, n)
      BY <2>1, FingerFirst
    <2>4. ~(Clockwise(a, g) <= Clockwise(a, dst))
      <3>1. ~Usable(a, i + 1, dst) BY <2>1 DEF Routes
      <3> HIDE DEF g
      <3>2. distance(a, g) = Clockwise(a, g) BY <1>4, <2>3
      <3>3. distance(a, dst) = Clockwise(a, dst) BY <1>4
      <3> QED BY <3>1, <3>2, <3>3 DEF Usable, g
    <2> HIDE DEF g, p, f, q
    <2>5. g # a BY <1>4, <2>4
    <2>6. q <= Clockwise(a, g) /\ Clockwise(a, g) \in Int /\ Clockwise(a, dst) \in Int
      BY <1>4, <2>3, <2>5
    <2>7. ~(q <= Clockwise(a, dst)) BY <2>3, <2>4
    <2>8. p <= Clockwise(a, g) BY <1>2, <2>2, <2>6
    <2>9. f # a BY <1>2, <2>3, <2>8
    <2> QED BY <1>2, <2>2, <2>6, <2>7, <2>9
  <1>8. Clockwise(a, dst) < 2 * p
    <2>1. Clockwise(a, dst) \in 0 .. Ring - 1 BY <1>4
    <2> HIDE DEF p
    <2> QED BY <1>1, <1>2, <1>6, <1>7, <2>1
  <1> HIDE DEF p, f
  <1>9. ASSUME f # a PROVE 2 * Clockwise(f, dst) < Clockwise(a, dst)
    <2>1. a \in Id /\ f \in Id /\ dst \in Id BY <1>2
    <2>2. a \in 0 .. Ring - 1 /\ f \in 0 .. Ring - 1 /\ dst \in 0 .. Ring - 1
      BY <2>1 DEF Id
    <2>3. Clockwise(a, f) = IF f >= a THEN f - a ELSE f - a + Ring BY <2>1, Ways
    <2>4. Clockwise(a, dst) = IF dst >= a THEN dst - a ELSE dst - a + Ring BY <2>1, Ways
    <2>5. Clockwise(f, dst) = IF dst >= f THEN dst - f ELSE dst - f + Ring BY <2>1, Ways
    <2>6. Clockwise(f, dst) = Clockwise(a, dst) - Clockwise(a, f)
      BY <1>1, <1>5, <2>2, <2>3, <2>4, <2>5
    <2>7. Clockwise(a, f) \in Int /\ Clockwise(a, dst) \in Int /\ p <= Clockwise(a, f)
      BY <1>2, <1>4, <1>9
    <2> QED BY <1>2, <1>8, <2>6, <2>7
  <1>10. ASSUME f = a PROVE GapBefore(a)
    <2>1. 2 * p = Ring BY <1>6, <1>7, <1>10
    <2>2. Ring \div 2 = p BY <1>2, <2>1
    <2>3. ASSUME NEW n \in nodes PROVE Clockwise(a, n) < p
      <3>1. ~(p <= Clockwise(a, n)) BY <1>2, <1>10
      <3>2. Clockwise(a, n) \in Int BY <1>4
      <3> QED BY <1>2, <3>1, <3>2
    <2> QED BY <2>2, <2>3 DEF GapBefore
  <1> QED BY <1>2, <1>9, <1>10 DEF f
------------------------------------------------------------------------------
(* The invariant. *)

\* The fields of the message, and the nodes it may be at.
ChordTypeOK ==
  /\ nodes \in SUBSET Id
  /\ phase \in {"setup", "start", "moving", "received", "lost"}
  /\ phase # "setup" => at \in nodes
  /\ data \in Id
  /\ hops \in 0 .. Bits

\* Every hop has halved the way that is left, and the first one is made because the
\* message starts at a node that is not responsible for its key.
WayLeft ==
  /\ phase \in {"setup", "start"} => hops = 0
  /\ phase \in {"moving", "received"} => 2 ^ hops * Clockwise(at, successor(data)) < Ring
  /\ phase = "moving" /\ hops = 0 => at # successor(data)
  /\ phase = "received" => at = successor(data) /\ hops # 0

\* send_message throws only at a node with no other node in the half before it.
LostAtGap == phase = "lost" => GapBefore(at)

ChordInv == ChordTypeOK /\ WayLeft /\ LostAtGap

\* The invariant holds before there are nodes.
LEMMA ChordInvInit == Init => ChordInv
  BY ChordAssumption, RingSize DEF Init, ChordInv, ChordTypeOK, WayLeft, LostAtGap, Id

\* The destination of a message is a node.
LEMMA Destination ==
  ASSUME ChordTypeOK, phase # "setup"
  PROVE  successor(data) \in nodes
  <1>1. data \in Nat BY RingSize DEF ChordTypeOK, Id
  <1>2. nodes \in SUBSET Id /\ nodes # {} BY DEF ChordTypeOK
  <1> QED BY <1>1, <1>2, SuccessorFirst

\* Every step keeps the invariant.
LEMMA ChordInvStep == ChordInv /\ [Next]_vars => ChordInv'
  <1> SUFFICES ASSUME ChordInv, [Next]_vars PROVE ChordInv' OBVIOUS
  <1> USE DEF ChordInv
  <1>0. Ring \in Nat \ {0} /\ Bits \in Nat \ {0} BY RingSize, ChordAssumption
  <1>1. ASSUME NEW n \in Id, AddNode(n) PROVE ChordInv'
    BY <1>1 DEF AddNode, ChordTypeOK, WayLeft, LostAtGap
  <1>2. ASSUME NEW n \in Id, GenMessage(n) PROVE ChordInv'
    BY <1>2 DEF GenMessage, ChordTypeOK, WayLeft, LostAtGap
  <1>3. ASSUME NEW k \in Id, DrawKey(k) PROVE ChordInv'
    <2>1. ChordTypeOK' BY <1>3 DEF DrawKey, ChordTypeOK
    <2>2. successor(data)' = successor(k)
      BY <1>3 DEF DrawKey, successor, has_bigger_id, next_id
    <2>3. successor(k) \in nodes
      <3>1. nodes \in SUBSET Id /\ nodes # {} BY <1>3 DEF DrawKey, ChordTypeOK
      <3>2. k \in Nat BY <1>0 DEF Id
      <3> QED BY <3>1, <3>2, SuccessorFirst
    <2>4. at \in Id /\ successor(k) \in Id BY <1>3, <2>3 DEF DrawKey, ChordTypeOK
    <2>5. Clockwise(at, successor(k)) \in 0 .. Ring - 1 BY <2>4, Ways DEF Id
    <2>6. hops = 0 /\ 2 ^ hops = 1 BY <1>3, PowerStep DEF DrawKey, WayLeft
    <2>7. 2 ^ hops * Clockwise(at, successor(k)) < Ring BY <1>0, <2>5, <2>6
    <2>8. (2 ^ hops * Clockwise(at, successor(data)))' < Ring
      BY <1>3, <2>2, <2>7 DEF DrawKey, Clockwise
    <2>9. WayLeft' BY <1>3, <2>2, <2>8 DEF DrawKey, WayLeft, Ring
    <2>10. LostAtGap' BY <1>3 DEF DrawKey, LostAtGap
    <2> QED BY <2>1, <2>9, <2>10
  <1>4. ASSUME Receive PROVE ChordInv'
    <2>1. successor(data)' = successor(data)
      BY <1>4 DEF Receive, successor, has_bigger_id, next_id
    <2>2. ChordTypeOK' BY <1>4 DEF Receive, ChordTypeOK
    <2>3. hops # 0 /\ at = successor(data) /\ 2 ^ hops * Clockwise(at, successor(data)) < Ring
      BY <1>4 DEF Receive, WayLeft
    <2>4. WayLeft'
      BY <1>4, <2>1, <2>3 DEF Receive, WayLeft, Clockwise
    <2> QED BY <1>4, <2>2, <2>4 DEF Receive, LostAtGap
  <1>5. ASSUME NEW i \in 1 .. Bits, Forward(i) PROVE ChordInv'
    <2> DEFINE dst == successor(data)
               f == finger(at, i)
               P == 2 ^ hops
               C == Clockwise(at, dst)
               D == Clockwise(f, dst)
    <2>1. dst' = dst BY <1>5 DEF Forward, successor, has_bigger_id, next_id
    <2>2. nodes \in SUBSET Id /\ at \in nodes /\ dst \in nodes /\ dst # at
      BY <1>5, Destination DEF Forward, ChordTypeOK
    <2>3. f \in nodes /\ 2 * D < C
      BY <1>5, <2>2, HopHalves DEF Forward
    <2>4. C \in Nat /\ C # 0 /\ D \in Nat
      <3>1. at \in Id /\ dst \in Id /\ f \in Id BY <2>2, <2>3
      <3> HIDE DEF dst, f
      <3>2. C \in Id /\ (C = 0 <=> at = dst) /\ D \in Id BY <3>1, Ways
      <3> HIDE DEF C, D
      <3> QED BY <1>0, <2>2, <3>2 DEF Id
    <2>5. P * C < Ring BY <1>5 DEF Forward, WayLeft
    <2>6. hops \in Nat /\ hops <= Bits BY <1>0 DEF ChordTypeOK
    <2>7. P \in Nat \ {0} /\ 2 ^ (hops + 1) = 2 * P BY <2>6, PowerStep, PowerGrows
    <2>8. hops < Bits
      <3> SUFFICES ASSUME hops = Bits PROVE FALSE BY <1>0, <2>6
      <3>1. P = Ring BY DEF Ring
      <3> HIDE DEF P, C, dst
      <3> QED BY <1>0, <2>4, <2>5, <3>1
    <2>9. (2 * P) * D < Ring
      <3> HIDE DEF P, C, D
      <3>1. P * (2 * D) < P * C BY <2>3, <2>4, <2>7
      <3>2. (2 * P) * D = P * (2 * D) BY <2>4, <2>7
      <3>3. P * (2 * D) \in Int /\ P * C \in Int BY <2>4, <2>7
      <3> QED BY <1>0, <2>5, <3>1, <3>2, <3>3
    <2>10. at' = f /\ hops' = hops + 1 /\ nodes' = nodes /\ data' = data /\ phase' = "moving"
      BY <1>5 DEF Forward
    <2>11. ChordTypeOK'
      <3>1. hops + 1 \in 0 .. Bits BY <1>0, <2>6, <2>8
      <3> HIDE DEF f
      <3> QED BY <2>3, <2>10, <3>1 DEF ChordTypeOK
    <2>12. WayLeft'
      <3>1. hops' # 0 BY <2>6, <2>10
      <3>2. 2 ^ (hops + 1) * D < Ring BY <2>7, <2>9
      <3>3. (2 ^ hops * Clockwise(at, successor(data)))' = 2 ^ (hops + 1) * D
        BY <2>1, <2>10 DEF Clockwise
      <3> QED BY <2>10, <3>1, <3>2, <3>3 DEF WayLeft
    <2> QED BY <2>10, <2>11, <2>12 DEF LostAtGap
  <1>6. ASSUME NEW i \in 1 .. Bits, SendThrows(i) PROVE ChordInv'
    <2>1. nodes \in SUBSET Id /\ at \in nodes /\ successor(data) \in nodes /\ successor(data) # at
      BY <1>6, Destination DEF SendThrows, ChordTypeOK
    <2>2. GapBefore(at) BY <1>6, <2>1, HopHalves DEF SendThrows
    <2>3. ChordTypeOK' BY <1>6 DEF SendThrows, ChordTypeOK
    <2>4. WayLeft' BY <1>6 DEF SendThrows, WayLeft
    <2>5. LostAtGap' BY <1>6, <2>2 DEF SendThrows, LostAtGap, GapBefore, Clockwise
    <2> QED BY <2>3, <2>4, <2>5
  <1>7. CASE UNCHANGED vars
    BY <1>7 DEF vars, ChordTypeOK, WayLeft, LostAtGap, GapBefore, Clockwise,
                successor, has_bigger_id, next_id
  <1> QED BY <1>1, <1>2, <1>3, <1>4, <1>5, <1>6, <1>7 DEF Next, HandleMessage

\* The invariant holds in every behaviour of the program.
LEMMA ChordInvHolds == Spec => []ChordInv
  BY ChordInvInit, ChordInvStep, PTL DEF Spec

\* In a ring of any size a message is received by the node that is responsible for
\* its key, handle_message's destination, after at least one hop and no more of them
\* than an id has bits, so that the program's `counts` has an entry for it.
THEOREM ReceivedByResponsible == Spec => []AtResponsible
  <1>1. ChordInv => AtResponsible
    <2> SUFFICES ASSUME ChordInv, phase = "received" PROVE
          /\ at \in nodes /\ \A n \in nodes : Clockwise(data, at) <= Clockwise(data, n)
          /\ hops \in 1 .. Bits
      BY DEF AtResponsible
    <2>1. at \in nodes /\ nodes \in SUBSET Id /\ data \in Id /\ hops \in 0 .. Bits
      BY DEF ChordInv, ChordTypeOK
    <2>2. at = successor(data) /\ hops # 0 BY DEF ChordInv, WayLeft
    <2>3. data \in Nat /\ data \in 0 .. Ring - 1 BY <2>1, RingSize DEF Id
    <2>4. data % Ring = data BY <2>3, RingSize, Wraps
    <2>5. \A n \in nodes : Clockwise(data, at) <= Clockwise(data, n)
      BY <2>1, <2>2, <2>3, <2>4, SuccessorFirst
    <2> QED BY <2>1, <2>2, <2>5, ChordAssumption
  <1> QED BY <1>1, ChordInvHolds, PTL

\* In a ring of any size, with nodes anywhere on it, a hop leaves less than half of
\* the way: the loop of handle_message takes the farthest finger not beyond the
\* destination.
THEOREM HopsHalve == Spec => Halves
  <1> DEFINE Step == at' # at /\ phase = "moving" =>
                       2 * Clockwise(at', successor(data)) < Clockwise(at, successor(data))
  <1>1. ChordInv /\ [Next]_vars => Step
    <2> SUFFICES ASSUME ChordInv, [Next]_vars, at' # at, phase = "moving"
                 PROVE  2 * Clockwise(at', successor(data)) < Clockwise(at, successor(data))
      OBVIOUS
    <2>1. PICK i \in 1 .. Bits : Forward(i)
      BY DEF Next, HandleMessage, AddNode, GenMessage, DrawKey, Receive, SendThrows, vars
    <2>2. nodes \in SUBSET Id /\ at \in nodes /\ successor(data) \in nodes
      BY Destination DEF ChordInv, ChordTypeOK
    <2> QED BY <2>1, <2>2, HopHalves DEF Forward
  <1>2. ChordInv /\ [Next]_vars => [Step]_vars BY <1>1
  <1>3. Spec => [][Step]_vars
    <2> HIDE DEF Step
    <2> QED BY <1>2, ChordInvHolds, PTL DEF Spec
  <1> QED BY <1>3 DEF Halves

\* A message is lost only at a node that has no other node in the half of the ring
\* before it: nowhere else is the finger that handle_message takes the node itself.
THEOREM LostOnlyAtGap == Spec => []LostAtGap
  <1>1. ChordInv => LostAtGap BY DEF ChordInv
  <1> QED BY <1>1, ChordInvHolds, PTL

==============================================================================
