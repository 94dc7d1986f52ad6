---------------------------- MODULE BlockTreeProofs ---------------------------
(***************************************************************************)
(* Facts about a tree of the blocks 0 .. n, given by the parent of each    *)
(* block: what the recursive functions that TinyNode and SelfishCoordinator*)
(* define on the blocks compute.  A recursive function is a CHOOSE, so     *)
(* that there is a function with the equation has to be shown first; what  *)
(* would be an induction on the blocks looks at a smallest block instead.  *)
(* The same for the powers of two, which are sizes of sets of subsets.     *)
(***************************************************************************)
EXTENDS Integers, FiniteSets, FiniteSetTheorems, WellFoundedInduction, TLAPS

\* A set of numbers has a smallest one.
LEMMA LeastNat ==
  ASSUME NEW T \in SUBSET Nat, T # {}
  PROVE  \E x \in T : \A y \in T : x <= y
  <1> DEFINE R == OpToRel(<, Nat)
  <1>1. IsWellFoundedOn(R, Nat) BY NatLessThanWellFounded
  <1>2. \A x, y \in Nat : y < x => <<y, x>> \in R BY DEF OpToRel
  <1> HIDE DEF R
  <1>3. PICK x \in T : \A y \in T : ~ (<<y, x>> \in R) BY <1>1, WFMin
  <1>4. ASSUME NEW y \in T PROVE x <= y
    <2>1. x \in Nat /\ y \in Nat OBVIOUS
    <2>2. ~(y < x) BY <1>2, <1>3, <2>1, Zenon
    <2> QED BY <2>1, <2>2
  <1> QED BY <1>4

\* A set of subsets of a finite set has one that no smaller one is a part of.
LEMMA LeastSet ==
  ASSUME NEW T, IsFiniteSet(T), NEW U \in SUBSET SUBSET T, U # {}
  PROVE  \E s \in U : IsFiniteSet(s) /\ \A x \in s : s \ {x} \notin U
  <1> DEFINE sizes == {Cardinality(s) : s \in U}
  <1>1. \A s \in U : IsFiniteSet(s) BY FS_Subset
  <1>2. \A s \in U : Cardinality(s) \in Nat BY <1>1, FS_CardinalityType
  <1>3. sizes \in SUBSET Nat /\ sizes # {} BY <1>2
  <1>4. PICK k \in sizes : \A j \in sizes : k <= j
    <2> HIDE DEF sizes
    <2> QED BY <1>3, LeastNat
  <1>5. PICK s \in U : Cardinality(s) = k BY <1>4
  <1>6. ASSUME NEW x \in s, s \ {x} \in U PROVE FALSE
    <2>1. Cardinality(s \ {x}) = Cardinality(s) - 1 BY <1>1, FS_RemoveElement
    <2>2. k <= Cardinality(s \ {x}) BY <1>4, <1>6
    <2> QED BY <1>2, <1>5, <2>1, <2>2
  <1> QED BY <1>1, <1>5, <1>6
------------------------------------------------------------------------------
(* Powers of two.  The provers know nothing of ^ but how many subsets a    *)
(* finite set has.                                                         *)

\* A power of two is the number of subsets of an interval.
LEMMA PowerCounts ==
  ASSUME NEW n \in Nat
  PROVE  /\ IsFiniteSet(SUBSET (1 .. n))
         /\ Cardinality(SUBSET (1 .. n)) = 2 ^ n
         /\ 2 ^ n \in Nat
  <1>1. IsFiniteSet(1 .. n) /\ Cardinality(1 .. n) = n BY FS_Interval
  <1>2. IsFiniteSet(SUBSET (1 .. n)) /\ Cardinality(SUBSET (1 .. n)) = 2 ^ n
    BY <1>1, FS_SUBSET
  <1> QED BY <1>2, FS_CardinalityType

\* The powers of two start with 1 and double.
LEMMA PowerStep ==
  ASSUME NEW n \in Nat
  PROVE  2 ^ 0 = 1 /\ 2 ^ (n + 1) = 2 * 2 ^ n
  <1>1. 2 ^ 0 = 1
    <2>1. 1 .. 0 = {} OBVIOUS
    <2>2. SUBSET (1 .. 0) = {{}} BY <2>1
    <2>3. Cardinality({{}}) = 1 BY FS_Singleton
    <2> QED BY <2>2, <2>3, PowerCounts
  <1> DEFINE A == SUBSET (1 .. n)
             B == {s \cup {n + 1} : s \in A}
             f == [s \in A |-> s \cup {n + 1}]
  <1>2. n + 1 \notin 1 .. n /\ 1 .. n + 1 = (1 .. n) \cup {n + 1} OBVIOUS
  <1>3. IsFiniteSet(A) /\ Cardinality(A) = 2 ^ n BY PowerCounts
  <1>4. f \in Bijection(A, B)
    <2>1. f \in [A -> B] OBVIOUS
    <2>2. ASSUME NEW s \in A, NEW t \in A, f[s] = f[t] PROVE s = t
      <3>1. s \cup {n + 1} = t \cup {n + 1} BY <2>2
      <3>2. n + 1 \notin s /\ n + 1 \notin t BY <1>2
      <3> QED BY <3>1, <3>2
    <2>3. \A b \in B : \E s \in A : f[s] = b OBVIOUS
    <2> HIDE DEF f, A, B
    <2> QED BY <2>1, <2>2, <2>3 DEF Bijection, Injection, Surjection, IsInjective
  <1>5. IsFiniteSet(B) /\ Cardinality(B) = 2 ^ n
    <2> HIDE DEF f, A, B
    <2>1. ExistsBijection(A, B) BY <1>4 DEF ExistsBijection
    <2> QED BY <1>3, <2>1, FS_Bijection
  <1>6. A \cap B = {} BY <1>2
  <1>7. SUBSET (1 .. n + 1) = A \cup B
    <2>1. ASSUME NEW s \in SUBSET (1 .. n + 1) PROVE s \in A \cup B
      <3>1. CASE n + 1 \in s
        <4>1. s \ {n + 1} \in A /\ s = (s \ {n + 1}) \cup {n + 1} BY <1>2, <3>1
        <4> QED BY <4>1
      <3>2. CASE n + 1 \notin s BY <1>2, <3>2
      <3> QED BY <3>1, <3>2
    <2>2. A \cup B \subseteq SUBSET (1 .. n + 1) BY <1>2
    <2> QED BY <2>1, <2>2
  <1>8. Cardinality(A \cup B) = 2 ^ n + 2 ^ n
    <2> HIDE DEF A, B
    <2>1. Cardinality(A \cup B) = Cardinality(A) + Cardinality(B) - Cardinality(A \cap B)
      BY <1>3, <1>5, FS_Union
    <2>2. Cardinality({}) = 0 BY FS_EmptySet
    <2>3. 2 ^ n \in Nat BY PowerCounts
    <2>4. Cardinality(A \cup B) = 2 ^ n + 2 ^ n - 0
      BY <1>3, <1>5, <1>6, <2>1, <2>2
    <2> QED BY <2>3, <2>4
  <1>9. Cardinality(SUBSET (1 .. n + 1)) = 2 ^ (n + 1)
    <2>1. n + 1 \in Nat OBVIOUS
    <2> QED BY <2>1, PowerCounts
  <1>10. 2 ^ (n + 1) = 2 ^ n + 2 ^ n
    <2> HIDE DEF A, B
    <2> QED BY <1>7, <1>8, <1>9
  <1>11. 2 ^ n \in Nat BY PowerCounts
  <1> QED BY <1>1, <1>10, <1>11

\* A larger exponent gives a power that is not smaller, and none is 0.
LEMMA PowerGrows ==
  ASSUME NEW m \in Nat, NEW n \in Nat, m <= n
  PROVE  2 ^ m \in Nat \ {0} /\ 2 ^ m <= 2 ^ n
  <1>1. \A k \in Nat : 2 ^ k \in Nat /\ 2 ^ (k + 1) = 2 * 2 ^ k
    BY PowerCounts, PowerStep
  <1> DEFINE small == {k \in Nat : 2 ^ k = 0}
             bad == {k \in Nat : m <= k /\ ~(2 ^ m <= 2 ^ k)}
  <1>2. small = {}
    <2>1. SUFFICES ASSUME small # {} PROVE FALSE OBVIOUS
    <2>2. PICK x \in small : \A y \in small : x <= y
      <3>1. small \in SUBSET Nat OBVIOUS
      <3> HIDE DEF small
      <3> QED BY <2>1, <3>1, LeastNat
    <2>3. x # 0
      <3>1. 0 \in Nat OBVIOUS
      <3>2. 2 ^ 0 = 1 BY <3>1, PowerStep
      <3>3. 2 ^ x = 0 BY <2>2
      <3>4. x = 0 => 1 = 0 BY <3>2, <3>3, Zenon
      <3> QED BY <3>4
    <2>4. x - 1 \in Nat /\ (x - 1) + 1 = x BY <2>2, <2>3
    <2>5. 2 ^ x = 2 * 2 ^ (x - 1) /\ 2 ^ (x - 1) \in Nat BY <1>1, <2>4
    <2>6. 2 ^ (x - 1) = 0 BY <2>2, <2>5
    <2>7. x - 1 \in small BY <2>4, <2>6
    <2> QED BY <2>2, <2>4, <2>7
  <1>3. bad = {}
    <2>1. SUFFICES ASSUME bad # {} PROVE FALSE OBVIOUS
    <2>2. PICK x \in bad : \A y \in bad : x <= y
      <3>1. bad \in SUBSET Nat OBVIOUS
      <3> HIDE DEF bad
      <3> QED BY <2>1, <3>1, LeastNat
    <2>3. 2 ^ m \in Nat /\ x \in Nat /\ m <= x /\ ~(2 ^ m <= 2 ^ x) BY <1>1, <2>2
    <2>4. x # m BY <2>3
    <2>5. x - 1 \in Nat /\ (x - 1) + 1 = x /\ m <= x - 1 BY <2>3, <2>4
    <2>6. 2 ^ x = 2 * 2 ^ (x - 1) /\ 2 ^ (x - 1) \in Nat BY <1>1, <2>5
    <2>7. ~(2 ^ m <= 2 ^ (x - 1)) BY <2>3, <2>6
    <2>8. x - 1 \in bad BY <2>5, <2>7
    <2> QED BY <2>2, <2>3, <2>5, <2>8
  <1>4. 2 ^ m # 0 BY <1>2
  <1>5. 2 ^ m <= 2 ^ n BY <1>3
  <1> QED BY <1>1, <1>4, <1>5

\* What is left of a number that lies less than a round off the ring.
LEMMA Wraps ==
  ASSUME NEW r \in Nat \ {0}, NEW x \in 0 .. r - 1
  PROVE  x % r = x /\ (x + r) % r = x /\ (x - r) % r = x
  OBVIOUS
------------------------------------------------------------------------------
\* The parents of the blocks 0 .. n: a block other than 0 has an earlier parent.
Tree(par, n) == par \in [0 .. n -> 0 .. n] /\ \A c \in 1 .. n : par[c] < c
------------------------------------------------------------------------------
(* The chain of a block: the block and its ancestors without block 0. *)

IsChain(f, par, n) == f = [c \in 0 .. n |-> IF c = 0 THEN {} ELSE f[par[c]] \cup {c}]
Chain(par, n) == CHOOSE f : IsChain(f, par, n)

\* A set that has the parent of each of its blocks.
Upward(S, par, n) == S \in SUBSET (0 .. n) /\ \A c \in S : c # 0 => par[c] \in S

\* The equation has a solution: the smallest upward sets.
LEMMA ChainExists ==
  ASSUME NEW n \in Nat, NEW par \in [0 .. n -> 0 .. n]
  PROVE  IsChain(Chain(par, n), par, n)
  <1> DEFINE Least(c) == {d \in 1 .. n : \A S \in SUBSET (0 .. n) : Upward(S, par, n) /\ c \in S => d \in S}
             f == [c \in 0 .. n |-> Least(c)]
  <1>1. Least(0) = {}
    <2>1. Upward({0}, par, n) /\ {0} \in SUBSET (0 .. n) BY DEF Upward
    <2>2. ASSUME NEW d \in 1 .. n PROVE d \notin Least(0)
      <3>1. 0 \in {0} /\ d \notin {0} OBVIOUS
      <3> QED BY <2>1, <3>1
    <2> QED BY <2>2
  <1>2. ASSUME NEW c \in 1 .. n PROVE Least(c) = Least(par[c]) \cup {c}
    <2>0. par[c] \in 0 .. n /\ c \in 0 .. n OBVIOUS
    <2>1. ASSUME NEW d \in Least(c), d # c PROVE d \in Least(par[c])
      <3> SUFFICES ASSUME NEW S \in SUBSET (0 .. n), Upward(S, par, n), par[c] \in S PROVE d \in S
        BY <2>1
      <3>1. Upward(S \cup {c}, par, n) BY <2>0 DEF Upward
      <3>2. S \cup {c} \in SUBSET (0 .. n) BY <2>0
      <3> QED BY <2>1, <3>1, <3>2
    <2>2. ASSUME NEW d \in Least(par[c]) PROVE d \in Least(c)
      <3> SUFFICES ASSUME NEW S \in SUBSET (0 .. n), Upward(S, par, n), c \in S PROVE d \in S
        BY <2>2
      <3>1. par[c] \in S BY DEF Upward
      <3> QED BY <2>2, <3>1
    <2>3. c \in Least(c) OBVIOUS
    <2> QED BY <2>1, <2>2, <2>3
  <1> HIDE DEF Least
  <1>3. IsChain(f, par, n) BY <1>1, <1>2 DEF IsChain
  <1> HIDE DEF f
  <1> QED BY <1>3, Zenon DEF Chain

\* The equation of the chain.
LEMMA ChainEquation ==
  ASSUME NEW n \in Nat, NEW par \in [0 .. n -> 0 .. n]
  PROVE  /\ Chain(par, n)[0] = {}
         /\ \A c \in 1 .. n : Chain(par, n)[c] = Chain(par, n)[par[c]] \cup {c}
  <1> DEFINE f == Chain(par, n)
  <1>1. f = [c \in 0 .. n |-> IF c = 0 THEN {} ELSE f[par[c]] \cup {c}] BY ChainExists DEF IsChain
  <1> HIDE DEF f
  <1>2. f[0] = {} BY <1>1
  <1>3. ASSUME NEW c \in 1 .. n PROVE f[c] = f[par[c]] \cup {c}
    <2>1. c \in 0 .. n /\ c # 0 OBVIOUS
    <2>2. f[c] = IF c = 0 THEN {} ELSE f[par[c]] \cup {c} BY <1>1, <2>1, Zenon
    <2> QED BY <2>1, <2>2
  <1> QED BY <1>2, <1>3 DEF f

\* A block's chain has no later block, so the block is not in its parent's chain.
LEMMA ChainBelow ==
  ASSUME NEW n \in Nat, NEW par, Tree(par, n), NEW c \in 0 .. n
  PROVE  /\ Chain(par, n)[c] \subseteq 1 .. c
         /\ c # 0 => c \notin Chain(par, n)[par[c]]
  <1>0. par \in [0 .. n -> 0 .. n] BY DEF Tree
  <1> DEFINE f == Chain(par, n)
             Bad == {d \in 0 .. n : ~(f[d] \subseteq 1 .. d)}
  <1>1. f[0] = {} /\ \A d \in 1 .. n : f[d] = f[par[d]] \cup {d} BY <1>0, ChainEquation
  <1> HIDE DEF f
  <1>2. Bad = {}
    <2> SUFFICES ASSUME Bad # {} PROVE FALSE OBVIOUS
    <2>1. PICK d \in Bad : \A e \in Bad : d <= e
      <3>1. Bad \in SUBSET Nat OBVIOUS
      <3> HIDE DEF Bad
      <3> QED BY <3>1, LeastNat
    <2>2. d \in 1 .. n BY <1>1
    <2>3. par[d] \in 0 .. n /\ par[d] < d BY <2>2 DEF Tree
    <2>4. f[par[d]] \subseteq 1 .. par[d] BY <2>1, <2>2, <2>3
    <2> QED BY <1>1, <2>2, <2>3, <2>4
  <1>3. \A d \in 0 .. n : f[d] \subseteq 1 .. d BY <1>2
  <1>4. ASSUME c # 0 PROVE c \notin f[par[c]]
    <2>1. par[c] \in 0 .. n /\ par[c] < c BY <1>4 DEF Tree
    <2> QED BY <1>3, <2>1
  <1> QED BY <1>3, <1>4 DEF f

\* The chain of a block depends only on the parents of it and of earlier blocks.
LEMMA ChainAgrees ==
  ASSUME NEW n \in Nat, NEW par, Tree(par, n), NEW qar, Tree(qar, n),
         NEW m \in 0 .. n, \A c \in 1 .. m : par[c] = qar[c], NEW c \in 0 .. m
  PROVE  Chain(par, n)[c] = Chain(qar, n)[c]
  <1>0. par \in [0 .. n -> 0 .. n] /\ qar \in [0 .. n -> 0 .. n] BY DEF Tree
  <1> DEFINE f == Chain(par, n)
             g == Chain(qar, n)
             Bad == {d \in 0 .. m : f[d] # g[d]}
  <1>1. f[0] = {} /\ \A d \in 1 .. n : f[d] = f[par[d]] \cup {d} BY <1>0, ChainEquation
  <1>2. g[0] = {} /\ \A d \in 1 .. n : g[d] = g[qar[d]] \cup {d} BY <1>0, ChainEquation
  <1> HIDE DEF f, g
  <1>3. Bad = {}
    <2> SUFFICES ASSUME Bad # {} PROVE FALSE OBVIOUS
    <2>1. PICK d \in Bad : \A e \in Bad : d <= e
      <3>1. Bad \in SUBSET Nat OBVIOUS
      <3> HIDE DEF Bad
      <3> QED BY <3>1, LeastNat
    <2>2. d \in 1 .. n /\ d \in 1 .. m
      <3>1. d \in 0 .. m /\ f[d] # g[d] OBVIOUS
      <3>2. d # 0 BY <1>1, <1>2, <3>1
      <3> QED BY <3>1, <3>2
    <2>3. par[d] \in 0 .. m /\ par[d] < d /\ qar[d] = par[d]
      <3>1. par[d] \in 0 .. n /\ par[d] < d BY <2>2 DEF Tree
      <3>2. par[d] \in 0 .. m BY <2>2, <3>1
      <3> QED BY <2>2, <3>1, <3>2
    <2>4. f[par[d]] = g[par[d]] BY <2>1, <2>2, <2>3
    <2>5. f[d] = f[par[d]] \cup {d} /\ g[d] = g[par[d]] \cup {d} BY <1>1, <1>2, <2>2, <2>3
    <2>6. f[d] # g[d] BY <2>1
    <2> QED BY <2>4, <2>5, <2>6
  <1> QED BY <1>3 DEF f, g
------------------------------------------------------------------------------
(* The height of a block: 1 for block 0. *)

IsHeight(f, par, n) == f = [c \in 0 .. n |-> IF c = 0 THEN 1 ELSE f[par[c]] + 1]
HeightOf(par, n) == CHOOSE f : IsHeight(f, par, n)

\* The equation has a solution: the sizes of the chains.
LEMMA HeightExists ==
  ASSUME NEW n \in Nat, NEW par, Tree(par, n)
  PROVE  IsHeight(HeightOf(par, n), par, n)
  <1>0. par \in [0 .. n -> 0 .. n] BY DEF Tree
  <1> DEFINE ch == Chain(par, n)
             f == [c \in 0 .. n |-> Cardinality(ch[c]) + 1]
  <1>1. ch[0] = {} /\ \A c \in 1 .. n : ch[c] = ch[par[c]] \cup {c} BY <1>0, ChainEquation
  <1>2. \A c \in 0 .. n : ch[c] \subseteq 1 .. c /\ (c # 0 => c \notin ch[par[c]]) BY ChainBelow
  <1> HIDE DEF ch
  <1>3. \A c \in 0 .. n : IsFiniteSet(ch[c])
    <2> SUFFICES ASSUME NEW c \in 0 .. n PROVE IsFiniteSet(ch[c]) OBVIOUS
    <2>1. IsFiniteSet(1 .. c) BY FS_Interval
    <2> QED BY <1>2, <2>1, FS_Subset
  <1>4. ASSUME NEW c \in 1 .. n PROVE Cardinality(ch[c]) = Cardinality(ch[par[c]]) + 1
    <2>1. par[c] \in 0 .. n /\ c \in 0 .. n /\ c # 0 BY <1>0
    <2> QED BY <1>1, <1>2, <1>3, <2>1, FS_AddElement
  <1>5. Cardinality(ch[0]) = 0 BY <1>1, FS_EmptySet
  <1>6. \A c \in 0 .. n : f[c] = IF c = 0 THEN 1 ELSE f[par[c]] + 1
    <2>1. f[0] = 1 BY <1>5
    <2>2. ASSUME NEW c \in 1 .. n PROVE f[c] = f[par[c]] + 1
      <3>1. par[c] \in 0 .. n /\ c \in 0 .. n BY <1>0
      <3> QED BY <1>4, <3>1
    <2> HIDE DEF f
    <2> QED BY <2>1, <2>2
  <1>7. f = [c \in 0 .. n |-> f[c]] OBVIOUS
  <1> HIDE DEF f
  <1>8. IsHeight(f, par, n) BY <1>6, <1>7 DEF IsHeight
  <1> QED BY <1>8, Zenon DEF HeightOf

\* The equation of the height.
LEMMA HeightEquation ==
  ASSUME NEW n \in Nat, NEW par, Tree(par, n)
  PROVE  /\ HeightOf(par, n)[0] = 1
         /\ \A c \in 1 .. n : HeightOf(par, n)[c] = HeightOf(par, n)[par[c]] + 1
  <1> DEFINE f == HeightOf(par, n)
  <1>1. f = [c \in 0 .. n |-> IF c = 0 THEN 1 ELSE f[par[c]] + 1] BY HeightExists DEF IsHeight
  <1> HIDE DEF f
  <1>2. f[0] = 1 BY <1>1
  <1>3. \A c \in 1 .. n : f[c] = f[par[c]] + 1 BY <1>1
  <1> QED BY <1>2, <1>3 DEF f

\* Heights are numbers, and depend only on the parents of a block and of earlier ones.
LEMMA HeightAgrees ==
  ASSUME NEW n \in Nat, NEW par, Tree(par, n), NEW qar, Tree(qar, n),
         NEW m \in 0 .. n, \A c \in 1 .. m : par[c] = qar[c], NEW c \in 0 .. m
  PROVE  HeightOf(par, n)[c] = HeightOf(qar, n)[c] /\ HeightOf(par, n)[c] \in Nat
  <1>0. \A d \in 1 .. n : par[d] \in 0 .. n /\ par[d] < d
    <2>1. par \in [0 .. n -> 0 .. n] /\ \A d \in 1 .. n : par[d] < d BY Zenon DEF Tree
    <2> QED BY <2>1
  <1> DEFINE f == HeightOf(par, n)
             g == HeightOf(qar, n)
             Bad == {d \in 0 .. m : ~(f[d] = g[d] /\ f[d] \in Nat)}
  <1>1. f[0] = 1 /\ \A d \in 1 .. n : f[d] = f[par[d]] + 1 BY HeightEquation
  <1>2. g[0] = 1 /\ \A d \in 1 .. n : g[d] = g[qar[d]] + 1 BY HeightEquation
  <1> HIDE DEF f, g
  <1>3. Bad = {}
    <2> SUFFICES ASSUME Bad # {} PROVE FALSE OBVIOUS
    <2>1. PICK d \in Bad : \A e \in Bad : d <= e
      <3>1. Bad \in SUBSET Nat OBVIOUS
      <3> HIDE DEF Bad
      <3> QED BY <3>1, LeastNat
    <2>2. d \in 1 .. n /\ d \in 1 .. m
      <3>1. d \in 0 .. m /\ ~(f[d] = g[d] /\ f[d] \in Nat) OBVIOUS
      <3>2. d # 0 BY <1>1, <1>2, <3>1
      <3> QED BY <3>1, <3>2
    <2>3. par[d] \in 0 .. m /\ par[d] < d /\ qar[d] = par[d]
      <3>1. par[d] \in 0 .. n /\ par[d] < d BY <1>0, <2>2
      <3>2. par[d] \in 0 .. m BY <2>2, <3>1
      <3> QED BY <2>2, <3>1, <3>2
    <2>4. f[par[d]] = g[par[d]] /\ f[par[d]] \in Nat BY <2>1, <2>2, <2>3
    <2> QED BY <1>1, <1>2, <2>1, <2>2, <2>3, <2>4
  <1> QED BY <1>3 DEF f, g
==============================================================================
