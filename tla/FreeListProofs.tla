---------------------------- MODULE FreeListProofs ----------------------------
(***************************************************************************)
(* Proofs about the list of free blocks, for every number of threads and   *)
(* of blocks: no block is in two hands, and none is lost.                  *)
(***************************************************************************)
EXTENDS FreeList, FiniteSetTheorems, TLAPS

FLAG == SHOULD_BE_ON_FREELIST
NodeOrNull == Nodes \cup {Null}
Flagged(n) == freeListRefs[n] >= FLAG

\* Whether the count of n holds the list's own reference.
OnList(n) == n \in Listed \/ Taking(n) # {} \/ Linked(n) # {}

\* The places between which a thread uses try_get's head, and its node.
HasHead == {"refs", "incr", "next", "swing"}
HasNode == {"next", "swing", "drop2", "drop1", "load", "setnext", "setrefs", "link", "retry"}
------------------------------------------------------------------------------
(* The inductive invariant. *)

\* The type invariant; what a thread has loaded is a count while it takes a
\* reference, and a node while it swings the head.
TypeOK ==
  /\ freeListHead \in NodeOrNull
  /\ freeListRefs \in [Nodes -> 0 .. Width - 1]
  /\ freeListNext \in [Nodes -> NodeOrNull]
  /\ owner \in [Nodes -> Threads \cup {Null}]
  /\ pc \in [Threads -> Places]
  /\ head \in [Threads -> NodeOrNull]
  /\ node \in [Threads -> NodeOrNull]
  /\ top \in [Threads -> NodeOrNull]
  /\ seen \in [Threads -> NodeOrNull \cup Int]
  /\ resume \in [Threads -> BOOLEAN]

\* What a thread has in its variables at each place: the count it has seen is of a
\* node that was referenced, and the next node it has seen is the next node still.
LocalOK(t) ==
  /\ pc[t] \in HasHead => head[t] # Null
  /\ pc[t] \in HasNode => node[t] # Null
  /\ pc[t] = "incr" => seen[t] \in 0 .. Width - 1 /\ References(seen[t]) # 0
  /\ pc[t] \in {"next", "swing"} => head[t] = node[t]
  /\ pc[t] = "swing" => seen[t] = freeListNext[node[t]]
  /\ pc[t] \in {"setrefs", "link"} => freeListNext[node[t]] = top[t]

\* The list does not run in a circle.
Acyclic == \A n \in Listed : n \notin Reach(freeListNext, freeListNext[n])

\* The count of a node below the flag is the number of references.
CountOK(n) ==
  References(freeListRefs[n]) = Cardinality(Referencing(n)) + (IF OnList(n) THEN 1 ELSE 0)

\* A node is in one place only.
PlaceOK(n) ==
  /\ owner[n] # Null => n \notin Listed /\ Taking(n) = {} /\ Adding(n) = {} /\ ~Flagged(n)
  /\ n \in Listed => Taking(n) = {} /\ Adding(n) = {} /\ ~Flagged(n)
  /\ Taking(n) # {} => Adding(n) = {} /\ ~Flagged(n)
  /\ \A t, u \in Taking(n) : t = u
  /\ \A t, u \in Adding(n) : t = u

\* A node that is being added is flagged and unreferenced until it is ready for the
\* list, and not flagged from then on; a node that is nowhere else is flagged and
\* referenced.
AddOK(n) ==
  /\ \A t \in Adding(n) :
       IF t \in Linked(n) THEN ~Flagged(n) ELSE freeListRefs[n] = FLAG
  /\ owner[n] = Null /\ n \notin Listed /\ Taking(n) = {} /\ Adding(n) = {} =>
       Flagged(n) /\ Referencing(n) # {}

NodeOK(n) == CountOK(n) /\ PlaceOK(n) /\ AddOK(n)

Inv ==
  /\ TypeOK
  /\ \A t \in Threads : LocalOK(t)
  /\ Acyclic
  /\ \A n \in Nodes : NodeOK(n)
------------------------------------------------------------------------------
(* The count and its flag. *)

\* The flag leaves room for a reference of every thread and the list's.
LEMMA FlagFacts ==
  /\ FLAG \in Nat /\ FLAG > 0 /\ Width \in Nat /\ Width = FLAG + FLAG
  /\ Cardinality(Threads) \in Nat /\ FLAG > Cardinality(Threads) + 1
  BY FreeListAssumption, FS_CardinalityType DEF FLAG, Width

\* Without the flag the count is the number of references.
LEMMA ReferencesUnflagged == ASSUME NEW r \in 0 .. FLAG - 1 PROVE References(r) = r
  BY FlagFacts DEF References, FLAG

\* The flag is masked.
LEMMA ReferencesFlagged == ASSUME NEW r \in FLAG .. Width - 1 PROVE References(r) = r - FLAG
  BY FlagFacts DEF References, FLAG, Width

\* The count wraps at its width, and only there.
LEMMA FetchAddType == ASSUME NEW r \in Int, NEW d \in Int PROVE FetchAdd(r, d) \in 0 .. Width - 1
  BY FlagFacts DEF FetchAdd

\* It does not wrap round as long as the sum fits.
LEMMA FetchAddExact ==
  ASSUME NEW r \in Int, NEW d \in Int, r + d \in 0 .. Width - 1 PROVE FetchAdd(r, d) = r + d
  <1> DEFINE s == r + d
  <1>1. s \in 0 .. Width - 1 OBVIOUS
  <1> HIDE DEF s
  <1>2. s % Width = s BY <1>1, FlagFacts
  <1> QED BY <1>2 DEF FetchAdd, s
------------------------------------------------------------------------------
(* The nodes that are reached from one. *)

\* Nothing is reached from nullptr.
LEMMA ReachNull == ASSUME NEW next PROVE Reach(next, Null) = {}
  <1>1. Closed(next, {}) BY DEF Closed
  <1> QED BY <1>1 DEF Reach

\* What is reached is closed, and is the least such set.
LEMMA ReachClosed ==
  ASSUME NEW next \in [Nodes -> NodeOrNull], NEW x \in NodeOrNull
  PROVE  /\ Reach(next, x) \in SUBSET Nodes /\ Closed(next, Reach(next, x))
         /\ x # Null => x \in Reach(next, x)
  BY DEF Reach, Closed, NodeOrNull

\* It is the smallest closed set.
LEMMA ReachLeast ==
  ASSUME NEW next, NEW x, NEW S \in SUBSET Nodes, Closed(next, S), x # Null => x \in S
  PROVE  Reach(next, x) \subseteq S
  BY DEF Reach

\* A node reaches itself and what the next one reaches.
LEMMA ReachStep ==
  ASSUME NEW next \in [Nodes -> NodeOrNull], NEW x \in Nodes
  PROVE  Reach(next, x) = {x} \cup Reach(next, next[x])
  <1>0. x \in NodeOrNull /\ next[x] \in NodeOrNull /\ x # Null BY FreeListAssumption DEF NodeOrNull
  <1> DEFINE R == Reach(next, x)  Q == Reach(next, next[x])
  <1>1. /\ R \in SUBSET Nodes /\ Closed(next, R) /\ x \in R
        /\ Q \in SUBSET Nodes /\ Closed(next, Q) /\ (next[x] # Null => next[x] \in Q)
    BY <1>0, ReachClosed
  <1>2. Q \subseteq R
    <2>1. next[x] # Null => next[x] \in R BY <1>1 DEF Closed
    <2> QED BY <1>1, <2>1, ReachLeast
  <1>3. Closed(next, {x} \cup Q) BY <1>1 DEF Closed
  <1>4. R \subseteq {x} \cup Q
    <2> HIDE DEF R, Q
    <2>1. {x} \cup Q \in SUBSET Nodes BY <1>1
    <2> QED BY <1>0, <1>3, <2>1, ReachLeast DEF R
  <1> QED BY <1>1, <1>2, <1>4

\* What is reached does not depend on the nodes outside it.
LEMMA ReachSame ==
  ASSUME NEW next \in [Nodes -> NodeOrNull], NEW x \in NodeOrNull,
         NEW m \in Nodes, NEW v \in NodeOrNull, m \notin Reach(next, x)
  PROVE  Reach([next EXCEPT ![m] = v], x) = Reach(next, x)
  <1> DEFINE new == [next EXCEPT ![m] = v]  R == Reach(next, x)  Q == Reach(new, x)
  <1>0. new \in [Nodes -> NodeOrNull] /\ \A n \in Nodes : n # m => new[n] = next[n] OBVIOUS
  <1> HIDE DEF new
  <1>1. R \in SUBSET Nodes /\ Closed(next, R) /\ (x # Null => x \in R) /\ m \notin R
    BY ReachClosed
  <1>2. Q \in SUBSET Nodes /\ Closed(new, Q) /\ (x # Null => x \in Q)
    BY <1>0, ReachClosed
  <1> HIDE DEF R, Q
  <1>3. Closed(new, R) BY <1>0, <1>1 DEF Closed
  <1>4. Q \subseteq R BY <1>1, <1>3, ReachLeast DEF Q
  <1>5. Closed(next, Q) BY <1>0, <1>1, <1>2, <1>4 DEF Closed
  <1>6. R \subseteq Q BY <1>2, <1>5, ReachLeast DEF R
  <1> QED BY <1>4, <1>6 DEF Q, R, new
------------------------------------------------------------------------------
(* What a step leaves alone. *)

\* The number of threads in a set of threads.
LEMMA ThreadSets ==
  ASSUME NEW S \in SUBSET Threads
  PROVE  IsFiniteSet(S) /\ Cardinality(S) \in Nat /\ Cardinality(S) <= Cardinality(Threads)
  BY FreeListAssumption, FS_Subset, FS_CardinalityType

\* A thread that comes to a set and one that leaves it are counted.
LEMMA ThreadJoins ==
  ASSUME NEW S \in SUBSET Threads, NEW t \in Threads, t \notin S
  PROVE  Cardinality(S \cup {t}) = Cardinality(S) + 1
  BY ThreadSets, FS_AddElement

\* One thread less.
LEMMA ThreadLeaves ==
  ASSUME NEW S \in SUBSET Threads, NEW t \in S
  PROVE  Cardinality(S \ {t}) = Cardinality(S) - 1
  BY ThreadSets, FS_RemoveElement

\* No thread at all.
LEMMA ThreadNone ==
  ASSUME NEW S \in SUBSET Threads
  PROVE  Cardinality(S) = 0 <=> S = {}
  BY ThreadSets, FS_EmptySet

\* The sets of threads that handle a node.
LEMMA SetsType ==
  ASSUME NEW n
  PROVE  /\ Referencing(n) \in SUBSET Threads /\ Taking(n) \in SUBSET Referencing(n)
         /\ Adding(n) \in SUBSET Threads /\ Linked(n) \in SUBSET Adding(n)
  BY DEF Referencing, Taking, Adding, Linked

\* Every other thread is where it was.
Alone(t) ==
  \A u \in Threads \ {t} :
    pc'[u] = pc[u] /\ head'[u] = head[u] /\ node'[u] = node[u] /\ top'[u] = top[u] /\ seen'[u] = seen[u]

SetsSame(n) ==
  /\ Referencing(n)' = Referencing(n) /\ Taking(n)' = Taking(n)
  /\ Adding(n)' = Adding(n) /\ Linked(n)' = Linked(n)

\* A thread that does not handle a node, before or after, leaves its sets alone.
LEMMA SetsFrame ==
  ASSUME NEW t \in Threads, NEW n \in Nodes, Alone(t),
         ~(pc[t] \in HasNode /\ node[t] = n), ~(pc'[t] \in HasNode /\ node'[t] = n)
  PROVE  SetsSame(n)
  BY DEF Alone, HasNode, SetsSame, Referencing, Taking, Adding, Linked

\* A node whose count, owner, sets and place on the list stay is as good as before.
LEMMA NodeFrame ==
  ASSUME NEW n \in Nodes, NodeOK(n), SetsSame(n), (n \in Listed)' <=> n \in Listed,
         freeListRefs'[n] = freeListRefs[n], owner'[n] = owner[n]
  PROVE  NodeOK(n)'
  <1>1. OnList(n)' <=> OnList(n) BY DEF OnList, SetsSame
  <1>2. CountOK(n)' BY <1>1 DEF NodeOK, CountOK, SetsSame
  <1>3. PlaceOK(n)' BY DEF NodeOK, PlaceOK, SetsSame, Flagged
  <1>4. AddOK(n)' BY DEF NodeOK, AddOK, SetsSame, Flagged
  <1> QED BY <1>2, <1>3, <1>4 DEF NodeOK

\* A thread whose variables, and whose node's next one, stay is as good as before.
LEMMA LocalFrame ==
  ASSUME NEW t \in Threads, NEW u \in Threads \ {t}, Alone(t), LocalOK(u),
         pc[u] \in {"swing", "setrefs", "link"} => freeListNext'[node[u]] = freeListNext[node[u]]
  PROVE  LocalOK(u)'
  BY DEF Alone, LocalOK, HasHead, HasNode

\* Every step of a thread leaves the other threads where they are.
LEMMA StepAlone == ASSUME TypeOK, NEW t \in Threads, Step(t) PROVE Alone(t)
  <1> USE DEF TypeOK, Alone, Goto, Return, Loop, Added, list, locals
  <1>1. CASE LoadHead(t) BY <1>1 DEF LoadHead
  <1>2. CASE LoadRefs(t) BY <1>2 DEF LoadRefs
  <1>3. CASE TakeReference(t) BY <1>3 DEF TakeReference
  <1>4. CASE LoadNext(t) BY <1>4 DEF LoadNext
  <1>5. CASE SwingHead(t) BY <1>5 DEF SwingHead
  <1>6. CASE TakeNode(t) BY <1>6 DEF TakeNode
  <1>7. CASE DropReference(t) BY <1>7 DEF DropReference
  <1>8. CASE \E n \in Nodes : Add(t, n) BY <1>8 DEF Add
  <1>9. CASE LoadTop(t) BY <1>9 DEF LoadTop
  <1>10. CASE StoreNext(t) BY <1>10 DEF StoreNext
  <1>11. CASE StoreRefs(t) BY <1>11 DEF StoreRefs
  <1>12. CASE Link(t) BY <1>12 DEF Link
  <1>13. CASE GiveUp(t) BY <1>13 DEF GiveUp
  <1> QED BY <1>1, <1>2, <1>3, <1>4, <1>5, <1>6, <1>7, <1>8, <1>9, <1>10, <1>11, <1>12, <1>13 DEF Step

\* The types of a thread's own variables.
LocalTypes ==
  /\ pc \in [Threads -> Places]
  /\ head \in [Threads -> NodeOrNull]
  /\ node \in [Threads -> NodeOrNull]
  /\ top \in [Threads -> NodeOrNull]
  /\ seen \in [Threads -> NodeOrNull \cup Int]
  /\ resume \in [Threads -> BOOLEAN]

\* A function with a new value of the same type.
LEMMA Update ==
  ASSUME NEW S, NEW T, NEW f \in [S -> T], NEW x, NEW y \in T
  PROVE  [f EXCEPT ![x] = y] \in [S -> T]
  OBVIOUS

\* try_get's loop, and the return from it, keep them.
LEMMA LoopTypes ==
  ASSUME LocalTypes, NEW t \in Threads, NEW h \in NodeOrNull, Loop(t, h) \/ Return(t)
  PROVE  LocalTypes'
  <1>1. Null \in NodeOrNull /\ Null \in NodeOrNull \cup Int BY DEF NodeOrNull
  <1>2. \E x \in {"idle", "refs"}, y \in NodeOrNull :
          /\ pc' = [pc EXCEPT ![t] = x] /\ head' = [head EXCEPT ![t] = y]
          /\ node' = [node EXCEPT ![t] = Null] /\ top' = [top EXCEPT ![t] = Null]
          /\ seen' = [seen EXCEPT ![t] = Null] /\ resume' = [resume EXCEPT ![t] = FALSE]
    BY <1>1, Zenon DEF Loop, Return
  <1>3. PICK x \in {"idle", "refs"}, y \in NodeOrNull :
          /\ pc' = [pc EXCEPT ![t] = x] /\ head' = [head EXCEPT ![t] = y]
          /\ node' = [node EXCEPT ![t] = Null] /\ top' = [top EXCEPT ![t] = Null]
          /\ seen' = [seen EXCEPT ![t] = Null] /\ resume' = [resume EXCEPT ![t] = FALSE]
    BY <1>2
  <1>4. x \in Places BY DEF Places
  <1>5. pc' \in [Threads -> Places] BY <1>3, <1>4, Update DEF LocalTypes
  <1>6. head' \in [Threads -> NodeOrNull] BY <1>3, Update DEF LocalTypes
  <1>7. node' \in [Threads -> NodeOrNull] BY <1>1, <1>3, Update DEF LocalTypes
  <1>8. top' \in [Threads -> NodeOrNull] BY <1>1, <1>3, Update DEF LocalTypes
  <1>9. seen' \in [Threads -> NodeOrNull \cup Int] BY <1>1, <1>3, Update DEF LocalTypes
  <1>10. FALSE \in BOOLEAN OBVIOUS
  <1>11. resume' \in [Threads -> BOOLEAN] BY <1>3, <1>10, Update DEF LocalTypes
  <1> QED BY <1>5, <1>6, <1>7, <1>8, <1>9, <1>11 DEF LocalTypes

\* The types, of the shared variables and of the thread's own.
LEMMA StepType == ASSUME Inv, NEW t \in Threads, Step(t) PROVE TypeOK'
  <1>0. /\ LocalOK(t) /\ TypeOK
        /\ \A n \in Nodes : freeListRefs[n] \in Int
        /\ 0 \in 0 .. Width - 1 /\ 1 \in 0 .. Width - 1
        /\ FLAG \in Int /\ FLAG - 1 \in Int
    BY FlagFacts DEF Inv, TypeOK
  <1>a. \A n \in Nodes, d \in Int : FetchAdd(freeListRefs[n], d) \in 0 .. Width - 1
    BY <1>0, FetchAddType
  <1>b. pc[t] \in HasNode => node[t] \in Nodes BY <1>0 DEF LocalOK, TypeOK, NodeOrNull
  <1>c. pc[t] \in HasHead => head[t] \in Nodes BY <1>0 DEF LocalOK, TypeOK, NodeOrNull
  <1>d. Null \in NodeOrNull BY DEF NodeOrNull
  <1>e. LocalTypes BY <1>0 DEF TypeOK, LocalTypes
  <1>f. ASSUME /\ \E h \in NodeOrNull : Loop(t, h) \/ Return(t)
               /\ freeListHead' \in NodeOrNull /\ freeListRefs' \in [Nodes -> 0 .. Width - 1]
               /\ freeListNext' = freeListNext /\ owner' = owner
        PROVE  TypeOK'
    <2>1. LocalTypes' BY <1>e, <1>f, LoopTypes
    <2> QED BY <1>0, <1>f, <2>1 DEF TypeOK, LocalTypes
  <1>1. CASE LoadHead(t)
    <2>1. freeListHead \in NodeOrNull /\ Loop(t, freeListHead) BY <1>0, <1>1 DEF LoadHead, TypeOK
    <2> QED BY <1>0, <1>1, <1>f, <2>1 DEF LoadHead, list, TypeOK
  <1> USE <1>0, <1>d DEF TypeOK, Goto, list, locals, Places
  <1>2. CASE LoadRefs(t)
    <2>1. freeListRefs[head[t]] \in Int BY <1>2, <1>c DEF LoadRefs, HasHead
    <2> QED BY <1>2, <2>1 DEF LoadRefs
  <1>3. CASE TakeReference(t)
    <2>1. head[t] \in Nodes /\ FetchAdd(freeListRefs[head[t]], 1) \in 0 .. Width - 1
      BY <1>3, <1>c, <1>a DEF TakeReference, HasHead
    <2> QED BY <1>3, <2>1 DEF TakeReference
  <1>4. CASE LoadNext(t) BY <1>4, <1>c DEF LoadNext, HasHead
  <1>5. CASE SwingHead(t)
    <2>1. seen[t] \in NodeOrNull BY <1>5, <1>b DEF SwingHead, HasNode, LocalOK
    <2> QED BY <1>5, <2>1 DEF SwingHead
  <1>6. CASE TakeNode(t)
    <2>1. node[t] \in Nodes /\ FetchAdd(freeListRefs[node[t]], -2) \in 0 .. Width - 1
      BY <1>6, <1>b, <1>a DEF TakeNode, HasNode
    <2>2. /\ freeListRefs' \in [Nodes -> 0 .. Width - 1] /\ owner' \in [Nodes -> Threads \cup {Null}]
          /\ freeListHead' = freeListHead /\ freeListNext' = freeListNext
      BY <1>6, <2>1 DEF TakeNode
    <2>3. LocalTypes' BY <1>6, <1>d, <1>e, LoopTypes DEF TakeNode
    <2> QED BY <2>2, <2>3 DEF LocalTypes
  <1>7. CASE DropReference(t)
    <2>1. node[t] \in Nodes /\ FetchAdd(freeListRefs[node[t]], -1) \in 0 .. Width - 1
      BY <1>7, <1>b, <1>a DEF DropReference, HasNode
    <2>2. freeListRefs' \in [Nodes -> 0 .. Width - 1] BY <1>7, <2>1 DEF DropReference
    <2>3. /\ freeListHead' = freeListHead /\ freeListNext' = freeListNext /\ owner' = owner
      BY <1>7 DEF DropReference
    <2>4. CASE /\ pc' = [pc EXCEPT ![t] = "load"] /\ resume' = [resume EXCEPT ![t] = TRUE]
               /\ UNCHANGED <<head, node, top, seen>>
      BY <2>2, <2>3, <2>4
    <2>5. CASE Loop(t, head[t])
      <3>1. head[t] \in NodeOrNull OBVIOUS
      <3> QED BY <1>f, <2>2, <2>3, <2>5, <3>1
    <2> QED BY <1>7, <2>4, <2>5 DEF DropReference
  <1>8. CASE \E n \in Nodes : Add(t, n)
    <2>1. PICK n \in Nodes : Add(t, n) BY <1>8
    <2>2. FetchAdd(freeListRefs[n], SHOULD_BE_ON_FREELIST) \in 0 .. Width - 1 BY <1>a DEF FLAG
    <2> QED BY <2>1, <2>2 DEF Add, NodeOrNull
  <1>9. CASE LoadTop(t) BY <1>9 DEF LoadTop
  <1>10. CASE StoreNext(t) BY <1>10, <1>b DEF StoreNext, HasNode
  <1>11. CASE StoreRefs(t) BY <1>11, <1>b DEF StoreRefs, HasNode
  <1>12. CASE Link(t)
    <2>1. /\ freeListHead' \in NodeOrNull
          /\ freeListRefs' = freeListRefs /\ freeListNext' = freeListNext /\ owner' = owner
      BY <1>12 DEF Link
    <2>2. CASE freeListHead = top[t]
      <3>1. head[t] \in NodeOrNull OBVIOUS
      <3>2. Added(t) BY <1>12, <2>2 DEF Link
      <3>3. Loop(t, head[t]) \/ Return(t) BY <3>2, Zenon DEF Added
      <3> QED BY <1>f, <2>1, <3>1, <3>3
    <2>3. CASE freeListHead # top[t] BY <1>12, <2>1, <2>3 DEF Link
    <2> QED BY <2>2, <2>3
  <1>13. CASE GiveUp(t)
    <2>1. /\ node[t] \in Nodes
          /\ FetchAdd(freeListRefs[node[t]], SHOULD_BE_ON_FREELIST - 1) \in 0 .. Width - 1
      BY <1>13, <1>b, <1>a DEF GiveUp, HasNode, FLAG
    <2>2. /\ freeListRefs' \in [Nodes -> 0 .. Width - 1]
          /\ freeListHead' = freeListHead /\ freeListNext' = freeListNext /\ owner' = owner
      BY <1>13, <2>1 DEF GiveUp
    <2>3. CASE pc' = [pc EXCEPT ![t] = "setnext"] /\ UNCHANGED locals BY <2>2, <2>3
    <2>4. CASE Added(t)
      <3>1. head[t] \in NodeOrNull OBVIOUS
      <3>2. Loop(t, head[t]) \/ Return(t) BY <2>4, Zenon DEF Added
      <3> QED BY <1>f, <2>2, <3>1, <3>2
    <2> QED BY <1>13, <2>3, <2>4 DEF GiveUp
  <1> QED BY <1>1, <1>2, <1>3, <1>4, <1>5, <1>6, <1>7, <1>8, <1>9, <1>10, <1>11, <1>12, <1>13 DEF Step
------------------------------------------------------------------------------
(* The count is changed within its bounds. *)

\* A reference more, while there is room below the flag.
LEMMA CountUp ==
  ASSUME NEW r \in 0 .. Width - 1, References(r) + 1 < FLAG
  PROVE  /\ FetchAdd(r, 1) = r + 1 /\ r + 1 \in 0 .. Width - 1
         /\ References(r + 1) = References(r) + 1 /\ (r + 1 >= FLAG <=> r >= FLAG)
  <1>1. CASE r < FLAG
    <2>1. References(r) = r BY <1>1, ReferencesUnflagged, FlagFacts
    <2>2. References(r + 1) = r + 1 BY <2>1, ReferencesUnflagged, FlagFacts
    <2> QED BY <1>1, <2>1, <2>2, FetchAddExact, FlagFacts
  <1>2. CASE r >= FLAG
    <2>1. References(r) = r - FLAG BY <1>2, ReferencesFlagged, FlagFacts
    <2>2. References(r + 1) = r + 1 - FLAG BY <1>2, <2>1, ReferencesFlagged, FlagFacts
    <2> QED BY <1>2, <2>1, <2>2, FetchAddExact, FlagFacts
  <1> QED BY <1>1, <1>2, FlagFacts

\* References are dropped.
LEMMA CountDown ==
  ASSUME NEW r \in 0 .. Width - 1, NEW k \in Nat, References(r) >= k
  PROVE  /\ FetchAdd(r, -k) = r - k /\ r - k \in 0 .. Width - 1
         /\ References(r - k) = References(r) - k /\ (r - k >= FLAG <=> r >= FLAG)
  <1>1. CASE r < FLAG
    <2>1. References(r) = r BY <1>1, ReferencesUnflagged, FlagFacts
    <2>2. References(r - k) = r - k BY <1>1, <2>1, ReferencesUnflagged, FlagFacts
    <2> QED BY <1>1, <2>1, <2>2, FetchAddExact, FlagFacts
  <1>2. CASE r >= FLAG
    <2>1. References(r) = r - FLAG BY <1>2, ReferencesFlagged, FlagFacts
    <2>2. References(r - k) = r - k - FLAG BY <1>2, <2>1, ReferencesFlagged, FlagFacts
    <2> QED BY <1>2, <2>1, <2>2, FetchAddExact, FlagFacts
  <1> QED BY <1>1, <1>2, FlagFacts

\* The flag is set, and the list's k references dropped with the same addition.
LEMMA CountFlag ==
  ASSUME NEW r \in 0 .. FLAG - 1, NEW k \in 0 .. 1, r >= k
  PROVE  /\ FetchAdd(r, FLAG - k) = r + FLAG - k
         /\ r + FLAG - k \in FLAG .. Width - 1 /\ References(r + FLAG - k) = r - k
  <1>1. PICK s \in FLAG .. Width - 1 : s = r + FLAG - k BY FlagFacts
  <1>2. References(s) = s - FLAG BY <1>1, ReferencesFlagged
  <1>3. FetchAdd(r, FLAG - k) = r + (FLAG - k)
    <2>1. r \in Int /\ FLAG - k \in Int /\ r + (FLAG - k) \in 0 .. Width - 1 BY FlagFacts
    <2> QED BY <2>1, FetchAddExact
  <1> QED BY <1>1, <1>2, <1>3, FlagFacts

\* A flag without references.
LEMMA CountBare == References(FLAG) = 0 /\ References(1) = 1 /\ References(0) = 0
  BY FlagFacts, ReferencesFlagged, ReferencesUnflagged
------------------------------------------------------------------------------
(* The steps. *)

\* What a step may leave alone of a node.
Same(n) ==
  /\ SetsSame(n) /\ ((n \in Listed)' <=> n \in Listed)
  /\ freeListRefs'[n] = freeListRefs[n] /\ owner'[n] = owner[n]

\* A step of a thread keeps the invariant when it does for the thread and for the
\* nodes it changes.
LEMMA Combine ==
  ASSUME Inv, TypeOK', NEW t \in Threads, Alone(t), LocalOK(t)', Acyclic',
         \A u \in Threads \ {t} :
            pc[u] \in {"swing", "setrefs", "link"} => freeListNext'[node[u]] = freeListNext[node[u]],
         \A n \in Nodes : Same(n) \/ NodeOK(n)'
  PROVE  Inv'
  <1>1. \A u \in Threads : LocalOK(u)' BY LocalFrame DEF Inv
  <1>2. \A n \in Nodes : NodeOK(n)' BY NodeFrame DEF Inv, Same
  <1> QED BY <1>1, <1>2 DEF Inv

\* The list changes only with its head and the nodes' next ones.
LEMMA ListFrame ==
  ASSUME Acyclic, UNCHANGED <<freeListHead, freeListNext>>
  PROVE  Listed' = Listed /\ Acyclic'
  BY DEF Listed, Acyclic

\* A step that changes nothing but the thread's variables.
LEMMA Quiet ==
  ASSUME Inv, TypeOK', NEW t \in Threads, Alone(t), LocalOK(t)',
         UNCHANGED <<list, owner>>, \A n \in Nodes : SetsSame(n)
  PROVE  Inv'
  <1>1. Listed' = Listed /\ Acyclic' BY ListFrame DEF Inv, list
  <1>2. \A n \in Nodes : Same(n) BY <1>1 DEF Same, list
  <1>3. freeListNext' = freeListNext BY DEF list
  <1> QED BY <1>1, <1>2, <1>3, Combine

\* A step that changes one node's count and owner and who handles it.
LEMMA OneNode ==
  ASSUME Inv, TypeOK', NEW t \in Threads, NEW m \in Nodes, Alone(t), LocalOK(t)',
         UNCHANGED <<freeListHead, freeListNext>>,
         ~(pc[t] \in HasNode /\ node[t] # m), ~(pc'[t] \in HasNode /\ node'[t] # m),
         \A n \in Nodes \ {m} : freeListRefs'[n] = freeListRefs[n] /\ owner'[n] = owner[n],
         NodeOK(m)'
  PROVE  Inv'
  <1>1. Listed' = Listed /\ Acyclic' BY ListFrame DEF Inv
  <1>2. \A n \in Nodes \ {m} : SetsSame(n) BY SetsFrame
  <1>3. \A n \in Nodes : Same(n) \/ NodeOK(n)' BY <1>1, <1>2 DEF Same
  <1> QED BY <1>1, <1>3, Combine

\* try_get begins, or begins anew.
LEMMA LoadHeadInv == ASSUME Inv, NEW t \in Threads, LoadHead(t) PROVE Inv'
  <1>1. TypeOK' /\ Alone(t) BY StepType, StepAlone DEF Step, Inv
  <1>2. pc[t] \notin HasNode /\ pc'[t] \notin HasNode
    BY DEF LoadHead, Loop, Return, HasNode, Inv, TypeOK
  <1>3. \A n \in Nodes : SetsSame(n) BY <1>1, <1>2, SetsFrame
  <1>4. LocalOK(t)' BY DEF LoadHead, Loop, Return, HasNode, HasHead, Inv, TypeOK, LocalOK
  <1>5. UNCHANGED <<list, owner>> BY DEF LoadHead
  <1> QED BY <1>1, <1>3, <1>4, <1>5, Quiet

\* The count of the head is loaded.
LEMMA LoadRefsInv == ASSUME Inv, NEW t \in Threads, LoadRefs(t) PROVE Inv'
  <1>1. TypeOK' /\ Alone(t) BY StepType, StepAlone DEF Step, Inv
  <1>2. pc[t] \notin HasNode /\ pc'[t] \notin HasNode BY DEF LoadRefs, HasNode, Inv, TypeOK
  <1>3. \A n \in Nodes : SetsSame(n) BY <1>1, <1>2, SetsFrame
  <1>4. LocalOK(t)'
    <2>1. head[t] \in Nodes BY DEF LoadRefs, Inv, LocalOK, HasHead, TypeOK, NodeOrNull
    <2>2. freeListRefs[head[t]] \in 0 .. Width - 1 BY <2>1 DEF Inv, TypeOK
    <2> QED BY <2>1, <2>2 DEF LoadRefs, HasNode, HasHead, Inv, TypeOK, LocalOK
  <1>5. UNCHANGED <<list, owner>> BY DEF LoadRefs
  <1> QED BY <1>1, <1>3, <1>4, <1>5, Quiet

\* A reference is taken: the node was referenced, so nobody is about to reset its count.
LEMMA TakeReferenceInv == ASSUME Inv, NEW t \in Threads, TakeReference(t) PROVE Inv'
  <1>1. TypeOK' /\ Alone(t) /\ TypeOK /\ LocalOK(t) BY StepType, StepAlone DEF Step, Inv
  <1>2. PICK m \in Nodes : m = head[t] /\ freeListRefs[m] \in 0 .. Width - 1 /\ NodeOK(m)
    BY <1>1 DEF TakeReference, LocalOK, HasHead, TypeOK, NodeOrNull, Inv
  <1>3. CASE freeListRefs[m] # seen[t]
    <2>1. pc[t] \notin HasNode /\ pc'[t] \notin HasNode
      BY <1>1, <1>2, <1>3 DEF TakeReference, HasNode, TypeOK
    <2>2. \A n \in Nodes : SetsSame(n) BY <1>1, <2>1, SetsFrame
    <2>3. LocalOK(t)' BY <1>1, <1>3 DEF TakeReference, HasNode, HasHead, TypeOK, LocalOK
    <2>4. UNCHANGED <<list, owner>> BY <1>2, <1>3 DEF TakeReference, list
    <2> QED BY <1>1, <2>2, <2>3, <2>4, Quiet
  <1>4. CASE freeListRefs[m] = seen[t]
    <2> DEFINE r == freeListRefs[m]
    <2>1. /\ freeListRefs' = [freeListRefs EXCEPT ![m] = FetchAdd(r, 1)]
          /\ node'[t] = m /\ pc'[t] = "next" /\ pc[t] = "incr" /\ head' = head
          /\ owner' = owner /\ UNCHANGED <<freeListHead, freeListNext>> /\ References(r) # 0
      BY <1>1, <1>2, <1>4 DEF TakeReference, TypeOK, LocalOK
    <2>2. /\ Referencing(m)' = Referencing(m) \cup {t} /\ t \notin Referencing(m)
          /\ Taking(m)' = Taking(m) /\ Adding(m)' = Adding(m) /\ Linked(m)' = Linked(m)
      BY <1>1, <2>1 DEF Alone, Referencing, Taking, Adding, Linked
    <2>3. Listed' = Listed BY <2>1 DEF Listed
    <2>4. Cardinality(Referencing(m)') = Cardinality(Referencing(m)) + 1
      BY <2>2, SetsType, ThreadJoins
    <2>5. References(r) + 1 < FLAG
      <3>1. Referencing(m)' \in SUBSET Threads BY <2>2, SetsType
      <3>2. Cardinality(Referencing(m)') <= Cardinality(Threads) BY <3>1, ThreadSets
      <3>3. Cardinality(Referencing(m)) \in Nat BY SetsType, ThreadSets
      <3> QED BY <1>2, <2>4, <3>2, <3>3, FlagFacts DEF NodeOK, CountOK
    <2>6. /\ freeListRefs'[m] = r + 1 /\ References(r + 1) = References(r) + 1
          /\ r + 1 >= FLAG <=> r >= FLAG
      BY <1>1, <1>2, <2>1, <2>5, CountUp DEF TypeOK
    <2>7. CountOK(m)'
      <3>1. OnList(m)' <=> OnList(m) BY <2>2, <2>3 DEF OnList
      <3>2. Cardinality(Referencing(m)) \in Nat BY SetsType, ThreadSets
      <3> QED BY <1>2, <2>4, <2>6, <3>1, <3>2 DEF NodeOK, CountOK
    <2>8. Flagged(m)' <=> Flagged(m) BY <2>6 DEF Flagged
    <2>9. PlaceOK(m)' BY <1>2, <2>1, <2>2, <2>3, <2>8 DEF NodeOK, PlaceOK
    <2>10. AddOK(m)'
      <3>1. \A u \in Adding(m) : u \in Linked(m) BY <1>2, <2>1, CountBare DEF NodeOK, AddOK
      <3> QED BY <1>2, <2>1, <2>2, <2>3, <2>8, <3>1 DEF NodeOK, AddOK
    <2>11. NodeOK(m)' BY <2>7, <2>9, <2>10 DEF NodeOK
    <2>12. LocalOK(t)' BY <1>1, <1>2, <2>1, FreeListAssumption DEF HasNode, HasHead, LocalOK
    <2>13. /\ ~(pc[t] \in HasNode /\ node[t] # m) /\ ~(pc'[t] \in HasNode /\ node'[t] # m)
           /\ \A n \in Nodes \ {m} : freeListRefs'[n] = freeListRefs[n] /\ owner'[n] = owner[n]
      BY <1>1, <1>2, <2>1 DEF HasNode, TypeOK
    <2> QED BY <1>1, <1>2, <2>1, <2>11, <2>12, <2>13, OneNode
  <1> QED BY <1>3, <1>4

\* try_get's loop goes on with a head, or the call returns.
LEMMA LoopLocal ==
  ASSUME TypeOK, NEW t \in Threads, NEW h \in NodeOrNull, Loop(t, h)
  PROVE  pc'[t] \notin HasNode /\ LocalOK(t)'
  BY DEF TypeOK, Loop, Return, HasNode, HasHead, LocalOK

\* A thread that has added its node has none.
LEMMA AddedLocal ==
  ASSUME TypeOK, NEW t \in Threads, Added(t)
  PROVE  pc'[t] \notin HasNode /\ LocalOK(t)'
  <1>1. CASE resume[t] BY <1>1, LoopLocal DEF Added, TypeOK
  <1>2. CASE ~resume[t] BY <1>2 DEF Added, Return, TypeOK, HasNode, HasHead, LocalOK
  <1> QED BY <1>1, <1>2

\* The node a thread handles.
LEMMA Handled ==
  ASSUME Inv, NEW t \in Threads, pc[t] \in HasNode
  PROVE  \E m \in Nodes : m = node[t] /\ freeListRefs[m] \in 0 .. Width - 1 /\ NodeOK(m)
  BY DEF Inv, LocalOK, TypeOK, NodeOrNull

\* The next node is loaded.
LEMMA LoadNextInv == ASSUME Inv, NEW t \in Threads, LoadNext(t) PROVE Inv'
  <1>1. TypeOK' /\ Alone(t) /\ TypeOK /\ LocalOK(t) BY StepType, StepAlone DEF Step, Inv
  <1>2. pc[t] = "next" /\ pc'[t] = "swing" /\ node' = node BY <1>1 DEF LoadNext, Goto, TypeOK
  <1>3. \A n \in Nodes : SetsSame(n)
    BY <1>1, <1>2 DEF Alone, SetsSame, Referencing, Taking, Adding, Linked
  <1>4. LocalOK(t)' BY <1>1, <1>2 DEF LoadNext, Goto, HasNode, HasHead, TypeOK, LocalOK, list
  <1>5. UNCHANGED <<list, owner>> BY DEF LoadNext
  <1> QED BY <1>1, <1>3, <1>4, <1>5, Quiet

\* The head is loaded before a node is added.
LEMMA LoadTopInv == ASSUME Inv, NEW t \in Threads, LoadTop(t) PROVE Inv'
  <1>1. TypeOK' /\ Alone(t) /\ TypeOK /\ LocalOK(t) BY StepType, StepAlone DEF Step, Inv
  <1>2. pc[t] = "load" /\ pc'[t] = "setnext" /\ node' = node BY <1>1 DEF LoadTop, Goto, TypeOK
  <1>3. \A n \in Nodes : SetsSame(n)
    BY <1>1, <1>2 DEF Alone, SetsSame, Referencing, Taking, Adding, Linked
  <1>4. LocalOK(t)' BY <1>1, <1>2 DEF LoadTop, HasNode, HasHead, TypeOK, LocalOK
  <1>5. UNCHANGED <<list, owner>> BY DEF LoadTop
  <1> QED BY <1>1, <1>3, <1>4, <1>5, Quiet

\* The head is swung to the next node: the list loses its first node, which the
\* thread takes.  The thread's reference has kept the node from being added anew, so
\* the next node that it has seen is still the next one.
LEMMA SwingHeadInv == ASSUME Inv, NEW t \in Threads, SwingHead(t) PROVE Inv'
  <1>1. TypeOK' /\ Alone(t) /\ TypeOK /\ LocalOK(t) BY StepType, StepAlone DEF Step, Inv
  <1>2. pc[t] = "swing" /\ node' = node /\ UNCHANGED <<freeListRefs, freeListNext, owner>>
    BY DEF SwingHead
  <1>3. CASE freeListHead # head[t]
    <2>1. pc'[t] = "drop1" /\ freeListHead' = freeListHead BY <1>1, <1>3 DEF SwingHead, TypeOK
    <2>2. \A n \in Nodes : SetsSame(n)
      BY <1>1, <1>2, <2>1 DEF Alone, SetsSame, Referencing, Taking, Adding, Linked
    <2>3. LocalOK(t)' BY <1>1, <1>2, <2>1 DEF HasNode, HasHead, LocalOK
    <2>4. UNCHANGED <<list, owner>> BY <1>2, <2>1 DEF list
    <2> QED BY <1>1, <2>2, <2>3, <2>4, Quiet
  <1>4. CASE freeListHead = head[t]
    <2>1. PICK m \in Nodes : m = node[t] /\ NodeOK(m) BY <1>2, Handled DEF HasNode
    <2>2. pc'[t] = "drop2" /\ freeListHead = m /\ freeListHead' = freeListNext[m]
      BY <1>1, <1>2, <1>4, <2>1 DEF SwingHead, TypeOK, LocalOK
    <2>3. m \in Listed /\ Listed' = Listed \ {m} /\ Acyclic'
      <3>1. Listed = {m} \cup Reach(freeListNext, freeListNext[m])
        BY <1>1, <2>2, ReachStep DEF Listed, TypeOK
      <3>2. Listed' = Reach(freeListNext, freeListNext[m]) BY <1>2, <2>2 DEF Listed
      <3>3. m \notin Listed' BY <3>1, <3>2 DEF Inv, Acyclic
      <3> QED BY <1>2, <3>1, <3>2, <3>3 DEF Inv, Acyclic
    <2>4. /\ Referencing(m)' = Referencing(m) /\ Taking(m)' = Taking(m) \cup {t}
          /\ Adding(m)' = Adding(m) /\ Linked(m)' = Linked(m)
      BY <1>1, <1>2, <2>1, <2>2 DEF Alone, Referencing, Taking, Adding, Linked
    <2>5. owner[m] = Null /\ Taking(m) = {} /\ Adding(m) = {} /\ ~Flagged(m)
      BY <2>1, <2>3 DEF NodeOK, PlaceOK
    <2>6. NodeOK(m)'
      <3>1. CountOK(m)' BY <1>2, <2>1, <2>3, <2>4 DEF NodeOK, CountOK, OnList
      <3>2. ~Flagged(m)' BY <1>2, <2>5 DEF Flagged
      <3>3. PlaceOK(m)' BY <1>2, <2>3, <2>4, <2>5, <3>2 DEF PlaceOK
      <3>4. AddOK(m)' BY <2>4, <2>5 DEF AddOK
      <3> QED BY <3>1, <3>3, <3>4 DEF NodeOK
    <2>7. \A n \in Nodes : Same(n) \/ NodeOK(n)'
      <3>1. \A n \in Nodes \ {m} : SetsSame(n) BY <1>1, <1>2, <2>1, SetsFrame
      <3> QED BY <1>2, <2>3, <2>6, <3>1 DEF Same
    <2>8. LocalOK(t)' BY <1>1, <1>2, <2>1, <2>2 DEF HasNode, HasHead, LocalOK
    <2> QED BY <1>1, <1>2, <2>3, <2>7, <2>8, Combine
  <1> QED BY <1>3, <1>4

\* The node is taken: nobody else takes it or adds it, and it gets an owner.
LEMMA TakeNodeInv == ASSUME Inv, NEW t \in Threads, TakeNode(t) PROVE Inv'
  <1>1. TypeOK' /\ Alone(t) /\ TypeOK /\ LocalOK(t) BY StepType, StepAlone DEF Step, Inv
  <1>2. pc[t] = "drop2" /\ pc[t] \in HasNode /\ UNCHANGED <<freeListHead, freeListNext>>
    BY DEF TakeNode, HasNode
  <1>3. PICK m \in Nodes : m = node[t] /\ freeListRefs[m] \in 0 .. Width - 1 /\ NodeOK(m)
    BY <1>2, Handled
  <1>4. pc'[t] = "idle" /\ pc'[t] \notin HasNode BY <1>1 DEF TakeNode, Return, HasNode, TypeOK
  <1>5. t \in Taking(m) /\ Taking(m) \in SUBSET Referencing(m) /\ Referencing(m) \in SUBSET Threads
    BY <1>2, <1>3 DEF Taking, Referencing
  <1>6. /\ Referencing(m)' = Referencing(m) \ {t} /\ Taking(m)' = Taking(m) \ {t}
        /\ Adding(m)' = Adding(m) /\ Linked(m)' = Linked(m)
    BY <1>1, <1>2, <1>4 DEF Alone, Referencing, Taking, Adding, Linked
  <1>7. Adding(m) = {} /\ Linked(m) = {} /\ m \notin Listed /\ Listed' = Listed /\ ~Flagged(m)
        /\ Taking(m)' = {}
    BY <1>2, <1>3, <1>5, <1>6, SetsType DEF NodeOK, PlaceOK, Listed
  <1>8. /\ Cardinality(Referencing(m)) \in Nat
        /\ Cardinality(Referencing(m)') = Cardinality(Referencing(m)) - 1
        /\ Cardinality(Referencing(m)') \in Nat
        /\ References(freeListRefs[m]) = Cardinality(Referencing(m)) + 1
    <2>1. Referencing(m)' \in SUBSET Threads BY <1>5, <1>6
    <2> QED BY <1>3, <1>5, <1>6, <2>1, ThreadLeaves, ThreadSets DEF NodeOK, CountOK, OnList
  <1>9. /\ freeListRefs'[m] = freeListRefs[m] - 2
        /\ References(freeListRefs'[m]) = Cardinality(Referencing(m)')
        /\ ~Flagged(m)'
    <2>1. References(freeListRefs[m]) >= 2 BY <1>8
    <2>2. freeListRefs'[m] = FetchAdd(freeListRefs[m], -2) BY <1>1, <1>3 DEF TakeNode, TypeOK
    <2> QED BY <1>3, <1>7, <1>8, <2>1, <2>2, CountDown DEF Flagged
  <1>10. NodeOK(m)'
    <2>1. CountOK(m)' BY <1>6, <1>7, <1>8, <1>9 DEF CountOK, OnList
    <2>2. PlaceOK(m)' BY <1>6, <1>7, <1>9 DEF PlaceOK
    <2>3. owner'[m] # Null BY <1>1, <1>3, FreeListAssumption DEF TakeNode, TypeOK
    <2>4. AddOK(m)' BY <1>6, <1>7, <2>3 DEF AddOK
    <2> QED BY <2>1, <2>2, <2>4 DEF NodeOK
  <1>11. LocalOK(t)' BY <1>1, <1>4 DEF HasNode, HasHead, LocalOK
  <1>12. \A n \in Nodes \ {m} : freeListRefs'[n] = freeListRefs[n] /\ owner'[n] = owner[n]
    BY <1>1, <1>3 DEF TakeNode, TypeOK
  <1> QED BY <1>1, <1>2, <1>3, <1>4, <1>10, <1>11, <1>12, OneNode

\* A reference is dropped; if it was the last one of a flagged node, the thread adds
\* the node, and if not, another thread holds a reference still.
LEMMA DropReferenceInv == ASSUME Inv, NEW t \in Threads, DropReference(t) PROVE Inv'
  <1>1. TypeOK' /\ Alone(t) /\ TypeOK /\ LocalOK(t) BY StepType, StepAlone DEF Step, Inv
  <1>2. /\ pc[t] = "drop1" /\ pc[t] \in HasNode
        /\ UNCHANGED <<freeListHead, freeListNext>> /\ owner' = owner
    BY DEF DropReference, HasNode
  <1>3. PICK m \in Nodes : m = node[t] /\ freeListRefs[m] \in 0 .. Width - 1 /\ NodeOK(m)
    BY <1>2, Handled
  <1> DEFINE last == freeListRefs[m] = FLAG + 1
  <1>4. /\ freeListRefs'[m] = FetchAdd(freeListRefs[m], -1)
        /\ \A n \in Nodes \ {m} : freeListRefs'[n] = freeListRefs[n] /\ owner'[n] = owner[n]
    BY <1>1, <1>2, <1>3 DEF DropReference, TypeOK
  <1>5. t \in Referencing(m) /\ t \notin Taking(m) /\ t \notin Adding(m)
    BY <1>2, <1>3 DEF Taking, Referencing, Adding
  <1>6. Referencing(m) \in SUBSET Threads /\ Taking(m) \in SUBSET Referencing(m)
        /\ Linked(m) \in SUBSET Adding(m)
    BY SetsType
  <1>7. Listed' = Listed BY <1>2 DEF Listed
  <1>8. /\ Cardinality(Referencing(m)) \in Nat
        /\ Cardinality(Referencing(m) \ {t}) = Cardinality(Referencing(m)) - 1
        /\ Cardinality(Referencing(m) \ {t}) \in Nat
        /\ Cardinality(Referencing(m) \ {t}) = 0 <=> Referencing(m) \ {t} = {}
    <2>1. Referencing(m) \ {t} \in SUBSET Threads BY <1>6
    <2> QED BY <1>5, <1>6, <2>1, ThreadLeaves, ThreadSets, ThreadNone
  <1>9. References(freeListRefs[m]) >= 1 BY <1>3, <1>8 DEF NodeOK, CountOK
  <1>10. /\ freeListRefs'[m] = freeListRefs[m] - 1
         /\ References(freeListRefs'[m]) = References(freeListRefs[m]) - 1
         /\ Flagged(m)' <=> Flagged(m)
    BY <1>3, <1>4, <1>9, CountDown DEF Flagged
  <1>11. CASE last
    <2>1. pc'[t] = "load" /\ node' = node BY <1>1, <1>3, <1>11 DEF DropReference, TypeOK, FLAG
    <2>2. Flagged(m) /\ References(freeListRefs[m]) = 1 /\ freeListRefs'[m] = FLAG
      BY <1>3, <1>10, <1>11, ReferencesFlagged, FlagFacts DEF Flagged
    <2>3. owner[m] = Null /\ m \notin Listed /\ Taking(m) = {}
      BY <1>3, <2>2 DEF NodeOK, PlaceOK
    <2>4. Adding(m) = {} /\ Linked(m) = {}
      BY <1>3, <1>6, <1>11, <2>2, FlagFacts DEF NodeOK, AddOK
    <2>5. /\ Referencing(m)' = Referencing(m) \ {t} /\ Taking(m)' = {}
          /\ Adding(m)' = {t} /\ Linked(m)' = {}
      BY <1>1, <1>2, <1>3, <2>1, <2>3, <2>4 DEF Alone, Referencing, Taking, Adding, Linked
    <2>6. CountOK(m)' BY <1>3, <1>7, <1>8, <1>10, <2>2, <2>3, <2>4, <2>5 DEF NodeOK, CountOK, OnList
    <2>7. PlaceOK(m)' BY <1>2, <1>7, <2>3, <2>5 DEF PlaceOK
    <2>8. AddOK(m)' BY <2>2, <2>5 DEF AddOK
    <2>9. LocalOK(t)' BY <1>1, <1>2, <2>1 DEF LocalOK, HasNode, HasHead
    <2> QED BY <1>1, <1>2, <1>3, <1>4, <2>1, <2>6, <2>7, <2>8, <2>9, OneNode DEF NodeOK
  <1>12. CASE ~last
    <2>1. Loop(t, head[t]) BY <1>3, <1>12 DEF DropReference, FLAG
    <2>2. pc'[t] \notin HasNode /\ LocalOK(t)' BY <1>1, <2>1, LoopLocal DEF TypeOK
    <2>3. /\ Referencing(m)' = Referencing(m) \ {t} /\ Taking(m)' = Taking(m)
          /\ Adding(m)' = Adding(m) /\ Linked(m)' = Linked(m)
      BY <1>1, <1>2, <2>2 DEF Alone, HasNode, Referencing, Taking, Adding, Linked
    <2>4. CountOK(m)' BY <1>3, <1>7, <1>8, <1>10, <2>3 DEF NodeOK, CountOK, OnList
    <2>5. PlaceOK(m)' BY <1>2, <1>3, <1>7, <1>10, <2>3 DEF NodeOK, PlaceOK
    <2>6. \A u \in Adding(m) : u \in Linked(m)
      BY <1>3, <1>9, CountBare DEF NodeOK, AddOK
    <2>7. ASSUME owner[m] = Null, m \notin Listed, Taking(m) = {}, Adding(m) = {}
          PROVE  Flagged(m) /\ Referencing(m) \ {t} # {}
      <3>1. Flagged(m) BY <1>3, <2>7 DEF NodeOK, AddOK
      <3>2. References(freeListRefs[m]) = freeListRefs[m] - FLAG
        BY <1>3, <3>1, ReferencesFlagged, FlagFacts DEF Flagged
      <3>3. References(freeListRefs[m]) # 1 BY <1>3, <1>12, <3>2, FlagFacts
      <3>4. ~OnList(m) BY <1>6, <2>7 DEF OnList
      <3>5. Cardinality(Referencing(m)) # 1 BY <1>3, <1>8, <3>3, <3>4 DEF NodeOK, CountOK
      <3> QED BY <1>8, <3>1, <3>5
    <2>8. AddOK(m)' BY <1>2, <1>3, <1>7, <1>10, <2>3, <2>6, <2>7 DEF NodeOK, AddOK
    <2> QED BY <1>1, <1>2, <1>3, <1>4, <2>2, <2>4, <2>5, <2>8, OneNode DEF NodeOK
  <1> QED BY <1>11, <1>12

\* A node is given back: the flag is set, and the thread adds the node itself unless
\* somebody holds a reference.
LEMMA AddInv == ASSUME Inv, NEW t \in Threads, NEW m \in Nodes, Add(t, m) PROVE Inv'
  <1>1. TypeOK' /\ Alone(t) /\ TypeOK /\ LocalOK(t) BY StepType, StepAlone DEF Step, Inv
  <1>2. /\ pc[t] = "idle" /\ pc[t] \notin HasNode /\ owner[m] # Null /\ owner'[m] = Null
        /\ UNCHANGED <<freeListHead, freeListNext>>
        /\ freeListRefs[m] \in 0 .. Width - 1 /\ NodeOK(m)
    BY <1>1, FreeListAssumption DEF Add, HasNode, TypeOK, Inv
  <1>3. /\ freeListRefs'[m] = FetchAdd(freeListRefs[m], FLAG)
        /\ \A n \in Nodes \ {m} : freeListRefs'[n] = freeListRefs[n] /\ owner'[n] = owner[n]
    BY <1>1 DEF Add, TypeOK, FLAG
  <1>4. /\ m \notin Listed /\ Listed' = Listed /\ Taking(m) = {} /\ Adding(m) = {} /\ Linked(m) = {}
        /\ ~Flagged(m)
    BY <1>2, SetsType DEF NodeOK, PlaceOK, Listed
  <1>5. /\ References(freeListRefs[m]) = freeListRefs[m]
        /\ freeListRefs'[m] = freeListRefs[m] + FLAG
        /\ References(freeListRefs'[m]) = freeListRefs[m] /\ Flagged(m)'
    <2>1. freeListRefs[m] \in 0 .. FLAG - 1 BY <1>2, <1>4, FlagFacts DEF Flagged
    <2>2. FLAG - 0 = FLAG /\ freeListRefs[m] + FLAG - 0 = freeListRefs[m] + FLAG
          /\ freeListRefs[m] - 0 = freeListRefs[m]
      BY <2>1, FlagFacts
    <2> QED BY <1>3, <2>1, <2>2, CountFlag, ReferencesUnflagged, FlagFacts DEF Flagged
  <1>6. Cardinality(Referencing(m)) = freeListRefs[m]
    BY <1>2, <1>4, <1>5, SetsType, ThreadSets DEF NodeOK, CountOK, OnList
  <1>7. /\ Referencing(m)' = Referencing(m) /\ Taking(m)' = {}
        /\ Adding(m)' = IF freeListRefs[m] = 0 THEN {t} ELSE {}
        /\ Linked(m)' = {}
        /\ (pc'[t] \in HasNode => node'[t] = m)
    <2>1. CASE freeListRefs[m] = 0
      <3>1. pc'[t] = "load" /\ node'[t] = m BY <1>1, <2>1 DEF Add, TypeOK
      <3> QED BY <1>1, <1>2, <1>4, <2>1, <3>1 DEF Alone, Referencing, Taking, Adding, Linked
    <2>2. CASE freeListRefs[m] # 0
      <3>1. pc' = pc /\ node' = node BY <1>1, <2>2 DEF Add, TypeOK
      <3> QED BY <1>1, <1>2, <1>4, <2>2, <3>1 DEF Alone, Referencing, Taking, Adding, Linked
    <2> QED BY <2>1, <2>2
  <1>8. NodeOK(m)'
    <2>1. CountOK(m)' BY <1>4, <1>5, <1>6, <1>7, <1>2 DEF CountOK, OnList
    <2>2. PlaceOK(m)' BY <1>2, <1>4, <1>7 DEF PlaceOK
    <2>3. freeListRefs[m] # 0 => Referencing(m) # {} BY <1>6, SetsType, ThreadNone
    <2>4. freeListRefs[m] = 0 => freeListRefs'[m] = FLAG BY <1>5, FlagFacts
    <2>5. AddOK(m)' BY <1>5, <1>7, <2>3, <2>4 DEF AddOK
    <2> QED BY <2>1, <2>2, <2>5 DEF NodeOK
  <1>9. LocalOK(t)'
    <2>1. CASE freeListRefs[m] = 0
      <3>1. pc'[t] = "load" /\ node'[t] # Null BY <1>1, <2>1, FreeListAssumption DEF Add, TypeOK
      <3> QED BY <3>1 DEF LocalOK, HasNode, HasHead
    <2>2. CASE freeListRefs[m] # 0
      <3>1. pc'[t] = "idle" BY <1>2, <2>2 DEF Add
      <3> QED BY <3>1 DEF LocalOK, HasNode, HasHead
    <2> QED BY <2>1, <2>2
  <1> QED BY <1>1, <1>2, <1>3, <1>7, <1>8, <1>9, OneNode

\* The next node of a node that is being added is written: the node is not on the
\* list, nobody holds a reference and nobody else adds it.
LEMMA StoreNextInv == ASSUME Inv, NEW t \in Threads, StoreNext(t) PROVE Inv'
  <1>1. TypeOK' /\ Alone(t) /\ TypeOK /\ LocalOK(t) BY StepType, StepAlone DEF Step, Inv
  <1>2. /\ pc[t] = "setnext" /\ pc[t] \in HasNode /\ pc'[t] = "setrefs" /\ node' = node
        /\ UNCHANGED <<freeListHead, freeListRefs, owner>>
    BY <1>1 DEF StoreNext, Goto, HasNode, TypeOK, locals
  <1>3. PICK m \in Nodes : m = node[t] /\ NodeOK(m) BY <1>2, Handled
  <1>4. t \in Adding(m) /\ t \notin Linked(m) BY <1>2, <1>3 DEF Adding, Linked
  <1>5. freeListRefs[m] = FLAG /\ m \notin Listed BY <1>3, <1>4 DEF NodeOK, AddOK, PlaceOK
  <1>6. Referencing(m) = {}
    <2>1. Cardinality(Referencing(m)) = 0
      BY <1>3, <1>5, CountBare, SetsType, ThreadSets DEF NodeOK, CountOK
    <2> QED BY <2>1, SetsType, ThreadNone
  <1>7. freeListNext' = [freeListNext EXCEPT ![m] = top[t]] /\ top[t] \in NodeOrNull
    BY <1>1, <1>3 DEF StoreNext, TypeOK
  <1>8. ASSUME NEW x \in NodeOrNull, m \notin Reach(freeListNext, x)
        PROVE  Reach(freeListNext', x) = Reach(freeListNext, x)
    <2>1. freeListNext \in [Nodes -> NodeOrNull] BY <1>1 DEF TypeOK
    <2>2. PICK v \in NodeOrNull : v = top[t] BY <1>7
    <2>3. Reach([freeListNext EXCEPT ![m] = v], x) = Reach(freeListNext, x)
      BY <1>8, <2>1, ReachSame
    <2> QED BY <1>7, <2>2, <2>3
  <1>9. Listed' = Listed BY <1>1, <1>2, <1>5, <1>8 DEF Listed, TypeOK
  <1>10. Acyclic'
    <2> SUFFICES ASSUME NEW n \in Listed PROVE n \notin Reach(freeListNext', freeListNext'[n])
      BY <1>9 DEF Acyclic
    <2>1. /\ Listed \in SUBSET Nodes /\ Closed(freeListNext, Listed)
          /\ n \in Nodes /\ freeListNext[n] \in NodeOrNull
      BY <1>1, ReachClosed DEF Listed, TypeOK
    <2>2. freeListNext'[n] = freeListNext[n] BY <1>1, <1>5, <1>7, <2>1 DEF TypeOK
    <2>3. Reach(freeListNext, freeListNext[n]) \subseteq Listed BY <2>1, ReachLeast DEF Closed
    <2>4. m \notin Reach(freeListNext, freeListNext[n]) BY <1>5, <2>3
    <2> QED BY <1>8, <2>1, <2>2, <2>4 DEF Inv, Acyclic
  <1>11. \A n \in Nodes : SetsSame(n)
    BY <1>1, <1>2 DEF Alone, SetsSame, Referencing, Taking, Adding, Linked
  <1>12. \A n \in Nodes : Same(n) BY <1>2, <1>9, <1>11 DEF Same
  <1>13. \A u \in Threads \ {t} :
            pc[u] \in {"swing", "setrefs", "link"} => freeListNext'[node[u]] = freeListNext[node[u]]
    <2> SUFFICES ASSUME NEW u \in Threads \ {t}, pc[u] \in {"swing", "setrefs", "link"}
                 PROVE  freeListNext'[node[u]] = freeListNext[node[u]]
      OBVIOUS
    <2>1. node[u] \in Nodes BY Handled DEF HasNode
    <2>2. node[u] # m
      <3>1. CASE pc[u] = "swing" BY <1>6, <3>1 DEF Referencing
      <3>2. CASE pc[u] \in {"setrefs", "link"}
        <4>1. node[u] = m => u \in Adding(m) BY <3>2 DEF Adding
        <4> QED BY <1>3, <1>4, <4>1 DEF NodeOK, PlaceOK
      <3> QED BY <3>1, <3>2
    <2> QED BY <1>1, <1>7, <2>1, <2>2 DEF TypeOK
  <1>14. LocalOK(t)'
    <2>1. freeListNext'[m] = top[t] /\ top' = top BY <1>1, <1>7 DEF StoreNext, TypeOK, locals
    <2> QED BY <1>1, <1>2, <1>3, <2>1 DEF LocalOK, HasNode, HasHead
  <1> QED BY <1>1, <1>10, <1>12, <1>13, <1>14, Combine

\* The node is made ready for the list: its count is the list's reference.
LEMMA StoreRefsInv == ASSUME Inv, NEW t \in Threads, StoreRefs(t) PROVE Inv'
  <1>1. TypeOK' /\ Alone(t) /\ TypeOK /\ LocalOK(t) BY StepType, StepAlone DEF Step, Inv
  <1>2. /\ pc[t] = "setrefs" /\ pc[t] \in HasNode /\ pc'[t] = "link" /\ node' = node
        /\ head' = head /\ top' = top /\ seen' = seen
        /\ UNCHANGED <<freeListHead, freeListNext>> /\ owner' = owner
    BY <1>1 DEF StoreRefs, Goto, HasNode, TypeOK, locals
  <1>3. PICK m \in Nodes : m = node[t] /\ NodeOK(m) BY <1>2, Handled
  <1>4. t \in Adding(m) /\ t \notin Linked(m) BY <1>2, <1>3 DEF Adding, Linked
  <1>5. /\ freeListRefs[m] = FLAG /\ owner[m] = Null /\ m \notin Listed /\ Taking(m) = {}
        /\ \A u \in Adding(m) : u = t
    BY <1>3, <1>4 DEF NodeOK, AddOK, PlaceOK
  <1>6. Cardinality(Referencing(m)) = 0
    BY <1>3, <1>5, CountBare, SetsType, ThreadSets DEF NodeOK, CountOK
  <1>7. /\ Referencing(m)' = Referencing(m) /\ Taking(m)' = {}
        /\ Adding(m)' = Adding(m) /\ Linked(m)' = {t}
    BY <1>1, <1>2, <1>3, <1>4, <1>5 DEF Alone, Referencing, Taking, Adding, Linked
  <1>8. /\ freeListRefs'[m] = 1
        /\ \A n \in Nodes \ {m} : freeListRefs'[n] = freeListRefs[n] /\ owner'[n] = owner[n]
    BY <1>1, <1>2, <1>3 DEF StoreRefs, TypeOK
  <1>9. ~Flagged(m)' /\ Listed' = Listed BY <1>2, <1>8, FlagFacts DEF Flagged, Listed
  <1>10. NodeOK(m)'
    <2>1. CountOK(m)' BY <1>6, <1>7, <1>8, CountBare DEF CountOK, OnList
    <2>2. PlaceOK(m)' BY <1>2, <1>3, <1>5, <1>7, <1>9 DEF NodeOK, PlaceOK
    <2>3. AddOK(m)' BY <1>4, <1>5, <1>7, <1>9 DEF AddOK
    <2> QED BY <2>1, <2>2, <2>3 DEF NodeOK
  <1>11. LocalOK(t)' BY <1>1, <1>2 DEF LocalOK, HasNode, HasHead
  <1> QED BY <1>1, <1>2, <1>3, <1>8, <1>10, <1>11, OneNode

\* The node becomes the first of the list, or the thread will try again.
LEMMA LinkInv == ASSUME Inv, NEW t \in Threads, Link(t) PROVE Inv'
  <1>1. TypeOK' /\ Alone(t) /\ TypeOK /\ LocalOK(t) BY StepType, StepAlone DEF Step, Inv
  <1>2. /\ pc[t] = "link" /\ pc[t] \in HasNode
        /\ UNCHANGED <<freeListRefs, freeListNext, owner>>
    BY <1>1 DEF Link, HasNode
  <1>3. CASE freeListHead # top[t]
    <2>1. pc'[t] = "retry" /\ node' = node /\ freeListHead' = freeListHead
      BY <1>1, <1>3 DEF Link, TypeOK
    <2>2. \A n \in Nodes : SetsSame(n)
      BY <1>1, <1>2, <2>1 DEF Alone, SetsSame, Referencing, Taking, Adding, Linked
    <2>3. LocalOK(t)' BY <1>1, <1>2, <2>1 DEF HasNode, HasHead, LocalOK
    <2>4. UNCHANGED <<list, owner>> BY <1>2, <2>1 DEF list
    <2> QED BY <1>1, <2>2, <2>3, <2>4, Quiet
  <1>4. CASE freeListHead = top[t]
    <2>1. PICK m \in Nodes : m = node[t] /\ NodeOK(m) BY <1>2, Handled
    <2>2. freeListHead' = m /\ freeListNext[m] = freeListHead /\ Added(t)
      BY <1>1, <1>2, <1>4, <2>1 DEF Link, LocalOK
    <2>3. pc'[t] \notin HasNode /\ LocalOK(t)' BY <1>1, <2>2, AddedLocal
    <2>4. t \in Adding(m) /\ t \in Linked(m) BY <1>2, <2>1 DEF Adding, Linked
    <2>5. /\ owner[m] = Null /\ m \notin Listed /\ Taking(m) = {} /\ ~Flagged(m)
          /\ \A u \in Adding(m) : u = t
      BY <2>1, <2>4 DEF NodeOK, PlaceOK, AddOK
    <2>6. Listed' = {m} \cup Listed
      <3>1. Reach(freeListNext, m) = {m} \cup Reach(freeListNext, freeListNext[m])
        BY <1>1, ReachStep DEF TypeOK
      <3> QED BY <1>2, <2>2, <3>1 DEF Listed
    <2>7. Acyclic'
      <3>1. \A n \in Listed : n \notin Reach(freeListNext, freeListNext[n]) BY DEF Inv, Acyclic
      <3>2. m \notin Reach(freeListNext, freeListNext[m]) BY <2>2, <2>5 DEF Listed
      <3> QED BY <1>2, <2>6, <3>1, <3>2 DEF Acyclic
    <2>8. /\ Referencing(m)' = Referencing(m) /\ Taking(m)' = {}
          /\ Adding(m)' = {} /\ Linked(m)' = {}
      BY <1>1, <1>2, <2>3, <2>5 DEF Alone, HasNode, Referencing, Taking, Adding, Linked
    <2>9. NodeOK(m)'
      <3>1. CountOK(m)' BY <1>2, <2>1, <2>4, <2>6, <2>8 DEF NodeOK, CountOK, OnList
      <3>2. ~Flagged(m)' BY <1>2, <2>5 DEF Flagged
      <3>3. PlaceOK(m)' BY <1>2, <2>5, <2>6, <2>8, <3>2 DEF PlaceOK
      <3>4. AddOK(m)' BY <2>6, <2>8 DEF AddOK
      <3> QED BY <3>1, <3>3, <3>4 DEF NodeOK
    <2>10. \A n \in Nodes : Same(n) \/ NodeOK(n)'
      <3>1. \A n \in Nodes \ {m} : SetsSame(n) BY <1>1, <2>1, <2>3, SetsFrame
      <3> QED BY <1>2, <2>6, <2>9, <3>1 DEF Same
    <2> QED BY <1>1, <1>2, <2>3, <2>7, <2>10, Combine
  <1> QED BY <1>3, <1>4

\* The list's reference is taken back: the thread tries again, or whoever holds a
\* reference will.
LEMMA GiveUpInv == ASSUME Inv, NEW t \in Threads, GiveUp(t) PROVE Inv'
  <1>1. TypeOK' /\ Alone(t) /\ TypeOK /\ LocalOK(t) BY StepType, StepAlone DEF Step, Inv
  <1>2. /\ pc[t] = "retry" /\ pc[t] \in HasNode
        /\ UNCHANGED <<freeListHead, freeListNext>> /\ owner' = owner
    BY <1>1 DEF GiveUp, HasNode
  <1>3. PICK m \in Nodes : m = node[t] /\ freeListRefs[m] \in 0 .. Width - 1 /\ NodeOK(m)
    BY <1>2, Handled
  <1>4. /\ freeListRefs'[m] = FetchAdd(freeListRefs[m], FLAG - 1)
        /\ \A n \in Nodes \ {m} : freeListRefs'[n] = freeListRefs[n] /\ owner'[n] = owner[n]
    BY <1>1, <1>2, <1>3 DEF GiveUp, TypeOK, FLAG
  <1>5. t \in Adding(m) /\ t \in Linked(m) BY <1>2, <1>3 DEF Adding, Linked
  <1>6. /\ owner[m] = Null /\ m \notin Listed /\ Taking(m) = {} /\ ~Flagged(m)
        /\ (\A u \in Adding(m) : u = t) /\ Listed' = Listed
    BY <1>2, <1>3, <1>5 DEF NodeOK, PlaceOK, AddOK, Listed
  <1>7. /\ References(freeListRefs[m]) = freeListRefs[m]
        /\ freeListRefs[m] = Cardinality(Referencing(m)) + 1
        /\ Cardinality(Referencing(m)) \in Nat
        /\ Cardinality(Referencing(m)) = 0 <=> Referencing(m) = {}
    <2>1. References(freeListRefs[m]) = freeListRefs[m]
      BY <1>3, <1>6, ReferencesUnflagged, FlagFacts DEF Flagged
    <2>2. OnList(m) BY <1>5 DEF OnList
    <2>3. References(freeListRefs[m]) = Cardinality(Referencing(m)) + 1
      BY <1>3, <2>2 DEF NodeOK, CountOK
    <2> QED BY <2>1, <2>3, SetsType, ThreadSets, ThreadNone
  <1>8. /\ freeListRefs'[m] = freeListRefs[m] + FLAG - 1 /\ Flagged(m)'
        /\ References(freeListRefs'[m]) = freeListRefs[m] - 1
    <2>1. freeListRefs[m] \in 0 .. FLAG - 1 /\ freeListRefs[m] >= 1 /\ 1 \in 0 .. 1
      BY <1>3, <1>6, <1>7, FlagFacts DEF Flagged
    <2> QED BY <1>4, <2>1, CountFlag, FlagFacts DEF Flagged
  <1>9. CASE freeListRefs[m] = 1
    <2>1. /\ pc'[t] = "setnext" /\ node' = node /\ head' = head /\ top' = top /\ seen' = seen
      BY <1>1, <1>3, <1>9 DEF GiveUp, TypeOK, locals
    <2>2. /\ Referencing(m)' = Referencing(m) /\ Taking(m)' = {}
          /\ Adding(m)' = Adding(m) /\ Linked(m)' = {}
      BY <1>1, <1>2, <1>3, <1>6, <2>1 DEF Alone, Referencing, Taking, Adding, Linked
    <2>3. CountOK(m)' BY <1>6, <1>7, <1>8, <1>9, <2>2 DEF CountOK, OnList
    <2>4. PlaceOK(m)' BY <1>2, <1>3, <1>6, <2>2 DEF NodeOK, PlaceOK
    <2>5. freeListRefs'[m] = FLAG BY <1>8, <1>9, FlagFacts
    <2>6. AddOK(m)' BY <1>5, <2>2, <2>5 DEF AddOK
    <2>7. LocalOK(t)' BY <1>1, <1>2, <2>1 DEF LocalOK, HasNode, HasHead
    <2> QED BY <1>1, <1>2, <1>3, <1>4, <2>1, <2>3, <2>4, <2>6, <2>7, OneNode DEF NodeOK
  <1>10. CASE freeListRefs[m] # 1
    <2>1. Added(t) BY <1>3, <1>10 DEF GiveUp
    <2>2. pc'[t] \notin HasNode /\ LocalOK(t)' BY <1>1, <2>1, AddedLocal
    <2>3. /\ Referencing(m)' = Referencing(m) /\ Taking(m)' = {}
          /\ Adding(m)' = {} /\ Linked(m)' = {}
      BY <1>1, <1>2, <1>6, <2>2 DEF Alone, HasNode, Referencing, Taking, Adding, Linked
    <2>4. CountOK(m)' BY <1>6, <1>7, <1>8, <2>3 DEF CountOK, OnList
    <2>5. PlaceOK(m)' BY <1>2, <1>6, <2>3 DEF PlaceOK
    <2>6. AddOK(m)' BY <1>7, <1>8, <1>10, <2>3 DEF AddOK
    <2> QED BY <1>1, <1>2, <1>3, <1>4, <2>2, <2>4, <2>5, <2>6, OneNode DEF NodeOK
  <1> QED BY <1>9, <1>10
------------------------------------------------------------------------------
(* The theorems. *)

\* The invariant holds when all blocks are in use.
LEMMA InitInv == Init => Inv
  <1> SUFFICES ASSUME Init PROVE Inv OBVIOUS
  <1>1. TypeOK
    BY FlagFacts DEF Init, TypeOK, NodeOrNull, Places
  <1>2. \A t \in Threads : LocalOK(t) BY DEF Init, LocalOK, HasHead, HasNode
  <1>3. Listed = {} BY ReachNull DEF Init, Listed
  <1>4. ASSUME NEW n \in Nodes PROVE NodeOK(n)
    <2>1. Referencing(n) = {} /\ Taking(n) = {} /\ Adding(n) = {} /\ Linked(n) = {}
      BY DEF Init, Referencing, Taking, Adding, Linked
    <2>2. Cardinality(Referencing(n)) = 0 BY <2>1, FS_EmptySet
    <2>3. freeListRefs[n] = 0 /\ ~Flagged(n) BY FlagFacts DEF Init, Flagged
    <2>4. owner[n] # Null BY FreeListAssumption DEF Init
    <2>5. CountOK(n) BY <1>3, <2>1, <2>2, <2>3, CountBare DEF CountOK, OnList
    <2> QED BY <1>3, <2>1, <2>3, <2>4, <2>5 DEF NodeOK, PlaceOK, AddOK
  <1> QED BY <1>1, <1>2, <1>3, <1>4 DEF Inv, Acyclic

\* Every step keeps it.
LEMMA NextInv == Inv /\ [Next]_vars => Inv'
  <1> SUFFICES ASSUME Inv, [Next]_vars PROVE Inv' OBVIOUS
  <1>1. CASE UNCHANGED vars
    <2>1. TypeOK' BY <1>1 DEF vars, list, locals, Inv, TypeOK
    <2>2. \A t \in Threads : LocalOK(t)' BY <1>1 DEF vars, list, locals, Inv, LocalOK
    <2>3. UNCHANGED <<freeListHead, freeListNext>> BY <1>1 DEF vars, list
    <2>4. Listed' = Listed /\ Acyclic' BY <2>3, ListFrame DEF Inv
    <2>5. \A n \in Nodes : Same(n)
      BY <1>1, <2>4 DEF vars, list, locals, Same, SetsSame, Referencing, Taking, Adding, Linked
    <2> QED BY <2>1, <2>2, <2>4, <2>5, NodeFrame DEF Inv, Same
  <1>2. CASE Next
    <2>1. PICK t \in Threads : Step(t) BY <1>2 DEF Next
    <2> QED BY <2>1, LoadHeadInv, LoadRefsInv, TakeReferenceInv, LoadNextInv, SwingHeadInv, TakeNodeInv,
               DropReferenceInv, AddInv, LoadTopInv, StoreNextInv, StoreRefsInv, LinkInv, GiveUpInv
            DEF Step
  <1> QED BY <1>1, <1>2

\* The inductive invariant holds throughout.
LEMMA InvThroughout == Spec => []Inv
  BY InitInv, NextInv, PTL DEF Spec

\* A block in use is in nobody else's hands, and only one try_get returns it: for
\* any number of threads and blocks, and every order of their accesses to the
\* atomics of try_get and add.
THEOREM ExclusiveThroughout == Spec => []Exclusive
  <1>1. ASSUME Inv, NEW n \in Nodes
        PROVE  /\ owner[n] # Null => n \notin Listed /\ Taking(n) = {} /\ Adding(n) = {}
               /\ n \in Listed => Taking(n) = {}
               /\ Cardinality(Taking(n)) + Cardinality(Adding(n)) <= 1
    <2>1. PlaceOK(n) BY <1>1 DEF Inv, NodeOK
    <2>2. Cardinality({}) = 0 BY FS_EmptySet
    <2>3. Taking(n) \in SUBSET Threads /\ Adding(n) \in SUBSET Threads BY SetsType
    <2>4. ASSUME NEW S \in SUBSET Threads, \A t, u \in S : t = u
          PROVE  Cardinality(S) \in 0 .. 1
      <3>1. CASE S = {} BY <2>2, <3>1
      <3>2. CASE S # {}
        <4>1. PICK t \in S : TRUE BY <3>2
        <4>2. S = {t} BY <2>4, <4>1
        <4>3. Cardinality({t}) = 1 BY FS_Singleton
        <4> QED BY <4>2, <4>3
      <3> QED BY <3>1, <3>2
    <2>5. Cardinality(Taking(n)) \in 0 .. 1 /\ Cardinality(Adding(n)) \in 0 .. 1
      BY <2>1, <2>3, <2>4 DEF PlaceOK
    <2>6. Taking(n) = {} \/ Adding(n) = {} BY <2>1 DEF PlaceOK
    <2> QED BY <2>1, <2>2, <2>5, <2>6 DEF PlaceOK
  <1>2. Inv => Exclusive BY <1>1 DEF Exclusive
  <1> QED BY <1>2, InvThroughout, PTL

\* No free block is lost, the count below the flag is exact, and the flag is not set
\* when try_get returns a node.
THEOREM NoneLostThroughout == Spec => []NoneLost
  <1>1. ASSUME Inv, NEW n \in Nodes
        PROVE  /\ owner[n] = Null =>
                    \/ n \in Listed \/ Taking(n) # {} \/ Adding(n) # {}
                    \/ freeListRefs[n] >= SHOULD_BE_ON_FREELIST /\ Referencing(n) # {}
               /\ Taking(n) # {} => freeListRefs[n] < SHOULD_BE_ON_FREELIST
               /\ References(freeListRefs[n]) =
                    Cardinality(Referencing(n))
                      + (IF n \in Listed \/ Taking(n) # {} \/ Linked(n) # {} THEN 1 ELSE 0)
    <2>1. CountOK(n) /\ PlaceOK(n) /\ AddOK(n) /\ freeListRefs[n] \in Int /\ FLAG \in Int
      BY <1>1, FlagFacts DEF Inv, NodeOK, TypeOK
    <2>2. owner[n] = Null =>
            \/ n \in Listed \/ Taking(n) # {} \/ Adding(n) # {}
            \/ freeListRefs[n] >= SHOULD_BE_ON_FREELIST /\ Referencing(n) # {}
      BY <2>1 DEF AddOK, Flagged, FLAG
    <2>3. Taking(n) # {} => freeListRefs[n] < SHOULD_BE_ON_FREELIST
      BY <2>1 DEF PlaceOK, Flagged, FLAG
    <2> QED BY <2>1, <2>2, <2>3 DEF CountOK, OnList
  <1>2. Inv => NoneLost BY <1>1 DEF NoneLost
  <1> QED BY <1>2, InvThroughout, PTL
==============================================================================
