-------------------------- MODULE ProducerTableProofs --------------------------
(***************************************************************************)
(* Proofs about the table of producers, for every number of threads (below *)
(* the model's bound), every hash function and any number of failed        *)
(* allocations.                                                            *)
(***************************************************************************)
EXTENDS ProducerTable, BlockTreeProofs, FunctionTheorems

\* Where a thread has been counted and has not given up; where it has decided for a table;
\* where it holds the flag.
Counted == {"resize", "locked", "grow", "clear", "room", "create", "link", "insert"}
Decided == {"create", "link", "insert"}
Flagged == {"locked", "grow", "clear", "abandon"}
Without == {"count", "resize", "locked", "grow", "clear", "abandon", "room", "create"}

\* The threads in table h, the threads that have a producer, and those in some table.
Keys(h) == {tables[h][i].key : i \in DOMAIN tables[h]} \ {NoThread}
Owns(t) == \E p \in DOMAIN owner : owner[p] = t
Found(t) == \E h \in DOMAIN tables : t \in Keys(h)

\* What the variables hold: a table is an array of slots.
Slot == [key : Threads \cup {NoThread}, value : Nat]
Table == UNION {[0 .. n - 1 -> Slot] : n \in Nat \ {0}}

Labels == {"idle", "copy", "count", "resize", "locked", "grow", "clear", "abandon", "room", "create", "link",
           "insert"}

TypeOK ==
  /\ tables \in Seq(Table) /\ Len(tables) >= 1
  /\ implicitProducerHashCount \in Int
  /\ implicitProducerHashResizeInProgress \in BOOLEAN
  /\ producerListTail \in Nat /\ producerCount \in Nat
  /\ next \in [Producers -> Nat]
  /\ owner \in Seq(Threads) /\ failures \in Nat
  /\ pc \in [Threads -> Labels]
  /\ mainHash \in [Threads -> Nat] /\ newCount \in [Threads -> Int] /\ producer \in [Threads -> Nat]
  /\ ret \in [Threads -> Nat]

\* Tables only get larger, and one thread at a time enlarges them.
SizeInv ==
  /\ \A g, h \in DOMAIN tables : g <= h => Capacity(g) <= Capacity(h)
  /\ \A t \in Threads : pc[t] # "idle" => mainHash[t] \in DOMAIN tables
  /\ \A t \in Threads : pc[t] \in Flagged => implicitProducerHashResizeInProgress = TRUE
  /\ \A t, u \in Threads : pc[t] \in Flagged /\ pc[u] \in Flagged => t = u
  /\ \A t \in Threads : pc[t] = "grow" => mainHash[t] = Len(tables)

\* A thread's slot is found: no slot that is probed before it is empty.
PlaceInv ==
  \A h \in DOMAIN tables : \A s \in DOMAIN tables[h] : \A t \in Threads : tables[h][s].key = t =>
    \E i \in 0 .. Capacity(h) - 1 :
      /\ s = Probe(h, t, i)
      /\ \A j \in 0 .. i - 1 : tables[h][Probe(h, t, j)].key \notin {NoThread, t}

\* Who has a producer, and where it is.
OwnInv ==
  /\ \A p, q \in DOMAIN owner : owner[p] = owner[q] => p = q
  /\ \A h \in DOMAIN tables : \A s \in DOMAIN tables[h] : tables[h][s].key # NoThread =>
       tables[h][s].value \in DOMAIN owner /\ owner[tables[h][s].value] = tables[h][s].key
  /\ \A t \in Threads : pc[t] \in {"copy", "link", "insert"} =>
       producer[t] \in DOMAIN owner /\ owner[producer[t]] = t
  /\ \A t \in Threads : pc[t] \in Without => ~Owns(t)
  /\ \A t \in Threads : pc[t] \in {"link", "insert"} => ~Found(t)
  /\ \A t \in Threads : pc[t] \in {"idle", "copy"} /\ Owns(t) => Found(t)
  /\ \A t \in Threads : pc[t] = "copy" =>
       t \notin Keys(mainHash[t]) /\ \E g \in DOMAIN tables : g < mainHash[t] /\ t \in Keys(g)
  /\ \A t \in Threads : ret[t] # 0 => ret[t] \in DOMAIN owner /\ owner[ret[t]] = t
                                      /\ pc[t] \in {"idle", "copy"}

\* The threads that count towards a count of k: those that got at most k, and those in a
\* table that takes no thread with more than k.
Low(t, k) ==
  \/ pc[t] \in Counted /\ newCount[t] <= k
  \/ \E h \in DOMAIN tables : t \in Keys(h) /\ ThreeQuarters(Capacity(h)) - 1 <= k
Alive == {t \in Threads : pc[t] \in Counted \/ Found(t)}

\* At most k threads count towards k, whatever counts were given back meanwhile.
CountInv ==
  /\ implicitProducerHashCount = Cardinality(Alive)
  /\ \A t \in Threads : pc[t] \in Counted => newCount[t] >= 1
  /\ \A t \in Threads : pc[t] \in Counted => newCount[t] < MaxThreads
  /\ \A t \in Threads : pc[t] \in Decided => newCount[t] < ThreeQuarters(Capacity(mainHash[t]))
  /\ \A h \in DOMAIN tables : Keys(h) # {} => ThreeQuarters(Capacity(h)) >= 1
  /\ \A k \in Nat : Cardinality({t \in Threads : Low(t, k)}) <= k

\* The list of the producers that have been linked.
Linking(p) == \E t \in Threads : pc[t] = "link" /\ producer[t] = p
Linked == {p \in DOMAIN owner : ~Linking(p)}
ListInv ==
  /\ Len(owner) <= MaxProducers /\ producerCount = Len(owner)
  /\ producerListTail = 0 \/ producerListTail \in Linked
  /\ \A p \in Linked : next[p] = 0 \/ next[p] \in Linked
  /\ \A S \in SUBSET Producers : Closed(S) => Linked \subseteq S
------------------------------------------------------------------------------
(* Arithmetic. *)

\* A quotient is the only one with its remainder.
LEMMA Division ==
  ASSUME NEW n \in Nat \ {0}, NEW q \in Int, NEW r \in 0 .. n - 1
  PROVE  (q * n + r) % n = r
  OBVIOUS

\* The probes of a thread reach every slot.
LEMMA ProbesCover ==
  ASSUME NEW n \in Nat \ {0}, NEW a \in Nat, NEW s \in 0 .. n - 1
  PROVE  \E i \in 0 .. n - 1 : (a + i) % n = s
  <1> DEFINE q == a \div n
             r == a % n
  <1>1. q \in Int /\ r \in 0 .. n - 1 /\ a = q * n + r OBVIOUS
  <1>2. CASE r <= s
    <2>1. s - r \in 0 .. n - 1 BY <1>1, <1>2
    <2>2. a + (s - r) = q * n + s BY <1>1
    <2> QED BY <1>1, <2>1, <2>2, Division
  <1>3. CASE s < r
    <2>1. s - r + n \in 0 .. n - 1 BY <1>1, <1>3
    <2>2. a + (s - r + n) = (q + 1) * n + s BY <1>1
    <2>3. ((q + 1) * n + s) % n = s
      <3>1. q + 1 \in Int BY <1>1
      <3> HIDE DEF q
      <3> QED BY <3>1, Division
    <2> QED BY <1>1, <2>1, <2>2, <2>3
  <1> QED BY <1>1, <1>2, <1>3

\* The parts of a capacity that the code compares with grow with it.
LEMMA Parts ==
  ASSUME NEW n \in Nat
  PROVE  /\ Half(n) \in Nat /\ ThreeQuarters(n) \in Nat /\ ThreeQuarters(n) <= n
         /\ \A k \in Nat : n <= k => ThreeQuarters(n) <= ThreeQuarters(k)
  BY DEF Half, ThreeQuarters

\* A larger capacity is found, and it is larger.
LEMMA NewCapacityLarger ==
  ASSUME NEW n \in Nat \ {0}, NEW c \in Int, c < MaxThreads
  PROVE  NewCapacity(n, c) \in Nat /\ NewCapacity(n, c) > n
  <1> DEFINE fits == {f \in Doublings : c < Half(n * f)}
  <1>1. fits \in SUBSET Nat BY DEF Doublings
  <1>2. 1024 \in fits BY DEF Doublings, Half, MaxThreads
  <1>3. \E x \in fits : \A y \in fits : x <= y
    <2> HIDE DEF fits
    <2> QED BY <1>1, <1>2, LeastNat
  <1>4. PICK f \in fits : NewCapacity(n, c) = n * f BY <1>3 DEF NewCapacity
  <1>5. f \in Doublings BY <1>4
  <1> QED BY <1>4, <1>5 DEF Doublings
------------------------------------------------------------------------------
(* The tables. *)

\* A table is an array of slots.
LEMMA TableFacts ==
  ASSUME NEW f \in Table
  PROVE  /\ Cardinality(DOMAIN f) \in Nat \ {0} /\ DOMAIN f = 0 .. Cardinality(DOMAIN f) - 1
         /\ \A i \in DOMAIN f : f[i].key \in Threads \cup {NoThread} /\ f[i].value \in Nat
         /\ \A i \in DOMAIN f, t \in Threads, p \in Nat :
              [f EXCEPT ![i] = [key |-> t, value |-> p]] \in Table
  <1>1. PICK n \in Nat \ {0} : f \in [0 .. n - 1 -> Slot] BY DEF Table
  <1>2. Cardinality(0 .. n - 1) = n BY FS_Interval
  <1>3. \A i \in 0 .. n - 1, t \in Threads, p \in Nat :
          [f EXCEPT ![i] = [key |-> t, value |-> p]] \in [0 .. n - 1 -> Slot]
    BY <1>1 DEF Slot
  <1>4. \A g \in [0 .. n - 1 -> Slot] : g \in Table BY DEF Table
  <1>5. DOMAIN f = 0 .. n - 1 /\ \A i \in 0 .. n - 1 : f[i] \in Slot BY <1>1
  <1>6. \A i \in 0 .. n - 1 : f[i].key \in Threads \cup {NoThread} /\ f[i].value \in Nat BY <1>5 DEF Slot
  <1> QED BY <1>2, <1>3, <1>4, <1>5, <1>6

\* A new table is empty and has the size that was asked for.
LEMMA EmptyTableFacts ==
  ASSUME NEW n \in Nat \ {0}
  PROVE  /\ EmptyTable(n) \in Table /\ DOMAIN EmptyTable(n) = 0 .. n - 1
         /\ Cardinality(DOMAIN EmptyTable(n)) = n
         /\ \A i \in DOMAIN EmptyTable(n) : EmptyTable(n)[i].key = NoThread
  <1>1. Cardinality(0 .. n - 1) = n BY FS_Interval
  <1>2. EmptyTable(n) \in [0 .. n - 1 -> Slot] BY DEF EmptyTable, Slot
  <1>3. DOMAIN EmptyTable(n) = 0 .. n - 1 BY DEF EmptyTable
  <1>4. EmptyTable(n) \in Table BY <1>2 DEF Table
  <1> QED BY <1>1, <1>3, <1>4 DEF EmptyTable

\* The capacity is the number of slots, and a probe is one of them.
LEMMA TablesFacts ==
  ASSUME TypeOK, NEW h \in DOMAIN tables
  PROVE  /\ tables[h] \in Table /\ Capacity(h) \in Nat \ {0}
         /\ DOMAIN tables[h] = 0 .. Capacity(h) - 1
         /\ \A i \in DOMAIN tables[h] : tables[h][i].key \in Threads \cup {NoThread} /\ tables[h][i].value \in Nat
         /\ \A t \in Threads, i \in Nat : Probe(h, t, i) \in DOMAIN tables[h]
         /\ \A t \in Threads, s \in DOMAIN tables[h] : \E i \in 0 .. Capacity(h) - 1 : Probe(h, t, i) = s
  <1>1. tables[h] \in Table BY DEF TypeOK
  <1>2. Capacity(h) \in Nat \ {0} /\ DOMAIN tables[h] = 0 .. Capacity(h) - 1 BY <1>1, TableFacts DEF Capacity
  <1>3. \A t \in Threads : Hash[t] \in Nat BY ProducerTableAssumption
  <1>4. ASSUME NEW t \in Threads, NEW i \in Nat PROVE Probe(h, t, i) \in DOMAIN tables[h]
    BY <1>2, <1>3 DEF Probe
  <1>5. ASSUME NEW t \in Threads, NEW s \in DOMAIN tables[h]
        PROVE  \E i \in 0 .. Capacity(h) - 1 : Probe(h, t, i) = s
    BY <1>2, <1>3, ProbesCover DEF Probe
  <1> QED BY <1>1, <1>2, <1>4, <1>5, TableFacts

\* The probing ends at the first slot with one of the keys, if there is such a slot.
LEMMA StopFacts ==
  ASSUME TypeOK, NEW h \in DOMAIN tables, NEW t \in Threads, NEW keys,
         \E s \in DOMAIN tables[h] : tables[h][s].key \in keys
  PROVE  \E i \in 0 .. Capacity(h) - 1 :
           /\ Stop(h, t, keys) = Probe(h, t, i) /\ Stop(h, t, keys) \in DOMAIN tables[h]
           /\ tables[h][Stop(h, t, keys)].key \in keys
           /\ \A j \in 0 .. i - 1 : tables[h][Probe(h, t, j)].key \notin keys
  <1> DEFINE ends == {i \in 0 .. Capacity(h) - 1 : tables[h][Probe(h, t, i)].key \in keys}
             first == CHOOSE i \in ends : \A j \in ends : i <= j
  <1>1. Capacity(h) \in Nat \ {0} BY TablesFacts
  <1>2. ends \in SUBSET Nat BY <1>1
  <1>3. ends # {}
    <2>1. PICK s \in DOMAIN tables[h] : tables[h][s].key \in keys OBVIOUS
    <2>2. PICK i \in 0 .. Capacity(h) - 1 : Probe(h, t, i) = s BY TablesFacts
    <2> QED BY <2>1, <2>2
  <1>4. first \in ends /\ \A j \in ends : first <= j
    <2>1. \E i \in ends : \A j \in ends : i <= j
      <3> HIDE DEF ends
      <3> QED BY <1>2, <1>3, LeastNat
    <2> HIDE DEF ends
    <2> QED BY <2>1
  <1>5. Stop(h, t, keys) = Probe(h, t, first) BY DEF Stop
  <1>6. first \in 0 .. Capacity(h) - 1 /\ tables[h][Probe(h, t, first)].key \in keys BY <1>4
  <1>7. ASSUME NEW j \in 0 .. first - 1 PROVE tables[h][Probe(h, t, j)].key \notin keys
    <2>1. j \in 0 .. Capacity(h) - 1 /\ ~(first <= j) BY <1>1, <1>6
    <2> QED BY <1>4, <2>1
  <1>8. Probe(h, t, first) \in DOMAIN tables[h] BY <1>1, <1>6, TablesFacts
  <1> HIDE DEF first
  <1> QED BY <1>5, <1>6, <1>7, <1>8

\* A thread is in one slot of a table at most.
LEMMA OneSlot ==
  ASSUME TypeOK, PlaceInv, NEW h \in DOMAIN tables, NEW r \in DOMAIN tables[h], NEW s \in DOMAIN tables[h],
         tables[h][r].key = tables[h][s].key, tables[h][r].key # NoThread
  PROVE  r = s
  <1> DEFINE t == tables[h][r].key
  <1>1. t \in Threads /\ Capacity(h) \in Nat BY TablesFacts
  <1>2. PICK i \in 0 .. Capacity(h) - 1 :
          r = Probe(h, t, i) /\ \A j \in 0 .. i - 1 : tables[h][Probe(h, t, j)].key \notin {NoThread, t}
    BY <1>1 DEF PlaceInv
  <1>3. PICK k \in 0 .. Capacity(h) - 1 :
          s = Probe(h, t, k) /\ \A j \in 0 .. k - 1 : tables[h][Probe(h, t, j)].key \notin {NoThread, t}
    BY <1>1 DEF PlaceInv
  <1>a. tables[h][r].key = t /\ tables[h][s].key = t OBVIOUS
  <1> HIDE DEF t
  <1>4. ~(i < k)
    <2>1. i < k => i \in 0 .. k - 1 BY <1>1
    <2> QED BY <1>a, <1>2, <1>3, <2>1
  <1>5. ~(k < i)
    <2>1. k < i => k \in 0 .. i - 1 BY <1>1
    <2> QED BY <1>a, <1>2, <1>3, <2>1
  <1>6. i = k BY <1>1, <1>4, <1>5
  <1> QED BY <1>2, <1>3, <1>6

\* Fewer threads are in a table than it has slots.
LEMMA SlotFree ==
  ASSUME TypeOK, PlaceInv, CountInv
  PROVE  FreeSlot
  <1> SUFFICES ASSUME NEW h \in DOMAIN tables, \A i \in DOMAIN tables[h] : tables[h][i].key # NoThread
               PROVE  FALSE
    BY DEF FreeSlot
  <1> DEFINE C == Capacity(h)
             k == ThreeQuarters(C) - 1
             L == {t \in Threads : Low(t, k)}
             f == [i \in 0 .. C - 1 |-> tables[h][i].key]
  <1>1. C \in Nat \ {0} /\ DOMAIN tables[h] = 0 .. C - 1 /\ \A i \in 0 .. C - 1 : tables[h][i].key \in Threads
    BY TablesFacts
  <1>2. ThreeQuarters(C) \in Nat /\ ThreeQuarters(C) <= C BY <1>1, Parts
  <1>3. tables[h][0].key \in Keys(h) BY <1>1 DEF Keys
  <1>4. k \in Nat BY <1>2, <1>3 DEF CountInv
  <1>5. Cardinality(L) <= k BY <1>4 DEF CountInv
  <1>6. IsFiniteSet(L) BY FS_Subset, ProducerTableAssumption
  <1>7. ASSUME NEW i \in 0 .. C - 1 PROVE tables[h][i].key \in L
    <2>1. tables[h][i].key \in Keys(h) BY <1>1 DEF Keys
    <2> QED BY <1>1, <1>2, <2>1 DEF Low
  <1>8. f \in Injection(0 .. C - 1, L)
    <2>1. f \in [0 .. C - 1 -> L] BY <1>7
    <2>2. \A i, j \in 0 .. C - 1 : f[i] = f[j] => i = j BY <1>1, OneSlot
    <2> HIDE DEF f, L, C
    <2> QED BY <2>1, <2>2, Zenon DEF Injection, IsInjective
  <1>9. Cardinality(0 .. C - 1) <= Cardinality(L) BY <1>6, <1>8, FS_Injection
  <1>10. Cardinality(0 .. C - 1) = C BY <1>1, FS_Interval
  <1>11. Cardinality(L) \in Nat BY <1>6, FS_CardinalityType
  <1> HIDE DEF L, C
  <1> QED BY <1>1, <1>2, <1>5, <1>9, <1>10, <1>11

\* A thread finds itself in the tables that hold it.
LEMMA HoldingFacts ==
  ASSUME TypeOK, PlaceInv, FreeSlot, NEW t \in Threads
  PROVE  /\ Holding(t) = {h \in DOMAIN tables : t \in Keys(h)}
         /\ \A h \in Holding(t) : Stop(h, t, {t}) \in DOMAIN tables[h] /\ tables[h][Stop(h, t, {t})].key = t
  <1>1. t # NoThread BY ProducerTableAssumption
  <1>2. ASSUME NEW h \in DOMAIN tables, tables[h][Stop(h, t, {t, NoThread})].key = t PROVE t \in Keys(h)
    <2>1. \E s \in DOMAIN tables[h] : tables[h][s].key \in {t, NoThread} BY DEF FreeSlot
    <2>2. Stop(h, t, {t, NoThread}) \in DOMAIN tables[h] BY <2>1, StopFacts
    <2> QED BY <1>1, <1>2, <2>2 DEF Keys
  <1>3. ASSUME NEW h \in DOMAIN tables, t \in Keys(h)
        PROVE  /\ tables[h][Stop(h, t, {t, NoThread})].key = t
               /\ Stop(h, t, {t}) \in DOMAIN tables[h] /\ tables[h][Stop(h, t, {t})].key = t
    <2>1. PICK s \in DOMAIN tables[h] : tables[h][s].key = t BY <1>3 DEF Keys
    <2>2. Capacity(h) \in Nat BY TablesFacts
    <2>3. PICK i \in 0 .. Capacity(h) - 1 :
            s = Probe(h, t, i) /\ \A j \in 0 .. i - 1 : tables[h][Probe(h, t, j)].key \notin {NoThread, t}
      BY <2>1 DEF PlaceInv
    <2>4. PICK k \in 0 .. Capacity(h) - 1 :
            /\ Stop(h, t, {t, NoThread}) = Probe(h, t, k)
            /\ tables[h][Stop(h, t, {t, NoThread})].key \in {t, NoThread}
            /\ \A j \in 0 .. k - 1 : tables[h][Probe(h, t, j)].key \notin {t, NoThread}
      BY <2>1, StopFacts
    <2>5. ~(i < k) BY <2>1, <2>2, <2>3, <2>4
    <2>6. ~(k < i) BY <2>2, <2>3, <2>4
    <2>7. i = k BY <2>2, <2>5, <2>6
    <2>8. Stop(h, t, {t}) \in DOMAIN tables[h] /\ tables[h][Stop(h, t, {t})].key \in {t} BY <2>1, StopFacts
    <2> QED BY <2>1, <2>3, <2>4, <2>7, <2>8
  <1> QED BY <1>2, <1>3 DEF Holding

\* The first empty slot takes the thread; the others keep theirs and are still found.
LEMMA InsertFacts ==
  ASSUME TypeOK, PlaceInv, FreeSlot, NEW h \in DOMAIN tables, NEW t \in Threads, NEW p \in Nat,
         t \notin Keys(h), Insert(h, t, p)
  PROVE  /\ tables' \in Seq(Table) /\ Len(tables') = Len(tables) /\ DOMAIN tables' = DOMAIN tables
         /\ \A g \in DOMAIN tables : DOMAIN tables'[g] = DOMAIN tables[g]
         /\ \A g \in DOMAIN tables : \A s \in DOMAIN tables[g] :
              tables'[g][s] = tables[g][s] \/ (tables'[g][s].key = t /\ tables'[g][s].value = p)
         /\ \A g \in DOMAIN tables : Keys(g)' = IF g = h THEN Keys(g) \cup {t} ELSE Keys(g)
         /\ PlaceInv'
  <1> DEFINE e == Stop(h, t, {NoThread})
             new == [key |-> t, value |-> p]
  <1>1. t # NoThread BY ProducerTableAssumption
  <1>2. \E s \in DOMAIN tables[h] : tables[h][s].key \in {NoThread} BY DEF FreeSlot
  <1>3. PICK i \in 0 .. Capacity(h) - 1 :
          /\ e = Probe(h, t, i) /\ e \in DOMAIN tables[h] /\ tables[h][e].key \in {NoThread}
          /\ \A j \in 0 .. i - 1 : tables[h][Probe(h, t, j)].key \notin {NoThread}
    BY <1>2, StopFacts
  <1>4. tables[h] \in Table BY TablesFacts
  <1>5. tables' = [tables EXCEPT ![h] = [tables[h] EXCEPT ![e] = new]] BY DEF Insert
  <1> HIDE DEF e
  <1>6. [tables[h] EXCEPT ![e] = new] \in Table BY <1>3, <1>4, TableFacts
  <1>7. tables' \in Seq(Table) /\ Len(tables') = Len(tables) /\ DOMAIN tables' = DOMAIN tables
    BY <1>5, <1>6 DEF TypeOK
  <1>8. /\ \A g \in DOMAIN tables : g # h => tables'[g] = tables[g]
        /\ DOMAIN tables'[h] = DOMAIN tables[h] /\ tables'[h][e] = new
        /\ \A s \in DOMAIN tables[h] : s # e => tables'[h][s] = tables[h][s]
    BY <1>3, <1>5
  <1>9. \A g \in DOMAIN tables : DOMAIN tables'[g] = DOMAIN tables[g] BY <1>8
  <1>10. new.key = t /\ new.value = p OBVIOUS
  <1> HIDE DEF new
  <1>11. \A g \in DOMAIN tables : \A s \in DOMAIN tables[g] :
           tables'[g][s] = tables[g][s] \/ (tables'[g][s].key = t /\ tables'[g][s].value = p)
    BY <1>8, <1>10
  <1>12. ASSUME NEW g \in DOMAIN tables PROVE Keys(g)' = IF g = h THEN Keys(g) \cup {t} ELSE Keys(g)
    BY <1>1, <1>3, <1>8, <1>9, <1>10 DEF Keys
  <1>13. \A g \in DOMAIN tables : Capacity(g)' = Capacity(g) BY <1>9 DEF Capacity
  <1>14. \A g \in DOMAIN tables, u \in Threads, j \in Nat : Probe(g, u, j)' = Probe(g, u, j) BY <1>13 DEF Probe
  <1>15. ASSUME NEW g \in DOMAIN tables, NEW s \in DOMAIN tables[g], NEW u \in Threads, tables'[g][s].key = u
         PROVE  \E k \in 0 .. Capacity(g) - 1 :
                  /\ s = Probe(g, u, k)
                  /\ \A j \in 0 .. k - 1 : tables'[g][Probe(g, u, j)].key \notin {NoThread, u}
    <2>0. u # NoThread /\ Capacity(g) \in Nat /\ \A j \in Nat : Probe(g, u, j) \in DOMAIN tables[g]
      BY ProducerTableAssumption, TablesFacts
    <2>1. CASE g = h /\ s = e
      <3>1. u = t BY <1>8, <1>10, <1>15, <2>1
      <3>2. ASSUME NEW j \in 0 .. i - 1 PROVE tables'[h][Probe(h, t, j)].key \notin {NoThread, t}
        <4>1. Probe(h, t, j) \in DOMAIN tables[h] BY <2>0, <2>1, <3>1
        <4>2. tables[h][Probe(h, t, j)].key # NoThread /\ tables[h][Probe(h, t, j)].key # t
          BY <1>1, <1>3, <4>1 DEF Keys
        <4> QED BY <1>3, <1>8, <4>1, <4>2
      <3> QED BY <1>3, <2>1, <3>1, <3>2
    <2>2. CASE ~(g = h /\ s = e)
      <3>1. tables[g][s].key = u BY <1>8, <1>15, <2>2
      <3>2. PICK k \in 0 .. Capacity(g) - 1 :
              s = Probe(g, u, k) /\ \A j \in 0 .. k - 1 : tables[g][Probe(g, u, j)].key \notin {NoThread, u}
        BY <3>1 DEF PlaceInv
      <3>3. ASSUME NEW j \in 0 .. k - 1 PROVE tables'[g][Probe(g, u, j)].key \notin {NoThread, u}
        <4>1. Probe(g, u, j) \in DOMAIN tables[g] /\ tables[g][Probe(g, u, j)].key \notin {NoThread, u}
          BY <2>0, <3>2
        <4>2. g = h => Probe(g, u, j) # e BY <1>3, <4>1
        <4> QED BY <1>8, <4>1, <4>2
      <3> QED BY <3>2, <3>3
    <2> QED BY <2>1, <2>2
  <1>16. PlaceInv'
    <2>1. ASSUME NEW g \in DOMAIN tables', NEW s \in DOMAIN tables'[g], NEW u \in Threads, tables'[g][s].key = u
          PROVE  \E k \in 0 .. Capacity(g)' - 1 :
                   /\ s = Probe(g, u, k)'
                   /\ \A j \in 0 .. k - 1 : tables'[g][Probe(g, u, j)'].key \notin {NoThread, u}
      <3>1. g \in DOMAIN tables /\ s \in DOMAIN tables[g] BY <1>7, <1>9, <2>1
      <3>2. PICK k \in 0 .. Capacity(g) - 1 :
              /\ s = Probe(g, u, k)
              /\ \A j \in 0 .. k - 1 : tables'[g][Probe(g, u, j)].key \notin {NoThread, u}
        BY <1>15, <2>1, <3>1
      <3>3. Capacity(g) \in Nat BY <3>1, TablesFacts
      <3>4. \A j \in 0 .. k : Probe(g, u, j)' = Probe(g, u, j) BY <1>14, <3>1, <3>2, <3>3
      <3>5. k \in 0 .. k /\ \A j \in 0 .. k - 1 : j \in 0 .. k BY <3>2, <3>3
      <3>6. k \in 0 .. Capacity(g)' - 1 BY <1>13, <3>1, <3>2
      <3> QED BY <3>2, <3>4, <3>5, <3>6
    <2> QED BY <2>1 DEF PlaceInv
  <1> QED BY <1>7, <1>9, <1>11, <1>12, <1>16

\* A new table leaves the older ones alone.
LEMMA GrowFacts ==
  ASSUME TypeOK, PlaceInv, NEW n \in Nat \ {0}, tables' = Append(tables, EmptyTable(n))
  PROVE  /\ tables' \in Seq(Table) /\ Len(tables') = Len(tables) + 1 /\ DOMAIN tables' = 1 .. Len(tables) + 1
         /\ \A g \in DOMAIN tables : g \in DOMAIN tables' /\ tables'[g] = tables[g]
         /\ \A g \in DOMAIN tables : Keys(g)' = Keys(g) /\ Capacity(g)' = Capacity(g)
         /\ \A g : g = Len(tables) + 1 => Capacity(g)' = n /\ Keys(g)' = {}
         /\ PlaceInv'
  <1> DEFINE top == Len(tables) + 1
             E == EmptyTable(n)
  <1>1. E \in Table /\ Cardinality(DOMAIN E) = n /\ \A i \in DOMAIN E : E[i].key = NoThread BY EmptyTableFacts
  <1> HIDE DEF E
  <1>2. tables' = Append(tables, E) BY DEF E
  <1>3. /\ tables' \in Seq(Table) /\ Len(tables') = top /\ DOMAIN tables' = 1 .. top
        /\ \A g \in DOMAIN tables : g \in DOMAIN tables' /\ tables'[g] = tables[g]
        /\ tables'[top] = E
    BY <1>1, <1>2 DEF TypeOK
  <1>4. DOMAIN tables' = DOMAIN tables \cup {top} BY <1>1, <1>2 DEF TypeOK
  <1> HIDE DEF top
  <1>5. \A g \in DOMAIN tables : Keys(g)' = Keys(g) BY <1>3 DEF Keys
  <1>6. \A g \in DOMAIN tables : Capacity(g)' = Capacity(g) BY <1>3 DEF Capacity
  <1>7. \A g : g = top => Capacity(g)' = n BY <1>1, <1>3 DEF Capacity
  <1>8. \A g : g = top => Keys(g)' = {} BY <1>1, <1>3 DEF Keys
  <1>9. PlaceInv'
    <2>1. ASSUME NEW g \in DOMAIN tables', NEW s \in DOMAIN tables'[g], NEW u \in Threads, tables'[g][s].key = u
          PROVE  \E k \in 0 .. Capacity(g)' - 1 :
                   /\ s = Probe(g, u, k)'
                   /\ \A j \in 0 .. k - 1 : tables'[g][Probe(g, u, j)'].key \notin {NoThread, u}
      <3>1. g \in DOMAIN tables BY <1>1, <1>3, <1>4, <2>1, ProducerTableAssumption
      <3>2. tables'[g] = tables[g] /\ Capacity(g)' = Capacity(g) BY <1>3, <1>6, <3>1
      <3>3. \A j : Probe(g, u, j)' = Probe(g, u, j) BY <3>2 DEF Probe
      <3> QED BY <2>1, <3>1, <3>2, <3>3 DEF PlaceInv
    <2> QED BY <2>1 DEF PlaceInv
  <1> QED BY <1>3, <1>5, <1>6, <1>7, <1>8, <1>9 DEF top
------------------------------------------------------------------------------
(* The steps. *)

Inv == TypeOK /\ SizeInv /\ PlaceInv /\ OwnInv /\ CountInv /\ ListInv

\* What a call begins with, in terms of the threads in the tables.
BeginNew(t) ==
  /\ ~Found(t) /\ pc' = [pc EXCEPT ![t] = "count"] /\ mainHash' = [mainHash EXCEPT ![t] = Len(tables)]
  /\ UNCHANGED <<newCount, producer, ret>>
BeginFound(t, h, s) ==
  /\ s \in DOMAIN tables[h] /\ tables[h][s].key = t /\ t \in Keys(h) /\ h = Len(tables)
  /\ Return(t, tables[h][s].value)
BeginOld(t, h, s) ==
  /\ s \in DOMAIN tables[h] /\ tables[h][s].key = t /\ t \in Keys(h)
  /\ h < Len(tables) /\ t \notin Keys(Len(tables))
  /\ pc' = [pc EXCEPT ![t] = "copy"] /\ mainHash' = [mainHash EXCEPT ![t] = Len(tables)]
  /\ producer' = [producer EXCEPT ![t] = tables[h][s].value]
  /\ UNCHANGED <<newCount, ret>>

\* A call goes on without a producer when no table has the thread.
LEMMA BeginFacts ==
  ASSUME TypeOK, PlaceInv, FreeSlot, NEW t \in Threads, Begin(t)
  PROVE  /\ pc[t] = "idle" /\ UNCHANGED <<table, list, failures>>
         /\ BeginNew(t) \/ \E h \in DOMAIN tables : \E s \in DOMAIN tables[h] : BeginFound(t, h, s) \/ BeginOld(t, h, s)
  <1>1. /\ Holding(t) = {h \in DOMAIN tables : t \in Keys(h)}
        /\ \A h \in Holding(t) : Stop(h, t, {t}) \in DOMAIN tables[h] /\ tables[h][Stop(h, t, {t})].key = t
    BY HoldingFacts
  <1>2. pc[t] = "idle" /\ UNCHANGED <<table, list, failures>> BY DEF Begin
  <1>3. CASE Holding(t) = {}
    <2>1. ~Found(t) BY <1>1, <1>3 DEF Found
    <2> QED BY <1>2, <1>3, <2>1 DEF Begin, BeginNew
  <1>4. ASSUME NEW h \in Holding(t), \A g \in Holding(t) : g <= h,
               LET p == tables[h][Stop(h, t, {t})].value
               IN  \/ /\ h = Len(tables)
                      /\ Return(t, p)
                   \/ /\ h < Len(tables)
                      /\ pc' = [pc EXCEPT ![t] = "copy"]
                      /\ mainHash' = [mainHash EXCEPT ![t] = Len(tables)]
                      /\ producer' = [producer EXCEPT ![t] = p]
                      /\ UNCHANGED <<newCount, ret>>
        PROVE  \E s \in DOMAIN tables[h] : BeginFound(t, h, s) \/ BeginOld(t, h, s)
    <2> DEFINE s == Stop(h, t, {t})
    <2>1. s \in DOMAIN tables[h] /\ tables[h][s].key = t /\ h \in DOMAIN tables /\ t \in Keys(h) BY <1>1
    <2> HIDE DEF s
    <2>2. Len(tables) \in DOMAIN tables /\ Len(tables) \in Nat /\ h \in Nat BY <2>1 DEF TypeOK
    <2>3. h < Len(tables) => t \notin Keys(Len(tables))
      <3>1. t \in Keys(Len(tables)) => Len(tables) <= h BY <1>1, <1>4, <2>2
      <3> QED BY <2>2, <3>1
    <2>4. CASE h = Len(tables) /\ Return(t, tables[h][s].value) BY <2>1, <2>4 DEF BeginFound
    <2>5. CASE /\ h < Len(tables) /\ pc' = [pc EXCEPT ![t] = "copy"]
               /\ mainHash' = [mainHash EXCEPT ![t] = Len(tables)]
               /\ producer' = [producer EXCEPT ![t] = tables[h][s].value] /\ UNCHANGED <<newCount, ret>>
      BY <2>1, <2>3, <2>5 DEF BeginOld
    <2> QED BY <1>4, <2>1, <2>4, <2>5 DEF s
  <1> QED BY <1>1, <1>2, <1>3, <1>4 DEF Begin

\* A thread that inserts itself finds room in a table that does not have it.
LEMMA InsertReady ==
  ASSUME Inv, NEW t \in Threads, Copy(t) \/ InsertProducer(t)
  PROVE  /\ mainHash[t] \in DOMAIN tables /\ producer[t] \in Nat /\ t \notin Keys(mainHash[t])
         /\ producer[t] \in DOMAIN owner /\ owner[producer[t]] = t
         /\ Insert(mainHash[t], t, producer[t]) /\ Return(t, producer[t]) /\ FreeSlot
         /\ UNCHANGED <<implicitProducerHashCount, implicitProducerHashResizeInProgress, list, failures>>
  <1>1. pc[t] \in {"copy", "insert"} /\ Insert(mainHash[t], t, producer[t]) /\ Return(t, producer[t])
    BY DEF Copy, InsertProducer
  <1>2. mainHash[t] \in DOMAIN tables BY <1>1 DEF Inv, SizeInv
  <1>3. t \notin Keys(mainHash[t]) BY <1>1, <1>2 DEF Inv, OwnInv, Found
  <1>4. producer[t] \in Nat BY DEF Inv, TypeOK
  <1>5. FreeSlot BY SlotFree DEF Inv
  <1>6. producer[t] \in DOMAIN owner /\ owner[producer[t]] = t BY <1>1 DEF Inv, OwnInv
  <1> QED BY <1>1, <1>2, <1>3, <1>4, <1>5, <1>6 DEF Copy, InsertProducer

\* The table that is added is larger.
LEMMA GrowReady ==
  ASSUME Inv, NEW t \in Threads, Grow(t)
  PROVE  \E n \in Nat \ {0} : /\ tables' = Append(tables, EmptyTable(n))
                              /\ \A g \in DOMAIN tables : Capacity(g) <= n
  <1> DEFINE h == mainHash[t]
             n == NewCapacity(Capacity(h), newCount[t])
  <1>1. pc[t] = "grow" BY DEF Grow, Goto
  <1>2. h \in DOMAIN tables /\ h = Len(tables) BY <1>1 DEF Inv, SizeInv
  <1>3. Capacity(h) \in Nat \ {0} BY <1>2, TablesFacts DEF Inv
  <1>4. newCount[t] \in Int /\ newCount[t] < MaxThreads BY <1>1 DEF Inv, TypeOK, CountInv, Counted
  <1>5. n \in Nat /\ n > Capacity(h) BY <1>3, <1>4, NewCapacityLarger
  <1>6. ASSUME NEW g \in DOMAIN tables PROVE Capacity(g) <= n
    <2>1. g <= h BY <1>2 DEF Inv, TypeOK
    <2>2. Capacity(g) <= Capacity(h) BY <1>2, <2>1 DEF Inv, SizeInv
    <2>3. Capacity(g) \in Nat BY TablesFacts DEF Inv
    <2> QED BY <1>3, <1>5, <2>2, <2>3
  <1>7. tables' = Append(tables, EmptyTable(n)) BY DEF Grow
  <1> QED BY <1>3, <1>5, <1>6, <1>7

\* The other steps leave the tables alone.
LEMMA TablesStay ==
  ASSUME NEW t \in Threads, Begin(t) \/ Step(t), ~Copy(t), ~InsertProducer(t), ~Grow(t)
  PROVE  tables' = tables
  BY DEF Begin, Step, AddCount, TryResize, Reload, ClearFlag, GrowFails, Abandon, Room, Create, CreateFails, Link,
         table

\* What a call leaves behind when it returns.
LEMMA ReturnFacts ==
  ASSUME TypeOK, NEW t \in Threads, NEW p, Return(t, p)
  PROVE  /\ pc' = [pc EXCEPT ![t] = "idle"] /\ pc' \in [Threads -> Labels]
         /\ mainHash' \in [Threads -> Nat] /\ newCount' \in [Threads -> Int]
         /\ producer' = [producer EXCEPT ![t] = 0] /\ producer' \in [Threads -> Nat]
         /\ ret' = [ret EXCEPT ![t] = p] /\ (p \in Nat => ret' \in [Threads -> Nat])
         /\ mainHash' = [mainHash EXCEPT ![t] = 0] /\ newCount' = [newCount EXCEPT ![t] = 0]
  BY DEF TypeOK, Return, Labels

\* The types are kept.
LEMMA TypeStep ==
  ASSUME Inv, NEW t \in Threads, Begin(t) \/ Step(t)
  PROVE  TypeOK'
  <1> USE DEF table, list, locals
  <1>1. TypeOK BY DEF Inv
  <1>2. CASE Begin(t)
    <2>1. FreeSlot /\ PlaceInv BY SlotFree DEF Inv
    <2>2. UNCHANGED <<table, list, failures>> BY <1>2 DEF Begin
    <2>3. CASE BeginNew(t) BY <1>1, <2>2, <2>3 DEF BeginNew, TypeOK, Labels
    <2>4. ASSUME NEW h \in DOMAIN tables, NEW s \in DOMAIN tables[h], BeginFound(t, h, s) \/ BeginOld(t, h, s)
          PROVE  TypeOK'
      <3>1. tables[h][s].value \in Nat BY <1>1, TablesFacts
      <3>2. CASE BeginFound(t, h, s)
        <4>1. Return(t, tables[h][s].value) BY <3>2 DEF BeginFound
        <4> QED BY <1>1, <2>2, <3>1, <4>1, ReturnFacts DEF TypeOK
      <3>3. CASE BeginOld(t, h, s) BY <1>1, <2>2, <3>1, <3>3 DEF BeginOld, TypeOK, Labels
      <3> QED BY <2>4, <3>2, <3>3
    <2> QED BY <1>1, <1>2, <2>1, <2>3, <2>4, BeginFacts
  <1>3. CASE Copy(t) \/ InsertProducer(t)
    <2>1. /\ mainHash[t] \in DOMAIN tables /\ producer[t] \in Nat /\ t \notin Keys(mainHash[t])
          /\ Insert(mainHash[t], t, producer[t]) /\ Return(t, producer[t]) /\ FreeSlot
          /\ UNCHANGED <<implicitProducerHashCount, implicitProducerHashResizeInProgress, list, failures>>
      BY <1>3, InsertReady
    <2>2. tables' \in Seq(Table) /\ Len(tables') = Len(tables) BY <1>1, <2>1, InsertFacts DEF Inv
    <2> QED BY <1>1, <2>1, <2>2, ReturnFacts DEF TypeOK
  <1>4. CASE Grow(t)
    <2>1. PICK n \in Nat \ {0} : tables' = Append(tables, EmptyTable(n)) BY <1>4, GrowReady
    <2>2. tables' \in Seq(Table) /\ Len(tables') = Len(tables) + 1 BY <1>1, <2>1, GrowFacts DEF Inv
    <2>3. Len(tables) \in Nat BY <1>1 DEF TypeOK
    <2> QED BY <1>1, <1>4, <2>2, <2>3 DEF Grow, Goto, TypeOK, Labels
  <1>5. CASE AddCount(t) BY <1>1, <1>5 DEF AddCount, Goto, TypeOK, Labels
  <1>6. CASE TryResize(t) BY <1>1, <1>6 DEF TryResize, TypeOK, Labels
  <1>7. CASE Reload(t) BY <1>1, <1>7 DEF Reload, Goto, TypeOK, Labels
  <1>8. CASE ClearFlag(t) BY <1>1, <1>8 DEF ClearFlag, Goto, TypeOK, Labels
  <1>9. CASE GrowFails(t) BY <1>1, <1>9 DEF GrowFails, Goto, TypeOK, Labels
  <1>10. CASE Abandon(t) 
    <2>1. Return(t, 0) BY <1>10 DEF Abandon
    <2> QED BY <1>1, <1>10, <2>1, ReturnFacts DEF Abandon, TypeOK
  <1>11. CASE Room(t) 
    <2>1. pc' \in [Threads -> Labels] BY <1>1, <1>11 DEF Room, TypeOK, Labels
    <2>2. mainHash' \in [Threads -> Nat] BY <1>1, <1>11 DEF Room, TypeOK
    <2> QED BY <1>1, <1>11, <2>1, <2>2 DEF Room, TypeOK
  <1>12. CASE Create(t) 
    <2>1. pc' \in [Threads -> Labels] BY <1>1, <1>12 DEF Create, Goto, TypeOK, Labels
    <2>2. next' \in [Producers -> Nat] /\ owner' \in Seq(Threads)
      <3>1. producerListTail \in Nat /\ next \in [Producers -> Nat] /\ owner \in Seq(Threads) BY <1>1 DEF TypeOK
      <3>2. [next EXCEPT ![Len(owner) + 1] = producerListTail] \in [Producers -> Nat] BY <3>1
      <3> QED BY <1>12, <3>1, <3>2 DEF Create
    <2>3. producer' \in [Threads -> Nat] /\ producerCount' \in Nat BY <1>1, <1>12 DEF Create, TypeOK
    <2> QED BY <1>1, <1>12, <2>1, <2>2, <2>3 DEF Create, TypeOK
  <1>13. CASE CreateFails(t) 
    <2>1. Return(t, 0) BY <1>13 DEF CreateFails
    <2>2. failures' \in Nat /\ implicitProducerHashCount' \in Int BY <1>1, <1>13 DEF CreateFails, TypeOK
    <2> QED BY <1>1, <1>13, <2>1, <2>2, ReturnFacts DEF CreateFails, TypeOK
  <1>14. CASE Link(t) 
    <2>1. pc' \in [Threads -> Labels] BY <1>1, <1>14 DEF Link, TypeOK, Labels
    <2>2. next' \in [Producers -> Nat] /\ producerListTail' \in Nat
      <3>1. /\ producerListTail \in Nat /\ next \in [Producers -> Nat]
            /\ producer \in [Threads -> Nat] /\ producer[t] \in Nat
        BY <1>1 DEF TypeOK
      <3>2. [next EXCEPT ![producer[t]] = producerListTail] \in [Producers -> Nat] BY <3>1
      <3> QED BY <1>14, <3>1, <3>2 DEF Link
    <2> QED BY <1>1, <1>14, <2>1, <2>2 DEF Link, TypeOK
  <1> QED BY <1>2, <1>3, <1>4, <1>5, <1>6, <1>7, <1>8, <1>9, <1>10, <1>11, <1>12, <1>13, <1>14 DEF Step

\* The threads in the tables are still found after a step.
LEMMA PlaceStep ==
  ASSUME Inv, NEW t \in Threads, Begin(t) \/ Step(t)
  PROVE  PlaceInv'
  <1>1. CASE Copy(t) \/ InsertProducer(t) BY <1>1, InsertReady, InsertFacts DEF Inv
  <1>2. CASE Grow(t) BY <1>2, GrowReady, GrowFacts DEF Inv
  <1>3. CASE tables' = tables BY <1>3 DEF Inv, PlaceInv, Capacity, Probe
  <1> QED BY <1>1, <1>2, <1>3, TablesStay

\* The part of SizeInv about the thread t.
SizeAt(t) ==
  /\ pc[t] # "idle" => mainHash[t] \in DOMAIN tables
  /\ pc[t] \in Flagged => implicitProducerHashResizeInProgress = TRUE
  /\ \A u \in Threads : pc[t] \in Flagged /\ pc[u] \in Flagged => t = u
  /\ pc[t] = "grow" => mainHash[t] = Len(tables)

\* Only one thread enlarges the tables, and they only get larger.
LEMMA SizeStep ==
  ASSUME Inv, NEW t \in Threads, Begin(t) \/ Step(t)
  PROVE  SizeInv'
  <1> USE DEF table, list, locals
  <1>1. TypeOK /\ SizeInv BY DEF Inv
  <1>2. Len(tables) \in Nat /\ DOMAIN tables = 1 .. Len(tables) /\ Len(tables) \in DOMAIN tables BY <1>1 DEF TypeOK
  <1>3. CASE Copy(t) \/ InsertProducer(t)
    <2>1. /\ mainHash[t] \in DOMAIN tables /\ producer[t] \in Nat /\ t \notin Keys(mainHash[t])
          /\ Insert(mainHash[t], t, producer[t]) /\ Return(t, producer[t]) /\ FreeSlot
          /\ UNCHANGED implicitProducerHashResizeInProgress
      BY <1>3, InsertReady
    <2>2. /\ Len(tables') = Len(tables) /\ DOMAIN tables' = DOMAIN tables
          /\ \A g \in DOMAIN tables : DOMAIN tables'[g] = DOMAIN tables[g]
      BY <2>1, InsertFacts DEF Inv
    <2>3. \A g \in DOMAIN tables : Capacity(g)' = Capacity(g) BY <2>2 DEF Capacity
    <2> QED BY <1>1, <2>1, <2>2, <2>3 DEF SizeInv, Return, TypeOK, Flagged
  <1>4. CASE Grow(t)
    <2>1. PICK n \in Nat \ {0} :
            tables' = Append(tables, EmptyTable(n)) /\ \A g \in DOMAIN tables : Capacity(g) <= n
      BY <1>4, GrowReady
    <2>2. /\ Len(tables') = Len(tables) + 1 /\ DOMAIN tables' = 1 .. Len(tables) + 1
          /\ \A g \in DOMAIN tables : Capacity(g)' = Capacity(g)
          /\ \A g : g = Len(tables) + 1 => Capacity(g)' = n
      BY <2>1, GrowFacts DEF Inv
    <2>3. ASSUME NEW g \in DOMAIN tables', NEW h \in DOMAIN tables', g <= h PROVE Capacity(g)' <= Capacity(h)'
      <3>1. CASE h \in DOMAIN tables
        <4>1. g \in DOMAIN tables BY <1>2, <2>2, <2>3, <3>1
        <4> QED BY <1>1, <2>2, <2>3, <3>1, <4>1 DEF SizeInv
      <3>2. CASE h = Len(tables) + 1
        <4>1. Capacity(h)' = n BY <2>2, <3>2
        <4>2. g \in DOMAIN tables => Capacity(g)' <= n BY <2>1, <2>2
        <4>3. g = Len(tables) + 1 => Capacity(g)' <= n BY <2>2
        <4> QED BY <1>2, <2>2, <4>1, <4>2, <4>3
      <3> QED BY <1>2, <2>2, <3>1, <3>2
    <2>4. ASSUME NEW u \in Threads PROVE SizeAt(u)'
      <3>1. pc[t] = "grow" /\ pc'[t] = "clear" /\ mainHash'[t] = Len(tables) + 1
        BY <1>1, <1>4 DEF Grow, Goto, TypeOK
      <3>2. u # t => pc'[u] = pc[u] /\ mainHash'[u] = mainHash[u] BY <1>1, <1>4 DEF Grow, Goto, TypeOK
      <3>3. \A v \in Threads : pc'[v] \in Flagged => pc[v] \in Flagged
        BY <1>1, <1>4, <3>1 DEF Grow, Goto, TypeOK, Flagged
      <3>4. UNCHANGED implicitProducerHashResizeInProgress BY <1>4 DEF Grow
      <3>5. pc[t] \in Flagged BY <3>1 DEF Flagged
      <3>6. mainHash'[u] \in DOMAIN tables' \/ pc'[u] = "idle" BY <1>1, <1>2, <2>2, <3>1, <3>2 DEF SizeInv
      <3>7. pc'[u] # "grow"
        <4>1. u # t => pc[u] # "grow" BY <1>1, <3>5 DEF SizeInv, Flagged
        <4> QED BY <3>1, <3>2, <4>1
      <3> QED BY <1>1, <3>3, <3>4, <3>6, <3>7 DEF SizeAt, SizeInv
    <2> QED BY <2>3, <2>4 DEF SizeInv, SizeAt
  <1>5. CASE tables' = tables /\ ~Copy(t) /\ ~InsertProducer(t) /\ ~Grow(t)
    <2>1. \A g, h \in DOMAIN tables' : g <= h => Capacity(g)' <= Capacity(h)' BY <1>1, <1>5 DEF SizeInv, Capacity
    <2>2. ASSUME NEW u \in Threads PROVE SizeAt(u)'
      <3> USE <1>1, <1>2, <1>5 DEF SizeInv, SizeAt, TypeOK, Flagged, Goto, Return
      <3>1. CASE Begin(t)
        <4>1. CASE BeginNew(t) BY <3>1, <4>1 DEF Begin, BeginNew
        <4>2. ASSUME NEW h \in DOMAIN tables, NEW s \in DOMAIN tables[h], BeginFound(t, h, s) \/ BeginOld(t, h, s)
              PROVE  SizeAt(u)'
          BY <3>1, <4>2 DEF Begin, BeginFound, BeginOld
        <4>3. FreeSlot /\ PlaceInv BY SlotFree DEF Inv
        <4> QED BY <3>1, <4>1, <4>2, <4>3, BeginFacts
      <3>2. CASE AddCount(t) BY <3>2 DEF AddCount
      <3>3. CASE TryResize(t) BY <3>3 DEF TryResize
      <3>4. CASE Reload(t) BY <3>4 DEF Reload
      <3>5. CASE ClearFlag(t) BY <3>5 DEF ClearFlag
      <3>6. CASE GrowFails(t) BY <3>6 DEF GrowFails
      <3>7. CASE Abandon(t) BY <3>7 DEF Abandon
      <3>8. CASE Room(t) BY <3>8 DEF Room
      <3>9. CASE Create(t) BY <3>9 DEF Create
      <3>10. CASE CreateFails(t) BY <3>10 DEF CreateFails
      <3>11. CASE Link(t) BY <3>11 DEF Link
      <3> QED BY <3>1, <3>2, <3>3, <3>4, <3>5, <3>6, <3>7, <3>8, <3>9, <3>10, <3>11 DEF Step
    <2> QED BY <2>1, <2>2 DEF SizeInv, SizeAt
  <1> QED BY <1>3, <1>4, <1>5, TablesStay

\* A step leaves the other threads alone.
Alone(t) ==
  \A u \in Threads \ {t} : /\ pc'[u] = pc[u] /\ mainHash'[u] = mainHash[u] /\ newCount'[u] = newCount[u]
                           /\ producer'[u] = producer[u] /\ ret'[u] = ret[u]

\* So does every step of the model.
LEMMA StepAlone ==
  ASSUME Inv, NEW t \in Threads, Begin(t) \/ Step(t)
  PROVE  Alone(t)
  <1> USE DEF table, list, locals, Alone, Goto, Return, TypeOK
  <1>1. TypeOK BY DEF Inv
  <1>2. CASE Begin(t)
    <2>1. CASE BeginNew(t) BY <1>1, <2>1 DEF BeginNew
    <2>2. ASSUME NEW h \in DOMAIN tables, NEW s \in DOMAIN tables[h], BeginFound(t, h, s) PROVE Alone(t)
      BY <1>1, <2>2 DEF BeginFound
    <2>3. ASSUME NEW h \in DOMAIN tables, NEW s \in DOMAIN tables[h], BeginOld(t, h, s) PROVE Alone(t)
      BY <1>1, <2>3 DEF BeginOld
    <2>4. FreeSlot /\ PlaceInv BY SlotFree DEF Inv
    <2> HIDE DEF Alone, TypeOK
    <2> QED BY <1>1, <1>2, <2>1, <2>2, <2>3, <2>4, BeginFacts
  <1>3. CASE Copy(t) BY <1>1, <1>3 DEF Copy
  <1>4. CASE InsertProducer(t) BY <1>1, <1>4 DEF InsertProducer
  <1>5. CASE Grow(t) BY <1>1, <1>5 DEF Grow
  <1>6. CASE AddCount(t) BY <1>1, <1>6 DEF AddCount
  <1>7. CASE TryResize(t) BY <1>1, <1>7 DEF TryResize
  <1>8. CASE Reload(t) BY <1>1, <1>8 DEF Reload
  <1>9. CASE ClearFlag(t) BY <1>1, <1>9 DEF ClearFlag
  <1>10. CASE GrowFails(t) BY <1>1, <1>10 DEF GrowFails
  <1>11. CASE Abandon(t) BY <1>1, <1>11 DEF Abandon
  <1>12. CASE Room(t) BY <1>1, <1>12 DEF Room
  <1>13. CASE Create(t) BY <1>1, <1>13 DEF Create
  <1>14. CASE CreateFails(t) BY <1>1, <1>14 DEF CreateFails
  <1>15. CASE Link(t) BY <1>1, <1>15 DEF Link
  <1> HIDE DEF Alone, TypeOK
  <1> QED BY <1>2, <1>3, <1>4, <1>5, <1>6, <1>7, <1>8, <1>9, <1>10, <1>11, <1>12, <1>13, <1>14, <1>15 DEF Step

\* The parts of OwnInv: about the tables, and about the thread t.
OwnerInv ==
  /\ \A p, q \in DOMAIN owner : owner[p] = owner[q] => p = q
  /\ \A h \in DOMAIN tables : \A s \in DOMAIN tables[h] : tables[h][s].key # NoThread =>
       tables[h][s].value \in DOMAIN owner /\ owner[tables[h][s].value] = tables[h][s].key
OwnAt(t) ==
  /\ pc[t] \in {"copy", "link", "insert"} => producer[t] \in DOMAIN owner /\ owner[producer[t]] = t
  /\ pc[t] \in Without => ~Owns(t)
  /\ pc[t] \in {"link", "insert"} => ~Found(t)
  /\ pc[t] \in {"idle", "copy"} /\ Owns(t) => Found(t)
  /\ pc[t] = "copy" => t \notin Keys(mainHash[t]) /\ \E g \in DOMAIN tables : g < mainHash[t] /\ t \in Keys(g)
  /\ ret[t] # 0 => ret[t] \in DOMAIN owner /\ owner[ret[t]] = t /\ pc[t] \in {"idle", "copy"}

\* Together they are OwnInv.
LEMMA OwnParts == OwnInv <=> OwnerInv /\ \A t \in Threads : OwnAt(t)
  BY DEF OwnInv, OwnerInv, OwnAt

\* A thread in a table has a producer.
LEMMA FoundOwns ==
  ASSUME OwnerInv, NEW t \in Threads, Found(t)
  PROVE  Owns(t)
  <1>1. t # NoThread BY ProducerTableAssumption
  <1>2. PICK h \in DOMAIN tables : \E s \in DOMAIN tables[h] : tables[h][s].key = t BY DEF Found, Keys
  <1> QED BY <1>1, <1>2 DEF OwnerInv, Owns

\* The threads have the producers they had when nothing is created and nothing inserted.
LEMMA OwnSame ==
  ASSUME Inv, NEW t \in Threads, tables' = tables, owner' = owner, Alone(t), OwnAt(t)'
  PROVE  OwnInv'
  <1>1. OwnerInv /\ \A u \in Threads : OwnAt(u) BY OwnParts DEF Inv
  <1>2. OwnerInv' BY <1>1 DEF OwnerInv
  <1>3. \A u \in Threads : (Owns(u)' <=> Owns(u)) /\ (Found(u)' <=> Found(u)) BY DEF Owns, Found, Keys
  <1>4. \A g : Keys(g)' = Keys(g) BY DEF Keys
  <1>5. ASSUME NEW u \in Threads \ {t} PROVE OwnAt(u)' BY <1>1, <1>3, <1>4 DEF OwnAt, Alone
  <1>6. \A u \in Threads : OwnAt(u)' BY <1>5
  <1> QED BY <1>2, <1>6 DEF OwnInv, OwnerInv, OwnAt

\* Begin, and the steps of a thread that has no producer and creates none.
LEMMA OwnQuiet ==
  ASSUME Inv, NEW t \in Threads, Begin(t) \/ Step(t), ~Copy(t), ~InsertProducer(t), ~Grow(t), ~Create(t)
  PROVE  OwnInv'
  <1> USE DEF table, list, locals
  <1>1. TypeOK /\ OwnerInv /\ OwnAt(t) /\ Alone(t) BY OwnParts, StepAlone DEF Inv
  <1>2. tables' = tables BY TablesStay
  <1>3. owner' = owner
    BY DEF Begin, Step, AddCount, TryResize, Reload, ClearFlag, GrowFails, Abandon, Room, CreateFails, Link
  <1>4. (Owns(t)' <=> Owns(t)) /\ (Found(t)' <=> Found(t)) BY <1>2, <1>3 DEF Owns, Found, Keys
  <1>5. \A g : Keys(g)' = Keys(g) BY <1>2 DEF Keys
  <1>6. CASE Begin(t)
    <2>0. FreeSlot /\ PlaceInv /\ pc[t] = "idle" BY <1>6, SlotFree DEF Inv, Begin
    <2>1. ASSUME BeginNew(t) PROVE OwnAt(t)'
      <3>1. ~Owns(t) BY <1>1, <2>0, <2>1 DEF BeginNew, OwnAt
      <3>2. ret[t] = 0 BY <1>1, <3>1 DEF OwnAt, Owns
      <3>3. pc'[t] = "count" /\ ret'[t] = 0 BY <1>1, <2>1, <3>2 DEF BeginNew, TypeOK
      <3> QED BY <1>4, <3>1, <3>3 DEF OwnAt, Without
    <2>2. ASSUME NEW h \in DOMAIN tables, NEW s \in DOMAIN tables[h], BeginFound(t, h, s) \/ BeginOld(t, h, s)
          PROVE  OwnAt(t)'
      <3> DEFINE v == tables[h][s].value
      <3>1. t \in Keys(h) /\ tables[h][s].key = t /\ t # NoThread
        BY <2>2, ProducerTableAssumption DEF BeginFound, BeginOld
      <3>2. v \in DOMAIN owner /\ owner[v] = t BY <1>1, <3>1 DEF OwnerInv
      <3>3. Found(t) BY <3>1 DEF Found
      <3> HIDE DEF v
      <3>4. CASE BeginFound(t, h, s)
        <4>1. pc'[t] = "idle" /\ ret'[t] = v BY <1>1, <3>4 DEF BeginFound, Return, TypeOK, v
        <4> QED BY <1>3, <1>4, <3>2, <3>3, <4>1 DEF OwnAt, Without
      <3>5. CASE BeginOld(t, h, s)
        <4>1. pc'[t] = "copy" /\ ret'[t] = ret[t] /\ producer'[t] = v /\ mainHash'[t] = Len(tables)
          BY <1>1, <3>5 DEF BeginOld, TypeOK, v
        <4>2. h < Len(tables) /\ t \notin Keys(Len(tables)) BY <3>5 DEF BeginOld
        <4>3. t \notin Keys(mainHash[t])' BY <1>2, <4>1, <4>2 DEF Keys
        <4>4. \E g \in DOMAIN tables' : g < mainHash'[t] /\ t \in Keys(g)' BY <1>2, <1>5, <3>1, <4>1, <4>2
        <4> QED BY <1>1, <1>3, <1>4, <3>2, <3>3, <4>1, <4>3, <4>4 DEF OwnAt, Without
      <3> QED BY <2>2, <3>4, <3>5
    <2>3. BeginNew(t) \/ \E h \in DOMAIN tables : \E s \in DOMAIN tables[h] : BeginFound(t, h, s) \/ BeginOld(t, h, s)
      BY <1>1, <1>6, <2>0, BeginFacts
    <2>4. OwnAt(t)' BY <2>1, <2>2, <2>3
    <2> QED BY <1>1, <1>2, <1>3, <2>4, OwnSame
  <1>7. CASE Link(t)
    <2>1. pc[t] = "link" /\ pc'[t] \in {"link", "insert"} /\ producer'[t] = producer[t] /\ ret'[t] = ret[t]
      BY <1>1, <1>7 DEF Link, TypeOK
    <2>2. OwnAt(t)' BY <1>1, <1>3, <1>4, <2>1 DEF OwnAt, Without
    <2> QED BY <1>1, <1>2, <1>3, <2>2, OwnSame
  <1>8. CASE Abandon(t) \/ CreateFails(t)
    <2>1. pc[t] \in Without /\ Return(t, 0) BY <1>8 DEF Abandon, CreateFails, Without
    <2>2. pc'[t] = "idle" /\ ret'[t] = 0 BY <1>1, <2>1 DEF Return, TypeOK
    <2>3. OwnAt(t)' BY <1>1, <1>4, <2>1, <2>2 DEF OwnAt, Without
    <2> QED BY <1>1, <1>2, <1>3, <2>3, OwnSame
  <1>9. CASE AddCount(t) \/ TryResize(t) \/ Reload(t) \/ ClearFlag(t) \/ GrowFails(t) \/ Room(t)
    <2>1. pc[t] \in Without /\ pc'[t] \in Without
      <3> USE DEF Without, TypeOK, Goto
      <3> QED BY <1>1, <1>9 DEF AddCount, TryResize, Reload, ClearFlag, GrowFails, Room
    <2>2. ret' = ret BY <1>9 DEF AddCount, TryResize, Reload, ClearFlag, GrowFails, Room
    <2>3. OwnAt(t)' BY <1>1, <1>4, <2>1, <2>2 DEF OwnAt, Without
    <2> QED BY <1>1, <1>2, <1>3, <2>3, OwnSame
  <1> QED BY <1>6, <1>7, <1>8, <1>9 DEF Step

\* A producer is created for a thread that has none.
LEMMA OwnCreate ==
  ASSUME Inv, NEW t \in Threads, Create(t)
  PROVE  OwnInv'
  <1> USE DEF table, list
  <1>0. Step(t) BY DEF Step
  <1>1. TypeOK /\ OwnerInv /\ Alone(t) /\ \A u \in Threads : OwnAt(u) BY <1>0, OwnParts, StepAlone DEF Inv
  <1>2. tables' = tables /\ owner' = Append(owner, t) BY DEF Create
  <1>3. pc[t] = "create" /\ pc'[t] = "link" /\ producer'[t] = Len(owner) + 1 /\ ret'[t] = ret[t]
    BY <1>1 DEF Create, Goto, TypeOK
  <1>4. ~Owns(t) BY <1>1, <1>3 DEF OwnAt, Without
  <1>5. ~Found(t) BY <1>1, <1>4, FoundOwns
  <1>6. /\ DOMAIN owner' = DOMAIN owner \cup {Len(owner) + 1} /\ owner'[Len(owner) + 1] = t
        /\ Len(owner) + 1 \notin DOMAIN owner /\ \A p \in DOMAIN owner : owner'[p] = owner[p]
    <2>1. owner \in Seq(Threads) /\ Len(owner) \in Nat BY <1>1 DEF TypeOK
    <2>2. DOMAIN owner = 1 .. Len(owner) /\ DOMAIN owner' = 1 .. Len(owner) + 1 BY <1>2, <2>1
    <2>3. 1 .. Len(owner) + 1 = (1 .. Len(owner)) \cup {Len(owner) + 1} /\ Len(owner) + 1 \notin 1 .. Len(owner)
      BY <2>1
    <2> QED BY <1>2, <2>1, <2>2, <2>3
  <1>7. \A u \in Threads : Found(u)' <=> Found(u) BY <1>2 DEF Found, Keys
  <1>8. \A u \in Threads : u # t => (Owns(u)' <=> Owns(u)) BY <1>6 DEF Owns
  <1>9. \A g : Keys(g)' = Keys(g) BY <1>2 DEF Keys
  <1>10. OwnerInv'
    <2>1. \A p, q \in DOMAIN owner' : owner'[p] = owner'[q] => p = q BY <1>1, <1>4, <1>6 DEF OwnerInv, Owns
    <2>2. \A h \in DOMAIN tables : \A s \in DOMAIN tables[h] : tables[h][s].key # NoThread =>
            tables[h][s].value \in DOMAIN owner' /\ owner'[tables[h][s].value] = tables[h][s].key
      BY <1>1, <1>6 DEF OwnerInv
    <2> QED BY <1>2, <2>1, <2>2 DEF OwnerInv
  <1>11. ASSUME NEW u \in Threads PROVE OwnAt(u)'
    <2>1. CASE u = t BY <1>1, <1>3, <1>5, <1>6, <1>7, <2>1 DEF OwnAt, Without
    <2>2. CASE u # t
      <3>1. OwnAt(u) BY <1>1
      <3>2. pc'[u] = pc[u] /\ mainHash'[u] = mainHash[u] /\ producer'[u] = producer[u] /\ ret'[u] = ret[u]
        BY <1>1, <2>2 DEF Alone
      <3> QED BY <1>2, <1>6, <1>7, <1>8, <1>9, <2>2, <3>1, <3>2 DEF OwnAt
    <2> QED BY <2>1, <2>2
  <1> QED BY <1>10, <1>11 DEF OwnInv, OwnerInv, OwnAt

\* The thread is in the table it has inserted itself into.
LEMMA OwnInsert ==
  ASSUME Inv, NEW t \in Threads, Copy(t) \/ InsertProducer(t)
  PROVE  OwnInv'
  <1> USE DEF table, list
  <1>0. Step(t) BY DEF Step
  <1>1. TypeOK /\ OwnerInv /\ Alone(t) /\ \A u \in Threads : OwnAt(u) BY <1>0, OwnParts, StepAlone DEF Inv
  <1>2. /\ mainHash[t] \in DOMAIN tables /\ producer[t] \in Nat /\ t \notin Keys(mainHash[t])
        /\ producer[t] \in DOMAIN owner /\ owner[producer[t]] = t
        /\ Insert(mainHash[t], t, producer[t]) /\ Return(t, producer[t]) /\ FreeSlot /\ owner' = owner
    BY InsertReady
  <1>3. /\ DOMAIN tables' = DOMAIN tables
        /\ \A g \in DOMAIN tables : DOMAIN tables'[g] = DOMAIN tables[g]
        /\ \A g \in DOMAIN tables : \A s \in DOMAIN tables[g] :
             tables'[g][s] = tables[g][s] \/ (tables'[g][s].key = t /\ tables'[g][s].value = producer[t])
        /\ \A g \in DOMAIN tables : Keys(g)' = IF g = mainHash[t] THEN Keys(g) \cup {t} ELSE Keys(g)
    BY <1>2, InsertFacts DEF Inv
  <1>4. OwnerInv' BY <1>1, <1>2, <1>3 DEF OwnerInv
  <1>5. \A u \in Threads : Owns(u)' <=> Owns(u) BY <1>2 DEF Owns
  <1>6. \A u \in Threads : u # t => (Found(u)' <=> Found(u)) BY <1>3 DEF Found
  <1>7. Found(t)' BY <1>2, <1>3 DEF Found
  <1>8. pc'[t] = "idle" /\ ret'[t] = producer[t] BY <1>1, <1>2 DEF Return, TypeOK
  <1>9. ASSUME NEW u \in Threads PROVE OwnAt(u)'
    <2>1. CASE u = t BY <1>2, <1>7, <1>8, <2>1 DEF OwnAt, Without
    <2>2. CASE u # t
      <3>1. OwnAt(u) BY <1>1
      <3>2. pc'[u] = pc[u] /\ mainHash'[u] = mainHash[u] /\ producer'[u] = producer[u] /\ ret'[u] = ret[u]
        BY <1>1, <2>2 DEF Alone
      <3>3. pc[u] = "copy" => mainHash[u] \in DOMAIN tables BY DEF Inv, SizeInv
      <3>4. \A g \in DOMAIN tables : u \in Keys(g)' <=> u \in Keys(g) BY <1>3, <2>2
      <3>5. pc[u] = "copy" =>
              u \notin Keys(mainHash[u])' /\ \E g \in DOMAIN tables' : g < mainHash'[u] /\ u \in Keys(g)'
        BY <1>3, <3>1, <3>2, <3>3, <3>4 DEF OwnAt, Keys
      <3> QED BY <1>2, <1>5, <1>6, <2>2, <3>1, <3>2, <3>5 DEF OwnAt
    <2> QED BY <2>1, <2>2
  <1> QED BY <1>4, <1>9 DEF OwnInv, OwnerInv, OwnAt

\* A new table has no threads.
LEMMA OwnGrow ==
  ASSUME Inv, NEW t \in Threads, Grow(t)
  PROVE  OwnInv'
  <1> USE DEF table, list
  <1>0. Step(t) BY DEF Step
  <1>1. TypeOK /\ OwnerInv /\ Alone(t) /\ \A u \in Threads : OwnAt(u) BY <1>0, OwnParts, StepAlone DEF Inv
  <1>2. PICK n \in Nat \ {0} : tables' = Append(tables, EmptyTable(n)) BY GrowReady
  <1> DEFINE top == Len(tables) + 1
  <1>3. /\ DOMAIN tables' = 1 .. top
        /\ \A g \in DOMAIN tables : g \in DOMAIN tables' /\ tables'[g] = tables[g] /\ Keys(g)' = Keys(g)
        /\ \A g : g = top => Keys(g)' = {}
    BY <1>2, GrowFacts DEF Inv
  <1>4. \A g \in DOMAIN tables' : g \in DOMAIN tables \/ g = top BY <1>1, <1>3 DEF TypeOK
  <1> HIDE DEF top
  <1>5. owner' = owner /\ ret' = ret /\ pc[t] = "grow" /\ pc'[t] = "clear" BY <1>1 DEF Grow, Goto, TypeOK
  <1>6. ASSUME NEW g \in DOMAIN tables', NEW s \in DOMAIN tables'[g], tables'[g][s].key # NoThread
        PROVE  g \in DOMAIN tables
    <2>1. tables'[g][s].key \in Keys(g)' BY <1>6 DEF Keys
    <2>2. g # top BY <1>3, <2>1
    <2> QED BY <1>4, <2>2
  <1>7. OwnerInv' BY <1>1, <1>3, <1>5, <1>6 DEF OwnerInv
  <1>8. \A u \in Threads : (Owns(u)' <=> Owns(u)) /\ (Found(u)' <=> Found(u)) BY <1>3, <1>4, <1>5 DEF Owns, Found
  <1>9. ASSUME NEW u \in Threads PROVE OwnAt(u)'
    <2>1. CASE u = t BY <1>1, <1>5, <1>8, <2>1 DEF OwnAt, Without
    <2>2. CASE u # t
      <3>1. OwnAt(u) BY <1>1
      <3>2. pc'[u] = pc[u] /\ mainHash'[u] = mainHash[u] /\ producer'[u] = producer[u] /\ ret'[u] = ret[u]
        BY <1>1, <2>2 DEF Alone
      <3>3. pc[u] = "copy" => mainHash[u] \in DOMAIN tables BY DEF Inv, SizeInv
      <3>4. pc[u] = "copy" =>
              u \notin Keys(mainHash[u])' /\ \E g \in DOMAIN tables' : g < mainHash'[u] /\ u \in Keys(g)'
        BY <1>3, <3>1, <3>2, <3>3 DEF OwnAt, Keys
      <3> QED BY <1>5, <1>8, <2>2, <3>1, <3>2, <3>4 DEF OwnAt
    <2> QED BY <2>1, <2>2
  <1> QED BY <1>7, <1>9 DEF OwnInv, OwnerInv, OwnAt

\* Every thread has one producer at most, and finds it.
LEMMA OwnStep ==
  ASSUME Inv, NEW t \in Threads, Begin(t) \/ Step(t)
  PROVE  OwnInv'
  BY OwnQuiet, OwnCreate, OwnInsert, OwnGrow
------------------------------------------------------------------------------
(* Counting the threads. *)

\* The parts of CountInv: the count, what the thread t got, and the threads in the tables.
AliveInv == implicitProducerHashCount = Cardinality(Alive)
CountAt(t) ==
  /\ pc[t] \in Counted => newCount[t] >= 1 /\ newCount[t] < MaxThreads
  /\ pc[t] \in Decided => newCount[t] < ThreeQuarters(Capacity(mainHash[t]))
RoomInv == \A h \in DOMAIN tables : Keys(h) # {} => ThreeQuarters(Capacity(h)) >= 1
LowInv == \A k \in Nat : Cardinality({t \in Threads : Low(t, k)}) <= k

\* Together they are CountInv.
LEMMA CountParts == CountInv <=> AliveInv /\ (\A t \in Threads : CountAt(t)) /\ RoomInv /\ LowInv
  BY DEF CountInv, AliveInv, CountAt, RoomInv, LowInv

\* Sets of threads are finite.
LEMMA ThreadSets ==
  ASSUME NEW S \in SUBSET Threads
  PROVE  IsFiniteSet(S) /\ Cardinality(S) \in Nat /\ Cardinality(S) <= Cardinality(Threads)
         /\ Cardinality(Threads) \in Nat /\ \A T \in SUBSET S : Cardinality(T) <= Cardinality(S)
  <1>1. IsFiniteSet(Threads) BY ProducerTableAssumption
  <1>2. IsFiniteSet(S) /\ Cardinality(S) <= Cardinality(Threads) BY <1>1, FS_Subset
  <1> QED BY <1>1, <1>2, FS_Subset, FS_CardinalityType

\* The bounds are kept when no thread begins to count towards a bound.
LEMMA LowFewer ==
  ASSUME LowInv, \A u \in Threads, k \in Nat : Low(u, k)' => Low(u, k)
  PROVE  LowInv'
  <1>1. ASSUME NEW k \in Nat PROVE Cardinality({u \in Threads : Low(u, k)'}) <= k
    <2> DEFINE S == {u \in Threads : Low(u, k)}
               T == {u \in Threads : Low(u, k)'}
    <2>1. S \in SUBSET Threads /\ T \in SUBSET Threads /\ T \in SUBSET S OBVIOUS
    <2>2. Cardinality(S) <= k BY DEF LowInv
    <2> HIDE DEF S, T
    <2>3. Cardinality(T) <= Cardinality(S) /\ Cardinality(S) \in Nat /\ Cardinality(T) \in Nat
      BY <2>1, ThreadSets
    <2>4. Cardinality(T) <= k BY <2>2, <2>3
    <2> QED BY <2>4 DEF T
  <1> QED BY <1>1 DEF LowInv

\* The same when only t moves and the tables stay.
LEMMA LowSame ==
  ASSUME LowInv, NEW t \in Threads, Alone(t), tables' = tables,
         pc'[t] \in Counted => pc[t] \in Counted /\ newCount'[t] = newCount[t]
  PROVE  LowInv'
  <1>1. \A g : Keys(g)' = Keys(g) /\ Capacity(g)' = Capacity(g) BY DEF Keys, Capacity
  <1>2. ASSUME NEW u \in Threads, NEW k \in Nat, Low(u, k)' PROVE Low(u, k)
    <2>1. CASE u = t BY <1>1, <1>2, <2>1 DEF Low
    <2>2. CASE u # t BY <1>1, <1>2, <2>2 DEF Low, Alone
    <2> QED BY <2>1, <2>2
  <1> QED BY <1>2, LowFewer

\* The threads in the tables, and their room, when the tables stay.
LEMMA RoomSame ==
  ASSUME RoomInv, tables' = tables
  PROVE  RoomInv'
  BY DEF RoomInv, Keys, Capacity

\* What the other threads got stays good as long as the tables keep their sizes.
LEMMA CountOthers ==
  ASSUME Inv, NEW t \in Threads, Alone(t), CountAt(t)',
         \A g \in DOMAIN tables : Capacity(g)' = Capacity(g)
  PROVE  \A u \in Threads : CountAt(u)'
  <1>1. \A u \in Threads : CountAt(u) BY CountParts DEF Inv
  <1>2. ASSUME NEW u \in Threads \ {t} PROVE CountAt(u)'
    <2>1. pc'[u] = pc[u] /\ mainHash'[u] = mainHash[u] /\ newCount'[u] = newCount[u] BY DEF Alone
    <2>2. pc[u] \in Decided => mainHash[u] \in DOMAIN tables BY DEF Inv, SizeInv, Decided
    <2>3. pc[u] \in Decided => Capacity(mainHash[u])' = Capacity(mainHash[u]) BY <2>1, <2>2 DEF Capacity
    <2> QED BY <1>1, <2>1, <2>3 DEF CountAt
  <1> QED BY <1>2

\* The threads that are counted stay the same.
LEMMA AliveSame ==
  ASSUME AliveInv, NEW t \in Threads, Alone(t), \A u \in Threads \ {t} : Found(u)' <=> Found(u),
         (pc'[t] \in Counted \/ Found(t)') <=> (pc[t] \in Counted \/ Found(t)),
         UNCHANGED implicitProducerHashCount
  PROVE  AliveInv'
  <1>1. Alive' = Alive BY DEF Alive, Alone
  <1> QED BY <1>1 DEF AliveInv

\* A thread gives its count back.
LEMMA CountBack ==
  ASSUME Inv, NEW t \in Threads, Begin(t) \/ Step(t), tables' = tables, pc[t] \in Counted, pc'[t] \notin Counted,
         ~Found(t), implicitProducerHashCount' = implicitProducerHashCount - 1
  PROVE  CountInv'
  <1>1. AliveInv /\ (\A u \in Threads : CountAt(u)) /\ RoomInv /\ LowInv /\ Alone(t)
    BY CountParts, StepAlone DEF Inv
  <1>2. \A u \in Threads : Found(u)' <=> Found(u) BY DEF Found, Keys
  <1>3. Alive' = Alive \ {t} /\ t \in Alive BY <1>1, <1>2 DEF Alive, Alone
  <1>4. Alive \in SUBSET Threads BY DEF Alive
  <1>5. Cardinality(Alive') = Cardinality(Alive) - 1 BY <1>3, <1>4, ThreadSets, FS_RemoveElement
  <1>6. AliveInv' BY <1>1, <1>5 DEF AliveInv
  <1>7. LowInv' BY <1>1, LowSame
  <1>8. RoomInv' BY <1>1, RoomSame
  <1>9. CountAt(t)' BY DEF CountAt, Counted, Decided
  <1>10. \A u \in Threads : CountAt(u)' BY <1>1, <1>9, CountOthers DEF Capacity
  <1> QED BY <1>6, <1>7, <1>8, <1>10 DEF CountInv, AliveInv, CountAt, RoomInv, LowInv

\* A thread is counted: it gets the number of the threads that are counted with it.
LEMMA CountUp ==
  ASSUME Inv, NEW t \in Threads, AddCount(t)
  PROVE  CountInv'
  <1> DEFINE c == Cardinality(Alive) + 1
  <1>0. Step(t) BY DEF Step
  <1>1. AliveInv /\ (\A u \in Threads : CountAt(u)) /\ RoomInv /\ LowInv /\ Alone(t) /\ TypeOK
    BY <1>0, CountParts, StepAlone DEF Inv
  <1>2. tables' = tables /\ pc[t] = "count" /\ pc'[t] = "resize" /\ newCount'[t] = c
        /\ implicitProducerHashCount' = c
    BY <1>1 DEF AddCount, Goto, TypeOK, AliveInv
  <1>3. ~Found(t)
    <2>1. OwnerInv /\ OwnAt(t) BY OwnParts DEF Inv
    <2>2. ~Owns(t) BY <1>2, <2>1 DEF OwnAt, Without
    <2> QED BY <2>1, <2>2, FoundOwns
  <1>4. \A u \in Threads : Found(u)' <=> Found(u) BY <1>2 DEF Found, Keys
  <1>5. Alive' = Alive \cup {t} /\ t \notin Alive BY <1>1, <1>2, <1>3, <1>4 DEF Alive, Alone, Counted
  <1>6. Alive \in SUBSET Threads /\ Alive' \in SUBSET Threads BY DEF Alive
  <1>7. Cardinality(Alive') = c BY <1>5, <1>6, ThreadSets, FS_AddElement
  <1>8. c \in Nat /\ c >= 1 /\ c < MaxThreads
    <2>1. Cardinality(Alive) \in Nat /\ Cardinality(Alive') <= Cardinality(Threads) /\ Cardinality(Threads) \in Nat
      BY <1>6, ThreadSets
    <2> QED BY <1>7, <2>1, ProducerTableAssumption DEF MaxThreads
  <1> HIDE DEF c
  <1>9. AliveInv' BY <1>2, <1>7 DEF AliveInv
  <1>10. RoomInv' BY <1>1, <1>2, RoomSame
  <1>11. CountAt(t)' BY <1>2, <1>8 DEF CountAt, Counted, Decided
  <1>12. \A u \in Threads : CountAt(u)' BY <1>1, <1>2, <1>11, CountOthers DEF Capacity
  <1>13. ASSUME NEW k \in Nat PROVE Cardinality({u \in Threads : Low(u, k)'}) <= k
    <2> DEFINE S == {u \in Threads : Low(u, k)}
               T == {u \in Threads : Low(u, k)'}
    <2>1. \A g : Keys(g)' = Keys(g) /\ Capacity(g)' = Capacity(g) BY <1>2 DEF Keys, Capacity
    <2>2. S \in SUBSET Threads /\ T \in SUBSET Threads OBVIOUS
    <2>3. CASE k < c
      <3>1. ASSUME NEW u \in Threads, Low(u, k)' PROVE Low(u, k)
        <4>1. CASE u = t BY <1>2, <1>3, <1>8, <2>1, <2>3, <3>1, <4>1 DEF Low, Found
        <4>2. CASE u # t BY <1>1, <1>2, <2>1, <3>1, <4>2 DEF Low, Alone
        <4> QED BY <4>1, <4>2
      <3>2. T \in SUBSET S BY <3>1
      <3>3. Cardinality(S) <= k BY <1>1 DEF LowInv
      <3> HIDE DEF S, T
      <3>4. Cardinality(T) <= Cardinality(S) /\ Cardinality(S) \in Nat /\ Cardinality(T) \in Nat
        BY <2>2, <3>2, ThreadSets
      <3>5. Cardinality(T) <= k BY <3>3, <3>4
      <3> QED BY <3>5 DEF T
    <2>4. CASE c <= k
      <3>1. T \in SUBSET Alive' BY DEF Low, Alive, Found
      <3> HIDE DEF T
      <3>2. Cardinality(T) <= Cardinality(Alive') /\ Cardinality(T) \in Nat BY <1>6, <2>2, <3>1, ThreadSets
      <3>3. Cardinality(T) <= k BY <1>7, <1>8, <2>4, <3>2
      <3> QED BY <3>3 DEF T
    <2> QED BY <1>8, <2>3, <2>4
  <1>14. LowInv' BY <1>13 DEF LowInv
  <1> QED BY <1>9, <1>10, <1>12, <1>14 DEF CountInv, AliveInv, CountAt, RoomInv, LowInv

\* The steps that count nobody and insert nobody.
LEMMA CountQuiet ==
  ASSUME Inv, NEW t \in Threads,
         Begin(t) \/ TryResize(t) \/ Reload(t) \/ ClearFlag(t) \/ Abandon(t) \/ Room(t) \/ Create(t) \/ Link(t)
  PROVE  CountInv'
  <1> USE DEF table, list, locals
  <1>0. Begin(t) \/ Step(t) BY DEF Step
  <1>1. AliveInv /\ (\A u \in Threads : CountAt(u)) /\ RoomInv /\ LowInv /\ Alone(t) /\ TypeOK
    BY <1>0, CountParts, StepAlone DEF Inv
  <1>2. tables' = tables /\ UNCHANGED implicitProducerHashCount
    BY DEF Begin, TryResize, Reload, ClearFlag, Abandon, Room, Create, Link
  <1>3. /\ pc[t] \in Counted <=> pc'[t] \in Counted
        /\ pc'[t] \in Counted => newCount'[t] = newCount[t]
        /\ pc'[t] \in Decided => newCount[t] < ThreeQuarters(Capacity(mainHash[t])) /\ mainHash'[t] = mainHash[t]
    <2> USE <1>1 DEF Counted, Decided, CountAt, TypeOK, Goto, Return
    <2>1. CASE Begin(t)
      <3>1. FreeSlot /\ PlaceInv /\ pc[t] = "idle" BY <2>1, SlotFree DEF Inv, Begin
      <3>2. BeginNew(t) \/ \E h \in DOMAIN tables : \E s \in DOMAIN tables[h] : BeginFound(t, h, s) \/ BeginOld(t, h, s)
        BY <2>1, <3>1, BeginFacts
      <3>3. pc'[t] \in {"idle", "count", "copy"} BY <3>2 DEF BeginNew, BeginFound, BeginOld
      <3> QED BY <3>1, <3>3
    <2>2. CASE TryResize(t) BY <2>2 DEF TryResize
    <2>3. CASE Reload(t) BY <2>3 DEF Reload
    <2>4. CASE ClearFlag(t) BY <2>4 DEF ClearFlag
    <2>5. CASE Abandon(t) BY <2>5 DEF Abandon
    <2>6. CASE Room(t) BY <2>6 DEF Room
    <2>7. CASE Create(t) BY <2>7 DEF Create
    <2>8. CASE Link(t) BY <2>8 DEF Link
    <2> QED BY <2>1, <2>2, <2>3, <2>4, <2>5, <2>6, <2>7, <2>8
  <1>4. \A u \in Threads : Found(u)' <=> Found(u) BY <1>2 DEF Found, Keys
  <1>5. AliveInv' BY <1>1, <1>2, <1>3, <1>4, AliveSame
  <1>6. LowInv' BY <1>1, <1>2, <1>3, LowSame
  <1>7. RoomInv' BY <1>1, <1>2, RoomSame
  <1>8. CountAt(t)'
    <2>1. pc'[t] \in Decided => Capacity(mainHash[t])' = Capacity(mainHash[t]) BY <1>2, <1>3 DEF Capacity
    <2>2. pc'[t] \in Decided => pc'[t] \in Counted BY DEF Decided, Counted
    <2>3. pc'[t] \in Counted => newCount'[t] >= 1 /\ newCount'[t] < MaxThreads BY <1>1, <1>3 DEF CountAt
    <2> QED BY <1>3, <2>1, <2>2, <2>3 DEF CountAt
  <1>9. \A u \in Threads : CountAt(u)' BY <1>1, <1>2, <1>8, CountOthers DEF Capacity
  <1> QED BY <1>5, <1>6, <1>7, <1>9 DEF CountInv, AliveInv, CountAt, RoomInv, LowInv

\* A thread that goes into a table counted towards the table's room before.
LEMMA CountInsert ==
  ASSUME Inv, NEW t \in Threads, Copy(t) \/ InsertProducer(t)
  PROVE  CountInv'
  <1> USE DEF table, list
  <1> DEFINE h == mainHash[t]
             room == ThreeQuarters(Capacity(h))
  <1>0. Step(t) BY DEF Step
  <1>1. AliveInv /\ (\A u \in Threads : CountAt(u)) /\ RoomInv /\ LowInv /\ Alone(t) /\ TypeOK
    BY <1>0, CountParts, StepAlone DEF Inv
  <1>2. /\ h \in DOMAIN tables /\ producer[t] \in Nat /\ t \notin Keys(h)
        /\ Insert(h, t, producer[t]) /\ Return(t, producer[t]) /\ FreeSlot
        /\ UNCHANGED implicitProducerHashCount
    BY InsertReady
  <1>3. /\ DOMAIN tables' = DOMAIN tables
        /\ \A g \in DOMAIN tables : DOMAIN tables'[g] = DOMAIN tables[g]
        /\ \A g \in DOMAIN tables : Keys(g)' = IF g = h THEN Keys(g) \cup {t} ELSE Keys(g)
    BY <1>2, InsertFacts DEF Inv
  <1>4. \A g \in DOMAIN tables : Capacity(g)' = Capacity(g) BY <1>3 DEF Capacity
  <1>5. pc'[t] = "idle" BY <1>1, <1>2 DEF Return, TypeOK
  <1>6. room \in Int /\ Capacity(h) \in Nat BY <1>2, TablesFacts, Parts DEF Inv
  <1>7. room >= 1 /\ \A k \in Nat : room - 1 <= k => Low(t, k)
    <2>1. CASE InsertProducer(t)
      <3>1. pc[t] \in Counted /\ pc[t] \in Decided BY <2>1 DEF InsertProducer, Counted, Decided
      <3>2. newCount[t] \in Int /\ newCount[t] >= 1 /\ newCount[t] < room BY <1>1, <3>1 DEF CountAt, TypeOK
      <3> QED BY <1>6, <3>1, <3>2 DEF Low
    <2>2. CASE Copy(t)
      <3>1. pc[t] = "copy" BY <2>2 DEF Copy
      <3>2. PICK g \in DOMAIN tables : g < h /\ t \in Keys(g) BY <3>1 DEF Inv, OwnInv
      <3>3. Capacity(g) <= Capacity(h) /\ Capacity(g) \in Nat
        <4>1. g <= h BY <1>1, <1>2, <3>2 DEF TypeOK
        <4> QED BY <1>2, <4>1, TablesFacts DEF Inv, SizeInv
      <3>4. ThreeQuarters(Capacity(g)) <= room /\ ThreeQuarters(Capacity(g)) \in Nat BY <1>6, <3>3, Parts
      <3>5. ThreeQuarters(Capacity(g)) >= 1 BY <1>1, <3>2 DEF RoomInv
      <3>6. \A k \in Nat : room - 1 <= k => ThreeQuarters(Capacity(g)) - 1 <= k BY <1>6, <3>4
      <3> QED BY <1>6, <3>2, <3>4, <3>5, <3>6 DEF Low
    <2> QED BY <2>1, <2>2
  <1>8. ASSUME NEW u \in Threads, NEW k \in Nat, Low(u, k)' PROVE Low(u, k)
    <2>1. CASE u # t
      <3>1. \A g \in DOMAIN tables : u \in Keys(g)' <=> u \in Keys(g) BY <1>3, <2>1
      <3> QED BY <1>1, <1>3, <1>4, <1>8, <2>1, <3>1 DEF Low, Alone
    <2>2. CASE u = t
      <3>1. PICK g \in DOMAIN tables : t \in Keys(g)' /\ ThreeQuarters(Capacity(g)) - 1 <= k
        BY <1>3, <1>4, <1>5, <1>8, <2>2 DEF Low, Counted
      <3>2. CASE g = h BY <1>7, <2>2, <3>1, <3>2
      <3>3. CASE g # h BY <1>3, <2>2, <3>1, <3>3 DEF Low
      <3> QED BY <3>2, <3>3
    <2> QED BY <2>1, <2>2
  <1>9. LowInv' BY <1>1, <1>8, LowFewer
  <1>10. RoomInv' BY <1>1, <1>3, <1>4, <1>7 DEF RoomInv
  <1>11. AliveInv'
    <2>1. \A u \in Threads \ {t} : Found(u)' <=> Found(u) BY <1>3 DEF Found
    <2>2. Found(t)' BY <1>2, <1>3 DEF Found
    <2>3. pc[t] \in Counted \/ Found(t) BY DEF Inv, OwnInv, Found, Copy, InsertProducer, Counted
    <2> QED BY <1>1, <1>2, <2>1, <2>2, <2>3, AliveSame
  <1>12. CountAt(t)' BY <1>5 DEF CountAt, Counted, Decided
  <1>13. \A u \in Threads : CountAt(u)' BY <1>1, <1>4, <1>12, CountOthers
  <1> QED BY <1>9, <1>10, <1>11, <1>13 DEF CountInv, AliveInv, CountAt, RoomInv, LowInv

\* A new table changes nobody's count.
LEMMA CountGrow ==
  ASSUME Inv, NEW t \in Threads, Grow(t)
  PROVE  CountInv'
  <1> USE DEF table, list
  <1> DEFINE top == Len(tables) + 1
  <1>0. Step(t) BY DEF Step
  <1>1. AliveInv /\ (\A u \in Threads : CountAt(u)) /\ RoomInv /\ LowInv /\ Alone(t) /\ TypeOK
    BY <1>0, CountParts, StepAlone DEF Inv
  <1>2. PICK n \in Nat \ {0} : tables' = Append(tables, EmptyTable(n)) BY GrowReady
  <1>3. /\ DOMAIN tables' = 1 .. top /\ \A g : g = top => Keys(g)' = {}
        /\ \A g \in DOMAIN tables : g \in DOMAIN tables' /\ Keys(g)' = Keys(g) /\ Capacity(g)' = Capacity(g)
    BY <1>2, GrowFacts DEF Inv
  <1>4. \A g \in DOMAIN tables' : g \in DOMAIN tables \/ g = top BY <1>1, <1>3 DEF TypeOK
  <1> HIDE DEF top
  <1>5. /\ pc[t] = "grow" /\ pc'[t] = "clear" /\ newCount' = newCount
        /\ UNCHANGED implicitProducerHashCount
    BY <1>1 DEF Grow, Goto, TypeOK
  <1>6. pc[t] \in Counted /\ pc'[t] \in Counted /\ pc'[t] \notin Decided BY <1>5 DEF Counted, Decided
  <1>7. \A u \in Threads : Found(u)' <=> Found(u) BY <1>3, <1>4 DEF Found
  <1>8. AliveInv' BY <1>1, <1>5, <1>6, <1>7, AliveSame
  <1>9. RoomInv' BY <1>1, <1>3, <1>4 DEF RoomInv
  <1>10. CountAt(t)' BY <1>1, <1>5, <1>6 DEF CountAt
  <1>11. \A u \in Threads : CountAt(u)' BY <1>1, <1>3, <1>10, CountOthers
  <1>12. ASSUME NEW u \in Threads, NEW k \in Nat, Low(u, k)' PROVE Low(u, k)
    <2>1. pc'[u] \in Counted => pc[u] \in Counted BY <1>1, <1>6 DEF Alone
    <2> QED BY <1>3, <1>4, <1>5, <1>12, <2>1 DEF Low
  <1>13. LowInv' BY <1>1, <1>12, LowFewer
  <1> QED BY <1>8, <1>9, <1>11, <1>13 DEF CountInv, AliveInv, CountAt, RoomInv, LowInv

\* The counts bound the threads that a table can be given.
LEMMA CountStep ==
  ASSUME Inv, NEW t \in Threads, Begin(t) \/ Step(t)
  PROVE  CountInv'
  <1>1. CASE GrowFails(t) \/ CreateFails(t)
    <2>1. TypeOK /\ OwnerInv /\ OwnAt(t) BY OwnParts DEF Inv
    <2>2. /\ pc[t] \in Counted /\ pc[t] \in Without /\ pc'[t] \notin Counted
          /\ tables' = tables /\ implicitProducerHashCount' = implicitProducerHashCount - 1
      BY <1>1, <2>1 DEF GrowFails, CreateFails, Goto, Return, TypeOK, Counted, Without
    <2>3. ~Found(t) BY <2>1, <2>2, FoundOwns DEF OwnAt
    <2> QED BY <2>2, <2>3, CountBack
  <1> QED BY <1>1, CountUp, CountQuiet, CountInsert, CountGrow DEF Step
------------------------------------------------------------------------------
(* The list of producers. *)

\* A producer that has been created is one of the producers.
LEMMA OwnerDomain ==
  ASSUME TypeOK, Len(owner) <= MaxProducers
  PROVE  DOMAIN owner = 1 .. Len(owner) /\ Len(owner) \in Nat /\ DOMAIN owner \subseteq Producers
         /\ MaxProducers \in Nat
  <1>1. MaxProducers \in Nat BY ThreadSets DEF MaxProducers
  <1>2. DOMAIN owner = 1 .. Len(owner) /\ Len(owner) \in Nat BY DEF TypeOK
  <1>3. 1 .. Len(owner) \subseteq 1 .. MaxProducers BY <1>1, <1>2
  <1> QED BY <1>1, <1>2, <1>3 DEF Producers

\* The list is kept while the producers that are on it are left alone.
LEMMA ListFrame ==
  ASSUME TypeOK, ListInv, Linked' = Linked, UNCHANGED producerListTail, \A p \in Linked : next'[p] = next[p],
         Len(owner') <= MaxProducers, producerCount' = Len(owner')
  PROVE  ListInv'
  <1>1. producerListTail' = 0 \/ producerListTail' \in Linked' BY DEF ListInv
  <1>2. \A p \in Linked' : next'[p] = 0 \/ next'[p] \in Linked' BY DEF ListInv
  <1>3. ASSUME NEW S \in SUBSET Producers, Closed(S)' PROVE Linked' \subseteq S
    <2>1. S \cap Linked \in SUBSET Producers OBVIOUS
    <2>2. Closed(S \cap Linked) BY <1>3 DEF ListInv, Closed
    <2>3. Linked \subseteq S \cap Linked BY <2>1, <2>2 DEF ListInv
    <2> QED BY <2>3
  <1> QED BY <1>1, <1>2, <1>3 DEF ListInv

\* A step other than Create and Link.
LEMMA ListQuiet ==
  ASSUME Inv, NEW t \in Threads, Begin(t) \/ Step(t), ~Create(t), ~Link(t)
  PROVE  ListInv'
  <1> USE DEF table, list, locals
  <1>1. TypeOK /\ ListInv /\ Alone(t) BY StepAlone DEF Inv
  <1>2. UNCHANGED list
    BY DEF Begin, Step, Copy, InsertProducer, Grow, AddCount, TryResize, Reload, ClearFlag, GrowFails, Abandon, Room,
           CreateFails
  <1>3. pc[t] # "link" /\ pc'[t] # "link"
    <2> USE <1>1 DEF TypeOK, Goto, Return
    <2>1. CASE Begin(t)
      <3>1. FreeSlot /\ PlaceInv /\ pc[t] = "idle" BY <2>1, SlotFree DEF Inv, Begin
      <3>2. BeginNew(t) \/ \E h \in DOMAIN tables : \E s \in DOMAIN tables[h] : BeginFound(t, h, s) \/ BeginOld(t, h, s)
        BY <2>1, <3>1, BeginFacts
      <3>3. pc'[t] \in {"idle", "count", "copy"} BY <3>2 DEF BeginNew, BeginFound, BeginOld
      <3> QED BY <3>1, <3>3
    <2>2. CASE Copy(t) \/ InsertProducer(t) \/ Abandon(t) \/ CreateFails(t)
      BY <2>2 DEF Copy, InsertProducer, Abandon, CreateFails
    <2>3. CASE Grow(t) \/ AddCount(t) \/ TryResize(t) \/ Reload(t) \/ ClearFlag(t) \/ GrowFails(t) \/ Room(t)
      BY <2>3 DEF Grow, AddCount, TryResize, Reload, ClearFlag, GrowFails, Room
    <2> QED BY <2>1, <2>2, <2>3 DEF Step
  <1>4. \A p : Linking(p)' <=> Linking(p) BY <1>1, <1>3 DEF Linking, Alone
  <1>5. Linked' = Linked BY <1>2, <1>4 DEF Linked
  <1> QED BY <1>1, <1>2, <1>5, ListFrame DEF ListInv

\* A producer that is created is not on the list yet.
LEMMA ListCreate ==
  ASSUME Inv, NEW t \in Threads, Create(t)
  PROVE  ListInv'
  <1> USE DEF table, list
  <1> DEFINE new == Len(owner) + 1
  <1>0. Step(t) BY DEF Step
  <1>1. TypeOK /\ ListInv /\ Alone(t) BY <1>0, StepAlone DEF Inv
  <1>2. /\ owner' = Append(owner, t) /\ Len(owner) < MaxProducers /\ producerCount' = producerCount + 1
        /\ next' = [next EXCEPT ![new] = producerListTail] /\ UNCHANGED producerListTail
        /\ pc[t] = "create" /\ pc'[t] = "link" /\ producer'[t] = new
    BY <1>1 DEF Create, Goto, TypeOK
  <1>3. /\ DOMAIN owner = 1 .. Len(owner) /\ Len(owner) \in Nat /\ DOMAIN owner \subseteq Producers
        /\ MaxProducers \in Nat /\ owner \in Seq(Threads)
    BY <1>1, OwnerDomain DEF ListInv, TypeOK
  <1>4. Len(owner') = Len(owner) + 1 /\ DOMAIN owner' = 1 .. Len(owner) + 1 BY <1>2, <1>3
  <1>5. DOMAIN owner' = DOMAIN owner \cup {new} /\ new \notin DOMAIN owner BY <1>3, <1>4
  <1>6. Len(owner') <= MaxProducers /\ producerCount' = Len(owner') BY <1>1, <1>2, <1>3, <1>4 DEF ListInv
  <1> HIDE DEF new
  <1>7. \A p : p = new => Linking(p)' BY <1>2 DEF Linking
  <1>8. \A p \in DOMAIN owner : Linking(p)' <=> Linking(p) BY <1>1, <1>2, <1>5 DEF Linking, Alone
  <1>9. Linked' = Linked BY <1>5, <1>7, <1>8 DEF Linked
  <1>10. \A p \in Linked : next'[p] = next[p] BY <1>1, <1>2, <1>3, <1>5 DEF Linked, TypeOK
  <1> QED BY <1>1, <1>2, <1>6, <1>9, <1>10, ListFrame

\* The producer that a thread links is not on the list, and no other thread links it.
LEMMA LinkFacts ==
  ASSUME Inv, NEW t \in Threads, pc[t] = "link"
  PROVE  /\ producer[t] \in DOMAIN owner /\ producer[t] \in Producers /\ producer[t] \notin Linked
         /\ producer[t] # 0 /\ \A u \in Threads : pc[u] = "link" /\ producer[u] = producer[t] => u = t
  <1>1. /\ DOMAIN owner = 1 .. Len(owner) /\ Len(owner) \in Nat /\ DOMAIN owner \subseteq Producers
    BY OwnerDomain DEF Inv, ListInv
  <1>2. \A u \in Threads : pc[u] = "link" => producer[u] \in DOMAIN owner /\ owner[producer[u]] = u
    BY DEF Inv, OwnInv
  <1>3. producer[t] \in DOMAIN owner BY <1>2
  <1>4. producer[t] # 0 BY <1>1, <1>3
  <1> QED BY <1>1, <1>2, <1>3, <1>4 DEF Linked, Linking

\* The producer becomes the first of the list, or it is pointed to the new first one.
LEMMA ListLink ==
  ASSUME Inv, NEW t \in Threads, Link(t)
  PROVE  ListInv'
  <1> USE DEF table, list, locals
  <1> DEFINE p == producer[t]
  <1>0. Step(t) BY DEF Step
  <1>1. TypeOK /\ ListInv /\ Alone(t) BY <1>0, StepAlone DEF Inv
  <1>2. pc[t] = "link" /\ owner' = owner /\ producerCount' = producerCount /\ producer' = producer BY DEF Link
  <1>3. /\ p \in DOMAIN owner /\ p \in Producers /\ p \notin Linked /\ p # 0
        /\ \A u \in Threads : pc[u] = "link" /\ producer[u] = p => u = t
    BY <1>2, LinkFacts
  <1>4. CASE producerListTail # next[p]
    <2>1. pc' = pc /\ UNCHANGED producerListTail /\ next' = [next EXCEPT ![p] = producerListTail]
      BY <1>4 DEF Link
    <2>2. Linked' = Linked BY <1>2, <2>1 DEF Linked, Linking
    <2>3. \A q \in Linked : next'[q] = next[q]
      <3>1. Linked \subseteq Producers BY <1>1, OwnerDomain DEF Linked, ListInv
      <3> QED BY <1>1, <1>3, <2>1, <3>1 DEF TypeOK
    <2> QED BY <1>1, <1>2, <2>1, <2>2, <2>3, ListFrame DEF ListInv
  <1>5. CASE producerListTail = next[p]
    <2>1. pc' = [pc EXCEPT ![t] = "insert"] /\ producerListTail' = p /\ next' = next BY <1>5 DEF Link
    <2>2. pc'[t] = "insert" /\ \A u \in Threads : u # t => pc'[u] = pc[u] BY <1>1, <2>1 DEF TypeOK
    <2>3. \A q \in DOMAIN owner : Linking(q)' <=> (Linking(q) /\ q # p) BY <1>2, <1>3, <2>2 DEF Linking
    <2>4. Linked' = Linked \cup {p} BY <1>2, <1>3, <2>3 DEF Linked
    <2>5. producerListTail' \in Linked' BY <2>1, <2>4
    <2>6. \A q \in Linked' : next'[q] = 0 \/ next'[q] \in Linked' BY <1>1, <1>5, <2>1, <2>4 DEF ListInv
    <2>7. ASSUME NEW S \in SUBSET Producers, Closed(S)' PROVE Linked' \subseteq S
      <3>1. p \in S BY <1>3, <2>1, <2>7 DEF Closed
      <3>2. Closed(S) BY <1>5, <2>1, <2>7, <3>1 DEF Closed
      <3>3. Linked \subseteq S BY <1>1, <3>2 DEF ListInv
      <3> QED BY <2>4, <3>1, <3>3
    <2> QED BY <1>1, <1>2, <2>5, <2>6, <2>7 DEF ListInv
  <1> QED BY <1>4, <1>5

\* No producer gets lost from the list.
LEMMA ListStep ==
  ASSUME Inv, NEW t \in Threads, Begin(t) \/ Step(t)
  PROVE  ListInv'
  BY ListQuiet, ListCreate, ListLink
------------------------------------------------------------------------------
\* The invariant holds at first,
LEMMA InitInv == Init => Inv
  <1> SUFFICES ASSUME Init PROVE Inv OBVIOUS
  <1> DEFINE E == EmptyTable(InitialSize)
  <1>1. InitialSize \in Nat \ {0} BY ProducerTableAssumption DEF Doublings
  <1>2. E \in Table /\ DOMAIN E = 0 .. InitialSize - 1 /\ \A i \in DOMAIN E : E[i].key = NoThread
    BY <1>1, EmptyTableFacts
  <1> HIDE DEF E
  <1>3. tables = <<E>> BY DEF Init, E
  <1>4. tables \in Seq(Table) /\ Len(tables) = 1 /\ DOMAIN tables = {1} /\ tables[1] = E BY <1>2, <1>3
  <1>5. TypeOK
    <2>1. pc \in [Threads -> Labels] BY DEF Init, Labels
    <2>2. owner \in Seq(Threads) BY DEF Init
    <2>3. /\ next \in [Producers -> Nat] /\ mainHash \in [Threads -> Nat] /\ newCount \in [Threads -> Int]
          /\ producer \in [Threads -> Nat] /\ ret \in [Threads -> Nat]
      BY DEF Init
    <2>4. /\ implicitProducerHashCount \in Int
          /\ producerListTail \in Nat /\ producerCount \in Nat /\ failures \in Nat
      BY DEF Init
    <2>5. implicitProducerHashResizeInProgress \in BOOLEAN BY Zenon DEF Init
    <2> QED BY <1>4, <2>1, <2>2, <2>3, <2>4, <2>5 DEF TypeOK
  <1>6. Capacity(1) \in Nat BY <1>4, <1>5, TablesFacts
  <1>7. SizeInv BY <1>4, <1>6 DEF Init, SizeInv, Flagged
  <1>8. PlaceInv BY <1>2, <1>4, ProducerTableAssumption DEF PlaceInv
  <1>9. \A h \in DOMAIN tables : Keys(h) = {} BY <1>2, <1>4 DEF Keys
  <1>10. DOMAIN owner = {} BY DEF Init
  <1>11. OwnInv BY <1>2, <1>4, <1>9, <1>10 DEF Init, OwnInv, Without, Owns, Found
  <1>12. CountInv
    <2>1. Alive = {} BY <1>9 DEF Alive, Found, Init, Counted
    <2>2. \A k \in Nat : {t \in Threads : Low(t, k)} = {} BY <1>9 DEF Low, Init, Counted
    <2>3. \A t \in Threads : pc[t] \notin Counted /\ pc[t] \notin Decided BY DEF Init, Counted, Decided
    <2>4. Cardinality({}) = 0 BY FS_EmptySet
    <2>5. AliveInv BY <2>1, <2>4 DEF AliveInv, Init
    <2>6. LowInv BY <2>2, <2>4 DEF LowInv
    <2>7. RoomInv /\ \A t \in Threads : CountAt(t) BY <1>9, <2>3 DEF RoomInv, CountAt
    <2> QED BY <2>5, <2>6, <2>7, CountParts
  <1>13. ListInv
    <2>1. Linked = {} BY <1>10 DEF Linked
    <2>2. Len(owner) = 0 BY DEF Init
    <2>3. 0 <= MaxProducers BY ThreadSets DEF MaxProducers
    <2> QED BY <2>1, <2>2, <2>3 DEF ListInv, Init
  <1> QED BY <1>5, <1>7, <1>8, <1>11, <1>12, <1>13 DEF Inv

\* every step keeps it,
LEMMA NextInv == Inv /\ [Next]_vars => Inv'
  <1> SUFFICES ASSUME Inv, [Next]_vars PROVE Inv' OBVIOUS
  <1>1. CASE Next
    <2>1. PICK t \in Threads : Begin(t) \/ Step(t) BY <1>1 DEF Next
    <2> QED BY <2>1, TypeStep, SizeStep, PlaceStep, OwnStep, CountStep, ListStep DEF Inv
  <1>2. CASE UNCHANGED vars
    <2> USE <1>2 DEF vars, table, list, locals
    <2>1. \A h : Keys(h)' = Keys(h) /\ Capacity(h)' = Capacity(h) BY DEF Keys, Capacity
    <2>2. TypeOK' /\ SizeInv' BY <2>1 DEF Inv, TypeOK, SizeInv
    <2>3. PlaceInv' BY DEF Inv, PlaceInv, Probe, Capacity
    <2>4. OwnInv' BY DEF Inv, OwnInv, Owns, Found, Keys
    <2>5. CountInv' BY DEF Inv, CountInv, Alive, Found, Low, Keys, Capacity
    <2>6. ListInv' BY DEF Inv, ListInv, Linked, Linking, Closed
    <2> QED BY <2>2, <2>3, <2>4, <2>5, <2>6 DEF Inv
  <1> QED BY <1>1, <1>2

\* and so it always holds.
LEMMA InvThroughout == Spec => []Inv
  BY InitInv, NextInv, PTL DEF Spec

\* No probing of get_or_add_implicit_producer runs in circles: every hash table always has
\* a free slot, also when many threads are between being counted and being inserted, when
\* counts are given back after failures, and when threads are copied from older tables
\* without being counted again.
THEOREM SlotAlwaysFree == Spec => []FreeSlot
  <1>1. Inv => FreeSlot BY SlotFree DEF Inv
  <1> QED BY <1>1, InvThroughout, PTL

\* add_producer loses nobody: whatever compare-exchanges fail, the list that try_dequeue
\* walks has every producer but those being linked, and no thread has two.
THEOREM NoProducerLost == Spec => []ListComplete
  <1>1. Inv => ListComplete
    <2> SUFFICES ASSUME Inv PROVE ListComplete OBVIOUS
    <2>1. DOMAIN owner \subseteq Producers BY OwnerDomain DEF Inv, ListInv
    <2>2. Linked \in SUBSET Producers BY <2>1 DEF Linked
    <2>3. Closed(Linked) BY DEF Inv, ListInv, Closed
    <2>4. Reached \subseteq Linked BY <2>2, <2>3 DEF Reached
    <2>5. Linked \subseteq Reached BY <2>2 DEF Reached, Inv, ListInv
    <2>6. Reached = Linked BY <2>4, <2>5
    <2> QED BY <2>6 DEF ListComplete, Linked, Linking, Inv, OwnInv, ListInv
  <1> QED BY <1>1, InvThroughout, PTL

\* get_or_add_implicit_producer always gives a thread the producer it gave it first: the
\* table is enlarged while it looks, and it still finds itself.
THEOREM OneProducerPerThread == Spec => SameProducer
  <1>1. Inv /\ [Next]_vars => [\A t \in Threads : ret[t] # 0 => ret'[t] = ret[t]]_vars
    <2> SUFFICES ASSUME Inv, Next PROVE \A t \in Threads : ret[t] # 0 => ret'[t] = ret[t] OBVIOUS
    <2>1. PICK t \in Threads : Begin(t) \/ Step(t) BY DEF Next
    <2>2. Alone(t) BY <2>1, StepAlone
    <2>3. \A u \in Threads : u # t => ret'[u] = ret[u] BY <2>2 DEF Alone
    <2>4. ASSUME ret[t] # 0 PROVE ret'[t] = ret[t]
      <3>1. TypeOK /\ OwnerInv /\ OwnAt(t) BY OwnParts DEF Inv
      <3>2. ret[t] \in DOMAIN owner /\ owner[ret[t]] = t /\ pc[t] \in {"idle", "copy"} BY <2>4, <3>1 DEF OwnAt
      <3>3. \A p \in DOMAIN owner : owner[p] = t => p = ret[t] BY <3>1, <3>2 DEF OwnerInv
      <3>4. CASE Begin(t)
        <4>1. FreeSlot /\ PlaceInv BY SlotFree DEF Inv
        <4>2. CASE BeginNew(t) BY <4>2 DEF BeginNew
        <4>3. ASSUME NEW h \in DOMAIN tables, NEW s \in DOMAIN tables[h], BeginFound(t, h, s) PROVE ret'[t] = ret[t]
          <5>1. tables[h][s].key = t /\ t # NoThread /\ Return(t, tables[h][s].value)
            BY <4>3, ProducerTableAssumption DEF BeginFound
          <5>2. tables[h][s].value \in DOMAIN owner /\ owner[tables[h][s].value] = t BY <3>1, <5>1 DEF OwnerInv
          <5>3. ret'[t] = tables[h][s].value BY <3>1, <5>1 DEF Return, TypeOK
          <5> QED BY <3>3, <5>2, <5>3
        <4>4. ASSUME NEW h \in DOMAIN tables, NEW s \in DOMAIN tables[h], BeginOld(t, h, s) PROVE ret'[t] = ret[t]
          BY <4>4 DEF BeginOld
        <4> QED BY <3>1, <3>4, <4>1, <4>2, <4>3, <4>4, BeginFacts
      <3>5. CASE Copy(t)
        <4>1. producer[t] \in DOMAIN owner /\ owner[producer[t]] = t /\ Return(t, producer[t]) BY <3>5, InsertReady
        <4>2. ret'[t] = producer[t] BY <3>1, <4>1 DEF Return, TypeOK
        <4> QED BY <3>3, <4>1, <4>2
      <3>6. CASE Step(t) /\ ~Copy(t)
        BY <3>2, <3>6 DEF Step, AddCount, TryResize, Reload, Grow, ClearFlag, GrowFails, Abandon, Room, Create,
                          CreateFails, Link, InsertProducer, Goto
      <3> QED BY <2>1, <3>4, <3>5, <3>6
    <2> QED BY <2>3, <2>4
  <1> QED BY <1>1, InvThroughout, PTL DEF Spec, SameProducer
==============================================================================
