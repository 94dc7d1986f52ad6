----------------------------- MODULE CuckooHashSet -----------------------------
(***************************************************************************)
(* cuckoo_hash_set as a sequence of calls sees it, and the set that it     *)
(* implements.  reserve and clear, which nothing in the repository calls,  *)
(* are left out.                                                           *)
(***************************************************************************)
EXTENDS CuckooTable, FiniteSets

CONSTANTS
  Keys,       \* the keys that are inserted; none of them is `missing`
  MaxMask     \* bound: a table with this mask is not made to grow again

VARIABLES
  table,      \* ht and mask
  sz

vars == <<table, sz>>

Init == table = EmptyTable(0) /\ sz = 0

Insert(k) ==
  \/ count(k, table) /\ UNCHANGED vars
  \/ /\ ~count(k, table)
     /\ insert(k, table).mask <= MaxMask
     /\ table' = insert(k, table)
     /\ sz' = sz + 1

\* Mutant: the size goes down whether or not the key was there.
EraseKeyAlways(k) ==
  /\ table' = Erase(k, table)
  /\ sz' = sz - 1

EraseKey(k) ==
  /\ table' = Erase(k, table)
  /\ sz' = IF Erase(k, table) = table THEN sz ELSE sz - 1

Next == \E k \in Keys : Insert(k) \/ EraseKey(k)

Spec == Init /\ [][Next]_vars
------------------------------------------------------------------------------
(* Properties. *)

\* What count reports, and what an iterator visits.
Reported == {k \in Keys : count(k, table)}
Visited == {s \in DOMAIN table.ht : table.ht[s] # Missing}

\* The set that the table implements.
Abstract == INSTANCE AbstractSet WITH members <- Reported

\* The table implements a set: an insertion adds its key and keeps all others, whatever is
\* pushed around and however often the table grows; an erasure removes its key only.
ImplementsSet ==
  /\ Abstract!Init
  /\ [][\A k \in Keys : /\ Insert(k) => Abstract!Add(k)
                        /\ EraseKey(k) => Abstract!Remove(k)]_vars

\* size() is the number of keys, and an iterator visits each key exactly once.
Consistent ==
  /\ sz = Cardinality(Reported)
  /\ Cardinality(Visited) = sz
  /\ {table.ht[s] : s \in Visited} = Reported

================================================================================
