------------------------------ MODULE CuckooTable ------------------------------
(***************************************************************************)
(* The table of cuckoo_hash_set (include/cuckoo.hpp): `mask + 1` buckets   *)
(* of `Bucket` slots each.  A key may be in one of two buckets, given by   *)
(* its low bits and by their complement.  An insertion into two full       *)
(* buckets pushes keys from one to the other, `mask` times at most, then   *)
(* doubles the table.                                                      *)
(*                                                                         *)
(* `mask` is a field of the set and `table` an argument in the code; here  *)
(* they are the two fields of one record, since every function that is     *)
(* given a table leaves the mask that belongs to it.                       *)
(***************************************************************************)
EXTENDS Integers, FiniteSetsExt

CONSTANTS
  Bucket,     \* bucket_size; 2 for the 8-byte ids of the graph overlay
  Missing     \* the value of an empty slot

ASSUME TableAssumption == Bucket \in Nat \ {0}

capacity(m) == (m + 1) * Bucket

EmptyTable(m) == [mask |-> m, ht |-> [s \in 0 .. capacity(m) - 1 |-> Missing]]

\* k & mask and ~k & mask, where mask is a power of two less one.
hash_1(k, T) == k % (T.mask + 1)
hash_2(k, T) == T.mask - (k % (T.mask + 1))

Slots(b) == b * Bucket .. b * Bucket + Bucket - 1

Free(b, T) == {s \in Slots(b) : T.ht[s] = Missing}

\* k goes into the first free slot of bucket b.
Put(k, b, T) == [T EXCEPT !.ht[Min(Free(b, T))] = k]

\* Mutant: the keys of the full bucket are not shifted before k is added.
PushOverwrites(k, b, T) == [T EXCEPT !.ht[b * Bucket + Bucket - 1] = k]

\* The first key of the full bucket b makes place for k behind the others.
Push(k, b, T) ==
  [T EXCEPT !.ht = [s \in DOMAIN T.ht |->
     IF s \notin Slots(b) THEN T.ht[s]
     ELSE IF s = Max(Slots(b)) THEN k ELSE T.ht[s + 1]]]

\* The mask after the table has grown.
Grown(m) == IF m = 0 THEN 1 ELSE 2 * m + 1

RECURSIVE insert(_, _), Cuckoo(_, _, _, _), Refill(_, _, _)

\* insert(k, table).
insert(k, T) ==
  IF Free(hash_1(k, T), T) # {} THEN Put(k, hash_1(k, T), T)
  ELSE IF Free(hash_2(k, T), T) # {} THEN Put(k, hash_2(k, T), T)
  ELSE Cuckoo(k, hash_1(k, T), 0, T)

\* Round i of its loop, at bucket b; a key that is pushed out goes to its other one.
Cuckoo(k, b, i, T) ==
  IF i >= T.mask THEN insert(k, Refill(T, 0, EmptyTable(Grown(T.mask))))
  ELSE IF Free(b, T) # {} THEN Put(k, b, T)
  ELSE LET out == T.ht[b * Bucket]
       IN  Cuckoo(out, IF b = hash_2(out, T) THEN hash_1(out, T) ELSE hash_2(out, T), i + 1,
                  Push(k, b, T))

\* rehash: the keys of T from slot s on go into the new table, which may grow meanwhile.
Refill(T, s, new) ==
  IF s = capacity(T.mask) THEN new
  ELSE Refill(T, s + 1, IF T.ht[s] = Missing THEN new ELSE insert(T.ht[s], new))

count(k, T) == \E s \in Slots(hash_1(k, T)) \cup Slots(hash_2(k, T)) : T.ht[s] = k

\* The first slot with k, in its first bucket or else in its second, becomes empty.
Erase(k, T) ==
  LET in1 == {s \in Slots(hash_1(k, T)) : T.ht[s] = k}
      in2 == {s \in Slots(hash_2(k, T)) : T.ht[s] = k}
  IN  IF in1 # {} THEN [T EXCEPT !.ht[Min(in1)] = Missing]
      ELSE IF in2 # {} THEN [T EXCEPT !.ht[Min(in2)] = Missing]
      ELSE T
================================================================================
