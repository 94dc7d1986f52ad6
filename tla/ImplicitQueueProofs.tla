-------------------------- MODULE ImplicitQueueProofs -------------------------
(***************************************************************************)
(* Proofs about ImplicitQueue, for every number of producers, consumers,   *)
(* blocks and elements.                                                    *)
(*                                                                         *)
(* History variables tell what the program forgets: the indices without    *)
(* their wrapping around, what became of the claims, the indices whose     *)
(* elements have been dequeued, and the numbers of the blocks that the     *)
(* entries of the block index have been used for.  They are only written:  *)
(* every behaviour of ImplicitQueue is one of HSpec with them.             *)
(***************************************************************************)
EXTENDS ImplicitQueue, BlockTreeProofs, SequenceTheorems

VARIABLES
  tails, heads, counts,   \* tailIndex, headIndex and dequeueOptimisticCount
  granted, returned,      \* the claims that have been granted, and given back
  emptied,                \* the indices for which set_empty has been called
  loaded, claim, taken,   \* of a consumer: overcommit, count and index
  num,                    \* of an entry: the number of the block that it has or had last;
                          \* a new entry has a number as if it had been used
  shift                   \* of a block index: from a block's number to its position

claiming == <<counts, granted, returned, loaded, claim>>
history == <<tails, heads, claiming, emptied, taken, num, shift>>

Number(i) == i \div BLOCK_SIZE

HInit ==
  /\ Init
  /\ tails = tailIndex /\ heads = tailIndex /\ counts = tailIndex
  /\ granted = [p \in Producers |-> 0 .. tailIndex[p] - 1]
  /\ emptied = granted
  /\ returned = [p \in Producers |-> {}]
  /\ loaded = [c \in Consumers |-> 0] /\ claim = loaded /\ taken = loaded
  /\ num = [p \in Producers |-> [i \in 1 .. IMPLICIT_INITIAL_INDEX_SIZE |->
              (Number(tailIndex[p]) - 1) - ((Number(tailIndex[p]) - i) % IMPLICIT_INITIAL_INDEX_SIZE)]]
  /\ shift = [p \in Producers |-> <<0>>]

\* The steps that the history tells.
HInsertEntry(p) ==
  /\ InsertEntry(p)
  /\ num' = [num EXCEPT ![p][NextEntry(p)] = Number(tails[p])]
  /\ UNCHANGED <<tails, heads, claiming, emptied, taken, shift>>

HGrowIndex(p) ==
  /\ GrowIndex(p)
  /\ LET n == Capacity(Current(p))
     IN  /\ num' = [num EXCEPT ![p] = @ \o [i \in 1 .. n |-> Number(tails[p]) - 1 + i - 2 * n]]
         /\ shift' = [shift EXCEPT ![p] = Append(@, n - Number(tails[p]))]
  /\ UNCHANGED <<tails, heads, claiming, emptied, taken>>

HStoreTail(p) ==
  /\ StoreTail(p)
  /\ tails' = [tails EXCEPT ![p] = @ + 1]
  /\ UNCHANGED <<heads, claiming, emptied, taken, num, shift>>

HLoadOvercommit(c) ==
  /\ LoadOvercommit(c)
  /\ loaded' = [loaded EXCEPT ![c] = Cardinality(returned[loc[c].ptr])]
  /\ UNCHANGED <<tails, heads, counts, granted, returned, claim, emptied, taken, num, shift>>

HClaim(c) ==
  /\ Claim(c)
  /\ claim' = [claim EXCEPT ![c] = counts[loc[c].ptr]]
  /\ counts' = [counts EXCEPT ![loc[c].ptr] = @ + 1]
  /\ UNCHANGED <<tails, heads, granted, returned, loaded, emptied, taken, num, shift>>

HRecheck(c) ==
  /\ Recheck(c)
  /\ granted' = IF pc'[c] = "take" THEN [granted EXCEPT ![loc[c].ptr] = @ \cup {claim[c]}] ELSE granted
  /\ UNCHANGED <<tails, heads, counts, returned, loaded, claim, emptied, taken, num, shift>>

HGiveBack(c) ==
  /\ GiveBack(c)
  /\ returned' = [returned EXCEPT ![loc[c].ptr] = @ \cup {claim[c]}]
  /\ UNCHANGED <<tails, heads, counts, granted, loaded, claim, emptied, taken, num, shift>>

HTakeIndex(c) ==
  /\ TakeIndex(c)
  /\ heads' = [heads EXCEPT ![loc[c].ptr] = @ + 1]
  /\ taken' = [taken EXCEPT ![c] = heads[loc[c].ptr]]
  /\ UNCHANGED <<tails, claiming, emptied, num, shift>>

HSetEmpty(c) ==
  /\ SetEmpty(c)
  /\ emptied' = [emptied EXCEPT ![loc[c].ptr] = @ \cup {taken[c]}]
  /\ UNCHANGED <<tails, heads, claiming, taken, num, shift>>

\* The others.
EnqueuingQuietly(p) ==
  /\ \/ EnqueueBegin(p) \/ CheckRoom(p) \/ IndexFull(p) \/ PublishEntry(p) \/ LoadPool(p)
     \/ TakeFromPool(p) \/ TakeFree(p) \/ CreateBlock(p) \/ NoBlock(p) \/ StoreBlock(p) \/ WriteElement(p)
  /\ UNCHANGED history

DequeuingQuietly(c) ==
  /\ \/ DequeueBegin(c) \/ SizeTail(c) \/ SizeHead(c) \/ LoadTail(c) \/ CheckCount(c)
     \/ LoadHeader(c) \/ LoadPosition(c) \/ LoadKey(c) \/ ReadElement(c) \/ UnlinkBlock(c) \/ ReleaseBlock(c)
  /\ UNCHANGED history

HNext ==
  \/ Destroy /\ UNCHANGED history
  \/ \E p \in Producers : HInsertEntry(p) \/ HGrowIndex(p) \/ HStoreTail(p) \/ EnqueuingQuietly(p)
  \/ \E c \in Consumers : \/ HLoadOvercommit(c) \/ HClaim(c) \/ HRecheck(c) \/ HGiveBack(c)
                          \/ HTakeIndex(c) \/ HSetEmpty(c) \/ DequeuingQuietly(c)

HSpec == HInit /\ [][HNext]_<<vars, history>>

\* No consumer sleeps between its load of the overcommit and its second look at the
\* tail for so long that half of all indices are given back meanwhile.
Fresh ==
  \A c \in Consumers : pc[c] = "recheck" =>
    Cardinality(returned[loc[c].ptr]) - loaded[c] + Cardinality(Consumers) <= IndexRange \div 2
------------------------------------------------------------------------------
(* Invariants: types, and where a consumer may be with which producer. *)

ProducerPlaces == {"idle", "off", "room", "slot", "publish", "pool", "take", "free", "store", "write", "bump"}
ConsumerPlaces ==
  {"idle", "off", "tail", "head", "dequeue", "overcommit", "check", "claim", "recheck", "take", "giveback",
   "header", "position", "key", "read", "empty", "unlink", "release"}

\* What a consumer knows of the producers that it compares and tries.
Scanned(l) ==
  /\ DOMAIN l = DOMAIN ConsumerLocals
  /\ l.ptr \in Nat /\ l.nonEmpty \in Nat /\ l.bestSize \in Nat
  /\ l.nonEmpty = 0 => l.bestSize = 0
  /\ l.nonEmpty > 0 => l.best \in Producers
  /\ l.ptr <= Cardinality(Producers)
  /\ l.rest \in Seq(Producers)

IndexType ==
  /\ tailIndex \in [Producers -> Nat] /\ headIndex \in [Producers -> Nat]
  /\ dequeueOptimisticCount \in [Producers -> Nat] /\ dequeueOvercommit \in [Producers -> Nat]
  /\ tails \in [Producers -> Nat] /\ heads \in [Producers -> Nat] /\ counts \in [Producers -> Nat]
  /\ granted \in [Producers -> SUBSET Nat] /\ returned \in [Producers -> SUBSET Nat]
  /\ loaded \in [Consumers -> Nat] /\ claim \in [Consumers -> Nat]

LocalAt(c) ==
  /\ pc[c] \in ConsumerPlaces /\ Scanned(loc[c])
  /\ pc[c] \notin {"idle", "off"} => loc[c].ptr # 0
  /\ pc[c] \in {"head", "overcommit", "check"} => loc[c].tail \in Nat

LocalType ==
  /\ DOMAIN pc = Producers \cup Consumers /\ DOMAIN loc = Producers \cup Consumers
  /\ loc = [t \in DOMAIN loc |-> loc[t]]
  /\ \A p \in Producers : pc[p] \in ProducerPlaces
  /\ \A c \in Consumers : LocalAt(c)

------------------------------------------------------------------------------
(* Invariants: the claims. *)

\* The indices of the program are those of the history, wrapped around.
Wrapped ==
  \A p \in Producers :
    /\ tailIndex[p] = tails[p] % IndexRange /\ headIndex[p] = heads[p] % IndexRange
    /\ dequeueOptimisticCount[p] = counts[p] % IndexRange
    /\ dequeueOvercommit[p] = Cardinality(returned[p]) % IndexRange

\* The claims of a producer are numbered; each is granted, given back, or open.
Open(c) == pc[c] \in {"recheck", "giveback"}

ClaimAt(c) ==
  LET p == loc[c].ptr
  IN  /\ pc[c] \in {"check", "claim", "recheck"} => loc[c].overcommit = loaded[c] % IndexRange
      /\ pc[c] \in {"check", "claim"} => loaded[c] <= Cardinality(returned[p])
      /\ pc[c] = "recheck" => /\ loc[c].count = claim[c] % IndexRange
                              /\ loaded[c] <= Cardinality(returned[p] \cap (0 .. claim[c] - 1))
      /\ Open(c) => claim[c] < counts[p] /\ claim[c] \notin granted[p] /\ claim[c] \notin returned[p]

ClaimsDiffer ==
  \A c, d \in Consumers :
    Open(c) /\ Open(d) /\ loc[c].ptr = loc[d].ptr /\ claim[c] = claim[d] => c = d

\* Every claim that was granted is below m; of the claims below m, those that were
\* not given back have elements.
Covered(g, r, t) == \E m \in Nat : g \subseteq 0 .. m - 1 /\ m - Cardinality(r \cap (0 .. m - 1)) <= t

Accounts(p) ==
  /\ granted[p] \subseteq 0 .. counts[p] - 1 /\ returned[p] \subseteq 0 .. counts[p] - 1
  /\ granted[p] \cap returned[p] = {}
  /\ counts[p] = heads[p] + Cardinality(returned[p]) + Cardinality(Claims(p))
  /\ Cardinality(granted[p]) = heads[p] + Cardinality(Granted(p))
  /\ Covered(granted[p], returned[p], tails[p])

ClaimInv ==
  /\ \A c \in Consumers : ClaimAt(c)
  /\ ClaimsDiffer
  /\ \A p \in Producers : Accounts(p)

\* A producer in the middle of a block has room for the rest of it.
BlockEnd(i) == i - (i % BLOCK_SIZE) + BLOCK_SIZE
InBlock(p) == tails[p] % BLOCK_SIZE # 0 \/ pc[p] \notin {"idle", "off", "room"}
SizeInv ==
  \A p \in Producers :
    /\ tails[p] - heads[p] <= IndexRange \div 2
    /\ InBlock(p) => BlockEnd(tails[p]) - heads[p] < IndexRange \div 2
    /\ pc[p] \in {"slot", "publish", "pool", "take", "free", "store", "room"} => tails[p] % BLOCK_SIZE = 0

QueueInv == IndexType /\ LocalType /\ Wrapped /\ ClaimInv /\ SizeInv
------------------------------------------------------------------------------
(* Invariants: the block index. *)

\* The numbers of the last block that has elements, and of the one at the tail.
Filled(p) == IF tails[p] % BLOCK_SIZE = 0 THEN Number(tails[p]) - 1 ELSE Number(tails[p])
Published(p) ==
  IF pc[p] \in {"pool", "take", "free", "store", "write", "bump"} THEN Number(tails[p]) ELSE Filled(p)

Valid(p, e) == entry[p][e].key # INVALID_BLOCK_BASE
Cap(j) == IMPLICIT_INITIAL_INDEX_SIZE * 2 ^ (j - 1)

\* Block n has its entry.
Stored(p, n) ==
  n * BLOCK_SIZE < tails[p] \/ (n * BLOCK_SIZE = tails[p] /\ pc[p] \in {"write", "bump"})

BlockIndices(n) == n * BLOCK_SIZE .. (n * BLOCK_SIZE + BLOCK_SIZE) - 1

Same(a, b, m) == (a - b) % m = 0

IndexTypes ==
  /\ header \in [Producers -> Seq([tail : Nat, index : Seq(Nat)])]
  /\ entry \in [Producers -> Seq([key : Nat, value : Blocks \cup {Null}])]
  /\ num \in [Producers -> Seq(Int)] /\ shift \in [Producers -> Seq(Int)]
  /\ emptied \in [Producers -> SUBSET Nat] /\ taken \in [Consumers -> Nat]
  /\ elementsCompletelyDequeued \in [Blocks -> Nat]
  /\ \A p \in Producers : DOMAIN loc[p] = DOMAIN ProducerLocals

ShapeAt(p) ==
  /\ Len(header[p]) \in 1 .. MaxHeaders
  /\ Len(entry[p]) = Cap(Len(header[p])) /\ Len(num[p]) = Len(entry[p]) /\ Len(shift[p]) = Len(header[p])
  /\ Same(Published(p) + shift[p][Len(header[p])], Current(p).tail, Len(entry[p]))

\* The j-th block index has all entries that there were, at the positions of their
\* blocks' numbers; a block index that has been replaced has a block at its tail.
HeaderAt(p, j) ==
  LET h == header[p][j]
  IN  /\ h.tail \in 0 .. Cap(j) - 1
      /\ h.index \in [1 .. Cap(j) -> 1 .. Cap(j)]
      /\ \A e \in 1 .. Cap(j) : \E i \in 1 .. Cap(j) : h.index[i] = e
      /\ \A i \in 1 .. Cap(j) : Same(num[p][h.index[i]] + shift[p][j], i - 1, Cap(j))
      /\ j # Len(header[p]) => Valid(p, h.index[h.tail + 1])

EntryAt(p, e) ==
  LET n == num[p][e]
      b == entry[p][e].value
  IN  /\ n \in (Published(p) - Len(entry[p])) + 1 .. Number(tails[p])
      /\ Valid(p, e) => n >= 0 /\ entry[p][e].key = (n * BLOCK_SIZE) % IndexRange
      /\ n >= 0 /\ n >= Filled(p) => Valid(p, e)
      /\ b # Null => /\ Valid(p, e) /\ Stored(p, n)
                     /\ elementsCompletelyDequeued[b] = Cardinality(emptied[p] \cap BlockIndices(n))

SlotAt(p) ==
  LET s == loc[p].slot
  IN  /\ pc[p] \in {"publish", "pool", "take", "free", "store"} =>
           /\ s \in DOMAIN entry[p] /\ num[p][s] = Number(tails[p])
           /\ entry[p][s].value = Null /\ Valid(p, s)
      /\ pc[p] = "publish" => s = NextEntry(p)

\* A block that is not empty has its entry.
KeptAt(p) ==
  \A n \in 0 .. Number(tails[p]) : Stored(p, n) /\ ~(BlockIndices(n) \subseteq emptied[p]) =>
    \E e \in DOMAIN entry[p] : num[p][e] = n /\ entry[p][e].value # Null

IndexAt(p) ==
  /\ ShapeAt(p)
  /\ \A j \in DOMAIN header[p] : HeaderAt(p, j)
  /\ \A e \in DOMAIN entry[p] : EntryAt(p, e)
  /\ SlotAt(p) /\ KeptAt(p)
  /\ emptied[p] \subseteq 0 .. heads[p] - 1
------------------------------------------------------------------------------
(* Invariants: the indices that consumers have taken. *)

Holding(c) == pc[c] \in {"header", "position", "key", "read", "empty"}

\* The entry e of producer p leads to the block of index i.
LeadsTo(p, e, i) == num[p][e] = Number(i) /\ entry[p][e].value # Null

HeldAt(c) ==
  LET p == loc[c].ptr
      i == taken[c]
  IN  /\ Holding(c) => i < heads[p] /\ i \notin emptied[p]
      /\ pc[c] \in {"header", "position", "key", "read"} => loc[c].index = i % IndexRange
      /\ pc[c] \in {"position", "key"} =>
           /\ loc[c].header \in DOMAIN header[p]
           /\ \E e \in 1 .. Cap(loc[c].header) : LeadsTo(p, e, i)
      /\ pc[c] = "key" => /\ loc[c].tail \in 0 .. Cap(loc[c].header) - 1
                          /\ Valid(p, header[p][loc[c].header].index[loc[c].tail + 1])
      /\ pc[c] \in {"read", "empty", "unlink"} => loc[c].entry \in DOMAIN entry[p] /\ LeadsTo(p, loc[c].entry, i)
      /\ pc[c] \in {"empty", "unlink"} => entry[p][loc[c].entry].value = loc[c].block
      /\ pc[c] = "unlink" => BlockIndices(Number(i)) \subseteq emptied[p]

HeldDiffer ==
  \A c, d \in Consumers : c # d /\ loc[c].ptr = loc[d].ptr =>
    /\ Holding(c) /\ Holding(d) => taken[c] # taken[d]
    /\ pc[c] = "unlink" /\ pc[d] = "unlink" => Number(taken[c]) # Number(taken[d])
------------------------------------------------------------------------------
(* Invariants: the blocks.  Each that has been taken has one place. *)

Stores(p) == pc[p] = "store"
Releases(c) == pc[c] = "release"
Entered(b) == \E p \in Producers : \E e \in DOMAIN entry[p] : entry[p][e].value = b

OwnerInv ==
  /\ initialBlockPoolIndex \in Nat /\ allocated \in PoolSize .. MaxBlocks
  /\ freeList \subseteq Taken
  /\ \A b \in Blocks : Entered(b) => b \in Taken \ freeList
  /\ \A p, q \in Producers : \A e \in DOMAIN entry[p], f \in DOMAIN entry[q] :
       entry[p][e].value = entry[q][f].value /\ entry[p][e].value # Null => p = q /\ e = f
  /\ \A p \in Producers : Stores(p) => loc[p].block \in Taken \ freeList /\ ~Entered(loc[p].block)
  /\ \A c \in Consumers : Releases(c) => loc[c].block \in Taken \ freeList /\ ~Entered(loc[c].block)
  /\ \A t, u \in Producers \cup Consumers :
       t # u /\ pc[t] \in {"store", "release"} /\ pc[u] \in {"store", "release"} => loc[t].block # loc[u].block

IndexInv ==
  /\ IndexTypes
  /\ \A p \in Producers : IndexAt(p)
  /\ \A c \in Consumers : HeldAt(c)
  /\ HeldDiffer
  /\ ~Destroyed => OwnerInv
------------------------------------------------------------------------------
(* Numbers that go around. *)

\* A number, and what is left of it after the rounds.
LEMMA Division ==
  ASSUME NEW a \in Int, NEW r \in Nat \ {0}
  PROVE  (a % r) \in 0 .. r - 1 /\ \E q \in Int : a = r * q + (a % r)
  <1>1. (a % r) \in 0 .. r - 1 /\ a \div r \in Int OBVIOUS
  <1>2. a = r * (a \div r) + (a % r) OBVIOUS
  <1> QED BY <1>1, <1>2

\* What is left is less than a round.
LEMMA Remainder ==
  ASSUME NEW r \in Nat \ {0}, NEW q \in Int, NEW x \in 0 .. r - 1
  PROVE  (r * q + x) % r = x
  OBVIOUS

\* Rounds do not change what is left.
LEMMA AddRounds ==
  ASSUME NEW r \in Nat \ {0}, NEW q \in Int, NEW a \in Int
  PROVE  (r * q + a) % r = a % r
  <1>1. PICK k \in Int : a = r * k + (a % r) BY Division
  <1>2. (a % r) \in 0 .. r - 1 BY Division
  <1>3. r * q + a = r * (q + k) + (a % r) BY <1>1, <1>2
  <1>4. q + k \in Int OBVIOUS
  <1>5. (r * (q + k) + (a % r)) % r = a % r BY <1>2, <1>4, Remainder
  <1> QED BY <1>3, <1>5, Zenon

\* What is left of a sum or a difference is left of it when a summand goes around.
LEMMA ModAdd ==
  ASSUME NEW r \in Nat \ {0}, NEW a \in Int, NEW b \in Int
  PROVE  ((a % r) + b) % r = (a + b) % r /\ (b - (a % r)) % r = (b - a) % r
  <1>1. PICK k \in Int : a = r * k + (a % r) BY Division
  <1>2. (a % r) \in Int BY Division
  <1>3. a + b = r * k + ((a % r) + b) BY <1>1, <1>2
  <1>4. b - (a % r) = r * k + (b - a) BY <1>1, <1>2
  <1>5. (a % r) + b \in Int /\ b - a \in Int /\ a + b \in Int /\ b - (a % r) \in Int BY <1>2
  <1> DEFINE s == a + b
             t == (a % r) + b
             u == b - (a % r)
             v == b - a
  <1> HIDE DEF s, t, u, v
  <1>a. s \in Int /\ t \in Int /\ s = r * k + t BY <1>3, <1>5 DEF s, t
  <1>b. u \in Int /\ v \in Int /\ u = r * k + v BY <1>4, <1>5 DEF u, v
  <1>6. s % r = t % r BY <1>a, AddRounds
  <1>7. u % r = v % r BY <1>b, AddRounds
  <1> QED BY <1>6, <1>7, Zenon DEF s, t, u, v

\* An index has the same place in its block when it goes around.
LEMMA ModMod ==
  ASSUME NEW r \in Nat \ {0}, NEW q \in Nat \ {0}, NEW a \in Int, r % q = 0
  PROVE  (a % r) % q = a % q
  <1>1. PICK k \in Int : a = r * k + (a % r) BY Division
  <1>2. PICK j \in Int : r = q * j + (r % q)
    <2>1. r \in Int OBVIOUS
    <2> QED BY <2>1, Division, Zenon
  <1>3. (a % r) \in Int BY Division
  <1>4. r = q * j BY <1>2
  <1>5. r * k = q * (j * k) BY <1>4
  <1>6. a = q * (j * k) + (a % r) BY <1>1, <1>3, <1>5
  <1>7. j * k \in Int OBVIOUS
  <1> DEFINE i == j * k
             x == a % r
  <1> HIDE DEF i, x
  <1>8. i \in Int /\ x \in Int /\ a = q * i + x BY <1>3, <1>6, <1>7 DEF i, x
  <1>9. a % q = x % q BY <1>8, AddRounds
  <1> QED BY <1>9, Zenon DEF x

\* The comparison of two indices that are less than half the range apart.
LEMMA CircularLess ==
  ASSUME NEW r \in Nat \ {0}, r % 2 = 0, NEW d \in Int
  PROVE  /\ d \in 0 .. r \div 2 => ~((d % r) > r \div 2)
         /\ d \in -r .. r \div 2 /\ (d % r) > r \div 2 => d < 0 /\ -d < r \div 2
         /\ d \in -(r \div 2) + 1 .. -1 => (d % r) > r \div 2
  OBVIOUS
\* What is left of the difference and the sum of two indices.
LEMMA Difference ==
  ASSUME NEW r \in Nat \ {0}, NEW a \in Int, NEW b \in Int
  PROVE  /\ ((a % r) - (b % r)) % r = (a - b) % r
         /\ ((a % r) + (-(b % r))) % r = (a - b) % r
         /\ (((a % r) + b) % r) = (a + b) % r
  <1>1. (a % r) \in Int /\ (b % r) \in Int BY Division
  <1>2. ((a % r) - (b % r)) % r = ((a % r) - b) % r BY <1>1, ModAdd
  <1>3. (a % r) - b = (a % r) + (-b) /\ a - b = a + (-b) BY <1>1
  <1>4. ((a % r) + (-b)) % r = (a + (-b)) % r
    <2>1. -b \in Int OBVIOUS
    <2> QED BY <2>1, ModAdd
  <1>5. (a % r) - (b % r) = (a % r) + (-(b % r)) BY <1>1
  <1>6. ((a % r) - b) % r = (a - b) % r BY <1>3, <1>4
  <1>7. (((a % r) + b) % r) = (a + b) % r BY ModAdd
  <1>8. ((a % r) + (-(b % r))) % r = ((a % r) - (b % r)) % r BY <1>5
  <1> QED BY <1>2, <1>6, <1>7, <1>8
------------------------------------------------------------------------------
(* The constants. *)

\* Powers of two, and the halves of the range of indices.
LEMMA Constants ==
  /\ BLOCK_SIZE \in Nat \ {0} /\ IndexRange \in Nat \ {0}
  /\ IndexRange % 2 = 0 /\ IndexRange % BLOCK_SIZE = 0 /\ 2 * BLOCK_SIZE <= IndexRange
  /\ Producers \cap Consumers = {} /\ IsFiniteSet(Consumers) /\ Cardinality(Consumers) \in Nat
  /\ Cardinality(Producers) \in Nat /\ Producers = 1 .. Cardinality(Producers)
  <1>1. BLOCK_SIZE \in Nat \ {0}
    <2>1. PICK i \in 1 .. 10 : BLOCK_SIZE = 2 ^ i BY ImplicitQueueAssumption
    <2> QED BY <2>1, PowerGrows
  <1>2. IndexRange \in Nat \ {0} /\ IndexRange % (2 * BLOCK_SIZE) = 0 BY ImplicitQueueAssumption
  <1> DEFINE b == 2 * BLOCK_SIZE
  <1>3. b \in Nat \ {0} BY <1>1
  <1>4. PICK k \in Int : IndexRange = b * k + (IndexRange % b)
    <2>1. IndexRange \in Int BY <1>2
    <2> HIDE DEF b
    <2> QED BY <1>3, <2>1, Division, Zenon
  <1>5. IndexRange = b * k
    <2>1. IndexRange % b = 0 BY <1>2
    <2> HIDE DEF b
    <2> QED BY <1>3, <1>4, <2>1
  <1>6. k >= 1 BY <1>2, <1>3, <1>5
  <1>7. b <= IndexRange BY <1>3, <1>5, <1>6
  <1>8. IndexRange % 2 = 0
    <2>1. BLOCK_SIZE * k \in Int /\ IndexRange = 2 * (BLOCK_SIZE * k) + 0 BY <1>1, <1>5
    <2> QED BY <2>1
  <1>9. IndexRange % BLOCK_SIZE = 0
    <2>1. 2 * k \in Int /\ IndexRange = BLOCK_SIZE * (2 * k) + 0 BY <1>1, <1>5
    <2> QED BY <1>1, <2>1, Remainder
  <1>10. /\ Producers \cap Consumers = {} /\ IsFiniteSet(Consumers) /\ IsFiniteSet(Producers)
         /\ Producers = 1 .. Cardinality(Producers)
    BY ImplicitQueueAssumption
  <1>11. Cardinality(Consumers) \in Nat /\ Cardinality(Producers) \in Nat BY <1>10, FS_CardinalityType
  <1> QED BY <1>1, <1>2, <1>7, <1>8, <1>9, <1>10, <1>11

\* Counting claims: as many are granted as are below m and were not given back.
LEMMA CountCovered ==
  ASSUME NEW g, NEW r, NEW m \in Nat, g \subseteq 0 .. m - 1, g \cap r = {}
  PROVE  /\ IsFiniteSet(g) /\ Cardinality(g) \in Nat
         /\ Cardinality(r \cap (0 .. m - 1)) \in Nat
         /\ Cardinality(g) <= m - Cardinality(r \cap (0 .. m - 1))
  <1> DEFINE S == 0 .. m - 1
             T == r \cap S
  <1>1. IsFiniteSet(S) /\ Cardinality(S) = m BY FS_Interval
  <1>2. IsFiniteSet(T) /\ IsFiniteSet(g) BY <1>1, FS_Subset
  <1>3. Cardinality(T) \in Nat /\ Cardinality(g) \in Nat BY <1>2, FS_CardinalityType
  <1>4. IsFiniteSet(S \ T) /\ Cardinality(S \ T) = Cardinality(S) - Cardinality(S \cap T)
    BY <1>1, FS_Difference
  <1>5. S \cap T = T /\ g \subseteq S \ T OBVIOUS
  <1>6. Cardinality(g) <= Cardinality(S \ T) BY <1>4, <1>5, FS_Subset
  <1> QED BY <1>1, <1>2, <1>3, <1>4, <1>5, <1>6

\* Finitely many numbers are below another.
LEMMA FiniteBelow ==
  ASSUME NEW r, NEW n \in Int
  PROVE  IsFiniteSet(r \cap (0 .. n)) /\ Cardinality(r \cap (0 .. n)) \in Nat
  <1>1. IsFiniteSet(0 .. n) BY FS_Interval
  <1>2. r \cap (0 .. n) \in SUBSET (0 .. n) OBVIOUS
  <1>3. IsFiniteSet(r \cap (0 .. n)) BY <1>1, <1>2, FS_Subset
  <1> QED BY <1>3, FS_CardinalityType

\* Claims and grants of a producer are finitely many.
LEMMA ClaimSets ==
  ASSUME NEW p
  PROVE  /\ IsFiniteSet(Claims(p)) /\ Cardinality(Claims(p)) \in Nat
         /\ Cardinality(Claims(p)) <= Cardinality(Consumers)
         /\ IsFiniteSet(Granted(p)) /\ Cardinality(Granted(p)) \in Nat
  <1>1. Claims(p) \in SUBSET Consumers /\ Granted(p) \in SUBSET Consumers BY DEF Claims, Granted
  <1>2. IsFiniteSet(Consumers) BY Constants
  <1>3. IsFiniteSet(Claims(p)) /\ IsFiniteSet(Granted(p)) /\ Cardinality(Claims(p)) <= Cardinality(Consumers)
    BY <1>1, <1>2, FS_Subset
  <1> QED BY <1>3, FS_CardinalityType

\* The claims that were given back are finitely many.
LEMMA ReturnedFinite ==
  ASSUME IndexType, NEW p \in Producers, Accounts(p)
  PROVE  IsFiniteSet(returned[p]) /\ Cardinality(returned[p]) \in Nat /\ IsFiniteSet(granted[p])
  <1>1. counts[p] \in Nat BY DEF IndexType
  <1>2. IsFiniteSet(0 .. counts[p] - 1) BY <1>1, FS_Interval
  <1>3. returned[p] \in SUBSET (0 .. counts[p] - 1) /\ granted[p] \in SUBSET (0 .. counts[p] - 1) BY DEF Accounts
  <1>4. IsFiniteSet(returned[p]) /\ IsFiniteSet(granted[p]) BY <1>2, <1>3, FS_Subset
  <1> QED BY <1>4, FS_CardinalityType

\* No more claims are granted than there are elements.
LEMMA GrantsFit ==
  ASSUME IndexType, NEW p \in Producers, Accounts(p)
  PROVE  heads[p] + Cardinality(Granted(p)) <= tails[p] /\ heads[p] <= tails[p]
  <1>1. PICK m \in Nat : granted[p] \subseteq 0 .. m - 1 /\ m - Cardinality(returned[p] \cap (0 .. m - 1)) <= tails[p]
    BY DEF Accounts, Covered
  <1>2. granted[p] \cap returned[p] = {} /\ Cardinality(granted[p]) = heads[p] + Cardinality(Granted(p))
    BY DEF Accounts
  <1>3. /\ Cardinality(granted[p]) <= m - Cardinality(returned[p] \cap (0 .. m - 1))
        /\ Cardinality(returned[p] \cap (0 .. m - 1)) \in Nat
    BY <1>1, <1>2, CountCovered
  <1>4. Cardinality(Granted(p)) \in Nat BY ClaimSets
  <1>5. heads[p] \in Nat /\ tails[p] \in Nat BY DEF IndexType
  <1> QED BY <1>1, <1>2, <1>3, <1>4, <1>5

\* The inductive invariant implies the property.
LEMMA Balanced == QueueInv => ClaimsBalanced
  <1> SUFFICES ASSUME QueueInv, NEW p \in Producers
               PROVE  /\ Add(dequeueOptimisticCount[p], -dequeueOvercommit[p]) = Add(headIndex[p], Cardinality(Claims(p)))
                      /\ Cardinality(Granted(p)) <= Size(p)
                      /\ Size(p) <= IndexRange \div 2
    BY DEF ClaimsBalanced
  <1> DEFINE H == heads[p]
             T == tails[p]
             C == counts[p]
             O == Cardinality(returned[p])
             N == Cardinality(Claims(p))
             G == Cardinality(Granted(p))
             R == IndexRange
  <1>1. IndexType /\ Accounts(p) /\ T - H <= R \div 2 BY DEF QueueInv, ClaimInv, SizeInv
  <1>2. /\ tailIndex[p] = T % R /\ headIndex[p] = H % R
        /\ dequeueOptimisticCount[p] = C % R /\ dequeueOvercommit[p] = O % R
    BY DEF QueueInv, Wrapped
  <1>3. H \in Nat /\ T \in Nat /\ C \in Nat BY <1>1 DEF IndexType
  <1>4. O \in Nat BY <1>1, ReturnedFinite
  <1>5. N \in Nat /\ G \in Nat BY ClaimSets
  <1>6. C = H + O + N BY <1>1 DEF Accounts
  <1>7. H + G <= T BY <1>1, GrantsFit
  <1>8. R \in Nat \ {0} /\ R % 2 = 0 BY Constants
  <1> HIDE DEF H, T, C, O, N, G, R
  <1>i. C \in Int /\ O \in Int /\ H \in Int /\ N \in Int /\ T \in Int BY <1>3, <1>4, <1>5
  <1>9. ((C % R) + (-(O % R))) % R = ((H % R) + N) % R
    <2>1. ((C % R) + (-(O % R))) % R = (C - O) % R BY <1>8, <1>i, Difference, Zenon
    <2>2. ((H % R) + N) % R = (H + N) % R BY <1>8, <1>i, Difference, Zenon
    <2>3. C - O = H + N BY <1>3, <1>4, <1>5, <1>6
    <2> QED BY <2>1, <2>2, <2>3, Zenon
  <1>10. ((T % R) + (-(H % R))) % R = T - H
    <2>1. ((T % R) + (-(H % R))) % R = (T - H) % R BY <1>8, <1>i, Difference, Zenon
    <2>2. T - H \in 0 .. R - 1 BY <1>1, <1>3, <1>5, <1>7, <1>8
    <2>3. (T - H) % R = T - H BY <1>8, <2>2, Wraps
    <2> QED BY <2>1, <2>3, Zenon
  <1>11. Size(p) = T - H BY <1>2, <1>10 DEF Size, Add, R
  <1>12. Add(dequeueOptimisticCount[p], -dequeueOvercommit[p]) = Add(headIndex[p], N)
    BY <1>2, <1>9 DEF Add, R
  <1>13. G <= T - H BY <1>3, <1>5, <1>7
  <1> QED BY <1>1, <1>11, <1>12, <1>13 DEF N, G, R
------------------------------------------------------------------------------
(* What the consumers know. *)

ClaimPlaces == {"check", "claim", "recheck", "take", "giveback"}

\* A consumer's step changes only what it knows itself.
LEMMA Moves ==
  ASSUME LocalType, NEW c \in Consumers, NEW to \in ConsumerPlaces, NEW l, Scanned(l),
         pc' = [pc EXCEPT ![c] = to], loc' = [loc EXCEPT ![c] = l],
         to \notin {"idle", "off"} => l.ptr # 0,
         to \in {"head", "overcommit", "check"} => l.tail \in Nat
  PROVE  /\ LocalType' /\ pc'[c] = to /\ loc'[c] = l
         /\ \A d \in Consumers \ {c} : pc'[d] = pc[d] /\ loc'[d] = loc[d]
         /\ \A p \in Producers : pc'[p] = pc[p] /\ loc'[p] = loc[p]
  <1>1. DOMAIN pc = Producers \cup Consumers /\ DOMAIN loc = Producers \cup Consumers BY DEF LocalType
  <1>2. pc'[c] = to /\ loc'[c] = l BY <1>1
  <1>3. \A t \in (Producers \cup Consumers) \ {c} : pc'[t] = pc[t] /\ loc'[t] = loc[t] BY <1>1
  <1>4. c \notin Producers BY Constants
  <1>5. DOMAIN pc' = Producers \cup Consumers /\ DOMAIN loc' = Producers \cup Consumers
        /\ loc' = [t \in DOMAIN loc' |-> loc'[t]]
    BY <1>1
  <1>6. \A p \in Producers : pc'[p] \in ProducerPlaces BY <1>3, <1>4 DEF LocalType
  <1>7. LocalAt(c)' BY <1>2 DEF LocalAt
  <1>8. ASSUME NEW d \in Consumers \ {c} PROVE LocalAt(d)'
    <2>1. LocalAt(d) BY DEF LocalType
    <2>2. pc'[d] = pc[d] /\ loc'[d] = loc[d] BY <1>3
    <2> QED BY <2>1, <2>2 DEF LocalAt
  <1>9. LocalType' BY <1>5, <1>6, <1>7, <1>8 DEF LocalType
  <1> QED BY <1>2, <1>3, <1>4, <1>9

\* The fields that a step of a dequeue sets are not those that the search uses.
LEMMA Fields ==
  ASSUME NEW l, Scanned(l), NEW f \in {"tail", "overcommit", "count", "index", "header", "entry", "block", "item"}, NEW x
  PROVE  /\ Scanned([l EXCEPT ![f] = x])
         /\ [l EXCEPT ![f] = x][f] = x
         /\ \A g \in DOMAIN l \ {f} : [l EXCEPT ![f] = x][g] = l[g]
  BY DEF Scanned, ConsumerLocals

\* A consumer that searches no more.
LEMMA LocalsScanned == Scanned(ConsumerLocals)
  BY Constants DEF Scanned, ConsumerLocals

\* A consumer that tries a producer.
LEMMA TryingScanned ==
  ASSUME NEW p \in Producers, NEW rest \in Seq(Producers)
  PROVE  Scanned(Trying(p, rest)) /\ Trying(p, rest).ptr # 0
  BY Constants DEF Scanned, Trying, ConsumerLocals

\* The producers other than p.
LEMMA OthersType == ASSUME NEW p \in Producers PROVE Others(p) \in Seq(Producers)
  <1> DEFINE N == Cardinality(Producers)
  <1>1. N \in Nat /\ Producers = 1 .. N BY Constants
  <1>2. N - 1 \in Nat BY <1>1
  <1>3. ASSUME NEW i \in 1 .. N - 1
        PROVE  (IF ProducerList[i] > p THEN ProducerList[i] ELSE ProducerList[i + 1]) \in Producers
    <2>1. ProducerList[i] = N + 1 - i /\ ProducerList[i + 1] = N - i BY <1>1 DEF ProducerList
    <2> QED BY <1>1, <2>1
  <1>4. Others(p) \in [1 .. N - 1 -> Producers] BY <1>3 DEF Others
  <1> QED BY <1>2, <1>4, SeqDef

\* A step that makes, grants, takes or gives back no claim.
Calm(c) ==
  \/ pc'[c] = pc[c] /\ loc'[c] = loc[c]
  \/ pc[c] \notin {"recheck", "take", "giveback"} /\ pc'[c] \notin ClaimPlaces
  \/ /\ pc[c] = "check" /\ pc'[c] = "claim"
     /\ loc'[c].ptr = loc[c].ptr /\ loc'[c].overcommit = loc[c].overcommit

\* Calm steps keep what is known of the claims, also when a tail moves on.
LEMMA CalmClaims ==
  ASSUME IndexType, ClaimInv, UNCHANGED <<heads, claiming>>, tails' \in [Producers -> Nat],
         \A p \in Producers : tails'[p] >= tails[p],
         \A c \in Consumers : Calm(c)
  PROVE  ClaimInv'
  <1>1. heads' = heads /\ counts' = counts /\ granted' = granted /\ returned' = returned
        /\ loaded' = loaded /\ claim' = claim
    BY DEF claiming
  <1>2. ASSUME NEW c \in Consumers PROVE ClaimAt(c)'
    <2>1. ClaimAt(c) /\ Calm(c) BY DEF ClaimInv
    <2> QED BY <1>1, <2>1 DEF ClaimAt, Calm, Open, ClaimPlaces
  <1>3. ASSUME NEW c \in Consumers, Open(c)' PROVE Open(c) /\ loc'[c] = loc[c]
    BY <1>3 DEF Calm, Open, ClaimPlaces
  <1>4. ClaimsDiffer'
    BY <1>1, <1>3 DEF ClaimsDiffer, ClaimInv
  <1>5. ASSUME NEW p PROVE Claims(p)' = Claims(p) /\ Granted(p)' = Granted(p)
    BY DEF Claims, Granted, Calm, ClaimPlaces
  <1>6. ASSUME NEW p \in Producers PROVE Accounts(p)'
    <2>1. Accounts(p) BY DEF ClaimInv
    <2>2. PICK m \in Nat : granted[p] \subseteq 0 .. m - 1 /\ m - Cardinality(returned[p] \cap (0 .. m - 1)) <= tails[p]
      BY <2>1 DEF Accounts, Covered
    <2>3. m - 1 \in Int OBVIOUS
    <2>4. Cardinality(returned[p] \cap (0 .. m - 1)) \in Nat BY <2>3, FiniteBelow
    <2>5. tails[p] \in Nat /\ tails'[p] \in Nat /\ tails'[p] >= tails[p] BY DEF IndexType
    <2>6. m - Cardinality(returned[p] \cap (0 .. m - 1)) <= tails'[p] BY <2>2, <2>4, <2>5
    <2>7. Covered(granted[p], returned[p], tails[p])' BY <1>1, <2>2, <2>6 DEF Covered
    <2> QED BY <1>1, <1>5, <2>1, <2>7 DEF Accounts
  <1> QED BY <1>2, <1>4, <1>6 DEF ClaimInv

\* The steps of a consumer keep what is known of the sizes.
LEMMA SizesKept ==
  ASSUME IndexType, SizeInv, tails' = tails, heads' \in [Producers -> Nat],
         \A p \in Producers : heads'[p] >= heads[p] /\ pc'[p] = pc[p]
  PROVE  SizeInv'
  <1> SUFFICES ASSUME NEW p \in Producers
               PROVE  /\ tails[p] - heads'[p] <= IndexRange \div 2
                      /\ InBlock(p)' => BlockEnd(tails[p]) - heads'[p] < IndexRange \div 2
                      /\ pc'[p] \in {"slot", "publish", "pool", "take", "free", "store", "room"} => tails[p] % BLOCK_SIZE = 0
    BY DEF SizeInv
  <1>1. /\ tails[p] - heads[p] <= IndexRange \div 2
        /\ InBlock(p) => BlockEnd(tails[p]) - heads[p] < IndexRange \div 2
        /\ pc[p] \in {"slot", "publish", "pool", "take", "free", "store", "room"} => tails[p] % BLOCK_SIZE = 0
    BY DEF SizeInv
  <1>2. tails[p] \in Nat /\ heads[p] \in Nat /\ heads'[p] \in Nat BY DEF IndexType
  <1>3. BlockEnd(tails[p]) \in Int
    <2>1. BLOCK_SIZE \in Nat \ {0} BY Constants
    <2> QED BY <1>2, <2>1 DEF BlockEnd
  <1>4. InBlock(p)' <=> InBlock(p) BY DEF InBlock
  <1>5. IndexRange \div 2 \in Int BY Constants
  <1> QED BY <1>1, <1>2, <1>3, <1>4, <1>5

\* What a calm step of a consumer is known to do.
CalmStep == /\ LocalType'
            /\ \A d \in Consumers : Calm(d)
            /\ \A p \in Producers : pc'[p] = pc[p] /\ loc'[p] = loc[p]

\* A consumer that neither has nor makes a claim.
LEMMA MovesCalmly ==
  ASSUME LocalType, NEW c \in Consumers, NEW to \in ConsumerPlaces \ ClaimPlaces, NEW l, Scanned(l),
         pc' = [pc EXCEPT ![c] = to], loc' = [loc EXCEPT ![c] = l],
         to \notin {"idle", "off"} => l.ptr # 0,
         to \in {"head", "overcommit"} => l.tail \in Nat,
         pc[c] \notin {"recheck", "take", "giveback"}
  PROVE  CalmStep
  <1>1. /\ LocalType' /\ pc'[c] = to /\ loc'[c] = l
        /\ \A d \in Consumers \ {c} : pc'[d] = pc[d] /\ loc'[d] = loc[d]
        /\ \A p \in Producers : pc'[p] = pc[p] /\ loc'[p] = loc[p]
    <2>1. to \in ConsumerPlaces /\ to # "check" BY DEF ClaimPlaces
    <2> QED BY <2>1, Moves
  <1>2. Calm(c) BY <1>1 DEF Calm
  <1>3. \A d \in Consumers \ {c} : Calm(d) BY <1>1 DEF Calm
  <1> QED BY <1>1, <1>2, <1>3 DEF CalmStep

\* What a consumer knows when it is in the middle of a call.
LEMMA Local ==
  ASSUME LocalType, NEW c \in Consumers
  PROVE  /\ c \in DOMAIN pc /\ c \in DOMAIN loc /\ Scanned(loc[c])
         /\ DOMAIN loc[c] = DOMAIN ConsumerLocals
         /\ pc[c] \notin {"idle", "off"} => loc[c].ptr \in Producers
  <1>1. LocalAt(c) BY DEF LocalType
  <1>2. Scanned(loc[c]) BY <1>1 DEF LocalAt
  <1>3. loc[c].ptr \in Nat /\ loc[c].ptr <= Cardinality(Producers) /\ DOMAIN loc[c] = DOMAIN ConsumerLocals
    BY <1>2 DEF Scanned
  <1>4. pc[c] \notin {"idle", "off"} => loc[c].ptr # 0 BY <1>1 DEF LocalAt
  <1>5. Producers = 1 .. Cardinality(Producers) /\ Cardinality(Producers) \in Nat BY Constants
  <1> QED BY <1>2, <1>3, <1>4, <1>5 DEF LocalType

\* The end of a step of the loop over the producers.
LEMMA ScanCalm ==
  ASSUME LocalType, NEW c \in Consumers, NEW l, Scanned(l), Scan(c, l), pc[c] \notin {"recheck", "take", "giveback"}
  PROVE  CalmStep
  <1>1. ASSUME l.ptr # 0, pc' = [pc EXCEPT ![c] = "tail"], loc' = [loc EXCEPT ![c] = l] PROVE CalmStep
    <2>1. "tail" \in ConsumerPlaces \ ClaimPlaces BY DEF ConsumerPlaces, ClaimPlaces
    <2> QED BY <1>1, <2>1, MovesCalmly
  <1>2. ASSUME l.nonEmpty > 0, pc' = [pc EXCEPT ![c] = "dequeue"],
               loc' = [loc EXCEPT ![c] = Trying(l.best, Others(l.best))]
        PROVE  CalmStep
    <2>1. "dequeue" \in ConsumerPlaces \ ClaimPlaces BY DEF ConsumerPlaces, ClaimPlaces
    <2>2. l.best \in Producers BY <1>2 DEF Scanned
    <2>3. Scanned(Trying(l.best, Others(l.best))) /\ Trying(l.best, Others(l.best)).ptr # 0
      BY <2>2, OthersType, TryingScanned
    <2> HIDE DEF Trying, Others
    <2> QED BY <1>2, <2>1, <2>3, MovesCalmly
  <1>3. ASSUME pc' = [pc EXCEPT ![c] = "idle"], loc' = [loc EXCEPT ![c] = ConsumerLocals] PROVE CalmStep
    <2>1. "idle" \in ConsumerPlaces \ ClaimPlaces BY DEF ConsumerPlaces, ClaimPlaces
    <2> HIDE DEF ConsumerLocals
    <2> QED BY <1>3, <2>1, LocalsScanned, MovesCalmly
  <1> QED BY <1>1, <1>2, <1>3 DEF Scan

\* A dequeue that has failed is calm as well, unless it had a claim.
LEMMA EmptyMoves ==
  ASSUME LocalType, NEW c \in Consumers, Empty(c)
  PROVE  \E to, l :
           /\ to \in ConsumerPlaces \ ClaimPlaces
           /\ Scanned(l) /\ pc' = [pc EXCEPT ![c] = to] /\ loc' = [loc EXCEPT ![c] = l]
           /\ to \notin {"idle", "off"} => l.ptr # 0
           /\ to \notin {"head", "overcommit"}
  <1>1. loc[c].rest \in Seq(Producers) BY Local DEF Scanned
  <1>2. "idle" \in ConsumerPlaces \ ClaimPlaces /\ "dequeue" \in ConsumerPlaces \ ClaimPlaces
    BY DEF ConsumerPlaces, ClaimPlaces
  <1>3. CASE loc[c].rest = <<>>
    BY <1>2, <1>3, LocalsScanned DEF Empty
  <1>4. CASE loc[c].rest # <<>>
    <2>1. Head(loc[c].rest) \in Producers /\ Tail(loc[c].rest) \in Seq(Producers) BY <1>1, <1>4
    <2> DEFINE l == Trying(Head(loc[c].rest), Tail(loc[c].rest))
    <2>2. Scanned(l) /\ l.ptr # 0 BY <2>1, TryingScanned
    <2>3. pc' = [pc EXCEPT ![c] = "dequeue"] /\ loc' = [loc EXCEPT ![c] = l] BY <1>4 DEF Empty
    <2> HIDE DEF l
    <2>4. "dequeue" \notin {"head", "overcommit"} OBVIOUS
    <2> QED BY <1>2, <2>2, <2>3, <2>4, Zenon
  <1> QED BY <1>3, <1>4

\* Fetching a producer's index is calm.
LEMMA SizeTailCalm ==
  ASSUME IndexType, LocalType, NEW c \in Consumers, SizeTail(c) \/ LoadTail(c)
  PROVE  CalmStep
  <1>1. pc[c] \in {"tail", "dequeue"} BY DEF SizeTail, LoadTail, Goto
  <1>2. Scanned(loc[c]) /\ loc[c].ptr \in Producers BY <1>1, Local
  <1> DEFINE l == [loc[c] EXCEPT !["tail"] = tailIndex[loc[c].ptr]]
  <1>3. tailIndex[loc[c].ptr] \in Nat BY <1>2 DEF IndexType
  <1>4. Scanned(l) /\ l.tail \in Nat /\ l.ptr = loc[c].ptr
    <2>1. "ptr" \in DOMAIN loc[c] \ {"tail"} BY <1>2 DEF Scanned, ConsumerLocals
    <2> QED BY <1>2, <1>3, <2>1, Fields
  <1>5. \E to \in {"head", "overcommit"} : pc' = [pc EXCEPT ![c] = to] /\ loc' = [loc EXCEPT ![c] = l]
    BY DEF SizeTail, LoadTail, Goto
  <1>6. {"head", "overcommit"} \subseteq ConsumerPlaces \ ClaimPlaces BY DEF ConsumerPlaces, ClaimPlaces
  <1>7. l.ptr # 0 BY <1>2, <1>4, Constants
  <1> HIDE DEF l
  <1> QED BY <1>1, <1>4, <1>5, <1>6, <1>7, MovesCalmly

\* So is the start of the loop over the producers,
LEMMA DequeueBeginCalm ==
  ASSUME LocalType, NEW c \in Consumers, DequeueBegin(c)
  PROVE  CalmStep
  <1> DEFINE l == [ConsumerLocals EXCEPT !.ptr = Cardinality(Producers)]
  <1>1. Scanned(l) BY Constants DEF Scanned, ConsumerLocals
  <1>2. Scan(c, l) /\ pc[c] = "idle" BY DEF DequeueBegin
  <1> HIDE DEF l
  <1> QED BY <1>1, <1>2, ScanCalm

\* and each of its rounds.
LEMMA SizeHeadCalm ==
  ASSUME IndexType, LocalType, NEW c \in Consumers, SizeHead(c)
  PROVE  CalmStep
  <1> DEFINE k == loc[c]
             size == IF circular_less_than(headIndex[k.ptr], k.tail)
                     THEN Add(k.tail, -headIndex[k.ptr]) ELSE 0
             better == size > k.bestSize
             l == [k EXCEPT !.ptr = @ - 1, !.tail = 0,
                            !.nonEmpty = IF size > 0 THEN @ + 1 ELSE @,
                            !.best = IF better THEN k.ptr ELSE @,
                            !.bestSize = IF better THEN size ELSE @]
  <1>1. pc[c] = "head" /\ Scan(c, l) BY DEF SizeHead
  <1>2. Scanned(k) /\ k.ptr \in Producers BY <1>1, Local
  <1>3. k.tail \in Nat BY <1>1 DEF LocalType, LocalAt
  <1>4. headIndex[k.ptr] \in Nat BY <1>2 DEF IndexType
  <1>5. size \in Nat
    <2>1. IndexRange \in Nat \ {0} BY Constants
    <2> QED BY <1>3, <1>4, <2>1 DEF Add
  <1> HIDE DEF k, size
  <1>6. k.ptr \in 1 .. Cardinality(Producers) /\ Cardinality(Producers) \in Nat BY <1>2, Constants
  <1>7. Scanned(l)
    BY <1>2, <1>5, <1>6 DEF Scanned, ConsumerLocals
  <1> HIDE DEF l
  <1> QED BY <1>1, <1>7, ScanCalm

\* The look at the count makes no claim yet.
LEMMA CheckCountCalm ==
  ASSUME LocalType, NEW c \in Consumers, CheckCount(c)
  PROVE  CalmStep
  <1>1. pc[c] = "check" BY DEF CheckCount
  <1>2. Scanned(loc[c]) /\ loc[c].ptr \in Producers BY <1>1, Local
  <1> DEFINE l == [loc[c] EXCEPT !["tail"] = 0]
  <1>3. CASE Empty(c)
    <2>1. PICK to, n :
           /\ to \in ConsumerPlaces \ ClaimPlaces
           /\ Scanned(n) /\ pc' = [pc EXCEPT ![c] = to] /\ loc' = [loc EXCEPT ![c] = n]
           /\ to \notin {"idle", "off"} => n.ptr # 0
           /\ to \notin {"head", "overcommit"}
      BY <1>3, EmptyMoves
    <2> QED BY <1>1, <2>1, MovesCalmly
  <1>4. CASE pc' = [pc EXCEPT ![c] = "claim"] /\ loc' = [loc EXCEPT ![c] = l]
    <2>1. Scanned(l) /\ l.ptr = loc[c].ptr /\ l.overcommit = loc[c].overcommit
      <3>1. {"ptr", "overcommit"} \subseteq DOMAIN loc[c] \ {"tail"} BY <1>2 DEF Scanned, ConsumerLocals
      <3> QED BY <1>2, <3>1, Fields
    <2>2. "claim" \in ConsumerPlaces BY DEF ConsumerPlaces
    <2>3. l.ptr # 0 BY <1>2, <2>1, Constants
    <2> HIDE DEF l
    <2>4. /\ LocalType' /\ pc'[c] = "claim" /\ loc'[c] = l
          /\ \A d \in Consumers \ {c} : pc'[d] = pc[d] /\ loc'[d] = loc[d]
          /\ \A p \in Producers : pc'[p] = pc[p] /\ loc'[p] = loc[p]
      BY <1>4, <2>1, <2>2, <2>3, Moves
    <2>5. Calm(c) BY <1>1, <2>1, <2>4 DEF Calm
    <2>6. \A d \in Consumers \ {c} : Calm(d) BY <2>4 DEF Calm
    <2> QED BY <2>4, <2>5, <2>6 DEF CalmStep
  <1> QED BY <1>3, <1>4 DEF CheckCount

\* A consumer that has an index has no claim any more.
LEMMA HoldingCalm ==
  ASSUME LocalType, NEW c \in Consumers,
         \/ LoadHeader(c) \/ LoadPosition(c) \/ LoadKey(c) \/ ReadElement(c)
         \/ SetEmpty(c) \/ UnlinkBlock(c) \/ ReleaseBlock(c)
  PROVE  CalmStep
  <1>1. pc[c] \in {"header", "position", "key", "read", "empty", "unlink", "release"}
    BY DEF LoadHeader, LoadPosition, LoadKey, ReadElement, SetEmpty, UnlinkBlock, ReleaseBlock, Goto
  <1>2. Scanned(loc[c]) /\ loc[c].ptr \in Producers /\ loc[c].ptr # 0 /\ c \in DOMAIN loc
    BY <1>1, Local, Constants
  <1>3. "ptr" \in DOMAIN loc[c] BY <1>2 DEF Scanned, ConsumerLocals
  <1>4. {"position", "key", "read", "empty", "unlink", "release", "idle"} \subseteq ConsumerPlaces \ ClaimPlaces
    BY DEF ConsumerPlaces, ClaimPlaces
  <1>5. ASSUME NEW to \in {"position", "key", "read", "empty", "unlink", "release"}, NEW l, Scanned(l),
               l.ptr = loc[c].ptr, pc' = [pc EXCEPT ![c] = to], loc' = [loc EXCEPT ![c] = l]
        PROVE  CalmStep
    BY <1>1, <1>2, <1>4, <1>5, MovesCalmly
  <1>6. CASE LoadHeader(c)
    <2> DEFINE l == [loc[c] EXCEPT !["header"] = blockIndex(loc[c].ptr)]
    <2>1. Scanned(l) /\ l.ptr = loc[c].ptr BY <1>2, <1>3, Fields
    <2>2. pc' = [pc EXCEPT ![c] = "position"] /\ loc' = [loc EXCEPT ![c] = l] BY <1>6 DEF LoadHeader, Goto
    <2> HIDE DEF l
    <2> QED BY <1>5, <2>1, <2>2
  <1>7. CASE LoadPosition(c)
    <2> DEFINE l == [loc[c] EXCEPT !["tail"] = header[loc[c].ptr][loc[c].header].tail]
    <2>1. Scanned(l) /\ l.ptr = loc[c].ptr BY <1>2, <1>3, Fields
    <2>2. pc' = [pc EXCEPT ![c] = "key"] /\ loc' = [loc EXCEPT ![c] = l] BY <1>7 DEF LoadPosition, Goto
    <2> HIDE DEF l
    <2> QED BY <1>5, <2>1, <2>2
  <1>8. CASE LoadKey(c)
    <2> DEFINE x == Lookup(loc[c].ptr, header[loc[c].ptr][loc[c].header], loc[c].tail, loc[c].index)
               l == [loc[c] EXCEPT !.tail = 0, !.header = 0, !.entry = x]
    <2>1. pc' = [pc EXCEPT ![c] = "read"] /\ loc' = [loc EXCEPT ![c] = l] BY <1>8 DEF LoadKey, Goto
    <2> HIDE DEF x
    <2>2. Scanned(l) /\ l.ptr = loc[c].ptr BY <1>2 DEF Scanned, ConsumerLocals
    <2> HIDE DEF l
    <2> QED BY <1>5, <2>1, <2>2
  <1>9. CASE ReadElement(c)
    <2> DEFINE x == entry[loc[c].ptr][loc[c].entry].value
               y == elements[x][Slot(loc[c].index)]
               l == [loc[c] EXCEPT !.block = x, !.item = y, !.index = 0]
    <2>1. pc' = [pc EXCEPT ![c] = "empty"] /\ loc' = [loc EXCEPT ![c] = l] BY <1>9 DEF ReadElement, Goto
    <2> HIDE DEF x, y
    <2>2. Scanned(l) /\ l.ptr = loc[c].ptr BY <1>2 DEF Scanned, ConsumerLocals
    <2> HIDE DEF l
    <2> QED BY <1>5, <2>1, <2>2
  <1>10. ASSUME UNCHANGED loc PROVE loc' = [loc EXCEPT ![c] = loc[c]]
    BY <1>10, <1>2 DEF LocalType
  <1>11. CASE SetEmpty(c) /\ ~Done(c)
    <2>1. pc' = [pc EXCEPT ![c] = "unlink"] /\ UNCHANGED loc BY <1>11 DEF SetEmpty
    <2> QED BY <1>2, <1>5, <1>10, <2>1
  <1>12. CASE UnlinkBlock(c)
    <2>1. pc' = [pc EXCEPT ![c] = "release"] /\ UNCHANGED loc BY <1>12 DEF UnlinkBlock, Goto
    <2> QED BY <1>2, <1>5, <1>10, <2>1
  <1>13. CASE Done(c)
    <2>1. pc' = [pc EXCEPT ![c] = "idle"] /\ loc' = [loc EXCEPT ![c] = ConsumerLocals] BY <1>13 DEF Done
    <2> HIDE DEF ConsumerLocals
    <2> QED BY <1>1, <1>4, <2>1, LocalsScanned, MovesCalmly
  <1> QED BY <1>6, <1>7, <1>8, <1>9, <1>11, <1>12, <1>13 DEF ReleaseBlock

\* Calm steps of a consumer keep the invariant.
LEMMA CalmInv ==
  ASSUME QueueInv, CalmStep, UNCHANGED <<indices, tails, heads, claiming>>
  PROVE  QueueInv'
  <1>1. IndexType /\ ClaimInv /\ SizeInv /\ Wrapped BY DEF QueueInv
  <1>2. tails \in [Producers -> Nat] /\ heads \in [Producers -> Nat] BY <1>1 DEF IndexType
  <1>3. IndexType' /\ Wrapped' BY <1>1 DEF IndexType, Wrapped, indices, claiming
  <1>4. ClaimInv'
    <2>1. \A p \in Producers : tails'[p] >= tails[p] BY <1>2
    <2> QED BY <1>1, <1>2, <2>1, CalmClaims DEF CalmStep
  <1>5. SizeInv'
    <2>1. \A p \in Producers : heads'[p] >= heads[p] /\ pc'[p] = pc[p] BY <1>2 DEF CalmStep
    <2> QED BY <1>1, <1>2, <2>1, SizesKept
  <1> QED BY <1>3, <1>4, <1>5 DEF QueueInv, CalmStep

\* The load of the overcommit.
LEMMA LoadOvercommitInv ==
  ASSUME QueueInv, NEW c \in Consumers, HLoadOvercommit(c)
  PROVE  QueueInv'
  <1> DEFINE p == loc[c].ptr
             l == [loc[c] EXCEPT !["overcommit"] = dequeueOvercommit[p]]
  <1>1. IndexType /\ LocalType /\ ClaimInv /\ SizeInv /\ Wrapped BY DEF QueueInv
  <1>2. /\ pc[c] = "overcommit" /\ pc' = [pc EXCEPT ![c] = "check"] /\ loc' = [loc EXCEPT ![c] = l]
        /\ UNCHANGED <<indices, tails, heads, counts, granted, returned, claim>>
        /\ loaded' = [loaded EXCEPT ![c] = Cardinality(returned[p])]
    BY DEF HLoadOvercommit, LoadOvercommit, Goto, shared
  <1>3. Scanned(loc[c]) /\ p \in Producers /\ p # 0 BY <1>1, <1>2, Local, Constants
  <1>4. loc[c].tail \in Nat BY <1>1, <1>2 DEF LocalType, LocalAt
  <1>5. Scanned(l) /\ l.ptr = p /\ l.tail \in Nat /\ l.overcommit = dequeueOvercommit[p]
    <2>1. {"ptr", "tail"} \subseteq DOMAIN loc[c] \ {"overcommit"} BY <1>3 DEF Scanned, ConsumerLocals
    <2> QED BY <1>3, <1>4, <2>1, Fields
  <1> HIDE DEF l, p
  <1>6. /\ LocalType' /\ pc'[c] = "check" /\ loc'[c] = l
        /\ \A d \in Consumers \ {c} : pc'[d] = pc[d] /\ loc'[d] = loc[d]
        /\ \A q \in Producers : pc'[q] = pc[q] /\ loc'[q] = loc[q]
    <2>1. "check" \in ConsumerPlaces BY DEF ConsumerPlaces
    <2> QED BY <1>1, <1>2, <1>3, <1>5, <2>1, Moves
  <1>7. Cardinality(returned[p]) \in Nat
    <2>1. Accounts(p) BY <1>1, <1>3 DEF ClaimInv
    <2> QED BY <1>1, <1>3, <2>1, ReturnedFinite
  <1>8. loaded' \in [Consumers -> Nat] /\ loaded'[c] = Cardinality(returned[p])
        /\ \A d \in Consumers \ {c} : loaded'[d] = loaded[d]
    BY <1>1, <1>2, <1>7 DEF IndexType
  <1>9. IndexType' /\ Wrapped' BY <1>1, <1>2, <1>8 DEF IndexType, Wrapped, indices
  <1>10. ASSUME NEW d \in Consumers PROVE ClaimAt(d)'
    <2>1. CASE d # c
      <3>1. ClaimAt(d) BY <1>1 DEF ClaimInv
      <3> QED BY <1>2, <1>6, <1>8, <2>1, <3>1 DEF ClaimAt, Open
    <2>2. CASE d = c
      <3>1. dequeueOvercommit[p] = Cardinality(returned[p]) % IndexRange BY <1>1, <1>3 DEF Wrapped
      <3> QED BY <1>2, <1>5, <1>6, <1>7, <1>8, <2>2, <3>1 DEF ClaimAt, Open
    <2> QED BY <2>1, <2>2
  <1>11. ClaimsDiffer' BY <1>1, <1>2, <1>6 DEF ClaimInv, ClaimsDiffer, Open
  <1>12. ASSUME NEW q \in Producers PROVE Accounts(q)'
    <2>1. Accounts(q) BY <1>1 DEF ClaimInv
    <2>2. Claims(q)' = Claims(q) /\ Granted(q)' = Granted(q) BY <1>2, <1>6 DEF Claims, Granted
    <2> QED BY <1>2, <2>1, <2>2 DEF Accounts
  <1>13. SizeInv'
    <2>1. heads \in [Producers -> Nat] BY <1>1 DEF IndexType
    <2>2. \A q \in Producers : heads'[q] >= heads[q] BY <1>2, <2>1
    <2> QED BY <1>1, <1>2, <1>6, <2>1, <2>2, SizesKept
  <1> QED BY <1>6, <1>9, <1>10, <1>11, <1>12, <1>13 DEF QueueInv, ClaimInv

\* A new claim has the next number.
LEMMA ClaimStep ==
  ASSUME QueueInv, NEW c \in Consumers, HClaim(c)
  PROVE  QueueInv'
  <1>1. IndexType /\ LocalType /\ ClaimInv /\ SizeInv /\ Wrapped BY DEF QueueInv
  <1>p. PICK p \in Producers : p = loc[c].ptr BY <1>1, Local DEF HClaim, Claim, Goto
  <1>C. PICK C \in Nat : C = counts[p] BY <1>1 DEF IndexType
  <1> DEFINE l == [loc[c] EXCEPT !["count"] = dequeueOptimisticCount[p]]
  <1>2. /\ pc[c] = "claim" /\ pc' = [pc EXCEPT ![c] = "recheck"] /\ loc' = [loc EXCEPT ![c] = l]
        /\ UNCHANGED <<tailIndex, headIndex, dequeueOvercommit, tails, heads, granted, returned, loaded>>
        /\ dequeueOptimisticCount' = [dequeueOptimisticCount EXCEPT ![p] = Add(@, 1)]
        /\ claim' = [claim EXCEPT ![c] = C]
        /\ counts' = [counts EXCEPT ![p] = @ + 1]
    BY <1>p, <1>C DEF HClaim, Claim, Goto
  <1>3. Scanned(loc[c]) /\ p \in Producers /\ p # 0 BY <1>1, Local, Constants
  <1>5. Scanned(l) /\ l.ptr = p /\ l.overcommit = loc[c].overcommit /\ l.count = dequeueOptimisticCount[p]
    <2>1. {"ptr", "overcommit"} \subseteq DOMAIN loc[c] \ {"count"} BY <1>3 DEF Scanned, ConsumerLocals
    <2> QED BY <1>3, <1>p, <2>1, Fields
  <1> HIDE DEF l
  <1>6. /\ LocalType' /\ pc'[c] = "recheck" /\ loc'[c] = l
        /\ \A d \in Consumers \ {c} : pc'[d] = pc[d] /\ loc'[d] = loc[d]
        /\ \A q \in Producers : pc'[q] = pc[q] /\ loc'[q] = loc[q]
    <2>1. "recheck" \in ConsumerPlaces BY DEF ConsumerPlaces
    <2> QED BY <1>1, <1>2, <1>3, <1>5, <2>1, Moves
  <1>7. /\ C = heads[p] + Cardinality(returned[p]) + Cardinality(Claims(p))
        /\ granted[p] \subseteq 0 .. C - 1 /\ returned[p] \subseteq 0 .. C - 1
        /\ dequeueOptimisticCount[p] = C % IndexRange
    BY <1>1, <1>C DEF IndexType, ClaimInv, Accounts, Wrapped
  <1>8. /\ claim' \in [Consumers -> Nat] /\ claim'[c] = C
        /\ \A d \in Consumers \ {c} : claim'[d] = claim[d]
        /\ counts' \in [Producers -> Nat] /\ counts'[p] = C + 1
        /\ \A q \in Producers \ {p} : counts'[q] = counts[q]
    BY <1>1, <1>2, <1>C DEF IndexType
  <1>9. /\ dequeueOptimisticCount' \in [Producers -> Nat]
        /\ dequeueOptimisticCount'[p] = (C + 1) % IndexRange
        /\ \A q \in Producers \ {p} : dequeueOptimisticCount'[q] = dequeueOptimisticCount[q]
    <2>1. Add(dequeueOptimisticCount[p], 1) = (C + 1) % IndexRange
      <3>1. C \in Int /\ 1 \in Int BY <1>7
      <3>2. IndexRange \in Nat \ {0} BY Constants
      <3>3. ((C % IndexRange) + 1) % IndexRange = (C + 1) % IndexRange BY <3>1, <3>2, Difference, Zenon
      <3> QED BY <1>7, <3>3 DEF Add
    <2>2. (C + 1) % IndexRange \in Nat
      <3>1. IndexRange \in Nat \ {0} BY Constants
      <3> QED BY <3>1
    <2> QED BY <1>1, <1>2, <1>3, <2>1, <2>2 DEF IndexType
  <1>10. IndexType' /\ Wrapped'
    <2>1. IndexType' BY <1>1, <1>2, <1>8, <1>9 DEF IndexType
    <2>2. ASSUME NEW q \in Producers
          PROVE  /\ dequeueOptimisticCount'[q] = counts'[q] % IndexRange
                 /\ tailIndex[q] = tails[q] % IndexRange /\ headIndex[q] = heads[q] % IndexRange
                 /\ dequeueOvercommit[q] = Cardinality(returned[q]) % IndexRange
      BY <1>1, <1>8, <1>9 DEF Wrapped
    <2> QED BY <1>2, <2>1, <2>2 DEF Wrapped
  <1>11. ASSUME NEW d \in Consumers PROVE ClaimAt(d)'
    <2>0. ClaimAt(d) BY <1>1 DEF ClaimInv
    <2>1. CASE d # c
      <3>1. pc'[d] = pc[d] /\ loc'[d] = loc[d] /\ claim'[d] = claim[d] BY <1>6, <1>8, <2>1
      <3>2. Open(d) => claim[d] < counts'[loc[d].ptr]
        <4>1. ASSUME Open(d) PROVE claim[d] < counts'[loc[d].ptr]
          <5>1. loc[d].ptr \in Producers BY <1>1, <4>1, Local DEF Open
          <5>2. claim[d] < counts[loc[d].ptr] BY <2>0, <4>1 DEF ClaimAt
          <5>3. claim[d] \in Nat /\ counts[loc[d].ptr] \in Nat BY <1>1, <5>1 DEF IndexType
          <5>4. counts'[loc[d].ptr] \in {counts[loc[d].ptr], counts[loc[d].ptr] + 1} BY <1>C, <1>8, <5>1
          <5> QED BY <5>2, <5>3, <5>4
        <4> QED BY <4>1
      <3> QED BY <1>2, <2>0, <3>1, <3>2 DEF ClaimAt, Open
    <2>2. CASE d = c
      <3>1. loc[c].overcommit = loaded[c] % IndexRange /\ loaded[c] <= Cardinality(returned[p])
        BY <1>2, <1>p, <2>0, <2>2 DEF ClaimAt
      <3>2. returned[p] \cap (0 .. C - 1) = returned[p] BY <1>7
      <3>3. C \notin granted[p] /\ C \notin returned[p] /\ C < C + 1 BY <1>7
      <3>4. /\ pc'[c] = "recheck" /\ loc'[c].ptr = p /\ claim'[c] = C /\ counts'[p] = C + 1
            /\ loc'[c].overcommit = loc[c].overcommit /\ loc'[c].count = C % IndexRange
            /\ loaded' = loaded /\ granted' = granted /\ returned' = returned
        BY <1>2, <1>5, <1>6, <1>7, <1>8
      <3>5. loaded[c] <= Cardinality(returned[p] \cap (0 .. C - 1)) BY <3>1, <3>2
      <3> QED BY <2>2, <3>1, <3>3, <3>4, <3>5 DEF ClaimAt, Open
    <2> QED BY <2>1, <2>2
  <1>12. ClaimsDiffer'
    <2>1. SUFFICES ASSUME NEW d \in Consumers \ {c}, Open(d), loc[d].ptr = p PROVE claim[d] # C
      BY <1>1, <1>2, <1>5, <1>6, <1>8 DEF ClaimsDiffer, ClaimInv, Open
    <2>2. ClaimAt(d) BY <1>1 DEF ClaimInv
    <2>3. claim[d] < C BY <1>C, <2>1, <2>2 DEF ClaimAt
    <2>4. claim[d] \in Nat BY <1>1 DEF IndexType
    <2> QED BY <2>3, <2>4
  <1>13. ASSUME NEW q \in Producers PROVE Accounts(q)'
    <2>1. Accounts(q) BY <1>1 DEF ClaimInv
    <2>2. Granted(q)' = Granted(q) BY <1>2, <1>6 DEF Granted
    <2>3. CASE q # p
      <3>1. Claims(q)' = Claims(q) BY <1>2, <1>5, <1>6, <2>3 DEF Claims
      <3> QED BY <1>2, <1>8, <2>1, <2>2, <2>3, <3>1 DEF Accounts
    <2>4. CASE q = p
      <3>1. Claims(p)' = Claims(p) \cup {c} /\ c \notin Claims(p) BY <1>2, <1>5, <1>6 DEF Claims
      <3>2. Cardinality(Claims(p)') = Cardinality(Claims(p)) + 1 BY <3>1, ClaimSets, FS_AddElement
      <3>3. Cardinality(Claims(p)) \in Nat /\ heads[p] \in Nat /\ Cardinality(returned[p]) \in Nat
        BY <1>1, <1>3, <2>1, <2>4, ClaimSets, ReturnedFinite DEF IndexType
      <3>4. counts'[p] = heads[p] + Cardinality(returned[p]) + Cardinality(Claims(p)') BY <1>7, <1>8, <3>2, <3>3
      <3>5. granted[p] \subseteq 0 .. counts'[p] - 1 /\ returned[p] \subseteq 0 .. counts'[p] - 1 BY <1>7, <1>8
      <3> QED BY <1>2, <2>1, <2>2, <2>4, <3>4, <3>5 DEF Accounts
    <2> QED BY <2>3, <2>4
  <1>14. SizeInv'
    <2>1. heads \in [Producers -> Nat] BY <1>1 DEF IndexType
    <2>2. \A q \in Producers : heads'[q] >= heads[q] BY <1>2, <2>1
    <2> QED BY <1>1, <1>2, <1>6, <2>1, <2>2, SizesKept
  <1> QED BY <1>6, <1>10, <1>11, <1>12, <1>13, <1>14 DEF QueueInv, ClaimInv

\* A claim that finds itself before the tail has an element: what was given back
\* since the overcommit was loaded is less than half of the indices.
LEMMA ClaimCovered ==
  ASSUME QueueInv, Fresh, NEW c \in Consumers, pc[c] = "recheck", NEW p \in Producers, p = loc[c].ptr,
         Before(loc[c], loc[c].count, tailIndex[p])
  PROVE  (claim[c] + 1) - Cardinality(returned[p] \cap (0 .. claim[c] - 1)) <= tails[p]
  <1> DEFINE K == claim[c]
             L == loaded[c]
             T == tails[p]
             R == IndexRange
             O == Cardinality(returned[p])
             B == Cardinality(returned[p] \cap (0 .. claim[c] - 1))
             N == Cardinality(Consumers)
             J == Cardinality(Claims(p))
             H == heads[p]
             C == counts[p]
  <1>1. IndexType /\ ClaimAt(c) /\ Accounts(p) /\ Wrapped BY DEF QueueInv, ClaimInv
  <1>2. K \in Int /\ L \in Int /\ T \in Int /\ H \in Int /\ C \in Int BY <1>1 DEF IndexType
  <1>3. O \in Int BY <1>1, ReturnedFinite
  <1>4. B \in Int
    <2>1. claim[c] - 1 \in Int BY <1>2
    <2>2. Cardinality(returned[p] \cap (0 .. claim[c] - 1)) \in Nat BY <2>1, FiniteBelow, Zenon
    <2> QED BY <2>2
  <1>5. J \in Nat /\ J <= N BY ClaimSets
  <1>6. R \in Nat \ {0} /\ R % 2 = 0 /\ N \in Nat BY Constants
  <1>7. loc[c].count = K % R /\ loc[c].overcommit = L % R /\ L <= B /\ K < C
    BY <1>1 DEF ClaimAt, Open
  <1>8. C = H + O + J BY <1>1 DEF Accounts
  <1>9. H <= T BY <1>1, GrantsFit
  <1>10. O - L + N <= R \div 2 BY DEF Fresh
  <1>11. tailIndex[p] = T % R BY <1>1 DEF Wrapped
  <1>12. (((((K % R) + (-(L % R))) % R) - (T % R)) % R) > R \div 2
    BY <1>7, <1>11 DEF Before, circular_less_than, Add
  <1> HIDE DEF K, L, T, R, O, B, N, J, H, C
  <1>13. ((K % R) + (-(L % R))) % R = (K - L) % R BY <1>2, <1>6, Difference, Zenon
  <1>14. (((K - L) % R) - (T % R)) % R = ((K - L) - T) % R
    <2>1. K - L \in Int BY <1>2
    <2> QED BY <1>2, <1>6, <2>1, Difference, Zenon
  <1> DEFINE D == (K - L) - T
  <1>15. D \in Int BY <1>2
  <1>16. (D % R) > R \div 2 BY <1>12, <1>13, <1>14
  <1>17. D <= R \div 2 BY <1>2, <1>3, <1>5, <1>6, <1>7, <1>8, <1>9, <1>10
  <1>18. D < 0
    <2> HIDE DEF D
    <2>1. R \div 2 \in Nat BY <1>6
    <2>2. SUFFICES ASSUME D >= 0 PROVE FALSE BY <1>15
    <2>3. D \in 0 .. R \div 2 BY <1>15, <1>17, <2>1, <2>2
    <2> QED BY <1>6, <1>15, <1>16, <2>3, CircularLess
  <1> QED BY <1>2, <1>4, <1>7, <1>18 DEF K, B, T

\* The second look at the tail.
LEMMA RecheckStep ==
  ASSUME QueueInv, Fresh, NEW c \in Consumers, HRecheck(c)
  PROVE  QueueInv'
  <1>1. IndexType /\ LocalType /\ ClaimInv /\ SizeInv /\ Wrapped BY DEF QueueInv
  <1>p. PICK p \in Producers : p = loc[c].ptr BY <1>1, Local DEF HRecheck, Recheck, Goto
  <1> DEFINE l == [loc[c] EXCEPT !.count = 0, !.overcommit = 0]
             to == IF Before(loc[c], loc[c].count, tailIndex[p]) THEN "take" ELSE "giveback"
             K == claim[c]
  <1>2. /\ pc[c] = "recheck" /\ pc' = [pc EXCEPT ![c] = to] /\ loc' = [loc EXCEPT ![c] = l]
        /\ UNCHANGED <<indices, tails, heads, counts, returned, loaded, claim>>
        /\ granted' = IF pc'[c] = "take" THEN [granted EXCEPT ![p] = @ \cup {K}] ELSE granted
    BY <1>p DEF HRecheck, Recheck, Goto, shared
  <1>3. Scanned(loc[c]) /\ p # 0 BY <1>1, Local, Constants
  <1>5. Scanned(l) /\ l.ptr = p BY <1>3, <1>p DEF Scanned, ConsumerLocals
  <1>t. to \in {"take", "giveback"} /\ (to = "take" => Before(loc[c], loc[c].count, tailIndex[p])) OBVIOUS
  <1> HIDE DEF l, to
  <1>6. /\ LocalType' /\ pc'[c] = to /\ loc'[c] = l
        /\ \A d \in Consumers \ {c} : pc'[d] = pc[d] /\ loc'[d] = loc[d]
        /\ \A q \in Producers : pc'[q] = pc[q] /\ loc'[q] = loc[q]
    <2>1. to \in ConsumerPlaces /\ to \notin {"head", "overcommit", "check"} BY <1>t DEF ConsumerPlaces
    <2> QED BY <1>1, <1>2, <1>3, <1>5, <2>1, Moves
  <1>7. /\ K \in Nat /\ K < counts[p] /\ counts[p] \in Nat /\ K \notin granted[p] /\ K \notin returned[p]
        /\ granted \in [Producers -> SUBSET Nat] /\ claim \in [Consumers -> Nat]
    <2>1. ClaimAt(c) BY <1>1 DEF ClaimInv
    <2> QED BY <1>1, <1>2, <1>p, <2>1 DEF IndexType, ClaimAt, Open
  <1>8. /\ granted' \in [Producers -> SUBSET Nat]
        /\ \A q \in Producers \ {p} : granted'[q] = granted[q]
        /\ to = "take" => granted'[p] = granted[p] \cup {K}
        /\ to # "take" => granted'[p] = granted[p]
    BY <1>2, <1>6, <1>7
  <1>9. IndexType' /\ Wrapped' BY <1>1, <1>2, <1>8 DEF IndexType, Wrapped, indices
  <1>10. \A q \in Producers : returned'[q] = returned[q] /\ counts'[q] = counts[q] BY <1>2
  <1>11. ASSUME NEW d \in Consumers PROVE ClaimAt(d)'
    <2>0. ClaimAt(d) BY <1>1 DEF ClaimInv
    <2>1. CASE d # c
      <3>1. pc'[d] = pc[d] /\ loc'[d] = loc[d] BY <1>6, <2>1
      <3>2. ASSUME Open(d) PROVE claim[d] \notin granted'[loc[d].ptr]
        <4>1. loc[d].ptr \in Producers /\ claim[d] \notin granted[loc[d].ptr] BY <1>1, <2>0, <3>2, Local DEF Open, ClaimAt
        <4>2. loc[d].ptr = p => claim[d] # K
          BY <1>1, <1>2, <1>p, <2>1, <3>2 DEF ClaimInv, ClaimsDiffer, Open
        <4> QED BY <1>8, <4>1, <4>2
      <3> QED BY <1>2, <2>0, <3>1, <3>2 DEF ClaimAt, Open
    <2>2. CASE d = c
      <3>1. to = "giveback" => K \notin granted'[p] BY <1>7, <1>8
      <3> QED BY <1>2, <1>5, <1>6, <1>7, <1>t, <2>2, <3>1 DEF ClaimAt, Open
    <2> QED BY <2>1, <2>2
  <1>12. ClaimsDiffer'
    <2>1. ASSUME NEW d \in Consumers, Open(d)' PROVE Open(d) /\ loc'[d].ptr = loc[d].ptr
      BY <1>2, <1>5, <1>6, <1>p, <2>1 DEF Open
    <2> QED BY <1>1, <1>2, <2>1 DEF ClaimInv, ClaimsDiffer
  <1>13. ASSUME NEW q \in Producers PROVE Accounts(q)'
    <2>1. Accounts(q) BY <1>1 DEF ClaimInv
    <2>2. Claims(q)' = Claims(q) BY <1>2, <1>5, <1>6, <1>p, <1>t DEF Claims
    <2>3. CASE q # p \/ to # "take"
      <3>1. Granted(q)' = Granted(q) BY <1>2, <1>5, <1>6, <1>p, <1>t, <2>3 DEF Granted
      <3>2. granted'[q] = granted[q] BY <1>8, <2>3
      <3> QED BY <1>2, <2>1, <2>2, <3>1, <3>2 DEF Accounts
    <2>4. CASE q = p /\ to = "take"
      <3>1. Granted(p)' = Granted(p) \cup {c} /\ c \notin Granted(p) BY <1>2, <1>5, <1>6, <2>4 DEF Granted
      <3>2. Cardinality(Granted(p)') = Cardinality(Granted(p)) + 1 BY <3>1, ClaimSets, FS_AddElement
      <3>3. Cardinality(granted[p]) = heads[p] + Cardinality(Granted(p)) BY <2>1, <2>4 DEF Accounts
      <3>4. Cardinality(granted'[p]) = Cardinality(granted[p]) + 1
        <4>1. IsFiniteSet(granted[p]) BY <1>1, <2>1, <2>4, ReturnedFinite
        <4> QED BY <1>7, <1>8, <2>4, <4>1, FS_AddElement
      <3>5. heads[p] \in Nat /\ tails[p] \in Nat /\ Cardinality(Granted(p)) \in Nat BY <1>1, ClaimSets DEF IndexType
      <3>6. Cardinality(granted'[p]) = heads[p] + Cardinality(Granted(p)') BY <3>2, <3>3, <3>4, <3>5
      <3>7. /\ granted'[p] \subseteq 0 .. counts[p] - 1 /\ granted'[p] \cap returned[p] = {}
        BY <1>7, <1>8, <2>1, <2>4 DEF Accounts
      <3>8. PICK m \in Nat : granted[p] \subseteq 0 .. m - 1 /\ m - Cardinality(returned[p] \cap (0 .. m - 1)) <= tails[p]
        BY <2>1, <2>4 DEF Accounts, Covered
      <3>9. Covered(granted'[p], returned[p], tails[p])
        <4>1. CASE K < m
          <5>1. granted'[p] \subseteq 0 .. m - 1 BY <1>7, <1>8, <2>4, <3>8, <4>1
          <5> QED BY <3>8, <5>1 DEF Covered
        <4>2. CASE ~(K < m)
          <5>1. granted'[p] \subseteq 0 .. (K + 1) - 1 BY <1>7, <1>8, <2>4, <3>8, <4>2
          <5>2. returned[p] \cap (0 .. (K + 1) - 1) = returned[p] \cap (0 .. K - 1) BY <1>7
          <5>3. (K + 1) - Cardinality(returned[p] \cap (0 .. K - 1)) <= tails[p]
            <6>1. pc[c] = "recheck" /\ Before(loc[c], loc[c].count, tailIndex[p]) BY <1>2, <1>t, <2>4
            <6> QED BY <1>p, <6>1, ClaimCovered, Zenon
          <5>4. K + 1 \in Nat BY <1>7
          <5> HIDE DEF K
          <5> QED BY <5>1, <5>2, <5>3, <5>4 DEF Covered
        <4> QED BY <4>1, <4>2
      <3> QED BY <1>2, <2>1, <2>2, <2>4, <3>6, <3>7, <3>9 DEF Accounts
    <2> QED BY <2>3, <2>4
  <1>14. SizeInv'
    <2>1. heads \in [Producers -> Nat] BY <1>1 DEF IndexType
    <2>2. \A q \in Producers : heads'[q] >= heads[q] BY <1>2, <2>1
    <2> QED BY <1>1, <1>2, <1>6, <2>1, <2>2, SizesKept
  <1> QED BY <1>6, <1>9, <1>11, <1>12, <1>13, <1>14 DEF QueueInv, ClaimInv

\* A claim that was not granted is given back.
LEMMA GiveBackStep ==
  ASSUME QueueInv, NEW c \in Consumers, HGiveBack(c)
  PROVE  QueueInv'
  <1>1. IndexType /\ LocalType /\ ClaimInv /\ SizeInv /\ Wrapped BY DEF QueueInv
  <1>p. PICK p \in Producers : p = loc[c].ptr BY <1>1, Local DEF HGiveBack, GiveBack
  <1> DEFINE K == claim[c]
  <1>2. /\ pc[c] = "giveback" /\ Empty(c)
        /\ UNCHANGED <<tailIndex, headIndex, dequeueOptimisticCount, tails, heads, counts, granted, loaded, claim>>
        /\ dequeueOvercommit' = [dequeueOvercommit EXCEPT ![p] = Add(@, 1)]
        /\ returned' = [returned EXCEPT ![p] = @ \cup {K}]
    BY <1>p DEF HGiveBack, GiveBack
  <1>3. PICK to, l :
          /\ to \in ConsumerPlaces \ ClaimPlaces
          /\ Scanned(l) /\ pc' = [pc EXCEPT ![c] = to] /\ loc' = [loc EXCEPT ![c] = l]
          /\ to \notin {"idle", "off"} => l.ptr # 0
          /\ to \notin {"head", "overcommit"}
    BY <1>1, <1>2, EmptyMoves
  <1>t. to \notin ClaimPlaces BY <1>3
  <1>6. /\ LocalType' /\ pc'[c] = to /\ loc'[c] = l
        /\ \A d \in Consumers \ {c} : pc'[d] = pc[d] /\ loc'[d] = loc[d]
        /\ \A q \in Producers : pc'[q] = pc[q] /\ loc'[q] = loc[q]
    <2>1. to \in ConsumerPlaces /\ to \notin {"head", "overcommit", "check"} BY <1>3 DEF ClaimPlaces
    <2> QED BY <1>1, <1>3, <2>1, Moves
  <1>7. /\ K \in Nat /\ K < counts[p] /\ counts[p] \in Nat /\ K \notin granted[p] /\ K \notin returned[p]
        /\ returned \in [Producers -> SUBSET Nat] /\ claim \in [Consumers -> Nat]
    <2>1. ClaimAt(c) BY <1>1 DEF ClaimInv
    <2> QED BY <1>1, <1>2, <1>p, <2>1 DEF IndexType, ClaimAt, Open
  <1>8. /\ returned' \in [Producers -> SUBSET Nat] /\ returned'[p] = returned[p] \cup {K}
        /\ \A q \in Producers \ {p} : returned'[q] = returned[q]
    BY <1>2, <1>7
  <1>r. IsFiniteSet(returned[p]) /\ Cardinality(returned[p]) \in Nat
    <2>1. Accounts(p) BY <1>1 DEF ClaimInv
    <2> QED BY <1>1, <2>1, ReturnedFinite
  <1>s. Cardinality(returned'[p]) = Cardinality(returned[p]) + 1
    BY <1>7, <1>8, <1>r, FS_AddElement
  <1>9. /\ dequeueOvercommit' \in [Producers -> Nat]
        /\ dequeueOvercommit'[p] = Cardinality(returned'[p]) % IndexRange
        /\ \A q \in Producers \ {p} : dequeueOvercommit'[q] = dequeueOvercommit[q]
    <2> DEFINE O == Cardinality(returned[p])
    <2>1. O \in Int /\ 1 \in Int /\ O \in Nat BY <1>r
    <2>2. IndexRange \in Nat \ {0} BY Constants
    <2>3. dequeueOvercommit[p] = O % IndexRange BY <1>1 DEF Wrapped
    <2> HIDE DEF O
    <2>4. ((O % IndexRange) + 1) % IndexRange = (O + 1) % IndexRange BY <2>1, <2>2, Difference, Zenon
    <2>5. Add(dequeueOvercommit[p], 1) = (O + 1) % IndexRange BY <2>3, <2>4 DEF Add
    <2>6. (O + 1) % IndexRange \in Nat BY <2>1, <2>2
    <2>7. (O + 1) % IndexRange = Cardinality(returned'[p]) % IndexRange BY <1>s DEF O
    <2> QED BY <1>1, <1>2, <2>5, <2>6, <2>7 DEF IndexType
  <1>10. IndexType' /\ Wrapped'
    <2>1. IndexType' BY <1>1, <1>2, <1>8, <1>9 DEF IndexType
    <2>2. ASSUME NEW q \in Producers
          PROVE  /\ dequeueOvercommit'[q] = Cardinality(returned'[q]) % IndexRange
                 /\ tailIndex[q] = tails[q] % IndexRange /\ headIndex[q] = heads[q] % IndexRange
                 /\ dequeueOptimisticCount[q] = counts[q] % IndexRange
      BY <1>1, <1>8, <1>9 DEF Wrapped
    <2> QED BY <1>2, <2>1, <2>2 DEF Wrapped
  <1>m. ASSUME NEW q \in Producers, NEW n \in Int
        PROVE  /\ Cardinality(returned[q] \cap (0 .. n)) \in Nat /\ Cardinality(returned'[q] \cap (0 .. n)) \in Nat
               /\ Cardinality(returned[q] \cap (0 .. n)) <= Cardinality(returned'[q] \cap (0 .. n))
    <2>1. IsFiniteSet(returned'[q] \cap (0 .. n)) /\ Cardinality(returned'[q] \cap (0 .. n)) \in Nat
          /\ Cardinality(returned[q] \cap (0 .. n)) \in Nat
      BY FiniteBelow
    <2>2. (returned[q] \cap (0 .. n)) \in SUBSET (returned'[q] \cap (0 .. n)) BY <1>8
    <2>3. Cardinality(returned[q] \cap (0 .. n)) <= Cardinality(returned'[q] \cap (0 .. n)) BY <2>1, <2>2, FS_Subset
    <2> QED BY <2>1, <2>3
  <1>11. ASSUME NEW d \in Consumers PROVE ClaimAt(d)'
    <2>0. ClaimAt(d) BY <1>1 DEF ClaimInv
    <2>1. CASE d # c
      <3> DEFINE q == loc[d].ptr
      <3>1. pc'[d] = pc[d] /\ loc'[d] = loc[d] BY <1>6, <2>1
      <3>2. ASSUME Open(d) PROVE claim[d] \notin returned'[q]
        <4>1. q \in Producers /\ claim[d] \notin returned[q] BY <1>1, <2>0, <3>2, Local DEF Open, ClaimAt
        <4>2. q = p => claim[d] # K
          BY <1>1, <1>2, <1>p, <2>1, <3>2 DEF ClaimInv, ClaimsDiffer, Open
        <4> QED BY <1>8, <4>1, <4>2
      <3>3. ASSUME pc[d] \in {"check", "claim"} PROVE loaded[d] <= Cardinality(returned'[q])
        <4>1. q \in Producers /\ loaded[d] <= Cardinality(returned[q]) BY <1>1, <2>0, <3>3, Local DEF ClaimAt
        <4>2. q # p => returned'[q] = returned[q] BY <1>8, <4>1
        <4>3. loaded[d] \in Nat BY <1>1 DEF IndexType
        <4>4. CASE q = p BY <1>r, <1>s, <4>1, <4>3, <4>4
        <4> QED BY <4>1, <4>2, <4>4
      <3>4. ASSUME pc[d] = "recheck" PROVE loaded[d] <= Cardinality(returned'[q] \cap (0 .. claim[d] - 1))
        <4>1. q \in Producers /\ loaded[d] <= Cardinality(returned[q] \cap (0 .. claim[d] - 1))
          BY <1>1, <2>0, <3>4, Local DEF ClaimAt
        <4>2. loaded[d] \in Nat /\ claim[d] - 1 \in Int BY <1>1 DEF IndexType
        <4> HIDE DEF q
        <4> DEFINE n == claim[d] - 1
        <4>3. q \in Producers /\ n \in Int BY <4>1, <4>2
        <4>4. loaded[d] <= Cardinality(returned[q] \cap (0 .. n)) BY <4>1
        <4> HIDE DEF n
        <4>5. /\ Cardinality(returned[q] \cap (0 .. n)) \in Nat /\ Cardinality(returned'[q] \cap (0 .. n)) \in Nat
              /\ Cardinality(returned[q] \cap (0 .. n)) <= Cardinality(returned'[q] \cap (0 .. n))
          BY <1>m, <4>3
        <4>6. loaded[d] <= Cardinality(returned'[q] \cap (0 .. n)) BY <4>2, <4>4, <4>5
        <4> QED BY <4>6 DEF n
      <3> QED BY <1>2, <2>0, <3>1, <3>2, <3>3, <3>4 DEF ClaimAt, Open
    <2>2. CASE d = c BY <1>6, <1>t, <2>2 DEF ClaimAt, Open, ClaimPlaces
    <2> QED BY <2>1, <2>2
  <1>12. ClaimsDiffer'
    <2>1. ASSUME NEW d \in Consumers, Open(d)' PROVE Open(d) /\ loc'[d].ptr = loc[d].ptr
      BY <1>6, <1>t, <2>1 DEF Open, ClaimPlaces
    <2> QED BY <1>1, <1>2, <2>1 DEF ClaimInv, ClaimsDiffer
  <1>13. ASSUME NEW q \in Producers PROVE Accounts(q)'
    <2>1. Accounts(q) BY <1>1 DEF ClaimInv
    <2>2. Granted(q)' = Granted(q) BY <1>2, <1>6, <1>t DEF Granted, ClaimPlaces
    <2>3. CASE q # p
      <3>1. Claims(q)' = Claims(q) BY <1>2, <1>6, <1>p, <1>t, <2>3 DEF Claims, ClaimPlaces
      <3>2. returned'[q] = returned[q] BY <1>8, <2>3
      <3> QED BY <1>2, <2>1, <2>2, <3>1, <3>2 DEF Accounts
    <2>4. CASE q = p
      <3>1. Claims(p)' = Claims(p) \ {c} /\ c \in Claims(p) BY <1>2, <1>6, <1>p, <1>t DEF Claims, ClaimPlaces
      <3>2. Cardinality(Claims(p)') = Cardinality(Claims(p)) - 1 BY <3>1, ClaimSets, FS_RemoveElement
      <3>3. counts[p] = heads[p] + Cardinality(returned[p]) + Cardinality(Claims(p)) BY <2>1, <2>4 DEF Accounts
      <3>4. heads[p] \in Nat /\ tails[p] \in Nat /\ Cardinality(Claims(p)) \in Nat BY <1>1, ClaimSets DEF IndexType
      <3>5. counts[p] = heads[p] + Cardinality(returned'[p]) + Cardinality(Claims(p)')
        BY <1>r, <1>s, <3>2, <3>3, <3>4
      <3>6. returned'[p] \subseteq 0 .. counts[p] - 1 /\ granted[p] \cap returned'[p] = {}
        BY <1>7, <1>8, <2>1, <2>4 DEF Accounts
      <3>7. PICK m \in Nat : granted[p] \subseteq 0 .. m - 1 /\ m - Cardinality(returned[p] \cap (0 .. m - 1)) <= tails[p]
        BY <2>1, <2>4 DEF Accounts, Covered
      <3>8. m - Cardinality(returned'[p] \cap (0 .. m - 1)) <= tails[p]
        <4>1. m - 1 \in Int OBVIOUS
        <4>2. /\ Cardinality(returned[p] \cap (0 .. m - 1)) \in Nat /\ Cardinality(returned'[p] \cap (0 .. m - 1)) \in Nat
              /\ Cardinality(returned[p] \cap (0 .. m - 1)) <= Cardinality(returned'[p] \cap (0 .. m - 1))
          BY <1>m, <4>1
        <4> QED BY <3>4, <3>7, <4>2
      <3>9. Covered(granted[p], returned'[p], tails[p]) BY <3>7, <3>8 DEF Covered
      <3> QED BY <1>2, <2>1, <2>2, <2>4, <3>5, <3>6, <3>9 DEF Accounts
    <2> QED BY <2>3, <2>4
  <1>14. SizeInv'
    <2>1. heads \in [Producers -> Nat] BY <1>1 DEF IndexType
    <2>2. \A q \in Producers : heads'[q] >= heads[q] BY <1>2, <2>1
    <2> QED BY <1>1, <1>2, <1>6, <2>1, <2>2, SizesKept
  <1> QED BY <1>6, <1>10, <1>11, <1>12, <1>13, <1>14 DEF QueueInv, ClaimInv

\* A granted claim takes the index at the head.
LEMMA TakeIndexStep ==
  ASSUME QueueInv, NEW c \in Consumers, HTakeIndex(c)
  PROVE  QueueInv'
  <1>1. IndexType /\ LocalType /\ ClaimInv /\ SizeInv /\ Wrapped BY DEF QueueInv
  <1>p. PICK p \in Producers : p = loc[c].ptr BY <1>1, Local DEF HTakeIndex, TakeIndex, Goto
  <1> DEFINE l == [loc[c] EXCEPT !.index = headIndex[p], !.rest = <<>>]
  <1>2. /\ pc[c] = "take" /\ pc' = [pc EXCEPT ![c] = "header"] /\ loc' = [loc EXCEPT ![c] = l]
        /\ UNCHANGED <<tailIndex, dequeueOptimisticCount, dequeueOvercommit, tails,
                       counts, granted, returned, loaded, claim>>
        /\ headIndex' = [headIndex EXCEPT ![p] = Add(@, 1)]
        /\ heads' = [heads EXCEPT ![p] = @ + 1]
    BY <1>p DEF HTakeIndex, TakeIndex, Goto, claiming
  <1>3. Scanned(loc[c]) /\ p # 0 BY <1>1, Local, Constants
  <1>5. Scanned(l) /\ l.ptr = p BY <1>3, <1>p DEF Scanned, ConsumerLocals
  <1> HIDE DEF l
  <1>6. /\ LocalType' /\ pc'[c] = "header" /\ loc'[c] = l
        /\ \A d \in Consumers \ {c} : pc'[d] = pc[d] /\ loc'[d] = loc[d]
        /\ \A q \in Producers : pc'[q] = pc[q] /\ loc'[q] = loc[q]
    <2>1. "header" \in ConsumerPlaces BY DEF ConsumerPlaces
    <2> QED BY <1>1, <1>2, <1>3, <1>5, <2>1, Moves
  <1>7. heads[p] \in Nat /\ heads \in [Producers -> Nat] BY <1>1 DEF IndexType
  <1>8. /\ heads' \in [Producers -> Nat] /\ heads'[p] = heads[p] + 1
        /\ \A q \in Producers \ {p} : heads'[q] = heads[q]
    BY <1>2, <1>7
  <1>9. /\ headIndex' \in [Producers -> Nat] /\ headIndex'[p] = heads'[p] % IndexRange
        /\ \A q \in Producers \ {p} : headIndex'[q] = headIndex[q]
    <2> DEFINE H == heads[p]
    <2>1. H \in Int /\ 1 \in Int /\ H \in Nat BY <1>7
    <2>2. IndexRange \in Nat \ {0} BY Constants
    <2>3. headIndex[p] = H % IndexRange BY <1>1 DEF Wrapped
    <2>7. heads'[p] = H + 1 BY <1>8
    <2> HIDE DEF H
    <2>4. ((H % IndexRange) + 1) % IndexRange = (H + 1) % IndexRange BY <2>1, <2>2, Difference, Zenon
    <2>5. Add(headIndex[p], 1) = (H + 1) % IndexRange BY <2>3, <2>4 DEF Add
    <2>6. (H + 1) % IndexRange \in Nat BY <2>1, <2>2
    <2> QED BY <1>1, <1>2, <2>5, <2>6, <2>7 DEF IndexType
  <1>10. IndexType' /\ Wrapped'
    <2>1. IndexType' BY <1>1, <1>2, <1>8, <1>9 DEF IndexType
    <2>2. ASSUME NEW q \in Producers
          PROVE  /\ headIndex'[q] = heads'[q] % IndexRange
                 /\ tailIndex[q] = tails[q] % IndexRange
                 /\ dequeueOptimisticCount[q] = counts[q] % IndexRange
                 /\ dequeueOvercommit[q] = Cardinality(returned[q]) % IndexRange
      BY <1>1, <1>8, <1>9 DEF Wrapped
    <2> QED BY <1>2, <2>1, <2>2 DEF Wrapped
  <1>11. ASSUME NEW d \in Consumers PROVE ClaimAt(d)'
    <2>0. ClaimAt(d) BY <1>1 DEF ClaimInv
    <2>1. CASE d # c
      <3>1. pc'[d] = pc[d] /\ loc'[d] = loc[d] BY <1>6, <2>1
      <3> QED BY <1>2, <2>0, <3>1 DEF ClaimAt, Open
    <2>2. CASE d = c BY <1>6, <2>2 DEF ClaimAt, Open
    <2> QED BY <2>1, <2>2
  <1>12. ClaimsDiffer'
    <2>1. ASSUME NEW d \in Consumers, Open(d)' PROVE Open(d) /\ loc'[d].ptr = loc[d].ptr
      BY <1>6, <2>1 DEF Open
    <2> QED BY <1>1, <1>2, <2>1 DEF ClaimInv, ClaimsDiffer
  <1>13. ASSUME NEW q \in Producers PROVE Accounts(q)'
    <2>1. Accounts(q) BY <1>1 DEF ClaimInv
    <2>3. CASE q # p
      <3>1. Claims(q)' = Claims(q) /\ Granted(q)' = Granted(q)
        BY <1>2, <1>5, <1>6, <1>p, <2>3 DEF Claims, Granted
      <3>2. heads'[q] = heads[q] BY <1>8, <2>3
      <3> QED BY <1>2, <2>1, <3>1, <3>2 DEF Accounts
    <2>4. CASE q = p
      <3>1. /\ Claims(p)' = Claims(p) \ {c} /\ c \in Claims(p)
            /\ Granted(p)' = Granted(p) \ {c} /\ c \in Granted(p)
        BY <1>2, <1>6, <1>p DEF Claims, Granted
      <3>2. Cardinality(Claims(p)') = Cardinality(Claims(p)) - 1 BY <3>1, ClaimSets, FS_RemoveElement
      <3>3. Cardinality(Granted(p)') = Cardinality(Granted(p)) - 1 BY <3>1, ClaimSets, FS_RemoveElement
      <3>4. /\ counts[p] = heads[p] + Cardinality(returned[p]) + Cardinality(Claims(p))
            /\ Cardinality(granted[p]) = heads[p] + Cardinality(Granted(p))
        BY <2>1, <2>4 DEF Accounts
      <3>5. Cardinality(Claims(p)) \in Nat /\ Cardinality(Granted(p)) \in Nat /\ Cardinality(returned[p]) \in Nat
        BY <1>1, <2>1, <2>4, ClaimSets, ReturnedFinite
      <3>6. /\ counts[p] = heads'[p] + Cardinality(returned[p]) + Cardinality(Claims(p)')
            /\ Cardinality(granted[p]) = heads'[p] + Cardinality(Granted(p)')
        BY <1>7, <1>8, <3>2, <3>3, <3>4, <3>5
      <3> QED BY <1>2, <2>1, <2>4, <3>6 DEF Accounts
    <2> QED BY <2>3, <2>4
  <1>14. SizeInv'
    <2>1. \A q \in Producers : heads'[q] >= heads[q] BY <1>7, <1>8
    <2> QED BY <1>1, <1>2, <1>6, <1>8, <2>1, SizesKept
  <1> QED BY <1>6, <1>10, <1>11, <1>12, <1>13, <1>14 DEF QueueInv, ClaimInv
------------------------------------------------------------------------------
(* The steps of the producers. *)

\* What is known of the size of one producer, at a place in its enqueue.
Fits(q, at) ==
  /\ tails[q] % BLOCK_SIZE # 0 \/ at \notin {"idle", "off", "room"} =>
       BlockEnd(tails[q]) - heads[q] < IndexRange \div 2
  /\ at \in {"slot", "publish", "pool", "take", "free", "store", "room"} => tails[q] % BLOCK_SIZE = 0

\* The size invariant, for one producer.
LEMMA SizeFits ==
  SizeInv <=> \A q \in Producers : tails[q] - heads[q] <= IndexRange \div 2 /\ Fits(q, pc[q])
  BY DEF SizeInv, Fits, InBlock

\* A producer's step does not concern the claims.
LEMMA ProducerMoves ==
  ASSUME LocalType, NEW p \in Producers, NEW to \in ProducerPlaces, NEW l,
         pc' = [pc EXCEPT ![p] = to], loc' = [loc EXCEPT ![p] = l]
  PROVE  /\ LocalType' /\ pc'[p] = to /\ loc'[p] = l
         /\ \A c \in Consumers : pc'[c] = pc[c] /\ loc'[c] = loc[c] /\ Calm(c)
         /\ \A q \in Producers \ {p} : pc'[q] = pc[q] /\ loc'[q] = loc[q]
  <1>1. DOMAIN pc = Producers \cup Consumers /\ DOMAIN loc = Producers \cup Consumers BY DEF LocalType
  <1>2. pc'[p] = to /\ loc'[p] = l BY <1>1
  <1>3. \A t \in (Producers \cup Consumers) \ {p} : pc'[t] = pc[t] /\ loc'[t] = loc[t] BY <1>1
  <1>4. p \notin Consumers BY Constants
  <1>5. DOMAIN pc' = Producers \cup Consumers /\ DOMAIN loc' = Producers \cup Consumers
        /\ loc' = [t \in DOMAIN loc' |-> loc'[t]]
    BY <1>1
  <1>6. \A q \in Producers : pc'[q] \in ProducerPlaces BY <1>2, <1>3 DEF LocalType
  <1>7. ASSUME NEW c \in Consumers PROVE LocalAt(c)' /\ pc'[c] = pc[c] /\ loc'[c] = loc[c] /\ Calm(c)
    <2>1. LocalAt(c) BY DEF LocalType
    <2>2. pc'[c] = pc[c] /\ loc'[c] = loc[c] BY <1>3, <1>4
    <2> QED BY <2>1, <2>2 DEF LocalAt, Calm
  <1>8. LocalType' BY <1>5, <1>6, <1>7 DEF LocalType
  <1> QED BY <1>2, <1>3, <1>7, <1>8

\* A step of a producer that keeps its indices keeps the invariant, if it fits.
LEMMA ProducerCalm ==
  ASSUME QueueInv, NEW p \in Producers, NEW to \in ProducerPlaces, NEW l,
         pc' = [pc EXCEPT ![p] = to], loc' = [loc EXCEPT ![p] = l],
         UNCHANGED <<indices, tails, heads, claiming>>, Fits(p, to)
  PROVE  QueueInv'
  <1>1. IndexType /\ LocalType /\ ClaimInv /\ SizeInv /\ Wrapped BY DEF QueueInv
  <1>2. /\ LocalType' /\ pc'[p] = to
        /\ \A c \in Consumers : Calm(c)
        /\ \A q \in Producers \ {p} : pc'[q] = pc[q]
    BY <1>1, ProducerMoves
  <1>3. tails \in [Producers -> Nat] /\ heads \in [Producers -> Nat] BY <1>1 DEF IndexType
  <1>4. IndexType' /\ Wrapped' BY <1>1 DEF IndexType, Wrapped, indices, claiming
  <1>5. ClaimInv'
    <2>1. \A q \in Producers : tails'[q] >= tails[q] BY <1>3
    <2> QED BY <1>1, <1>2, <1>3, <2>1, CalmClaims
  <1>6. ASSUME NEW q \in Producers PROVE (tails[q] - heads[q] <= IndexRange \div 2 /\ Fits(q, pc[q]))'
    <2>1. tails[q] - heads[q] <= IndexRange \div 2 /\ Fits(q, pc[q]) BY <1>1, SizeFits
    <2>2. Fits(q, pc'[q]) BY <1>2, <2>1
    <2> QED BY <2>1, <2>2 DEF Fits
  <1>7. SizeInv' BY <1>6 DEF SizeInv, Fits, InBlock
  <1> QED BY <1>2, <1>4, <1>5, <1>7 DEF QueueInv

\* The place of the tail in its block, also after the index has gone around.
LEMMA TailSlot ==
  ASSUME QueueInv, NEW p \in Producers
  PROVE  Slot(tailIndex[p]) = tails[p] % BLOCK_SIZE
  <1>1. tailIndex[p] = tails[p] % IndexRange /\ tails[p] \in Int BY DEF QueueInv, Wrapped, IndexType
  <1>2. IndexRange \in Nat \ {0} /\ BLOCK_SIZE \in Nat \ {0} /\ IndexRange % BLOCK_SIZE = 0 BY Constants
  <1>3. (tails[p] % IndexRange) % BLOCK_SIZE = tails[p] % BLOCK_SIZE BY <1>1, <1>2, ModMod, Zenon
  <1> QED BY <1>1, <1>3 DEF Slot

\* A producer that finds room for a block at the tail.
LEMMA RoomFound ==
  ASSUME QueueInv, NEW p \in Producers, pc[p] = "room",
         circular_less_than(headIndex[p], Add(tailIndex[p], BLOCK_SIZE))
  PROVE  BlockEnd(tails[p]) - heads[p] < IndexRange \div 2
  <1> DEFINE H == heads[p]
             T == tails[p]
             R == IndexRange
             B == BLOCK_SIZE
  <1>1. IndexType /\ Accounts(p) /\ Wrapped /\ SizeInv BY DEF QueueInv, ClaimInv
  <1>2. H \in Int /\ T \in Int BY <1>1 DEF IndexType
  <1>3. T % B = 0 /\ T - H <= R \div 2 BY <1>1 DEF SizeInv
  <1>4. H <= T BY <1>1, GrantsFit
  <1>5. headIndex[p] = H % R /\ tailIndex[p] = T % R BY <1>1 DEF Wrapped
  <1>6. R \in Nat \ {0} /\ R % 2 = 0 /\ B \in Nat \ {0} /\ 2 * B <= R BY Constants
  <1>7. (((H % R) - (((T % R) + B) % R)) % R) > R \div 2 BY <1>5 DEF circular_less_than, Add
  <1>8. BlockEnd(T) = T + B BY <1>2, <1>3, <1>6 DEF BlockEnd
  <1> HIDE DEF H, T, R, B
  <1> DEFINE D == H - (T + B)
  <1>9. ((H % R) - (((T % R) + B) % R)) % R = D % R
    <2>1. B \in Int /\ T + B \in Int BY <1>2, <1>6
    <2>2. ((T % R) + B) % R = (T + B) % R BY <1>2, <1>6, <2>1, Difference, Zenon
    <2>3. ((H % R) - ((T + B) % R)) % R = (H - (T + B)) % R BY <1>2, <1>6, <2>1, Difference, Zenon
    <2> QED BY <2>2, <2>3
  <1>10. D \in -R .. -1
    <2>1. R \div 2 \in Nat /\ R = 2 * (R \div 2) BY <1>6
    <2> QED BY <1>2, <1>3, <1>4, <1>6, <2>1
  <1>11. (D % R) > R \div 2 BY <1>7, <1>9
  <1>12. -D < R \div 2
    <2>1. D \in Int /\ R \div 2 \in Nat BY <1>6, <1>10
    <2> HIDE DEF D
    <2>2. D \in -R .. R \div 2 BY <1>6, <1>10, <2>1
    <2> QED BY <1>6, <1>11, <2>1, <2>2, CircularLess
  <1> QED BY <1>2, <1>6, <1>8, <1>12 DEF T, H, R

\* The steps of an enqueue but for the one that stores the tail.
LEMMA EnqueuingInv ==
  ASSUME QueueInv, NEW p \in Producers, UNCHANGED <<tails, heads, claiming>>,
         \/ EnqueueBegin(p) \/ CheckRoom(p) \/ InsertEntry(p) \/ GrowIndex(p) \/ IndexFull(p)
         \/ PublishEntry(p) \/ LoadPool(p) \/ TakeFromPool(p) \/ TakeFree(p) \/ CreateBlock(p)
         \/ NoBlock(p) \/ StoreBlock(p) \/ WriteElement(p)
  PROVE  QueueInv'
  <1>1. LocalType /\ Fits(p, pc[p])
    <2>1. SizeInv BY DEF QueueInv
    <2> QED BY <2>1, SizeFits DEF QueueInv
  <1>2. p \in DOMAIN loc /\ p \in DOMAIN pc /\ pc[p] \in ProducerPlaces /\ loc = [t \in DOMAIN loc |-> loc[t]]
    BY <1>1 DEF LocalType
  <1>3. ASSUME UNCHANGED loc PROVE loc' = [loc EXCEPT ![p] = loc[p]] BY <1>2, <1>3
  <1>4. UNCHANGED indices
    BY DEF EnqueueBegin, CheckRoom, InsertEntry, GrowIndex, IndexFull, PublishEntry, LoadPool, TakeFromPool,
           TakeFree, CreateBlock, NoBlock, StoreBlock, WriteElement
  <1>5. ASSUME NEW to \in ProducerPlaces, NEW l, Fits(p, to),
               pc' = [pc EXCEPT ![p] = to], loc' = [loc EXCEPT ![p] = l]
        PROVE  QueueInv'
    BY <1>4, <1>5, ProducerCalm
  <1>6. {"idle", "room", "slot", "publish", "pool", "take", "free", "store", "write", "bump"} \subseteq ProducerPlaces
    BY DEF ProducerPlaces
  \* An enqueue that fails leaves its producer at the end of a block.
  <1>7. ASSUME pc[p] \in {"room", "slot", "free"}, Leave(p) PROVE QueueInv'
    <2>1. Fits(p, "idle") BY <1>1, <1>7 DEF Fits
    <2>2. pc' = [pc EXCEPT ![p] = "idle"] /\ loc' = [loc EXCEPT ![p] = ProducerLocals] BY <1>7 DEF Leave
    <2> HIDE DEF ProducerLocals
    <2> QED BY <1>5, <1>6, <2>1, <2>2
  \* A step within the block at the tail.
  <1>8. /\ pc[p] \in {"slot", "publish", "pool", "take", "free", "store"} =>
             \A to \in {"publish", "pool", "take", "free", "store", "write"} : Fits(p, to)
        /\ pc[p] = "write" => Fits(p, "bump")
    BY <1>1 DEF Fits
  <1>9. CASE EnqueueBegin(p)
    <2> DEFINE to == IF Slot(tailIndex[p]) = 0 THEN "room" ELSE "write"
    <2>1. pc[p] = "idle" /\ pc' = [pc EXCEPT ![p] = to] /\ UNCHANGED loc BY <1>9 DEF EnqueueBegin
    <2>2. Slot(tailIndex[p]) = tails[p] % BLOCK_SIZE BY TailSlot
    <2>3. Fits(p, to) /\ to \in ProducerPlaces BY <1>1, <1>6, <2>1, <2>2 DEF Fits
    <2> HIDE DEF to
    <2> QED BY <1>3, <1>5, <2>1, <2>3
  <1>10. CASE CheckRoom(p)
    <2>1. CASE circular_less_than(headIndex[p], Add(tailIndex[p], BLOCK_SIZE))
      <3>1. pc[p] = "room" /\ pc' = [pc EXCEPT ![p] = "slot"] /\ UNCHANGED loc BY <1>10, <2>1 DEF CheckRoom
      <3>2. BlockEnd(tails[p]) - heads[p] < IndexRange \div 2 BY <2>1, <3>1, RoomFound
      <3>3. Fits(p, "slot") BY <1>1, <3>1, <3>2 DEF Fits
      <3> QED BY <1>3, <1>5, <1>6, <3>1, <3>3
    <2>2. CASE ~circular_less_than(headIndex[p], Add(tailIndex[p], BLOCK_SIZE))
      <3>1. pc[p] = "room" /\ Leave(p) BY <1>10, <2>2 DEF CheckRoom
      <3> QED BY <1>7, <3>1
    <2> QED BY <2>1, <2>2
  <1>11. CASE InsertEntry(p)
    <2> DEFINE l == [loc[p] EXCEPT !.slot = NextEntry(p)]
    <2>1. pc[p] = "slot" /\ pc' = [pc EXCEPT ![p] = "publish"] /\ loc' = [loc EXCEPT ![p] = l]
      BY <1>11 DEF InsertEntry, Goto
    <2>2. Fits(p, "publish") BY <1>8, <2>1
    <2> HIDE DEF l
    <2> QED BY <1>5, <1>6, <2>1, <2>2
  <1>12. CASE GrowIndex(p)
    <2>1. pc[p] = "slot" /\ UNCHANGED <<pc, loc>> BY <1>12 DEF GrowIndex
    <2>2. CalmStep
      <3>1. ASSUME NEW c \in Consumers PROVE LocalAt(c)'
        BY <1>1, <2>1 DEF LocalAt, LocalType
      <3>2. LocalType' BY <1>1, <2>1, <3>1 DEF LocalType
      <3> QED BY <2>1, <3>2 DEF CalmStep, Calm
    <2> QED BY <1>4, <2>2, CalmInv
  <1>13. CASE IndexFull(p) BY <1>7, <1>13 DEF IndexFull
  <1>14. CASE PublishEntry(p) \/ LoadPool(p) \/ WriteElement(p)
    <2>1. UNCHANGED loc BY <1>14 DEF PublishEntry, LoadPool, WriteElement
    <2>2. PICK to \in {"pool", "free", "take", "bump"} :
            /\ pc' = [pc EXCEPT ![p] = to]
            /\ IF to = "bump" THEN pc[p] = "write" ELSE pc[p] \in {"publish", "pool"}
      BY <1>14 DEF PublishEntry, LoadPool, WriteElement, Goto
    <2>3. Fits(p, to) BY <1>8, <2>2
    <2>4. to \in ProducerPlaces BY <1>6
    <2> QED BY <1>3, <1>5, <2>1, <2>2, <2>3, <2>4
  <1>15. CASE TakeFromPool(p)
    <2>1. CASE initialBlockPoolIndex < PoolSize
      <3> DEFINE l == [loc[p] EXCEPT !.block = initialBlockPoolIndex + 1]
      <3>1. pc[p] = "take" /\ pc' = [pc EXCEPT ![p] = "store"] /\ loc' = [loc EXCEPT ![p] = l]
        BY <1>15, <2>1 DEF TakeFromPool
      <3>2. Fits(p, "store") BY <1>8, <3>1
      <3> HIDE DEF l
      <3> QED BY <1>5, <1>6, <3>1, <3>2
    <2>2. CASE ~(initialBlockPoolIndex < PoolSize)
      <3>1. pc[p] = "take" /\ pc' = [pc EXCEPT ![p] = "free"] /\ UNCHANGED loc
        BY <1>15, <2>2 DEF TakeFromPool
      <3>2. Fits(p, "free") BY <1>8, <3>1
      <3> QED BY <1>3, <1>5, <1>6, <3>1, <3>2
    <2> QED BY <2>1, <2>2
  <1>16. CASE TakeFree(p) \/ CreateBlock(p)
    <2>1. PICK b : loc' = [loc EXCEPT ![p].block = b] BY <1>16 DEF TakeFree, CreateBlock
    <2> DEFINE l == [loc[p] EXCEPT !.block = b]
    <2>2. pc[p] = "free" /\ pc' = [pc EXCEPT ![p] = "store"] /\ loc' = [loc EXCEPT ![p] = l]
      BY <1>16, <2>1 DEF TakeFree, CreateBlock, Goto
    <2>3. Fits(p, "store") BY <1>8, <2>2
    <2> HIDE DEF l
    <2> QED BY <1>5, <1>6, <2>2, <2>3
  <1>17. CASE NoBlock(p) BY <1>7, <1>17 DEF NoBlock
  <1>18. CASE StoreBlock(p)
    <2>1. pc[p] = "store" /\ pc' = [pc EXCEPT ![p] = "write"] /\ loc' = [loc EXCEPT ![p] = ProducerLocals]
      BY <1>18 DEF StoreBlock, Goto
    <2>2. Fits(p, "write") BY <1>8, <2>1
    <2> HIDE DEF ProducerLocals
    <2> QED BY <1>5, <1>6, <2>1, <2>2
  <1> QED BY <1>9, <1>10, <1>11, <1>12, <1>13, <1>14, <1>15, <1>16, <1>17, <1>18

\* The store of the tail.
LEMMA StoreTailInv ==
  ASSUME QueueInv, NEW p \in Producers, HStoreTail(p)
  PROVE  QueueInv'
  <1>1. IndexType /\ LocalType /\ ClaimInv /\ SizeInv /\ Wrapped BY DEF QueueInv
  <1>2. /\ pc[p] = "bump" /\ pc' = [pc EXCEPT ![p] = "idle"] /\ UNCHANGED loc
        /\ tailIndex' = [tailIndex EXCEPT ![p] = Add(@, 1)] /\ tails' = [tails EXCEPT ![p] = @ + 1]
        /\ UNCHANGED <<headIndex, dequeueOptimisticCount, dequeueOvercommit, heads, claiming>>
    BY DEF HStoreTail, StoreTail, Goto
  <1>3. /\ LocalType' /\ pc'[p] = "idle"
        /\ \A c \in Consumers : Calm(c)
        /\ \A q \in Producers \ {p} : pc'[q] = pc[q]
    <2>1. "idle" \in ProducerPlaces BY DEF ProducerPlaces
    <2>2. loc' = [loc EXCEPT ![p] = loc[p]] BY <1>1, <1>2 DEF LocalType
    <2>3. PICK l : loc' = [loc EXCEPT ![p] = l] BY <2>2
    <2>4. LocalType /\ pc' = [pc EXCEPT ![p] = "idle"] BY <1>1, <1>2
    <2> QED BY <2>1, <2>3, <2>4, ProducerMoves
  <1>4. tails \in [Producers -> Nat] /\ heads \in [Producers -> Nat] BY <1>1 DEF IndexType
  <1>5. /\ tails' \in [Producers -> Nat] /\ tails'[p] = tails[p] + 1
        /\ \A q \in Producers \ {p} : tails'[q] = tails[q]
    BY <1>2, <1>4
  <1>6. /\ tailIndex' \in [Producers -> Nat] /\ tailIndex'[p] = tails'[p] % IndexRange
        /\ \A q \in Producers \ {p} : tailIndex'[q] = tailIndex[q]
    <2> DEFINE T == tails[p]
    <2>1. T \in Int /\ 1 \in Int /\ T \in Nat BY <1>4
    <2>2. IndexRange \in Nat \ {0} BY Constants
    <2>3. tailIndex[p] = T % IndexRange BY <1>1 DEF Wrapped
    <2>7. tails'[p] = T + 1 BY <1>5
    <2> HIDE DEF T
    <2>4. ((T % IndexRange) + 1) % IndexRange = (T + 1) % IndexRange BY <2>1, <2>2, Difference, Zenon
    <2>5. Add(tailIndex[p], 1) = (T + 1) % IndexRange BY <2>3, <2>4 DEF Add
    <2>6. (T + 1) % IndexRange \in Nat BY <2>1, <2>2
    <2> QED BY <1>1, <1>2, <2>5, <2>6, <2>7 DEF IndexType
  <1>7. IndexType' /\ Wrapped'
    <2>1. IndexType' BY <1>1, <1>2, <1>5, <1>6 DEF IndexType, claiming
    <2>2. ASSUME NEW q \in Producers
          PROVE  /\ tailIndex'[q] = tails'[q] % IndexRange
                 /\ headIndex[q] = heads[q] % IndexRange
                 /\ dequeueOptimisticCount[q] = counts[q] % IndexRange
                 /\ dequeueOvercommit[q] = Cardinality(returned[q]) % IndexRange
      BY <1>1, <1>5, <1>6 DEF Wrapped
    <2> QED BY <1>2, <2>1, <2>2 DEF Wrapped, claiming
  <1>8. ClaimInv'
    <2>1. \A q \in Producers : tails'[q] >= tails[q] BY <1>4, <1>5
    <2>2. UNCHANGED <<heads, claiming>> BY <1>2
    <2> QED BY <1>1, <1>3, <1>5, <2>1, <2>2, CalmClaims
  <1>9. ASSUME NEW q \in Producers PROVE (tails[q] - heads[q] <= IndexRange \div 2 /\ Fits(q, pc[q]))'
    <2>1. tails[q] - heads[q] <= IndexRange \div 2 /\ Fits(q, pc[q]) BY <1>1, SizeFits
    <2>2. CASE q # p
      <3>1. tails'[q] = tails[q] /\ pc'[q] = pc[q] /\ heads'[q] = heads[q] BY <1>2, <1>3, <1>5, <2>2
      <3> QED BY <2>1, <3>1 DEF Fits
    <2>3. CASE q = p
      <3> DEFINE T == tails[p]
                 H == heads[p]
                 B == BLOCK_SIZE
      <3>1. BlockEnd(T) - H < IndexRange \div 2 BY <1>2, <2>1, <2>3 DEF Fits
      <3>2. T \in Nat /\ H \in Nat /\ B \in Nat \ {0} /\ IndexRange \div 2 \in Int BY <1>4, Constants
      <3>3. T + 1 <= BlockEnd(T) /\ BlockEnd(T) \in Int
        <4> HIDE DEF T
        <4>1. (T % B) \in 0 .. B - 1 BY <3>2
        <4> QED BY <3>2, <4>1 DEF BlockEnd
      <3>4. (T + 1) % B # 0 => BlockEnd(T + 1) = BlockEnd(T)
        <4> HIDE DEF T
        <4>1. (T % B) \in 0 .. B - 1 BY <3>2
        <4>2. ((T % B) + 1) % B = (T + 1) % B
          <5>1. T \in Int /\ 1 \in Int BY <3>2
          <5> HIDE DEF B
          <5> QED BY <3>2, <5>1, Difference, Zenon
        <4>3. ASSUME (T + 1) % B # 0 PROVE (T + 1) % B = (T % B) + 1
          <5>1. PICK x \in 0 .. B - 1 : x = T % B BY <4>1
          <5>2. (x + 1) % B = (T + 1) % B BY <4>2, <5>1
          <5>3. x + 1 # B
            <6>1. ASSUME x + 1 = B PROVE (x + 1) % B = 0 BY <3>2, <6>1
            <6> QED BY <4>3, <5>2, <6>1
          <5>4. x + 1 \in 0 .. B - 1 BY <3>2, <5>3
          <5>5. (x + 1) % B = x + 1 BY <3>2, <5>4, Wraps
          <5> QED BY <5>1, <5>2, <5>5
        <4>4. ASSUME (T + 1) % B # 0 PROVE BlockEnd(T + 1) = BlockEnd(T)
          <5>1. PICK x \in 0 .. B - 1 : x = T % B BY <4>1
          <5>2. (T + 1) % B = x + 1 BY <4>3, <4>4, <5>1
          <5>3. BlockEnd(T + 1) = ((T + 1) - (x + 1)) + B BY <5>2 DEF BlockEnd
          <5>4. BlockEnd(T) = (T - x) + B BY <5>1 DEF BlockEnd
          <5> QED BY <3>2, <5>3, <5>4
        <4> QED BY <4>4
      <3>5. tails'[p] = T + 1 /\ heads'[p] = H /\ pc'[p] = "idle" BY <1>2, <1>3, <1>5
      <3>6. (T + 1) - H <= IndexRange \div 2 BY <3>1, <3>2, <3>3
      <3> HIDE DEF T, H
      <3>7. Fits(p, pc[p])' BY <3>1, <3>4, <3>5 DEF Fits
      <3> QED BY <2>3, <3>5, <3>6, <3>7
    <2> QED BY <2>2, <2>3
  <1>10. SizeInv' BY <1>9 DEF SizeInv, Fits, InBlock
  <1> QED BY <1>3, <1>7, <1>8, <1>10 DEF QueueInv
------------------------------------------------------------------------------
(* The claims: the invariant and the theorem. *)

\* A queue that starts empty, with its indices anywhere.
LEMMA InitInv == HInit => QueueInv
  <1> SUFFICES ASSUME HInit PROVE QueueInv OBVIOUS
  <1>1. PICK work \in Workloads :
          /\ tailIndex = [p \in Producers |-> work.start] /\ headIndex = tailIndex
          /\ dequeueOptimisticCount = tailIndex /\ dequeueOvercommit = [p \in Producers |-> 0]
          /\ pc = [t \in Producers \cup Consumers |-> IF t \in Consumers \ work.active THEN "off" ELSE "idle"]
          /\ loc = [t \in Producers \cup Consumers |-> IF t \in Producers THEN ProducerLocals ELSE ConsumerLocals]
    BY DEF HInit, Init, ProducerBase
  <1>2. /\ tails = tailIndex /\ heads = tailIndex /\ counts = tailIndex
        /\ granted = [p \in Producers |-> 0 .. tailIndex[p] - 1] /\ returned = [p \in Producers |-> {}]
        /\ loaded = [c \in Consumers |-> 0] /\ claim = loaded
    BY DEF HInit
  <1> DEFINE s == work.start
  <1>3. s \in 0 .. IndexRange - 1 /\ s % BLOCK_SIZE = 0 /\ s \in Nat
    <2>1. s \in 0 .. IndexRange - 1 /\ s % BLOCK_SIZE = 0 /\ IndexRange \in Nat BY ImplicitQueueAssumption
    <2> QED BY <2>1
  <1> HIDE DEF s
  <1>4. \A p \in Producers : tailIndex[p] = s /\ tails[p] = s /\ heads[p] = s /\ counts[p] = s
          /\ headIndex[p] = s /\ dequeueOptimisticCount[p] = s /\ dequeueOvercommit[p] = 0
          /\ granted[p] = 0 .. s - 1 /\ returned[p] = {}
    BY <1>1, <1>2 DEF s
  <1>5. IndexType BY <1>1, <1>2, <1>3 DEF IndexType, s
  <1>6. /\ \A p \in Producers : pc[p] = "idle"
        /\ \A c \in Consumers : pc[c] \in {"idle", "off"} /\ loc[c] = ConsumerLocals
    <2>1. Producers \cap Consumers = {} BY Constants
    <2> QED BY <1>1, <2>1
  <1>7. LocalType
    <2>1. ASSUME NEW c \in Consumers PROVE LocalAt(c)
      <3>1. Scanned(loc[c]) BY <1>6, LocalsScanned
      <3> QED BY <1>6, <3>1 DEF LocalAt, ConsumerPlaces
    <2>2. DOMAIN pc = Producers \cup Consumers /\ DOMAIN loc = Producers \cup Consumers
          /\ loc = [t \in DOMAIN loc |-> loc[t]]
      BY <1>1
    <2> QED BY <1>6, <2>1, <2>2 DEF LocalType, ProducerPlaces
  <1>8. Wrapped
    <2>1. IndexRange \in Nat \ {0} BY Constants
    <2>2. s % IndexRange = s /\ 0 % IndexRange = 0 BY <1>3, <2>1
    <2>3. Cardinality({}) = 0 BY FS_EmptySet
    <2> QED BY <1>4, <2>2, <2>3 DEF Wrapped
  <1>9. ClaimInv
    <2>1. \A c \in Consumers : ClaimAt(c) BY <1>6 DEF ClaimAt, Open
    <2>2. ClaimsDiffer BY <1>6 DEF ClaimsDiffer, Open
    <2>3. ASSUME NEW p \in Producers PROVE Accounts(p)
      <3>1. Claims(p) = {} /\ Granted(p) = {} BY <1>6 DEF Claims, Granted
      <3>2. Cardinality({}) = 0 BY FS_EmptySet
      <3>3. Cardinality(0 .. s - 1) = s BY <1>3, FS_Interval
      <3>4. Covered(0 .. s - 1, {}, s)
        <4>1. {} \cap (0 .. s - 1) = {} OBVIOUS
        <4>2. s - Cardinality({} \cap (0 .. s - 1)) <= s BY <1>3, <3>2, <4>1
        <4> QED BY <1>3, <4>2 DEF Covered
      <3>5. s = s + 0 + 0 /\ s = s + 0 /\ (0 .. s - 1) \cap {} = {} /\ {} \subseteq 0 .. s - 1 BY <1>3
      <3>6. /\ counts[p] = s /\ heads[p] = s /\ tails[p] = s /\ granted[p] = 0 .. s - 1 /\ returned[p] = {}
        BY <1>4
      <3>7. /\ counts[p] = heads[p] + Cardinality(returned[p]) + Cardinality(Claims(p))
            /\ Cardinality(granted[p]) = heads[p] + Cardinality(Granted(p))
        BY <3>1, <3>2, <3>3, <3>5, <3>6
      <3>8. Covered(granted[p], returned[p], tails[p]) BY <3>4, <3>6
      <3> QED BY <3>5, <3>6, <3>7, <3>8 DEF Accounts
    <2> QED BY <2>1, <2>2, <2>3 DEF ClaimInv
  <1>10. SizeInv
    <2>1. s - s <= IndexRange \div 2 BY <1>3, Constants
    <2> QED BY <1>3, <1>4, <1>6, <2>1 DEF SizeInv, InBlock
  <1> QED BY <1>5, <1>7, <1>8, <1>9, <1>10 DEF QueueInv

\* The destructors come when no call is under way.
LEMMA DestroyInv ==
  ASSUME QueueInv, Destroy, UNCHANGED history
  PROVE  QueueInv'
  <1>1. IndexType /\ LocalType /\ ClaimInv /\ SizeInv /\ Wrapped BY DEF QueueInv
  <1>2. /\ \A t \in Producers \cup Consumers : pc[t] \in {"idle", "off"}
        /\ pc' = [t \in Producers \cup Consumers |-> "off"] /\ UNCHANGED <<indices, loc>>
    BY DEF Destroy, Quiescent
  <1>3. UNCHANGED <<tails, heads, claiming>> BY DEF history
  <1>4. ASSUME NEW c \in Consumers PROVE LocalAt(c)' /\ Calm(c)
    <2>1. LocalAt(c) /\ pc[c] \in {"idle", "off"} /\ pc'[c] = "off" /\ loc'[c] = loc[c] BY <1>1, <1>2 DEF LocalType
    <2> QED BY <2>1 DEF LocalAt, Calm, ClaimPlaces, ConsumerPlaces
  <1>5. LocalType'
    <2>1. \A p \in Producers : pc'[p] \in ProducerPlaces BY <1>2 DEF ProducerPlaces
    <2> QED BY <1>1, <1>2, <1>4, <2>1 DEF LocalType
  <1>6. IndexType' /\ Wrapped' BY <1>1, <1>2, <1>3 DEF IndexType, Wrapped, indices, claiming
  <1>7. ClaimInv'
    <2>1. tails \in [Producers -> Nat] /\ \A p \in Producers : tails'[p] >= tails[p] BY <1>1, <1>3 DEF IndexType
    <2> QED BY <1>1, <1>3, <1>4, <2>1, CalmClaims
  <1>8. SizeInv'
    <2>1. \A p \in Producers : pc[p] \in {"idle", "off"} /\ pc'[p] = "off" BY <1>2
    <2> QED BY <1>1, <1>3, <2>1 DEF SizeInv, InBlock
  <1> QED BY <1>5, <1>6, <1>7, <1>8 DEF QueueInv

\* Every step keeps the invariant.
LEMMA NextInv ==
  ASSUME QueueInv, Fresh, [HNext]_<<vars, history>>
  PROVE  QueueInv'
  <1>1. IndexType /\ LocalType BY DEF QueueInv
  <1>2. CASE UNCHANGED <<vars, history>>
    <2>1. CalmStep
      <3>1. UNCHANGED <<pc, loc>> BY <1>2 DEF vars
      <3>2. ASSUME NEW c \in Consumers PROVE LocalAt(c)' BY <1>1, <3>1 DEF LocalAt, LocalType
      <3>3. LocalType' BY <1>1, <3>1, <3>2 DEF LocalType
      <3> QED BY <3>1, <3>3 DEF CalmStep, Calm
    <2>2. UNCHANGED <<indices, tails, heads, claiming>> BY <1>2 DEF vars, history
    <2> QED BY <2>1, <2>2, CalmInv
  <1>3. CASE Destroy /\ UNCHANGED history BY <1>3, DestroyInv
  <1>4. ASSUME NEW p \in Producers, HInsertEntry(p) \/ HGrowIndex(p) \/ EnqueuingQuietly(p) PROVE QueueInv'
    <2>1. UNCHANGED <<tails, heads, claiming>> BY <1>4 DEF HInsertEntry, HGrowIndex, EnqueuingQuietly, history
    <2> QED BY <1>4, <2>1, EnqueuingInv DEF HInsertEntry, HGrowIndex, EnqueuingQuietly
  <1>5. ASSUME NEW p \in Producers, HStoreTail(p) PROVE QueueInv' BY <1>5, StoreTailInv
  <1>6. ASSUME NEW c \in Consumers, HSetEmpty(c) \/ DequeuingQuietly(c) PROVE QueueInv'
    <2>1. UNCHANGED <<tails, heads, claiming>> BY <1>6 DEF HSetEmpty, DequeuingQuietly, history
    <2>2. UNCHANGED indices
      BY <1>6 DEF HSetEmpty, DequeuingQuietly, SetEmpty, DequeueBegin, SizeTail, SizeHead, LoadTail, CheckCount,
           LoadHeader, LoadPosition, LoadKey, ReadElement, UnlinkBlock, ReleaseBlock, shared
    <2>3. CalmStep
      BY <1>1, <1>6, SizeTailCalm, DequeueBeginCalm, SizeHeadCalm, CheckCountCalm, HoldingCalm
         DEF HSetEmpty, DequeuingQuietly
    <2> QED BY <2>1, <2>2, <2>3, CalmInv
  <1>7. ASSUME NEW c \in Consumers,
               HLoadOvercommit(c) \/ HClaim(c) \/ HRecheck(c) \/ HGiveBack(c) \/ HTakeIndex(c)
        PROVE  QueueInv'
    BY <1>7, LoadOvercommitInv, ClaimStep, RecheckStep, GiveBackStep, TakeIndexStep
  <1> QED BY <1>2, <1>3, <1>4, <1>5, <1>6, <1>7 DEF HNext

\* The claims of a producer's elements are balanced (the dequeues of ImplicitProducer):
\* no index beyond the tail is ever taken, however many consumers compete.
THEOREM ClaimsStayBalanced == HSpec /\ []Fresh => []ClaimsBalanced
  <1>1. HInit => QueueInv BY InitInv
  <1>2. QueueInv /\ Fresh /\ [HNext]_<<vars, history>> => QueueInv' BY NextInv
  <1>3. QueueInv => ClaimsBalanced BY Balanced
  <1> QED BY <1>1, <1>2, <1>3, PTL DEF HSpec
------------------------------------------------------------------------------
(* Numbers that differ by rounds, and the numbers of blocks. *)

\* What is divided without a remainder.
LEMMA Multiple ==
  ASSUME NEW x \in Int, NEW m \in Nat \ {0}
  PROVE  x % m = 0 <=> \E k \in Int : x = m * k
  <1>1. PICK k \in Int : x = m * k + (x % m) BY Division
  <1>2. (x % m) \in Int BY Division
  <1>3. ASSUME NEW j \in Int, x = m * j PROVE x % m = 0
    <2>1. 0 \in 0 .. m - 1 OBVIOUS
    <2>2. (m * j + 0) % m = 0 BY <2>1, Remainder
    <2>3. m * j + 0 = x BY <1>3
    <2> QED BY <2>2, <2>3
  <1>4. ASSUME x % m = 0 PROVE x = m * k
    <2>1. PICK y \in Int : y = x % m BY <1>2
    <2>2. x = m * k + y /\ y = 0 BY <1>1, <1>4, <2>1
    <2> QED BY <2>2
  <1> QED BY <1>3, <1>4

\* Two numbers that differ by rounds.
LEMMA SameBy ==
  ASSUME NEW a \in Int, NEW b \in Int, NEW m \in Nat \ {0}
  PROVE  Same(a, b, m) <=> \E k \in Int : a = b + m * k
  <1>1. PICK x \in Int : x = a - b OBVIOUS
  <1>2. Same(a, b, m) <=> x % m = 0 BY <1>1 DEF Same
  <1>3. x % m = 0 <=> \E k \in Int : x = m * k BY Multiple
  <1>4. \A k \in Int : x = m * k <=> a = b + m * k BY <1>1
  <1> QED BY <1>2, <1>3, <1>4

\* It is an equivalence.
LEMMA SameIs ==
  ASSUME NEW m \in Nat \ {0}, NEW a \in Int, NEW b \in Int, NEW c \in Int
  PROVE  /\ Same(a, a, m)
         /\ Same(a, b, m) => Same(b, a, m)
         /\ Same(a, b, m) /\ Same(b, c, m) => Same(a, c, m)
  <1>1. Same(a, a, m)
    <2>1. 0 \in Int /\ a = a + m * 0 OBVIOUS
    <2> QED BY <2>1, SameBy
  <1>2. ASSUME Same(a, b, m) PROVE Same(b, a, m)
    <2>1. PICK k \in Int : a = b + m * k BY <1>2, SameBy
    <2>2. -k \in Int /\ b = a + m * (-k) BY <2>1
    <2> QED BY <2>2, SameBy
  <1>3. ASSUME Same(a, b, m), Same(b, c, m) PROVE Same(a, c, m)
    <2>1. PICK k \in Int : a = b + m * k BY <1>3, SameBy
    <2>2. PICK j \in Int : b = c + m * j BY <1>3, SameBy
    <2>3. k + j \in Int /\ a = c + m * (k + j) BY <2>1, <2>2
    <2> QED BY <2>3, SameBy
  <1> QED BY <1>1, <1>2, <1>3

\* Numbers may be added to both.
LEMMA SameAdd ==
  ASSUME NEW m \in Nat \ {0}, NEW a \in Int, NEW b \in Int, NEW c \in Int, Same(a, b, m)
  PROVE  Same(a + c, b + c, m) /\ Same(a - c, b - c, m)
  <1>1. (a + c) - (b + c) = a - b /\ (a - c) - (b - c) = a - b OBVIOUS
  <1> QED BY <1>1 DEF Same

\* A round does not matter.
LEMMA SameRound ==
  ASSUME NEW m \in Nat \ {0}, NEW a \in Int, NEW k \in Int
  PROVE  Same(a % m, a, m) /\ Same(a, a % m, m) /\ Same(a + m * k, a, m)
  <1>1. a + m * k \in Int OBVIOUS
  <1>2. Same(a + m * k, a, m) BY <1>1, SameBy
  <1>3. PICK j \in Int : a = m * j + (a % m) BY Division
  <1>4. (a % m) \in Int BY Division
  <1>5. PICK x \in Int : x = a % m BY <1>4
  <1>6. a = x + m * j BY <1>3, <1>5
  <1>7. Same(a, x, m) BY <1>6, SameBy
  <1>8. Same(x, a, m) BY <1>7, SameIs
  <1> QED BY <1>2, <1>5, <1>7, <1>8

\* Less than a round apart are only equal numbers, and a round apart also their neighbours.
LEMMA SameNear ==
  ASSUME NEW m \in Nat \ {0}, NEW a \in Int, NEW b \in Int, Same(a, b, m)
  PROVE  /\ a - b < m /\ b - a < m => a = b
         /\ a - b < 2 * m /\ b - a < m => a = b \/ a = b + m
  <1>1. PICK k \in Int : a = b + m * k BY SameBy
  <1>2. ASSUME a - b < m, b - a < m PROVE a = b
    <2>1. m * k < m /\ -m < m * k BY <1>1, <1>2
    <2>2. k < 1 /\ -1 < k BY <2>1
    <2>3. k = 0 BY <2>2
    <2> QED BY <1>1, <2>3
  <1>3. ASSUME a - b < 2 * m, b - a < m PROVE a = b \/ a = b + m
    <2>1. m * k < m * 2 /\ -m < m * k BY <1>1, <1>3
    <2>2. k < 2 /\ -1 < k BY <2>1
    <2>3. k = 0 \/ k = 1 BY <2>2
    <2> QED BY <1>1, <2>3
  <1> QED BY <1>2, <1>3

\* The same after smaller rounds.
LEMMA SameSmaller ==
  ASSUME NEW m \in Nat \ {0}, NEW d \in Nat \ {0}, m % d = 0, NEW a \in Int, NEW b \in Int, Same(a, b, m)
  PROVE  Same(a, b, d)
  <1>1. PICK k \in Int : a = b + m * k BY SameBy
  <1>2. PICK j \in Int : m = d * j
    <2>1. m \in Int OBVIOUS
    <2> QED BY <2>1, Multiple
  <1>3. j * k \in Int /\ a = b + d * (j * k) BY <1>1, <1>2
  <1> QED BY <1>3, SameBy

\* The sizes of the block indices: each is twice the one before, and divides the later ones.
LEMMA CapStep ==
  /\ Cap(1) = IMPLICIT_INITIAL_INDEX_SIZE
  /\ \A j \in Nat \ {0} : Cap(j) \in Nat \ {0, 1} /\ Cap(j + 1) = 2 * Cap(j)
  <1>1. IMPLICIT_INITIAL_INDEX_SIZE \in Nat \ {0, 1}
    <2>1. PICK i \in 1 .. 10 : IMPLICIT_INITIAL_INDEX_SIZE = 2 ^ i BY ImplicitQueueAssumption
    <2>2. i - 1 \in Nat /\ (i - 1) + 1 = i OBVIOUS
    <2>3. 2 ^ i = 2 * 2 ^ (i - 1) BY <2>2, PowerStep
    <2>4. 2 ^ (i - 1) \in Nat \ {0} BY <2>2, PowerGrows
    <2> QED BY <2>1, <2>3, <2>4
  <1>2. 2 ^ 0 = 1 BY PowerStep
  <1>3. Cap(1) = IMPLICIT_INITIAL_INDEX_SIZE BY <1>1, <1>2 DEF Cap
  <1>4. ASSUME NEW j \in Nat \ {0} PROVE Cap(j) \in Nat \ {0, 1} /\ Cap(j + 1) = 2 * Cap(j)
    <2>1. j - 1 \in Nat /\ (j - 1) + 1 = j /\ (j + 1) - 1 = j OBVIOUS
    <2>2. 2 ^ j = 2 * 2 ^ (j - 1) /\ 2 ^ (j - 1) \in Nat \ {0} BY <2>1, PowerStep, PowerGrows
    <2>3. PICK x \in Nat \ {0} : x = 2 ^ (j - 1) BY <2>2
    <2>4. Cap(j) = IMPLICIT_INITIAL_INDEX_SIZE * x BY <2>3 DEF Cap
    <2>5. Cap(j + 1) = IMPLICIT_INITIAL_INDEX_SIZE * (2 * x) BY <2>1, <2>2, <2>3 DEF Cap
    <2>6. IMPLICIT_INITIAL_INDEX_SIZE * x > 1 BY <1>1
    <2> QED BY <1>1, <2>4, <2>5, <2>6
  <1> QED BY <1>3, <1>4

\* A larger block index holds a smaller one several times.
LEMMA CapDivides ==
  ASSUME NEW j \in Nat \ {0}, NEW k \in Nat, j <= k
  PROVE  Cap(k) % Cap(j) = 0 /\ Cap(j) <= Cap(k) /\ Cap(j) \in Nat \ {0, 1} /\ Cap(k) \in Nat \ {0, 1}
  <1> DEFINE Good(i) == \E x \in Nat \ {0} : Cap(i) = Cap(j) * x
             Bad == {i \in Nat : j <= i /\ ~Good(i)}
  <1>1. Cap(j) \in Nat \ {0, 1} /\ Cap(k) \in Nat \ {0, 1} BY CapStep
  <1>2. Bad = {}
    <2> SUFFICES ASSUME Bad # {} PROVE FALSE OBVIOUS
    <2>1. PICK i \in Bad : \A y \in Bad : i <= y
      <3>1. Bad \in SUBSET Nat OBVIOUS
      <3> HIDE DEF Bad
      <3> QED BY <3>1, LeastNat
    <2>2. i \in Nat /\ j <= i /\ ~Good(i) OBVIOUS
    <2>3. i # j
      <3>1. Cap(j) = Cap(j) * 1 BY <1>1
      <3> QED BY <2>2, <3>1
    <2>4. i - 1 \in Nat \ {0} /\ j <= i - 1 /\ (i - 1) + 1 = i BY <2>2, <2>3
    <2>5. Good(i - 1)
      <3>1. ~(i - 1 \in Bad) BY <2>1, <2>2, <2>4
      <3> QED BY <2>4, <3>1
    <2>6. PICK x \in Nat \ {0} : Cap(i - 1) = Cap(j) * x BY <2>5
    <2>7. Cap(i) = 2 * Cap(i - 1) BY <2>4, CapStep
    <2>8. 2 * x \in Nat \ {0} /\ Cap(i) = Cap(j) * (2 * x) BY <1>1, <2>6, <2>7
    <2> QED BY <2>2, <2>8
  <1>3. PICK x \in Nat \ {0} : Cap(k) = Cap(j) * x BY <1>2
  <1>4. Cap(j) <= Cap(k) BY <1>1, <1>3
  <1>5. Cap(k) % Cap(j) = 0
    <2>1. Cap(k) \in Int /\ Cap(j) \in Nat \ {0} /\ x \in Int BY <1>1
    <2> QED BY <1>3, <2>1, Multiple
  <1> QED BY <1>1, <1>4, <1>5

\* The indices are of as many blocks, and they are rounds of every block index.
LEMMA RangeOfBlocks ==
  /\ BLOCK_SIZE \in Nat \ {0, 1} /\ MaxHeaders \in Nat \ {0}
  /\ \E q \in Nat \ {0} : IndexRange = BLOCK_SIZE * q /\ \A j \in 1 .. MaxHeaders : q % Cap(j) = 0
  <1>0. BLOCK_SIZE \in Nat \ {0, 1}
    <2>1. PICK i \in 1 .. 10 : BLOCK_SIZE = 2 ^ i BY ImplicitQueueAssumption
    <2>2. i - 1 \in Nat /\ (i - 1) + 1 = i OBVIOUS
    <2>3. 2 ^ i = 2 * 2 ^ (i - 1) BY <2>2, PowerStep
    <2>4. 2 ^ (i - 1) \in Nat \ {0} BY <2>2, PowerGrows
    <2> QED BY <2>1, <2>3, <2>4
  <1>1. IndexRange \in Nat \ {0} /\ IndexRange % BLOCK_SIZE = 0 BY Constants
  <1>2. PICK q \in Int : IndexRange = BLOCK_SIZE * q
    <2>1. IndexRange \in Int BY <1>1
    <2> QED BY <1>0, <1>1, <2>1, Multiple
  <1>3. q \in Nat \ {0} BY <1>0, <1>1, <1>2
  <1>4. MaxHeaders \in Nat \ {0} BY ImplicitQueueAssumption
  <1>5. ASSUME NEW j \in 1 .. MaxHeaders PROVE q % Cap(j) = 0
    <2>1. Cap(j) \in Nat \ {0, 1} BY <1>4, CapStep
    <2>2. PICK m \in Nat \ {0} : m = Cap(j) * BLOCK_SIZE BY <1>0, <2>1
    <2>3. IndexRange % m = 0 BY <2>2, ImplicitQueueAssumption DEF Cap
    <2>4. PICK k \in Int : IndexRange = m * k
      <3>1. IndexRange \in Int BY <1>1
      <3> QED BY <2>3, <3>1, Multiple
    <2>5. BLOCK_SIZE * q = BLOCK_SIZE * (Cap(j) * k) BY <1>0, <1>2, <2>1, <2>2, <2>4
    <2>6. q = Cap(j) * k
      <3>1. PICK y \in Int : y = Cap(j) * k BY <2>1
      <3> QED BY <1>0, <2>5, <3>1
    <2>7. q \in Int /\ Cap(j) \in Nat \ {0} BY <2>1
    <2> QED BY <2>6, <2>7, Multiple
  <1> QED BY <1>0, <1>2, <1>3, <1>4, <1>5

\* The number of an index' block.
LEMMA NumberOf ==
  ASSUME NEW i \in Nat
  PROVE  /\ Number(i) \in Nat /\ i = BLOCK_SIZE * Number(i) + (i % BLOCK_SIZE)
         /\ (i % BLOCK_SIZE) \in 0 .. BLOCK_SIZE - 1
         /\ Number(i) * BLOCK_SIZE <= i /\ i < Number(i) * BLOCK_SIZE + BLOCK_SIZE
         /\ \A n \in Int : n * BLOCK_SIZE <= i => n <= Number(i)
         /\ \A n \in Int : n * BLOCK_SIZE > i => n > Number(i)
  <1>1. BLOCK_SIZE \in Nat \ {0, 1} BY RangeOfBlocks
  <1>2. PICK b \in Nat \ {0, 1} : b = BLOCK_SIZE BY <1>1
  <1>3. i \div b \in Nat /\ i = b * (i \div b) + (i % b) /\ (i % b) \in 0 .. b - 1 OBVIOUS
  <1>4. PICK n \in Nat, x \in 0 .. b - 1 : n = i \div b /\ x = i % b BY <1>3
  <1>5. i = b * n + x BY <1>3, <1>4
  <1>6. n * b <= i /\ i < n * b + b BY <1>5
  <1>7. ASSUME NEW k \in Int, k * b <= i PROVE k <= n
    <2>1. k * b < (n + 1) * b BY <1>6, <1>7
    <2>2. k < n + 1 BY <2>1
    <2> QED BY <2>2
  <1>8. ASSUME NEW k \in Int, k * b > i PROVE k > n
    <2>1. n * b < k * b BY <1>6, <1>8
    <2> QED BY <2>1
  <1>9. Number(i) = n BY <1>2, <1>4 DEF Number
  <1> QED BY <1>2, <1>4, <1>5, <1>6, <1>7, <1>8, <1>9

\* The indices of a block.
LEMMA IndicesOf ==
  ASSUME NEW n \in Nat
  PROVE  /\ \A i \in Nat : i \in BlockIndices(n) <=> Number(i) = n
         /\ BlockIndices(n) \subseteq Nat
         /\ IsFiniteSet(BlockIndices(n)) /\ Cardinality(BlockIndices(n)) = BLOCK_SIZE
  <1>1. PICK b \in Nat \ {0, 1} : b = BLOCK_SIZE BY RangeOfBlocks
  <1>2. PICK x \in Nat : x = n * b OBVIOUS
  <1>3. BlockIndices(n) = x .. (x + b) - 1 BY <1>1, <1>2 DEF BlockIndices
  <1>4. ASSUME NEW i \in Nat PROVE i \in BlockIndices(n) <=> Number(i) = n
    <2>1. /\ Number(i) \in Nat /\ Number(i) * b <= i /\ i < Number(i) * b + b
          /\ \A k \in Int : k * b <= i => k <= Number(i)
          /\ \A k \in Int : k * b > i => k > Number(i)
      BY <1>1, NumberOf
    <2>2. ASSUME Number(i) = n PROVE i \in BlockIndices(n) BY <1>2, <1>3, <2>1, <2>2
    <2>3. ASSUME i \in BlockIndices(n) PROVE Number(i) = n
      <3>1. x <= i /\ i < x + b BY <1>3, <2>3
      <3>2. n <= Number(i) BY <1>2, <2>1, <3>1
      <3>3. n + 1 \in Int /\ (n + 1) * b = x + b BY <1>2
      <3>4. n + 1 > Number(i) BY <2>1, <3>1, <3>3
      <3> QED BY <2>1, <3>2, <3>4
    <2> QED BY <2>2, <2>3
  <1>5. IsFiniteSet(x .. (x + b) - 1) /\ Cardinality(x .. (x + b) - 1) = b
    <2>1. x \in Int /\ (x + b) - 1 \in Int OBVIOUS
    <2>2. ~(x > (x + b) - 1) /\ ((x + b) - 1) - x + 1 = b OBVIOUS
    <2> QED BY <2>1, <2>2, FS_Interval
  <1> QED BY <1>1, <1>3, <1>4, <1>5

\* A block's key is the first of its indices, wrapped around.
LEMMA KeyOf ==
  ASSUME NEW i \in Nat
  PROVE  /\ Base(i % IndexRange) = (Number(i) * BLOCK_SIZE) % IndexRange
         /\ (i % BLOCK_SIZE = 0 => i = Number(i) * BLOCK_SIZE /\ i % IndexRange # INVALID_BLOCK_BASE)
  <1>1. PICK b \in Nat \ {0, 1}, r \in Nat \ {0} : b = BLOCK_SIZE /\ r = IndexRange /\ r % b = 0
    BY RangeOfBlocks, Constants
  <1>2. PICK x \in Int, y \in Int : x = i % r /\ y = i % b /\ x \in 0 .. r - 1 /\ y \in 0 .. b - 1
    <2>1. i \in Int OBVIOUS
    <2>2. (i % r) \in 0 .. r - 1 /\ (i % b) \in 0 .. b - 1 BY <2>1, Division
    <2> QED BY <2>2
  <1>3. x % b = y
    <2>1. i \in Int OBVIOUS
    <2>2. r \in Nat \ {0} /\ b \in Nat \ {0} /\ r % b = 0 BY <1>1
    <2>3. (i % r) % b = i % b BY <2>1, <2>2, ModMod, Zenon
    <2> QED BY <1>2, <2>3, Zenon
  <1>4. y <= x
    <2>1. x % b <= x BY <1>2
    <2> QED BY <1>3, <2>1
  <1>5. PICK k \in Int : i = r * k + x
    <2>1. i \in Int OBVIOUS
    <2> QED BY <1>2, <2>1, Division
  <1>6. PICK n \in Nat : n = Number(i) /\ i = b * n + y BY <1>1, <1>2, NumberOf
  <1>7. n * b = r * k + (x - y)
    <2>1. PICK u \in Int, v \in Int : u = n * b /\ v = r * k OBVIOUS
    <2>2. b * n = u BY <2>1
    <2>3. i = u + y /\ i = v + x BY <1>5, <1>6, <2>1, <2>2
    <2> QED BY <2>1, <2>3
  <1>8. (n * b) % r = x - y
    <2>1. x - y \in 0 .. r - 1 BY <1>2, <1>4
    <2>2. (r * k + (x - y)) % r = x - y BY <2>1, Remainder
    <2> QED BY <1>7, <2>2
  <1>9. Base(i % IndexRange) = (Number(i) * BLOCK_SIZE) % IndexRange
    BY <1>1, <1>2, <1>3, <1>6, <1>8 DEF Base
  <1>10. ASSUME y = 0 PROVE i = Number(i) * BLOCK_SIZE /\ i % IndexRange # INVALID_BLOCK_BASE
    <2>1. i = n * b BY <1>6, <1>10
    <2>2. 1 % b = 1 BY <1>1
    <2>3. x # 1 BY <1>3, <1>10, <2>2
    <2> QED BY <1>1, <1>2, <1>6, <2>1, <2>3 DEF INVALID_BLOCK_BASE
  <1> QED BY <1>1, <1>2, <1>9, <1>10

\* The distance of two keys is that of the blocks' numbers, but for rounds of all indices.
LEMMA OffsetOf ==
  ASSUME NEW n \in Nat, NEW m \in Nat, NEW q \in Nat \ {0}, IndexRange = BLOCK_SIZE * q
  PROVE  \E k \in Int : Add((n * BLOCK_SIZE) % IndexRange, -((m * BLOCK_SIZE) % IndexRange)) \div BLOCK_SIZE
                          = (n - m) + q * k
  <1>1. PICK b \in Nat \ {0, 1}, r \in Nat \ {0} : b = BLOCK_SIZE /\ r = IndexRange
    BY RangeOfBlocks, Constants
  <1>2. r = b * q BY <1>1
  <1>3. PICK x \in Int, y \in Int : x = n * b /\ y = m * b OBVIOUS
  <1>4. ((x % r) + (-(y % r))) % r = (x - y) % r BY Difference
  <1>5. PICK d \in Int : d = x - y OBVIOUS
  <1>6. PICK j \in Int : d = r * j + (d % r) BY Division
  <1>7. PICK z \in Int : z = d % r /\ z \in 0 .. r - 1
    <2>1. (d % r) \in 0 .. r - 1 BY Division
    <2> QED BY <2>1
  <1>8. z = b * ((n - m) + q * (-j)) BY <1>2, <1>3, <1>5, <1>6, <1>7
  <1>9. PICK w \in Int : w = (n - m) + q * (-j) OBVIOUS
  <1>10. z = b * w /\ w >= 0 BY <1>7, <1>8, <1>9
  <1>11. z \div b = w BY <1>10
  <1>12. Add((n * BLOCK_SIZE) % IndexRange, -((m * BLOCK_SIZE) % IndexRange)) = z
    BY <1>1, <1>3, <1>4, <1>5, <1>7 DEF Add
  <1> QED
    <2>1. -j \in Int OBVIOUS
    <2> QED BY <1>1, <1>9, <1>11, <1>12, <2>1
------------------------------------------------------------------------------
(* The block index. *)

\* The parts of a producer's block indices.
LEMMA Parts ==
  ASSUME IndexTypes, NEW p \in Producers, ShapeAt(p)
  PROVE  /\ Len(header[p]) \in 1 .. MaxHeaders /\ DOMAIN header[p] = 1 .. Len(header[p])
         /\ Len(entry[p]) = Cap(Len(header[p])) /\ Len(entry[p]) \in Nat \ {0, 1}
         /\ DOMAIN entry[p] = 1 .. Len(entry[p]) /\ DOMAIN num[p] = DOMAIN entry[p]
         /\ DOMAIN shift[p] = DOMAIN header[p]
         /\ \A e \in DOMAIN entry[p] : entry[p][e] \in [key : Nat, value : Blocks \cup {Null}] /\ num[p][e] \in Int
         /\ \A j \in DOMAIN header[p] : /\ header[p][j] \in [tail : Nat, index : Seq(Nat)]
                                        /\ shift[p][j] \in Int
                                        /\ Cap(j) \in Nat \ {0, 1} /\ Cap(j) <= Len(entry[p])
                                        /\ Len(entry[p]) % Cap(j) = 0
  <1>1. /\ header[p] \in Seq([tail : Nat, index : Seq(Nat)])
        /\ entry[p] \in Seq([key : Nat, value : Blocks \cup {Null}])
        /\ num[p] \in Seq(Int) /\ shift[p] \in Seq(Int)
    BY DEF IndexTypes
  <1>2. /\ Len(header[p]) \in 1 .. MaxHeaders /\ Len(entry[p]) = Cap(Len(header[p]))
        /\ Len(num[p]) = Len(entry[p]) /\ Len(shift[p]) = Len(header[p])
    BY DEF ShapeAt
  <1>3. /\ DOMAIN header[p] = 1 .. Len(header[p]) /\ DOMAIN entry[p] = 1 .. Len(entry[p])
        /\ DOMAIN num[p] = 1 .. Len(num[p]) /\ DOMAIN shift[p] = 1 .. Len(shift[p])
    BY <1>1, LenProperties
  <1>4. Len(header[p]) \in Nat \ {0} BY <1>2
  <1>5. Len(entry[p]) \in Nat \ {0, 1} BY <1>2, <1>4, CapStep
  <1>6. ASSUME NEW e \in DOMAIN entry[p]
        PROVE  entry[p][e] \in [key : Nat, value : Blocks \cup {Null}] /\ num[p][e] \in Int
    BY <1>1, <1>2, <1>3, ElementOfSeq
  <1>7. ASSUME NEW j \in DOMAIN header[p]
        PROVE  header[p][j] \in [tail : Nat, index : Seq(Nat)] /\ shift[p][j] \in Int
    BY <1>1, <1>2, <1>3, ElementOfSeq
  <1>8. ASSUME NEW j \in DOMAIN header[p]
        PROVE  /\ Cap(j) \in Nat \ {0, 1} /\ Cap(j) <= Len(entry[p])
               /\ Len(entry[p]) % Cap(j) = 0
    <2>1. j \in Nat \ {0} /\ Len(header[p]) \in Nat /\ j <= Len(header[p]) BY <1>3, <1>4
    <2> QED BY <1>2, <2>1, CapDivides
  <1> QED BY <1>2, <1>3, <1>5, <1>6, <1>7, <1>8

\* The entry at a position of a block index.
LEMMA EntryOf ==
  ASSUME IndexTypes, NEW p \in Producers, ShapeAt(p), NEW j \in DOMAIN header[p], HeaderAt(p, j),
         NEW pos \in 0 .. Cap(j) - 1
  PROVE  /\ header[p][j].index[pos + 1] \in 1 .. Cap(j)
         /\ header[p][j].index[pos + 1] \in DOMAIN entry[p]
         /\ Same(num[p][header[p][j].index[pos + 1]] + shift[p][j], pos, Cap(j))
         /\ Capacity(header[p][j]) = Cap(j) /\ header[p][j].tail \in 0 .. Cap(j) - 1
  <1>1. Cap(j) \in Nat \ {0, 1} /\ Cap(j) <= Len(entry[p]) /\ DOMAIN entry[p] = 1 .. Len(entry[p])
        /\ Len(entry[p]) \in Nat /\ header[p][j] \in [tail : Nat, index : Seq(Nat)]
    BY Parts
  <1>2. /\ header[p][j].index \in [1 .. Cap(j) -> 1 .. Cap(j)] /\ header[p][j].tail \in 0 .. Cap(j) - 1
        /\ \A i \in 1 .. Cap(j) : Same(num[p][header[p][j].index[i]] + shift[p][j], i - 1, Cap(j))
    BY DEF HeaderAt
  <1>3. pos + 1 \in 1 .. Cap(j) /\ (pos + 1) - 1 = pos BY <1>1
  <1>4. header[p][j].index[pos + 1] \in 1 .. Cap(j) BY <1>2, <1>3
  <1>5. Same(num[p][header[p][j].index[pos + 1]] + shift[p][j], pos, Cap(j)) BY <1>2, <1>3
  <1>6. Len(header[p][j].index) = Cap(j)
    <2>1. header[p][j].index \in Seq(Nat) BY <1>1
    <2>2. DOMAIN header[p][j].index = 1 .. Len(header[p][j].index) /\ Len(header[p][j].index) \in Nat
      BY <2>1, LenProperties
    <2>3. DOMAIN header[p][j].index = 1 .. Cap(j) BY <1>2
    <2> QED BY <1>1, <2>2, <2>3
  <1> QED BY <1>1, <1>2, <1>4, <1>5, <1>6 DEF Capacity

\* Where the entry of a block's number is.
LEMMA PositionOf ==
  ASSUME IndexTypes, NEW p \in Producers, ShapeAt(p), NEW j \in DOMAIN header[p], HeaderAt(p, j),
         NEW e \in 1 .. Cap(j), NEW n \in Int, Same(num[p][e], n, Cap(j)),
         NEW pos \in 0 .. Cap(j) - 1, Same(pos, n + shift[p][j], Cap(j))
  PROVE  header[p][j].index[pos + 1] = e
  <1>1. /\ Cap(j) \in Nat \ {0} /\ shift[p][j] \in Int /\ Cap(j) <= Len(entry[p])
        /\ DOMAIN entry[p] = 1 .. Len(entry[p]) /\ Len(entry[p]) \in Nat
    BY Parts
  <1>2. PICK i \in 1 .. Cap(j) : header[p][j].index[i] = e BY DEF HeaderAt
  <1>3. Same(num[p][e] + shift[p][j], i - 1, Cap(j)) BY <1>2 DEF HeaderAt
  <1>4. num[p][e] \in Int
    <2>1. e \in DOMAIN entry[p] BY <1>1
    <2> QED BY <2>1, Parts
  <1>5. PICK a \in Int, b \in Int, m \in Nat \ {0} : a = num[p][e] + shift[p][j] /\ b = n + shift[p][j] /\ m = Cap(j)
    BY <1>1, <1>4
  <1>6. Same(a, b, m) BY <1>1, <1>4, <1>5, SameAdd
  <1>7. i - 1 \in Int /\ pos \in Int BY <1>1
  <1>8. Same(i - 1, a, m)
    <2>1. Same(a, i - 1, m) BY <1>3, <1>5
    <2> QED BY <1>7, <2>1, SameIs
  <1>9. Same(b, pos, m)
    <2>1. Same(pos, b, m) BY <1>5
    <2> QED BY <1>7, <2>1, SameIs
  <1>10. Same(i - 1, b, m) BY <1>6, <1>7, <1>8, SameIs
  <1>11. Same(i - 1, pos, m) BY <1>7, <1>9, <1>10, SameIs
  <1>12. i - 1 = pos
    <2>1. (i - 1) - pos < m /\ pos - (i - 1) < m BY <1>1, <1>5
    <2> QED BY <1>7, <1>11, <2>1, SameNear
  <1>13. i = pos + 1 BY <1>12
  <1> QED BY <1>2, <1>13

\* Numbers of different entries are not rounds apart.
LEMMA OneEntry ==
  ASSUME IndexTypes, NEW p \in Producers, ShapeAt(p), HeaderAt(p, Len(header[p])),
         NEW e \in DOMAIN entry[p], NEW f \in DOMAIN entry[p], Same(num[p][e], num[p][f], Len(entry[p]))
  PROVE  e = f
  <1>1. PICK j \in DOMAIN header[p] : j = Len(header[p]) BY Parts
  <1>2. Cap(j) = Len(entry[p]) /\ Cap(j) \in Nat \ {0} /\ DOMAIN entry[p] = 1 .. Cap(j)
        /\ num[p][e] \in Int /\ num[p][f] \in Int /\ shift[p][j] \in Int
    BY <1>1, Parts
  <1>3. HeaderAt(p, j) BY <1>1
  <1>4. PICK i \in 1 .. Cap(j) : header[p][j].index[i] = f BY <1>2, <1>3 DEF HeaderAt
  <1>5. Same(num[p][f] + shift[p][j], i - 1, Cap(j)) BY <1>3, <1>4 DEF HeaderAt
  <1>6. PICK pos \in 0 .. Cap(j) - 1 : pos = i - 1 BY <1>2
  <1>7. num[p][f] + shift[p][j] \in Int /\ pos \in Int BY <1>2
  <1>8. Same(pos, num[p][f] + shift[p][j], Cap(j)) BY <1>2, <1>5, <1>6, <1>7, SameIs
  <1>9. Same(num[p][f], num[p][f], Cap(j)) BY <1>2, SameIs
  <1>10. header[p][j].index[pos + 1] = f BY <1>2, <1>3, <1>8, <1>9, PositionOf
  <1>11. header[p][j].index[pos + 1] = e BY <1>2, <1>3, <1>8, PositionOf
  <1> QED BY <1>10, <1>11

\* From a valid entry the others are found by their distance.
LEMMA LookupFinds ==
  ASSUME IndexTypes, NEW p \in Producers, IndexAt(p), NEW j \in DOMAIN header[p],
         NEW tail \in 0 .. Cap(j) - 1, Valid(p, header[p][j].index[tail + 1]),
         NEW i \in Nat, NEW e \in 1 .. Cap(j), num[p][e] = Number(i)
  PROVE  Lookup(p, header[p][j], tail, i % IndexRange) = e
  <1>1. ShapeAt(p) /\ HeaderAt(p, j) BY DEF IndexAt
  <1>2. PICK f \in DOMAIN entry[p] : f = header[p][j].index[tail + 1] BY <1>1, EntryOf
  <1>3. /\ Capacity(header[p][j]) = Cap(j) /\ Cap(j) \in Nat \ {0, 1}
        /\ Same(num[p][f] + shift[p][j], tail, Cap(j)) /\ shift[p][j] \in Int /\ j \in 1 .. MaxHeaders
    <2>1. Len(header[p]) \in 1 .. MaxHeaders /\ DOMAIN header[p] = 1 .. Len(header[p]) /\ MaxHeaders \in Nat
      BY <1>1, Parts, RangeOfBlocks
    <2>2. j \in 1 .. MaxHeaders BY <2>1
    <2> QED BY <1>1, <1>2, <2>2, EntryOf, Parts
  <1>4. PICK m \in Nat : m = num[p][f] /\ entry[p][f].key = (m * BLOCK_SIZE) % IndexRange
    <2>1. EntryAt(p, f) /\ Valid(p, f) BY <1>2 DEF IndexAt
    <2>2. num[p][f] >= 0 /\ entry[p][f].key = (num[p][f] * BLOCK_SIZE) % IndexRange BY <2>1 DEF EntryAt
    <2>3. num[p][f] \in Int BY <1>1, Parts
    <2> QED BY <2>2, <2>3
  <1>5. PICK n \in Nat : n = Number(i) BY NumberOf
  <1>6. Base(i % IndexRange) = (n * BLOCK_SIZE) % IndexRange BY <1>5, KeyOf
  <1>7. PICK q \in Nat \ {0} : IndexRange = BLOCK_SIZE * q /\ q % Cap(j) = 0 BY <1>3, RangeOfBlocks
  <1>8. PICK k \in Int : Add((n * BLOCK_SIZE) % IndexRange, -((m * BLOCK_SIZE) % IndexRange)) \div BLOCK_SIZE
                           = (n - m) + q * k
    BY <1>7, OffsetOf
  <1>9. PICK c \in Nat \ {0}, s \in Int : c = Cap(j) /\ s = shift[p][j] BY <1>3
  <1>10. PICK x \in Int : x = tail + ((n - m) + q * k) BY <1>3
  <1>11. Lookup(p, header[p][j], tail, i % IndexRange) = header[p][j].index[(x % c) + 1]
    BY <1>2, <1>3, <1>4, <1>6, <1>8, <1>9, <1>10 DEF Lookup
  <1>12. Same(x, n + s, c)
    <2>1. tail \in Int /\ m + s \in Int /\ n + s \in Int /\ n - m \in Int /\ tail + (n - m) \in Int BY <1>3
    <2>2. Same(tail, m + s, c)
      <3>1. Same(m + s, tail, c) BY <1>3, <1>4, <1>9
      <3> QED BY <2>1, <3>1, SameIs
    <2>3. Same(tail + (n - m), n + s, c)
      <3>1. Same(tail + (n - m), (m + s) + (n - m), c) BY <2>1, <2>2, SameAdd
      <3>2. (m + s) + (n - m) = n + s OBVIOUS
      <3> QED BY <3>1, <3>2
    <2>4. Same(x, tail + (n - m), c)
      <3>1. PICK u \in Int : q = c * u
        <4>1. q \in Int BY <1>7
        <4> QED BY <1>7, <1>9, <4>1, Multiple
      <3>2. u * k \in Int /\ x = (tail + (n - m)) + c * (u * k) BY <1>3, <1>10, <3>1
      <3> QED BY <2>1, <3>2, SameRound
    <2> QED BY <2>1, <2>3, <2>4, SameIs
  <1>13. PICK pos \in 0 .. Cap(j) - 1 : pos = x % c BY <1>9, Division
  <1>14. Same(pos, n + s, c)
    <2>1. Same(pos, x, c) BY <1>13, SameRound
    <2>2. n + s \in Int /\ pos \in Int BY <1>3
    <2> QED BY <1>12, <2>1, <2>2, SameIs
  <1>15. Same(num[p][e], n, Cap(j))
    <2>1. n \in Int OBVIOUS
    <2> QED BY <1>5, <1>9, <2>1, SameIs
  <1>16. header[p][j].index[pos + 1] = e
    <2>1. n \in Int OBVIOUS
    <2> QED BY <1>1, <1>9, <1>14, <1>15, <2>1, PositionOf
  <1> QED BY <1>11, <1>13, <1>16

\* The number of the entry at a position.
LEMMA NumberAt ==
  ASSUME IndexTypes, NEW p \in Producers, ShapeAt(p), NEW j \in DOMAIN header[p], HeaderAt(p, j),
         NEW pos \in 0 .. Cap(j) - 1, NEW n \in Int, Same(n + shift[p][j], pos, Cap(j))
  PROVE  Same(num[p][header[p][j].index[pos + 1]], n, Cap(j))
  <1>1. PICK e \in DOMAIN entry[p] : e = header[p][j].index[pos + 1] BY EntryOf
  <1>2. Same(num[p][e] + shift[p][j], pos, Cap(j)) BY <1>1, EntryOf
  <1>3. num[p][e] \in Int /\ shift[p][j] \in Int /\ Cap(j) \in Nat \ {0} BY Parts
  <1>4. PICK a \in Int, s \in Int, c \in Nat \ {0} : a = num[p][e] /\ s = shift[p][j] /\ c = Cap(j) BY <1>3
  <1>5. a + s \in Int /\ n + s \in Int /\ pos \in Int BY <1>4
  <1>6. Same(a + s, pos, c) /\ Same(n + s, pos, c) BY <1>2, <1>4
  <1>7. Same(pos, n + s, c) BY <1>5, <1>6, SameIs
  <1>8. Same(a + s, n + s, c) BY <1>5, <1>6, <1>7, SameIs
  <1>9. Same((a + s) - s, (n + s) - s, c) BY <1>5, <1>8, SameAdd
  <1>10. (a + s) - s = a /\ (n + s) - s = n OBVIOUS
  <1> QED BY <1>1, <1>4, <1>9, <1>10

\* The last block that has elements is at the tail, or before it.
LEMMA LastBlock ==
  ASSUME NEW p \in Producers, tails[p] \in Nat
  PROVE  /\ Number(tails[p]) \in Nat
         /\ Filled(p) \in {Number(tails[p]) - 1, Number(tails[p])} /\ Filled(p) \in Int
         /\ Published(p) \in {Filled(p), Number(tails[p])} /\ Published(p) \in Int /\ Filled(p) <= Published(p)
         /\ tails[p] > 0 => Filled(p) >= 0
  <1>1. PICK n \in Nat : n = Number(tails[p]) BY NumberOf
  <1>2. tails[p] = BLOCK_SIZE * n + (tails[p] % BLOCK_SIZE) BY <1>1, NumberOf
  <1>3. ASSUME tails[p] > 0, tails[p] % BLOCK_SIZE = 0 PROVE n > 0
    <2>1. PICK t \in Nat, b \in Nat : t = tails[p] /\ b = BLOCK_SIZE BY RangeOfBlocks
    <2>2. t = b * n + 0 /\ t > 0 BY <1>2, <1>3, <2>1
    <2> QED BY <2>2
  <1> QED BY <1>1, <1>3 DEF Filled, Published

\* The entry at the tail is the one of the block that was published last.
LEMMA TailEntry ==
  ASSUME IndexTypes, NEW p \in Producers, IndexAt(p), tails[p] \in Nat
  PROVE  LET e == Current(p).index[Current(p).tail + 1]
         IN  e \in DOMAIN entry[p] /\ num[p][e] = Published(p) /\ (tails[p] > 0 => Valid(p, e))
  <1>1. PICK j \in DOMAIN header[p] : j = Len(header[p]) BY Parts DEF IndexAt
  <1>2. ShapeAt(p) /\ HeaderAt(p, j) BY <1>1 DEF IndexAt
  <1>3. PICK pos \in 0 .. Cap(j) - 1 : pos = header[p][j].tail BY <1>2 DEF HeaderAt
  <1>4. PICK e \in DOMAIN entry[p] : e = header[p][j].index[pos + 1] BY <1>2, EntryOf
  <1>5. Published(p) \in Int /\ Number(tails[p]) \in Nat
        /\ Published(p) >= Number(tails[p]) - 1 /\ Published(p) <= Number(tails[p]) /\ Filled(p) <= Published(p)
        /\ (tails[p] > 0 => Filled(p) >= 0) /\ Filled(p) \in Int
    <2>1. /\ Published(p) \in Int /\ Number(tails[p]) \in Nat /\ Filled(p) \in Int
          /\ Filled(p) \in {Number(tails[p]) - 1, Number(tails[p])} /\ Published(p) \in {Filled(p), Number(tails[p])}
          /\ (tails[p] > 0 => Filled(p) >= 0)
      BY LastBlock
    <2> QED BY <2>1
  <1>6. Cap(j) = Len(entry[p]) /\ Cap(j) \in Nat \ {0, 1} /\ num[p][e] \in Int /\ shift[p][j] \in Int
    BY <1>1, <1>2, Parts
  <1>7. Same(Published(p) + shift[p][j], pos, Cap(j)) BY <1>1, <1>2, <1>3, <1>6 DEF ShapeAt, Current, blockIndex
  <1>8. Same(num[p][e], Published(p), Cap(j)) BY <1>2, <1>4, <1>5, <1>7, NumberAt
  <1>9. num[p][e] \in (Published(p) - Cap(j)) + 1 .. Number(tails[p]) /\ EntryAt(p, e) BY <1>6 DEF IndexAt, EntryAt
  <1>10. num[p][e] = Published(p)
    <2> DEFINE a == num[p][e]
               b == Published(p)
               c == Cap(j)
               t == Number(tails[p])
    <2>1. a \in Int /\ b \in Int /\ c \in Nat \ {0, 1} /\ t \in Int BY <1>5, <1>6
    <2>2. b >= t - 1 /\ a \in (b - c) + 1 .. t BY <1>5, <1>9
    <2> HIDE DEF a, b, c, t
    <2>3. a - b < c /\ b - a < c BY <2>1, <2>2
    <2>4. num[p][e] - Published(p) < Cap(j) /\ Published(p) - num[p][e] < Cap(j) BY <2>3 DEF a, b, c
    <2> QED BY <1>5, <1>6, <1>8, <2>4, SameNear
  <1>11. ASSUME tails[p] > 0 PROVE Valid(p, e) BY <1>5, <1>9, <1>10, <1>11 DEF EntryAt
  <1> QED BY <1>1, <1>3, <1>4, <1>10, <1>11 DEF Current, blockIndex

\* The entry that a consumer has found is the one of its index.
LEMMA Found == QueueInv /\ IndexInv => EntryFound
  <1> SUFFICES ASSUME QueueInv, IndexInv, NEW c \in Consumers, pc[c] = "read"
               PROVE  LET e == entry[loc[c].ptr][loc[c].entry]
                      IN  e.key = Base(loc[c].index) /\ e.value # Null
    BY DEF EntryFound
  <1>1. PICK p \in Producers : p = loc[c].ptr BY Local DEF QueueInv
  <1>2. PICK i \in Nat : i = taken[c] BY DEF IndexInv, IndexTypes
  <1>3. /\ loc[c].index = i % IndexRange /\ loc[c].entry \in DOMAIN entry[p]
        /\ num[p][loc[c].entry] = Number(i) /\ entry[p][loc[c].entry].value # Null
    BY <1>1, <1>2 DEF IndexInv, HeldAt, LeadsTo
  <1>4. EntryAt(p, loc[c].entry) BY <1>3 DEF IndexInv, IndexAt
  <1>5. entry[p][loc[c].entry].key = (Number(i) * BLOCK_SIZE) % IndexRange BY <1>3, <1>4 DEF EntryAt
  <1>6. Base(loc[c].index) = (Number(i) * BLOCK_SIZE) % IndexRange BY <1>3, KeyOf
  <1> QED BY <1>1, <1>3, <1>5, <1>6
------------------------------------------------------------------------------
(* What the steps leave alone. *)

\* A producer's block index, while its places mean the same.
LEMMA IndexKept ==
  ASSUME NEW p \in Producers, IndexAt(p), heads[p] \in Nat, heads'[p] \in Nat, heads'[p] >= heads[p],
         header'[p] = header[p], entry'[p] = entry[p], num'[p] = num[p], shift'[p] = shift[p],
         emptied'[p] = emptied[p], tails'[p] = tails[p],
         Published(p)' = Published(p), \A n \in Int : Stored(p, n)' = Stored(p, n), SlotAt(p)',
         \A e \in DOMAIN entry[p] : num[p][e] \in Int,
         \A e \in DOMAIN entry[p] : entry[p][e].value # Null =>
           elementsCompletelyDequeued'[entry[p][e].value] = elementsCompletelyDequeued[entry[p][e].value]
  PROVE  IndexAt(p)'
  <1>1. Filled(p)' = Filled(p) BY DEF Filled
  <1>2. ShapeAt(p)' BY DEF IndexAt, ShapeAt, Current, blockIndex
  <1>3. ASSUME NEW j \in DOMAIN header[p] PROVE HeaderAt(p, j)'
    <2>1. HeaderAt(p, j) BY DEF IndexAt
    <2> QED BY <2>1 DEF HeaderAt, Valid
  <1>4. \A e \in DOMAIN entry[p] : EntryAt(p, e)' BY <1>1 DEF IndexAt, EntryAt, Valid
  <1>5. KeptAt(p)' BY DEF IndexAt, KeptAt
  <1>6. emptied'[p] \subseteq 0 .. heads'[p] - 1 BY DEF IndexAt
  <1> QED BY <1>2, <1>3, <1>4, <1>5, <1>6 DEF IndexAt

\* So it is for a producer that does nothing.
LEMMA IndexIdle ==
  ASSUME IndexTypes, NEW p \in Producers, IndexAt(p), heads[p] \in Nat, heads'[p] \in Nat, heads'[p] >= heads[p],
         header'[p] = header[p], entry'[p] = entry[p], num'[p] = num[p], shift'[p] = shift[p],
         emptied'[p] = emptied[p], tails'[p] = tails[p], pc'[p] = pc[p], loc'[p] = loc[p],
         \A e \in DOMAIN entry[p] : entry[p][e].value # Null =>
           elementsCompletelyDequeued'[entry[p][e].value] = elementsCompletelyDequeued[entry[p][e].value]
  PROVE  IndexAt(p)'
  <1>1. Published(p)' = Published(p) /\ \A n \in Int : Stored(p, n)' = Stored(p, n) BY DEF Published, Filled, Stored
  <1>2. SlotAt(p)' BY DEF IndexAt, SlotAt, NextEntry, NextPosition, Current, blockIndex, Valid
  <1>3. \A e \in DOMAIN entry[p] : num[p][e] \in Int BY Parts DEF IndexAt
  <1> QED BY <1>1, <1>2, <1>3, IndexKept

\* What a step leaves to a consumer that looks for its index i in the block index of p.
Grows(p) ==
  /\ DOMAIN header[p] \subseteq DOMAIN header'[p] /\ DOMAIN entry[p] \subseteq DOMAIN entry'[p]
  /\ \A j \in DOMAIN header[p] : header'[p][j].index = header[p][j].index
  /\ \A e \in DOMAIN entry[p] : Valid(p, e) => Valid(p, e)'
Leads(p, e) == entry'[p][e].value = entry[p][e].value /\ num'[p][e] = num[p][e]

\* A consumer that does nothing keeps what it has found, if nobody takes the entry away.
LEMMA HeldIdle ==
  ASSUME IndexTypes, NEW c \in Consumers, HeldAt(c), pc'[c] = pc[c], loc'[c] = loc[c], taken'[c] = taken[c],
         NEW p \in Producers, p = loc[c].ptr, IndexAt(p), Grows(p),
         heads[p] \in Nat, heads'[p] \in Nat, heads'[p] >= heads[p], taken[c] \in Nat,
         emptied[p] \subseteq emptied'[p], Holding(c) => taken[c] \notin emptied'[p],
         \A e \in DOMAIN entry[p] : entry[p][e].value # Null /\ num[p][e] = Number(taken[c])
           /\ (Holding(c) \/ pc[c] = "unlink") => Leads(p, e)
  PROVE  HeldAt(c)'
  <1>1. CASE pc[c] \in {"position", "key"}
    <2>1. PICK j \in DOMAIN header[p] : j = loc[c].header BY <1>1 DEF HeldAt
    <2>2. PICK e \in 1 .. Cap(j) : LeadsTo(p, e, taken[c]) BY <1>1, <2>1 DEF HeldAt
    <2>3. ShapeAt(p) /\ HeaderAt(p, j) BY DEF IndexAt
    <2>4. e \in DOMAIN entry[p]
      <3>1. Cap(j) \in Nat /\ Cap(j) <= Len(entry[p]) /\ Len(entry[p]) \in Nat /\ DOMAIN entry[p] = 1 .. Len(entry[p])
        BY <2>3, Parts
      <3> QED BY <3>1
    <2>5. LeadsTo(p, e, taken[c])' BY <1>1, <2>2, <2>4 DEF LeadsTo, Leads, Holding
    <2>6. ASSUME pc[c] = "key"
          PROVE  loc[c].tail \in 0 .. Cap(j) - 1 /\ Valid(p, header[p][j].index[loc[c].tail + 1])'
      <3>1. PICK pos \in 0 .. Cap(j) - 1 : pos = loc[c].tail /\ Valid(p, header[p][j].index[pos + 1])
        BY <2>1, <2>6 DEF HeldAt
      <3>2. header[p][j].index[pos + 1] \in DOMAIN entry[p] /\ header'[p][j].index = header[p][j].index
        BY <2>3, EntryOf DEF Grows
      <3> QED BY <3>1, <3>2 DEF Grows, Valid
    <2>7. header'[p][j].index = header[p][j].index /\ j \in DOMAIN header'[p] BY DEF Grows
    <2>8. Holding(c) BY <1>1 DEF Holding
    <2>9. taken[c] < heads'[p] /\ taken[c] \notin emptied'[p] BY <2>8 DEF HeldAt
    <2> QED BY <1>1, <2>1, <2>5, <2>6, <2>7, <2>9 DEF HeldAt
  <1>2. CASE pc[c] \notin {"position", "key"}
    BY <1>2 DEF HeldAt, LeadsTo, Leads, Grows, Holding
  <1> QED BY <1>1, <1>2

\* The same when it has not found a producer.
LEMMA HeldByOthers ==
  ASSUME QueueInv, IndexInv, NEW d \in Consumers, pc'[d] = pc[d], loc'[d] = loc[d], taken'[d] = taken[d],
         \A p \in Producers : Grows(p) /\ heads'[p] \in Nat /\ heads'[p] >= heads[p] /\ emptied[p] \subseteq emptied'[p],
         ASSUME NEW p \in Producers, p = loc[d].ptr, Holding(d) PROVE taken[d] \notin emptied'[p],
         ASSUME NEW p \in Producers, p = loc[d].ptr, Holding(d) \/ pc[d] = "unlink", NEW e \in DOMAIN entry[p],
                entry[p][e].value # Null, num[p][e] = Number(taken[d])
         PROVE  Leads(p, e)
  PROVE  HeldAt(d)'
  <1>1. HeldAt(d) /\ IndexTypes /\ taken[d] \in Nat BY DEF IndexInv, IndexTypes
  <1>2. CASE Holding(d) \/ pc[d] = "unlink"
    <2>1. PICK p \in Producers : p = loc[d].ptr BY <1>2, Local DEF QueueInv, Holding
    <2>2. IndexAt(p) BY DEF IndexInv
    <2>3. heads[p] \in Nat BY DEF QueueInv, IndexType
    <2> QED BY <1>1, <1>2, <2>1, <2>2, <2>3, HeldIdle
  <1>3. CASE ~(Holding(d) \/ pc[d] = "unlink") BY <1>3 DEF HeldAt, Holding
  <1> QED BY <1>2, <1>3

\* Blocks stay where they are.
LEMMA OwnerIdle ==
  ASSUME OwnerInv, UNCHANGED <<initialBlockPoolIndex, freeList, allocated, entry>>,
         \A t \in Producers \cup Consumers : pc'[t] \in {"store", "release"} =>
           pc[t] = pc'[t] /\ loc'[t].block = loc[t].block
  PROVE  OwnerInv'
  <1>1. Taken' = Taken BY DEF Taken
  <1>2. \A b \in Blocks : Entered(b)' = Entered(b) BY DEF Entered
  <1>3. \A t \in Producers \cup Consumers : pc'[t] \in {"store", "release"} => Entered(loc[t].block)' = Entered(loc[t].block)
    BY DEF Entered
  <1> QED BY <1>1, <1>2, <1>3 DEF OwnerInv, Stores, Releases

\* A step of a consumer that changes nothing in the block indices.
LEMMA ConsumerFrame ==
  ASSUME QueueInv, IndexInv, NEW c \in Consumers,
         UNCHANGED <<header, entry, num, shift, emptied, tails, elementsCompletelyDequeued>>,
         \A p \in Producers : heads'[p] \in Nat /\ heads'[p] >= heads[p],
         \A t \in (Producers \cup Consumers) \ {c} : pc'[t] = pc[t] /\ loc'[t] = loc[t],
         taken' \in [Consumers -> Nat], \A d \in Consumers \ {c} : taken'[d] = taken[d],
         pc'[c] # "unlink", HeldAt(c)', OwnerInv',
         \A d \in Consumers \ {c} : Holding(c)' /\ Holding(d) /\ loc[d].ptr = loc'[c].ptr => taken'[c] # taken[d]
  PROVE  IndexInv'
  <1>1. IndexTypes /\ HeldDiffer /\ \A p \in Producers : IndexAt(p) BY DEF IndexInv
  <1>2. c \notin Producers /\ \A p \in Producers : pc'[p] = pc[p] /\ loc'[p] = loc[p] BY Constants
  <1>3. IndexTypes' BY <1>1, <1>2 DEF IndexTypes
  <1>4. ASSUME NEW p \in Producers PROVE IndexAt(p)'
    <2>1. heads[p] \in Nat /\ heads'[p] \in Nat /\ heads'[p] >= heads[p] BY DEF QueueInv, IndexType
    <2>2. IndexAt(p) BY <1>1
    <2> QED BY <1>1, <1>2, <2>1, <2>2, IndexIdle
  <1>5. ASSUME NEW d \in Consumers \ {c} PROVE HeldAt(d)'
    <2>1. \A p \in Producers : Grows(p) BY DEF Grows, Valid
    <2>2. HeldAt(d) BY DEF IndexInv
    <2> QED BY <2>1, <2>2, HeldByOthers DEF HeldAt, Leads
  <1>6. HeldDiffer'
    <2>1. \A d \in Consumers \ {c} : Holding(d)' = Holding(d) BY DEF Holding
    <2> QED BY <1>1, <2>1 DEF HeldDiffer
  <1> QED BY <1>3, <1>4, <1>5, <1>6 DEF IndexInv

\* A step of a consumer that searches or looks up: it changes nothing that others see
\* but the head.
LEMMA ConsumerSearches ==
  ASSUME QueueInv, IndexInv, NEW c \in Consumers,
         UNCHANGED <<header, entry, num, shift, emptied, tails, elementsCompletelyDequeued,
                     initialBlockPoolIndex, freeList, allocated>>,
         \A p \in Producers : heads'[p] \in Nat /\ heads'[p] >= heads[p],
         \A t \in (Producers \cup Consumers) \ {c} : pc'[t] = pc[t] /\ loc'[t] = loc[t],
         taken' \in [Consumers -> Nat], \A d \in Consumers \ {c} : taken'[d] = taken[d],
         pc[c] # "off", pc'[c] \notin {"store", "release", "unlink"}, HeldAt(c)',
         \A d \in Consumers \ {c} : Holding(c)' /\ Holding(d) /\ loc[d].ptr = loc'[c].ptr => taken'[c] # taken[d]
  PROVE  IndexInv'
  <1>1. ~Destroyed BY DEF Destroyed
  <1>2. OwnerInv BY <1>1 DEF IndexInv
  <1>3. OwnerInv' BY <1>2, OwnerIdle
  <1> QED BY <1>3, ConsumerFrame
------------------------------------------------------------------------------
(* The consumers' steps keep the invariant of the block index. *)

\* What a step does that begins, claims, is granted or gives back.
LEMMA SearchMoves ==
  ASSUME NEW c \in Consumers, DOMAIN pc = Producers \cup Consumers, DOMAIN loc = Producers \cup Consumers,
         \/ DequeueBegin(c) \/ SizeTail(c) \/ SizeHead(c) \/ LoadTail(c) \/ LoadOvercommit(c)
         \/ CheckCount(c) \/ Claim(c) \/ Recheck(c) \/ GiveBack(c)
  PROVE  /\ UNCHANGED <<header, entry, elementsCompletelyDequeued, initialBlockPoolIndex, freeList, allocated>>
         /\ \A t \in (Producers \cup Consumers) \ {c} : pc'[t] = pc[t] /\ loc'[t] = loc[t]
         /\ pc[c] # "off"
         /\ pc'[c] \in {"tail", "head", "dequeue", "overcommit", "check", "claim", "recheck", "take", "giveback", "idle"}
  <1> USE DEF shared, index, memory, pools, indices, Goto
  <1>0. DOMAIN pc = Producers \cup Consumers /\ DOMAIN loc = Producers \cup Consumers OBVIOUS
  <1> DEFINE Does(s) ==
        /\ UNCHANGED <<header, entry, elementsCompletelyDequeued, initialBlockPoolIndex, freeList, allocated>>
        /\ \A t \in (Producers \cup Consumers) \ {c} : pc'[t] = pc[t] /\ loc'[t] = loc[t]
        /\ pc[c] # "off" /\ pc'[c] \in s
  <1>s. ASSUME NEW l, Scan(c, l)
        PROVE  /\ \A t \in (Producers \cup Consumers) \ {c} : pc'[t] = pc[t] /\ loc'[t] = loc[t]
               /\ pc'[c] \in {"tail", "dequeue", "idle"}
    BY <1>s DEF Scan
  <1>e. ASSUME Empty(c)
        PROVE  /\ \A t \in (Producers \cup Consumers) \ {c} : pc'[t] = pc[t] /\ loc'[t] = loc[t]
               /\ pc'[c] \in {"dequeue", "idle"}
    BY <1>e DEF Empty
  <1>1. DequeueBegin(c) => Does({"tail", "dequeue", "idle"}) BY <1>s DEF DequeueBegin
  <1>2. SizeTail(c) => Does({"head"}) BY DEF SizeTail
  <1>3. SizeHead(c) => Does({"tail", "dequeue", "idle"}) BY <1>s DEF SizeHead
  <1>4. LoadTail(c) => Does({"overcommit"}) BY DEF LoadTail
  <1>5. LoadOvercommit(c) => Does({"check"}) BY DEF LoadOvercommit
  <1>6. CheckCount(c) => Does({"claim", "dequeue", "idle"}) BY <1>e DEF CheckCount
  <1>7. Claim(c) => Does({"recheck"}) BY DEF Claim
  <1>8. Recheck(c) => Does({"take", "giveback"}) BY DEF Recheck
  <1>9. GiveBack(c) => Does({"dequeue", "idle"}) BY <1>e DEF GiveBack
  <1> QED BY <1>1, <1>2, <1>3, <1>4, <1>5, <1>6, <1>7, <1>8, <1>9

\* They have nothing to do with the block index.
LEMMA SearchIndex ==
  ASSUME QueueInv, IndexInv, NEW c \in Consumers,
         \/ HLoadOvercommit(c) \/ HClaim(c) \/ HRecheck(c) \/ HGiveBack(c)
         \/ (DequeueBegin(c) \/ SizeTail(c) \/ SizeHead(c) \/ LoadTail(c) \/ CheckCount(c)) /\ UNCHANGED history
  PROVE  IndexInv'
  <1>1. DOMAIN pc = Producers \cup Consumers /\ DOMAIN loc = Producers \cup Consumers BY DEF QueueInv, LocalType
  <1>2. UNCHANGED <<num, shift, emptied, tails, heads, taken>>
    BY DEF HLoadOvercommit, HClaim, HRecheck, HGiveBack, history
  <1>3. /\ UNCHANGED <<header, entry, elementsCompletelyDequeued, initialBlockPoolIndex, freeList, allocated>>
        /\ \A t \in (Producers \cup Consumers) \ {c} : pc'[t] = pc[t] /\ loc'[t] = loc[t]
        /\ pc[c] # "off"
        /\ pc'[c] \in {"tail", "head", "dequeue", "overcommit", "check", "claim", "recheck", "take", "giveback", "idle"}
    BY <1>1, SearchMoves DEF HLoadOvercommit, HClaim, HRecheck, HGiveBack
  <1>4. \A p \in Producers : heads'[p] \in Nat /\ heads'[p] >= heads[p]
    <2>1. heads \in [Producers -> Nat] BY DEF QueueInv, IndexType
    <2> QED BY <1>2, <2>1
  <1>5. taken' \in [Consumers -> Nat] BY <1>2 DEF IndexInv, IndexTypes
  <1>6. HeldAt(c)' /\ ~Holding(c)' BY <1>3 DEF HeldAt, Holding
  <1>7. pc'[c] \notin {"store", "release", "unlink"} BY <1>3
  <1> QED BY <1>2, <1>3, <1>4, <1>5, <1>6, <1>7, ConsumerSearches

\* The index that is taken is the next one, which nobody has.
LEMMA TakeIndexIndex ==
  ASSUME QueueInv, IndexInv, NEW c \in Consumers, HTakeIndex(c)
  PROVE  IndexInv'
  <1>1. /\ DOMAIN pc = Producers \cup Consumers /\ DOMAIN loc = Producers \cup Consumers
        /\ heads \in [Producers -> Nat] /\ taken \in [Consumers -> Nat]
    BY DEF QueueInv, LocalType, IndexType, IndexInv, IndexTypes
  <1>2. PICK p \in Producers : p = loc[c].ptr BY Local DEF QueueInv, HTakeIndex, TakeIndex, Goto
  <1>3. /\ pc[c] = "take" /\ pc' = [pc EXCEPT ![c] = "header"]
        /\ loc' = [loc EXCEPT ![c].index = headIndex[p], ![c].rest = <<>>]
        /\ heads' = [heads EXCEPT ![p] = @ + 1] /\ taken' = [taken EXCEPT ![c] = heads[p]]
        /\ UNCHANGED <<header, entry, num, shift, emptied, tails, elementsCompletelyDequeued,
                       initialBlockPoolIndex, freeList, allocated>>
    BY <1>2 DEF HTakeIndex, TakeIndex, Goto, index, memory, pools
  <1>4. /\ \A t \in (Producers \cup Consumers) \ {c} : pc'[t] = pc[t] /\ loc'[t] = loc[t]
        /\ pc'[c] = "header" /\ loc'[c].ptr = p /\ loc'[c].index = headIndex[p]
    <2>1. DOMAIN loc[c] = DOMAIN ConsumerLocals BY Local DEF QueueInv
    <2> QED BY <1>1, <1>2, <1>3, <2>1 DEF ConsumerLocals
  <1>5. \A q \in Producers : heads'[q] \in Nat /\ heads'[q] >= heads[q] BY <1>1, <1>3
  <1>6. taken' \in [Consumers -> Nat] /\ taken'[c] = heads[p] /\ \A d \in Consumers \ {c} : taken'[d] = taken[d]
    BY <1>1, <1>3
  <1>7. headIndex[p] = heads[p] % IndexRange BY DEF QueueInv, Wrapped
  <1>8. heads[p] \notin emptied[p] /\ heads[p] < heads'[p]
    <2>1. emptied[p] \subseteq 0 .. heads[p] - 1 BY DEF IndexInv, IndexAt
    <2> QED BY <1>1, <1>3, <2>1
  <1>9. HeldAt(c)' BY <1>3, <1>4, <1>6, <1>7, <1>8 DEF HeldAt, Holding
  <1>10. ASSUME NEW d \in Consumers \ {c}, Holding(d), loc[d].ptr = p PROVE taken[d] # heads[p]
    <2>1. HeldAt(d) BY DEF IndexInv
    <2>2. taken[d] < heads[p] BY <1>10, <2>1 DEF HeldAt
    <2> QED BY <1>1, <2>2
  <1>11. pc'[c] \notin {"store", "release", "unlink"} /\ pc[c] # "off" BY <1>3, <1>4
  <1> QED BY <1>3, <1>4, <1>5, <1>6, <1>9, <1>10, <1>11, ConsumerSearches

\* A consumer that looks for its index keeps it.
LEMMA LooksUp ==
  ASSUME QueueInv, IndexInv, NEW c \in Consumers, Holding(c), NEW to \in {"position", "key", "read", "empty"}, NEW l,
         l.ptr = loc[c].ptr, pc' = [pc EXCEPT ![c] = to], loc' = [loc EXCEPT ![c] = l], UNCHANGED history,
         UNCHANGED <<header, entry, elementsCompletelyDequeued, initialBlockPoolIndex, freeList, allocated>>,
         pc'[c] = to /\ loc'[c] = l => HeldAt(c)'
  PROVE  IndexInv'
  <1>1. /\ DOMAIN pc = Producers \cup Consumers /\ DOMAIN loc = Producers \cup Consumers
        /\ heads \in [Producers -> Nat] /\ taken \in [Consumers -> Nat]
    BY DEF QueueInv, LocalType, IndexType, IndexInv, IndexTypes
  <1>2. \A t \in (Producers \cup Consumers) \ {c} : pc'[t] = pc[t] /\ loc'[t] = loc[t] BY <1>1
  <1>3. pc'[c] = to /\ loc'[c] = l /\ HeldAt(c)' BY <1>1
  <1>4. UNCHANGED <<num, shift, emptied, tails, heads, taken>> BY DEF history
  <1>5. \A q \in Producers : heads'[q] \in Nat /\ heads'[q] >= heads[q] BY <1>1, <1>4
  <1>6. \A d \in Consumers \ {c} : Holding(d) /\ loc[d].ptr = loc'[c].ptr => taken'[c] # taken[d]
    BY <1>3, <1>4 DEF IndexInv, HeldDiffer
  <1>7. pc'[c] \notin {"store", "release", "unlink"} /\ pc[c] # "off" BY <1>3 DEF Holding
  <1> QED BY <1>1, <1>2, <1>3, <1>4, <1>5, <1>6, <1>7, ConsumerSearches

\* What a consumer that looks for its index has.
LEMMA Holder ==
  ASSUME QueueInv, IndexInv, NEW c \in Consumers, Holding(c)
  PROVE  \E p \in Producers, i \in Nat :
           /\ p = loc[c].ptr /\ i = taken[c] /\ i < heads[p] /\ i \notin emptied[p] /\ tails[p] \in Nat
           /\ heads[p] \in Nat /\ heads[p] <= tails[p] /\ tails[p] > 0 /\ IndexAt(p) /\ HeldAt(c)
           /\ DOMAIN loc[c] = DOMAIN ConsumerLocals /\ c \in DOMAIN loc
  <1>1. PICK p \in Producers : p = loc[c].ptr BY Local DEF QueueInv, Holding
  <1>2. PICK i \in Nat : i = taken[c] BY DEF IndexInv, IndexTypes
  <1>3. heads[p] \in Nat /\ tails[p] \in Nat BY DEF QueueInv, IndexType
  <1>4. IndexAt(p) /\ HeldAt(c) BY DEF IndexInv
  <1>5. i < heads[p] /\ i \notin emptied[p] BY <1>1, <1>2, <1>4 DEF HeldAt
  <1>6. heads[p] <= tails[p] BY GrantsFit DEF QueueInv, ClaimInv
  <1>7. DOMAIN loc[c] = DOMAIN ConsumerLocals /\ c \in DOMAIN loc BY Local DEF QueueInv
  <1> QED BY <1>1, <1>2, <1>3, <1>4, <1>5, <1>6, <1>7

\* The current block index has the entry of an index that is taken.
LEMMA LoadHeaderIndex ==
  ASSUME QueueInv, IndexInv, NEW c \in Consumers, LoadHeader(c), UNCHANGED history
  PROVE  IndexInv'
  <1>1. Holding(c) /\ pc[c] = "header" BY DEF LoadHeader, Goto, Holding
  <1>2. PICK p \in Producers, i \in Nat :
           /\ p = loc[c].ptr /\ i = taken[c] /\ i < heads[p] /\ i \notin emptied[p] /\ tails[p] \in Nat
           /\ heads[p] \in Nat /\ heads[p] <= tails[p] /\ IndexAt(p) /\ HeldAt(c)
           /\ DOMAIN loc[c] = DOMAIN ConsumerLocals /\ c \in DOMAIN loc
    BY <1>1, Holder
  <1> DEFINE l == [loc[c] EXCEPT !["header"] = Len(header[p])]
  <1>3. /\ pc' = [pc EXCEPT ![c] = "position"] /\ loc' = [loc EXCEPT ![c] = l] /\ UNCHANGED shared
    BY <1>2 DEF LoadHeader, Goto, blockIndex
  <1>4. l.ptr = p /\ l.index = loc[c].index /\ l.header = Len(header[p]) BY <1>2 DEF ConsumerLocals
  <1> HIDE DEF l
  <1>5. PICK n \in Nat : n = Number(i) /\ n * BLOCK_SIZE <= i /\ n <= Number(tails[p])
    <2>1. Number(i) \in Nat /\ Number(i) * BLOCK_SIZE <= i BY NumberOf
    <2>2. Number(i) * BLOCK_SIZE \in Int /\ Number(i) * BLOCK_SIZE <= tails[p] BY <1>2, <2>1, RangeOfBlocks
    <2>3. Number(i) <= Number(tails[p]) BY <1>2, <2>1, <2>2, NumberOf
    <2> QED BY <2>1, <2>3
  <1>6. Stored(p, n)
    <2>1. PICK x \in Int : x = n * BLOCK_SIZE BY RangeOfBlocks
    <2>2. x < tails[p] BY <1>2, <1>5, <2>1
    <2> QED BY <2>1, <2>2 DEF Stored
  <1>7. ~(BlockIndices(n) \subseteq emptied[p])
    <2>1. i \in BlockIndices(n) BY <1>5, IndicesOf
    <2> QED BY <1>2, <2>1
  <1>8. n \in 0 .. Number(tails[p])
    <2>1. Number(tails[p]) \in Nat BY <1>2, NumberOf
    <2> QED BY <1>5, <2>1
  <1>9. PICK e \in DOMAIN entry[p] : LeadsTo(p, e, i)
    BY <1>2, <1>5, <1>6, <1>7, <1>8 DEF IndexAt, KeptAt, LeadsTo
  <1>10. Len(header[p]) \in DOMAIN header[p] /\ e \in 1 .. Cap(Len(header[p]))
    <2>1. IndexTypes /\ ShapeAt(p) BY <1>2 DEF IndexInv, IndexAt
    <2> QED BY <2>1, Parts
  <1>11. ASSUME pc'[c] = "position", loc'[c] = l PROVE HeldAt(c)'
    <2>1. header' = header /\ entry' = entry /\ num' = num /\ emptied' = emptied /\ taken' = taken /\ heads' = heads
      BY <1>3 DEF shared, index, history
    <2>2. LeadsTo(p, e, i)' BY <1>9, <2>1 DEF LeadsTo
    <2>3. loc[c].index = i % IndexRange BY <1>1, <1>2 DEF HeldAt
    <2> QED BY <1>2, <1>4, <1>10, <1>11, <2>1, <2>2, <2>3 DEF HeldAt, Holding
  <1> QED BY <1>1, <1>2, <1>3, <1>4, <1>11, LooksUp DEF shared, index, memory, pools

\* The tail of the block index, also of one that has been replaced, has a valid entry.
LEMMA LoadPositionIndex ==
  ASSUME QueueInv, IndexInv, NEW c \in Consumers, LoadPosition(c), UNCHANGED history
  PROVE  IndexInv'
  <1>1. Holding(c) /\ pc[c] = "position" BY DEF LoadPosition, Goto, Holding
  <1>2. PICK p \in Producers, i \in Nat :
           /\ p = loc[c].ptr /\ i = taken[c] /\ i < heads[p] /\ i \notin emptied[p] /\ tails[p] \in Nat
           /\ tails[p] > 0 /\ IndexAt(p) /\ HeldAt(c)
           /\ DOMAIN loc[c] = DOMAIN ConsumerLocals /\ c \in DOMAIN loc
    BY <1>1, Holder
  <1>3. PICK j \in DOMAIN header[p] : j = loc[c].header BY <1>1, <1>2 DEF HeldAt
  <1>4. PICK e \in 1 .. Cap(j) : LeadsTo(p, e, i) BY <1>1, <1>2, <1>3 DEF HeldAt
  <1> DEFINE l == [loc[c] EXCEPT !["tail"] = header[p][j].tail]
  <1>5. /\ pc' = [pc EXCEPT ![c] = "key"] /\ loc' = [loc EXCEPT ![c] = l] /\ UNCHANGED shared
    BY <1>2, <1>3 DEF LoadPosition, Goto
  <1>6. l.ptr = p /\ l.index = loc[c].index /\ l.header = j /\ l.tail = header[p][j].tail
    BY <1>2, <1>3 DEF ConsumerLocals
  <1> HIDE DEF l
  <1>7. header[p][j].tail \in 0 .. Cap(j) - 1 BY <1>2 DEF IndexAt, HeaderAt
  <1>8. Valid(p, header[p][j].index[header[p][j].tail + 1])
    <2>1. CASE j # Len(header[p]) BY <1>2, <2>1 DEF IndexAt, HeaderAt
    <2>2. CASE j = Len(header[p])
      <3>1. IndexTypes BY DEF IndexInv
      <3> QED BY <1>2, <2>2, <3>1, TailEntry DEF Current, blockIndex
    <2> QED BY <2>1, <2>2
  <1>9. ASSUME pc'[c] = "key", loc'[c] = l PROVE HeldAt(c)'
    <2>1. header' = header /\ entry' = entry /\ num' = num /\ emptied' = emptied /\ taken' = taken /\ heads' = heads
      BY <1>5 DEF shared, index, history
    <2>2. LeadsTo(p, e, i)' BY <1>4, <2>1 DEF LeadsTo
    <2>3. loc[c].index = i % IndexRange BY <1>1, <1>2 DEF HeldAt
    <2>4. Valid(p, header[p][j].index[header[p][j].tail + 1])' BY <1>8, <2>1 DEF Valid
    <2> QED BY <1>2, <1>4, <1>6, <1>7, <1>9, <2>1, <2>2, <2>3, <2>4 DEF HeldAt, Holding
  <1> QED BY <1>1, <1>2, <1>5, <1>6, <1>9, LooksUp DEF shared, index, memory, pools

\* The look-up finds the entry of the index.
LEMMA LoadKeyIndex ==
  ASSUME QueueInv, IndexInv, NEW c \in Consumers, LoadKey(c), UNCHANGED history
  PROVE  IndexInv'
  <1>1. Holding(c) /\ pc[c] = "key" BY DEF LoadKey, Goto, Holding
  <1>2. PICK p \in Producers, i \in Nat :
           /\ p = loc[c].ptr /\ i = taken[c] /\ i < heads[p] /\ i \notin emptied[p] /\ tails[p] \in Nat
           /\ IndexAt(p) /\ HeldAt(c)
           /\ DOMAIN loc[c] = DOMAIN ConsumerLocals /\ c \in DOMAIN loc
    BY <1>1, Holder
  <1>3. PICK j \in DOMAIN header[p] : j = loc[c].header BY <1>1, <1>2 DEF HeldAt
  <1>4. PICK e \in 1 .. Cap(j) : LeadsTo(p, e, i) BY <1>1, <1>2, <1>3 DEF HeldAt
  <1>5. PICK pos \in 0 .. Cap(j) - 1 : pos = loc[c].tail /\ Valid(p, header[p][j].index[pos + 1])
    BY <1>1, <1>2, <1>3 DEF HeldAt
  <1>6. loc[c].index = i % IndexRange BY <1>1, <1>2 DEF HeldAt
  <1>7. Lookup(p, header[p][j], pos, i % IndexRange) = e
    <2>1. num[p][e] = Number(i) /\ IndexTypes BY <1>4 DEF LeadsTo, IndexInv
    <2> QED BY <1>2, <1>5, <2>1, LookupFinds
  <1> DEFINE l == [loc[c] EXCEPT !["tail"] = 0, !["header"] = 0, !["entry"] = e]
  <1>8. /\ pc' = [pc EXCEPT ![c] = "read"] /\ loc' = [loc EXCEPT ![c] = l] /\ UNCHANGED shared
    <2>1. /\ pc' = [pc EXCEPT ![c] = "read"] /\ UNCHANGED shared
          /\ loc' = [loc EXCEPT ![c].tail = 0, ![c].header = 0, ![c].entry = e]
      BY <1>2, <1>3, <1>5, <1>6, <1>7 DEF LoadKey, Goto
    <2> QED BY <1>2, <2>1
  <1>9. l.ptr = p /\ l.index = loc[c].index /\ l.entry = e BY <1>2, <1>3 DEF ConsumerLocals
  <1> HIDE DEF l
  <1>10. e \in DOMAIN entry[p]
    <2>1. IndexTypes /\ ShapeAt(p) BY <1>2 DEF IndexInv, IndexAt
    <2>2. Cap(j) \in Nat /\ Cap(j) <= Len(entry[p]) /\ Len(entry[p]) \in Nat /\ DOMAIN entry[p] = 1 .. Len(entry[p])
      BY <2>1, Parts
    <2> QED BY <2>2
  <1>11. ASSUME pc'[c] = "read", loc'[c] = l PROVE HeldAt(c)'
    <2>1. header' = header /\ entry' = entry /\ num' = num /\ emptied' = emptied /\ taken' = taken /\ heads' = heads
      BY <1>8 DEF shared, index, history
    <2>2. LeadsTo(p, e, i)' BY <1>4, <2>1 DEF LeadsTo
    <2> QED BY <1>2, <1>6, <1>9, <1>10, <1>11, <2>1, <2>2 DEF HeldAt, Holding
  <1> QED BY <1>1, <1>2, <1>8, <1>9, <1>11, LooksUp DEF shared, index, memory, pools

\* The block that is read is the one of the entry.
LEMMA ReadElementIndex ==
  ASSUME QueueInv, IndexInv, NEW c \in Consumers, ReadElement(c), UNCHANGED history
  PROVE  IndexInv'
  <1>1. Holding(c) /\ pc[c] = "read" BY DEF ReadElement, Goto, Holding
  <1>2. PICK p \in Producers, i \in Nat :
           /\ p = loc[c].ptr /\ i = taken[c] /\ i < heads[p] /\ i \notin emptied[p] /\ tails[p] \in Nat
           /\ IndexAt(p) /\ HeldAt(c)
           /\ DOMAIN loc[c] = DOMAIN ConsumerLocals /\ c \in DOMAIN loc
    BY <1>1, Holder
  <1>3. PICK e \in DOMAIN entry[p] : e = loc[c].entry /\ LeadsTo(p, e, i) BY <1>1, <1>2 DEF HeldAt
  <1>4. PICK b, item : b = entry[p][e].value /\ item = elements[b][Slot(loc[c].index)] OBVIOUS
  <1> DEFINE l == [loc[c] EXCEPT !["block"] = b, !["item"] = item, !["index"] = 0]
  <1>5. /\ pc' = [pc EXCEPT ![c] = "empty"] /\ loc' = [loc EXCEPT ![c] = l]
        /\ UNCHANGED <<header, entry, elementsCompletelyDequeued, initialBlockPoolIndex, freeList, allocated>>
    <2>1. /\ pc' = [pc EXCEPT ![c] = "empty"]
          /\ loc' = [loc EXCEPT ![c].block = b, ![c].item = item, ![c].index = 0]
          /\ UNCHANGED <<header, entry, elementsCompletelyDequeued, initialBlockPoolIndex, freeList, allocated>>
      BY <1>2, <1>3, <1>4 DEF ReadElement, Goto, index, pools
    <2> QED BY <1>2, <2>1
  <1>6. l.ptr = p /\ l.entry = e /\ l.block = b BY <1>2, <1>3 DEF ConsumerLocals
  <1> HIDE DEF l
  <1>7. ASSUME pc'[c] = "empty", loc'[c] = l PROVE HeldAt(c)'
    <2>1. header' = header /\ entry' = entry /\ num' = num /\ emptied' = emptied /\ taken' = taken /\ heads' = heads
      BY <1>5 DEF history
    <2>2. LeadsTo(p, e, i)' BY <1>3, <2>1 DEF LeadsTo
    <2> QED BY <1>2, <1>3, <1>4, <1>6, <1>7, <2>1, <2>2 DEF HeldAt, Holding
  <1> QED BY <1>1, <1>2, <1>5, <1>6, <1>7, LooksUp

\* An element more of the block has been dequeued, and no other entry has the block.
LEMMA SetEmptyIndex ==
  ASSUME QueueInv, IndexInv, NEW c \in Consumers, HSetEmpty(c)
  PROVE  IndexInv'
  <1>1. Holding(c) /\ pc[c] = "empty" BY DEF HSetEmpty, SetEmpty, Holding
  <1>2. PICK p \in Producers, i \in Nat :
           /\ p = loc[c].ptr /\ i = taken[c] /\ i < heads[p] /\ i \notin emptied[p] /\ heads[p] \in Nat
           /\ IndexAt(p) /\ HeldAt(c) /\ DOMAIN loc[c] = DOMAIN ConsumerLocals /\ c \in DOMAIN loc
    BY <1>1, Holder
  <1>3. PICK e \in DOMAIN entry[p] :
          e = loc[c].entry /\ num[p][e] = Number(i) /\ entry[p][e].value = loc[c].block /\ entry[p][e].value # Null
    BY <1>1, <1>2 DEF HeldAt, LeadsTo
  <1>4. PICK b \in Blocks : b = loc[c].block
    <2>1. IndexTypes /\ ShapeAt(p) BY <1>2 DEF IndexInv, IndexAt
    <2>2. entry[p][e] \in [key : Nat, value : Blocks \cup {Null}] BY <2>1, Parts
    <2> QED BY <1>3, <2>2
  <1>5. PICK n \in Nat : n = Number(i) BY NumberOf
  <1>6. IndexTypes /\ ShapeAt(p) /\ HeldDiffer /\ OwnerInv
    <2>1. ~Destroyed BY <1>1 DEF Destroyed
    <2> QED BY <1>2, <2>1 DEF IndexInv, IndexAt
  <1>7. /\ elementsCompletelyDequeued' = [elementsCompletelyDequeued EXCEPT ![b] = @ + 1]
        /\ emptied' = [emptied EXCEPT ![p] = @ \cup {i}]
        /\ UNCHANGED <<header, entry, num, shift, tails, heads, taken, initialBlockPoolIndex, freeList, allocated>>
        /\ \/ /\ elementsCompletelyDequeued[b] = BLOCK_SIZE - 1
              /\ pc' = [pc EXCEPT ![c] = "unlink"] /\ loc' = loc
           \/ pc' = [pc EXCEPT ![c] = "idle"] /\ loc' = [loc EXCEPT ![c] = ConsumerLocals]
    BY <1>2, <1>4 DEF HSetEmpty, SetEmpty, set_empty, Done, index, pools
  <1>8. /\ \A t \in (Producers \cup Consumers) \ {c} : pc'[t] = pc[t] /\ loc'[t] = loc[t]
        /\ \/ pc'[c] = "unlink" /\ loc'[c] = loc[c] /\ elementsCompletelyDequeued[b] = BLOCK_SIZE - 1
           \/ pc'[c] = "idle"
        /\ c \notin Producers
    BY <1>7, Constants DEF QueueInv, LocalType
  <1>9. /\ elementsCompletelyDequeued' \in [Blocks -> Nat]
        /\ elementsCompletelyDequeued'[b] = elementsCompletelyDequeued[b] + 1
        /\ \A a \in Blocks \ {b} : elementsCompletelyDequeued'[a] = elementsCompletelyDequeued[a]
        /\ emptied' \in [Producers -> SUBSET Nat] /\ emptied'[p] = emptied[p] \cup {i}
        /\ \A q \in Producers \ {p} : emptied'[q] = emptied[q]
    BY <1>6, <1>7 DEF IndexTypes
  <1>10. IndexTypes' BY <1>6, <1>7, <1>8, <1>9 DEF IndexTypes
  <1>11. EntryAt(p, e) /\ elementsCompletelyDequeued[b] = Cardinality(emptied[p] \cap BlockIndices(n))
    <2>1. EntryAt(p, e) BY <1>2 DEF IndexAt
    <2> QED BY <1>3, <1>4, <1>5, <2>1 DEF EntryAt
  <1>12. /\ i \in BlockIndices(n) /\ IsFiniteSet(BlockIndices(n)) /\ Cardinality(BlockIndices(n)) = BLOCK_SIZE
    BY <1>5, IndicesOf
  <1>13. /\ IsFiniteSet(emptied[p] \cap BlockIndices(n))
         /\ emptied'[p] \cap BlockIndices(n) = (emptied[p] \cap BlockIndices(n)) \cup {i}
         /\ Cardinality(emptied'[p] \cap BlockIndices(n)) = Cardinality(emptied[p] \cap BlockIndices(n)) + 1
    <2>1. emptied[p] \cap BlockIndices(n) \in SUBSET BlockIndices(n) OBVIOUS
    <2>2. IsFiniteSet(emptied[p] \cap BlockIndices(n)) BY <1>12, <2>1, FS_Subset
    <2>3. emptied'[p] \cap BlockIndices(n) = (emptied[p] \cap BlockIndices(n)) \cup {i} BY <1>9, <1>12
    <2>4. i \notin emptied[p] \cap BlockIndices(n) BY <1>2
    <2> QED BY <2>2, <2>3, <2>4, FS_AddElement
  <1>14. ASSUME NEW q \in Producers, NEW f \in DOMAIN entry[q], entry[q][f].value # Null, q # p \/ f # e
         PROVE  elementsCompletelyDequeued'[entry[q][f].value] = elementsCompletelyDequeued[entry[q][f].value]
    <2>1. entry[q][f].value # b BY <1>3, <1>4, <1>6, <1>14 DEF OwnerInv
    <2>2. entry[q][f].value \in Blocks
      <3>1. ShapeAt(q) BY DEF IndexInv, IndexAt
      <3>2. entry[q][f] \in [key : Nat, value : Blocks \cup {Null}] BY <1>6, <3>1, Parts
      <3> QED BY <1>14, <3>2
    <2> QED BY <1>9, <2>1, <2>2
  <1>15. ASSUME NEW q \in Producers \ {p} PROVE IndexAt(q)'
    <2>1. IndexAt(q) /\ heads[q] \in Nat BY DEF IndexInv, QueueInv, IndexType
    <2>2. heads'[q] \in Nat /\ heads'[q] >= heads[q] BY <1>7, <2>1
    <2>3. /\ header'[q] = header[q] /\ entry'[q] = entry[q] /\ num'[q] = num[q] /\ shift'[q] = shift[q]
          /\ emptied'[q] = emptied[q] /\ tails'[q] = tails[q] /\ pc'[q] = pc[q] /\ loc'[q] = loc[q]
      BY <1>7, <1>8, <1>9
    <2> QED BY <1>6, <1>14, <2>1, <2>2, <2>3, IndexIdle
  <1>16. IndexAt(p)'
    <2>1. header'[p] = header[p] /\ entry'[p] = entry[p] /\ num'[p] = num[p] /\ shift'[p] = shift[p]
          /\ tails'[p] = tails[p] /\ heads'[p] = heads[p] /\ pc'[p] = pc[p] /\ loc'[p] = loc[p]
      BY <1>7, <1>8
    <2>2. Published(p)' = Published(p) /\ Filled(p)' = Filled(p) /\ \A k \in Int : Stored(p, k)' = Stored(p, k)
      BY <2>1 DEF Published, Filled, Stored
    <2>3. ShapeAt(p)' BY <1>6, <2>1, <2>2 DEF ShapeAt, Current, blockIndex
    <2>4. ASSUME NEW j \in DOMAIN header[p] PROVE HeaderAt(p, j)'
      <3>1. HeaderAt(p, j) BY <1>2 DEF IndexAt
      <3> QED BY <2>1, <3>1 DEF HeaderAt, Valid
    <2>5. ASSUME NEW f \in DOMAIN entry[p] PROVE EntryAt(p, f)'
      <3>1. EntryAt(p, f) /\ num[p][f] \in Int BY <1>2, <1>6, Parts DEF IndexAt
      <3>2. CASE f = e
        <4>1. elementsCompletelyDequeued'[b] = Cardinality(emptied'[p] \cap BlockIndices(n)) BY <1>9, <1>11, <1>13
        <4>2. num'[p][f] = n /\ entry'[p][f].value = b BY <1>3, <1>4, <1>5, <2>1, <3>2
        <4> QED BY <2>1, <2>2, <3>1, <4>1, <4>2 DEF EntryAt, Valid
      <3>4. CASE entry[p][f].value = Null BY <2>1, <2>2, <3>1, <3>4 DEF EntryAt, Valid
      <3>3. CASE f # e /\ entry[p][f].value # Null
        <4>1. num[p][f] \in Nat BY <3>1, <3>3 DEF EntryAt
        <4>2. num[p][f] # n
          <5>1. SUFFICES ASSUME num[p][f] = n PROVE FALSE OBVIOUS
          <5>2. Len(entry[p]) \in Nat \ {0} /\ num[p][e] \in Int BY <1>6, Parts
          <5>3. Same(num[p][e], num[p][f], Len(entry[p])) BY <1>3, <1>5, <5>1, <5>2, SameIs
          <5>4. HeaderAt(p, Len(header[p]))
            <6>1. Len(header[p]) \in DOMAIN header[p] BY <1>6, Parts
            <6> QED BY <1>2, <6>1 DEF IndexAt
          <5> QED BY <1>6, <3>3, <5>3, <5>4, OneEntry
        <4>3. i \notin BlockIndices(num[p][f]) BY <1>5, <4>1, <4>2, IndicesOf
        <4>4. emptied'[p] \cap BlockIndices(num[p][f]) = emptied[p] \cap BlockIndices(num[p][f]) BY <1>9, <4>3
        <4> QED BY <1>14, <2>1, <2>2, <3>1, <3>3, <4>4 DEF EntryAt, Valid
      <3> QED BY <3>2, <3>3, <3>4
    <2>6. SlotAt(p)'
      <3>1. SlotAt(p) BY <1>2 DEF IndexAt
      <3> QED BY <2>1, <3>1 DEF SlotAt, NextEntry, NextPosition, Current, blockIndex, Valid
    <2>7. KeptAt(p)'
      <3>1. KeptAt(p) BY <1>2 DEF IndexAt
      <3> QED BY <1>9, <2>1, <2>2, <3>1 DEF KeptAt
    <2>8. emptied'[p] \subseteq 0 .. heads'[p] - 1
      <3>1. emptied[p] \subseteq 0 .. heads[p] - 1 BY <1>2 DEF IndexAt
      <3> QED BY <1>2, <1>9, <2>1, <3>1
    <2> QED BY <2>1, <2>3, <2>4, <2>5, <2>6, <2>7, <2>8 DEF IndexAt
  <1>17. HeldAt(c)'
    <2>1. CASE pc'[c] = "idle" BY <2>1 DEF HeldAt, Holding
    <2>2. CASE pc'[c] # "idle"
      <3>1. pc'[c] = "unlink" /\ loc'[c] = loc[c] /\ elementsCompletelyDequeued[b] = BLOCK_SIZE - 1 BY <1>8, <2>2
      <3>2. Cardinality(emptied'[p] \cap BlockIndices(n)) = Cardinality(BlockIndices(n))
        <4>1. BLOCK_SIZE \in Nat BY RangeOfBlocks
        <4> QED BY <1>11, <1>12, <1>13, <3>1, <4>1
      <3>3. BlockIndices(n) \subseteq emptied'[p]
        <4>1. emptied'[p] \cap BlockIndices(n) \in SUBSET BlockIndices(n) OBVIOUS
        <4>2. emptied'[p] \cap BlockIndices(n) = BlockIndices(n) BY <1>12, <3>2, <4>1, FS_Subset
        <4> QED BY <4>2
      <3> QED BY <1>2, <1>3, <1>5, <1>7, <3>1, <3>3 DEF HeldAt, Holding, LeadsTo
    <2> QED BY <2>1, <2>2
  <1>18. ASSUME NEW d \in Consumers \ {c} PROVE HeldAt(d)'
    <2>1. ASSUME NEW q \in Producers
          PROVE  Grows(q) /\ heads'[q] \in Nat /\ heads'[q] >= heads[q] /\ emptied[q] \subseteq emptied'[q]
      <3>1. heads[q] \in Nat BY DEF QueueInv, IndexType
      <3>2. Grows(q) BY <1>7 DEF Grows, Valid
      <3>3. emptied[q] \subseteq emptied'[q] BY <1>9
      <3> QED BY <1>7, <3>1, <3>2, <3>3
    <2>2. ASSUME NEW q \in Producers, q = loc[d].ptr, Holding(d) PROVE taken[d] \notin emptied'[q]
      <3>1. HeldAt(d) BY DEF IndexInv
      <3>2. taken[d] \notin emptied[q] BY <2>2, <3>1 DEF HeldAt
      <3>3. q = p => taken[d] # i BY <1>1, <1>2, <1>6, <2>2 DEF HeldDiffer
      <3> QED BY <1>9, <3>2, <3>3
    <2> QED BY <1>7, <1>8, <2>1, <2>2, HeldByOthers DEF Leads
  <1>19. HeldDiffer'
    <2>1. ASSUME NEW d \in Consumers \ {c}, pc[d] = "unlink", loc[d].ptr = p PROVE Number(taken[d]) # n
      <3>1. HeldAt(d) BY DEF IndexInv
      <3>2. BlockIndices(Number(taken[d])) \subseteq emptied[p] BY <2>1, <3>1 DEF HeldAt
      <3> QED BY <1>2, <1>12, <3>2
    <2>2. \A d \in Consumers \ {c} : Holding(d)' = Holding(d) BY <1>8 DEF Holding
    <2>3. ~Holding(c)' BY <1>8 DEF Holding
    <2> QED BY <1>2, <1>5, <1>6, <1>7, <1>8, <2>1, <2>2, <2>3 DEF HeldDiffer
  <1>20. OwnerInv'
    <2>1. \A t \in Producers \cup Consumers : pc'[t] \in {"store", "release"} => pc'[t] = pc[t] /\ loc'[t] = loc[t]
      BY <1>8
    <2> QED BY <1>6, <1>7, <2>1, OwnerIdle
  <1> QED BY <1>10, <1>15, <1>16, <1>17, <1>18, <1>19, <1>20 DEF IndexInv

\* One entry is written.
LEMMA EntryWritten ==
  ASSUME IndexTypes, NEW p \in Producers, NEW e \in DOMAIN entry[p],
         NEW x \in [key : Nat, value : Blocks \cup {Null}], entry' = [entry EXCEPT ![p] = [entry[p] EXCEPT ![e] = x]]
  PROVE  /\ entry' \in [Producers -> Seq([key : Nat, value : Blocks \cup {Null}])]
         /\ Len(entry'[p]) = Len(entry[p]) /\ DOMAIN entry'[p] = DOMAIN entry[p] /\ entry'[p][e] = x
         /\ \A f \in DOMAIN entry[p] \ {e} : entry'[p][f] = entry[p][f]
         /\ \A q \in Producers \ {p} : entry'[q] = entry[q]
  <1> DEFINE E == [key : Nat, value : Blocks \cup {Null}]
  <1>1. entry \in [Producers -> Seq(E)] BY DEF IndexTypes
  <1> HIDE DEF E
  <1>2. entry[p] \in Seq(E) /\ x \in E BY <1>1 DEF E
  <1>3. PICK s : s = [entry[p] EXCEPT ![e] = x] OBVIOUS
  <1>4. s \in Seq(E) /\ Len(s) = Len(entry[p]) /\ DOMAIN s = DOMAIN entry[p] /\ s[e] = x
        /\ \A f \in DOMAIN entry[p] \ {e} : s[f] = entry[p][f]
    BY <1>2, <1>3, ExceptSeq
  <1>5. entry'[p] = s BY <1>1, <1>3
  <1>6. \A q \in Producers \ {p} : entry'[q] = entry[q] BY <1>1
  <1>7. entry' \in [Producers -> Seq(E)] BY <1>1, <1>3, <1>4
  <1> QED BY <1>4, <1>5, <1>6, <1>7 DEF E

\* The block whose elements have all been dequeued leaves the index.
LEMMA UnlinkBlockIndex ==
  ASSUME QueueInv, IndexInv, NEW c \in Consumers, UnlinkBlock(c), UNCHANGED history
  PROVE  IndexInv'
  <1>1. pc[c] = "unlink" BY DEF UnlinkBlock, Goto
  <1>2. PICK p \in Producers : p = loc[c].ptr BY <1>1, Local DEF QueueInv
  <1>3. PICK i \in Nat, n \in Nat : i = taken[c] /\ n = Number(i) BY NumberOf DEF IndexInv, IndexTypes
  <1>4. PICK e \in DOMAIN entry[p] : e = loc[c].entry BY <1>1, <1>2 DEF IndexInv, HeldAt
  <1>5. /\ num[p][e] = n /\ entry[p][e].value # Null /\ entry[p][e].value = loc[c].block
        /\ BlockIndices(n) \subseteq emptied[p]
    BY <1>1, <1>2, <1>3, <1>4 DEF IndexInv, HeldAt, LeadsTo
  <1>6. IndexTypes /\ IndexAt(p) /\ ShapeAt(p) /\ HeldDiffer /\ OwnerInv
    <2>1. ~Destroyed BY <1>1 DEF Destroyed
    <2> QED BY <2>1 DEF IndexInv, IndexAt
  <1>7. entry[p][e] \in [key : Nat, value : Blocks \cup {Null}] BY <1>6, Parts
  <1>8. PICK b \in Blocks : b = loc[c].block /\ b # Null BY <1>5, <1>7
  <1> DEFINE x == [entry[p][e] EXCEPT !["value"] = Null]
  <1>9. x \in [key : Nat, value : Blocks \cup {Null}] /\ x.value = Null /\ x.key = entry[p][e].key BY <1>7
  <1>10. /\ entry' = [entry EXCEPT ![p] = [entry[p] EXCEPT ![e] = x]]
         /\ pc' = [pc EXCEPT ![c] = "release"] /\ loc' = loc
         /\ UNCHANGED <<header, elementsCompletelyDequeued, initialBlockPoolIndex, freeList, allocated>>
    <2>1. entry' = [entry EXCEPT ![p][e].value = Null] BY <1>2, <1>4 DEF UnlinkBlock
    <2>2. entry \in [Producers -> Seq([key : Nat, value : Blocks \cup {Null}])] BY <1>6 DEF IndexTypes
    <2> QED BY <2>1, <2>2 DEF UnlinkBlock, Goto, memory, pools
  <1> HIDE DEF x
  <1>11. UNCHANGED <<tails, heads, num, shift, emptied, taken>> BY DEF history
  <1>12. /\ \A t \in (Producers \cup Consumers) \ {c} : pc'[t] = pc[t]
         /\ pc'[c] = "release" /\ c \notin Producers
    BY <1>10, Constants DEF QueueInv, LocalType
  <1>13. /\ entry' \in [Producers -> Seq([key : Nat, value : Blocks \cup {Null}])]
         /\ Len(entry'[p]) = Len(entry[p]) /\ DOMAIN entry'[p] = DOMAIN entry[p] /\ entry'[p][e] = x
         /\ \A f \in DOMAIN entry[p] \ {e} : entry'[p][f] = entry[p][f]
         /\ \A q \in Producers \ {p} : entry'[q] = entry[q]
    BY <1>6, <1>9, <1>10, EntryWritten
  <1>14. IndexTypes' BY <1>6, <1>10, <1>11, <1>13 DEF IndexTypes
  <1>15. \A f \in DOMAIN entry[p] : Valid(p, f)' = Valid(p, f) BY <1>9, <1>13 DEF Valid
  <1>16. ASSUME NEW q \in Producers PROVE Grows(q)
    BY <1>10, <1>13, <1>15 DEF Grows, Valid
  <1>17. ASSUME NEW q \in Producers \ {p} PROVE IndexAt(q)'
    <2>1. IndexAt(q) /\ heads[q] \in Nat BY DEF IndexInv, QueueInv, IndexType
    <2>2. heads'[q] \in Nat /\ heads'[q] >= heads[q] BY <1>11, <2>1
    <2>3. /\ header'[q] = header[q] /\ entry'[q] = entry[q] /\ num'[q] = num[q] /\ shift'[q] = shift[q]
          /\ emptied'[q] = emptied[q] /\ tails'[q] = tails[q] /\ pc'[q] = pc[q] /\ loc'[q] = loc[q]
      BY <1>10, <1>11, <1>12, <1>13
    <2> QED BY <1>6, <1>10, <2>1, <2>2, <2>3, IndexIdle
  <1>18. IndexAt(p)'
    <2>1. header'[p] = header[p] /\ num'[p] = num[p] /\ shift'[p] = shift[p] /\ emptied'[p] = emptied[p]
          /\ tails'[p] = tails[p] /\ heads'[p] = heads[p] /\ pc'[p] = pc[p] /\ loc'[p] = loc[p]
      BY <1>10, <1>11, <1>12
    <2>2. Published(p)' = Published(p) /\ Filled(p)' = Filled(p) /\ \A k \in Int : Stored(p, k)' = Stored(p, k)
      BY <2>1 DEF Published, Filled, Stored
    <2>3. ShapeAt(p)' BY <1>6, <1>13, <2>1, <2>2 DEF ShapeAt, Current, blockIndex
    <2>4. ASSUME NEW j \in DOMAIN header[p] PROVE HeaderAt(p, j)'
      <3>1. HeaderAt(p, j) BY <1>6 DEF IndexAt
      <3>2. header[p][j].tail \in 0 .. Cap(j) - 1 BY <3>1 DEF HeaderAt
      <3>3. header[p][j].index[header[p][j].tail + 1] \in DOMAIN entry[p] BY <1>6, <3>1, <3>2, EntryOf
      <3> QED BY <1>15, <2>1, <3>1, <3>3 DEF HeaderAt
    <2>5. ASSUME NEW f \in DOMAIN entry[p] PROVE EntryAt(p, f)'
      <3>1. EntryAt(p, f) /\ num[p][f] \in Int BY <1>6, Parts DEF IndexAt
      <3>2. CASE f = e BY <1>9, <1>13, <1>15, <2>1, <2>2, <3>1, <3>2 DEF EntryAt
      <3>3. CASE f # e BY <1>10, <1>13, <1>15, <2>1, <2>2, <3>1, <3>3 DEF EntryAt
      <3> QED BY <3>2, <3>3
    <2>6. SlotAt(p)'
      <3>1. SlotAt(p) BY <1>6 DEF IndexAt
      <3>2. NextEntry(p)' = NextEntry(p)
        BY <2>1 DEF NextEntry, NextPosition, Capacity, Current, blockIndex
      <3>3. \A f \in DOMAIN entry[p] : entry[p][f].value = Null => entry'[p][f].value = Null
        BY <1>9, <1>13
      <3> QED BY <1>13, <1>15, <2>1, <3>1, <3>2, <3>3 DEF SlotAt
    <2>7. KeptAt(p)'
      <3>1. KeptAt(p) BY <1>6 DEF IndexAt
      <3>2. SUFFICES ASSUME NEW k \in 0 .. Number(tails'[p]), Stored(p, k)', ~(BlockIndices(k) \subseteq emptied'[p])
                     PROVE  \E f \in DOMAIN entry'[p] : num'[p][f] = k /\ entry'[p][f].value # Null
        BY DEF KeptAt
      <3>3. k \in 0 .. Number(tails[p]) /\ Stored(p, k) /\ ~(BlockIndices(k) \subseteq emptied[p])
        BY <2>1, <2>2, <3>2
      <3>4. PICK f \in DOMAIN entry[p] : num[p][f] = k /\ entry[p][f].value # Null BY <3>1, <3>3 DEF KeptAt
      <3>5. f # e BY <1>5, <3>3, <3>4
      <3> QED BY <1>13, <2>1, <3>4, <3>5
    <2>8. emptied'[p] \subseteq 0 .. heads'[p] - 1 BY <1>6, <2>1 DEF IndexAt
    <2> QED BY <1>13, <2>1, <2>3, <2>4, <2>5, <2>6, <2>7, <2>8 DEF IndexAt
  <1>19. HeldAt(c)' BY <1>12 DEF HeldAt, Holding
  <1>20. ASSUME NEW d \in Consumers \ {c} PROVE HeldAt(d)'
    <2>1. HeldAt(d) /\ taken[d] \in Nat BY <1>6 DEF IndexInv, IndexTypes
    <2>2. ASSUME NEW q \in Producers
          PROVE  Grows(q) /\ heads'[q] \in Nat /\ heads'[q] >= heads[q] /\ emptied[q] \subseteq emptied'[q]
      <3>1. heads[q] \in Nat BY DEF QueueInv, IndexType
      <3> QED BY <1>11, <1>16, <3>1
    <2>3. ASSUME NEW q \in Producers, q = loc[d].ptr, Holding(d) PROVE taken[d] \notin emptied'[q]
      BY <1>11, <2>1, <2>3 DEF HeldAt
    <2>4. ASSUME NEW q \in Producers, q = loc[d].ptr, Holding(d) \/ pc[d] = "unlink", NEW f \in DOMAIN entry[q],
                 entry[q][f].value # Null, num[q][f] = Number(taken[d])
          PROVE  Leads(q, f)
      <3>1. CASE q # p \/ f # e BY <1>11, <1>13, <3>1 DEF Leads
      <3>2. CASE q = p /\ f = e
        <4>1. Number(taken[d]) = n BY <1>5, <2>4, <3>2
        <4>2. CASE Holding(d)
          <5>1. taken[d] \in BlockIndices(n) BY <2>1, <4>1, IndicesOf
          <5>2. taken[d] \notin emptied[p] BY <2>1, <2>4, <3>2, <4>2 DEF HeldAt
          <5> QED BY <1>5, <5>1, <5>2
        <4>3. CASE pc[d] = "unlink" BY <1>1, <1>2, <1>3, <1>6, <2>4, <3>2, <4>1, <4>3 DEF HeldDiffer
        <4> QED BY <2>4, <4>2, <4>3
      <3> QED BY <3>1, <3>2
    <2> QED BY <1>10, <1>11, <1>12, <2>2, <2>3, <2>4, HeldByOthers
  <1>21. HeldDiffer'
    <2>1. \A d \in Consumers \ {c} : Holding(d)' = Holding(d) BY <1>12 DEF Holding
    <2>2. ~Holding(c)' BY <1>12 DEF Holding
    <2> QED BY <1>6, <1>10, <1>11, <1>12, <2>1, <2>2 DEF HeldDiffer
  <1>22. OwnerInv'
    <2>1. ASSUME NEW q \in Producers, NEW f \in DOMAIN entry'[q], entry'[q][f].value # Null
          PROVE  f \in DOMAIN entry[q] /\ entry[q][f].value = entry'[q][f].value /\ ~(q = p /\ f = e)
      BY <1>9, <1>13, <2>1
    <2>2. \A y : y # Null /\ Entered(y)' => Entered(y) BY <2>1 DEF Entered
    <2>3. ~Entered(b)' BY <1>4, <1>5, <1>6, <1>8, <2>1 DEF Entered, OwnerInv
    <2>4. Entered(b) BY <1>4, <1>5, <1>8 DEF Entered
    <2>5. Taken' = Taken BY <1>10 DEF Taken
    <2>6. freeList \subseteq Taken /\ initialBlockPoolIndex \in Nat /\ allocated \in PoolSize .. MaxBlocks
          /\ b \in Taken \ freeList
      BY <1>6, <2>4 DEF OwnerInv
    <2>7. \A y \in Blocks : Entered(y)' => y \in Taken \ freeList
      <3>1. \A y \in Blocks : y # Null
        <4>1. Null \notin Nat /\ MaxBlocks \in Nat BY ImplicitQueueAssumption
        <4> QED BY <4>1 DEF Blocks
      <3> QED BY <1>6, <2>2, <3>1 DEF OwnerInv
    <2>8. \A q, r \in Producers : \A f \in DOMAIN entry'[q], g \in DOMAIN entry'[r] :
            entry'[q][f].value = entry'[r][g].value /\ entry'[q][f].value # Null => q = r /\ f = g
      BY <1>6, <2>1 DEF OwnerInv
    <2>9. ASSUME NEW t \in Producers \cup Consumers, pc'[t] \in {"store", "release"}
          PROVE  loc[t].block \in Taken \ freeList /\ ~Entered(loc[t].block)'
      <3>1. CASE t = c BY <1>8, <1>10, <2>3, <2>6, <3>1 DEF Entered
      <3>2. CASE t # c
        <4>1. loc[t].block \in Taken \ freeList /\ ~Entered(loc[t].block)
          <5>1. pc[t] \in {"store", "release"} BY <1>12, <2>9, <3>2
          <5>2. t \in Producers => pc[t] \in ProducerPlaces BY DEF QueueInv, LocalType
          <5>3. t \in Consumers => pc[t] \in ConsumerPlaces BY DEF QueueInv, LocalType, LocalAt
          <5> QED BY <1>6, <5>1, <5>2, <5>3 DEF OwnerInv, Stores, Releases, ProducerPlaces, ConsumerPlaces
        <4>2. loc[t].block # Null
          <5>1. Null \notin Nat /\ loc[t].block \in Nat
            <6>1. Null \notin Nat BY ImplicitQueueAssumption
            <6>2. loc[t].block \in 1 .. allocated BY <4>1 DEF Taken
            <6> QED BY <6>1, <6>2
          <5> QED BY <5>1
        <4>3. PICK y : y = loc[t].block OBVIOUS
        <4>4. ~Entered(y)' BY <2>2, <4>1, <4>2, <4>3
        <4> QED BY <1>10, <4>1, <4>3, <4>4 DEF Entered
      <3> QED BY <3>1, <3>2
    <2>10. ASSUME NEW t \in Producers \cup Consumers, NEW u \in Producers \cup Consumers, t # u,
                  pc'[t] \in {"store", "release"}, pc'[u] \in {"store", "release"}
           PROVE  loc[t].block # loc[u].block
      <3>1. ASSUME NEW v \in Producers \cup Consumers, v # c, pc'[v] \in {"store", "release"}
            PROVE  loc[v].block # b
        <4>1. pc[v] \in {"store", "release"} BY <1>12, <3>1
        <4>2. v \in Producers => pc[v] \in ProducerPlaces BY DEF QueueInv, LocalType
        <4>3. v \in Consumers => pc[v] \in ConsumerPlaces BY DEF QueueInv, LocalType, LocalAt
        <4>4. ~Entered(loc[v].block)
          BY <1>6, <4>1, <4>2, <4>3 DEF OwnerInv, Stores, Releases, ProducerPlaces, ConsumerPlaces
        <4> QED BY <2>4, <4>4
      <3>2. CASE t = c \/ u = c BY <1>8, <2>10, <3>1, <3>2
      <3>3. CASE t # c /\ u # c BY <1>6, <1>12, <2>10, <3>3 DEF OwnerInv
      <3> QED BY <3>2, <3>3
    <2> QED BY <1>10, <2>5, <2>6, <2>7, <2>8, <2>9, <2>10 DEF OwnerInv, Stores, Releases
  <1> QED BY <1>14, <1>17, <1>18, <1>19, <1>20, <1>21, <1>22 DEF IndexInv

\* The block goes to the free list, where nobody else puts it.
LEMMA ReleaseBlockIndex ==
  ASSUME QueueInv, IndexInv, NEW c \in Consumers, ReleaseBlock(c), UNCHANGED history
  PROVE  IndexInv'
  <1>1. pc[c] = "release" /\ pc' = [pc EXCEPT ![c] = "idle"] /\ loc' = [loc EXCEPT ![c] = ConsumerLocals]
        /\ freeList' = freeList \cup {loc[c].block}
        /\ UNCHANGED <<header, entry, elementsCompletelyDequeued, initialBlockPoolIndex, allocated>>
    BY DEF ReleaseBlock, add_block_to_free_list, Done, index, memory
  <1>2. UNCHANGED <<num, shift, emptied, tails, heads, taken>> BY DEF history
  <1>3. /\ \A t \in (Producers \cup Consumers) \ {c} : pc'[t] = pc[t] /\ loc'[t] = loc[t]
        /\ pc'[c] = "idle"
    BY <1>1 DEF QueueInv, LocalType
  <1>4. OwnerInv
    <2>1. ~Destroyed BY <1>1 DEF Destroyed
    <2> QED BY <2>1 DEF IndexInv
  <1>5. PICK b : b = loc[c].block OBVIOUS
  <1>6. b \in Taken \ freeList /\ ~Entered(b) BY <1>1, <1>4, <1>5 DEF OwnerInv, Releases
  <1>7. OwnerInv'
    <2>1. Taken' = Taken BY <1>1 DEF Taken
    <2>2. \A y : Entered(y)' = Entered(y) BY <1>1 DEF Entered
    <2>3. \A t \in (Producers \cup Consumers) : pc'[t] \in {"store", "release"} =>
            /\ pc[t] = pc'[t] /\ loc'[t] = loc[t] /\ loc[t].block # b
      BY <1>1, <1>3, <1>4, <1>5 DEF OwnerInv
    <2>4. \A t \in (Producers \cup Consumers) : pc'[t] \in {"store", "release"} =>
            Entered(loc[t].block)' = Entered(loc[t].block)
      BY <1>1, <2>3 DEF Entered
    <2>5. \A y \in Blocks : Entered(y)' => y \in Taken \ freeList' BY <1>1, <1>4, <1>5, <1>6, <2>2 DEF OwnerInv
    <2>6. freeList' \subseteq Taken BY <1>1, <1>4, <1>5, <1>6 DEF OwnerInv
    <2>7. \A p \in Producers : Stores(p)' => loc'[p].block \in Taken \ freeList' /\ ~Entered(loc[p].block)'
      BY <1>1, <1>4, <1>5, <2>3, <2>4 DEF OwnerInv, Stores
    <2>8. \A d \in Consumers : Releases(d)' => loc'[d].block \in Taken \ freeList' /\ ~Entered(loc[d].block)'
      BY <1>1, <1>4, <1>5, <2>3, <2>4 DEF OwnerInv, Releases
    <2>9. \A t, u \in Producers \cup Consumers :
            t # u /\ pc'[t] \in {"store", "release"} /\ pc'[u] \in {"store", "release"} => loc'[t].block # loc'[u].block
      BY <1>4, <2>3 DEF OwnerInv
    <2> QED BY <1>1, <1>4, <2>1, <2>5, <2>6, <2>7, <2>8, <2>9 DEF OwnerInv
  <1>8. \A q \in Producers : heads'[q] \in Nat /\ heads'[q] >= heads[q]
    <2>1. heads \in [Producers -> Nat] BY DEF QueueInv, IndexType
    <2> QED BY <1>2, <2>1
  <1>9. taken' \in [Consumers -> Nat] BY <1>2 DEF IndexInv, IndexTypes
  <1>10. HeldAt(c)' /\ ~Holding(c)' /\ pc'[c] # "unlink" BY <1>3 DEF HeldAt, Holding
  <1> QED BY <1>1, <1>2, <1>3, <1>7, <1>8, <1>9, <1>10, ConsumerFrame
------------------------------------------------------------------------------
(* The producers' steps keep the invariant of the block index. *)

\* A thread that has a block outside of the index.
LEMMA Owned ==
  ASSUME QueueInv, OwnerInv, NEW t \in Producers \cup Consumers, pc[t] \in {"store", "release"}
  PROVE  loc[t].block \in Taken \ freeList /\ ~Entered(loc[t].block)
  <1>1. t \in Producers => pc[t] \in ProducerPlaces BY DEF QueueInv, LocalType
  <1>2. t \in Consumers => pc[t] \in ConsumerPlaces BY DEF QueueInv, LocalType, LocalAt
  <1> QED BY <1>1, <1>2 DEF OwnerInv, Stores, Releases, ProducerPlaces, ConsumerPlaces

\* A producer takes a block that is on the free list, or has never been taken.
LEMMA OwnerTakes ==
  ASSUME QueueInv, OwnerInv, NEW p \in Producers, NEW b \in Blocks, b \in freeList \/ b \notin Taken, entry' = entry,
         initialBlockPoolIndex' \in Nat, allocated' \in PoolSize .. MaxBlocks,
         Taken' = Taken \cup {b}, freeList' = freeList \ {b}, pc'[p] = "store", loc'[p].block = b,
         \A t \in (Producers \cup Consumers) \ {p} : pc'[t] = pc[t] /\ loc'[t] = loc[t]
  PROVE  OwnerInv'
  <1>1. \A y : Entered(y)' = Entered(y) BY DEF Entered
  <1>2. ~Entered(b) BY DEF OwnerInv
  <1>3. ASSUME NEW t \in (Producers \cup Consumers) \ {p}, pc'[t] \in {"store", "release"}
        PROVE  loc'[t].block = loc[t].block /\ loc[t].block # b /\ loc[t].block \in Taken' \ freeList' /\ ~Entered(loc[t].block)
    <2>1. loc[t].block \in Taken \ freeList /\ ~Entered(loc[t].block) BY <1>3, Owned
    <2> QED BY <2>1
  <1>4. ASSUME NEW t \in Producers \cup Consumers, pc'[t] \in {"store", "release"}
        PROVE  loc'[t].block \in Taken' \ freeList' /\ ~Entered(loc[t].block)'
    <2>1. CASE t = p BY <1>2, <2>1 DEF Entered
    <2>2. CASE t # p BY <1>3, <1>4, <2>2 DEF Entered
    <2> QED BY <2>1, <2>2
  <1>5. \A t, u \in Producers \cup Consumers :
          t # u /\ pc'[t] \in {"store", "release"} /\ pc'[u] \in {"store", "release"} => loc'[t].block # loc'[u].block
    BY <1>3 DEF OwnerInv
  <1>6. \A y \in Blocks : Entered(y)' => y \in Taken' \ freeList' BY <1>1 DEF OwnerInv
  <1>7. freeList' \subseteq Taken' BY DEF OwnerInv
  <1> QED BY <1>4, <1>5, <1>6, <1>7 DEF OwnerInv, Stores, Releases

\* A producer's step is about its own block index.
LEMMA ProducerFrame ==
  ASSUME QueueInv, IndexInv, NEW p \in Producers, UNCHANGED <<heads, emptied, taken>>,
         \A t \in (Producers \cup Consumers) \ {p} : pc'[t] = pc[t] /\ loc'[t] = loc[t],
         \A q \in Producers \ {p} : /\ header'[q] = header[q] /\ entry'[q] = entry[q] /\ num'[q] = num[q]
                                    /\ shift'[q] = shift[q] /\ tails'[q] = tails[q],
         \A q \in Producers \ {p} : \A e \in DOMAIN entry[q] : entry[q][e].value # Null =>
           elementsCompletelyDequeued'[entry[q][e].value] = elementsCompletelyDequeued[entry[q][e].value],
         IndexTypes', IndexAt(p)', OwnerInv', Grows(p),
         \A e \in DOMAIN entry[p] : entry[p][e].value # Null => Leads(p, e)
  PROVE  IndexInv'
  <1>1. IndexTypes /\ HeldDiffer BY DEF IndexInv
  <1>2. p \notin Consumers BY Constants
  <1>3. ASSUME NEW q \in Producers PROVE IndexAt(q)'
    <2>1. CASE q = p BY <2>1
    <2>2. CASE q # p
      <3>1. heads[q] \in Nat /\ IndexAt(q) BY DEF QueueInv, IndexType, IndexInv
      <3>2. heads'[q] \in Nat /\ heads'[q] >= heads[q] /\ emptied'[q] = emptied[q] BY <3>1
      <3> QED BY <1>1, <2>2, <3>1, <3>2, IndexIdle
    <2> QED BY <2>1, <2>2
  <1>4. ASSUME NEW d \in Consumers PROVE HeldAt(d)'
    <2>1. HeldAt(d) BY DEF IndexInv
    <2>2. ASSUME NEW q \in Producers
          PROVE  Grows(q) /\ heads'[q] \in Nat /\ heads'[q] >= heads[q] /\ emptied[q] \subseteq emptied'[q]
      <3>1. heads[q] \in Nat BY DEF QueueInv, IndexType
      <3>2. Grows(q) BY DEF Grows, Valid
      <3> QED BY <3>1, <3>2
    <2>3. ASSUME NEW q \in Producers, q = loc[d].ptr, Holding(d) PROVE taken[d] \notin emptied'[q]
      BY <2>1, <2>3 DEF HeldAt
    <2>4. ASSUME NEW q \in Producers, NEW e \in DOMAIN entry[q], entry[q][e].value # Null PROVE Leads(q, e)
      BY <2>4 DEF Leads
    <2>5. pc'[d] = pc[d] /\ loc'[d] = loc[d] /\ taken'[d] = taken[d] BY <1>2
    <2> QED BY <2>2, <2>3, <2>4, <2>5, HeldByOthers
  <1>5. HeldDiffer'
    <2>1. \A d \in Consumers : pc'[d] = pc[d] /\ loc'[d] = loc[d] BY <1>2
    <2> QED BY <1>1, <2>1 DEF HeldDiffer, Holding
  <1> QED BY <1>3, <1>4, <1>5 DEF IndexInv

\* A step that does not touch the block index.
LEMMA ProducerQuiet ==
  ASSUME QueueInv, IndexInv, NEW p \in Producers, UNCHANGED history, UNCHANGED <<header, entry, elementsCompletelyDequeued>>,
         \A t \in (Producers \cup Consumers) \ {p} : pc'[t] = pc[t] /\ loc'[t] = loc[t],
         DOMAIN loc'[p] = DOMAIN ProducerLocals, OwnerInv',
         Published(p)' = Published(p), \A n \in Int : Stored(p, n)' = Stored(p, n), SlotAt(p)'
  PROVE  IndexInv'
  <1>1. UNCHANGED <<num, shift, emptied, tails, heads, taken>> BY DEF history
  <1>2. IndexTypes /\ IndexAt(p) BY DEF IndexInv
  <1>3. IndexTypes' BY <1>1, <1>2 DEF IndexTypes
  <1>4. heads[p] \in Nat /\ heads'[p] \in Nat /\ heads'[p] >= heads[p]
    <2>1. heads[p] \in Nat BY DEF QueueInv, IndexType
    <2> QED BY <1>1, <2>1
  <1>5. \A e \in DOMAIN entry[p] : num[p][e] \in Int BY <1>2, Parts DEF IndexAt
  <1>6. IndexAt(p)' BY <1>1, <1>2, <1>4, <1>5, IndexKept
  <1>7. Grows(p) /\ \A e \in DOMAIN entry[p] : Leads(p, e) BY <1>1 DEF Grows, Valid, Leads
  <1> QED BY <1>1, <1>3, <1>6, <1>7, ProducerFrame

\* Where a step of a producer leads that does not touch the block index.
LEMMA QuietPlaces ==
  ASSUME QueueInv, IndexInv, NEW p \in Producers, tails' = tails, pc'[p] # "publish",
         \/ pc[p] \in {"idle", "room", "slot"} /\ pc'[p] \in {"idle", "room", "slot"}
         \/ pc[p] = "idle" /\ pc'[p] = "write" /\ tails[p] % BLOCK_SIZE # 0
         \/ pc[p] \in {"pool", "take", "free"} /\ pc'[p] \in {"take", "free", "store"} /\ loc'[p].slot = loc[p].slot
            /\ entry' = entry /\ num' = num
         \/ pc[p] = "write" /\ pc'[p] = "bump"
  PROVE  Published(p)' = Published(p) /\ (\A n \in Int : Stored(p, n)' = Stored(p, n)) /\ SlotAt(p)'
  <1>1. Filled(p)' = Filled(p) BY DEF Filled
  <1>2. SlotAt(p) BY DEF IndexInv, IndexAt
  <1>3. tails[p] \in Nat BY DEF QueueInv, IndexType
  <1>4. CASE pc[p] \in {"idle", "room", "slot"} /\ pc'[p] \in {"idle", "room", "slot"}
    BY <1>1, <1>4 DEF Published, Stored, SlotAt
  <1>5. CASE pc[p] = "idle" /\ pc'[p] = "write" /\ tails[p] % BLOCK_SIZE # 0
    <2>1. Published(p)' = Published(p) BY <1>1, <1>5 DEF Published, Filled
    <2>2. ASSUME NEW n \in Int PROVE n * BLOCK_SIZE # tails[p]
      <3>1. PICK b \in Nat \ {0} : b = BLOCK_SIZE BY RangeOfBlocks
      <3>2. SUFFICES ASSUME n * BLOCK_SIZE = tails[p] PROVE FALSE OBVIOUS
      <3>3. tails[p] \in Int /\ tails[p] = b * n BY <1>3, <3>1, <3>2
      <3>4. tails[p] % b = 0 BY <3>3, Multiple
      <3> QED BY <1>5, <3>1, <3>4
    <2>3. \A n \in Int : Stored(p, n)' = Stored(p, n) BY <1>5, <2>2 DEF Stored
    <2>4. SlotAt(p)' BY <1>5 DEF SlotAt
    <2> QED BY <2>1, <2>3, <2>4
  <1>6. CASE /\ pc[p] \in {"pool", "take", "free"} /\ pc'[p] \in {"take", "free", "store"} /\ loc'[p].slot = loc[p].slot
             /\ entry' = entry /\ num' = num
    BY <1>1, <1>2, <1>6 DEF Published, Stored, SlotAt, Valid
  <1>7. CASE pc[p] = "write" /\ pc'[p] = "bump"
    BY <1>1, <1>7 DEF Published, Stored, SlotAt
  <1> QED BY <1>4, <1>5, <1>6, <1>7

\* The producers' steps that do not touch the block index.
LEMMA QuietIndex ==
  ASSUME QueueInv, IndexInv, NEW p \in Producers, UNCHANGED history,
         \/ EnqueueBegin(p) \/ CheckRoom(p) \/ IndexFull(p) \/ LoadPool(p) \/ TakeFromPool(p)
         \/ TakeFree(p) \/ CreateBlock(p) \/ WriteElement(p)
  PROVE  IndexInv'
  <1>1. /\ DOMAIN pc = Producers \cup Consumers /\ DOMAIN loc = Producers \cup Consumers
        /\ pc[p] \in ProducerPlaces /\ DOMAIN loc[p] = DOMAIN ProducerLocals
    BY DEF QueueInv, LocalType, IndexInv, IndexTypes
  <1>2. UNCHANGED <<header, entry, elementsCompletelyDequeued, tails, num>>
    BY DEF EnqueueBegin, CheckRoom, IndexFull, LoadPool, TakeFromPool, TakeFree, CreateBlock, WriteElement,
           index, memory, history
  <1>3. /\ \A t \in (Producers \cup Consumers) \ {p} : pc'[t] = pc[t] /\ loc'[t] = loc[t]
        /\ DOMAIN loc'[p] = DOMAIN ProducerLocals
        /\ pc[p] # "off"
    BY <1>1 DEF EnqueueBegin, CheckRoom, IndexFull, LoadPool, TakeFromPool, TakeFree, CreateBlock, WriteElement,
                Goto, Leave, ProducerLocals
  <1>4. OwnerInv
    <2>1. ~Destroyed BY <1>3 DEF Destroyed
    <2> QED BY <2>1 DEF IndexInv
  <1>5. ASSUME OwnerInv', pc'[p] # "publish",
           \/ pc[p] \in {"idle", "room", "slot"} /\ pc'[p] \in {"idle", "room", "slot"}
           \/ pc[p] = "idle" /\ pc'[p] = "write" /\ tails[p] % BLOCK_SIZE # 0
           \/ pc[p] \in {"pool", "take", "free"} /\ pc'[p] \in {"take", "free", "store"} /\ loc'[p].slot = loc[p].slot
           \/ pc[p] = "write" /\ pc'[p] = "bump"
        PROVE  IndexInv'
    <2>1. Published(p)' = Published(p) /\ (\A n \in Int : Stored(p, n)' = Stored(p, n)) /\ SlotAt(p)'
      BY <1>2, <1>5, QuietPlaces
    <2> QED BY <1>2, <1>3, <1>5, <2>1, ProducerQuiet
  <1>6. ASSUME UNCHANGED <<initialBlockPoolIndex, freeList, allocated>>, pc'[p] # "store", pc'[p] # "release" PROVE OwnerInv'
    <2>1. \A t \in Producers \cup Consumers : pc'[t] \in {"store", "release"} => pc[t] = pc'[t] /\ loc'[t].block = loc[t].block
      BY <1>3, <1>6
    <2> QED BY <1>2, <1>4, <1>6, <2>1, OwnerIdle
  <1>7. CASE EnqueueBegin(p)
    <2>1. /\ pc[p] = "idle" /\ pc'[p] = (IF tails[p] % BLOCK_SIZE = 0 THEN "room" ELSE "write")
          /\ UNCHANGED <<initialBlockPoolIndex, freeList, allocated>>
      BY <1>1, <1>7, TailSlot DEF EnqueueBegin, pools
    <2> QED BY <1>5, <1>6, <2>1
  <1>8. CASE CheckRoom(p) \/ IndexFull(p)
    <2>1. /\ pc[p] \in {"room", "slot"} /\ pc'[p] \in {"slot", "idle"}
          /\ UNCHANGED <<initialBlockPoolIndex, freeList, allocated>>
      BY <1>1, <1>8 DEF CheckRoom, IndexFull, Leave, pools
    <2> QED BY <1>5, <1>6, <2>1
  <1>9. CASE LoadPool(p)
    <2>1. /\ pc[p] = "pool" /\ pc'[p] \in {"take", "free"} /\ loc'[p] = loc[p]
          /\ UNCHANGED <<initialBlockPoolIndex, freeList, allocated>>
      BY <1>1, <1>9 DEF LoadPool, Goto, pools
    <2> QED BY <1>5, <1>6, <2>1
  <1>10. CASE WriteElement(p)
    <2>1. pc[p] = "write" /\ pc'[p] = "bump" /\ UNCHANGED <<initialBlockPoolIndex, freeList, allocated>>
      BY <1>1, <1>10 DEF WriteElement, Goto, pools
    <2> QED BY <1>5, <1>6, <2>1
  <1>11. /\ initialBlockPoolIndex \in Nat /\ allocated \in PoolSize .. MaxBlocks /\ freeList \subseteq Taken
         /\ PoolSize \in Nat /\ MaxBlocks \in Nat
    BY <1>4, ImplicitQueueAssumption DEF OwnerInv
  <1>12. CASE TakeFromPool(p)
    <2>1. CASE initialBlockPoolIndex < PoolSize
      <3>1. PICK b \in Blocks : b = initialBlockPoolIndex + 1 BY <1>11, <2>1 DEF Blocks
      <3>2. /\ pc[p] = "take" /\ pc'[p] = "store" /\ loc'[p] = [loc[p] EXCEPT !.block = b]
            /\ initialBlockPoolIndex' = initialBlockPoolIndex + 1 /\ freeList' = freeList /\ allocated' = allocated
        BY <1>1, <1>12, <2>1, <3>1 DEF TakeFromPool
      <3>3. loc'[p].block = b /\ loc'[p].slot = loc[p].slot BY <1>1, <3>2 DEF ProducerLocals
      <3>4. b \notin Taken /\ Taken' = Taken \cup {b} BY <1>11, <2>1, <3>1, <3>2 DEF Taken
      <3>5. freeList' = freeList \ {b} BY <1>11, <3>2, <3>4
      <3>6. initialBlockPoolIndex' \in Nat /\ allocated' \in PoolSize .. MaxBlocks BY <1>11, <3>2
      <3>7. pc'[p] = "store" /\ entry' = entry BY <1>2, <3>2
      <3>8. OwnerInv' BY <1>3, <1>4, <3>3, <3>4, <3>5, <3>6, <3>7, OwnerTakes
      <3> QED BY <1>5, <3>2, <3>3, <3>8
    <2>2. CASE ~(initialBlockPoolIndex < PoolSize)
      <3>1. /\ pc[p] = "take" /\ pc'[p] = "free" /\ loc' = loc
            /\ initialBlockPoolIndex' = initialBlockPoolIndex + 1 /\ freeList' = freeList /\ allocated' = allocated
        BY <1>1, <1>12, <2>2 DEF TakeFromPool
      <3>2. Taken' = Taken BY <1>11, <2>2, <3>1 DEF Taken
      <3>3. \A t \in Producers \cup Consumers : pc'[t] \in {"store", "release"} => pc[t] = pc'[t] BY <1>3, <3>1
      <3>4. \A y : Entered(y)' = Entered(y) BY <1>2 DEF Entered
      <3>5. \A t \in Producers \cup Consumers : Entered(loc[t].block)' = Entered(loc[t].block) BY <1>2, <3>1 DEF Entered
      <3>6. OwnerInv' BY <1>2, <1>4, <1>11, <3>1, <3>2, <3>3, <3>4, <3>5 DEF OwnerInv, Stores, Releases
      <3> QED BY <1>5, <3>1, <3>6
    <2> QED BY <2>1, <2>2
  <1>13. CASE TakeFree(p)
    <2>1. PICK b \in freeList : freeList' = freeList \ {b} /\ loc' = [loc EXCEPT ![p].block = b]
      BY <1>13 DEF TakeFree
    <2>2. /\ pc[p] = "free" /\ pc'[p] = "store" /\ loc'[p].block = b /\ loc'[p].slot = loc[p].slot
          /\ initialBlockPoolIndex' = initialBlockPoolIndex /\ allocated' = allocated
      BY <1>1, <1>13, <2>1 DEF TakeFree, Goto, ProducerLocals
    <2>3. b \in Blocks /\ Taken' = Taken \cup {b}
      <3>1. b \in Taken /\ Taken' = Taken BY <1>11, <2>2 DEF Taken
      <3>2. b \in 1 .. allocated BY <3>1 DEF Taken
      <3> QED BY <1>11, <3>1, <3>2 DEF Blocks
    <2>4. OwnerInv' BY <1>2, <1>3, <1>4, <1>11, <2>1, <2>2, <2>3, OwnerTakes
    <2> QED BY <1>5, <2>2, <2>4
  <1>14. CASE CreateBlock(p)
    <2>1. allocated < MaxBlocks BY <1>14 DEF CreateBlock
    <2>2. PICK b \in Blocks : b = allocated + 1 BY <1>11, <2>1 DEF Blocks
    <2>3. /\ pc[p] = "free" /\ pc'[p] = "store" /\ loc'[p].block = b /\ loc'[p].slot = loc[p].slot
          /\ initialBlockPoolIndex' = initialBlockPoolIndex /\ allocated' = allocated + 1 /\ freeList' = freeList
      BY <1>1, <1>14, <2>2 DEF CreateBlock, Goto, ProducerLocals
    <2>4. b \notin Taken /\ Taken' = Taken \cup {b} /\ allocated' \in PoolSize .. MaxBlocks
      BY <1>11, <2>1, <2>2, <2>3 DEF Taken
    <2>5. freeList' = freeList \ {b} BY <1>11, <2>3, <2>4
    <2>6. OwnerInv' BY <1>2, <1>3, <1>4, <1>11, <2>3, <2>4, <2>5, OwnerTakes
    <2> QED BY <1>5, <2>3, <2>6
  <1> QED BY <1>7, <1>8, <1>9, <1>10, <1>12, <1>13, <1>14

\* A producer that is about to take the entry after the tail.
LEMMA NextAt ==
  ASSUME QueueInv, IndexInv, NEW p \in Producers, pc[p] \in {"slot", "publish"}
  PROVE  \E t \in Nat, n \in Nat \ {0, 1}, j \in DOMAIN header[p] :
           /\ t = Number(tails[p]) /\ tails[p] = t * BLOCK_SIZE /\ tails[p] % BLOCK_SIZE = 0 /\ tails[p] \in Nat
           /\ Filled(p) = t - 1 /\ Published(p) = t - 1
           /\ n = Len(entry[p]) /\ j = Len(header[p]) /\ n = Cap(j) /\ n = Capacity(Current(p))
           /\ Current(p).tail \in 0 .. n - 1 /\ Same((t - 1) + shift[p][j], Current(p).tail, n)
           /\ NextPosition(Current(p)) \in 0 .. n - 1 /\ Same(t + shift[p][j], NextPosition(Current(p)), n)
           /\ NextEntry(p) \in DOMAIN entry[p] /\ Same(num[p][NextEntry(p)], t, n)
           /\ num[p][NextEntry(p)] \in {t - n, t}
  <1>1. IndexTypes /\ IndexAt(p) /\ ShapeAt(p) BY DEF IndexInv, IndexAt
  <1>2. PICK j \in DOMAIN header[p] : j = Len(header[p]) BY <1>1, Parts
  <1>3. HeaderAt(p, j) BY <1>1 DEF IndexAt
  <1>4. PICK n \in Nat \ {0, 1} : n = Len(entry[p]) /\ n = Cap(j) BY <1>1, <1>2, Parts
  <1>5. tails[p] \in Nat /\ tails[p] % BLOCK_SIZE = 0 BY DEF QueueInv, IndexType, SizeInv
  <1>6. PICK t \in Nat : t = Number(tails[p]) /\ tails[p] = t * BLOCK_SIZE BY <1>5, NumberOf, KeyOf
  <1>7. Filled(p) = t - 1 /\ Published(p) = t - 1 BY <1>5, <1>6 DEF Filled, Published
  <1>8. PICK tail \in 0 .. n - 1 : tail = Current(p).tail BY <1>2, <1>3, <1>4 DEF HeaderAt, Current, blockIndex
  <1>9. Current(p) = header[p][j] /\ Capacity(Current(p)) = n
    <2>1. 0 \in 0 .. Cap(j) - 1 BY <1>4
    <2> QED BY <1>1, <1>2, <1>3, <1>4, <2>1, EntryOf DEF Current, blockIndex
  <1>10. PICK s \in Int : s = shift[p][j] BY <1>1, Parts
  <1>11. Same((t - 1) + s, tail, n) BY <1>1, <1>2, <1>4, <1>7, <1>8, <1>10 DEF ShapeAt
  <1>12. PICK pos \in 0 .. n - 1 : pos = (tail + 1) % n /\ pos = NextPosition(Current(p))
    BY <1>8, <1>9, Division DEF NextPosition
  <1>13. Same(t + s, pos, n)
    <2>1. /\ (t - 1) + s \in Int /\ tail \in Int /\ 1 \in Int /\ tail + 1 \in Int /\ pos \in Int /\ t + s \in Int
          /\ ((t - 1) + s) + 1 = t + s
      BY <1>8
    <2>2. Same(((t - 1) + s) + 1, tail + 1, n) BY <1>11, <2>1, SameAdd
    <2>3. Same(tail + 1, pos, n) BY <1>12, <2>1, SameRound
    <2> QED BY <2>1, <2>2, <2>3, SameIs
  <1>14. PICK e \in DOMAIN entry[p] : e = NextEntry(p) /\ e = header[p][j].index[pos + 1]
    <2>1. pos \in 0 .. Cap(j) - 1 BY <1>4
    <2>2. header[p][j].index[pos + 1] \in DOMAIN entry[p] BY <1>1, <1>3, <2>1, EntryOf
    <2> QED BY <1>9, <1>12, <2>2 DEF NextEntry
  <1>15. Same(num[p][e], t, n)
    <2>1. pos \in 0 .. Cap(j) - 1 /\ t \in Int BY <1>4
    <2> QED BY <1>1, <1>3, <1>4, <1>10, <1>13, <1>14, <2>1, NumberAt
  <1>16. PICK a \in Int : a = num[p][e] BY <1>1, Parts
  <1>17. a \in {t - n, t}
    <2>1. EntryAt(p, e) BY <1>1 DEF IndexAt
    <2>2. a \in ((t - 1) - n) + 1 .. t BY <1>4, <1>6, <1>7, <1>16, <2>1 DEF EntryAt
    <2>3. t \in Int /\ t - a < 2 * n /\ a - t < n BY <2>2
    <2>4. Same(t, a, n) BY <1>15, <1>16, <2>3, SameIs
    <2>5. t = a \/ t = a + n BY <2>3, <2>4, SameNear
    <2> QED BY <2>5
  <1> WITNESS t \in Nat, n \in Nat \ {0, 1}, j \in DOMAIN header[p]
  <1>18. /\ t = Number(tails[p]) /\ tails[p] = t * BLOCK_SIZE /\ tails[p] % BLOCK_SIZE = 0 /\ tails[p] \in Nat
         /\ Filled(p) = t - 1 /\ Published(p) = t - 1
         /\ n = Len(entry[p]) /\ j = Len(header[p]) /\ n = Cap(j) /\ n = Capacity(Current(p))
    BY <1>2, <1>4, <1>5, <1>6, <1>7, <1>9
  <1>19. /\ Current(p).tail \in 0 .. n - 1 /\ Same((t - 1) + shift[p][j], Current(p).tail, n)
         /\ NextPosition(Current(p)) \in 0 .. n - 1 /\ Same(t + shift[p][j], NextPosition(Current(p)), n)
    BY <1>8, <1>10, <1>11, <1>12, <1>13
  <1>20. /\ NextEntry(p) \in DOMAIN entry[p] /\ Same(num[p][NextEntry(p)], t, n)
         /\ num[p][NextEntry(p)] \in {t - n, t}
    BY <1>14, <1>15, <1>16, <1>17
  <1> QED BY <1>18, <1>19, <1>20

\* Blocks stay where they are, whatever else is written into the entries.
LEMMA OwnerValues ==
  ASSUME OwnerInv, QueueInv, UNCHANGED <<initialBlockPoolIndex, freeList, allocated>>,
         \A q \in Producers : \A f \in DOMAIN entry'[q] : entry'[q][f].value # Null =>
           f \in DOMAIN entry[q] /\ entry[q][f].value = entry'[q][f].value,
         \A t \in Producers \cup Consumers : pc'[t] \in {"store", "release"} =>
           pc[t] = pc'[t] /\ loc'[t].block = loc[t].block
  PROVE  OwnerInv'
  <1>1. \A y : y # Null /\ Entered(y)' => Entered(y) BY DEF Entered
  <1>2. Taken' = Taken BY DEF Taken
  <1>3. freeList \subseteq Taken /\ initialBlockPoolIndex \in Nat /\ allocated \in PoolSize .. MaxBlocks
    BY DEF OwnerInv
  <1>4. Null \notin Nat /\ MaxBlocks \in Nat BY ImplicitQueueAssumption
  <1>5. \A y \in Blocks : Entered(y)' => y \in Taken \ freeList BY <1>1, <1>4 DEF OwnerInv, Blocks
  <1>6. \A q, r \in Producers : \A f \in DOMAIN entry'[q], g \in DOMAIN entry'[r] :
          entry'[q][f].value = entry'[r][g].value /\ entry'[q][f].value # Null => q = r /\ f = g
    BY DEF OwnerInv
  <1>7. ASSUME NEW t \in Producers \cup Consumers, pc'[t] \in {"store", "release"}
        PROVE  loc'[t].block \in Taken \ freeList /\ ~Entered(loc[t].block)'
    <2>1. loc[t].block \in Taken \ freeList /\ ~Entered(loc[t].block) BY <1>7, Owned
    <2>2. loc[t].block \in 1 .. allocated BY <2>1 DEF Taken
    <2>3. PICK y : y = loc[t].block /\ y # Null BY <1>4, <2>2
    <2>4. ~Entered(y)' BY <1>1, <2>1, <2>3
    <2>5. loc'[t].block = y BY <1>7, <2>3
    <2> QED BY <2>1, <2>3, <2>4, <2>5 DEF Entered
  <1>8. \A t, u \in Producers \cup Consumers :
          t # u /\ pc'[t] \in {"store", "release"} /\ pc'[u] \in {"store", "release"} => loc'[t].block # loc'[u].block
    BY DEF OwnerInv
  <1> QED BY <1>2, <1>3, <1>5, <1>6, <1>7, <1>8 DEF OwnerInv, Stores, Releases, Entered

\* An entry is taken for the next block.
LEMMA InsertEntryIndex ==
  ASSUME QueueInv, IndexInv, NEW p \in Producers, HInsertEntry(p)
  PROVE  IndexInv'
  <1>1. pc[p] = "slot" BY DEF HInsertEntry, InsertEntry, Goto
  <1>2. PICK t \in Nat, n \in Nat \ {0, 1}, j \in DOMAIN header[p] :
           /\ t = Number(tails[p]) /\ tails[p] = t * BLOCK_SIZE /\ tails[p] % BLOCK_SIZE = 0 /\ tails[p] \in Nat
           /\ Filled(p) = t - 1 /\ Published(p) = t - 1
           /\ n = Len(entry[p]) /\ j = Len(header[p]) /\ n = Cap(j) /\ n = Capacity(Current(p))
           /\ NextEntry(p) \in DOMAIN entry[p] /\ Same(num[p][NextEntry(p)], t, n)
    BY <1>1, NextAt
  <1>3. PICK e \in DOMAIN entry[p] : e = NextEntry(p) /\ Same(num[p][e], t, n) BY <1>2
  <1>4. IndexTypes /\ IndexAt(p) /\ ShapeAt(p) /\ OwnerInv
    <2>1. ~Destroyed BY <1>1 DEF Destroyed
    <2> QED BY <2>1 DEF IndexInv, IndexAt
  <1>5. entry[p][e] \in [key : Nat, value : Blocks \cup {Null}] /\ num[p][e] \in Int BY <1>4, Parts
  <1>6. entry[p][e].value = Null
    <2>1. EntryAt(p, e) BY <1>4 DEF IndexAt
    <2> QED BY <1>3, <2>1 DEF HInsertEntry, InsertEntry, EntryFree, EntryAt, Valid
  <1>7. tailIndex[p] \in Nat /\ tailIndex[p] = (t * BLOCK_SIZE) % IndexRange /\ tailIndex[p] # INVALID_BLOCK_BASE
    <2>1. tailIndex[p] \in Nat /\ tailIndex[p] = tails[p] % IndexRange BY DEF QueueInv, IndexType, Wrapped
    <2> QED BY <1>2, <2>1, KeyOf
  <1> DEFINE x == [entry[p][e] EXCEPT !["key"] = tailIndex[p]]
  <1>8. x \in [key : Nat, value : Blocks \cup {Null}] /\ x.value = Null /\ x.key = tailIndex[p] BY <1>5, <1>6, <1>7
  <1>9. /\ entry' = [entry EXCEPT ![p] = [entry[p] EXCEPT ![e] = x]]
        /\ pc' = [pc EXCEPT ![p] = "publish"] /\ loc' = [loc EXCEPT ![p].slot = e]
        /\ UNCHANGED <<header, elementsCompletelyDequeued, initialBlockPoolIndex, freeList, allocated>>
    <2>1. entry' = [entry EXCEPT ![p][e].key = tailIndex[p]] BY <1>3 DEF HInsertEntry, InsertEntry
    <2>2. entry \in [Producers -> Seq([key : Nat, value : Blocks \cup {Null}])] BY <1>4 DEF IndexTypes
    <2> QED BY <1>3, <2>1, <2>2 DEF HInsertEntry, InsertEntry, Goto, memory, pools
  <1> HIDE DEF x
  <1>10. /\ UNCHANGED <<tails, heads, shift, emptied, taken>>
         /\ num' = [num EXCEPT ![p][e] = t]
    BY <1>2, <1>3 DEF HInsertEntry
  <1>11. /\ \A u \in (Producers \cup Consumers) \ {p} : pc'[u] = pc[u] /\ loc'[u] = loc[u]
         /\ pc'[p] = "publish" /\ loc'[p].slot = e /\ DOMAIN loc'[p] = DOMAIN ProducerLocals
    <2>1. /\ DOMAIN pc = Producers \cup Consumers /\ DOMAIN loc = Producers \cup Consumers
          /\ DOMAIN loc[p] = DOMAIN ProducerLocals /\ "slot" \in DOMAIN loc[p]
      BY <1>4 DEF QueueInv, LocalType, IndexTypes, ProducerLocals
    <2> QED BY <1>9, <2>1
  <1>12. /\ entry' \in [Producers -> Seq([key : Nat, value : Blocks \cup {Null}])]
         /\ Len(entry'[p]) = Len(entry[p]) /\ DOMAIN entry'[p] = DOMAIN entry[p] /\ entry'[p][e] = x
         /\ \A f \in DOMAIN entry[p] \ {e} : entry'[p][f] = entry[p][f]
         /\ \A q \in Producers \ {p} : entry'[q] = entry[q]
    BY <1>4, <1>8, <1>9, EntryWritten
  <1>13. /\ num' \in [Producers -> Seq(Int)] /\ Len(num'[p]) = Len(num[p]) /\ num'[p][e] = t
         /\ \A f \in DOMAIN entry[p] \ {e} : num'[p][f] = num[p][f]
         /\ \A q \in Producers \ {p} : num'[q] = num[q]
    <2>1. num \in [Producers -> Seq(Int)] /\ DOMAIN num[p] = DOMAIN entry[p] BY <1>4, Parts DEF IndexTypes
    <2>2. num[p] \in Seq(Int) /\ e \in 1 .. Len(num[p]) /\ t \in Int BY <2>1
    <2>3. [num[p] EXCEPT ![e] = t] \in Seq(Int) /\ Len([num[p] EXCEPT ![e] = t]) = Len(num[p]) BY <2>2
    <2> QED BY <1>10, <2>1, <2>2, <2>3
  <1>14. IndexTypes'
    <2>1. \A q \in Producers : DOMAIN loc'[q] = DOMAIN ProducerLocals BY <1>4, <1>11 DEF IndexTypes
    <2> QED BY <1>4, <1>9, <1>10, <1>12, <1>13, <2>1 DEF IndexTypes
  <1>15. \A f \in DOMAIN entry[p] : (Valid(p, f) => Valid(p, f)') /\ (f # e => Valid(p, f)' = Valid(p, f))
    BY <1>7, <1>8, <1>12 DEF Valid
  <1>16. header'[p] = header[p] /\ shift'[p] = shift[p] /\ emptied'[p] = emptied[p] /\ tails'[p] = tails[p]
         /\ heads'[p] = heads[p]
    BY <1>9, <1>10
  <1>17. Published(p)' = Published(p) /\ Filled(p)' = Filled(p) /\ \A k \in Int : Stored(p, k)' = Stored(p, k)
    BY <1>1, <1>11, <1>16 DEF Published, Filled, Stored
  <1>18. IndexAt(p)'
    <2>1. ShapeAt(p)' BY <1>4, <1>12, <1>13, <1>16, <1>17 DEF ShapeAt, Current, blockIndex
    <2>2. ASSUME NEW k \in DOMAIN header[p] PROVE HeaderAt(p, k)'
      <3>1. HeaderAt(p, k) BY <1>4 DEF IndexAt
      <3>2. header[p][k].tail \in 0 .. Cap(k) - 1 BY <3>1 DEF HeaderAt
      <3>3. header[p][k].index[header[p][k].tail + 1] \in DOMAIN entry[p] BY <1>4, <3>1, <3>2, EntryOf
      <3>4. PICK m \in Nat \ {0}, s \in Int : m = Cap(k) /\ s = shift[p][k] /\ n % m = 0
        <4>1. Cap(k) \in Nat \ {0} /\ shift[p][k] \in Int /\ n % Cap(k) = 0 BY <1>2, <1>4, Parts
        <4> QED BY <4>1
      <3>5. ASSUME NEW i \in 1 .. Cap(k) PROVE Same(num'[p][header[p][k].index[i]] + s, i - 1, m)
        <4>1. PICK f \in 1 .. Cap(k) : f = header[p][k].index[i] BY <3>1 DEF HeaderAt
        <4>2. f \in DOMAIN entry[p]
          <5>1. DOMAIN entry[p] = 1 .. Len(entry[p]) /\ Cap(k) <= Len(entry[p]) /\ Len(entry[p]) \in Nat BY <1>4, Parts
          <5> QED BY <3>4, <5>1
        <4>3. Same(num[p][f] + s, i - 1, m) BY <3>1, <3>4, <4>1 DEF HeaderAt
        <4>4. CASE f # e BY <1>13, <4>1, <4>2, <4>3, <4>4
        <4>5. CASE f = e
          <5>1. PICK a \in Int : a = num[p][e] BY <1>5
          <5>2. /\ t \in Int /\ s \in Int /\ n \in Nat \ {0} /\ a + s \in Int /\ t + s \in Int /\ i - 1 \in Int
                /\ Same(a + s, i - 1, m) /\ Same(a, t, n)
            BY <1>3, <3>4, <4>3, <4>5, <5>1
          <5>3. Same(a, t, m) BY <3>4, <5>2, SameSmaller
          <5>4. Same(a + s, t + s, m) BY <5>2, <5>3, SameAdd
          <5>5. Same(t + s, a + s, m) BY <5>2, <5>4, SameIs
          <5>6. Same(t + s, i - 1, m) BY <5>2, <5>5, SameIs
          <5> QED BY <1>13, <4>1, <4>5, <5>6
        <4> QED BY <4>4, <4>5
      <3>6. \A i \in 1 .. Cap(k) : Same(num'[p][header'[p][k].index[i]] + shift'[p][k], i - 1, Cap(k))
        BY <1>16, <3>4, <3>5
      <3>7. k # Len(header'[p]) => Valid(p, header[p][k].index[header[p][k].tail + 1])'
        <4>1. k # Len(header[p]) => Valid(p, header[p][k].index[header[p][k].tail + 1]) BY <3>1 DEF HeaderAt
        <4> QED BY <1>15, <1>16, <3>3, <4>1 DEF Valid
      <3> QED BY <1>16, <3>1, <3>6, <3>7 DEF HeaderAt
    <2>3. ASSUME NEW f \in DOMAIN entry[p] PROVE EntryAt(p, f)'
      <3>1. EntryAt(p, f) /\ num[p][f] \in Int BY <1>4, Parts DEF IndexAt
      <3>2. CASE f = e
        <4>1. t \in (Published(p) - Len(entry[p])) + 1 .. Number(tails[p])
          <5>1. t \in ((t - 1) - n) + 1 .. t OBVIOUS
          <5> QED BY <1>2, <5>1
        <4>2. t >= 0 /\ x.key = (t * BLOCK_SIZE) % IndexRange BY <1>7, <1>8
        <4>3. Valid(p, f)' BY <1>7, <1>8, <1>12, <3>2 DEF Valid
        <4> QED BY <1>8, <1>12, <1>13, <1>16, <1>17, <3>2, <4>1, <4>2, <4>3 DEF EntryAt
      <3>3. CASE f # e
        <4>1. num'[p][f] = num[p][f] /\ entry'[p][f] = entry[p][f] /\ Valid(p, f)' = Valid(p, f)
          BY <1>12, <1>13, <1>15, <3>3
        <4> QED BY <1>9, <1>12, <1>16, <1>17, <3>1, <4>1 DEF EntryAt
      <3> QED BY <3>2, <3>3
    <2>4. SlotAt(p)'
      <3>1. NextEntry(p)' = e BY <1>3, <1>16 DEF NextEntry, NextPosition, Current, blockIndex
      <3>2. Valid(p, e)' BY <1>7, <1>8, <1>12 DEF Valid
      <3> QED BY <1>2, <1>8, <1>11, <1>12, <1>13, <1>16, <3>1, <3>2 DEF SlotAt, Valid
    <2>5. KeptAt(p)'
      <3>1. KeptAt(p) BY <1>4 DEF IndexAt
      <3>2. SUFFICES ASSUME NEW k \in 0 .. Number(tails'[p]), Stored(p, k)', ~(BlockIndices(k) \subseteq emptied'[p])
                     PROVE  \E f \in DOMAIN entry'[p] : num'[p][f] = k /\ entry'[p][f].value # Null
        BY DEF KeptAt
      <3>3. k \in 0 .. Number(tails[p]) /\ Stored(p, k) /\ ~(BlockIndices(k) \subseteq emptied[p])
        BY <1>16, <1>17, <3>2
      <3>4. PICK f \in DOMAIN entry[p] : num[p][f] = k /\ entry[p][f].value # Null BY <3>1, <3>3 DEF KeptAt
      <3>5. f # e BY <1>6, <3>4
      <3> QED BY <1>12, <1>13, <3>4, <3>5
    <2>6. emptied'[p] \subseteq 0 .. heads'[p] - 1 BY <1>4, <1>16 DEF IndexAt
    <2> QED BY <1>12, <1>16, <2>1, <2>2, <2>3, <2>4, <2>5, <2>6 DEF IndexAt
  <1>19. Grows(p) BY <1>12, <1>15, <1>16 DEF Grows
  <1>20. \A f \in DOMAIN entry[p] : entry[p][f].value # Null => Leads(p, f) BY <1>6, <1>12, <1>13 DEF Leads
  <1>21. OwnerInv'
    <2>1. ASSUME NEW q \in Producers, NEW f \in DOMAIN entry'[q], entry'[q][f].value # Null
          PROVE  f \in DOMAIN entry[q] /\ entry[q][f].value = entry'[q][f].value
      BY <1>8, <1>12, <2>1
    <2>2. \A u \in Producers \cup Consumers : pc'[u] \in {"store", "release"} => pc[u] = pc'[u] /\ loc'[u].block = loc[u].block
      BY <1>11
    <2> QED BY <1>4, <1>9, <2>1, <2>2, OwnerValues
  <1>22. \A q \in Producers \ {p} : /\ header'[q] = header[q] /\ entry'[q] = entry[q] /\ num'[q] = num[q]
                                    /\ shift'[q] = shift[q] /\ tails'[q] = tails[q]
    BY <1>9, <1>10, <1>12, <1>13
  <1> QED BY <1>9, <1>10, <1>11, <1>14, <1>18, <1>19, <1>20, <1>21, <1>22, ProducerFrame

\* The tail of the current block index is moved to the entry of another block.
LEMMA TailMoves ==
  ASSUME QueueInv, IndexInv, NEW p \in Producers, pc[p] # "off", NEW n \in Nat, n = Len(entry[p]),
         NEW j \in DOMAIN header[p], j = Len(header[p]),
         NEW pos \in 0 .. n - 1, header' = [header EXCEPT ![p][j].tail = pos],
         UNCHANGED history, UNCHANGED <<entry, elementsCompletelyDequeued, initialBlockPoolIndex, freeList, allocated>>,
         \A u \in (Producers \cup Consumers) \ {p} : pc'[u] = pc[u] /\ loc'[u] = loc[u],
         DOMAIN loc'[p] = DOMAIN ProducerLocals, pc'[p] \notin {"store", "release", "publish"},
         NEW k \in Int, Published(p)' = k, Same(k + shift[p][j], pos, n), Published(p) \in Int,
         \A e \in DOMAIN entry[p] : num[p][e] \in (k - n) + 1 .. Number(tails[p]),
         \A m \in Int : Stored(p, m)' = Stored(p, m), SlotAt(p)'
  PROVE  IndexInv'
  <1>1. IndexTypes /\ IndexAt(p) /\ ShapeAt(p) /\ OwnerInv
    <2>1. ~Destroyed BY DEF Destroyed
    <2> QED BY <2>1 DEF IndexInv, IndexAt
  <1>2. n = Cap(j) BY <1>1, Parts
  <1>3. UNCHANGED <<tails, heads, num, shift, emptied, taken>> BY DEF history
  <1>4. header[p][j] \in [tail : Nat, index : Seq(Nat)] BY <1>1, Parts
  <1> DEFINE h == [header[p][j] EXCEPT !["tail"] = pos]
  <1>5. h \in [tail : Nat, index : Seq(Nat)] /\ h.tail = pos /\ h.index = header[p][j].index BY <1>4
  <1>6. header' = [header EXCEPT ![p] = [header[p] EXCEPT ![j] = h]]
    <2>1. header \in [Producers -> Seq([tail : Nat, index : Seq(Nat)])] BY <1>1 DEF IndexTypes
    <2> QED BY <2>1
  <1> HIDE DEF h
  <1>7. /\ header' \in [Producers -> Seq([tail : Nat, index : Seq(Nat)])]
        /\ Len(header'[p]) = Len(header[p]) /\ DOMAIN header'[p] = DOMAIN header[p]
        /\ header'[p][j] = h /\ \A i \in DOMAIN header[p] \ {j} : header'[p][i] = header[p][i]
        /\ \A q \in Producers \ {p} : header'[q] = header[q]
    <2>1. header \in [Producers -> Seq([tail : Nat, index : Seq(Nat)])] BY <1>1 DEF IndexTypes
    <2>2. header[p] \in Seq([tail : Nat, index : Seq(Nat)]) /\ j \in 1 .. Len(header[p]) BY <2>1
    <2>3. /\ [header[p] EXCEPT ![j] = h] \in Seq([tail : Nat, index : Seq(Nat)])
          /\ Len([header[p] EXCEPT ![j] = h]) = Len(header[p])
      BY <1>5, <2>2
    <2>4. /\ header'[p] = [header[p] EXCEPT ![j] = h] /\ \A q \in Producers \ {p} : header'[q] = header[q]
          /\ header' = [q \in Producers |-> header'[q]]
      BY <1>6, <2>1
    <2>5. \A q \in Producers : header'[q] \in Seq([tail : Nat, index : Seq(Nat)]) BY <2>1, <2>3, <2>4
    <2>6. header' \in [Producers -> Seq([tail : Nat, index : Seq(Nat)])] BY <2>4, <2>5
    <2>7. header'[p][j] = h /\ \A i \in DOMAIN header[p] \ {j} : header'[p][i] = header[p][i] BY <2>2, <2>4
    <2>8. DOMAIN header'[p] = DOMAIN header[p] BY <2>4
    <2> QED BY <2>3, <2>4, <2>6, <2>7, <2>8
  <1>8. IndexTypes'
    <2>1. \A q \in Producers : DOMAIN loc'[q] = DOMAIN ProducerLocals BY <1>1 DEF IndexTypes
    <2> QED BY <1>1, <1>3, <1>7, <2>1 DEF IndexTypes
  <1>9. Filled(p)' = Filled(p) /\ \A f \in DOMAIN entry[p] : Valid(p, f)' = Valid(p, f) BY <1>3 DEF Filled, Valid
  <1>10. IndexAt(p)'
    <2>1. ShapeAt(p)'
      <3>1. Current(p)'.tail = pos BY <1>5, <1>7 DEF Current, blockIndex
      <3> QED BY <1>1, <1>3, <1>7, <3>1 DEF ShapeAt
    <2>2. ASSUME NEW i \in DOMAIN header[p] PROVE HeaderAt(p, i)'
      <3>1. HeaderAt(p, i) BY <1>1 DEF IndexAt
      <3>2. CASE i # j BY <1>3, <1>7, <3>1, <3>2 DEF HeaderAt, Valid
      <3>3. CASE i = j
        <4>1. header'[p][i].tail \in 0 .. Cap(i) - 1 /\ header'[p][i].index = header[p][i].index /\ i = Len(header'[p])
          BY <1>2, <1>5, <1>7, <3>3
        <4> QED BY <1>3, <3>1, <4>1 DEF HeaderAt
      <3> QED BY <3>2, <3>3
    <2>3. ASSUME NEW f \in DOMAIN entry[p] PROVE EntryAt(p, f)'
      <3>1. EntryAt(p, f) /\ num[p][f] \in Int BY <1>1, Parts DEF IndexAt
      <3> QED BY <1>3, <1>9, <3>1 DEF EntryAt
    <2>4. KeptAt(p)'
      <3>1. KeptAt(p) BY <1>1 DEF IndexAt
      <3> QED BY <1>3, <3>1 DEF KeptAt
    <2>5. emptied'[p] \subseteq 0 .. heads'[p] - 1 BY <1>1, <1>3 DEF IndexAt
    <2> QED BY <1>7, <2>1, <2>2, <2>3, <2>4, <2>5 DEF IndexAt
  <1>11. Grows(p) BY <1>5, <1>7, <1>9 DEF Grows
  <1>12. \A f \in DOMAIN entry[p] : Leads(p, f) BY <1>3 DEF Leads
  <1>13. OwnerInv'
    <2>1. \A u \in Producers \cup Consumers : pc'[u] \in {"store", "release"} => pc[u] = pc'[u] /\ loc'[u].block = loc[u].block
      OBVIOUS
    <2> QED BY <1>1, <2>1, OwnerIdle
  <1> QED BY <1>3, <1>7, <1>8, <1>10, <1>11, <1>12, <1>13, ProducerFrame

\* The entry that was taken is now the one at the tail, and the oldest one is not used any more.
LEMMA PublishEntryIndex ==
  ASSUME QueueInv, IndexInv, NEW p \in Producers, PublishEntry(p), UNCHANGED history
  PROVE  IndexInv'
  <1>1. pc[p] = "publish" BY DEF PublishEntry, Goto
  <1>2. PICK t \in Nat, n \in Nat \ {0, 1}, j \in DOMAIN header[p] :
           /\ t = Number(tails[p]) /\ tails[p] = t * BLOCK_SIZE /\ tails[p] % BLOCK_SIZE = 0 /\ tails[p] \in Nat
           /\ Filled(p) = t - 1 /\ Published(p) = t - 1
           /\ n = Len(entry[p]) /\ j = Len(header[p])
           /\ NextPosition(Current(p)) \in 0 .. n - 1 /\ Same(t + shift[p][j], NextPosition(Current(p)), n)
    BY <1>1, NextAt
  <1>3. IndexTypes /\ IndexAt(p) /\ ShapeAt(p) /\ SlotAt(p) /\ HeaderAt(p, j) BY <1>2 DEF IndexInv, IndexAt
  <1>4. PICK e \in DOMAIN entry[p] : e = loc[p].slot /\ num[p][e] = t BY <1>1, <1>2, <1>3 DEF SlotAt
  <1>5. PICK pos \in 0 .. n - 1 : pos = NextPosition(Current(p)) BY <1>2
  <1>6. /\ header' = [header EXCEPT ![p][j].tail = pos] /\ loc' = loc /\ pc' = [pc EXCEPT ![p] = "pool"]
        /\ UNCHANGED <<entry, elementsCompletelyDequeued, initialBlockPoolIndex, freeList, allocated>>
    BY <1>2, <1>5 DEF PublishEntry, Goto, blockIndex, memory, pools
  <1>7. /\ \A u \in (Producers \cup Consumers) \ {p} : pc'[u] = pc[u] /\ loc'[u] = loc[u]
        /\ pc'[p] = "pool" /\ DOMAIN loc'[p] = DOMAIN ProducerLocals
    <2>1. DOMAIN pc = Producers \cup Consumers /\ DOMAIN loc[p] = DOMAIN ProducerLocals
      BY <1>3 DEF QueueInv, LocalType, IndexTypes
    <2> QED BY <1>6, <2>1
  <1>8. tails' = tails /\ num' = num BY DEF history
  <1>9. Published(p)' = t /\ (\A m \in Int : Stored(p, m)' = Stored(p, m)) /\ SlotAt(p)'
    BY <1>1, <1>2, <1>3, <1>6, <1>7, <1>8 DEF Published, Stored, SlotAt, Valid
  <1>10. ASSUME NEW f \in DOMAIN entry[p] PROVE num[p][f] \in (t - n) + 1 .. Number(tails[p])
    <2>1. PICK a \in Int : a = num[p][f] BY <1>3, Parts
    <2>2. EntryAt(p, f) BY <1>3 DEF IndexAt
    <2>3. a \in ((t - 1) - n) + 1 .. t BY <1>2, <2>1, <2>2 DEF EntryAt
    <2>4. a # t - n
      <3>1. SUFFICES ASSUME a = t - n PROVE FALSE OBVIOUS
      <3>2. t \in Int /\ n \in Nat \ {0} /\ -1 \in Int /\ a = t + n * (-1) BY <3>1
      <3>3. Same(a, t, n) BY <3>2, SameRound
      <3>4. Same(num[p][f], num[p][e], Len(entry[p])) BY <1>2, <1>4, <2>1, <3>3
      <3>5. f = e BY <1>2, <1>3, <3>4, OneEntry
      <3>6. a = t BY <1>4, <2>1, <3>5
      <3>7. t - n # t BY <3>2
      <3> QED BY <3>1, <3>6, <3>7
    <2>5. a \in (t - n) + 1 .. t BY <2>3, <2>4
    <2> QED BY <1>2, <2>1, <2>5
  <1>11. t \in Int /\ n \in Nat /\ Published(p) \in Int /\ n = Len(entry[p]) /\ j = Len(header[p])
    <2>1. t - 1 \in Int /\ t \in Int /\ n \in Nat OBVIOUS
    <2> QED BY <1>2, <2>1, Zenon
  <1>12. Same(t + shift[p][j], pos, n) BY <1>2, <1>5
  <1>13. pc[p] # "off" /\ pc'[p] \notin {"store", "release", "publish"} BY <1>1, <1>7
  <1> QED BY <1>6, <1>7, <1>9, <1>10, <1>11, <1>12, <1>13, TailMoves

\* The entry is given up: the one before it is at the tail again.
LEMMA NoBlockIndex ==
  ASSUME QueueInv, IndexInv, NEW p \in Producers, NoBlock(p), UNCHANGED history
  PROVE  IndexInv'
  <1>1. pc[p] = "free" BY DEF NoBlock
  <1>2. IndexTypes /\ IndexAt(p) /\ ShapeAt(p) /\ SlotAt(p) BY DEF IndexInv, IndexAt
  <1>3. PICK j \in DOMAIN header[p], n \in Nat \ {0, 1} : j = Len(header[p]) /\ n = Len(entry[p]) /\ n = Cap(j)
    <2>1. /\ Len(header[p]) \in 1 .. MaxHeaders /\ DOMAIN header[p] = 1 .. Len(header[p])
          /\ Len(entry[p]) = Cap(Len(header[p])) /\ Len(entry[p]) \in Nat \ {0, 1}
      BY <1>2, Parts, Zenon
    <2>2. Len(header[p]) \in DOMAIN header[p] BY <2>1
    <2> QED BY <2>1, <2>2, Zenon
  <1>4. HeaderAt(p, j) BY <1>2 DEF IndexAt
  <1>5. PICK t \in Nat : t = Number(tails[p]) /\ Published(p) = t /\ tails[p] % BLOCK_SIZE = 0
    <2>1. tails[p] \in Nat /\ tails[p] % BLOCK_SIZE = 0 BY <1>1 DEF QueueInv, IndexType, SizeInv
    <2>2. Number(tails[p]) \in Nat BY <2>1, NumberOf
    <2> QED BY <1>1, <2>1, <2>2 DEF Published
  <1>6. /\ Current(p) = header[p][j] /\ Capacity(Current(p)) = n /\ header[p][j].tail \in 0 .. n - 1
        /\ shift[p][j] \in Int
    <2>1. 0 \in 0 .. Cap(j) - 1 BY <1>3
    <2> QED BY <1>2, <1>3, <1>4, <2>1, EntryOf, Parts DEF Current, blockIndex
  <1>7. PICK tail \in Int, s \in Int : tail = header[p][j].tail /\ s = shift[p][j] BY <1>6
  <1>8. Same(t + s, tail, n) BY <1>2, <1>3, <1>5, <1>6, <1>7 DEF ShapeAt
  <1>9. PICK pos \in 0 .. n - 1 : pos = (tail - 1) % n BY Division
  <1>10. Same((t - 1) + s, pos, n)
    <2>1. /\ t + s \in Int /\ 1 \in Int /\ tail - 1 \in Int /\ pos \in Int /\ (t - 1) + s \in Int
          /\ (t + s) - 1 = (t - 1) + s
      OBVIOUS
    <2>2. Same((t + s) - 1, tail - 1, n) BY <1>8, <2>1, SameAdd
    <2>3. Same(tail - 1, pos, n) BY <1>9, <2>1, SameRound
    <2> QED BY <2>1, <2>2, <2>3, SameIs
  <1>11. entry' = entry
    <2>1. PICK e \in DOMAIN entry[p] : e = loc[p].slot /\ entry[p][e].value = Null BY <1>1, <1>2 DEF SlotAt
    <2>2. entry[p][e] \in [key : Nat, value : Blocks \cup {Null}] BY <1>2, Parts
    <2>3. [entry[p][e] EXCEPT !["value"] = Null] = entry[p][e] BY <2>1, <2>2
    <2>4. entry \in [Producers -> Seq([key : Nat, value : Blocks \cup {Null}])] BY <1>2 DEF IndexTypes
    <2>5. entry' = [entry EXCEPT ![p] = [entry[p] EXCEPT ![e] = [entry[p][e] EXCEPT !["value"] = Null]]]
      BY <2>1, <2>4 DEF NoBlock
    <2>6. entry' = [entry EXCEPT ![p] = [entry[p] EXCEPT ![e] = entry[p][e]]] BY <2>3, <2>5
    <2>7. entry[p] \in Seq([key : Nat, value : Blocks \cup {Null}]) BY <2>4
    <2>8. [entry[p] EXCEPT ![e] = entry[p][e]] = entry[p] BY <2>7
    <2> QED BY <2>4, <2>6, <2>8
  <1>12. /\ header' = [header EXCEPT ![p][j].tail = pos]
         /\ pc' = [pc EXCEPT ![p] = "idle"] /\ loc' = [loc EXCEPT ![p] = ProducerLocals]
         /\ UNCHANGED <<elementsCompletelyDequeued, initialBlockPoolIndex, freeList, allocated>>
    <2>1. header' = [header EXCEPT ![p][j].tail = (header[p][j].tail - 1) % n]
      BY <1>3, <1>6 DEF NoBlock, rewind_block_index_tail, blockIndex
    <2>2. header' = [header EXCEPT ![p][j].tail = pos] BY <1>7, <1>9, <2>1
    <2> QED BY <2>2 DEF NoBlock, Leave, memory, pools
  <1>13. /\ \A u \in (Producers \cup Consumers) \ {p} : pc'[u] = pc[u] /\ loc'[u] = loc[u]
         /\ pc'[p] = "idle" /\ DOMAIN loc'[p] = DOMAIN ProducerLocals
    <2>1. DOMAIN pc = Producers \cup Consumers /\ DOMAIN loc = Producers \cup Consumers BY DEF QueueInv, LocalType
    <2> QED BY <1>12, <2>1
  <1>14. tails' = tails /\ num' = num BY DEF history
  <1>15. Published(p)' = t - 1 /\ (\A m \in Int : Stored(p, m)' = Stored(p, m)) /\ SlotAt(p)'
    BY <1>1, <1>5, <1>13, <1>14 DEF Published, Filled, Stored, SlotAt
  <1>16. ASSUME NEW f \in DOMAIN entry[p] PROVE num[p][f] \in ((t - 1) - n) + 1 .. Number(tails[p])
    <2>1. EntryAt(p, f) BY <1>2 DEF IndexAt
    <2>2. PICK a \in Int : a = num[p][f] BY <1>2, Parts
    <2>3. a \in (t - n) + 1 .. t BY <1>3, <1>5, <2>1, <2>2 DEF EntryAt
    <2>4. a \in ((t - 1) - n) + 1 .. t BY <2>3
    <2> QED BY <1>5, <2>2, <2>4
  <1>17. t - 1 \in Int /\ n \in Nat /\ t \in Int OBVIOUS
  <1>18. Published(p) \in Int BY <1>5, <1>17, Zenon
  <1>19. pc[p] # "off" /\ pc'[p] \notin {"store", "release", "publish"} BY <1>1, <1>13
  <1>20. Same((t - 1) + shift[p][j], pos, n) BY <1>7, <1>10
  <1> QED BY <1>3, <1>11, <1>12, <1>13, <1>15, <1>16, <1>17, <1>18, <1>19, <1>20, TailMoves

\* A block that goes into the index has no elements yet that have been dequeued.
LEMMA StoreBlockIndex ==
  ASSUME QueueInv, IndexInv, NEW p \in Producers, StoreBlock(p), UNCHANGED history
  PROVE  IndexInv'
  <1>1. pc[p] = "store" BY DEF StoreBlock, Goto
  <1>2. IndexTypes /\ IndexAt(p) /\ ShapeAt(p) /\ SlotAt(p) /\ OwnerInv
    <2>1. ~Destroyed BY <1>1 DEF Destroyed
    <2> QED BY <2>1 DEF IndexInv, IndexAt
  <1>3. tails[p] \in Nat /\ tails[p] % BLOCK_SIZE = 0 BY <1>1 DEF QueueInv, IndexType, SizeInv
  <1>4. PICK t \in Nat : t = Number(tails[p]) /\ tails[p] = t * BLOCK_SIZE BY <1>3, NumberOf, KeyOf
  <1>5. PICK e \in DOMAIN entry[p] : e = loc[p].slot /\ num[p][e] = t /\ entry[p][e].value = Null /\ Valid(p, e)
    BY <1>1, <1>2, <1>4 DEF SlotAt
  <1>6. /\ loc[p].block \in Taken \ freeList /\ ~Entered(loc[p].block) /\ Null \notin Blocks
        /\ \A y \in Taken : y \in Blocks
    <2>1. loc[p].block \in Taken \ freeList /\ ~Entered(loc[p].block) BY <1>1, <1>2, Owned
    <2>2. Null \notin Nat /\ MaxBlocks \in Nat /\ PoolSize \in Nat BY ImplicitQueueAssumption
    <2>3. allocated \in PoolSize .. MaxBlocks BY <1>2 DEF OwnerInv
    <2>4. \A y \in Taken : y \in 1 .. allocated BY DEF Taken
    <2> QED BY <2>1, <2>2, <2>3, <2>4 DEF Blocks
  <1>7. PICK b \in Blocks : b = loc[p].block /\ b \in Taken \ freeList /\ ~Entered(b) /\ b # Null BY <1>6
  <1>8. entry[p][e] \in [key : Nat, value : Blocks \cup {Null}] BY <1>2, Parts
  <1> DEFINE x == [entry[p][e] EXCEPT !["value"] = b]
  <1>9. x \in [key : Nat, value : Blocks \cup {Null}] /\ x.value = b /\ x.key = entry[p][e].key BY <1>8
  <1>10. /\ entry' = [entry EXCEPT ![p] = [entry[p] EXCEPT ![e] = x]]
         /\ pc' = [pc EXCEPT ![p] = "write"] /\ loc' = [loc EXCEPT ![p] = ProducerLocals]
         /\ UNCHANGED <<header, initialBlockPoolIndex, freeList, allocated>>
         /\ elementsCompletelyDequeued' = [elementsCompletelyDequeued EXCEPT ![b] = 0]
    <2>1. entry' = [entry EXCEPT ![p][e].value = b] BY <1>5, <1>7 DEF StoreBlock
    <2>2. entry \in [Producers -> Seq([key : Nat, value : Blocks \cup {Null}])] BY <1>2 DEF IndexTypes
    <2> QED BY <1>7, <2>1, <2>2 DEF StoreBlock, Goto, pools, reset_empty
  <1> HIDE DEF x
  <1>11. UNCHANGED <<tails, heads, num, shift, emptied, taken>> BY DEF history
  <1>12. /\ \A u \in (Producers \cup Consumers) \ {p} : pc'[u] = pc[u] /\ loc'[u] = loc[u]
         /\ pc'[p] = "write" /\ DOMAIN loc'[p] = DOMAIN ProducerLocals
    <2>1. DOMAIN pc = Producers \cup Consumers /\ DOMAIN loc = Producers \cup Consumers BY DEF QueueInv, LocalType
    <2> QED BY <1>10, <2>1
  <1>13. /\ entry' \in [Producers -> Seq([key : Nat, value : Blocks \cup {Null}])]
         /\ Len(entry'[p]) = Len(entry[p]) /\ DOMAIN entry'[p] = DOMAIN entry[p] /\ entry'[p][e] = x
         /\ \A f \in DOMAIN entry[p] \ {e} : entry'[p][f] = entry[p][f]
         /\ \A q \in Producers \ {p} : entry'[q] = entry[q]
    BY <1>2, <1>9, <1>10, EntryWritten
  <1>14. /\ elementsCompletelyDequeued' \in [Blocks -> Nat] /\ elementsCompletelyDequeued'[b] = 0
         /\ \A y \in Blocks \ {b} : elementsCompletelyDequeued'[y] = elementsCompletelyDequeued[y]
    <2>1. elementsCompletelyDequeued \in [Blocks -> Nat] BY <1>2 DEF IndexTypes
    <2> QED BY <1>10, <2>1
  <1>15. IndexTypes'
    <2>1. \A q \in Producers : DOMAIN loc'[q] = DOMAIN ProducerLocals BY <1>2, <1>12 DEF IndexTypes
    <2> QED BY <1>2, <1>10, <1>11, <1>13, <1>14, <2>1 DEF IndexTypes
  <1>16. ASSUME NEW q \in Producers, NEW f \in DOMAIN entry[q], entry[q][f].value # Null
         PROVE  elementsCompletelyDequeued'[entry[q][f].value] = elementsCompletelyDequeued[entry[q][f].value]
    <2>1. entry[q][f].value # b BY <1>7 DEF Entered
    <2>2. ShapeAt(q) BY DEF IndexInv, IndexAt
    <2>3. entry[q][f] \in [key : Nat, value : Blocks \cup {Null}] BY <1>2, <2>2, Parts
    <2>4. entry[q][f].value \in Blocks BY <1>16, <2>3
    <2> QED BY <1>14, <2>1, <2>4
  <1>17. \A f \in DOMAIN entry[p] : Valid(p, f)' = Valid(p, f) BY <1>9, <1>13 DEF Valid
  <1>18. header'[p] = header[p] /\ num'[p] = num[p] /\ shift'[p] = shift[p] /\ emptied'[p] = emptied[p]
         /\ tails'[p] = tails[p] /\ heads'[p] = heads[p]
    BY <1>10, <1>11
  <1>19. /\ Published(p)' = Published(p) /\ Filled(p)' = Filled(p)
         /\ \A k \in Int : Stored(p, k)' <=> Stored(p, k) \/ k * BLOCK_SIZE = tails[p]
    BY <1>1, <1>12, <1>18 DEF Published, Filled, Stored
  <1>20. IndexAt(p)'
    <2>1. ShapeAt(p)' BY <1>2, <1>13, <1>18, <1>19 DEF ShapeAt, Current, blockIndex
    <2>2. ASSUME NEW j \in DOMAIN header[p] PROVE HeaderAt(p, j)'
      <3>1. HeaderAt(p, j) BY <1>2 DEF IndexAt
      <3>2. header[p][j].tail \in 0 .. Cap(j) - 1 BY <3>1 DEF HeaderAt
      <3>3. header[p][j].index[header[p][j].tail + 1] \in DOMAIN entry[p] BY <1>2, <3>1, <3>2, EntryOf
      <3> QED BY <1>17, <1>18, <3>1, <3>3 DEF HeaderAt
    <2>3. ASSUME NEW f \in DOMAIN entry[p] PROVE EntryAt(p, f)'
      <3>1. EntryAt(p, f) /\ num[p][f] \in Int BY <1>2, Parts DEF IndexAt
      <3>2. CASE f = e
        <4>1. Stored(p, t)' BY <1>4, <1>19
        <4>2. emptied[p] \cap BlockIndices(t) = {}
          <5>1. emptied[p] \subseteq 0 .. heads[p] - 1 BY <1>2 DEF IndexAt
          <5>2. heads[p] \in Nat /\ heads[p] <= tails[p] BY GrantsFit DEF QueueInv, ClaimInv, IndexType
          <5>3. PICK i \in Nat, d \in Nat : i = t * BLOCK_SIZE /\ d = BLOCK_SIZE BY <1>3, <1>4, RangeOfBlocks
          <5>4. BlockIndices(t) = i .. (i + d) - 1 BY <5>3 DEF BlockIndices
          <5>5. tails[p] = i BY <1>4, <5>3
          <5> QED BY <5>1, <5>2, <5>4, <5>5
        <4>3. elementsCompletelyDequeued'[b] = Cardinality(emptied[p] \cap BlockIndices(t))
          BY <1>14, <4>2, FS_EmptySet
        <4>4. Valid(p, e)' BY <1>5, <1>17
        <4> QED BY <1>5, <1>9, <1>13, <1>18, <1>19, <3>1, <3>2, <4>1, <4>3, <4>4 DEF EntryAt
      <3>3. CASE f # e
        <4>1. entry'[p][f] = entry[p][f] /\ Valid(p, f)' = Valid(p, f) BY <1>13, <1>17, <3>3
        <4> QED BY <1>13, <1>16, <1>18, <1>19, <3>1, <4>1 DEF EntryAt
      <3> QED BY <3>2, <3>3
    <2>4. SlotAt(p)' BY <1>12 DEF SlotAt
    <2>5. KeptAt(p)'
      <3>1. KeptAt(p) BY <1>2 DEF IndexAt
      <3>2. SUFFICES ASSUME NEW k \in 0 .. Number(tails'[p]), Stored(p, k)', ~(BlockIndices(k) \subseteq emptied'[p])
                     PROVE  \E f \in DOMAIN entry'[p] : num'[p][f] = k /\ entry'[p][f].value # Null
        BY DEF KeptAt
      <3>3. k \in 0 .. t /\ k \in Nat /\ ~(BlockIndices(k) \subseteq emptied[p]) BY <1>4, <1>18, <3>2
      <3>4. CASE Stored(p, k)
        <4>1. PICK f \in DOMAIN entry[p] : num[p][f] = k /\ entry[p][f].value # Null
          BY <1>4, <3>1, <3>3, <3>4 DEF KeptAt
        <4> QED BY <1>5, <1>13, <1>18, <4>1
      <3>5. CASE k * BLOCK_SIZE = tails[p]
        <4>1. PICK i \in Nat, d \in Nat \ {0} : i = tails[p] /\ d = BLOCK_SIZE BY <1>3, RangeOfBlocks
        <4>2. BlockIndices(k) = i .. (i + d) - 1 BY <3>5, <4>1 DEF BlockIndices
        <4>3. tails[p] \in BlockIndices(k) BY <4>1, <4>2
        <4>4. k = t BY <1>3, <1>4, <3>3, <4>3, IndicesOf
        <4> QED BY <1>5, <1>7, <1>9, <1>13, <1>18, <4>4
      <3>6. k \in Int BY <3>3
      <3> QED BY <1>19, <3>2, <3>4, <3>5, <3>6
    <2>6. emptied'[p] \subseteq 0 .. heads'[p] - 1 BY <1>2, <1>18 DEF IndexAt
    <2> QED BY <1>13, <1>18, <2>1, <2>2, <2>3, <2>4, <2>5, <2>6 DEF IndexAt
  <1>21. Grows(p) BY <1>13, <1>17, <1>18 DEF Grows
  <1>22. \A f \in DOMAIN entry[p] : entry[p][f].value # Null => Leads(p, f) BY <1>5, <1>13, <1>18 DEF Leads
  <1>23. OwnerInv'
    <2>1. ASSUME NEW q \in Producers, NEW f \in DOMAIN entry'[q], entry'[q][f].value # Null
          PROVE  f \in DOMAIN entry[q] /\ \/ q = p /\ f = e /\ entry'[q][f].value = b
                                          \/ entry[q][f].value = entry'[q][f].value /\ entry[q][f].value # b
      <3>1. f \in DOMAIN entry[q] BY <1>13
      <3>2. entry[q][f].value # b BY <1>7, <3>1 DEF Entered
      <3> QED BY <1>9, <1>13, <2>1, <3>1, <3>2
    <2>2. \A y : y # Null /\ Entered(y)' => Entered(y) \/ y = b BY <2>1 DEF Entered
    <2>3. Taken' = Taken BY <1>10 DEF Taken
    <2>4. freeList \subseteq Taken /\ initialBlockPoolIndex \in Nat /\ allocated \in PoolSize .. MaxBlocks
      BY <1>2 DEF OwnerInv
    <2>5. \A y \in Blocks : Entered(y)' => y \in Taken \ freeList BY <1>2, <1>6, <1>7, <2>2 DEF OwnerInv
    <2>6. \A q, r \in Producers : \A f \in DOMAIN entry'[q], g \in DOMAIN entry'[r] :
            entry'[q][f].value = entry'[r][g].value /\ entry'[q][f].value # Null => q = r /\ f = g
      BY <1>2, <2>1 DEF OwnerInv
    <2>7. ASSUME NEW u \in Producers \cup Consumers, pc'[u] \in {"store", "release"}
          PROVE  u # p /\ pc[u] = pc'[u] /\ loc'[u] = loc[u] /\ loc[u].block \in Taken \ freeList /\ ~Entered(loc[u].block)'
      <3>1. u # p /\ pc[u] = pc'[u] /\ loc'[u] = loc[u] BY <1>12, <2>7
      <3>2. loc[u].block \in Taken \ freeList /\ ~Entered(loc[u].block) BY <1>2, <2>7, <3>1, Owned
      <3>3. loc[u].block # b BY <1>1, <1>2, <1>7, <2>7, <3>1 DEF OwnerInv
      <3>4. PICK y : y = loc[u].block /\ y # Null BY <1>6, <3>2
      <3>5. ~Entered(y)' BY <2>2, <3>2, <3>3, <3>4
      <3> QED BY <3>1, <3>2, <3>4, <3>5 DEF Entered
    <2>8. \A u, v \in Producers \cup Consumers :
            u # v /\ pc'[u] \in {"store", "release"} /\ pc'[v] \in {"store", "release"} => loc'[u].block # loc'[v].block
      BY <1>2, <2>7 DEF OwnerInv
    <2> QED BY <1>10, <2>3, <2>4, <2>5, <2>6, <2>7, <2>8 DEF OwnerInv, Stores, Releases, Entered
  <1>24. \A q \in Producers \ {p} : /\ header'[q] = header[q] /\ entry'[q] = entry[q] /\ num'[q] = num[q]
                                    /\ shift'[q] = shift[q] /\ tails'[q] = tails[q]
    BY <1>10, <1>11, <1>13
  <1> QED BY <1>11, <1>12, <1>15, <1>16, <1>20, <1>21, <1>22, <1>23, <1>24, ProducerFrame

\* The number of the next index' block.
LEMMA NextNumber ==
  ASSUME NEW i \in Nat
  PROVE  /\ Number(i + 1) \in Nat /\ Number(i) <= Number(i + 1)
         /\ (IF (i + 1) % BLOCK_SIZE = 0 THEN Number(i + 1) - 1 ELSE Number(i + 1)) = Number(i)
         /\ \A k \in Int : k * BLOCK_SIZE < i + 1 <=> k * BLOCK_SIZE <= i
  <1>1. PICK d \in Nat \ {0} : d = BLOCK_SIZE BY RangeOfBlocks
  <1>2. i + 1 \in Nat OBVIOUS
  <1>3. PICK m \in Nat, n \in Nat : m = Number(i) /\ n = Number(i + 1) BY <1>2, NumberOf
  <1>4. PICK r \in Nat, s \in Nat : r = i % BLOCK_SIZE /\ s = (i + 1) % BLOCK_SIZE
    <2>1. (i % BLOCK_SIZE) \in 0 .. BLOCK_SIZE - 1 BY NumberOf
    <2>2. ((i + 1) % BLOCK_SIZE) \in 0 .. BLOCK_SIZE - 1 BY <1>2, NumberOf
    <2>3. \A y \in 0 .. BLOCK_SIZE - 1 : y \in Nat BY <1>1
    <2> QED BY <2>1, <2>2, <2>3, Zenon
  <1>5. i = d * m + r /\ r \in 0 .. d - 1 BY <1>1, <1>3, <1>4, NumberOf
  <1>6. i + 1 = d * n + s /\ s \in 0 .. d - 1 BY <1>1, <1>2, <1>3, <1>4, NumberOf
  <1>7. m <= n
    <2>1. m * BLOCK_SIZE <= i BY <1>3, NumberOf
    <2>2. m \in Int /\ m * BLOCK_SIZE <= i + 1
      <3>1. m * BLOCK_SIZE \in Int BY <1>1
      <3> QED BY <2>1, <3>1
    <2> QED BY <1>2, <1>3, <2>2, NumberOf
  <1>8. CASE s = 0
    <2>1. i = d * (n - 1) + (d - 1)
      <3>1. d * n = d * (n - 1) + d BY <1>1
      <3> QED BY <1>6, <1>8, <3>1
    <2>2. n >= 1
      <3>1. SUFFICES ASSUME n = 0 PROVE FALSE BY <1>3
      <3>2. i = d * (0 - 1) + (d - 1) BY <2>1, <3>1
      <3>3. d * (0 - 1) = -d BY <1>1
      <3> QED BY <3>2, <3>3
    <2>3. i \in BlockIndices(n - 1)
      <3>1. PICK y \in Int : y = (n - 1) * d BY <1>1, <1>3
      <3>2. i \in y .. (y + d) - 1 BY <2>1, <3>1
      <3> QED BY <1>1, <3>1, <3>2 DEF BlockIndices
    <2>4. n - 1 \in Nat BY <1>3, <2>2
    <2>5. m = n - 1 BY <1>3, <2>3, <2>4, IndicesOf
    <2> QED BY <1>1, <1>2, <1>3, <1>4, <1>7, <1>8, <2>5
  <1>9. CASE s # 0
    <2>1. i \in BlockIndices(n)
      <3>1. PICK y \in Int : y = n * d BY <1>1, <1>3
      <3>2. i \in y .. (y + d) - 1 BY <1>6, <1>9, <3>1
      <3> QED BY <1>1, <3>1, <3>2 DEF BlockIndices
    <2>2. m = n BY <1>3, <2>1, IndicesOf
    <2> QED BY <1>1, <1>2, <1>3, <1>4, <1>7, <1>9, <2>2
  <1> QED BY <1>8, <1>9

\* One more element, in a block that has its entry.
LEMMA StoreTailIndex ==
  ASSUME QueueInv, IndexInv, NEW p \in Producers, HStoreTail(p)
  PROVE  IndexInv'
  <1>1. pc[p] = "bump" BY DEF HStoreTail, StoreTail, Goto
  <1>2. IndexTypes /\ IndexAt(p) /\ ShapeAt(p) /\ OwnerInv
    <2>1. ~Destroyed BY <1>1 DEF Destroyed
    <2> QED BY <2>1 DEF IndexInv, IndexAt
  <1>3. /\ UNCHANGED <<header, entry, elementsCompletelyDequeued, initialBlockPoolIndex, freeList, allocated, loc>>
        /\ UNCHANGED <<heads, num, shift, emptied, taken>> /\ pc' = [pc EXCEPT ![p] = "idle"]
        /\ tails' = [tails EXCEPT ![p] = @ + 1]
    BY DEF HStoreTail, StoreTail, Goto, index, memory, pools
  <1>4. PICK i \in Nat : i = tails[p] BY DEF QueueInv, IndexType
  <1>5. tails'[p] = i + 1 /\ \A q \in Producers \ {p} : tails'[q] = tails[q]
    <2>1. DOMAIN tails = Producers BY DEF QueueInv, IndexType
    <2> QED BY <1>3, <1>4, <2>1
  <1>6. /\ \A u \in (Producers \cup Consumers) \ {p} : pc'[u] = pc[u] /\ loc'[u] = loc[u]
        /\ pc'[p] = "idle"
    <2>1. DOMAIN pc = Producers \cup Consumers BY DEF QueueInv, LocalType
    <2> QED BY <1>3, <2>1
  <1>7. PICK t \in Nat : t = Number(i) /\ Published(p) = t /\ Filled(p) <= t /\ Filled(p) \in Int
    <2>1. Number(i) \in Nat BY NumberOf
    <2>2. Published(p) = Number(i) BY <1>1, <1>4 DEF Published
    <2>3. Filled(p) <= Published(p) /\ Filled(p) \in Int BY <1>4, LastBlock
    <2> QED BY <2>1, <2>2, <2>3
  <1>8. PICK u \in Nat : u = Number(i + 1) /\ t <= u BY <1>7, NextNumber
  <1>9. Filled(p)' = t /\ Published(p)' = t /\ Number(tails'[p]) = u
    <2>1. (IF (i + 1) % BLOCK_SIZE = 0 THEN Number(i + 1) - 1 ELSE Number(i + 1)) = t BY <1>7, NextNumber
    <2>2. Filled(p)' = t BY <1>5, <2>1 DEF Filled, Number
    <2> QED BY <1>5, <1>6, <1>8, <2>2 DEF Published
  <1>10. ASSUME NEW k \in Int PROVE (Stored(p, k)' <=> Stored(p, k)) /\ (Stored(p, k) => k <= t)
    <2>1. PICK y \in Int : y = k * BLOCK_SIZE BY RangeOfBlocks
    <2>2. Stored(p, k)' <=> y < i + 1 BY <1>5, <1>6, <2>1 DEF Stored
    <2>3. Stored(p, k) <=> y <= i BY <1>1, <1>4, <2>1 DEF Stored
    <2>4. y <= i => k <= t BY <1>7, <2>1, NumberOf
    <2> QED BY <2>2, <2>3, <2>4
  <1>11. header'[p] = header[p] /\ entry'[p] = entry[p] /\ num'[p] = num[p] /\ shift'[p] = shift[p]
         /\ emptied'[p] = emptied[p] /\ heads'[p] = heads[p]
    BY <1>3
  <1>12. \A f : Valid(p, f)' = Valid(p, f) BY <1>3 DEF Valid
  <1>13. IndexAt(p)'
    <2>1. ShapeAt(p)' BY <1>2, <1>7, <1>9, <1>11 DEF ShapeAt, Current, blockIndex
    <2>2. ASSUME NEW j \in DOMAIN header[p] PROVE HeaderAt(p, j)'
      <3>1. HeaderAt(p, j) BY <1>2 DEF IndexAt
      <3> QED BY <1>11, <3>1 DEF HeaderAt, Valid
    <2>3. ASSUME NEW f \in DOMAIN entry[p] PROVE EntryAt(p, f)'
      <3>1. EntryAt(p, f) BY <1>2 DEF IndexAt
      <3>2. PICK a \in Int, n \in Nat : a = num[p][f] /\ n = Len(entry[p]) BY <1>2, Parts
      <3>3. a \in (t - n) + 1 .. u
        <4>1. a \in (t - n) + 1 .. t BY <1>4, <1>7, <3>1, <3>2 DEF EntryAt
        <4> QED BY <1>8, <4>1
      <3>4. a >= 0 /\ a >= t => Valid(p, f)
        <4>1. a >= 0 /\ a >= Filled(p) => Valid(p, f) BY <3>1, <3>2 DEF EntryAt
        <4> QED BY <1>7, <4>1
      <3> QED BY <1>3, <1>9, <1>10, <1>11, <1>12, <3>1, <3>2, <3>3, <3>4 DEF EntryAt
    <2>4. SlotAt(p)' BY <1>6 DEF SlotAt
    <2>5. KeptAt(p)'
      <3>1. KeptAt(p) BY <1>2 DEF IndexAt
      <3>2. SUFFICES ASSUME NEW k \in 0 .. Number(tails'[p]), Stored(p, k)', ~(BlockIndices(k) \subseteq emptied'[p])
                     PROVE  \E f \in DOMAIN entry'[p] : num'[p][f] = k /\ entry'[p][f].value # Null
        BY DEF KeptAt
      <3>3. k \in Int /\ k >= 0 BY <1>9, <3>2
      <3>4. Stored(p, k) /\ k <= t BY <1>10, <3>2, <3>3
      <3>5. k \in 0 .. Number(tails[p]) BY <1>4, <1>7, <3>3, <3>4
      <3>6. PICK f \in DOMAIN entry[p] : num[p][f] = k /\ entry[p][f].value # Null
        BY <1>11, <3>1, <3>2, <3>4, <3>5 DEF KeptAt
      <3> QED BY <1>11, <3>6
    <2>6. emptied'[p] \subseteq 0 .. heads'[p] - 1 BY <1>2, <1>11 DEF IndexAt
    <2> QED BY <1>11, <2>1, <2>2, <2>3, <2>4, <2>5, <2>6 DEF IndexAt
  <1>14. Grows(p) BY <1>11, <1>12 DEF Grows
  <1>15. \A f \in DOMAIN entry[p] : Leads(p, f) BY <1>11 DEF Leads
  <1>16. IndexTypes' BY <1>2, <1>3 DEF IndexTypes
  <1>17. OwnerInv'
    <2>1. \A u1 \in Producers \cup Consumers : pc'[u1] \in {"store", "release"} => pc[u1] = pc'[u1] /\ loc'[u1].block = loc[u1].block
      BY <1>3, <1>6
    <2> QED BY <1>2, <1>3, <2>1, OwnerIdle
  <1>18. \A q \in Producers \ {p} : /\ header'[q] = header[q] /\ entry'[q] = entry[q] /\ num'[q] = num[q]
                                    /\ shift'[q] = shift[q] /\ tails'[q] = tails[q]
    BY <1>3, <1>5
  <1> QED BY <1>3, <1>6, <1>13, <1>14, <1>15, <1>16, <1>17, <1>18, ProducerFrame

\* A number of the last round.
LEMMA LastRound ==
  ASSUME NEW t \in Nat, NEW n \in Nat \ {0, 1}, NEW i \in 1 .. n, NEW a \in Int, a \in t - n .. t - 1,
         Same(a, (t - 1) + i, n)
  PROVE  a = (t - 1) + (i - n)
  <1>1. PICK x \in Int, y \in Int : x = (t - 1) + (i - n) /\ y = (t - 1) + i OBVIOUS
  <1>2. a - x < n /\ x - a < n /\ x = y + n * (-1) BY <1>1
  <1>3. -1 \in Int /\ n \in Nat \ {0} OBVIOUS
  <1>4. Same(x, y, n) BY <1>2, <1>3, SameRound
  <1>5. Same(y, x, n) BY <1>3, <1>4, SameIs
  <1>6. Same(a, y, n) BY <1>1
  <1>7. Same(a, x, n) BY <1>3, <1>5, <1>6, SameIs
  <1>8. a = x BY <1>2, <1>3, <1>7, SameNear
  <1> QED BY <1>1, <1>8

\* A block index that is full: its entries have the numbers of the last blocks, in the
\* order of their positions from the one after the tail.
FullAt(p, t, n) ==
  /\ tails[p] > 0
  /\ \A f \in DOMAIN entry[p] : num[p][f] \in t - n .. t - 1
  /\ \A i \in 1 .. n : LET f == Current(p).index[((Current(p).tail + i) % n) + 1]
                       IN  f \in 1 .. n /\ num[p][f] = (t - 1) + (i - n)
  /\ \A f \in 1 .. n : \E i \in 1 .. n : Current(p).index[((Current(p).tail + i) % n) + 1] = f

\* It is, when the entry after the tail cannot be taken.
LEMMA FullIndex ==
  ASSUME QueueInv, IndexInv, NEW p \in Producers, pc[p] = "slot", ~EntryFree(p),
         NEW t \in Nat, NEW n \in Nat \ {0, 1}, NEW j \in DOMAIN header[p],
         t = Number(tails[p]), n = Len(entry[p]), j = Len(header[p])
  PROVE  FullAt(p, t, n)
  <1>1. /\ tails[p] = t * BLOCK_SIZE /\ tails[p] \in Nat /\ Published(p) = t - 1
        /\ n = Cap(j) /\ Current(p).tail \in 0 .. n - 1 /\ Same((t - 1) + shift[p][j], Current(p).tail, n)
        /\ NextEntry(p) \in DOMAIN entry[p] /\ num[p][NextEntry(p)] \in {t - n, t}
    <2>1. PICK u \in Nat, m \in Nat \ {0, 1}, k \in DOMAIN header[p] :
             /\ u = Number(tails[p]) /\ tails[p] = u * BLOCK_SIZE /\ tails[p] \in Nat /\ Published(p) = u - 1
             /\ m = Len(entry[p]) /\ k = Len(header[p]) /\ m = Cap(k)
             /\ Current(p).tail \in 0 .. m - 1 /\ Same((u - 1) + shift[p][k], Current(p).tail, m)
             /\ NextEntry(p) \in DOMAIN entry[p] /\ num[p][NextEntry(p)] \in {u - m, u}
      BY NextAt
    <2>2. u = t /\ m = n /\ k = j BY <2>1
    <2> QED BY <2>1, <2>2, Zenon
  <1>2. IndexTypes /\ IndexAt(p) /\ ShapeAt(p) /\ HeaderAt(p, j) BY DEF IndexInv, IndexAt
  <1>3. DOMAIN entry[p] = 1 .. n BY <1>2, Parts
  <1>4. PICK e \in DOMAIN entry[p] : e = NextEntry(p) /\ num[p][e] \in {t - n, t} BY <1>1
  <1>5. Valid(p, e) /\ entry[p][e].value # Null BY <1>4 DEF EntryFree, Valid
  <1>6. num[p][e] = t - n /\ num[p][e] >= 0
    <2>1. EntryAt(p, e) BY <1>2 DEF IndexAt
    <2>2. Stored(p, num[p][e]) /\ num[p][e] >= 0 BY <1>5, <2>1 DEF EntryAt
    <2>3. num[p][e] * BLOCK_SIZE < tails[p] BY <2>2 DEF Stored
    <2>4. num[p][e] # t
      <3>1. SUFFICES ASSUME num[p][e] = t PROVE FALSE OBVIOUS
      <3>2. PICK y \in Int : y = t * BLOCK_SIZE BY <1>1
      <3>3. y < y BY <1>1, <2>3, <3>1, <3>2
      <3> QED BY <3>3
    <2> QED BY <1>4, <2>2, <2>4
  <1>7. tails[p] > 0
    <2>1. t > 0 BY <1>6
    <2>2. PICK d \in Nat \ {0} : d = BLOCK_SIZE BY RangeOfBlocks
    <2>3. t * d > 0 BY <2>1
    <2> QED BY <1>1, <2>2, <2>3
  <1>8. ASSUME NEW f \in DOMAIN entry[p] PROVE num[p][f] \in t - n .. t - 1
    <2>1. PICK a \in Int : a = num[p][f] BY <1>2, Parts
    <2>2. EntryAt(p, f) BY <1>2 DEF IndexAt
    <2>3. a \in ((t - 1) - n) + 1 .. t BY <1>1, <2>1, <2>2 DEF EntryAt
    <2>4. a # t
      <3>1. SUFFICES ASSUME a = t PROVE FALSE OBVIOUS
      <3>2. t - n \in Int /\ n \in Nat \ {0} /\ 1 \in Int /\ a = (t - n) + n * 1 BY <3>1
      <3>3. Same(a, t - n, n) BY <3>2, SameRound
      <3>4. Same(num[p][f], num[p][e], Len(entry[p])) BY <1>6, <2>1, <3>3
      <3>5. f = e BY <1>2, <3>4, OneEntry
      <3>6. t = t - n BY <1>6, <2>1, <3>1, <3>5
      <3> QED BY <3>6
    <2>5. a \in t - n .. t - 1 BY <2>3, <2>4
    <2> QED BY <2>1, <2>5
  <1>9. PICK tail \in 0 .. n - 1 : tail = Current(p).tail BY <1>1
  <1>10. PICK s \in Int : s = shift[p][j] /\ Same((t - 1) + s, tail, n) BY <1>1, <1>2, <1>9, Parts
  <1>11. Current(p) = header[p][j] BY DEF Current, blockIndex
  <1>12. ASSUME NEW i \in 1 .. n
         PROVE  LET f == Current(p).index[((Current(p).tail + i) % n) + 1]
                IN  f \in 1 .. n /\ num[p][f] = (t - 1) + (i - n)
    <2>1. PICK pos \in 0 .. n - 1 : pos = (tail + i) % n BY Division
    <2>2. pos \in 0 .. Cap(j) - 1 BY <1>1
    <2>3. PICK f \in 1 .. n : f = header[p][j].index[pos + 1] BY <1>1, <1>2, <2>2, EntryOf
    <2>4. Same(((t - 1) + i) + s, pos, n)
      <3>0. t \in Int /\ i \in Int /\ tail \in Int /\ pos \in Int OBVIOUS
      <3>1. /\ (t - 1) + s \in Int /\ i \in Int /\ tail \in Int /\ tail + i \in Int /\ pos \in Int
            /\ ((t - 1) + i) + s \in Int
        BY <3>0
      <3>4. ((t - 1) + s) + i = ((t - 1) + i) + s BY <3>0
      <3>2. Same(((t - 1) + s) + i, tail + i, n) BY <1>10, <3>1, SameAdd
      <3>3. Same(tail + i, pos, n) BY <2>1, <3>1, SameRound
      <3> QED BY <3>1, <3>2, <3>3, <3>4, SameIs
    <2>5. (t - 1) + i \in Int OBVIOUS
    <2>6. Same(num[p][f], (t - 1) + i, n) BY <1>1, <1>2, <1>10, <2>2, <2>3, <2>4, <2>5, NumberAt
    <2>7. PICK a \in Int : a = num[p][f] /\ a \in t - n .. t - 1 BY <1>2, <1>3, <1>8, Parts
    <2>8. a = (t - 1) + (i - n) BY <2>6, <2>7, LastRound
    <2> QED BY <1>9, <1>11, <2>1, <2>3, <2>7, <2>8
  <1>13. ASSUME NEW f \in 1 .. n PROVE \E i \in 1 .. n : Current(p).index[((Current(p).tail + i) % n) + 1] = f
    <2>1. PICK k \in 1 .. n : header[p][j].index[k] = f BY <1>1, <1>2 DEF HeaderAt
    <2>2. PICK m \in 0 .. n - 1 : m = ((k - 1) - (tail + 1)) % n
      <3>1. (k - 1) - (tail + 1) \in Int OBVIOUS
      <3> QED BY <3>1, Division
    <2>3. PICK i \in 1 .. n : i = m + 1 OBVIOUS
    <2>4. (tail + i) % n = k - 1
      <3>1. /\ m \in Int /\ (k - 1) - (tail + 1) \in Int /\ tail + 1 \in Int /\ m + (tail + 1) \in Int /\ k - 1 \in Int
            /\ ((k - 1) - (tail + 1)) + (tail + 1) = k - 1 /\ m + (tail + 1) = tail + i /\ tail + i \in Int
        BY <2>3
      <3>2. Same(m, (k - 1) - (tail + 1), n) BY <2>2, <3>1, SameRound
      <3>3. Same(m + (tail + 1), ((k - 1) - (tail + 1)) + (tail + 1), n) BY <3>1, <3>2, SameAdd
      <3>4. Same(tail + i, k - 1, n) BY <3>1, <3>3
      <3>5. PICK r \in 0 .. n - 1 : r = (tail + i) % n BY <3>1, Division
      <3>6. r \in Int /\ r - (k - 1) < n /\ (k - 1) - r < n OBVIOUS
      <3>7. Same(r, tail + i, n) BY <3>1, <3>5, SameRound
      <3>8. Same(r, k - 1, n) BY <3>1, <3>4, <3>6, <3>7, SameIs
      <3>9. r = k - 1 BY <3>1, <3>6, <3>8, SameNear
      <3> QED BY <3>5, <3>9
    <2>5. (k - 1) + 1 = k OBVIOUS
    <2> QED BY <1>9, <1>11, <2>1, <2>4, <2>5
  <1> QED BY <1>7, <1>8, <1>12, <1>13 DEF FullAt

\* A sequence that becomes longer.
LEMMA Longer ==
  ASSUME NEW S, NEW s \in Seq(S), NEW n \in Nat, NEW f \in [1 .. n -> S]
  PROVE  /\ s \o f \in Seq(S) /\ Len(s \o f) = Len(s) + n /\ DOMAIN (s \o f) = 1 .. Len(s) + n
         /\ \A i \in 1 .. Len(s) : (s \o f)[i] = s[i]
         /\ \A i \in 1 .. Len(s) + n : i > Len(s) => (s \o f)[i] = f[i - Len(s)]
  <1>1. f \in Seq(S) /\ Len(f) = n OBVIOUS
  <1>2. s \o f \in Seq(S) /\ Len(s \o f) = Len(s) + n BY <1>1
  <1>3. \A i \in 1 .. Len(s) + Len(f) : (s \o f)[i] = IF i <= Len(s) THEN s[i] ELSE f[i - Len(s)] BY <1>1
  <1>4. Len(s) \in Nat OBVIOUS
  <1>5. \A i \in 1 .. Len(s) : i \in 1 .. Len(s) + n /\ i <= Len(s) BY <1>4
  <1>6. \A i \in 1 .. Len(s) + n : i > Len(s) => ~(i <= Len(s)) BY <1>4
  <1> QED BY <1>1, <1>2, <1>3, <1>5, <1>6

\* A sequence that becomes longer by one.
LEMMA OneLonger ==
  ASSUME NEW S, NEW s \in Seq(S), NEW x \in S
  PROVE  /\ Append(s, x) \in Seq(S) /\ Len(Append(s, x)) = Len(s) + 1 /\ DOMAIN Append(s, x) = 1 .. Len(s) + 1
         /\ \A i \in 1 .. Len(s) : Append(s, x)[i] = s[i]
         /\ Append(s, x)[Len(s) + 1] = x
  BY AppendProperties

\* The block index is replaced by one of twice the size.
LEMMA GrowIndexIndex ==
  ASSUME QueueInv, IndexInv, NEW p \in Producers, HGrowIndex(p)
  PROVE  IndexInv'
  <1>1. pc[p] = "slot" /\ ~EntryFree(p) BY DEF HGrowIndex, GrowIndex
  <1>2. PICK t \in Nat, n \in Nat \ {0, 1}, j \in DOMAIN header[p] :
           /\ t = Number(tails[p]) /\ tails[p] \in Nat /\ Filled(p) = t - 1 /\ Published(p) = t - 1
           /\ n = Len(entry[p]) /\ j = Len(header[p]) /\ n = Cap(j) /\ n = Capacity(Current(p))
    BY <1>1, NextAt
  <1>3. /\ tails[p] > 0
        /\ \A f \in DOMAIN entry[p] : num[p][f] \in t - n .. t - 1
        /\ \A i \in 1 .. n : LET f == Current(p).index[((Current(p).tail + i) % n) + 1]
                             IN  f \in 1 .. n /\ num[p][f] = (t - 1) + (i - n)
        /\ \A f \in 1 .. n : \E i \in 1 .. n : Current(p).index[((Current(p).tail + i) % n) + 1] = f
    <2>1. t = Number(tails[p]) /\ n = Len(entry[p]) /\ j = Len(header[p]) BY <1>2
    <2>2. FullAt(p, t, n) BY <1>1, <2>1, FullIndex
    <2> QED BY <2>2 DEF FullAt
  <1>4. IndexTypes /\ IndexAt(p) /\ ShapeAt(p) /\ HeaderAt(p, j) /\ OwnerInv
    <2>1. ~Destroyed BY <1>1 DEF Destroyed
    <2> QED BY <2>1 DEF IndexInv, IndexAt
  <1>5. /\ DOMAIN entry[p] = 1 .. n /\ DOMAIN num[p] = 1 .. n /\ DOMAIN header[p] = 1 .. j /\ DOMAIN shift[p] = 1 .. j
        /\ Len(num[p]) = n /\ Len(shift[p]) = j /\ j \in 1 .. MaxHeaders /\ MaxHeaders \in Nat
    <2>1. Len(num[p]) = n /\ Len(shift[p]) = j BY <1>2, <1>4 DEF ShapeAt
    <2> QED BY <1>2, <1>4, <2>1, Parts, RangeOfBlocks
  <1>6. j \in Nat \ {0} /\ j + 1 \in 1 .. MaxHeaders /\ Cap(j + 1) = 2 * n
    <2>1. j < MaxHeaders BY <1>2 DEF HGrowIndex, GrowIndex
    <2>2. j \in Nat \ {0} BY <1>5
    <2>3. Cap(j + 1) = 2 * n BY <1>2, <2>2, CapStep
    <2> QED BY <1>5, <2>1, <2>2, <2>3
  <1> DEFINE G == [i \in 1 .. 2 * n |-> IF i <= n THEN Current(p).index[((Current(p).tail + i) % n) + 1] ELSE i]
             H == [tail |-> n - 1, index |-> G]
             E == [i \in 1 .. n |-> NewEntry]
             M == [i \in 1 .. n |-> Number(tails[p]) - 1 + i - 2 * n]
  <1>7. /\ header' = [header EXCEPT ![p] = Append(header[p], H)] /\ entry' = [entry EXCEPT ![p] = entry[p] \o E]
        /\ num' = [num EXCEPT ![p] = num[p] \o M] /\ shift' = [shift EXCEPT ![p] = Append(shift[p], n - t)]
        /\ UNCHANGED <<pc, loc, elementsCompletelyDequeued, initialBlockPoolIndex, freeList, allocated>>
        /\ UNCHANGED <<tails, heads, emptied, taken>>
    BY <1>2 DEF HGrowIndex, GrowIndex, memory, pools
  <1>8. /\ G \in [1 .. 2 * n -> 1 .. 2 * n] /\ G \in Seq(Nat)
        /\ \A i \in 1 .. n : G[i] \in 1 .. n /\ num[p][G[i]] = (t - 1) + (i - n)
        /\ \A i \in 1 .. 2 * n : i > n => G[i] = i
        /\ \A f \in 1 .. n : \E i \in 1 .. n : G[i] = f
    <2>1. ASSUME NEW i \in 1 .. n
          PROVE  i \in 1 .. 2 * n /\ G[i] = Current(p).index[((Current(p).tail + i) % n) + 1]
      <3>1. i \in 1 .. 2 * n /\ i <= n OBVIOUS
      <3> QED BY <3>1
    <2>2. ASSUME NEW i \in 1 .. 2 * n, i > n PROVE G[i] = i
      <3>1. ~(i <= n) BY <2>2
      <3> QED BY <3>1
    <2>3. \A i \in 1 .. n : G[i] \in 1 .. n /\ num[p][G[i]] = (t - 1) + (i - n) BY <1>3, <2>1
    <2>4. \A f \in 1 .. n : \E i \in 1 .. n : G[i] = f BY <1>3, <2>1
    <2>5. DOMAIN G = 1 .. 2 * n /\ G = [i \in 1 .. 2 * n |-> G[i]] OBVIOUS
    <2> HIDE DEF G
    <2>6. ASSUME NEW i \in 1 .. 2 * n PROVE G[i] \in 1 .. 2 * n
      <3>1. CASE i > n BY <2>2, <3>1
      <3>2. CASE ~(i > n)
        <4>1. i \in 1 .. n BY <3>2
        <4>2. G[i] \in 1 .. n BY <2>3, <4>1
        <4> QED BY <4>2
      <3> QED BY <3>1, <3>2
    <2>7. G \in [1 .. 2 * n -> 1 .. 2 * n] BY <2>5, <2>6
    <2>8. G \in [1 .. 2 * n -> Nat] BY <2>7
    <2>9. G \in Seq(Nat) BY <2>8
    <2> QED BY <2>2, <2>3, <2>4, <2>7, <2>9
  <1>9. H \in [tail : Nat, index : Seq(Nat)] /\ H.tail = n - 1 /\ H.index = G BY <1>8
  <1>10. E \in [1 .. n -> [key : Nat, value : Blocks \cup {Null}]] /\ \A i \in 1 .. n : E[i] = NewEntry
    BY DEF NewEntry, INVALID_BLOCK_BASE
  <1>11. M \in [1 .. n -> Int] /\ \A i \in 1 .. n : M[i] = (t - 1) + (i - 2 * n)
    <2>1. M = [i \in 1 .. n |-> (t - 1) + (i - 2 * n)] BY <1>2
    <2>2. \A i \in 1 .. n : (t - 1) + (i - 2 * n) \in Int OBVIOUS
    <2> HIDE DEF M
    <2> QED BY <2>1, <2>2
  <1> HIDE DEF G, H, E, M
  <1>12. /\ header[p] \in Seq([tail : Nat, index : Seq(Nat)]) /\ entry[p] \in Seq([key : Nat, value : Blocks \cup {Null}])
         /\ num[p] \in Seq(Int) /\ shift[p] \in Seq(Int) /\ n \in Nat /\ n - t \in Int
    <2>1. n \in Nat /\ n - t \in Int OBVIOUS
    <2> QED BY <1>4, <2>1 DEF IndexTypes
  <1>13. /\ header'[p] = Append(header[p], H) /\ entry'[p] = entry[p] \o E
         /\ num'[p] = num[p] \o M /\ shift'[p] = Append(shift[p], n - t)
         /\ \A q \in Producers \ {p} : /\ header'[q] = header[q] /\ entry'[q] = entry[q] /\ num'[q] = num[q]
                                       /\ shift'[q] = shift[q] /\ tails'[q] = tails[q]
    BY <1>4, <1>7 DEF IndexTypes
  <1>14. /\ header'[p] \in Seq([tail : Nat, index : Seq(Nat)]) /\ Len(header'[p]) = j + 1
         /\ DOMAIN header'[p] = 1 .. j + 1
         /\ header'[p][j + 1] = H /\ \A k \in 1 .. j : header'[p][k] = header[p][k]
    <2>1. /\ Append(header[p], H) \in Seq([tail : Nat, index : Seq(Nat)])
          /\ Len(Append(header[p], H)) = Len(header[p]) + 1 /\ DOMAIN Append(header[p], H) = 1 .. Len(header[p]) + 1
          /\ \A k \in 1 .. Len(header[p]) : Append(header[p], H)[k] = header[p][k]
          /\ Append(header[p], H)[Len(header[p]) + 1] = H
      BY <1>9, <1>12, OneLonger
    <2>2. Len(header[p]) = j BY <1>2
    <2> QED BY <1>13, <2>1, <2>2, Zenon
  <1>15. /\ shift'[p] \in Seq(Int) /\ Len(shift'[p]) = j + 1
         /\ shift'[p][j + 1] = n - t /\ \A k \in 1 .. j : shift'[p][k] = shift[p][k]
    <2>1. /\ Append(shift[p], n - t) \in Seq(Int) /\ Len(Append(shift[p], n - t)) = Len(shift[p]) + 1
          /\ \A k \in 1 .. Len(shift[p]) : Append(shift[p], n - t)[k] = shift[p][k]
          /\ Append(shift[p], n - t)[Len(shift[p]) + 1] = n - t
      BY <1>12, OneLonger
    <2>2. shift[p] \in Seq(Int) /\ j \in Nat BY <1>2, <1>5, <1>12
    <2>3. Len(shift[p]) = j BY <1>5, <2>2
    <2> QED BY <1>13, <2>1, <2>3, Zenon
  <1>16. /\ entry'[p] \in Seq([key : Nat, value : Blocks \cup {Null}]) /\ Len(entry'[p]) = n + n
         /\ DOMAIN entry'[p] = 1 .. n + n
         /\ \A f \in 1 .. n : entry'[p][f] = entry[p][f]
         /\ \A f \in 1 .. n + n : f > n => entry'[p][f] = E[f - n]
    <2>1. /\ entry[p] \o E \in Seq([key : Nat, value : Blocks \cup {Null}])
          /\ Len(entry[p] \o E) = Len(entry[p]) + n /\ DOMAIN (entry[p] \o E) = 1 .. Len(entry[p]) + n
          /\ \A f \in 1 .. Len(entry[p]) : (entry[p] \o E)[f] = entry[p][f]
          /\ \A f \in 1 .. Len(entry[p]) + n : f > Len(entry[p]) => (entry[p] \o E)[f] = E[f - Len(entry[p])]
      <3>1. PICK S : S = [key : Nat, value : Blocks \cup {Null}] OBVIOUS
      <3>2. entry[p] \in Seq(S) /\ n \in Nat BY <1>12, <3>1
      <3>3. E \in [1 .. n -> S] BY <1>10, <3>1
      <3>4. /\ entry[p] \o E \in Seq(S)
            /\ Len(entry[p] \o E) = Len(entry[p]) + n /\ DOMAIN (entry[p] \o E) = 1 .. Len(entry[p]) + n
            /\ \A f \in 1 .. Len(entry[p]) : (entry[p] \o E)[f] = entry[p][f]
            /\ \A f \in 1 .. Len(entry[p]) + n : f > Len(entry[p]) => (entry[p] \o E)[f] = E[f - Len(entry[p])]
        BY <3>2, <3>3, Longer
      <3> QED BY <3>1, <3>4, Zenon
    <2>2. Len(entry[p]) = n BY <1>2
    <2> QED BY <1>13, <2>1, <2>2, Zenon
  <1>17. /\ num'[p] \in Seq(Int) /\ Len(num'[p]) = n + n
         /\ \A f \in 1 .. n : num'[p][f] = num[p][f]
         /\ \A f \in 1 .. n + n : f > n => num'[p][f] = M[f - n]
    <2>1. /\ num[p] \o M \in Seq(Int) /\ Len(num[p] \o M) = Len(num[p]) + n
          /\ \A f \in 1 .. Len(num[p]) : (num[p] \o M)[f] = num[p][f]
          /\ \A f \in 1 .. Len(num[p]) + n : f > Len(num[p]) => (num[p] \o M)[f] = M[f - Len(num[p])]
      <3>1. PICK S, s : S = Int /\ s = num[p] OBVIOUS
      <3>2. s \in Seq(S) /\ n \in Nat BY <1>12, <3>1
      <3>3. M \in [1 .. n -> S] BY <1>11, <3>1
      <3>4. /\ s \o M \in Seq(S) /\ Len(s \o M) = Len(s) + n
            /\ \A f \in 1 .. Len(s) : (s \o M)[f] = s[f]
            /\ \A f \in 1 .. Len(s) + n : f > Len(s) => (s \o M)[f] = M[f - Len(s)]
        BY <3>2, <3>3, Longer
      <3> QED BY <3>1, <3>4, Zenon
    <2>2. Len(num[p]) = n BY <1>5
    <2> QED BY <1>13, <2>1, <2>2, Zenon
  <1>18. \A f \in 1 .. n + n : f > n => entry'[p][f] = NewEntry /\ num'[p][f] = (t - 1) + ((f - n) - 2 * n)
    <2>1. \A f \in 1 .. n + n : f > n => f - n \in 1 .. n OBVIOUS
    <2> QED BY <1>10, <1>11, <1>16, <1>17, <2>1
  <1>19. IndexTypes'
    <2>1. /\ header' = [q \in Producers |-> header'[q]] /\ entry' = [q \in Producers |-> entry'[q]]
          /\ num' = [q \in Producers |-> num'[q]] /\ shift' = [q \in Producers |-> shift'[q]]
      BY <1>4, <1>7 DEF IndexTypes
    <2>2. \A q \in Producers : /\ header'[q] \in Seq([tail : Nat, index : Seq(Nat)])
                               /\ entry'[q] \in Seq([key : Nat, value : Blocks \cup {Null}])
                               /\ num'[q] \in Seq(Int) /\ shift'[q] \in Seq(Int)
      BY <1>4, <1>13, <1>14, <1>15, <1>16, <1>17 DEF IndexTypes
    <2>3. /\ header' \in [Producers -> Seq([tail : Nat, index : Seq(Nat)])]
          /\ entry' \in [Producers -> Seq([key : Nat, value : Blocks \cup {Null}])]
          /\ num' \in [Producers -> Seq(Int)] /\ shift' \in [Producers -> Seq(Int)]
      BY <2>1, <2>2
    <2> QED BY <1>4, <1>7, <2>3 DEF IndexTypes
  <1>20. tails'[p] = tails[p] /\ heads'[p] = heads[p] /\ emptied'[p] = emptied[p] /\ pc'[p] = pc[p] BY <1>7
  <1>21. Published(p)' = t - 1 /\ Filled(p)' = t - 1 /\ \A k \in Int : Stored(p, k)' = Stored(p, k)
    BY <1>1, <1>2, <1>20 DEF Published, Filled, Stored
  <1>22. \A f \in 1 .. n : Valid(p, f)' = Valid(p, f) BY <1>16 DEF Valid
  <1>23. \A f \in 1 .. n + n : f > n => ~Valid(p, f)' BY <1>18 DEF Valid, NewEntry
  <1>24. \A f \in DOMAIN entry'[p] : f \in 1 .. n \/ (f \in 1 .. n + n /\ f > n)
    <2>1. ASSUME NEW f \in 1 .. n + n PROVE f \in 1 .. n \/ f > n OBVIOUS
    <2> QED BY <1>16, <2>1
  <1>25. ShapeAt(p)'
    <2>1. Current(p)'.tail = n - 1 BY <1>9, <1>14 DEF Current, blockIndex
    <2>2. n + n = 2 * n /\ (t - 1) + (n - t) = n - 1 /\ n - 1 \in Int /\ n + n \in Nat \ {0} OBVIOUS
    <2>3. Same(n - 1, n - 1, n + n) BY <2>2, SameIs
    <2>4. Same(Published(p)' + shift'[p][Len(header'[p])], Current(p)'.tail, Len(entry'[p]))
      BY <1>14, <1>15, <1>16, <1>21, <2>1, <2>2, <2>3
    <2>5. /\ Len(header'[p]) \in 1 .. MaxHeaders /\ Len(entry'[p]) = Cap(Len(header'[p]))
          /\ Len(num'[p]) = Len(entry'[p]) /\ Len(shift'[p]) = Len(header'[p])
      BY <1>6, <1>14, <1>15, <1>16, <1>17, <2>2
    <2> QED BY <2>4, <2>5 DEF ShapeAt
  <1>26. ASSUME NEW k \in 1 .. j PROVE HeaderAt(p, k)'
    <2>1. k \in DOMAIN header[p] /\ HeaderAt(p, k) BY <1>4, <1>5 DEF IndexAt
    <2>2. PICK m \in Nat \ {0} : m = Cap(k) /\ m <= n
      <3>1. Cap(k) \in Nat \ {0, 1} /\ Cap(k) <= Len(entry[p]) BY <1>4, <2>1, Parts
      <3>2. Len(entry[p]) = n BY <1>2
      <3> QED BY <3>1, <3>2
    <2>3. \A e \in 1 .. m : e \in 1 .. n BY <2>2
    <2>4. header'[p][k] = header[p][k] /\ shift'[p][k] = shift[p][k] BY <1>14, <1>15
    <2>5. \A i \in 1 .. Cap(k) : Same(num'[p][header[p][k].index[i]] + shift[p][k], i - 1, Cap(k))
      BY <1>17, <2>1, <2>2, <2>3 DEF HeaderAt
    <2>6. Valid(p, header[p][k].index[header[p][k].tail + 1]) /\ header[p][k].index[header[p][k].tail + 1] \in 1 .. n
      <3>1. header[p][k].index[header[p][k].tail + 1] \in 1 .. n
        <4>1. header[p][k].tail \in 0 .. Cap(k) - 1 BY <2>1 DEF HeaderAt
        <4> QED BY <1>4, <1>5, <2>1, <4>1, EntryOf
      <3>2. CASE k = j
        <4>1. Valid(p, Current(p).index[Current(p).tail + 1]) BY <1>2, <1>3, <1>4, TailEntry
        <4> QED BY <1>2, <3>1, <3>2, <4>1 DEF Current, blockIndex
      <3>3. CASE k # j BY <1>2, <2>1, <3>1, <3>3 DEF HeaderAt
      <3> QED BY <3>2, <3>3
    <2>7. Valid(p, header[p][k].index[header[p][k].tail + 1])' BY <1>22, <2>4, <2>6 DEF Valid
    <2> QED BY <2>1, <2>4, <2>5, <2>7 DEF HeaderAt, Valid
  <1>27. HeaderAt(p, j + 1)'
    <2>1. /\ H.tail \in 0 .. Cap(j + 1) - 1 /\ H.index \in [1 .. Cap(j + 1) -> 1 .. Cap(j + 1)]
          /\ n + n = 2 * n /\ n + n \in Nat \ {0}
      BY <1>6, <1>8, <1>9
    <2>2. ASSUME NEW e \in 1 .. 2 * n PROVE \E i \in 1 .. 2 * n : G[i] = e
      <3>1. CASE e > n BY <1>8, <3>1
      <3>2. CASE ~(e > n)
        <4>1. e \in 1 .. n BY <3>2
        <4>2. PICK i \in 1 .. n : G[i] = e BY <1>8, <4>1
        <4>3. i \in 1 .. 2 * n OBVIOUS
        <4> QED BY <4>2, <4>3
      <3> QED BY <3>1, <3>2
    <2>3. ASSUME NEW i \in 1 .. 2 * n PROVE Same(num'[p][G[i]] + (n - t), i - 1, 2 * n)
      <3>1. i - 1 \in Int /\ 2 * n \in Nat \ {0} /\ -1 \in Int OBVIOUS
      <3>2. CASE i > n
        <4>1. num'[p][G[i]] = (t - 1) + ((i - n) - 2 * n) BY <1>8, <1>18, <2>1, <3>2
        <4>2. ((t - 1) + ((i - n) - 2 * n)) + (n - t) = (i - 1) + (2 * n) * (-1) OBVIOUS
        <4>3. Same((i - 1) + (2 * n) * (-1), i - 1, 2 * n) BY <3>1, SameRound
        <4> QED BY <4>1, <4>2, <4>3
      <3>3. CASE ~(i > n)
        <4>1. i \in 1 .. n BY <3>3
        <4>2. num'[p][G[i]] = (t - 1) + (i - n) BY <1>8, <1>17, <4>1
        <4>3. ((t - 1) + (i - n)) + (n - t) = i - 1 OBVIOUS
        <4>4. Same(i - 1, i - 1, 2 * n) BY <3>1, SameIs
        <4> QED BY <4>2, <4>3, <4>4
      <3> QED BY <3>2, <3>3
    <2> QED BY <1>6, <1>9, <1>14, <1>15, <2>1, <2>2, <2>3 DEF HeaderAt
  <1>28. ASSUME NEW f \in DOMAIN entry'[p] PROVE EntryAt(p, f)'
    <2>1. CASE f \in 1 .. n
      <3>1. EntryAt(p, f) /\ num[p][f] \in t - n .. t - 1 BY <1>3, <1>4, <1>5, <2>1 DEF IndexAt
      <3>2. PICK a \in Int : a = num[p][f] BY <1>4, <1>5, <2>1, Parts
      <3>3. a \in ((t - 1) - (n + n)) + 1 .. t BY <3>1, <3>2
      <3>4. entry'[p][f] = entry[p][f] /\ num'[p][f] = a /\ Valid(p, f)' = Valid(p, f) BY <1>16, <1>17, <1>22, <2>1, <3>2
      <3> QED BY <1>2, <1>7, <1>16, <1>20, <1>21, <3>1, <3>2, <3>3, <3>4 DEF EntryAt
    <2>2. CASE f \in 1 .. n + n /\ f > n
      <3>1. PICK a \in Int : a = (t - 1) + ((f - n) - 2 * n) BY <2>2
      <3>2. num'[p][f] = a /\ entry'[p][f].value = Null /\ ~Valid(p, f)' BY <1>18, <1>23, <2>2, <3>1 DEF NewEntry
      <3>3. a \in ((t - 1) - (n + n)) + 1 .. t /\ ~(a >= t - 1) BY <2>2, <3>1
      <3> QED BY <1>2, <1>16, <1>20, <1>21, <3>2, <3>3 DEF EntryAt
    <2> QED BY <1>24, <2>1, <2>2
  <1>29. KeptAt(p)'
    <2>1. KeptAt(p) BY <1>4 DEF IndexAt
    <2>2. SUFFICES ASSUME NEW k \in 0 .. Number(tails'[p]), Stored(p, k)', ~(BlockIndices(k) \subseteq emptied'[p])
                   PROVE  \E f \in DOMAIN entry'[p] : num'[p][f] = k /\ entry'[p][f].value # Null
      BY DEF KeptAt
    <2>3. k \in 0 .. Number(tails[p]) /\ ~(BlockIndices(k) \subseteq emptied[p]) BY <1>20, <2>2
    <2>4. Stored(p, k)
      <3>1. k \in Int BY <1>2, <2>3
      <3> QED BY <1>21, <2>2, <3>1
    <2>5. PICK f \in DOMAIN entry[p] : num[p][f] = k /\ entry[p][f].value # Null BY <2>1, <2>3, <2>4 DEF KeptAt
    <2>6. f \in 1 .. n /\ f \in 1 .. n + n BY <1>5
    <2> QED BY <1>16, <1>17, <2>5, <2>6
  <1>30. IndexAt(p)'
    <2>1. SlotAt(p)' BY <1>1, <1>20 DEF SlotAt
    <2>2. emptied'[p] \subseteq 0 .. heads'[p] - 1 BY <1>4, <1>20 DEF IndexAt
    <2>3. ASSUME NEW k \in DOMAIN header'[p] PROVE HeaderAt(p, k)'
      <3>1. k \in 1 .. j \/ k = j + 1 BY <1>6, <1>14
      <3> QED BY <1>26, <1>27, <3>1
    <2> QED BY <1>25, <1>28, <1>29, <2>1, <2>2, <2>3 DEF IndexAt
  <1>31. Grows(p)
    <2>1. DOMAIN header[p] \subseteq DOMAIN header'[p] BY <1>5, <1>6, <1>14
    <2>2. DOMAIN entry[p] \subseteq DOMAIN entry'[p] BY <1>5, <1>16
    <2> QED BY <1>5, <1>14, <1>22, <2>1, <2>2 DEF Grows
  <1>32. \A f \in DOMAIN entry[p] : Leads(p, f) BY <1>5, <1>16, <1>17 DEF Leads
  <1>33. OwnerInv'
    <2>1. ASSUME NEW q \in Producers, NEW f \in DOMAIN entry'[q], entry'[q][f].value # Null
          PROVE  f \in DOMAIN entry[q] /\ entry[q][f].value = entry'[q][f].value
      <3>1. CASE q # p BY <1>13, <3>1
      <3>2. CASE q = p
        <4>1. f \in 1 .. n BY <1>18, <1>24, <2>1, <3>2 DEF NewEntry
        <4> QED BY <1>5, <1>16, <3>2, <4>1
      <3> QED BY <3>1, <3>2
    <2>2. \A u \in Producers \cup Consumers : pc'[u] \in {"store", "release"} => pc[u] = pc'[u] /\ loc'[u].block = loc[u].block
      BY <1>7
    <2> QED BY <1>4, <1>7, <2>1, <2>2, OwnerValues
  <1>34. \A u \in (Producers \cup Consumers) \ {p} : pc'[u] = pc[u] /\ loc'[u] = loc[u] BY <1>7
  <1> QED BY <1>7, <1>13, <1>19, <1>30, <1>31, <1>32, <1>33, <1>34, ProducerFrame
------------------------------------------------------------------------------
(* The block index: the invariant and the theorems. *)

\* Nothing happens.
LEMMA IdleIndex ==
  ASSUME QueueInv, IndexInv, UNCHANGED <<vars, history>>
  PROVE  IndexInv'
  <1>1. /\ UNCHANGED <<header, entry, elementsCompletelyDequeued, initialBlockPoolIndex, freeList, allocated, pc, loc>>
        /\ UNCHANGED <<tails, heads, emptied, taken, num, shift>>
    BY DEF vars, history, index, memory, pools
  <1>2. IndexTypes /\ HeldDiffer BY DEF IndexInv
  <1>3. IndexTypes' BY <1>1, <1>2 DEF IndexTypes
  <1>4. ASSUME NEW p \in Producers PROVE IndexAt(p)'
    <2>1. IndexAt(p) /\ heads[p] \in Nat BY DEF IndexInv, QueueInv, IndexType
    <2>2. heads'[p] \in Nat /\ heads'[p] >= heads[p] BY <1>1, <2>1
    <2>3. /\ header'[p] = header[p] /\ entry'[p] = entry[p] /\ num'[p] = num[p] /\ shift'[p] = shift[p]
          /\ emptied'[p] = emptied[p] /\ tails'[p] = tails[p] /\ pc'[p] = pc[p] /\ loc'[p] = loc[p]
      BY <1>1
    <2> QED BY <1>1, <1>2, <2>1, <2>2, <2>3, IndexIdle
  <1>5. ASSUME NEW d \in Consumers PROVE HeldAt(d)'
    <2>1. HeldAt(d) BY DEF IndexInv
    <2>2. ASSUME NEW q \in Producers
          PROVE  Grows(q) /\ heads'[q] \in Nat /\ heads'[q] >= heads[q] /\ emptied[q] \subseteq emptied'[q]
      <3>1. heads[q] \in Nat BY DEF QueueInv, IndexType
      <3>2. Grows(q) BY <1>1 DEF Grows, Valid
      <3> QED BY <1>1, <3>1, <3>2
    <2>3. ASSUME NEW q \in Producers, q = loc[d].ptr, Holding(d) PROVE taken[d] \notin emptied'[q]
      BY <1>1, <2>1, <2>3 DEF HeldAt
    <2>4. ASSUME NEW q \in Producers, NEW e \in DOMAIN entry[q] PROVE Leads(q, e) BY <1>1 DEF Leads
    <2>5. pc'[d] = pc[d] /\ loc'[d] = loc[d] /\ taken'[d] = taken[d] BY <1>1
    <2> QED BY <2>2, <2>3, <2>4, <2>5, HeldByOthers
  <1>6. HeldDiffer' BY <1>1, <1>2 DEF HeldDiffer, Holding
  <1>7. ~Destroyed' => OwnerInv'
    <2>1. SUFFICES ASSUME ~Destroyed' PROVE OwnerInv' OBVIOUS
    <2>2. OwnerInv BY <1>1, <2>1 DEF Destroyed, IndexInv
    <2> QED BY <1>1, <2>2, OwnerIdle
  <1> QED BY <1>3, <1>4, <1>5, <1>6, <1>7 DEF IndexInv

\* The destructors leave the block indices alone; nobody looks at them any more.
LEMMA DestroyIndex ==
  ASSUME QueueInv, IndexInv, Destroy, UNCHANGED history
  PROVE  IndexInv'
  <1>1. /\ UNCHANGED <<header, entry, elementsCompletelyDequeued, loc>>
        /\ UNCHANGED <<tails, heads, emptied, taken, num, shift>>
        /\ pc' = [t \in Producers \cup Consumers |-> "off"]
        /\ \A t \in Producers \cup Consumers : pc[t] \in {"idle", "off"}
    BY DEF Destroy, Quiescent, history, index, memory
  <1>2. IndexTypes BY DEF IndexInv
  <1>3. IndexTypes' BY <1>1, <1>2 DEF IndexTypes
  <1>4. ASSUME NEW p \in Producers PROVE IndexAt(p)'
    <2>1. IndexAt(p) /\ ShapeAt(p) /\ heads[p] \in Nat BY DEF IndexInv, IndexAt, QueueInv, IndexType
    <2>2. heads'[p] \in Nat /\ heads'[p] >= heads[p] BY <1>1, <2>1
    <2>3. /\ header'[p] = header[p] /\ entry'[p] = entry[p] /\ num'[p] = num[p] /\ shift'[p] = shift[p]
          /\ emptied'[p] = emptied[p] /\ tails'[p] = tails[p] /\ pc'[p] = "off" /\ pc[p] \in {"idle", "off"}
      BY <1>1
    <2>4. Published(p)' = Published(p) /\ (\A n \in Int : Stored(p, n)' = Stored(p, n)) /\ SlotAt(p)'
      BY <2>3 DEF Published, Filled, Stored, SlotAt
    <2>5. \A e \in DOMAIN entry[p] : num[p][e] \in Int BY <1>2, <2>1, Parts
    <2> QED BY <1>1, <2>1, <2>2, <2>3, <2>4, <2>5, IndexKept
  <1>5. \A c \in Consumers : pc'[c] = "off" BY <1>1
  <1>6. (\A c \in Consumers : HeldAt(c)') /\ HeldDiffer' BY <1>5 DEF HeldAt, HeldDiffer, Holding
  <1>7. Destroyed' BY <1>1 DEF Destroyed
  <1> QED BY <1>3, <1>4, <1>6, <1>7 DEF IndexInv

\* The numbers of the entries of a block index that has been used for u blocks.
LEMMA FirstNumbers ==
  ASSUME NEW u \in Nat, NEW n \in Nat \ {0, 1}, NEW i \in 1 .. n, NEW a \in Int, a = (u - 1) - ((u - i) % n)
  PROVE  /\ a \in ((u - 1) - n) + 1 .. u /\ a <= u - 1
         /\ Same(a, i - 1, n)
         /\ i <= u => a >= 0
         /\ a >= 0 /\ a >= u - 1 => i <= u
  <1>1. PICK r \in 0 .. n - 1 : r = (u - i) % n
    <2>1. u - i \in Int OBVIOUS
    <2> QED BY <2>1, Division
  <1>2. a = (u - 1) - r BY <1>1
  <1>3. a \in ((u - 1) - n) + 1 .. u /\ a <= u - 1 BY <1>2
  <1>4. Same(r, u - i, n)
    <2>1. u - i \in Int /\ n \in Nat \ {0} OBVIOUS
    <2> QED BY <1>1, <2>1, SameRound
  <1>5. PICK k \in Int : r = (u - i) + n * k
    <2>1. u - i \in Int /\ n \in Nat \ {0} /\ r \in Int OBVIOUS
    <2> QED BY <1>4, <2>1, SameBy
  <1>6. Same(a, i - 1, n)
    <2>1. -k \in Int /\ a \in Int /\ i - 1 \in Int /\ n \in Nat \ {0} OBVIOUS
    <2>2. n * (-k) = -(n * k) OBVIOUS
    <2>3. a = (i - 1) + n * (-k)
      <3>1. PICK y \in Int : y = n * k OBVIOUS
      <3>2. a = (i - 1) - y BY <1>2, <1>5, <3>1
      <3> QED BY <2>2, <3>1, <3>2
    <2> QED BY <2>1, <2>3, SameBy
  <1>7. ASSUME i <= u PROVE a >= 0
    <2>1. k <= 0
      <3>1. SUFFICES ASSUME k >= 1 PROVE FALSE OBVIOUS
      <3>2. n * k >= n BY <3>1
      <3> QED BY <1>5, <1>7, <3>2
    <2>2. n * k <= 0 BY <2>1
    <2>3. r <= u - i BY <1>5, <2>2
    <2> QED BY <1>2, <2>3
  <1>8. ASSUME a >= 0, a >= u - 1 PROVE i <= u
    <2>1. r = 0 /\ u >= 1 BY <1>2, <1>8
    <2>2. SUFFICES ASSUME i > u PROVE FALSE OBVIOUS
    <2>3. n * k = i - u BY <1>5, <2>1
    <2>4. k >= 1
      <3>1. SUFFICES ASSUME k <= 0 PROVE FALSE OBVIOUS
      <3>2. n * k <= 0 BY <3>1
      <3> QED BY <2>2, <2>3, <3>2
    <2>5. n * k >= n BY <2>4
    <2> QED BY <2>1, <2>3, <2>5
  <1> QED BY <1>3, <1>6, <1>7, <1>8

\* The keys of blocks that have been used are no larger than the indices.
LEMMA FirstKeys ==
  ASSUME NEW u \in Nat, NEW m \in Nat, m <= u - 1, u * BLOCK_SIZE < IndexRange
  PROVE  /\ m * BLOCK_SIZE \in Nat /\ (m * BLOCK_SIZE) % IndexRange = m * BLOCK_SIZE
         /\ m * BLOCK_SIZE # INVALID_BLOCK_BASE
         /\ BlockIndices(m) \subseteq 0 .. u * BLOCK_SIZE - 1
  <1>1. PICK d \in Nat \ {0}, r \in Nat \ {0} : d = BLOCK_SIZE /\ r = IndexRange BY RangeOfBlocks, Constants
  <1>2. PICK x \in Nat, y \in Nat : x = m * d /\ y = u * d OBVIOUS
  <1>3. x + d <= y
    <2>1. PICK k \in Nat : u = m + (1 + k)
      <3>1. (u - 1) - m \in Nat /\ u = m + (1 + ((u - 1) - m)) OBVIOUS
      <3> QED BY <3>1
    <2>2. u * d = (m * d) + (d + k * d) BY <2>1
    <2>3. k * d \in Nat OBVIOUS
    <2> QED BY <1>2, <2>2, <2>3
  <1>4. x < r BY <1>1, <1>2, <1>3
  <1>5. x % r = x BY <1>4
  <1>6. x % d = 0
    <2>1. x \in Int /\ m \in Int /\ x = d * m BY <1>2
    <2> QED BY <2>1, Multiple
  <1>7. x % r # INVALID_BLOCK_BASE BY <1>1, <1>6, KeyOf
  <1>8. BlockIndices(m) = x .. (x + d) - 1 BY <1>1, <1>2 DEF BlockIndices
  <1>9. BlockIndices(m) \subseteq 0 .. y - 1 BY <1>3, <1>8
  <1> QED BY <1>1, <1>2, <1>5, <1>7, <1>9

\* The block index of a producer that has been used for some blocks.
LEMMA InitIndex == HInit => IndexInv
  <1> SUFFICES ASSUME HInit PROVE IndexInv OBVIOUS
  <1>1. PICK work \in Workloads :
          /\ tailIndex = [p \in Producers |-> work.start]
          /\ ImplicitProducer(work.start \div BLOCK_SIZE)
          /\ pc = [t \in Producers \cup Consumers |-> IF t \in Consumers \ work.active THEN "off" ELSE "idle"]
          /\ loc = [t \in Producers \cup Consumers |-> IF t \in Producers THEN ProducerLocals ELSE ConsumerLocals]
          /\ initialBlockPoolIndex = 0 /\ freeList = {} /\ allocated = PoolSize
          /\ elementsCompletelyDequeued = [b \in Blocks |-> 0]
    BY DEF HInit, Init, ProducerBase, populate_initial_block_list
  <1>2. PICK s \in Nat : s = work.start /\ s \in 0 .. IndexRange - 1 /\ s % BLOCK_SIZE = 0
    <2>1. /\ work.start \in 0 .. IndexRange - 1 /\ work.start % BLOCK_SIZE = 0 /\ IndexRange \in Nat
      BY ImplicitQueueAssumption
    <2> QED BY <2>1
  <1>3. PICK u \in Nat : u = Number(s) /\ s = u * BLOCK_SIZE BY <1>2, NumberOf, KeyOf
  <1>4. PICK n \in Nat \ {0, 1} : n = IMPLICIT_INITIAL_INDEX_SIZE /\ n = Cap(1)
    <2>1. Cap(1) = IMPLICIT_INITIAL_INDEX_SIZE /\ 1 \in Nat \ {0} BY CapStep
    <2>2. Cap(1) \in Nat \ {0, 1} BY <2>1, CapStep
    <2> QED BY <2>1, <2>2
  <1>5. u * BLOCK_SIZE < IndexRange BY <1>2, <1>3, Constants
  <1> DEFINE T == [i \in 1 .. n |-> i]
             H == [tail |-> (u - 1) % n, index |-> T]
             M == [i \in 1 .. n |-> (u - 1) - ((u - i) % n)]
             X(i) == IF i > u THEN NewEntry ELSE [key |-> ((u - 1) - ((u - i) % n)) * BLOCK_SIZE, value |-> Null]
             E == [i \in 1 .. n |-> X(i)]
  <1>6. /\ tails = [p \in Producers |-> s] /\ heads = [p \in Producers |-> s]
        /\ emptied = [p \in Producers |-> 0 .. s - 1] /\ taken = [c \in Consumers |-> 0]
        /\ header = [p \in Producers |-> <<H>>] /\ entry = [p \in Producers |-> E]
        /\ num = [p \in Producers |-> M] /\ shift = [p \in Producers |-> <<0>>]
    <2>1. /\ tails = tailIndex /\ heads = tailIndex /\ emptied = [p \in Producers |-> 0 .. tailIndex[p] - 1]
          /\ taken = [c \in Consumers |-> 0] /\ shift = [p \in Producers |-> <<0>>]
          /\ num = [p \in Producers |-> [i \in 1 .. n |-> (Number(tailIndex[p]) - 1) - ((Number(tailIndex[p]) - i) % n)]]
      BY <1>4 DEF HInit
    <2>2. \A p \in Producers : tailIndex[p] = s BY <1>1, <1>2
    <2>3. u = work.start \div BLOCK_SIZE BY <1>2, <1>3 DEF Number
    <2>4. header = [p \in Producers |-> <<H>>] /\ entry = [p \in Producers |-> E]
      BY <1>1, <1>4, <2>3 DEF ImplicitProducer
    <2> QED BY <1>1, <1>2, <1>3, <2>1, <2>2, <2>4
  <1>7. ASSUME NEW i \in 1 .. n
        PROVE  /\ M[i] \in Int /\ M[i] \in ((u - 1) - n) + 1 .. u /\ Same(M[i], i - 1, n)
               /\ M[i] >= 0 /\ M[i] >= u - 1 => i <= u
               /\ E[i] \in [key : Nat, value : Blocks \cup {Null}] /\ E[i].value = Null
               /\ E[i].key # INVALID_BLOCK_BASE <=> i <= u
               /\ i <= u => M[i] >= 0 /\ E[i].key = (M[i] * BLOCK_SIZE) % IndexRange
    <2>1. PICK a \in Int : a = (u - 1) - ((u - i) % n)
      <3>1. u - i \in Int OBVIOUS
      <3>2. PICK r \in Int : r = (u - i) % n BY <3>1, Division
      <3> QED BY <3>2
    <2>2. /\ a \in ((u - 1) - n) + 1 .. u /\ a <= u - 1 /\ Same(a, i - 1, n)
          /\ i <= u => a >= 0
          /\ a >= 0 /\ a >= u - 1 => i <= u
      BY <2>1, FirstNumbers
    <2>3. M[i] = a BY <2>1
    <2>4. CASE i <= u
      <3>1. a \in Nat /\ a <= u - 1 /\ ~(i > u) BY <2>2, <2>4
      <3>2. /\ a * BLOCK_SIZE \in Nat /\ (a * BLOCK_SIZE) % IndexRange = a * BLOCK_SIZE
            /\ a * BLOCK_SIZE # INVALID_BLOCK_BASE
        BY <1>5, <3>1, FirstKeys
      <3>3. E[i] = [key |-> a * BLOCK_SIZE, value |-> Null] BY <2>1, <3>1
      <3> HIDE DEF M, E
      <3> QED BY <2>2, <2>3, <2>4, <3>2, <3>3
    <2>5. CASE ~(i <= u)
      <3>1. E[i] = NewEntry BY <2>5
      <3> HIDE DEF M, E
      <3> QED BY <2>2, <2>3, <2>5, <3>1 DEF NewEntry, INVALID_BLOCK_BASE
    <2> HIDE DEF M, E
    <2> QED BY <2>4, <2>5
  <1>8. /\ H.tail \in 0 .. n - 1 /\ H.tail = (u - 1) % n /\ H.index = T
        /\ H \in [tail : Nat, index : Seq(Nat)] /\ T \in [1 .. n -> 1 .. n] /\ \A i \in 1 .. n : T[i] = i
    <2>1. PICK r \in 0 .. n - 1 : r = (u - 1) % n
      <3>1. u - 1 \in Int OBVIOUS
      <3> QED BY <3>1, Division
    <2>2. T \in Seq(Nat) /\ T \in [1 .. n -> 1 .. n] /\ \A i \in 1 .. n : T[i] = i OBVIOUS
    <2> HIDE DEF T
    <2> QED BY <2>1, <2>2
  <1>9. /\ M \in Seq(Int) /\ Len(M) = n /\ DOMAIN M = 1 .. n
        /\ E \in Seq([key : Nat, value : Blocks \cup {Null}]) /\ Len(E) = n /\ DOMAIN E = 1 .. n
    <2>1. M = [i \in 1 .. n |-> M[i]] /\ E = [i \in 1 .. n |-> E[i]] /\ DOMAIN M = 1 .. n /\ DOMAIN E = 1 .. n OBVIOUS
    <2> HIDE DEF M, E
    <2>2. M \in [1 .. n -> Int] /\ E \in [1 .. n -> [key : Nat, value : Blocks \cup {Null}]] BY <1>7, <2>1
    <2> QED BY <2>1, <2>2
  <1> HIDE DEF T, H, M, E
  <1>10. /\ \A p \in Producers : pc[p] = "idle" /\ loc[p] = ProducerLocals
         /\ \A c \in Consumers : pc[c] \in {"idle", "off"}
    <2>1. Producers \cap Consumers = {} BY Constants
    <2> QED BY <1>1, <2>1
  <1>11. /\ <<H>> \in Seq([tail : Nat, index : Seq(Nat)]) /\ Len(<<H>>) = 1 /\ DOMAIN <<H>> = {1} /\ <<H>>[1] = H
         /\ <<0>> \in Seq(Int) /\ Len(<<0>>) = 1 /\ <<0>>[1] = 0
    BY <1>8
  <1>12. IndexTypes
    <2>1. 0 .. s - 1 \in SUBSET Nat /\ 0 \in Nat OBVIOUS
    <2> QED BY <1>1, <1>6, <1>9, <1>10, <1>11, <2>1 DEF IndexTypes
  <1>13. ASSUME NEW p \in Producers PROVE IndexAt(p)
    <2>1. /\ header[p] = <<H>> /\ entry[p] = E /\ num[p] = M /\ shift[p] = <<0>> /\ tails[p] = s /\ heads[p] = s
          /\ emptied[p] = 0 .. s - 1 /\ pc[p] = "idle"
      BY <1>6, <1>10
    <2>2. Filled(p) = u - 1 /\ Published(p) = u - 1 BY <1>2, <1>3, <2>1 DEF Filled, Published
    <2>3. ShapeAt(p)
      <3>1. MaxHeaders \in Nat \ {0} BY RangeOfBlocks
      <3>2. 1 \in 1 .. MaxHeaders BY <3>1
      <3>3. PICK x \in Int : x = u - 1 OBVIOUS
      <3>4. (u - 1) + 0 = x /\ n \in Nat \ {0} BY <3>3
      <3>5. Same(x, x % n, n) BY <3>4, SameRound
      <3>6. Current(p).tail = x % n BY <1>8, <1>11, <2>1, <3>3 DEF Current, blockIndex
      <3> QED BY <1>4, <1>9, <1>11, <2>1, <2>2, <3>2, <3>4, <3>5, <3>6 DEF ShapeAt
    <2>4. HeaderAt(p, 1)
      <3>1. \A i \in 1 .. n : Same(num[p][T[i]] + shift[p][1], i - 1, n)
        <4>1. ASSUME NEW i \in 1 .. n PROVE M[T[i]] + 0 = M[i]
          <5>1. T[i] = i BY <1>8
          <5>2. M[i] \in Int BY <1>7
          <5> QED BY <5>1, <5>2
        <4> QED BY <1>7, <1>11, <2>1, <4>1
      <3> QED BY <1>4, <1>8, <1>11, <2>1, <3>1 DEF HeaderAt
    <2>5. ASSUME NEW e \in DOMAIN entry[p] PROVE EntryAt(p, e)
      <3>1. e \in 1 .. n BY <1>9, <2>1
      <3>2. Valid(p, e) <=> e <= u BY <1>7, <2>1, <3>1 DEF Valid
      <3> QED BY <1>3, <1>7, <1>9, <2>1, <2>2, <3>1, <3>2 DEF EntryAt
    <2>6. SlotAt(p) BY <2>1 DEF SlotAt
    <2>7. KeptAt(p)
      <3>1. SUFFICES ASSUME NEW k \in 0 .. Number(tails[p]), Stored(p, k) PROVE BlockIndices(k) \subseteq emptied[p]
        BY DEF KeptAt
      <3>2. k \in Nat /\ k * BLOCK_SIZE < s BY <1>3, <2>1, <3>1 DEF Stored
      <3>3. k <= u - 1
        <4>1. k <= u BY <1>3, <2>1, <3>1
        <4>2. k # u
          <5>1. SUFFICES ASSUME k = u PROVE FALSE OBVIOUS
          <5>2. s < s BY <1>3, <3>2, <5>1
          <5> QED BY <5>2
        <4> QED BY <3>2, <4>1, <4>2
      <3>4. BlockIndices(k) \subseteq 0 .. u * BLOCK_SIZE - 1 BY <1>5, <3>2, <3>3, FirstKeys
      <3> QED BY <1>3, <2>1, <3>4
    <2>8. emptied[p] \subseteq 0 .. heads[p] - 1 BY <2>1
    <2> QED BY <1>11, <2>1, <2>3, <2>4, <2>5, <2>6, <2>7, <2>8 DEF IndexAt
  <1>14. (\A c \in Consumers : HeldAt(c)) /\ HeldDiffer BY <1>10 DEF HeldAt, HeldDiffer, Holding
  <1>15. OwnerInv
    <2>1. Null \notin Nat /\ MaxBlocks \in Nat /\ PoolSize \in Nat /\ PoolSize <= MaxBlocks BY ImplicitQueueAssumption
    <2>2. \A p \in Producers : \A e \in DOMAIN entry[p] : entry[p][e].value = Null BY <1>6, <1>7, <1>9
    <2>3. \A b \in Blocks : ~Entered(b) BY <2>1, <2>2 DEF Entered, Blocks
    <2>4. \A t \in Producers \cup Consumers : pc[t] \notin {"store", "release"} BY <1>10
    <2> QED BY <1>1, <2>1, <2>2, <2>3, <2>4 DEF OwnerInv, Stores, Releases
  <1> QED BY <1>12, <1>13, <1>14, <1>15 DEF IndexInv

\* Every step keeps the invariant.
LEMMA NextIndex ==
  ASSUME QueueInv, IndexInv, [HNext]_<<vars, history>>
  PROVE  IndexInv'
  <1>1. CASE UNCHANGED <<vars, history>> BY <1>1, IdleIndex
  <1>2. CASE Destroy /\ UNCHANGED history BY <1>2, DestroyIndex
  <1>3. ASSUME NEW p \in Producers, HInsertEntry(p) \/ HGrowIndex(p) \/ HStoreTail(p) PROVE IndexInv'
    BY <1>3, InsertEntryIndex, GrowIndexIndex, StoreTailIndex
  <1>4. ASSUME NEW p \in Producers, EnqueuingQuietly(p) PROVE IndexInv'
    <2>1. UNCHANGED history BY <1>4 DEF EnqueuingQuietly
    <2>2. CASE PublishEntry(p) \/ NoBlock(p) \/ StoreBlock(p)
      BY <2>1, <2>2, PublishEntryIndex, NoBlockIndex, StoreBlockIndex
    <2>3. CASE \/ EnqueueBegin(p) \/ CheckRoom(p) \/ IndexFull(p) \/ LoadPool(p) \/ TakeFromPool(p)
               \/ TakeFree(p) \/ CreateBlock(p) \/ WriteElement(p)
      BY <2>1, <2>3, QuietIndex
    <2> QED BY <1>4, <2>2, <2>3 DEF EnqueuingQuietly
  <1>5. ASSUME NEW c \in Consumers, HTakeIndex(c) \/ HSetEmpty(c) PROVE IndexInv'
    BY <1>5, TakeIndexIndex, SetEmptyIndex
  <1>6. ASSUME NEW c \in Consumers, HLoadOvercommit(c) \/ HClaim(c) \/ HRecheck(c) \/ HGiveBack(c) PROVE IndexInv'
    BY <1>6, SearchIndex
  <1>7. ASSUME NEW c \in Consumers, DequeuingQuietly(c) PROVE IndexInv'
    <2>1. UNCHANGED history BY <1>7 DEF DequeuingQuietly
    <2>2. CASE DequeueBegin(c) \/ SizeTail(c) \/ SizeHead(c) \/ LoadTail(c) \/ CheckCount(c)
      BY <2>1, <2>2, SearchIndex
    <2>3. CASE LoadHeader(c) \/ LoadPosition(c) \/ LoadKey(c) \/ ReadElement(c) \/ UnlinkBlock(c) \/ ReleaseBlock(c)
      BY <2>1, <2>3, LoadHeaderIndex, LoadPositionIndex, LoadKeyIndex, ReadElementIndex, UnlinkBlockIndex,
         ReleaseBlockIndex
    <2> QED BY <1>7, <2>2, <2>3 DEF DequeuingQuietly
  <1> QED BY <1>1, <1>2, <1>3, <1>4, <1>5, <1>6, <1>7 DEF HNext

\* "localBlockIndex->index[idx]->key == index && ...->value != nullptr", which
\* get_block_index_index_for_index asserts: however long a consumer has slept, and
\* however often the block index has been replaced since, it finds its block.
THEOREM EntriesFound == HSpec /\ []Fresh => []EntryFound
  <1>1. HInit => QueueInv /\ IndexInv BY InitInv, InitIndex
  <1>2. QueueInv /\ IndexInv /\ Fresh /\ [HNext]_<<vars, history>> => QueueInv' /\ IndexInv' BY NextInv, NextIndex
  <1>3. QueueInv /\ IndexInv => EntryFound BY Found
  <1> QED BY <1>1, <1>2, <1>3, PTL DEF HSpec

\* No block is in two places (get_block_from_free_list, add_block_to_free_list): one that
\* has been taken from the pool or the heap is on the free list, or in one entry of one
\* producer, or with the one thread that is about to store or to release it.
THEOREM BlocksStayApart == HSpec /\ []Fresh => [](~Destroyed => OwnerInv)
  <1>1. HInit => QueueInv /\ IndexInv BY InitInv, InitIndex
  <1>2. QueueInv /\ IndexInv /\ Fresh /\ [HNext]_<<vars, history>> => QueueInv' /\ IndexInv' BY NextInv, NextIndex
  <1>3. IndexInv => (~Destroyed => OwnerInv) BY DEF IndexInv
  <1> QED BY <1>1, <1>2, <1>3, PTL DEF HSpec
------------------------------------------------------------------------------
(* The elements: what the queue implements. *)

\* A consumer that has an index and has not read the element yet.
Reading(c) == pc[c] \in {"header", "position", "key", "read"}

\* A consumer that has read an element and has not returned it yet.
Having(c) == pc[c] \in {"empty", "unlink", "release"}

\* The indices with elements that have been written and nobody has read.
Live(p, i) ==
  \/ heads[p] <= i /\ i < tails[p]
  \/ i = tails[p] /\ pc[p] = "bump"
  \/ \E c \in Consumers : Reading(c) /\ loc[c].ptr = p /\ taken[c] = i

Elem(p, i) == At(p, i % IndexRange)

\* Such an index has its block, and the current block index leads to it.
ElemsFound ==
  \A p \in Producers, i \in Nat : Live(p, i) =>
    /\ i \notin emptied[p] /\ i <= tails[p] /\ (pc[p] # "bump" => i < tails[p])
    /\ \E e \in DOMAIN entry[p] : LeadsTo(p, e, i)
    /\ \A e \in DOMAIN entry[p] : LeadsTo(p, e, i) =>
         /\ entry[p][e].value \in Blocks
         /\ Elem(p, i) = elements[entry[p][e].value][i % BLOCK_SIZE]

\* The invariants of the block index lead to the elements.
LEMMA LiveFound == QueueInv /\ IndexInv => ElemsFound
  <1>1. SUFFICES ASSUME QueueInv, IndexInv, NEW p \in Producers, NEW i \in Nat, Live(p, i)
                 PROVE  /\ i \notin emptied[p] /\ i <= tails[p] /\ (pc[p] # "bump" => i < tails[p])
                        /\ \E e \in DOMAIN entry[p] : LeadsTo(p, e, i)
                        /\ \A e \in DOMAIN entry[p] : LeadsTo(p, e, i) =>
                             /\ entry[p][e].value \in Blocks
                             /\ Elem(p, i) = elements[entry[p][e].value][i % BLOCK_SIZE]
    BY DEF ElemsFound
  <1>2. /\ tails[p] \in Nat /\ heads[p] \in Nat /\ IndexTypes /\ IndexAt(p) /\ ShapeAt(p) /\ KeptAt(p)
        /\ emptied[p] \subseteq 0 .. heads[p] - 1
    BY <1>1 DEF QueueInv, IndexType, IndexInv, IndexAt
  <1>3. heads[p] <= tails[p]
    <2>1. Accounts(p) /\ IndexType BY <1>1 DEF QueueInv, ClaimInv
    <2> QED BY <2>1, GrantsFit
  <1>4. i \notin emptied[p] /\ i <= tails[p] /\ (pc[p] # "bump" => i < tails[p])
    <2>1. CASE heads[p] <= i /\ i < tails[p] BY <1>2, <2>1
    <2>2. CASE i = tails[p] /\ pc[p] = "bump" BY <1>2, <1>3, <2>2
    <2>3. ASSUME NEW c \in Consumers, Reading(c), loc[c].ptr = p, taken[c] = i
          PROVE  i \notin emptied[p] /\ i <= tails[p] /\ (pc[p] # "bump" => i < tails[p])
      <3>1. HeldAt(c) /\ Holding(c) BY <1>1, <2>3 DEF IndexInv, Reading, Holding
      <3>2. i < heads[p] /\ i \notin emptied[p] BY <2>3, <3>1 DEF HeldAt
      <3> QED BY <1>2, <1>3, <3>2
    <2> QED BY <1>1, <2>1, <2>2, <2>3 DEF Live
  <1>5. /\ Number(i) \in Nat /\ Number(i) * BLOCK_SIZE <= i /\ Number(tails[p]) \in Nat
        /\ \A n \in Int : n * BLOCK_SIZE <= tails[p] => n <= Number(tails[p])
        /\ i \in BlockIndices(Number(i)) /\ BLOCK_SIZE \in Nat \ {0} /\ IndexRange \in Nat \ {0}
        /\ IndexRange % BLOCK_SIZE = 0
    <2>1. Number(i) \in Nat /\ Number(i) * BLOCK_SIZE <= i BY NumberOf
    <2>2. Number(tails[p]) \in Nat /\ \A n \in Int : n * BLOCK_SIZE <= tails[p] => n <= Number(tails[p])
      BY <1>2, NumberOf
    <2>3. i \in BlockIndices(Number(i)) BY <2>1, IndicesOf
    <2> QED BY <2>1, <2>2, <2>3, Constants
  <1>6. Number(i) * BLOCK_SIZE \in Int /\ Number(i) <= Number(tails[p])
    <2>1. Number(i) * BLOCK_SIZE \in Int BY <1>5
    <2>2. Number(i) * BLOCK_SIZE <= tails[p] BY <1>2, <1>4, <1>5, <2>1
    <2> QED BY <1>5, <2>1, <2>2
  <1>7. Stored(p, Number(i))
    <2> DEFINE x == Number(i) * BLOCK_SIZE
    <2>1. x \in Int /\ x <= i BY <1>5, <1>6
    <2> HIDE DEF x
    <2>2. x < tails[p] \/ (x = tails[p] /\ pc[p] \in {"write", "bump"}) BY <1>2, <1>4, <2>1
    <2> QED BY <2>2 DEF x, Stored
  <1>8. \E e \in DOMAIN entry[p] : LeadsTo(p, e, i)
    <2>1. Number(i) \in 0 .. Number(tails[p]) BY <1>5, <1>6
    <2>2. ~(BlockIndices(Number(i)) \subseteq emptied[p]) BY <1>4, <1>5
    <2> QED BY <1>2, <1>7, <2>1, <2>2 DEF KeptAt, LeadsTo
  <1>9. ASSUME NEW e \in DOMAIN entry[p], LeadsTo(p, e, i)
        PROVE  entry[p][e].value \in Blocks /\ Elem(p, i) = elements[entry[p][e].value][i % BLOCK_SIZE]
    <2>1. entry[p][e] \in [key : Nat, value : Blocks \cup {Null}] BY <1>2, Parts
    <2>2. entry[p][e].value \in Blocks BY <1>9, <2>1 DEF LeadsTo
    <2>3. PICK j \in DOMAIN header[p] : j = Len(header[p]) /\ Cap(j) = Len(entry[p]) /\ DOMAIN entry[p] = 1 .. Cap(j)
      <3>1. /\ Len(header[p]) \in 1 .. MaxHeaders /\ DOMAIN header[p] = 1 .. Len(header[p])
            /\ Len(entry[p]) = Cap(Len(header[p])) /\ DOMAIN entry[p] = 1 .. Len(entry[p])
        BY <1>2, Parts, Zenon
      <3>2. Len(header[p]) \in DOMAIN header[p] BY <3>1
      <3> QED BY <3>1, <3>2, Zenon
    <2>4. header[p][j].tail \in 0 .. Cap(j) - 1 /\ Current(p) = header[p][j]
      BY <1>2, <2>3 DEF IndexAt, HeaderAt, Current, blockIndex
    <2> DEFINE f == Current(p).index[Current(p).tail + 1]
    <2>5. f \in DOMAIN entry[p] /\ num[p][f] = Published(p) /\ (tails[p] > 0 => Valid(p, f)) BY <1>2, TailEntry
    <2>6. Valid(p, f)
      <3>1. CASE tails[p] > 0 BY <2>5, <3>1
      <3>2. CASE tails[p] = 0
        <4>1. pc[p] = "bump" BY <1>4, <3>2
        <4>2. Number(tails[p]) = 0 BY <1>5, <3>2 DEF Number
        <4>3. Published(p) = 0 /\ Filled(p) <= 0 BY <3>2, <4>1, <4>2, <1>5 DEF Published, Filled
        <4>4. EntryAt(p, f) BY <1>2, <2>5 DEF IndexAt
        <4>5. Filled(p) \in Int BY <1>2, LastBlock
        <4> HIDE DEF f
        <4> QED BY <2>5, <4>3, <4>4, <4>5 DEF EntryAt
      <3> QED BY <1>2, <3>1, <3>2
    <2>7. Lookup(p, Current(p), Current(p).tail, i % IndexRange) = e
      <3>1. Valid(p, header[p][j].index[header[p][j].tail + 1]) BY <2>4, <2>6
      <3>2. e \in 1 .. Cap(j) /\ num[p][e] = Number(i) BY <1>9, <2>3 DEF LeadsTo
      <3>3. Lookup(p, header[p][j], header[p][j].tail, i % IndexRange) = e BY <1>2, <2>4, <3>1, <3>2, LookupFinds
      <3> QED BY <2>4, <3>3
    <2>8. Slot(i % IndexRange) = i % BLOCK_SIZE
      <3>1. i \in Int OBVIOUS
      <3> QED BY <1>5, <3>1, ModMod DEF Slot
    <2> QED BY <2>2, <2>7, <2>8 DEF Elem, At, BlockOf
  <1> QED BY <1>4, <1>8, <1>9

\* A step leaves a block with an element that has not been dequeued in its entry.
Kept ==
  \A p \in Producers : \A e \in DOMAIN entry[p] :
    entry[p][e].value # Null /\ ~(BlockIndices(num[p][e]) \subseteq emptied[p]) =>
      e \in DOMAIN entry'[p] /\ Leads(p, e)

\* One entry of one producer is written, and it had no such block.
LEMMA KeptButOne ==
  ASSUME NEW p \in Producers, NEW e,
         \A q \in Producers \ {p} : entry'[q] = entry[q] /\ num'[q] = num[q],
         DOMAIN entry[p] \subseteq DOMAIN entry'[p],
         \A f \in DOMAIN entry[p] \ {e} : entry'[p][f] = entry[p][f] /\ num'[p][f] = num[p][f],
         e \in DOMAIN entry[p] => entry[p][e].value = Null \/ BlockIndices(num[p][e]) \subseteq emptied[p]
  PROVE  Kept
  <1>1. SUFFICES ASSUME NEW q \in Producers, NEW f \in DOMAIN entry[q], entry[q][f].value # Null,
                        ~(BlockIndices(num[q][f]) \subseteq emptied[q])
                 PROVE  f \in DOMAIN entry'[q] /\ Leads(q, f)
    BY DEF Kept
  <1>2. CASE q # p BY <1>1, <1>2 DEF Leads
  <1>3. CASE q = p
    <2>1. f # e BY <1>1, <1>3
    <2> QED BY <1>1, <1>3, <2>1 DEF Leads
  <1> QED BY <1>2, <1>3

\* So it is when the next entry is taken,
LEMMA InsertEntryKept ==
  ASSUME QueueInv, IndexInv, NEW p \in Producers, HInsertEntry(p)
  PROVE  Kept
  <1>1. pc[p] = "slot" BY DEF HInsertEntry, InsertEntry, Goto
  <1>2. PICK e \in DOMAIN entry[p] : e = NextEntry(p) BY <1>1, NextAt
  <1>3. IndexTypes /\ IndexAt(p) /\ ShapeAt(p) BY DEF IndexInv, IndexAt
  <1>4. entry[p][e].value = Null
    <2>1. EntryAt(p, e) BY <1>3 DEF IndexAt
    <2> QED BY <1>2, <2>1 DEF HInsertEntry, InsertEntry, EntryFree, EntryAt, Valid
  <1>5. /\ entry \in [Producers -> Seq([key : Nat, value : Blocks \cup {Null}])] /\ num \in [Producers -> Seq(Int)]
        /\ DOMAIN num[p] = DOMAIN entry[p]
    BY <1>3, Parts DEF IndexTypes
  <1>6. entry' = [entry EXCEPT ![p][e].key = tailIndex[p]] /\ num' = [num EXCEPT ![p][e] = Number(tails[p])]
    BY <1>2 DEF HInsertEntry, InsertEntry
  <1>7. \A q \in Producers \ {p} : entry'[q] = entry[q] /\ num'[q] = num[q] BY <1>5, <1>6
  <1>8. DOMAIN entry[p] \subseteq DOMAIN entry'[p] BY <1>5, <1>6
  <1>9. \A f \in DOMAIN entry[p] \ {e} : entry'[p][f] = entry[p][f] /\ num'[p][f] = num[p][f] BY <1>5, <1>6
  <1> QED BY <1>4, <1>7, <1>8, <1>9, KeptButOne

\* when the block index grows,
LEMMA GrowIndexKept ==
  ASSUME QueueInv, IndexInv, NEW p \in Producers, HGrowIndex(p)
  PROVE  Kept
  <1>1. IndexTypes /\ ShapeAt(p) BY DEF IndexInv, IndexAt
  <1>2. /\ entry \in [Producers -> Seq([key : Nat, value : Blocks \cup {Null}])] /\ num \in [Producers -> Seq(Int)]
        /\ DOMAIN num[p] = DOMAIN entry[p]
    BY <1>1, Parts DEF IndexTypes
  <1>3. Capacity(Current(p)) \in Nat
    <2>1. pc[p] = "slot" BY DEF HGrowIndex, GrowIndex
    <2> QED BY <2>1, NextAt
  <1>4. PICK n \in Nat : n = Capacity(Current(p)) BY <1>3
  <1> DEFINE E == [i \in 1 .. n |-> NewEntry]
             M == [i \in 1 .. n |-> Number(tails[p]) - 1 + i - 2 * n]
  <1>5. entry' = [entry EXCEPT ![p] = entry[p] \o E] /\ num' = [num EXCEPT ![p] = num[p] \o M]
    BY <1>2, <1>4 DEF HGrowIndex, GrowIndex
  <1>6. E \in [1 .. n -> {NewEntry}] /\ M \in [1 .. n -> {M[i] : i \in 1 .. n}] OBVIOUS
  <1> HIDE DEF E, M
  <1>7. ASSUME NEW S, NEW s \in Seq(S), NEW T, NEW t \in [1 .. n -> T]
        PROVE  DOMAIN s \subseteq DOMAIN (s \o t) /\ \A f \in DOMAIN s : (s \o t)[f] = s[f]
    <2>1. t \in Seq(T) OBVIOUS
    <2> QED BY <2>1
  <1>8. entry'[p] = entry[p] \o E /\ num'[p] = num[p] \o M BY <1>2, <1>5
  <1>9. DOMAIN entry[p] \subseteq DOMAIN entry'[p] /\ \A f \in DOMAIN entry[p] : entry'[p][f] = entry[p][f]
    <2>1. entry[p] \in Seq([key : Nat, value : Blocks \cup {Null}]) BY <1>2
    <2> QED BY <1>6, <1>7, <1>8, <2>1
  <1>10. \A f \in DOMAIN entry[p] : num'[p][f] = num[p][f]
    <2>1. num[p] \in Seq(Int) BY <1>2
    <2> QED BY <1>2, <1>6, <1>7, <1>8, <2>1
  <1>11. \A q \in Producers \ {p} : entry'[q] = entry[q] /\ num'[q] = num[q] BY <1>2, <1>5
  <1>12. Len(entry[p]) + 1 \notin DOMAIN entry[p] BY <1>2
  <1> QED BY <1>9, <1>10, <1>11, <1>12, KeptButOne

\* when a new block is stored, or none is found,
LEMMA StoreBlockKept ==
  ASSUME QueueInv, IndexInv, NEW p \in Producers, StoreBlock(p) \/ NoBlock(p), UNCHANGED history
  PROVE  Kept
  <1>1. pc[p] \in {"store", "free"} BY DEF StoreBlock, NoBlock, Goto
  <1>2. IndexTypes /\ SlotAt(p) BY DEF IndexInv, IndexAt
  <1>3. PICK e \in DOMAIN entry[p] : e = loc[p].slot /\ entry[p][e].value = Null BY <1>1, <1>2 DEF SlotAt
  <1>4. entry \in [Producers -> Seq([key : Nat, value : Blocks \cup {Null}])] /\ num' = num
    BY <1>2 DEF IndexTypes, history
  <1>5. PICK b : entry' = [entry EXCEPT ![p][e].value = b] BY <1>3 DEF StoreBlock, NoBlock
  <1>6. \A q \in Producers \ {p} : entry'[q] = entry[q] BY <1>4, <1>5
  <1>7. DOMAIN entry[p] \subseteq DOMAIN entry'[p] BY <1>4, <1>5
  <1>8. \A f \in DOMAIN entry[p] \ {e} : entry'[p][f] = entry[p][f] BY <1>4, <1>5
  <1> QED BY <1>3, <1>4, <1>6, <1>7, <1>8, KeptButOne

\* and when an empty block is unlinked.
LEMMA UnlinkBlockKept ==
  ASSUME QueueInv, IndexInv, NEW c \in Consumers, UnlinkBlock(c), UNCHANGED history
  PROVE  Kept
  <1>1. pc[c] = "unlink" BY DEF UnlinkBlock, Goto
  <1>2. PICK p \in Producers : p = loc[c].ptr BY <1>1, Local DEF QueueInv
  <1>3. HeldAt(c) /\ IndexTypes BY DEF IndexInv
  <1>4. PICK e \in DOMAIN entry[p] : e = loc[c].entry /\ BlockIndices(num[p][e]) \subseteq emptied[p]
    BY <1>1, <1>2, <1>3 DEF HeldAt, LeadsTo
  <1>5. entry \in [Producers -> Seq([key : Nat, value : Blocks \cup {Null}])] /\ num' = num
    BY <1>3 DEF IndexTypes, history
  <1>6. entry' = [entry EXCEPT ![p][e].value = Null] BY <1>2, <1>4 DEF UnlinkBlock
  <1>7. \A q \in Producers \ {p} : entry'[q] = entry[q] BY <1>5, <1>6
  <1>8. DOMAIN entry[p] \subseteq DOMAIN entry'[p] BY <1>5, <1>6
  <1>9. \A f \in DOMAIN entry[p] \ {e} : entry'[p][f] = entry[p][f] BY <1>5, <1>6
  <1> QED BY <1>4, <1>5, <1>7, <1>8, <1>9, KeptButOne

\* An element that is still there, in its cell, is still the same.
LEMMA ElemKept ==
  ASSUME ElemsFound, ElemsFound', Kept, NEW p \in Producers, NEW i \in Nat, Live(p, i), Live(p, i)',
         \A e \in DOMAIN entry[p] : LeadsTo(p, e, i) =>
           elements'[entry[p][e].value][i % BLOCK_SIZE] = elements[entry[p][e].value][i % BLOCK_SIZE]
  PROVE  Elem(p, i)' = Elem(p, i)
  <1>1. PICK e \in DOMAIN entry[p] : LeadsTo(p, e, i) BY DEF ElemsFound
  <1>2. Elem(p, i) = elements[entry[p][e].value][i % BLOCK_SIZE] /\ i \notin emptied[p] BY <1>1 DEF ElemsFound
  <1>3. i \in BlockIndices(Number(i))
    <2>1. Number(i) \in Nat BY NumberOf
    <2> QED BY <2>1, IndicesOf
  <1>4. e \in DOMAIN entry'[p] /\ Leads(p, e) BY <1>1, <1>2, <1>3 DEF Kept, LeadsTo
  <1>5. LeadsTo(p, e, i)' BY <1>1, <1>4 DEF LeadsTo, Leads
  <1>6. Elem(p, i)' = elements'[entry'[p][e].value][i % BLOCK_SIZE] BY <1>4, <1>5 DEF ElemsFound
  <1>7. entry'[p][e].value = entry[p][e].value BY <1>4 DEF Leads
  <1> QED BY <1>1, <1>2, <1>6, <1>7

\* Different indices have different cells.
LEMMA OneCell ==
  ASSUME OwnerInv, NEW p \in Producers, NEW q \in Producers, NEW e \in DOMAIN entry[p], NEW f \in DOMAIN entry[q],
         NEW i \in Nat, NEW k \in Nat, LeadsTo(p, e, i), LeadsTo(q, f, k), entry[p][e].value = entry[q][f].value,
         i % BLOCK_SIZE = k % BLOCK_SIZE
  PROVE  p = q /\ i = k
  <1>1. p = q /\ e = f BY DEF OwnerInv, LeadsTo
  <1>2. Number(i) = Number(k) BY <1>1 DEF LeadsTo
  <1>3. i = BLOCK_SIZE * Number(i) + (i % BLOCK_SIZE) BY NumberOf
  <1>4. k = BLOCK_SIZE * Number(k) + (k % BLOCK_SIZE) BY NumberOf
  <1> QED BY <1>1, <1>2, <1>3, <1>4

\* Who takes a step, and what the others keep.
Acts(t) ==
  /\ pc[t] # "off" /\ pc'[t] # "off"
  /\ \A u \in (Producers \cup Consumers) \ {t} : pc'[u] = pc[u] /\ loc'[u] = loc[u]

\* What a producer's steps change.
LEMMA ProducerActs ==
  ASSUME QueueInv, IndexInv, NEW p \in Producers,
         HInsertEntry(p) \/ HGrowIndex(p) \/ HStoreTail(p) \/ EnqueuingQuietly(p)
  PROVE  /\ Acts(p) /\ Kept /\ UNCHANGED <<heads, emptied, taken>>
         /\ HStoreTail(p) \/ tails' = tails
         /\ WriteElement(p) \/ (elements' = elements /\ pc'[p] # "bump")
         /\ StoreBlock(p) \/ tailBlock' = tailBlock
         /\ EnqueueBegin(p) \/ todo' = todo
         /\ pc'[p] = "write" => EnqueueBegin(p) \/ StoreBlock(p)
  <1>1. DOMAIN pc = Producers \cup Consumers /\ DOMAIN loc = Producers \cup Consumers BY DEF QueueInv, LocalType
  <1>2. CASE HInsertEntry(p)
    <2>1. Kept BY <1>2, InsertEntryKept
    <2> QED BY <1>1, <1>2, <2>1 DEF HInsertEntry, InsertEntry, Goto, Acts, claiming, memory
  <1>3. CASE HGrowIndex(p)
    <2>1. Kept BY <1>3, GrowIndexKept
    <2> QED BY <1>1, <1>3, <2>1 DEF HGrowIndex, GrowIndex, Acts, claiming, memory
  <1>4. CASE HStoreTail(p)
    <2>1. Kept BY <1>4 DEF HStoreTail, StoreTail, index, Kept, Leads
    <2> QED BY <1>1, <1>4, <2>1 DEF HStoreTail, StoreTail, Goto, Acts, claiming, memory
  <1>5. CASE EnqueuingQuietly(p)
    <2>1. UNCHANGED <<heads, emptied, taken, tails, num>> BY <1>5 DEF EnqueuingQuietly, history
    <2>2. CASE NoBlock(p)
      <3>1. Kept BY <1>5, <2>2, StoreBlockKept DEF EnqueuingQuietly
      <3> QED BY <1>1, <2>1, <2>2, <3>1 DEF NoBlock, Leave, Acts, memory
    <2>3. CASE StoreBlock(p)
      <3>1. Kept BY <1>5, <2>3, StoreBlockKept DEF EnqueuingQuietly
      <3> QED BY <1>1, <2>1, <2>3, <3>1 DEF StoreBlock, Goto, Acts
    <2>4. CASE EnqueueBegin(p) \/ CheckRoom(p) \/ IndexFull(p)
      <3>1. Kept BY <2>1, <2>4 DEF EnqueueBegin, CheckRoom, IndexFull, index, Kept, Leads
      <3> QED BY <1>1, <2>1, <2>4, <3>1 DEF EnqueueBegin, CheckRoom, IndexFull, Leave, Acts, memory
    <2>5. CASE PublishEntry(p) \/ LoadPool(p) \/ TakeFromPool(p) \/ TakeFree(p) \/ CreateBlock(p)
      <3>1. Kept BY <2>1, <2>5 DEF PublishEntry, LoadPool, TakeFromPool, TakeFree, CreateBlock, index, Kept, Leads
      <3> QED BY <1>1, <2>1, <2>5, <3>1 DEF PublishEntry, LoadPool, TakeFromPool, TakeFree, CreateBlock, Goto, Acts, memory
    <2>6. CASE WriteElement(p)
      <3>1. Kept BY <2>1, <2>6 DEF WriteElement, index, Kept, Leads
      <3>2. Acts(p) /\ tailBlock' = tailBlock /\ todo' = todo /\ pc'[p] # "write"
        BY <1>1, <2>6 DEF WriteElement, Goto, Acts
      <3> QED BY <2>1, <2>6, <3>1, <3>2
    <2> QED BY <1>5, <2>2, <2>3, <2>4, <2>5, <2>6 DEF EnqueuingQuietly
  <1> QED BY <1>2, <1>3, <1>4, <1>5

\* A consumer that has the same before and after a step.
SameHand(c) ==
  \/ Reading(c) /\ Reading(c)' /\ loc'[c].ptr = loc[c].ptr /\ taken'[c] = taken[c]
  \/ Having(c) /\ Having(c)' /\ loc'[c].item = loc[c].item
  \/ ~Reading(c) /\ ~Having(c) /\ ~Reading(c)' /\ ~Having(c)'

\* What a consumer's steps change.
LEMMA ConsumerActs ==
  ASSUME QueueInv, IndexInv, NEW c \in Consumers,
         \/ HLoadOvercommit(c) \/ HClaim(c) \/ HRecheck(c) \/ HGiveBack(c)
         \/ HTakeIndex(c) \/ HSetEmpty(c) \/ DequeuingQuietly(c)
  PROVE  /\ Acts(c) /\ Kept /\ UNCHANGED <<tails, tailBlock, todo>>
         /\ HTakeIndex(c) \/ (heads' = heads /\ taken' = taken)
         /\ ReadElement(c) \/ elements' = elements
         /\ HTakeIndex(c) \/ ReadElement(c) \/ HSetEmpty(c) \/ ReleaseBlock(c) \/ SameHand(c)
         /\ ReadElement(c) \/ HTakeIndex(c) \/ (Reading(c)' => Reading(c) /\ SameHand(c))
         /\ ReadElement(c) \/ (Having(c)' => Having(c) /\ loc'[c].item = loc[c].item)
  <1>1. /\ DOMAIN pc = Producers \cup Consumers /\ DOMAIN loc = Producers \cup Consumers
        /\ DOMAIN loc[c] = DOMAIN ConsumerLocals /\ {"ptr", "item"} \subseteq DOMAIN loc[c]
    BY Local DEF QueueInv, LocalType, ConsumerLocals
  <1>2. CASE \/ HLoadOvercommit(c) \/ HClaim(c) \/ HRecheck(c) \/ HGiveBack(c)
             \/ (DequeueBegin(c) \/ SizeTail(c) \/ SizeHead(c) \/ LoadTail(c) \/ CheckCount(c)) /\ UNCHANGED history
    <2>1. \/ DequeueBegin(c) \/ SizeTail(c) \/ SizeHead(c) \/ LoadTail(c) \/ LoadOvercommit(c)
          \/ CheckCount(c) \/ Claim(c) \/ Recheck(c) \/ GiveBack(c)
      BY <1>2 DEF HLoadOvercommit, HClaim, HRecheck, HGiveBack
    <2>2. UNCHANGED <<heads, tails, emptied, taken, num>>
      BY <1>2 DEF HLoadOvercommit, HClaim, HRecheck, HGiveBack, history
    <2>3. UNCHANGED <<entry, elements, tailBlock, todo>>
      BY <2>1 DEF DequeueBegin, SizeTail, SizeHead, LoadTail, LoadOvercommit, CheckCount, Claim, Recheck, GiveBack,
                  shared, index, memory
    <2>4. /\ \A t \in (Producers \cup Consumers) \ {c} : pc'[t] = pc[t] /\ loc'[t] = loc[t]
          /\ pc[c] # "off"
          /\ pc'[c] \in {"tail", "head", "dequeue", "overcommit", "check", "claim", "recheck", "take", "giveback", "idle"}
      BY <1>1, <2>1, SearchMoves
    <2>5. pc[c] \in {"idle", "tail", "head", "dequeue", "overcommit", "check", "claim", "recheck", "giveback"}
      BY <2>1 DEF DequeueBegin, SizeTail, SizeHead, LoadTail, LoadOvercommit, CheckCount, Claim, Recheck, GiveBack, Goto
    <2>6. ~Reading(c) /\ ~Having(c) /\ ~Reading(c)' /\ ~Having(c)' BY <2>4, <2>5 DEF Reading, Having
    <2> QED BY <2>2, <2>3, <2>4, <2>6 DEF Acts, Kept, Leads, SameHand
  <1>3. CASE HTakeIndex(c)
    <2>1. UNCHANGED <<entry, num, tails, tailBlock, todo, elements>>
      BY <1>3 DEF HTakeIndex, TakeIndex, index, memory
    <2>2. Acts(c) /\ ~Having(c)' BY <1>1, <1>3 DEF HTakeIndex, TakeIndex, Goto, Acts, Having
    <2>3. Kept BY <2>1 DEF Kept, Leads
    <2> QED BY <1>3, <2>1, <2>2, <2>3
  <1>4. CASE HSetEmpty(c)
    BY <1>1, <1>4 DEF HSetEmpty, SetEmpty, Done, index, Acts, Kept, Leads, Reading, Having
  <1>5. CASE DequeuingQuietly(c)
    <2>1. UNCHANGED history /\ UNCHANGED <<heads, tails, emptied, taken, num>> BY <1>5 DEF DequeuingQuietly, history
    <2>2. CASE LoadHeader(c) \/ LoadPosition(c) \/ LoadKey(c)
      BY <1>1, <2>1, <2>2 DEF LoadHeader, LoadPosition, LoadKey, Goto, shared, index, memory, Acts, Kept, Leads,
                              Reading, Having, SameHand
    <2>3. CASE ReadElement(c)
      BY <1>1, <2>1, <2>3 DEF ReadElement, Goto, index, memory, Acts, Kept, Leads
    <2>4. CASE UnlinkBlock(c)
      <3>1. Kept BY <2>1, <2>4, UnlinkBlockKept
      <3> QED BY <1>1, <2>1, <2>4, <3>1 DEF UnlinkBlock, Goto, memory, Acts, Reading, Having, SameHand
    <2>5. CASE ReleaseBlock(c)
      BY <1>1, <2>1, <2>5 DEF ReleaseBlock, Done, index, memory, Acts, Kept, Leads, Reading, Having
    <2>6. CASE DequeueBegin(c) \/ SizeTail(c) \/ SizeHead(c) \/ LoadTail(c) \/ CheckCount(c)
      BY <1>2, <2>1, <2>6
    <2> QED BY <1>5, <2>2, <2>3, <2>4, <2>5, <2>6 DEF DequeuingQuietly
  <1> QED BY <1>2, <1>3, <1>4, <1>5

\* The invariant of the elements.  The producer's own pointer leads to the block at the
\* tail, and what was enqueued is in its place until a consumer has it.
TailAt(p) ==
  tails[p] % BLOCK_SIZE # 0 \/ pc[p] \in {"write", "bump"} =>
    \E e \in DOMAIN entry[p] : LeadsTo(p, e, tails[p]) /\ tailBlock[p] = entry[p][e].value

ItemInv ==
  /\ elements \in [Blocks -> [0 .. BLOCK_SIZE - 1 -> Items \cup {Null}]]
  /\ DOMAIN tailBlock = Producers
  /\ todo \in [Producers -> Nat]
  /\ \A p \in Producers : \E w \in Workloads : todo[p] <= w.todo[p]
  /\ \A p \in Producers : TailAt(p)
  /\ \A p \in Producers, i \in Nat : Live(p, i) => Elem(p, i) \in Items
  /\ \A c \in Consumers : Having(c) => loc[c].item \in Items

ElemsSame == \A p \in Producers, i \in Nat : Live(p, i) /\ Live(p, i)' => Elem(p, i)' = Elem(p, i)

\* What a consumer that reads has found.
LEMMA Reader ==
  ASSUME QueueInv, IndexInv, NEW c \in Consumers, Reading(c)
  PROVE  /\ loc[c].ptr \in Producers /\ taken[c] \in Nat /\ Live(loc[c].ptr, taken[c])
         /\ taken[c] < heads[loc[c].ptr] /\ heads[loc[c].ptr] <= tails[loc[c].ptr]
         /\ heads[loc[c].ptr] \in Nat /\ tails[loc[c].ptr] \in Nat
         /\ loc[c].index = taken[c] % IndexRange
         /\ pc[c] = "read" => loc[c].entry \in DOMAIN entry[loc[c].ptr] /\ LeadsTo(loc[c].ptr, loc[c].entry, taken[c])
  <1>1. Holding(c) BY DEF Reading, Holding
  <1>2. PICK p \in Producers, i \in Nat :
           /\ p = loc[c].ptr /\ i = taken[c] /\ i < heads[p] /\ tails[p] \in Nat
           /\ heads[p] \in Nat /\ heads[p] <= tails[p] /\ HeldAt(c)
    BY <1>1, Holder
  <1> QED BY <1>2 DEF HeldAt, Live, Reading

\* A producer's step makes no index live but the one that it writes,
LEMMA ProducerLive ==
  ASSUME QueueInv, IndexInv, NEW p \in Producers,
         HInsertEntry(p) \/ HGrowIndex(p) \/ HStoreTail(p) \/ EnqueuingQuietly(p),
         NEW q \in Producers, NEW i \in Nat, Live(q, i)'
  PROVE  Live(q, i) \/ (q = p /\ i = tails[p] /\ tails' = tails /\ WriteElement(p))
  <1>1. /\ Acts(p) /\ UNCHANGED <<heads, taken>> /\ (HStoreTail(p) \/ tails' = tails)
        /\ WriteElement(p) \/ pc'[p] # "bump"
    BY ProducerActs
  <1>2. tails \in [Producers -> Nat] /\ heads \in [Producers -> Nat] /\ Producers \cap Consumers = {}
    BY Constants DEF QueueInv, IndexType
  <1>3. ASSUME NEW c \in Consumers, Reading(c)', loc'[c].ptr = q, taken'[c] = i PROVE Live(q, i)
    <2>1. pc'[c] = pc[c] /\ loc'[c] = loc[c] BY <1>1, <1>2 DEF Acts
    <2> QED BY <1>1, <1>3, <2>1 DEF Live, Reading
  <1>4. CASE HStoreTail(p)
    <2>1. tails' = [tails EXCEPT ![p] = @ + 1] /\ pc[p] = "bump" /\ pc'[p] # "bump"
      <3>1. DOMAIN pc = Producers \cup Consumers BY DEF QueueInv, LocalType
      <3> QED BY <1>4, <3>1 DEF HStoreTail, StoreTail, Goto
    <2>2. q # p => pc'[q] = pc[q] BY <1>1 DEF Acts
    <2>3. CASE heads'[q] <= i /\ i < tails'[q] BY <1>1, <1>2, <2>1, <2>3 DEF Live
    <2>4. CASE i = tails'[q] /\ pc'[q] = "bump" BY <1>2, <2>1, <2>2, <2>4 DEF Live
    <2> QED BY <1>3, <2>3, <2>4 DEF Live
  <1>5. CASE tails' = tails
    <2>1. q # p => pc'[q] = pc[q] BY <1>1 DEF Acts
    <2>2. CASE heads'[q] <= i /\ i < tails'[q] BY <1>1, <1>5, <2>2 DEF Live
    <2>3. CASE i = tails'[q] /\ pc'[q] = "bump" BY <1>1, <1>5, <2>1, <2>3 DEF Live
    <2> QED BY <1>3, <2>2, <2>3 DEF Live
  <1> QED BY <1>1, <1>4, <1>5

\* and a consumer's none.
LEMMA ConsumerLive ==
  ASSUME QueueInv, IndexInv, NEW c \in Consumers,
         \/ HLoadOvercommit(c) \/ HClaim(c) \/ HRecheck(c) \/ HGiveBack(c)
         \/ HTakeIndex(c) \/ HSetEmpty(c) \/ DequeuingQuietly(c),
         NEW q \in Producers, NEW i \in Nat, Live(q, i)'
  PROVE  Live(q, i)
  <1>1. /\ Acts(c) /\ tails' = tails /\ (HTakeIndex(c) \/ (heads' = heads /\ taken' = taken))
        /\ ReadElement(c) \/ HTakeIndex(c) \/ (Reading(c)' => Reading(c) /\ SameHand(c))
    BY ConsumerActs
  <1>2. /\ tails \in [Producers -> Nat] /\ heads \in [Producers -> Nat] /\ Producers \cap Consumers = {}
        /\ taken \in [Consumers -> Nat]
    BY Constants DEF QueueInv, IndexType, IndexInv, IndexTypes
  <1>3. pc'[q] = pc[q] BY <1>1, <1>2 DEF Acts
  <1>4. CASE HTakeIndex(c)
    <2>1. pc[c] = "take" BY <1>4 DEF HTakeIndex, TakeIndex, Goto
    <2>2. PICK p \in Producers : p = loc[c].ptr BY <2>1, Local DEF QueueInv
    <2>3. /\ heads' = [heads EXCEPT ![p] = @ + 1] /\ taken' = [taken EXCEPT ![c] = heads[p]]
          /\ loc'[c].ptr = p
      <3>1. DOMAIN loc = Producers \cup Consumers /\ "ptr" \in DOMAIN loc[c]
        BY Local DEF QueueInv, LocalType, ConsumerLocals
      <3> QED BY <1>4, <2>2, <3>1 DEF HTakeIndex, TakeIndex
    <2>4. heads[p] < tails[p]
      <3>1. Accounts(p) /\ IndexType BY DEF QueueInv, ClaimInv
      <3>2. heads[p] + Cardinality(Granted(p)) <= tails[p] BY <3>1, GrantsFit
      <3>3. c \in Granted(p) BY <2>1, <2>2 DEF Granted
      <3>4. IsFiniteSet(Granted(p)) /\ Cardinality(Granted(p)) \in Nat BY ClaimSets
      <3>5. Cardinality(Granted(p)) # 0 BY <3>3, <3>4, FS_EmptySet
      <3> QED BY <1>2, <3>2, <3>4, <3>5
    <2>5. CASE heads'[q] <= i /\ i < tails'[q] BY <1>1, <1>2, <2>3, <2>5 DEF Live
    <2>6. CASE i = tails'[q] /\ pc'[q] = "bump" BY <1>1, <1>3, <2>6 DEF Live
    <2>7. ASSUME NEW d \in Consumers, Reading(d)', loc'[d].ptr = q, taken'[d] = i PROVE Live(q, i)
      <3>1. CASE d = c
        <4>1. q = p /\ i = heads[p] BY <1>2, <2>3, <2>7, <3>1
        <4> QED BY <1>2, <2>4, <4>1 DEF Live
      <3>2. CASE d # c
        <4>1. pc'[d] = pc[d] /\ loc'[d] = loc[d] /\ taken'[d] = taken[d] BY <1>1, <1>2, <2>3, <3>2 DEF Acts
        <4> QED BY <2>7, <4>1 DEF Live, Reading
      <3> QED BY <3>1, <3>2
    <2> QED BY <2>5, <2>6, <2>7 DEF Live
  <1>5. CASE heads' = heads /\ taken' = taken
    <2>1. CASE heads'[q] <= i /\ i < tails'[q] BY <1>1, <1>5, <2>1 DEF Live
    <2>2. CASE i = tails'[q] /\ pc'[q] = "bump" BY <1>1, <1>3, <2>2 DEF Live
    <2>3. ASSUME NEW d \in Consumers, Reading(d)', loc'[d].ptr = q, taken'[d] = i PROVE Live(q, i)
      <3>1. CASE d = c
        <4>1. ~ReadElement(c)
          <5>1. DOMAIN pc = Producers \cup Consumers BY DEF QueueInv, LocalType
          <5> QED BY <2>3, <3>1, <5>1 DEF ReadElement, Goto, Reading
        <4>2. CASE HTakeIndex(c) BY <1>4, <4>2
        <4>3. CASE Reading(c) /\ SameHand(c)
          <5>1. loc[c].ptr = loc'[c].ptr BY <2>3, <3>1, <4>3 DEF SameHand, Having, Reading
          <5> QED BY <1>5, <2>3, <3>1, <4>3, <5>1 DEF Live
        <4> QED BY <1>1, <2>3, <3>1, <4>1, <4>2, <4>3
      <3>2. CASE d # c
        <4>1. pc'[d] = pc[d] /\ loc'[d] = loc[d] BY <1>1, <3>2 DEF Acts
        <4> QED BY <1>5, <2>3, <4>1 DEF Live, Reading
      <3> QED BY <3>1, <3>2
    <2> QED BY <2>1, <2>2, <2>3 DEF Live
  <1> QED BY <1>1, <1>4, <1>5

\* The same after a step.
LEMMA LiveFoundNext == QueueInv' /\ IndexInv' => ElemsFound'
  BY LiveFound, PTL

\* A producer's step changes no element that is live.
LEMMA ProducerElems ==
  ASSUME QueueInv, IndexInv, ItemInv, QueueInv', IndexInv', NEW p \in Producers,
         HInsertEntry(p) \/ HGrowIndex(p) \/ HStoreTail(p) \/ EnqueuingQuietly(p)
  PROVE  ElemsSame
  <1>1. SUFFICES ASSUME NEW q \in Producers, NEW i \in Nat, Live(q, i), Live(q, i)' PROVE Elem(q, i)' = Elem(q, i)
    BY DEF ElemsSame
  <1>2. ElemsFound /\ ElemsFound' /\ Kept /\ Acts(p) BY LiveFound, LiveFoundNext, ProducerActs
  <1>3. SUFFICES ASSUME NEW e \in DOMAIN entry[q], LeadsTo(q, e, i)
                 PROVE  elements'[entry[q][e].value][i % BLOCK_SIZE] = elements[entry[q][e].value][i % BLOCK_SIZE]
    BY <1>1, <1>2, ElemKept
  <1>4. CASE elements' = elements BY <1>4
  <1>5. CASE WriteElement(p)
    <2>1. pc[p] = "write" BY <1>5 DEF WriteElement, Goto
    <2>2. PICK f \in DOMAIN entry[p] : LeadsTo(p, f, tails[p]) /\ tailBlock[p] = entry[p][f].value
      BY <2>1 DEF ItemInv, TailAt
    <2>3. tails[p] \in Nat BY DEF QueueInv, IndexType
    <2>4. OwnerInv
      <3>1. ~Destroyed BY <2>1 DEF Destroyed
      <3> QED BY <3>1 DEF IndexInv
    <2>5. i # tails[p] \/ q # p BY <1>1, <1>2, <2>1, <2>3 DEF ElemsFound
    <2>6. ~(entry[q][e].value = tailBlock[p] /\ i % BLOCK_SIZE = tails[p] % BLOCK_SIZE)
      BY <1>3, <2>2, <2>3, <2>4, <2>5, OneCell
    <2>7. elements' = [elements EXCEPT ![tailBlock[p]][tails[p] % BLOCK_SIZE] = <<p, todo[p]>>]
      BY <1>5, TailSlot DEF WriteElement
    <2>8. elements \in [Blocks -> [0 .. BLOCK_SIZE - 1 -> Items \cup {Null}]] BY DEF ItemInv
    <2>9. entry[q][e].value \in Blocks BY <1>1, <1>2, <1>3 DEF ElemsFound
    <2>10. i % BLOCK_SIZE \in 0 .. BLOCK_SIZE - 1 BY NumberOf
    <2> QED BY <2>6, <2>7, <2>8, <2>9, <2>10
  <1> QED BY <1>4, <1>5, ProducerActs

\* A consumer's step neither, but for the one that it reads.
LEMMA ConsumerElems ==
  ASSUME QueueInv, IndexInv, ItemInv, QueueInv', IndexInv', NEW c \in Consumers,
         \/ HLoadOvercommit(c) \/ HClaim(c) \/ HRecheck(c) \/ HGiveBack(c)
         \/ HTakeIndex(c) \/ HSetEmpty(c) \/ DequeuingQuietly(c)
  PROVE  ElemsSame
  <1>1. SUFFICES ASSUME NEW q \in Producers, NEW i \in Nat, Live(q, i), Live(q, i)' PROVE Elem(q, i)' = Elem(q, i)
    BY DEF ElemsSame
  <1>2. ElemsFound /\ ElemsFound' /\ Kept /\ Acts(c) BY LiveFound, LiveFoundNext, ConsumerActs
  <1>3. SUFFICES ASSUME NEW e \in DOMAIN entry[q], LeadsTo(q, e, i)
                 PROVE  elements'[entry[q][e].value][i % BLOCK_SIZE] = elements[entry[q][e].value][i % BLOCK_SIZE]
    BY <1>1, <1>2, ElemKept
  <1>4. CASE elements' = elements BY <1>4
  <1>5. CASE ReadElement(c)
    <2>1. pc[c] = "read" /\ Reading(c) BY <1>5 DEF ReadElement, Goto, Reading
    <2>2. PICK p \in Producers, k \in Nat : /\ p = loc[c].ptr /\ k = taken[c] /\ k < heads[p] /\ heads[p] <= tails[p]
                                            /\ heads[p] \in Nat /\ tails[p] \in Nat /\ loc[c].index = k % IndexRange
                                            /\ loc[c].entry \in DOMAIN entry[p] /\ LeadsTo(p, loc[c].entry, k)
      BY <2>1, Reader
    <2>3. PICK f \in DOMAIN entry[p] : f = loc[c].entry /\ LeadsTo(p, f, k) BY <2>2
    <2>4. OwnerInv /\ HeldDiffer
      <3>1. ~Destroyed BY <2>1 DEF Destroyed
      <3> QED BY <3>1 DEF IndexInv
    <2>5. tails' = tails /\ heads' = heads /\ taken' = taken /\ ~Reading(c)'
      <3>1. DOMAIN pc = Producers \cup Consumers BY DEF QueueInv, LocalType
      <3>2. ~HTakeIndex(c) BY <2>1 DEF HTakeIndex, TakeIndex, Goto
      <3>3. ~Reading(c)' BY <1>5, <3>1 DEF ReadElement, Goto, Reading
      <3> QED BY <3>2, <3>3, ConsumerActs
    <2>6. i # k \/ q # p
      <3>1. SUFFICES ASSUME i = k, q = p PROVE FALSE OBVIOUS
      <3>2. PICK d \in Consumers : Reading(d)' /\ loc'[d].ptr = p /\ taken'[d] = k
        <4>1. ~(heads'[p] <= k /\ k < tails'[p]) /\ k # tails'[p] BY <2>2, <2>5
        <4> QED BY <1>1, <3>1, <4>1 DEF Live
      <3>3. d # c BY <2>5, <3>2
      <3>4. pc'[d] = pc[d] /\ loc'[d] = loc[d] /\ taken'[d] = taken[d] BY <1>2, <2>5, <3>3 DEF Acts
      <3>5. Holding(d) /\ Holding(c) /\ loc[d].ptr = loc[c].ptr /\ taken[d] = taken[c]
        BY <2>1, <2>2, <3>2, <3>4 DEF Holding, Reading
      <3> QED BY <2>4, <3>3, <3>5 DEF HeldDiffer
    <2>7. ~(entry[q][e].value = entry[p][f].value /\ i % BLOCK_SIZE = k % BLOCK_SIZE)
      BY <1>3, <2>3, <2>4, <2>6, OneCell
    <2>8. Slot(k % IndexRange) = k % BLOCK_SIZE
      <3>1. k \in Int /\ IndexRange \in Nat \ {0} /\ BLOCK_SIZE \in Nat \ {0} /\ IndexRange % BLOCK_SIZE = 0 BY Constants
      <3> QED BY <3>1, ModMod DEF Slot
    <2>9. elements' = [elements EXCEPT ![entry[p][f].value][k % BLOCK_SIZE] = Null]
      BY <1>5, <2>2, <2>3, <2>8 DEF ReadElement
    <2>10. elements \in [Blocks -> [0 .. BLOCK_SIZE - 1 -> Items \cup {Null}]] BY DEF ItemInv
    <2>11. entry[q][e].value \in Blocks BY <1>1, <1>2, <1>3 DEF ElemsFound
    <2>12. i % BLOCK_SIZE \in 0 .. BLOCK_SIZE - 1 BY NumberOf
    <2> QED BY <2>7, <2>9, <2>10, <2>11, <2>12
  <1> QED BY <1>4, <1>5, ConsumerActs

\* At first there are no elements.
LEMMA InitItems == HInit => ItemInv
  <1>1. SUFFICES ASSUME HInit PROVE ItemInv OBVIOUS
  <1>2. PICK work \in Workloads :
          /\ populate_initial_block_list /\ ProducerBase(work.start) /\ todo = work.todo
          /\ pc = [t \in Producers \cup Consumers |-> IF t \in Consumers \ work.active THEN "off" ELSE "idle"]
    BY <1>1 DEF HInit, Init
  <1>3. /\ work.todo \in [Producers -> Nat] /\ work.start \in Nat /\ work.start % BLOCK_SIZE = 0
    BY ImplicitQueueAssumption
  <1>4. tails = [p \in Producers |-> work.start] /\ heads = tails BY <1>1, <1>2 DEF HInit, ProducerBase
  <1>5. elements \in [Blocks -> [0 .. BLOCK_SIZE - 1 -> Items \cup {Null}]]
    BY <1>2 DEF populate_initial_block_list
  <1>6. DOMAIN tailBlock = Producers BY <1>2 DEF ProducerBase
  <1>7. \A t \in Producers \cup Consumers : pc[t] \in {"idle", "off"} BY <1>2
  <1>8. \A p \in Producers : TailAt(p) BY <1>3, <1>4, <1>7 DEF TailAt
  <1>9. \A p \in Producers, i \in Nat : ~Live(p, i) BY <1>3, <1>4, <1>7 DEF Live, Reading
  <1>10. \A c \in Consumers : ~Having(c) BY <1>7 DEF Having
  <1>11. \A p \in Producers : \E w \in Workloads : todo[p] <= w.todo[p] BY <1>2, <1>3
  <1> QED BY <1>2, <1>3, <1>5, <1>6, <1>8, <1>9, <1>10, <1>11 DEF ItemInv

\* The block at the tail stays there.
LEMMA TailKept ==
  ASSUME QueueInv, IndexInv, Kept, NEW p \in Producers, TailAt(p), tails'[p] = tails[p], tailBlock'[p] = tailBlock[p],
         pc'[p] \in {"write", "bump"} => pc[p] \in {"write", "bump"} \/ tails[p] % BLOCK_SIZE # 0
  PROVE  TailAt(p)'
  <1>1. SUFFICES ASSUME tails[p] % BLOCK_SIZE # 0 \/ pc[p] \in {"write", "bump"}
                 PROVE  \E e \in DOMAIN entry'[p] : LeadsTo(p, e, tails[p])' /\ tailBlock'[p] = entry'[p][e].value
    BY DEF TailAt
  <1>2. PICK e \in DOMAIN entry[p] : LeadsTo(p, e, tails[p]) /\ tailBlock[p] = entry[p][e].value BY <1>1 DEF TailAt
  <1>3. /\ tails[p] \in Nat /\ heads[p] \in Nat /\ emptied[p] \subseteq 0 .. heads[p] - 1 /\ Accounts(p) /\ IndexType
    BY DEF QueueInv, IndexType, IndexInv, IndexAt, ClaimInv
  <1>4. heads[p] <= tails[p] BY <1>3, GrantsFit
  <1>5. tails[p] \notin emptied[p] BY <1>3, <1>4
  <1>6. tails[p] \in BlockIndices(Number(tails[p]))
    <2>1. Number(tails[p]) \in Nat BY <1>3, NumberOf
    <2> QED BY <1>3, <2>1, IndicesOf
  <1>7. e \in DOMAIN entry'[p] /\ Leads(p, e) BY <1>2, <1>5, <1>6 DEF Kept, LeadsTo
  <1> QED BY <1>2, <1>7 DEF LeadsTo, Leads

\* A producer's pointer leads to the block at its tail.
LEMMA ProducerTail ==
  ASSUME QueueInv, IndexInv, ItemInv, QueueInv', NEW p \in Producers,
         HInsertEntry(p) \/ HGrowIndex(p) \/ HStoreTail(p) \/ EnqueuingQuietly(p),
         NEW q \in Producers
  PROVE  TailAt(q)'
  <1>1. /\ Acts(p) /\ Kept /\ (HStoreTail(p) \/ tails' = tails) /\ (StoreBlock(p) \/ tailBlock' = tailBlock)
        /\ WriteElement(p) \/ pc'[p] # "bump"
        /\ pc'[p] = "write" => EnqueueBegin(p) \/ StoreBlock(p)
    BY ProducerActs
  <1>2. /\ tails \in [Producers -> Nat] /\ DOMAIN tailBlock = Producers /\ TailAt(q) /\ TailAt(p)
        /\ DOMAIN pc = Producers \cup Consumers /\ DOMAIN loc = Producers \cup Consumers
    BY DEF QueueInv, IndexType, ItemInv, LocalType
  <1>3. CASE q # p
    <2>1. pc'[q] = pc[q] BY <1>1, <1>3 DEF Acts
    <2>2. tails'[q] = tails[q] BY <1>1, <1>2, <1>3 DEF HStoreTail
    <2>3. tailBlock'[q] = tailBlock[q] BY <1>1, <1>2, <1>3 DEF StoreBlock
    <2> QED BY <1>1, <1>2, <2>1, <2>2, <2>3, TailKept
  <1>4. CASE HStoreTail(p)
    <2>1. pc[p] = "bump" /\ pc'[p] = "idle" /\ tails'[p] = tails[p] + 1 /\ UNCHANGED <<entry, num, tailBlock>>
      BY <1>2, <1>4 DEF HStoreTail, StoreTail, Goto, index
    <2>2. PICK e \in DOMAIN entry[p] : LeadsTo(p, e, tails[p]) /\ tailBlock[p] = entry[p][e].value
      BY <1>2, <2>1 DEF TailAt
    <2>3. tails'[p] % BLOCK_SIZE # 0 => Number(tails'[p]) = Number(tails[p]) BY <1>2, <2>1, NextNumber
    <2>4. TailAt(p)' BY <2>1, <2>2, <2>3 DEF TailAt, LeadsTo
    <2> QED BY <1>3, <2>4
  <1>5. CASE StoreBlock(p)
    <2>1. pc[p] = "store" /\ tails' = tails /\ num' = num
      <3>1. pc[p] = "store" BY <1>5 DEF StoreBlock, Goto
      <3>2. EnqueuingQuietly(p) BY <3>1 DEF HInsertEntry, InsertEntry, HGrowIndex, GrowIndex, HStoreTail, StoreTail, Goto
      <3> QED BY <3>1, <3>2 DEF EnqueuingQuietly, history
    <2>2. IndexTypes /\ SlotAt(p) BY DEF IndexInv, IndexAt
    <2>3. PICK e \in DOMAIN entry[p] : e = loc[p].slot /\ num[p][e] = Number(tails[p]) BY <2>1, <2>2 DEF SlotAt
    <2>4. OwnerInv
      <3>1. ~Destroyed BY <2>1 DEF Destroyed
      <3> QED BY <3>1 DEF IndexInv
    <2>5. loc[p].block # Null
      <3>1. loc[p].block \in Taken BY <2>1, <2>4 DEF OwnerInv, Stores
      <3> QED BY <3>1, ImplicitQueueAssumption DEF Taken
    <2>6. entry \in [Producers -> Seq([key : Nat, value : Blocks \cup {Null}])] BY <2>2 DEF IndexTypes
    <2>7. entry' = [entry EXCEPT ![p][e].value = loc[p].block] /\ tailBlock'[p] = loc[p].block
      BY <1>2, <1>5, <2>3 DEF StoreBlock
    <2>8. e \in DOMAIN entry'[p] /\ entry'[p][e].value = loc[p].block BY <2>3, <2>6, <2>7
    <2>9. TailAt(p)' BY <2>1, <2>3, <2>5, <2>7, <2>8 DEF TailAt, LeadsTo
    <2> QED BY <1>3, <2>9
  <1>6. CASE EnqueueBegin(p) /\ ~HStoreTail(p) /\ ~StoreBlock(p)
    <2>1. pc'[p] = "write" => tails[p] % BLOCK_SIZE # 0
      BY <1>2, <1>6, TailSlot DEF EnqueueBegin
    <2>2. pc'[p] # "bump" BY <1>2, <1>6 DEF EnqueueBegin
    <2>3. TailAt(p)' BY <1>1, <1>2, <1>6, <2>1, <2>2, TailKept
    <2> QED BY <1>3, <2>3
  <1>7. CASE ~EnqueueBegin(p) /\ ~HStoreTail(p) /\ ~StoreBlock(p)
    <2>1. pc'[p] \in {"write", "bump"} => pc[p] \in {"write", "bump"} BY <1>1, <1>7 DEF WriteElement, Goto
    <2>2. TailAt(p)' BY <1>1, <1>2, <1>7, <2>1, TailKept
    <2> QED BY <1>3, <2>2
  <1> QED BY <1>4, <1>5, <1>6, <1>7

\* What a producer enqueues is an item.
LEMMA Enqueued ==
  ASSUME ItemInv, NEW p \in Producers
  PROVE  <<p, todo[p]>> \in Items
  <1>1. PICK w \in Workloads : todo[p] <= w.todo[p] BY DEF ItemInv
  <1>2. todo[p] \in Nat /\ w.todo[p] \in Nat BY ImplicitQueueAssumption DEF ItemInv
  <1> DEFINE S(r, v) == {r} \X (0 .. v.todo[r])
  <1>3. <<p, todo[p]>> \in S(p, w) BY <1>1, <1>2
  <1>4. Items = UNION {S(r, v) : r \in Producers, v \in Workloads} BY DEF Items
  <1> HIDE DEF S
  <1>5. S(p, w) \in {S(r, v) : r \in Producers, v \in Workloads} OBVIOUS
  <1> QED BY <1>3, <1>4, <1>5

\* What a producer writes is an item, at its tail.
LEMMA Written ==
  ASSUME QueueInv, IndexInv, ItemInv, QueueInv', IndexInv', NEW p \in Producers, WriteElement(p), tails' = tails, num' = num
  PROVE  Elem(p, tails[p])' \in Items
  <1>1. /\ tails[p] \in Nat /\ DOMAIN pc = Producers \cup Consumers
        /\ elements \in [Blocks -> [0 .. BLOCK_SIZE - 1 -> Items \cup {Null}]]
    BY DEF QueueInv, IndexType, LocalType, ItemInv
  <1>2. pc[p] = "write" /\ pc'[p] = "bump" /\ entry' = entry BY <1>1 DEF WriteElement, Goto, index
  <1>3. PICK e \in DOMAIN entry[p] : LeadsTo(p, e, tails[p]) /\ tailBlock[p] = entry[p][e].value
    BY <1>2 DEF ItemInv, TailAt
  <1>4. Live(p, tails[p])' /\ LeadsTo(p, e, tails[p])' BY <1>2, <1>3 DEF Live, LeadsTo
  <1>5. ElemsFound' BY LiveFoundNext
  <1>6. /\ Elem(p, tails[p])' = elements'[entry[p][e].value][tails[p] % BLOCK_SIZE] /\ entry[p][e].value \in Blocks
    BY <1>1, <1>2, <1>3, <1>4, <1>5 DEF ElemsFound
  <1>7. elements' = [elements EXCEPT ![entry[p][e].value][tails[p] % BLOCK_SIZE] = <<p, todo[p]>>]
    BY <1>3, TailSlot DEF WriteElement
  <1>8. tails[p] % BLOCK_SIZE \in 0 .. BLOCK_SIZE - 1 BY <1>1, NumberOf
  <1>9. Elem(p, tails[p])' = <<p, todo[p]>> BY <1>1, <1>6, <1>7, <1>8
  <1>10. <<p, todo[p]>> \in Items BY Enqueued
  <1> QED BY <1>9, <1>10

\* A producer's step keeps the invariant of the elements,
LEMMA ProducerItems ==
  ASSUME QueueInv, IndexInv, ItemInv, QueueInv', IndexInv', NEW p \in Producers,
         HInsertEntry(p) \/ HGrowIndex(p) \/ HStoreTail(p) \/ EnqueuingQuietly(p)
  PROVE  ItemInv'
  <1>1. /\ Acts(p) /\ (StoreBlock(p) \/ tailBlock' = tailBlock) /\ (WriteElement(p) \/ elements' = elements)
        /\ EnqueueBegin(p) \/ todo' = todo
    BY ProducerActs
  <1>2. /\ elements \in [Blocks -> [0 .. BLOCK_SIZE - 1 -> Items \cup {Null}]] /\ DOMAIN tailBlock = Producers
        /\ todo \in [Producers -> Nat] /\ \A q \in Producers : \E w \in Workloads : todo[q] <= w.todo[q]
    BY DEF ItemInv
  <1>3. elements' \in [Blocks -> [0 .. BLOCK_SIZE - 1 -> Items \cup {Null}]]
    <2>1. CASE WriteElement(p)
      <3>1. elements' = [elements EXCEPT ![tailBlock[p]][Slot(tailIndex[p])] = <<p, todo[p]>>] BY <2>1 DEF WriteElement
      <3>2. <<p, todo[p]>> \in Items BY Enqueued
      <3> QED BY <1>2, <3>1, <3>2
    <2> QED BY <1>1, <1>2, <2>1
  <1>4. DOMAIN tailBlock' = Producers BY <1>1, <1>2 DEF StoreBlock
  <1>5. todo' \in [Producers -> Nat] /\ \A q \in Producers : \E w \in Workloads : todo'[q] <= w.todo[q]
    <2>1. CASE EnqueueBegin(p)
      <3>1. todo[p] > 0 /\ todo' = [todo EXCEPT ![p] = @ - 1] BY <2>1 DEF EnqueueBegin
      <3>2. todo' \in [Producers -> Nat] /\ \A q \in Producers : todo'[q] <= todo[q] BY <1>2, <3>1
      <3>3. \A w \in Workloads : w.todo \in [Producers -> Nat] BY ImplicitQueueAssumption
      <3>4. ASSUME NEW q \in Producers PROVE \E w \in Workloads : todo'[q] <= w.todo[q]
        <4>1. PICK w \in Workloads : todo[q] <= w.todo[q] BY <1>2
        <4>2. todo[q] \in Nat /\ todo'[q] \in Nat /\ w.todo[q] \in Nat /\ todo'[q] <= todo[q] BY <1>2, <3>2, <3>3
        <4> QED BY <4>1, <4>2
      <3> QED BY <3>2, <3>4
    <2> QED BY <1>1, <1>2, <2>1
  <1>6. \A q \in Producers : TailAt(q)' BY ProducerTail
  <1>7. ASSUME NEW q \in Producers, NEW i \in Nat, Live(q, i)' PROVE Elem(q, i)' \in Items
    <2>1. CASE Live(q, i)
      <3>1. Elem(q, i) \in Items BY <2>1 DEF ItemInv
      <3>2. ElemsSame BY ProducerElems
      <3> QED BY <1>7, <2>1, <3>1, <3>2 DEF ElemsSame
    <2>2. CASE q = p /\ i = tails[p] /\ tails' = tails /\ WriteElement(p)
      <3>1. num' = num
        <4>1. pc[p] = "write" BY <2>2 DEF WriteElement, Goto
        <4>2. EnqueuingQuietly(p) BY <4>1 DEF HInsertEntry, InsertEntry, HGrowIndex, GrowIndex, HStoreTail, StoreTail, Goto
        <4> QED BY <4>2 DEF EnqueuingQuietly, history
      <3>2. Elem(p, tails[p])' \in Items BY <2>2, <3>1, Written
      <3> QED BY <2>2, <3>2
    <2> QED BY <1>7, <2>1, <2>2, ProducerLive
  <1>8. \A c \in Consumers : Having(c)' => loc'[c].item \in Items
    <2>1. \A c \in Consumers : c # p BY Constants
    <2> QED BY <1>1, <2>1 DEF Acts, Having, ItemInv
  <1> QED BY <1>3, <1>4, <1>5, <1>6, <1>7, <1>8 DEF ItemInv

\* What a consumer reads is the element at its index.
LEMMA Read ==
  ASSUME QueueInv, IndexInv, NEW c \in Consumers, ReadElement(c)
  PROVE  /\ Reading(c) /\ Having(c)' /\ ~Reading(c)'
         /\ loc'[c].item = Elem(loc[c].ptr, taken[c])
  <1>1. pc[c] = "read" /\ pc'[c] = "empty"
    <2>1. DOMAIN pc = Producers \cup Consumers BY DEF QueueInv, LocalType
    <2> QED BY <2>1 DEF ReadElement, Goto
  <1>2. Reading(c) /\ Having(c)' /\ ~Reading(c)' BY <1>1 DEF Reading, Having
  <1>3. PICK p \in Producers, k \in Nat : /\ p = loc[c].ptr /\ k = taken[c] /\ loc[c].index = k % IndexRange
                                          /\ Live(p, k) /\ loc[c].entry \in DOMAIN entry[p] /\ LeadsTo(p, loc[c].entry, k)
    BY <1>1, <1>2, Reader
  <1>4. PICK e \in DOMAIN entry[p] : e = loc[c].entry /\ LeadsTo(p, e, k) BY <1>3
  <1>5. Elem(p, k) = elements[entry[p][e].value][k % BLOCK_SIZE]
    BY <1>3, <1>4, LiveFound DEF ElemsFound
  <1>6. Slot(k % IndexRange) = k % BLOCK_SIZE
    <2>1. k \in Int /\ IndexRange \in Nat \ {0} /\ BLOCK_SIZE \in Nat \ {0} /\ IndexRange % BLOCK_SIZE = 0 BY Constants
    <2> QED BY <2>1, ModMod DEF Slot
  <1>7. loc'[c].item = elements[entry[p][e].value][k % BLOCK_SIZE]
    <2>1. DOMAIN loc = Producers \cup Consumers /\ "item" \in DOMAIN loc[c]
      BY Local DEF QueueInv, LocalType, ConsumerLocals
    <2>2. loc' = [loc EXCEPT ![c].block = entry[p][e].value, ![c].item = elements[entry[p][e].value][k % BLOCK_SIZE],
                             ![c].index = 0]
      BY <1>3, <1>4, <1>6 DEF ReadElement
    <2> QED BY <2>1, <2>2
  <1> QED BY <1>2, <1>3, <1>5, <1>7

\* and a consumer's too.
LEMMA ConsumerItems ==
  ASSUME QueueInv, IndexInv, ItemInv, QueueInv', IndexInv', NEW c \in Consumers,
         \/ HLoadOvercommit(c) \/ HClaim(c) \/ HRecheck(c) \/ HGiveBack(c)
         \/ HTakeIndex(c) \/ HSetEmpty(c) \/ DequeuingQuietly(c)
  PROVE  ItemInv'
  <1>1. /\ Acts(c) /\ Kept /\ UNCHANGED <<tails, tailBlock, todo>> /\ (ReadElement(c) \/ elements' = elements)
        /\ ReadElement(c) \/ (Having(c)' => Having(c) /\ loc'[c].item = loc[c].item)
    BY ConsumerActs
  <1>2. /\ elements \in [Blocks -> [0 .. BLOCK_SIZE - 1 -> Items \cup {Null}]] BY DEF ItemInv
  <1>3. elements' \in [Blocks -> [0 .. BLOCK_SIZE - 1 -> Items \cup {Null}]]
    <2>1. CASE ReadElement(c) BY <1>2, <2>1 DEF ReadElement
    <2> QED BY <1>1, <1>2, <2>1
  <1>4. ASSUME NEW q \in Producers PROVE TailAt(q)'
    <2>1. pc'[q] = pc[q]
      <3>1. q # c BY Constants
      <3> QED BY <1>1, <3>1 DEF Acts
    <2>2. TailAt(q) BY DEF ItemInv
    <2> QED BY <1>1, <2>1, <2>2, TailKept
  <1>5. ASSUME NEW q \in Producers, NEW i \in Nat, Live(q, i)' PROVE Elem(q, i)' \in Items
    <2>1. Live(q, i) BY <1>5, ConsumerLive
    <2>2. Elem(q, i) \in Items BY <2>1 DEF ItemInv
    <2>3. ElemsSame BY ConsumerElems
    <2> QED BY <1>5, <2>1, <2>2, <2>3 DEF ElemsSame
  <1>6. ASSUME NEW d \in Consumers, Having(d)' PROVE loc'[d].item \in Items
    <2>1. CASE d # c
      <3>1. pc'[d] = pc[d] /\ loc'[d] = loc[d] BY <1>1, <2>1 DEF Acts
      <3> QED BY <1>6, <3>1 DEF Having, ItemInv
    <2>2. CASE d = c /\ ReadElement(c)
      <3>1. loc'[c].item = Elem(loc[c].ptr, taken[c]) /\ Reading(c) BY <2>2, Read
      <3>2. loc[c].ptr \in Producers /\ taken[c] \in Nat /\ Live(loc[c].ptr, taken[c]) BY <3>1, Reader
      <3> QED BY <2>2, <3>1, <3>2 DEF ItemInv
    <2>3. CASE d = c /\ ~ReadElement(c) BY <1>1, <1>6, <2>3 DEF ItemInv
    <2> QED BY <2>1, <2>2, <2>3
  <1> QED BY <1>1, <1>3, <1>4, <1>5, <1>6 DEF ItemInv

\* The destructors leave the elements alone.
LEMMA DestroyItems ==
  ASSUME QueueInv, IndexInv, ItemInv, QueueInv', IndexInv', Destroy, UNCHANGED history
  PROVE  ItemInv'
  <1>1. /\ UNCHANGED <<tails, heads, taken, num, emptied, entry, elements, tailBlock, todo>>
        /\ \A t \in Producers \cup Consumers : pc'[t] = "off"
    BY DEF Destroy, history, index, memory
  <1>2. Kept BY <1>1 DEF Kept, Leads
  <1>3. ASSUME NEW q \in Producers PROVE TailAt(q)'
    <2>1. TailAt(q) /\ pc'[q] = "off" BY <1>1 DEF ItemInv
    <2> QED BY <1>1, <1>2, <2>1, TailKept
  <1>4. ASSUME NEW q \in Producers, NEW i \in Nat, Live(q, i)' PROVE Elem(q, i)' \in Items
    <2>1. Live(q, i) BY <1>1, <1>4 DEF Live, Reading
    <2>2. Elem(q, i)' = Elem(q, i) BY <1>1, <1>2, <1>4, <2>1, ElemKept, LiveFound, LiveFoundNext
    <2> QED BY <2>1, <2>2 DEF ItemInv
  <1>5. \A c \in Consumers : ~Having(c)' BY <1>1 DEF Having
  <1> QED BY <1>1, <1>3, <1>4, <1>5 DEF ItemInv

\* Nothing happens.
LEMMA IdleItems ==
  ASSUME ItemInv, UNCHANGED <<vars, history>>
  PROVE  ItemInv'
  <1>1. /\ UNCHANGED <<tails, heads, taken, num, entry, elements, tailBlock, todo, pc, loc, header>>
    BY DEF vars, history, index, memory
  <1>2. \A p \in Producers : TailAt(p)' = TailAt(p) BY <1>1 DEF TailAt, LeadsTo
  <1>3. \A p \in Producers, i \in Nat : Live(p, i)' = Live(p, i) BY <1>1 DEF Live, Reading
  <1>4. \A p \in Producers, i \in Nat : Elem(p, i)' = Elem(p, i)
    BY <1>1 DEF Elem, At, BlockOf, Lookup, Current, blockIndex
  <1>5. \A c \in Consumers : Having(c)' = Having(c) BY <1>1 DEF Having
  <1> QED BY <1>1, <1>2, <1>3, <1>4, <1>5 DEF ItemInv

\* Every step keeps the invariant of the elements.
LEMMA NextItems ==
  ASSUME QueueInv, IndexInv, ItemInv, QueueInv', IndexInv', [HNext]_<<vars, history>>
  PROVE  ItemInv'
  BY ProducerItems, ConsumerItems, DestroyItems, IdleItems DEF HNext

------------------------------------------------------------------------------
(* The refinement. *)

\* The elements that nobody has dequeued, and what a consumer has in its hand, by the
\* indices that do not go around.
Elems(p) == [i \in 1 .. tails[p] - heads[p] |-> Elem(p, heads[p] + i - 1)]
InHand(c) ==
  IF Reading(c) THEN Elem(loc[c].ptr, taken[c]) ELSE IF Having(c) THEN loc[c].item ELSE Null

\* The refinement mapping.
Held ==
  [p \in Producers |-> IF Destroyed THEN <<>> ELSE [i \in 1 .. Size(p) |-> At(p, Add(headIndex[p], i - 1))]]
Hands == [c \in Consumers |-> Hand(c)]

Mapping ==
  /\ Destroyed => Held = [p \in Producers |-> <<>>]
  /\ ~Destroyed => Held = [p \in Producers |-> Elems(p)]
  /\ Hands = [c \in Consumers |-> InHand(c)]

\* What the queue implements, in terms of the history.
LEMMA Mapped == QueueInv /\ IndexInv => Mapping
  <1>1. SUFFICES ASSUME QueueInv, IndexInv PROVE Mapping OBVIOUS
  <1>2. Destroyed => Held = [p \in Producers |-> <<>>] BY DEF Held
  <1>3. ASSUME NEW p \in Producers
        PROVE  [i \in 1 .. Size(p) |-> At(p, Add(headIndex[p], i - 1))] = Elems(p)
    <2>1. /\ tails[p] \in Nat /\ heads[p] \in Nat /\ Accounts(p) /\ IndexType
          /\ tailIndex[p] = tails[p] % IndexRange /\ headIndex[p] = heads[p] % IndexRange
          /\ tails[p] - heads[p] <= IndexRange \div 2
      BY <1>1 DEF QueueInv, IndexType, ClaimInv, Wrapped, SizeInv
    <2>2. heads[p] <= tails[p] BY <2>1, GrantsFit
    <2>3. IndexRange \in Nat \ {0} BY Constants
    <2>4. Size(p) = tails[p] - heads[p]
      <3>1. Size(p) = (tails[p] - heads[p]) % IndexRange
        <4>1. tails[p] \in Int /\ heads[p] \in Int BY <2>1
        <4>2. ((tails[p] % IndexRange) + (-(heads[p] % IndexRange))) % IndexRange = (tails[p] - heads[p]) % IndexRange
          BY <2>3, <4>1, Difference
        <4>3. Size(p) = ((tails[p] % IndexRange) + (-(heads[p] % IndexRange))) % IndexRange BY <2>1 DEF Size, Add
        <4> QED BY <4>2, <4>3
      <3> DEFINE d == tails[p] - heads[p]
      <3>2. d \in 0 .. IndexRange - 1 BY <2>1, <2>2, <2>3
      <3> HIDE DEF d
      <3>3. d % IndexRange = d BY <2>3, <3>2
      <3> QED BY <3>1, <3>3 DEF d
    <2>5. ASSUME NEW i \in 1 .. Size(p) PROVE At(p, Add(headIndex[p], i - 1)) = Elem(p, heads[p] + i - 1)
      <3>1. i - 1 \in Int /\ heads[p] \in Int /\ heads[p] + (i - 1) = heads[p] + i - 1 BY <2>1, <2>2, <2>4, <2>5
      <3>2. ((heads[p] % IndexRange) + (i - 1)) % IndexRange = (heads[p] + (i - 1)) % IndexRange
        BY <2>3, <3>1, Difference
      <3> QED BY <2>1, <3>1, <3>2 DEF Add, Elem
    <2> QED BY <2>4, <2>5 DEF Elems
  <1>4. ~Destroyed => Held = [p \in Producers |-> Elems(p)] BY <1>3 DEF Held
  <1>5. ASSUME NEW c \in Consumers PROVE Hand(c) = InHand(c)
    <2>1. CASE Reading(c)
      <3>1. loc[c].index = taken[c] % IndexRange BY <1>1, <2>1, Reader
      <3> QED BY <2>1, <3>1 DEF Hand, InHand, Elem, Reading
    <2>2. CASE ~Reading(c) /\ Having(c) BY <2>2 DEF Hand, InHand, Reading, Having
    <2>3. CASE ~Reading(c) /\ ~Having(c) BY <2>3 DEF Hand, InHand, Reading, Having
    <2> QED BY <2>1, <2>2, <2>3
  <1>6. Hands = [c \in Consumers |-> InHand(c)] BY <1>5 DEF Hands
  <1> QED BY <1>2, <1>4, <1>6 DEF Mapping

\* The same after a step.
LEMMA MappedNext == QueueInv' /\ IndexInv' => Mapping'
  BY Mapped, PTL

\* Elements that nobody adds or takes.
LEMMA HeldSame ==
  ASSUME QueueInv, NEW p \in Producers, heads'[p] = heads[p], tails'[p] = tails[p], ElemsSame
  PROVE  Elems(p)' = Elems(p)
  <1>1. tails[p] \in Nat /\ heads[p] \in Nat BY DEF QueueInv, IndexType
  <1>2. ASSUME NEW i \in 1 .. tails[p] - heads[p] PROVE Elem(p, heads[p] + i - 1)' = Elem(p, heads[p] + i - 1)
    <2> DEFINE k == heads[p] + i - 1
    <2>1. k \in Nat /\ heads[p] <= k /\ k < tails[p] /\ heads'[p] <= k /\ k < tails'[p] BY <1>1
    <2>2. k' = k OBVIOUS
    <2> HIDE DEF k
    <2>3. Live(p, k) /\ Live(p, k)' BY <2>1, <2>2 DEF Live
    <2> QED BY <2>1, <2>2, <2>3 DEF ElemsSame, k
  <1> QED BY <1>2 DEF Elems

\* A consumer that has the same.
LEMMA HandSame ==
  ASSUME QueueInv, IndexInv, NEW c \in Consumers, SameHand(c), ElemsSame
  PROVE  InHand(c)' = InHand(c)
  <1>1. CASE Reading(c)
    <2>1. Reading(c)' /\ loc'[c].ptr = loc[c].ptr /\ taken'[c] = taken[c]
      BY <1>1 DEF SameHand, Reading, Having
    <2>2. PICK p \in Producers, k \in Nat : p = loc[c].ptr /\ k = taken[c] /\ Live(p, k) BY <1>1, Reader
    <2>3. Live(p, k)' BY <2>1, <2>2 DEF Live
    <2>4. Elem(p, k)' = Elem(p, k) BY <2>2, <2>3 DEF ElemsSame
    <2> QED BY <1>1, <2>1, <2>2, <2>4 DEF InHand, Elem
  <1>2. CASE ~Reading(c) BY <1>2 DEF SameHand, InHand, Reading, Having
  <1> QED BY <1>1, <1>2

\* A sequence with one element more at its end,
LEMMA Appended ==
  ASSUME NEW S, NEW n \in Nat, NEW a \in [1 .. n -> S], NEW x \in S, NEW b \in [1 .. n + 1 -> S],
         \A i \in 1 .. n : b[i] = a[i], b[n + 1] = x
  PROVE  b = Append(a, x)
  <1>1. a \in Seq(S) /\ Len(a) = n OBVIOUS
  <1>2. PICK s \in Seq(S) : s = Append(a, x) BY <1>1
  <1>3. /\ Len(s) = n + 1 /\ \A i \in 1 .. n : s[i] = a[i]
        /\ s[n + 1] = x
    BY <1>1, <1>2, OneLonger
  <1>4. s \in [1 .. n + 1 -> S] BY <1>3
  <1>5. \A i \in 1 .. n + 1 : b[i] = s[i]
    <2>1. \A i \in 1 .. n + 1 : i \in 1 .. n \/ i = n + 1 OBVIOUS
    <2> QED BY <1>3, <2>1
  <1>6. b = s BY <1>4, <1>5
  <1> QED BY <1>2, <1>6

\* and one without its first.
LEMMA Shortened ==
  ASSUME NEW S, NEW n \in Nat, NEW a \in [1 .. n + 1 -> S], NEW b \in [1 .. n -> S],
         \A i \in 1 .. n : b[i] = a[i + 1]
  PROVE  a # <<>> /\ Head(a) = a[1] /\ b = Tail(a)
  <1>1. a \in Seq(S) /\ Len(a) = n + 1 OBVIOUS
  <1>2. a # <<>> BY <1>1
  <1>3. PICK s \in Seq(S) : s = Tail(a) BY <1>1, <1>2
  <1>4. Len(s) = n /\ \A i \in 1 .. n : s[i] = a[i + 1] BY <1>1, <1>2, <1>3, HeadTailProperties
  <1>5. s \in [1 .. n -> S] BY <1>4
  <1>6. b = s BY <1>4, <1>5
  <1>7. Head(a) = a[1] BY <1>1, <1>2
  <1> QED BY <1>2, <1>3, <1>6, <1>7

\* The steps of the abstract queues, by the mapping: an enqueue,
LEMMA AbstractEnqueue ==
  ASSUME NEW p \in Producers, ~Destroyed, ~Destroyed', NEW v \in Items,
         Held' = [Held EXCEPT ![p] = Append(Held[p], v)], Hands' = Hands
  PROVE  Queue!Enqueue(p)
  BY DEF Queue!Enqueue, Held, Hands

\* a dequeue,
LEMMA AbstractDequeue ==
  ASSUME NEW c \in Consumers, NEW p \in Producers, ~Destroyed, ~Destroyed', Hands[c] = Null, Held[p] # <<>>,
         Hands' = [Hands EXCEPT ![c] = Head(Held[p])], Held' = [Held EXCEPT ![p] = Tail(Held[p])]
  PROVE  Queue!Dequeue(c, p)
  BY DEF Queue!Dequeue, Held, Hands

\* its return,
LEMMA AbstractReturn ==
  ASSUME NEW c \in Consumers, Hands[c] # Null, Hands' = [Hands EXCEPT ![c] = Null], Held' = Held, ~Destroyed, ~Destroyed'
  PROVE  Queue!Return(c)
  BY DEF Queue!Return, Held, Hands

\* and the destruction.
LEMMA AbstractDestroy ==
  ASSUME ~Destroyed, \A c \in Consumers : Hands[c] = Null, Destroyed', Held' = [p \in Producers |-> <<>>], Hands' = Hands
  PROVE  Queue!Destroy
  BY DEF Queue!Destroy, Held, Hands

\* A step that is none of them changes none of it.
LEMMA AbstractIdle ==
  ASSUME QueueInv, IndexInv, QueueInv', IndexInv', ~Destroyed, ~Destroyed', heads' = heads, tails' = tails,
         ElemsSame, \A c \in Consumers : InHand(c)' = InHand(c)
  PROVE  Held' = Held /\ Hands' = Hands
  <1>1. Mapping /\ Mapping' BY Mapped, MappedNext
  <1>2. \A p \in Producers : Elems(p)' = Elems(p) BY HeldSame
  <1> QED BY <1>1, <1>2 DEF Mapping

\* Nobody acts after the destruction.
LEMMA Alive ==
  ASSUME NEW t \in Producers \cup Consumers, Acts(t)
  PROVE  ~Destroyed /\ ~Destroyed'
  BY DEF Acts, Destroyed

\* The elements that nobody has dequeued are items.
ElemsTyped == \A p \in Producers : Elems(p) \in [1 .. tails[p] - heads[p] -> Items]

\* The invariant says so,
LEMMA HeldItems == QueueInv /\ ItemInv => ElemsTyped
  <1>1. SUFFICES ASSUME QueueInv, ItemInv, NEW p \in Producers, NEW i \in 1 .. tails[p] - heads[p]
                 PROVE  Elem(p, heads[p] + i - 1) \in Items
    BY DEF ElemsTyped, Elems
  <1>2. tails[p] \in Nat /\ heads[p] \in Nat BY <1>1 DEF QueueInv, IndexType
  <1>3. PICK k \in Nat : k = heads[p] + i - 1 /\ heads[p] <= k /\ k < tails[p] BY <1>1, <1>2
  <1>4. Live(p, k) BY <1>3 DEF Live
  <1> QED BY <1>1, <1>3, <1>4 DEF ItemInv

\* also after a step.
LEMMA HeldItemsNext == QueueInv' /\ ItemInv' => ElemsTyped'
  BY HeldItems, PTL

\* The store of the tail is the enqueue, and the other steps of a producer are hidden.
LEMMA ProducerRefines ==
  ASSUME QueueInv, IndexInv, ItemInv, QueueInv', IndexInv', NEW p \in Producers,
         HInsertEntry(p) \/ HGrowIndex(p) \/ HStoreTail(p) \/ EnqueuingQuietly(p)
  PROVE  [Queue!Next]_<<Held, ~Destroyed, Hands>>
  <1>1. Acts(p) /\ UNCHANGED <<heads, taken>> /\ (HStoreTail(p) \/ tails' = tails) BY ProducerActs
  <1>2. ~Destroyed /\ ~Destroyed' /\ Mapping /\ Mapping' /\ ElemsSame
    BY <1>1, Alive, Mapped, MappedNext, ProducerElems
  <1>3. ASSUME NEW c \in Consumers PROVE InHand(c)' = InHand(c)
    <2>1. pc'[c] = pc[c] /\ loc'[c] = loc[c]
      <3>1. c # p BY Constants
      <3> QED BY <1>1, <3>1 DEF Acts
    <2>2. SameHand(c) BY <1>1, <2>1 DEF SameHand, Reading, Having
    <2> QED BY <1>2, <2>2, HandSame
  <1>4. CASE tails' = tails
    <2>1. Held' = Held /\ Hands' = Hands BY <1>1, <1>2, <1>3, <1>4, AbstractIdle
    <2> QED BY <1>2, <2>1
  <1>5. CASE HStoreTail(p)
    <2>1. tails \in [Producers -> Nat] /\ heads \in [Producers -> Nat] /\ Accounts(p) /\ IndexType
      BY DEF QueueInv, IndexType, ClaimInv
    <2>2. tails' = [tails EXCEPT ![p] = @ + 1] /\ pc[p] = "bump" BY <1>5 DEF HStoreTail, StoreTail, Goto
    <2>3. heads[p] <= tails[p] BY <2>1, GrantsFit
    <2>4. PICK t \in Nat, h \in Nat : t = tails[p] /\ h = heads[p] /\ tails'[p] = t + 1 /\ heads'[p] = h /\ h <= t
      BY <1>1, <2>1, <2>2, <2>3
    <2> DEFINE v == Elem(p, t)
    <2>5. Live(p, t) /\ Live(p, t)' BY <2>2, <2>4 DEF Live
    <2>6. v \in Items /\ Elem(p, t)' = v BY <1>2, <2>5 DEF ItemInv, ElemsSame
    <2>7. \A q \in Producers \ {p} : Elems(q)' = Elems(q) BY <1>1, <1>2, <2>1, <2>2, HeldSame
    <2>8. Elems(p)' = Append(Elems(p), v)
      <3>1. ElemsTyped /\ ElemsTyped' BY HeldItems, HeldItemsNext, ProducerItems
      <3>2. PICK n \in Nat : n = t - h /\ n + 1 = (t + 1) - h BY <2>4
      <3>3. Elems(p) \in [1 .. n -> Items] /\ Elems(p)' \in [1 .. n + 1 -> Items]
        BY <2>4, <3>1, <3>2 DEF ElemsTyped
      <3>4. ASSUME NEW i \in 1 .. n PROVE Elems(p)'[i] = Elems(p)[i]
        <4>1. PICK k \in Nat : k = h + i - 1 /\ h <= k /\ k < t BY <2>4, <3>2
        <4>2. Live(p, k) /\ Live(p, k)' BY <2>4, <4>1 DEF Live
        <4>3. Elem(p, k)' = Elem(p, k) BY <1>2, <4>2 DEF ElemsSame
        <4>4. i \in 1 .. t - h /\ i \in 1 .. (t + 1) - h BY <2>4, <3>2
        <4>5. Elems(p)[i] = Elem(p, k) BY <2>4, <4>1, <4>4 DEF Elems
        <4>6. Elems(p)'[i] = Elem(p, k)' BY <2>4, <4>1, <4>4 DEF Elems
        <4> QED BY <4>3, <4>5, <4>6
      <3>5. Elems(p)'[n + 1] = v
        <4>1. n + 1 \in 1 .. (t + 1) - h /\ h + (n + 1) - 1 = t BY <2>4, <3>2
        <4>2. Elems(p)'[n + 1] = Elem(p, t)' BY <2>4, <4>1 DEF Elems
        <4> QED BY <2>6, <4>2
      <3> HIDE DEF v
      <3> QED BY <2>6, <3>3, <3>4, <3>5, Appended
    <2> HIDE DEF v
    <2>9. Held = [q \in Producers |-> Elems(q)] /\ Held' = [q \in Producers |-> Elems(q)'] BY <1>2 DEF Mapping
    <2>10. Held' = [Held EXCEPT ![p] = Append(Held[p], v)] BY <2>7, <2>8, <2>9
    <2>11. Hands' = Hands BY <1>2, <1>3 DEF Mapping
    <2>12. Queue!Enqueue(p) BY <1>2, <2>6, <2>10, <2>11, AbstractEnqueue
    <2> QED BY <2>12 DEF Queue!Next
  <1> QED BY <1>1, <1>4, <1>5

\* A consumer that takes an index has the first element.
LEMMA TakeIndexRefines ==
  ASSUME QueueInv, IndexInv, ItemInv, QueueInv', IndexInv', NEW c \in Consumers, HTakeIndex(c)
  PROVE  \E p \in Producers : Queue!Dequeue(c, p)
  <1>1. Acts(c) /\ tails' = tails /\ ~Having(c)'
    <2>1. DOMAIN pc = Producers \cup Consumers BY DEF QueueInv, LocalType
    <2> QED BY <2>1, ConsumerActs DEF HTakeIndex, TakeIndex, Goto, Having
  <1>2. ~Destroyed /\ ~Destroyed' /\ Mapping /\ Mapping' /\ ElemsSame /\ ItemInv' /\ ElemsTyped /\ ElemsTyped'
    BY <1>1, Alive, Mapped, MappedNext, ConsumerElems, ConsumerItems, HeldItems, HeldItemsNext
  <1>3. /\ tails \in [Producers -> Nat] /\ heads \in [Producers -> Nat] /\ taken \in [Consumers -> Nat]
        /\ DOMAIN pc = Producers \cup Consumers /\ DOMAIN loc = Producers \cup Consumers /\ "ptr" \in DOMAIN loc[c]
    BY Local DEF QueueInv, IndexType, IndexInv, IndexTypes, LocalType, ConsumerLocals
  <1>4. pc[c] = "take" /\ pc'[c] = "header" BY <1>3 DEF HTakeIndex, TakeIndex, Goto
  <1>5. PICK p \in Producers : p = loc[c].ptr BY <1>4, Local DEF QueueInv
  <1>6. heads' = [heads EXCEPT ![p] = @ + 1] /\ taken' = [taken EXCEPT ![c] = heads[p]] /\ loc'[c].ptr = p
    BY <1>3, <1>5 DEF HTakeIndex, TakeIndex
  <1>7. heads[p] < tails[p]
    <2>1. Accounts(p) /\ IndexType BY DEF QueueInv, ClaimInv
    <2>2. heads[p] + Cardinality(Granted(p)) <= tails[p] BY <2>1, GrantsFit
    <2>3. c \in Granted(p) BY <1>4, <1>5 DEF Granted
    <2>4. IsFiniteSet(Granted(p)) /\ Cardinality(Granted(p)) \in Nat BY ClaimSets
    <2>5. Cardinality(Granted(p)) # 0 BY <2>3, <2>4, FS_EmptySet
    <2> QED BY <1>3, <2>2, <2>4, <2>5
  <1>8. PICK t \in Nat, h \in Nat, n \in Nat :
          /\ t = tails[p] /\ h = heads[p] /\ tails'[p] = t /\ heads'[p] = h + 1 /\ h < t
          /\ n + 1 = t - h /\ n = t - (h + 1)
    <2>1. tails[p] - (heads[p] + 1) \in Nat BY <1>3, <1>7
    <2> QED BY <1>1, <1>3, <1>6, <1>7, <2>1
  <1>9. Elems(p) \in [1 .. n + 1 -> Items] /\ Elems(p)' \in [1 .. n -> Items]
    BY <1>2, <1>8 DEF ElemsTyped
  <1>10. ASSUME NEW i \in 1 .. n PROVE Elems(p)'[i] = Elems(p)[i + 1]
    <2>1. PICK k \in Nat : k = (h + 1) + i - 1 /\ k = h + (i + 1) - 1 /\ h + 1 <= k /\ h <= k /\ k < t BY <1>8
    <2>2. Live(p, k) /\ Live(p, k)' BY <1>8, <2>1 DEF Live
    <2>3. Elem(p, k)' = Elem(p, k) BY <1>2, <2>2 DEF ElemsSame
    <2>4. i \in 1 .. t - (h + 1) /\ i + 1 \in 1 .. t - h BY <1>8
    <2>5. Elems(p)[i + 1] = Elem(p, k) BY <1>8, <2>1, <2>4 DEF Elems
    <2>6. Elems(p)'[i] = Elem(p, k)' BY <1>8, <2>1, <2>4 DEF Elems
    <2> QED BY <2>3, <2>5, <2>6
  <1>11. Elems(p) # <<>> /\ Head(Elems(p)) = Elems(p)[1] /\ Elems(p)' = Tail(Elems(p)) BY <1>9, <1>10, Shortened
  <1>12. Elems(p)[1] = Elem(p, h)
    <2>1. 1 \in 1 .. t - h /\ h + 1 - 1 = h BY <1>8
    <2> QED BY <1>8, <2>1 DEF Elems
  <1>13. \A q \in Producers \ {p} : Elems(q)' = Elems(q) BY <1>1, <1>2, <1>3, <1>6, HeldSame
  <1>14. InHand(c) = Null BY <1>4 DEF InHand, Reading, Having
  <1>15. InHand(c)' = Elem(p, h)
    <2>1. Reading(c)' /\ taken'[c] = h BY <1>3, <1>4, <1>6, <1>8 DEF Reading
    <2>2. Live(p, h) /\ Live(p, h)' BY <1>6, <1>8, <2>1 DEF Live
    <2>3. Elem(p, h)' = Elem(p, h) BY <1>2, <2>2 DEF ElemsSame
    <2> QED BY <1>6, <2>1, <2>3 DEF InHand, Elem
  <1>16. ASSUME NEW d \in Consumers \ {c} PROVE InHand(d)' = InHand(d)
    <2>1. pc'[d] = pc[d] /\ loc'[d] = loc[d] /\ taken'[d] = taken[d] BY <1>1, <1>3, <1>6 DEF Acts
    <2>2. SameHand(d) BY <2>1 DEF SameHand, Reading, Having
    <2> QED BY <1>2, <2>2, HandSame
  <1>17. Held = [q \in Producers |-> Elems(q)] /\ Held' = [q \in Producers |-> Elems(q)'] BY <1>2 DEF Mapping
  <1>18. Hands = [d \in Consumers |-> InHand(d)] /\ Hands' = [d \in Consumers |-> InHand(d)'] BY <1>2 DEF Mapping
  <1>19. Held[p] # <<>> /\ Held' = [Held EXCEPT ![p] = Tail(Held[p])] BY <1>11, <1>13, <1>17
  <1>20. Hands[c] = Null /\ Hands' = [Hands EXCEPT ![c] = Head(Held[p])]
    BY <1>11, <1>12, <1>14, <1>15, <1>16, <1>17, <1>18
  <1> QED BY <1>2, <1>19, <1>20, AbstractDequeue

\* A consumer that is done returns what it has.
LEMMA DoneRefines ==
  ASSUME QueueInv, IndexInv, ItemInv, QueueInv', IndexInv', NEW c \in Consumers, Acts(c), heads' = heads, tails' = tails,
         taken' = taken, ElemsSame, Having(c), pc'[c] = "idle"
  PROVE  Queue!Return(c)
  <1>1. ~Destroyed /\ ~Destroyed' /\ Mapping /\ Mapping' BY Alive, Mapped, MappedNext
  <1>2. \A p \in Producers : Elems(p)' = Elems(p) BY HeldSame
  <1>3. Held' = Held BY <1>1, <1>2 DEF Mapping
  <1>4. InHand(c) # Null /\ InHand(c)' = Null
    <2>1. loc[c].item \in Items /\ ~Reading(c) BY DEF ItemInv, Having, Reading
    <2>2. Null \notin Items BY ImplicitQueueAssumption
    <2> QED BY <2>1, <2>2 DEF InHand, Reading, Having
  <1>5. ASSUME NEW d \in Consumers \ {c} PROVE InHand(d)' = InHand(d)
    <2>1. pc'[d] = pc[d] /\ loc'[d] = loc[d] /\ taken'[d] = taken[d] BY DEF Acts
    <2>2. SameHand(d) BY <2>1 DEF SameHand, Reading, Having
    <2> QED BY <2>2, HandSame
  <1>6. Hands = [d \in Consumers |-> InHand(d)] /\ Hands' = [d \in Consumers |-> InHand(d)'] BY <1>1 DEF Mapping
  <1>7. Hands[c] # Null /\ Hands' = [Hands EXCEPT ![c] = Null] BY <1>4, <1>5, <1>6
  <1> QED BY <1>1, <1>3, <1>7, AbstractReturn

\* The index that is taken is the dequeue, the last step of the call its return, and the
\* other steps of a consumer are hidden.
LEMMA ConsumerRefines ==
  ASSUME QueueInv, IndexInv, ItemInv, QueueInv', IndexInv', NEW c \in Consumers,
         \/ HLoadOvercommit(c) \/ HClaim(c) \/ HRecheck(c) \/ HGiveBack(c)
         \/ HTakeIndex(c) \/ HSetEmpty(c) \/ DequeuingQuietly(c)
  PROVE  [Queue!Next]_<<Held, ~Destroyed, Hands>>
  <1>1. /\ Acts(c) /\ tails' = tails /\ (HTakeIndex(c) \/ (heads' = heads /\ taken' = taken))
        /\ HTakeIndex(c) \/ ReadElement(c) \/ HSetEmpty(c) \/ ReleaseBlock(c) \/ SameHand(c)
    BY ConsumerActs
  <1>2. ~Destroyed /\ ~Destroyed' /\ ElemsSame BY <1>1, Alive, ConsumerElems
  <1>3. DOMAIN pc = Producers \cup Consumers /\ DOMAIN loc = Producers \cup Consumers BY DEF QueueInv, LocalType
  <1>4. CASE HTakeIndex(c)
    <2>1. \E p \in Producers : Queue!Dequeue(c, p) BY <1>4, TakeIndexRefines
    <2> QED BY <2>1 DEF Queue!Next
  <1>5. ASSUME heads' = heads, taken' = taken, InHand(c)' = InHand(c) PROVE [Queue!Next]_<<Held, ~Destroyed, Hands>>
    <2>1. ASSUME NEW d \in Consumers \ {c} PROVE InHand(d)' = InHand(d)
      <3>1. pc'[d] = pc[d] /\ loc'[d] = loc[d] /\ taken'[d] = taken[d] BY <1>1, <1>5 DEF Acts
      <3>2. SameHand(d) BY <3>1 DEF SameHand, Reading, Having
      <3> QED BY <1>2, <3>2, HandSame
    <2>2. \A d \in Consumers : InHand(d)' = InHand(d) BY <1>5, <2>1
    <2>3. Held' = Held /\ Hands' = Hands BY <1>1, <1>2, <1>5, <2>2, AbstractIdle
    <2> QED BY <1>2, <2>3
  <1>6. ASSUME heads' = heads, taken' = taken, Having(c), pc'[c] = "idle" PROVE [Queue!Next]_<<Held, ~Destroyed, Hands>>
    <2>1. Queue!Return(c) BY <1>1, <1>2, <1>6, DoneRefines
    <2> QED BY <2>1 DEF Queue!Next
  <1>7. CASE heads' = heads /\ taken' = taken
    <2>1. CASE SameHand(c) BY <1>2, <1>5, <1>7, <2>1, HandSame
    <2>2. CASE ReadElement(c)
      <3>1. InHand(c)' = InHand(c) BY <2>2, Read DEF InHand
      <3> QED BY <1>5, <1>7, <3>1
    <2>3. CASE ReleaseBlock(c)
      <3>1. Having(c) /\ pc'[c] = "idle" BY <1>3, <2>3 DEF ReleaseBlock, Done, Having
      <3> QED BY <1>6, <1>7, <3>1
    <2>4. CASE HSetEmpty(c)
      <3>1. Having(c) BY <2>4 DEF HSetEmpty, SetEmpty, Having
      <3>2. CASE pc'[c] = "idle" BY <1>6, <1>7, <3>1, <3>2
      <3>3. CASE pc'[c] # "idle"
        <4>1. pc'[c] = "unlink" /\ loc' = loc BY <1>3, <2>4, <3>3 DEF HSetEmpty, SetEmpty, Done
        <4>2. SameHand(c) BY <3>1, <4>1 DEF SameHand, Having
        <4> QED BY <1>2, <1>5, <1>7, <4>2, HandSame
      <3> QED BY <3>2, <3>3
    <2>5. CASE HTakeIndex(c) BY <1>4, <2>5
    <2> QED BY <1>1, <2>1, <2>2, <2>3, <2>4, <2>5
  <1> QED BY <1>1, <1>4, <1>7

\* The destructors are the destruction.
LEMMA DestroyRefines ==
  ASSUME QueueInv, IndexInv, QueueInv', IndexInv', Destroy
  PROVE  Queue!Destroy
  <1>1. ~Destroyed /\ \A t \in Producers \cup Consumers : pc'[t] = "off" /\ pc[t] \in {"idle", "off"}
    BY DEF Destroy, Quiescent
  <1>2. Destroyed' BY <1>1 DEF Destroyed
  <1>3. Mapping /\ Mapping' BY Mapped, MappedNext
  <1>4. \A c \in Consumers : InHand(c) = Null /\ InHand(c)' = Null BY <1>1 DEF InHand, Reading, Having
  <1>5. Held' = [p \in Producers |-> <<>>] BY <1>2, <1>3 DEF Mapping
  <1>6. Hands' = Hands /\ \A c \in Consumers : Hands[c] = Null BY <1>3, <1>4 DEF Mapping
  <1> QED BY <1>1, <1>2, <1>5, <1>6, AbstractDestroy

\* Nothing happens.
LEMMA IdleRefines ==
  ASSUME UNCHANGED <<vars, history>>
  PROVE  Held' = Held /\ Hands' = Hands /\ Destroyed' = Destroyed
  <1>1. UNCHANGED <<tailIndex, headIndex, entry, elements, pc, loc, header>> BY DEF vars, indices, index, memory
  <1>2. Destroyed' = Destroyed BY <1>1 DEF Destroyed
  <1>3. \A p, i : At(p, i)' = At(p, i) BY <1>1 DEF At, BlockOf, Lookup, Current, blockIndex
  <1>4. \A p : Size(p)' = Size(p) BY <1>1 DEF Size
  <1>5. Held' = Held BY <1>1, <1>2, <1>3, <1>4 DEF Held
  <1>6. Hands' = Hands BY <1>1, <1>3 DEF Hands, Hand
  <1> QED BY <1>2, <1>5, <1>6

\* Every step is a step of the abstract queues, or hidden.
LEMMA NextRefines ==
  ASSUME QueueInv, IndexInv, ItemInv, QueueInv', IndexInv', [HNext]_<<vars, history>>
  PROVE  [Queue!Next]_<<Held, ~Destroyed, Hands>>
  <1>1. CASE UNCHANGED <<vars, history>> BY <1>1, IdleRefines
  <1>2. CASE Destroy
    <2>1. Queue!Destroy BY <1>2, DestroyRefines
    <2> QED BY <2>1 DEF Queue!Next
  <1> QED BY <1>1, <1>2, ProducerRefines, ConsumerRefines DEF HNext

\* At first all queues are empty.
LEMMA InitRefines ==
  ASSUME Producers # {}, HInit, QueueInv, IndexInv
  PROVE  Queue!Init
  <1>1. PICK work \in Workloads :
           /\ ProducerBase(work.start)
           /\ pc = [t \in Producers \cup Consumers |-> IF t \in Consumers \ work.active THEN "off" ELSE "idle"]
    BY DEF HInit, Init
  <1>2. \A p \in Producers : pc[p] = "idle" BY <1>1, Constants
  <1>3. ~Destroyed BY <1>2 DEF Destroyed
  <1>4. work.start \in Nat /\ tails = [p \in Producers |-> work.start] /\ heads = tails
    BY <1>1, ImplicitQueueAssumption DEF HInit, ProducerBase
  <1>5. Mapping BY Mapped
  <1>6. \A p \in Producers : Elems(p) = <<>>
    <2>1. SUFFICES ASSUME NEW p \in Producers PROVE Elems(p) = <<>> OBVIOUS
    <2>2. 1 .. tails[p] - heads[p] = 1 .. 0 BY <1>4
    <2>3. Elems(p) \in [1 .. 0 -> {Elems(p)[i] : i \in 1 .. 0}] BY <2>2 DEF Elems
    <2>4. Elems(p) \in Seq({Elems(p)[i] : i \in 1 .. 0}) /\ Len(Elems(p)) = 0 BY <2>3
    <2> QED BY <2>4, EmptySeq
  <1>7. Held = [p \in Producers |-> <<>>] BY <1>3, <1>5, <1>6 DEF Mapping
  <1>8. \A c \in Consumers : InHand(c) = Null
    <2>1. \A c \in Consumers : pc[c] \in {"idle", "off"} BY <1>1
    <2> QED BY <2>1 DEF InHand, Reading, Having
  <1>9. Hands = [c \in Consumers |-> Null] BY <1>5, <1>8 DEF Mapping
  <1> QED BY <1>3, <1>7, <1>9 DEF Queue!Init, Held, Hands

\* The queue implements the abstract queues (enqueue, try_dequeue): every element that
\* an enqueue has put in is handed to one consumer, in the order of its producer, and an
\* enqueue that fails has no effect.
THEOREM QueuesImplemented ==
  ASSUME Producers # {}
  PROVE  HSpec /\ []Fresh => ImplementsQueues
  <1>1. HInit => QueueInv /\ IndexInv /\ ItemInv BY InitInv, InitIndex, InitItems
  <1>2. HInit => Queue!Init BY InitInv, InitIndex, InitRefines
  <1>3. QueueInv /\ IndexInv /\ ItemInv /\ Fresh /\ [HNext]_<<vars, history>> => QueueInv' /\ IndexInv' /\ ItemInv'
    BY NextInv, NextIndex, NextItems
  <1>4. QueueInv /\ IndexInv /\ ItemInv /\ Fresh /\ [HNext]_<<vars, history>> =>
          [Queue!Next]_<<Held, ~Destroyed, Hands>>
    BY NextInv, NextIndex, NextRefines
  <1>5. ImplementsQueues <=> Queue!Init /\ [][Queue!Next]_<<Held, ~Destroyed, Hands>>
    BY DEF ImplementsQueues, Queue!Spec, Held, Hands
  <1> QED BY <1>1, <1>2, <1>3, <1>4, <1>5, PTL DEF HSpec
==============================================================================
