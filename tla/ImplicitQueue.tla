---------------------------- MODULE ImplicitQueue -----------------------------
(***************************************************************************)
(* The vendored lock-free queue as the engine uses it: enqueue without a   *)
(* token, one implicit producer per enqueuing thread, and try_dequeue      *)
(* (include/concurrentqueue.hpp).  A producer's elements live in blocks of *)
(* BLOCK_SIZE; a circular block index, that is replaced by one of twice    *)
(* the size when it is full, leads from an index to its block.             *)
(*                                                                         *)
(* A step is one access to an atomic variable that another thread may      *)
(* write, or a store others may see, with the accesses to variables that   *)
(* only the acting thread can reach; atomics are sequentially consistent.  *)
(* The free list is the set of its nodes (module FreeList), and the        *)
(* producers have been registered (module ProducerTable).                  *)
(***************************************************************************)
EXTENDS Integers, SequencesExt, FiniteSets, Functions

CONSTANTS
  Producers,   \* 1 .. n; the list of producers runs from n down to 1
  Consumers,
  Workloads,   \* bound: how often each producer enqueues (todo), who dequeues (active),
               \* and where the producers' indices start (start)
  BLOCK_SIZE, IMPLICIT_INITIAL_INDEX_SIZE,
  IndexRange,  \* 2^w for index_t of w bits
  Sampled,     \* non-empty producers that try_dequeue compares: 3 in the code
  PoolSize,    \* blocks of the initial pool
  MaxBlocks,   \* bound: blocks that memory has room for, the pool's included
  MaxHeaders,  \* bound: block indices that memory has room for, per producer
  Null

Blocks == 1 .. MaxBlocks
Items == UNION {{p} \X (0 .. w.todo[p]) : p \in Producers, w \in Workloads}
INVALID_BLOCK_BASE == 1

ASSUME ImplicitQueueAssumption ==
  /\ IsFiniteSet(Producers) /\ Producers = 1 .. Cardinality(Producers)
  /\ IsFiniteSet(Consumers) /\ Producers \cap Consumers = {}
  /\ BLOCK_SIZE \in {2 ^ i : i \in 1 .. 10}
  /\ IMPLICIT_INITIAL_INDEX_SIZE \in {2 ^ i : i \in 1 .. 10}
  /\ IndexRange \in Nat \ {0} /\ IndexRange % (2 * BLOCK_SIZE) = 0
  /\ \A w \in Workloads : w.todo \in [Producers -> Nat] /\ w.active \subseteq Consumers
       /\ w.start \in 0 .. IndexRange - 1 /\ w.start % BLOCK_SIZE = 0
  /\ {PoolSize, MaxBlocks, MaxHeaders, Sampled} \subseteq Nat
  /\ PoolSize <= MaxBlocks /\ MaxHeaders >= 1
  /\ Null \notin Nat /\ Null \notin Items
  \* No block index that memory has room for leads to more than all indices.
  /\ \A j \in 1 .. MaxHeaders :
       IndexRange % (IMPLICIT_INITIAL_INDEX_SIZE * 2 ^ (j - 1) * BLOCK_SIZE) = 0

VARIABLES
  tailIndex, headIndex, dequeueOptimisticCount, dequeueOvercommit, tailBlock,
  header,     \* the block indices of a producer, the current one last
  entry,      \* the entries (key, value) that the block indices share
  elements, elementsCompletelyDequeued,    \* of each block
  initialBlockPoolIndex, freeList,
  allocated,  \* the blocks 1 .. allocated exist
  todo,       \* the number of enqueues a producer has still to begin
  pc, loc     \* of producers and consumers

indices == <<tailIndex, headIndex, dequeueOptimisticCount, dequeueOvercommit>>
index   == <<header, entry>>
memory  == <<elements, elementsCompletelyDequeued>>
pools   == <<initialBlockPoolIndex, freeList, allocated>>
vars    == <<indices, tailBlock, index, memory, pools, todo, pc, loc>>

Add(i, n) == (i + n) % IndexRange

circular_less_than(a, b) == (a - b) % IndexRange > IndexRange \div 2

Slot(i) == i % BLOCK_SIZE         \* i & (BLOCK_SIZE - 1)
Base(i) == i - (i % BLOCK_SIZE)    \* i & ~(BLOCK_SIZE - 1)

blockIndex(p) == Len(header[p])
Current(p) == header[p][blockIndex(p)]
Capacity(h) == Len(h.index)

ProducerLocals == [slot |-> 0, block |-> Null]
ConsumerLocals ==
  [ptr |-> 0, nonEmpty |-> 0, best |-> 0, bestSize |-> 0, rest |-> <<>>,
   tail |-> 0, overcommit |-> 0, count |-> 0, index |-> 0, header |-> 0,
   entry |-> 0, block |-> Null, item |-> Null]
------------------------------------------------------------------------------
\* A new entry's value is not initialised; the code looks at the key first.
NewEntry == [key |-> INVALID_BLOCK_BASE, value |-> Null]

\* ProducerBase: a producer is empty.  When its indices start above 0 it has been
\* used for as long.
ProducerBase(start) ==
  /\ tailIndex = [p \in Producers |-> start]
  /\ headIndex = tailIndex
  /\ dequeueOptimisticCount = tailIndex
  /\ dequeueOvercommit = [p \in Producers |-> 0]
  /\ tailBlock = [p \in Producers |-> Null]

\* ImplicitProducer: it has a block index of the initial size.  If it has been used the
\* index has the keys of its last blocks, all of which have been dequeued.
ImplicitProducer(used) ==
  LET n == IMPLICIT_INITIAL_INDEX_SIZE
  IN  /\ header = [p \in Producers |-> <<[tail |-> (used - 1) % n, index |-> [i \in 1 .. n |-> i]]>>]
      /\ entry = [p \in Producers |-> [i \in 1 .. n |->
                    IF i > used THEN NewEntry
                    ELSE [key |-> ((used - 1) - ((used - i) % n)) * BLOCK_SIZE, value |-> Null]]]

\* An initial pool that cannot be allocated is one of PoolSize 0.
populate_initial_block_list ==
  /\ allocated = PoolSize
  /\ elements = [b \in Blocks |-> [i \in 0 .. BLOCK_SIZE - 1 |-> Null]]
  /\ elementsCompletelyDequeued = [b \in Blocks |-> 0]

Init ==
  \E work \in Workloads :
    /\ initialBlockPoolIndex = 0
    /\ freeList = {}
    /\ populate_initial_block_list
    /\ ProducerBase(work.start)
    /\ ImplicitProducer(work.start \div BLOCK_SIZE)
    /\ todo = work.todo
    /\ pc = [t \in Producers \cup Consumers |->
               IF t \in Consumers \ work.active THEN "off" ELSE "idle"]
    /\ loc = [t \in Producers \cup Consumers |->
                IF t \in Producers THEN ProducerLocals ELSE ConsumerLocals]

Goto(t, from, to) == pc[t] = from /\ pc' = [pc EXCEPT ![t] = to]
------------------------------------------------------------------------------
(* ImplicitProducer::enqueue *)

Leave(p) ==
  /\ pc' = [pc EXCEPT ![p] = "idle"]
  /\ loc' = [loc EXCEPT ![p] = ProducerLocals]

\* At the end of a block a new one is started.
EnqueueBegin(p) ==
  /\ pc[p] = "idle"
  /\ todo[p] > 0
  /\ todo' = [todo EXCEPT ![p] = @ - 1]
  /\ pc' = [pc EXCEPT ![p] = IF Slot(tailIndex[p]) = 0 THEN "room" ELSE "write"]
  /\ UNCHANGED <<indices, tailBlock, index, memory, pools, loc>>

\* The head is loaded; a producer that holds half the range of indices is full.
CheckRoom(p) ==
  /\ pc[p] = "room"
  /\ IF circular_less_than(headIndex[p], Add(tailIndex[p], BLOCK_SIZE))
     THEN pc' = [pc EXCEPT ![p] = "slot"] /\ UNCHANGED loc
     ELSE Leave(p)
  /\ UNCHANGED <<indices, tailBlock, index, memory, pools, todo>>

NextPosition(h) == (h.tail + 1) % Capacity(h)
NextEntry(p) == Current(p).index[NextPosition(Current(p)) + 1]

\* The entry after the tail can be taken: it is new, or its block has been freed.
EntryFree(p) ==
  LET e == entry[p][NextEntry(p)] IN e.key = INVALID_BLOCK_BASE \/ e.value = Null

\* insert_block_index_entry, when there is room.
InsertEntry(p) ==
  /\ Goto(p, "slot", "publish")
  /\ EntryFree(p)
  /\ entry' = [entry EXCEPT ![p][NextEntry(p)].key = tailIndex[p]]
  /\ loc' = [loc EXCEPT ![p].slot = NextEntry(p)]
  /\ UNCHANGED <<indices, tailBlock, header, memory, pools, todo>>

\* Mutant: the old entries are copied from the first one, not from the oldest.
GrowIndexUnrotated(p) ==
  /\ pc[p] = "slot"
  /\ ~EntryFree(p)
  /\ Len(header[p]) < MaxHeaders
  /\ LET n == Capacity(Current(p))
     IN  /\ header' = [header EXCEPT ![p] = Append(@,
                         [tail |-> n - 1, index |-> [i \in 1 .. 2 * n |-> i]])]
         /\ entry' = [entry EXCEPT ![p] = @ \o [i \in 1 .. n |-> NewEntry]]
  /\ UNCHANGED <<indices, tailBlock, memory, pools, todo, pc, loc>>

\* new_block_index: the old entries from the oldest to the tail, then as many new ones.
GrowIndex(p) ==
  /\ pc[p] = "slot"
  /\ ~EntryFree(p)
  /\ Len(header[p]) < MaxHeaders
  /\ LET h == Current(p)
         n == Capacity(h)
     IN  /\ header' = [header EXCEPT ![p] = Append(@,
                         [tail  |-> n - 1,
                          index |-> [i \in 1 .. 2 * n |->
                                       IF i <= n THEN h.index[((h.tail + i) % n) + 1]
                                       ELSE i]])]
         /\ entry' = [entry EXCEPT ![p] = @ \o [i \in 1 .. n |-> NewEntry]]
  /\ UNCHANGED <<indices, tailBlock, memory, pools, todo, pc, loc>>

\* malloc fails: the block index cannot grow, and enqueue returns false.
IndexFull(p) ==
  /\ pc[p] = "slot"
  /\ ~EntryFree(p)
  /\ Leave(p)
  /\ UNCHANGED <<indices, tailBlock, index, memory, pools, todo>>

PublishEntry(p) ==
  /\ Goto(p, "publish", "pool")
  /\ header' = [header EXCEPT ![p][blockIndex(p)].tail = NextPosition(Current(p))]
  /\ UNCHANGED <<indices, tailBlock, entry, memory, pools, todo, loc>>

\* try_get_block_from_initial_pool: the index is loaded,
LoadPool(p) ==
  /\ Goto(p, "pool", IF initialBlockPoolIndex >= PoolSize THEN "free" ELSE "take")
  /\ UNCHANGED <<indices, tailBlock, index, memory, pools, todo, loc>>

\* and incremented, by several threads perhaps.
TakeFromPool(p) ==
  /\ pc[p] = "take"
  /\ initialBlockPoolIndex' = initialBlockPoolIndex + 1
  /\ IF initialBlockPoolIndex < PoolSize
     THEN /\ pc' = [pc EXCEPT ![p] = "store"]
          /\ loc' = [loc EXCEPT ![p].block = initialBlockPoolIndex + 1]
     ELSE pc' = [pc EXCEPT ![p] = "free"] /\ UNCHANGED loc
  /\ UNCHANGED <<indices, tailBlock, index, memory, freeList, allocated, todo>>

\* try_get_block_from_free_list finds a block.
TakeFree(p) ==
  /\ Goto(p, "free", "store")
  /\ \E b \in freeList :
       /\ freeList' = freeList \ {b}
       /\ loc' = [loc EXCEPT ![p].block = b]
  /\ UNCHANGED <<indices, tailBlock, index, memory, initialBlockPoolIndex, allocated, todo>>

\* It finds none (a block may be on its way to the list), and one is allocated.
CreateBlock(p) ==
  /\ Goto(p, "free", "store")
  /\ allocated < MaxBlocks
  /\ allocated' = allocated + 1
  /\ loc' = [loc EXCEPT ![p].block = allocated + 1]
  /\ UNCHANGED <<indices, tailBlock, index, memory, initialBlockPoolIndex, freeList, todo>>

rewind_block_index_tail(p) ==
  header' = [header EXCEPT ![p][blockIndex(p)].tail = (@ - 1) % Capacity(Current(p))]

\* malloc fails: the entry is given up, and enqueue returns false.
NoBlock(p) ==
  /\ pc[p] = "free"
  /\ rewind_block_index_tail(p)
  /\ entry' = [entry EXCEPT ![p][loc[p].slot].value = Null]
  /\ Leave(p)
  /\ UNCHANGED <<indices, tailBlock, memory, pools, todo>>

reset_empty(b) ==
  elementsCompletelyDequeued' = [elementsCompletelyDequeued EXCEPT ![b] = 0]

\* The block is reset and goes into the index.
StoreBlock(p) ==
  /\ Goto(p, "store", "write")
  /\ reset_empty(loc[p].block)
  /\ entry' = [entry EXCEPT ![p][loc[p].slot].value = loc[p].block]
  /\ tailBlock' = [tailBlock EXCEPT ![p] = loc[p].block]
  /\ loc' = [loc EXCEPT ![p] = ProducerLocals]
  /\ UNCHANGED <<indices, header, elements, pools, todo>>

WriteElement(p) ==
  /\ Goto(p, "write", "bump")
  /\ elements' = [elements EXCEPT ![tailBlock[p]][Slot(tailIndex[p])] = <<p, todo[p]>>]
  /\ UNCHANGED <<indices, tailBlock, index, elementsCompletelyDequeued, pools, todo, loc>>

StoreTail(p) ==
  /\ Goto(p, "bump", "idle")
  /\ tailIndex' = [tailIndex EXCEPT ![p] = Add(@, 1)]
  /\ UNCHANGED <<headIndex, dequeueOptimisticCount, dequeueOvercommit, tailBlock, index,
                 memory, pools, todo, loc>>

Enqueuing(p) ==
  \/ EnqueueBegin(p) \/ CheckRoom(p) \/ InsertEntry(p) \/ GrowIndex(p) \/ IndexFull(p)
  \/ PublishEntry(p) \/ LoadPool(p) \/ TakeFromPool(p) \/ TakeFree(p) \/ CreateBlock(p)
  \/ NoBlock(p) \/ StoreBlock(p) \/ WriteElement(p) \/ StoreTail(p)
------------------------------------------------------------------------------
(* try_dequeue *)

shared == <<indices, tailBlock, index, memory, pools, todo>>

ProducerList == [i \in 1 .. Cardinality(Producers) |-> Cardinality(Producers) + 1 - i]
Others(p) ==
  [i \in 1 .. Cardinality(Producers) - 1 |-> IF ProducerList[i] > p THEN ProducerList[i] ELSE ProducerList[i + 1]]
Trying(p, rest) == [ConsumerLocals EXCEPT !.ptr = p, !.rest = rest]

\* The loop over the producers has come to l.ptr.  At its end the best one is tried
\* first, then all others, or try_dequeue returns false.
Scan(c, l) ==
  \/ /\ l.nonEmpty < Sampled /\ l.ptr # 0
     /\ pc' = [pc EXCEPT ![c] = "tail"]
     /\ loc' = [loc EXCEPT ![c] = l]
  \/ /\ l.nonEmpty = Sampled \/ l.ptr = 0
     /\ \/ /\ l.nonEmpty > 0
           /\ pc' = [pc EXCEPT ![c] = "dequeue"]
           /\ loc' = [loc EXCEPT ![c] = Trying(l.best, Others(l.best))]
        \/ /\ l.nonEmpty = 0
           /\ pc' = [pc EXCEPT ![c] = "idle"]
           /\ loc' = [loc EXCEPT ![c] = ConsumerLocals]

DequeueBegin(c) ==
  /\ pc[c] = "idle"
  /\ Scan(c, [ConsumerLocals EXCEPT !.ptr = Cardinality(Producers)])
  /\ UNCHANGED shared

\* size_approx loads the tail,
SizeTail(c) ==
  /\ Goto(c, "tail", "head")
  /\ loc' = [loc EXCEPT ![c].tail = tailIndex[loc[c].ptr]]
  /\ UNCHANGED shared

\* and the head; the largest producer is the best.
SizeHead(c) ==
  /\ pc[c] = "head"
  /\ LET l == loc[c]
         size == IF circular_less_than(headIndex[l.ptr], l.tail)
                 THEN Add(l.tail, -headIndex[l.ptr]) ELSE 0
         better == size > l.bestSize
     IN  Scan(c, [l EXCEPT !.ptr = @ - 1, !.tail = 0,
                           !.nonEmpty = IF size > 0 THEN @ + 1 ELSE @,
                           !.best = IF better THEN l.ptr ELSE @,
                           !.bestSize = IF better THEN size ELSE @])
  /\ UNCHANGED shared

(* ImplicitProducer::dequeue of the producer ptr *)

\* It returns false: the next producer is tried, and after the last one
\* try_dequeue returns false.
Empty(c) ==
  LET l == loc[c]
  IN  IF l.rest = <<>>
      THEN /\ pc' = [pc EXCEPT ![c] = "idle"]
           /\ loc' = [loc EXCEPT ![c] = ConsumerLocals]
      ELSE /\ pc' = [pc EXCEPT ![c] = "dequeue"]
           /\ loc' = [loc EXCEPT ![c] = Trying(Head(l.rest), Tail(l.rest))]

LoadTail(c) ==
  /\ Goto(c, "dequeue", "overcommit")
  /\ loc' = [loc EXCEPT ![c].tail = tailIndex[loc[c].ptr]]
  /\ UNCHANGED shared

LoadOvercommit(c) ==
  /\ Goto(c, "overcommit", "check")
  /\ loc' = [loc EXCEPT ![c].overcommit = dequeueOvercommit[loc[c].ptr]]
  /\ UNCHANGED shared

\* Whether n dequeues, less the ones that have been given back, reach the tail.
Before(l, n, tail) == circular_less_than(Add(n, -l.overcommit), tail)

CheckCount(c) ==
  /\ pc[c] = "check"
  /\ IF Before(loc[c], dequeueOptimisticCount[loc[c].ptr], loc[c].tail)
     THEN /\ pc' = [pc EXCEPT ![c] = "claim"]
          /\ loc' = [loc EXCEPT ![c].tail = 0]
     ELSE Empty(c)
  /\ UNCHANGED shared

Claim(c) ==
  /\ Goto(c, "claim", "recheck")
  /\ dequeueOptimisticCount' = [dequeueOptimisticCount EXCEPT ![loc[c].ptr] = Add(@, 1)]
  /\ loc' = [loc EXCEPT ![c].count = dequeueOptimisticCount[loc[c].ptr]]
  /\ UNCHANGED <<tailIndex, headIndex, dequeueOvercommit, tailBlock, index, memory, pools, todo>>

\* The tail is loaded again: is there an element for this claim?
Recheck(c) ==
  /\ Goto(c, "recheck", IF Before(loc[c], loc[c].count, tailIndex[loc[c].ptr])
                        THEN "take" ELSE "giveback")
  /\ loc' = [loc EXCEPT ![c].count = 0, ![c].overcommit = 0]
  /\ UNCHANGED shared

\* Mutant: a claim beyond the tail is not given back.
GiveBackForgotten(c) ==
  /\ pc[c] = "giveback"
  /\ Empty(c)
  /\ UNCHANGED shared

GiveBack(c) ==
  /\ pc[c] = "giveback"
  /\ dequeueOvercommit' = [dequeueOvercommit EXCEPT ![loc[c].ptr] = Add(@, 1)]
  /\ Empty(c)
  /\ UNCHANGED <<tailIndex, headIndex, dequeueOptimisticCount, tailBlock, index, memory, pools, todo>>

\* Mutant: the index is the head after the increment.
TakeIndexAfter(c) ==
  /\ Goto(c, "take", "header")
  /\ headIndex' = [headIndex EXCEPT ![loc[c].ptr] = Add(@, 1)]
  /\ loc' = [loc EXCEPT ![c].index = Add(headIndex[loc[c].ptr], 1), ![c].rest = <<>>]
  /\ UNCHANGED <<tailIndex, dequeueOptimisticCount, dequeueOvercommit, tailBlock, index, memory, pools, todo>>

TakeIndex(c) ==
  /\ Goto(c, "take", "header")
  /\ headIndex' = [headIndex EXCEPT ![loc[c].ptr] = Add(@, 1)]
  /\ loc' = [loc EXCEPT ![c].index = headIndex[loc[c].ptr], ![c].rest = <<>>]
  /\ UNCHANGED <<tailIndex, dequeueOptimisticCount, dequeueOvercommit, tailBlock, index, memory, pools, todo>>

\* get_block_index_index_for_index: the block index is loaded, then its tail,
LoadHeader(c) ==
  /\ Goto(c, "header", "position")
  /\ loc' = [loc EXCEPT ![c].header = blockIndex(loc[c].ptr)]
  /\ UNCHANGED shared

LoadPosition(c) ==
  /\ Goto(c, "position", "key")
  /\ loc' = [loc EXCEPT ![c].tail = header[loc[c].ptr][loc[c].header].tail]
  /\ UNCHANGED shared

\* The entry for index i, counted from the entry at position tail of h.
Lookup(p, h, tail, i) ==
  LET offset == Add(Base(i), -entry[p][h.index[tail + 1]].key) \div BLOCK_SIZE
  IN  h.index[((tail + offset) % Capacity(h)) + 1]

\* and the key at the tail, from which the entry's distance is counted.
LoadKey(c) ==
  /\ Goto(c, "key", "read")
  /\ LET l == loc[c]
     IN  loc' = [loc EXCEPT ![c].tail = 0, ![c].header = 0,
                            ![c].entry = Lookup(l.ptr, header[l.ptr][l.header], l.tail, l.index)]
  /\ UNCHANGED shared

ReadElement(c) ==
  /\ Goto(c, "read", "empty")
  /\ LET l == loc[c]
         b == entry[l.ptr][l.entry].value
     IN  /\ loc' = [loc EXCEPT ![c].block = b, ![c].item = elements[b][Slot(l.index)], ![c].index = 0]
         /\ elements' = [elements EXCEPT ![b][Slot(l.index)] = Null]
  /\ UNCHANGED <<indices, tailBlock, index, elementsCompletelyDequeued, pools, todo>>

Done(c) ==
  /\ pc' = [pc EXCEPT ![c] = "idle"]
  /\ loc' = [loc EXCEPT ![c] = ConsumerLocals]

set_empty(b) ==
  elementsCompletelyDequeued' = [elementsCompletelyDequeued EXCEPT ![b] = @ + 1]

\* Who dequeues a block's last element frees it.
SetEmpty(c) ==
  /\ pc[c] = "empty"
  /\ set_empty(loc[c].block)
  /\ IF elementsCompletelyDequeued[loc[c].block] = BLOCK_SIZE - 1
     THEN pc' = [pc EXCEPT ![c] = "unlink"] /\ UNCHANGED loc
     ELSE Done(c)
  /\ UNCHANGED <<indices, tailBlock, index, elements, pools, todo>>

UnlinkBlock(c) ==
  /\ Goto(c, "unlink", "release")
  /\ entry' = [entry EXCEPT ![loc[c].ptr][loc[c].entry].value = Null]
  /\ UNCHANGED <<indices, tailBlock, header, memory, pools, todo, loc>>

add_block_to_free_list(b) == freeList' = freeList \cup {b}

\* try_dequeue returns true.
ReleaseBlock(c) ==
  /\ pc[c] = "release"
  /\ add_block_to_free_list(loc[c].block)
  /\ Done(c)
  /\ UNCHANGED <<indices, tailBlock, index, memory, initialBlockPoolIndex, allocated, todo>>

Dequeuing(c) ==
  \/ DequeueBegin(c) \/ SizeTail(c) \/ SizeHead(c) \/ LoadTail(c) \/ LoadOvercommit(c)
  \/ CheckCount(c) \/ Claim(c) \/ Recheck(c) \/ GiveBack(c) \/ TakeIndex(c)
  \/ LoadHeader(c) \/ LoadPosition(c) \/ LoadKey(c) \/ ReadElement(c)
  \/ SetEmpty(c) \/ UnlinkBlock(c) \/ ReleaseBlock(c)

------------------------------------------------------------------------------
(* The destructors, which nobody's call may overlap. *)

Quiescent == \A t \in Producers \cup Consumers : pc[t] \in {"idle", "off"}

Destroyed == \A t \in Producers \cup Consumers : pc[t] = "off"

Size(p) == Add(tailIndex[p], -headIndex[p])

\* The block that has index i, as the block index leads to it.
BlockOf(p, i) == entry[p][Lookup(p, Current(p), Current(p).tail, i)].value

\* The blocks of the elements that remain, but for the last one.
FullBlocks(p) ==
  LET ends == SelectSeq([n \in 1 .. Size(p) |-> Add(headIndex[p], n - 1)],
                        LAMBDA i : Slot(i) = BLOCK_SIZE - 1 /\ Add(i, 1) # tailIndex[p])
  IN  [n \in DOMAIN ends |-> BlockOf(p, ends[n])]

\* Mutant: the last block is freed only if it is not full.
DestroyProducerPartial(p) ==
  FullBlocks(p) \o (IF tailBlock[p] # Null /\ Slot(tailIndex[p]) # 0
                    THEN <<tailBlock[p]>> ELSE <<>>)

\* The blocks that ~ImplicitProducer frees, in its order.  The last block is still
\* there, unless all of its elements have been dequeued.
DestroyProducer(p) ==
  FullBlocks(p) \o (IF tailBlock[p] # Null /\ (Size(p) # 0 \/ Slot(tailIndex[p]) # 0)
                    THEN <<tailBlock[p]>> ELSE <<>>)

FreedByProducers == FlattenSeq([i \in 1 .. Cardinality(Producers) |-> DestroyProducer(ProducerList[i])])

\* ~ConcurrentQueue: the blocks on the free list are given back to the memory.
Destroy ==
  /\ Quiescent /\ ~Destroyed
  /\ freeList' = freeList \cup Range(FreedByProducers)
  /\ pc' = [t \in Producers \cup Consumers |-> "off"]
  /\ UNCHANGED <<indices, tailBlock, index, memory, initialBlockPoolIndex, allocated, todo, loc>>

Next ==
  \/ Destroy
  \/ \E p \in Producers : Enqueuing(p)
  \/ \E c \in Consumers : Dequeuing(c)

Spec == Init /\ [][Next]_vars

\* A call that has begun is executed.
FairSpec ==
  /\ Spec
  /\ \A p \in Producers : WF_vars(pc[p] # "idle" /\ Enqueuing(p))
  /\ \A c \in Consumers : WF_vars(pc[c] # "idle" /\ Dequeuing(c))
------------------------------------------------------------------------------
(* Properties. *)

Claims(p) == {c \in Consumers : loc[c].ptr = p /\ pc[c] \in {"recheck", "take", "giveback"}}
Granted(p) == {c \in Consumers : loc[c].ptr = p /\ pc[c] = "take"}

\* The optimistic count, less the overcommitted dequeues, is the head and the claims
\* that are under way, and no more claims are granted than there are elements: an
\* index taken from the head is always below the tail, and when no dequeue is under
\* way an element that is there is found.
ClaimsBalanced ==
  \A p \in Producers :
    /\ Add(dequeueOptimisticCount[p], -dequeueOvercommit[p]) = Add(headIndex[p], Cardinality(Claims(p)))
    /\ Cardinality(Granted(p)) <= Size(p)
    /\ Size(p) <= IndexRange \div 2

\* "localBlockIndex->index[idx]->key == index && ...->value != nullptr", which
\* get_block_index_index_for_index asserts: however old the block index and the tail
\* that a consumer has loaded, they lead to the block of its index.
EntryFound ==
  \A c \in Consumers :
    pc[c] = "read" =>
      LET e == entry[loc[c].ptr][loc[c].entry]
      IN  e.key = Base(loc[c].index) /\ e.value # Null

\* The blocks of the pool that have been taken, and the ones that were allocated.
Taken == {b \in 1 .. allocated : b <= initialBlockPoolIndex \/ b > PoolSize}

\* "Even if the queue is empty, there's still one block that's not on the free list
\* (unless the head index reached the end of it ...)": whenever no call is under way
\* the destructors put a block on the free list at most once, one that is not there
\* already, and then every block is on it.
NothingLeaked ==
  /\ Quiescent /\ ~Destroyed =>
       IsInjective(FreedByProducers) /\ Range(FreedByProducers) \cap freeList = {}
  /\ Destroyed => freeList = Taken

\* The element at index i of a producer, as a consumer that takes i now finds it.
At(p, i) == elements[BlockOf(p, i)][Slot(i)]

Hand(c) ==
  CASE pc[c] \in {"header", "position", "key", "read"} -> At(loc[c].ptr, loc[c].index)
    [] pc[c] \in {"empty", "unlink", "release"} -> loc[c].item
    [] OTHER -> Null

Queue == INSTANCE ProducerQueues WITH
  q    <- [p \in Producers |-> IF Destroyed THEN <<>>
                               ELSE [i \in 1 .. Size(p) |-> At(p, Add(headIndex[p], i - 1))]],
  hand <- [c \in Consumers |-> Hand(c)],
  alive <- ~Destroyed,
  None <- Null

\* The queue keeps the order of each producer, hands every element to one consumer
\* and loses none; a failed enqueue has no effect.
ImplementsQueues == Queue!Spec

Calling(c) == pc[c] \notin {"idle", "off"}

\* A consumer that calls try_dequeue again and again finds every element once the
\* others leave it alone, whatever they did before.  (While they do not, two
\* consumers may make each other give back their claims for ever.)
DrainedAlone ==
  \A c \in Consumers :
    []<>Calling(c) /\ <>[](\A d \in Consumers \ {c} : ~Calling(d))
      => []<>(\A p \in Producers : pc[p] # "idle" \/ headIndex[p] = tailIndex[p])
==============================================================================
