# Verification of distributedsim

distributedsim is a multi-threaded simulator of distributed protocols: an engine
that lets a pool of threads deliver messages between simulated nodes, and two
protocols on top of it (a Bitcoin-like currency with honest and selfish miners,
and the Chord overlay). This directory holds TLA+ models of it, TLC
configurations and TLAPS proofs.

## Inventory

| part | source | state | operations | interaction |
|---|---|---|---|---|
| Engine | `include/hardware_manager.hpp` | `nodes` (map id -> node), `nodes_queue` (lock-free queue of ids, called tokens here), `stopping`, `pausing`, `running_threads`, `workers` | `run`, `pause`, `resume`, `stop`, `run_lock`, `add_node`, `fail`, `gen_message`, `send_message`, lookups | worker threads call `Node::handle_one_message`; protocols call back `send_message` |
| Node | `include/node.hpp` | `messages`, `delayed_messages`, the global counters `queued_messages`, `all_messages` | `enqueue`, `handle_one_message`; virtual `handle_message`, `start_message`, `init` | one mutex per node protects its queues, and nothing else |
| Lock-free queue | `include/concurrentqueue.hpp` (vendored) | per producing thread its indices, blocks and block index; a pool and a free list of blocks; a table and a list of the producers | `enqueue`, `try_dequeue`, construction and destruction | shared by all threads; no locks |
| TinyCoin | `protocols/tinycoin.hpp` | `blockchain`, `pending_blocks`, `lengths`, `head`, `balance`, `received_transactions`, `pending_transactions` | `handle_block`, `update_head`, `confirm`, `unconfirm`, `handle_transaction`, `on_mined`, `start_message` | gossip to all neighbours; several threads may run one node |
| Selfish mining | `examples/tinycoin/selfish.hpp` | the coordinator's private chain, `our_head`, `starting_height`, `blocks_seen` | `on_mined`, `on_block`, `others_block`, `our_block`, `flush_chain` | shared by all selfish miners |
| TinyCoin program | `examples/tinycoin/main.cpp` and helpers | counters and the status thread | set-up, mining loop, final statistics | drives the engine |
| Chord | `protocols/chord.hpp`, `examples/chord_hop_distribution.cpp` | finger tables | `init`, `handle_message`, `start_message` | messages along fingers |
| Graph overlay | `include/graph_hwm.hpp` | adjacency lists | `add_node`, `add_edge`, `can_send` | replaces the full mesh |
| Cuckoo hash set | `include/cuckoo.hpp` | table, mask, size | `insert`, `erase`, `count`, `rehash`, `reserve`, `clear` | the graph overlay's sets |
| Generators | `include/rng.hpp`, `include/graph_gen.hpp`, `hashpower.hpp`, `miner_chooser.hpp` | generator state | `get_distinct`, `choose_weighted`, random graphs | set-up only |

The hard behaviours are in the lock-free queue, in the engine, and in the state of the TinyCoin nodes and of the coordinator:
the queue's threads interleave at every atomic access, and reuse what others may still be looking at;
threads interleave between a message and its token, between the end of a pause
and the count of running threads, between the emptiness of the queue and the
end of the pool; blocks and transactions arrive in any order, at several threads
of one node; the coordinator's view and the node's chain differ while blocks are
under way. Nothing is persisted and no node recovers, so there is no crash
recovery to model; `fail` removes a node for good.

What makes each part correct:

* lock-free queue: every producer's elements are handed out once and in order, blocks are neither shared nor lost,
  and a thread always finds its producer;
* engine: no message is stranded without a token; the pause protocol counts every
  thread that touches nodes; every message is handled; `stop` returns;
  `queued_messages` is what it says;
* TinyCoin: the head is a longest handled chain, the blocks a node has handled are
  closed under parents, no block stays pending once its parent is handled, the
  balance is what the chain of the head says, a transaction is confirmed once;
* selfish coordinator: the private chain is one branch that ends in `our_head`; every block of it is published once or given
  up; it is given up only for a longer one;
* Chord: a message reaches the node responsible for it in at most `bits` hops;
* cuckoo set: `count` agrees with the abstract set after any sequence of calls;
* the program: it builds the network that was asked for, loses a published block only in a message that is left in the stopped pool, and counts the splits right.

## Modules

* `NodeQueue`: the queues of one node as three counters (undelayed, delayed and not
  yet due, delayed and due). The engine never looks into a message, so counting is
  all the properties tell apart. The order within a queue is left out.
* `HardwareManager`: the engine. One action per access to shared state: an atomic
  variable, a critical section of a node's mutex, an operation of the lock-free
  queue. `pc` is where a worker is in `workerfun`, `mpc` where Main is in a public
  operation. Main is one thread: the API has no lock of its own and every program of the
  repository calls it from one thread.
  * `send_message` is two actions (`SendMessage`, `PublishToken`): enqueue the message at its
    receiver under the receiver's mutex, then its token. The checks before it either pass or
    throw; a throw is `HandlerThrows` or `MainReturns`. A message lost by the link
    leaves no trace.
  * `nodes_queue` is a bag of tokens. `try_dequeue` may fail at any time (`DequeueFails`):
    the library only promises that the queue is likely to be empty then.
  * `fail` and `add_node` pause through a `run_lock`, change the map, resume; `add_node`
    pauses twice and ends with `init()` of the node. `Erase` turns the pointers of workers at
    that node into `NoNode`; a later use is `UseDestroyedNode`. Changing the map while a worker
    reads it is a data race and may end the process (`RaceOnMap`).
  * `fault` records why the process has died; nothing happens after that.
  * `lost`, `late` and `leftover` are history: how many messages `fail` has destroyed with their node, which workers were about to enter
    the count when the `pause` of a `run_lock` returned, and which ids were on their way to a worker when their node was erased. They make the properties exact:
    `QueuedCounter` is an equality also after `fail`, and `FaultsExplained` names the two ways the process dies, and no third.
  * Preconditions of the API that the model keeps: `run` only when the former
    threads are joined (otherwise `workers.clear()` ends the process) and `stop` only after `run`.
* `MCHardwareManager`: the instance for TLC, with symmetry of workers and node ids.
* `HardwareManagerProofs`: the theorems.

* `TinyNode`: one miner of `protocols/tinycoin.hpp` with the honest policy, run by several workers and
  by Main at the same time: two tokens of one node give it to two workers, and Main makes it mine and spend.
  The atomic steps are the critical sections of `blockchain_mutex`, `transaction_mutex` and `pending_lock`,
  and the reads and writes of `head` and `balance` that no mutex protects.
  * `blockchain[b]` is `absent` (no entry, or id -1), `pending` (id -2) or `handled`. Block 0 is the genesis
    block; it is `handled` although each node gives its own an id, because no message ever carries it.
  * `handle_block` is one step when the head does not move (`AlreadyHandled`, `WaitForParent`,
    `InsertBlock`). When it moves, `BeginUpdate` takes the lock and `EndUpdate` gives it back;
    in between `update_head` confirms and unconfirms block by block, each with a read (`ConfirmNext`, `UnconfirmNext`) and
    a write (`confirm`, `unconfirm`) of `balance`. The recursive calls for the children are the set `todo`,
    handled outside the critical section in any order.
  * `handle_transaction` is `ReceiveTransaction` and `InsertTransaction`, one per mutex. `on_mined` is `Mine`
    (the unprotected read of `head`) and `Collect`; `start_message` is `Spend` and `Pay`.
  * `sent` counts how often a block has been forwarded to all neighbours.
  * The network is an environment: other nodes extend any block they have seen (`OthersMine`), and
    messages arrive in any order, any number of times or never (`DeliverBlock`, `DeliverTransaction`). Blocks mined
    here are known to others once they have been forwarded.
  * Reading a transaction that has not been received is undefined or copies a default transaction; the model
    records it in `fault` and stops there (`CollectUnknown`).
* `MCTinyNode`: the instances for TLC, with symmetry of the workers.
* `TinyNodeProofs`: the theorems about the blocks a node has, its transactions and its balance.
* `BlockTreeProofs`: what the recursive functions on the blocks (chain, height) compute, for both of `TinyNode` and `SelfishCoordinator`; smallest numbers and sets, and powers of two, for all the proofs.

* `ChordRouting`: the routing of `protocols/chord.hpp` as `examples/chord_hop_distribution.cpp` uses it. Nodes are added
  with `gen_id` (which refuses when 4/3 of their number reaches the number of ids), one message is generated at any node for any
  key, and `handle_message` receives it, forwards it along the farthest finger that is not beyond the destination, or throws. A Chord node keeps no
  state but its id, so messages do not interact and following one is enough. `Clockwise`, with which the properties
  are stated, is independent of the code's `distance`.
* `ChordProofs`: its theorems (see below).
* `CuckooTable`: the table of `include/cuckoo.hpp` as pure operators; `insert`, its loop of pushes and `rehash` call each other
  recursively, as in the code. `CuckooHashSet` is a set as a sequence of calls uses it, `AbstractSet` the set it implements.
* `FreeList`, `ImplicitQueue`, `ProducerTable`: the lock-free queue, in three modules that meet at narrow interfaces. In each a step is
  one access to an atomic variable that others may write.
  * `FreeList` is the list of free blocks, with the reference count and its flag in one word. Its nodes are in use by a thread,
    which may add them, or free, and anybody may `try_get` them.
  * `ImplicitQueue` has the producers' `enqueue` and the consumers' `try_dequeue`: the optimistic count and the overcommit, the circular
    block index and its replacement by a larger one, the pool, the free list (here the set of its nodes), failing allocations, and the
    destructors. Index arithmetic is modulo `IndexRange`. `ProducerQueues` is what the queue promises, and what `HardwareManager`
    assumes of it: one first-in-first-out queue per producer.
  * `ProducerTable` is `get_or_add_implicit_producer`: the chain of hash tables, their enlargement and the list of producers. The producers
    that `ImplicitQueue` starts with have been registered this way.
  * `FreeListProofs`, `ImplicitQueueProofs`, `ProducerTableProofs`: the theorems.
* `SelfishCoordinator`: `examples/tinycoin/selfish.hpp`. Several workers bring the others' blocks while Main mines for the members. The
  coordinator is a `TinyNode` with a mutex of its own besides `blockchain_mutex`. It reads `head` without the latter while other threads' `handle_block` moves it: in `others_block`
  (line 67) and twice in `clear_chain` (lines 20 and 21). So `clear_chain` is three steps with `m` held: `clear_chain` empties the chain, `ReadHead` sets `our_head`, `ReadHeight` sets
  `starting_height` from what is the head by then, and leaves `m`; `Unlocked` keeps the other critical sections of `m` out meanwhile. The other steps are the critical sections of the two
  mutexes and the unprotected read of `our_head` in `on_mined`. `Deliver` takes `on_block` to the end of the first critical section of `handle_block`, since nothing shared is touched before.
  `given_up`, `cleared` and `orphans` only record what has happened, for the properties. The code takes
  `front()` of a deque that a race has emptied (`PublishNothing`): the model records the fault and stops.
  `SelfishCoordinatorProofs`: the theorems.
* `Rng`: the results `rng_t` can give, as sets: of a draw, of `get_distinct` (both loops as they are) and of `choose_weighted`.
* `NetworkSetup`: what the TinyCoin program draws first, one action per round of a loop: the graph, the miners, their powers.
* `TinyProgram`, which extends `NetworkSetup` and uses `CuckooTable`: `main` from its configuration to its statistics. It composes the parts: the nodes and edges of
  the graph overlay (the neighbours are in cuckoo tables), nodes that mine and make transactions, messages flooded by the pool, the
  status thread, the final flush, `stop`, and the statistics over the chain of node 0. A handler is one step here; what happens inside one is
  the subject of `TinyNode` and `SelfishCoordinator`.
  * The pool: a worker takes a message (`Take`), handles it (`HandleKnown`, `HandleNew`), or finds none (`Miss`), sleeps, and leaves if the pool is being stopped (`EndNap`). `Miss` may happen although something is queued,
    as long as another worker may be looking. `Stop` waits only until every worker has left, and messages may be left in `msgs` then. The tokens are `HardwareManager`'s.
  * The coordinator publishes a beginning of its chain or all of it, or gives it up; when, is `SelfishCoordinator`. What matters here is which block a member mines on: it reads `our_head` in one step (`MineSelfishly`) and adds its block in another
    (`OurBlock`), and after a clear `our_head` is whatever was the head of the coordinator's node just then (`Heads`), its own flushed blocks not among its ancestors.
  * A round of the loop of `main` ends with a transaction, after the last block too (`in_round`).
  * The statistics go over the entries of node 0's chain one by one (`CountNext`), the genesis entry first: its id is a number like any other, so the code does not skip it.
* The `MC` modules: the instances for TLC.

Operators whose comment begins with "Mutant" are faulty variants of the definition that
follows them; each shows that a property notices that fault.

## Runs

| run | configuration | shows |
|---|---|---|
| `api` | 2 workers, 2 nodes, all operations in any order, 3 messages, 2 calls of `run`, batch 1 | `TokenCover`, `QueuedCounter`, `FaultsExplained`, `PauseGate` |
| `simulation` | 2 workers, 2 nodes and an id without a node, `run`, `gen_message`, `stop`, 2 messages, batch 0, fair | `MessagesHandled`, `StopTerminates` |
| `tiny_chain` | 2 workers, 3 blocks, no transactions, fair | `TreeOK`, `HeadLongest`, `NoneForgotten`, `ForwardOnce`, `BalanceOfChain`, `Connected` |
| `tiny_tx` | 1 worker and Main, 4 blocks, a transaction of the node and one of another | `NoTxLost` |
| `balance_lost_update` | 2 workers, 2 blocks, the node spends | violates `BalanceOfChain` |
| `chord` | a ring of 8, all sets of up to 6 nodes, fair | `AtResponsible`, `Halves`, `DeliveredButForGap` |
| `cuckoo` | 7 keys, masks up to 15 | `Consistent`, `ImplementsSet` |
| `freelist` | 3 threads, 2 blocks, any initial owners, fair | `Exclusive`, `NoneLost`, `LockFree` |
| `queue` | 2 producers, 2 consumers, blocks of 2, indices modulo 16, 3 blocks, 4 workloads, fair | `ClaimsBalanced`, `EntryFound`, `NothingLeaked`, `ImplementsQueues`, `DrainedAlone` |
| `producers` | 3 threads that collide, tables of 2, 4 and 8, one failing allocation, fair | `FreeSlot`, `ListComplete`, `SameProducer`, `CallsEnd` |
| `selfish` | 2 workers and Main, 4 blocks, fair | `ChainLinked`, `InOnePlace`, `FrontAfterRace`, `AllPublished`, `GiveUpOnlyBehind` |
| `program` | 2 workers, 16 configurations of 1 to 5 nodes and 0 to 4 blocks, fair | `GraphConnected`, `BuiltAsAsked`, `EveryoneKnows`, `StatisticsRight`, `ProgramEnds` |

Bounds of the engine. The batch of 128 is 1 or 0 (a worker gives up the node after two messages, or after one), so
three messages, or two, reach a full batch with a message left. Two
workers are enough for two threads at one node, for one working while the other
naps, and for the races of the pause protocol. `MaxMessages` bounds the messages
ever enqueued, `MaxRuns` the calls of `run`. Deadlock is not checked: Main may stop
calling, and a dead process takes no step.

Bounds of TinyNode. `MaxBlocks` counts the blocks ever mined by anyone. Three blocks give a chain of three that arrives
backwards, so that a pending block has a pending parent, and a fork of two branches whose shorter one is overtaken; four give two
branches of two blocks and a reorganisation that unconfirms a block after a tie. Transactions do not interact but through their order in
`Selected`, so one of the node and one of somebody else are enough; `ForeignFirst` keeps the latter out of the others' blocks but the first
one, which bounds the run and still lets a branch with a transaction the node has never received be unconfirmed.
Deadlock is not checked: the network may stop sending.

Bounds of the others. A ring of 8 has room for three different fingers and for every arrangement of gaps; 6 is the
largest number of nodes `gen_id` allows there. The keys of `cuckoo` have up to four low bits in common, so that both
buckets fill up, keys are pushed to and fro and the table grows more than once in one insertion; `MaxMask` only has to admit
the table in which all keys find a place.
Deadlock is not checked in `chord`, where the message's way ends.

Bounds of the queue. Three threads and two blocks reach every place of the free list at which one thread has dropped what another still
holds, with a third between them. In `queue` the first workload has two consumers at one producer whose indices wrap (they start at 14 of 16), the second two consumers
and two producers, the third producers that pass blocks to each other through the free list, the fourth a producer that fills its block index while
a consumer is looking at it. Three blocks of two elements make the memory run out in the third and fourth. `Sampled` is 1 where the code has 3, so that
a producer remains that was not compared. In `producers` two enlargements happen, which a thread may sleep through; `Doublings` bounds one enlargement to a factor of 1024, which
always suffices below `MaxThreads` = 512 threads, and the module assumes fewer. Deadlock is not checked in `queue`, where a
destroyed queue does nothing more.

Bounds of the coordinator and of the program. Four blocks give every relation of the private chain to the others': behind, tied, one and two ahead, and a second
chain after a first one was given up. The model stops where the code takes the front of an empty deque. The configurations of `program` without blocks draw all graphs, miners and
powers of their size; the ones with blocks are small, and between them take every way through the program, its exits on bad configurations included. Two workers let one miss a message because of the other, and leave.
Four blocks of two honest miners give a split of two blocks, three of one selfish miner a block whose parent was given up between `get_head` and `our_block`, two of an honest and a selfish one
the coordinator's answers to a block of somebody else. `txs` bounds the transactions. `selfish` has about 860,000 states, `program` about 400,000, `api` six million.
Deadlock is not checked in either: both come to an end.

Fairness of the engine (`HardwareManager!Fairness`): every worker and Main inside a call keep running (weak fairness:
the operating system schedules every thread, and the waits are polling loops);
the clock reaches every delivery instant; and a worker that polls again and again while
a token is there gets one (strong fairness of `Dequeue`: `try_dequeue` fails spuriously only
while other threads operate on the queue). That Main makes a call is never assumed.

Fairness of TinyNode: a thread that is in a handler goes on. It is strong fairness, because the mutex a thread
needs may be taken again and again; a mutex that is released again and again is obtained in the end. Nothing is
assumed of the network: no block has to arrive and Main does not have to mine.

Fairness of ChordRouting: a message that has been enqueued is handled (`MessagesHandled` of the engine). Nothing
is assumed of Main.

Fairness of the queue. `FreeList` assumes only that some thread runs: `LockFree` must not depend on any one. In `ImplicitQueue` and `ProducerTable` a call that has begun is
executed; nobody has to begin one. `DrainedAlone` has its own hypothesis, that a consumer keeps calling and the others have stopped: while they do not, two consumers
may make each other give back their claims for ever.

Fairness of the coordinator and of the program: threads in a handler go on, Main's loop goes on and flushes the chain in the end, the workers of `program` go on handling, sleeping and leaving, `try_dequeue` does not miss for ever
what is queued (strong fairness of `Take`, as for `Dequeue` of the engine), and the status thread looks at its condition again and again.

### What the code does not do

The run `balance_lost_update` shows that a payment and a confirmed block overwrite each other's change of the balance (`findings` in `PROJECT.json`).
The models reach more that a user of the code should know, where no property forbids it:

* A worker that is about to count itself, after its start or after a pause, works while the pool is paused; `PauseGate` is only about the instant
  at which `pause()` returns.
* Idle workers do not look at `pausing`, so `pause()`, `fail()` and `add_node()` do not return in a pool without messages; a paused worker does not look at `stopping`.
  The example programs never pause a running pool, and the run `simulation` makes their calls.
* The id of a failed node that is left in `nodes_queue` ends the process in `nodes.at`, and its messages stay counted in `queued_messages` (`FaultsExplained`, `QueuedCounter`).
* `stop()` does not drain the queue: a worker leaves after one failed look, which may be caused by another worker, or by a message being sent while it sleeps; and the status thread of the program stops waiting as soon as
  `queued_messages` is 0, while handlers and the final flush still send. A block may then not reach every node before the statistics are made. `EveryoneKnows` says that this is the only way.
* A transaction that arrives after its block stays pending and is mined again, and a reorganisation makes
  transactions pending that the miner has never received (`CollectUnknown`).
* The last Chord finger of a node with no other in the half of the ring before it is the node itself, and the message that it
  should forward is lost; `DeliveredButForGap` shows that this is the only case. The program then waits for ever for all messages.
* The coordinator may take the front of an empty chain, but only after a clear whose last read of `head` found a block that another call of `others_block` has still to compare (`FrontAfterRace`). A chain that is given up between `on_mined`'s look at its head and `our_block` leaves orphans:
  everything mined on them is pending at every node, and the statistics then index past their vectors. The first private chain counts one block less than it has.
* `get_distinct` excludes nothing when all numbers are asked for, and may then return more than the amount: `main` takes powers from an empty vector. With `highdegree` the excluded
  numbers are not sorted. A graph of one node from `gen_barabasi_albert` has an edge to a node that does not exist.
* The splits are counted in the order of the ids, and the count is right for the blocks node 0 has. It is so for children of the genesis block too because the genesis entry, whose id is not 0, is counted as a child of itself first.
* Not in a model: `add_node` of an existing id runs `init()` twice; `count_neighbours` counts from an uninitialised value; `on_mined` reads the vector of transactions while
  another thread may reallocate it, and takes one transaction more than `transactions_per_block`; `reserve` and `clear` of the hash set, which nobody calls, lose its size.

## Theorems

Those of `HardwareManagerProofs` hold for every number of workers and nodes, every batch
size, every set of operations Main uses, from `ManagerAssumption` (finitely many workers, Main is
not one of them, `NoNode` is not an id; the bounds are natural numbers).

* `TypeCorrect`: `Spec => []TypeOK`. `TypeOK` is not inductive: that `Emplace` adds a node id needs
  `CallInv` (Main is in a call exactly at its places there, with an id as argument).
  `TypeInv == TypeOK /\ CallInv` is.
* `RunningThreadsCover`: `Spec => []RunningCovers`. Inductive given `TypeInv`: only the two
  increments and the decrement change the count (`CountedFrame`).
* `PauseGateHolds`: `Spec => PauseGate`, from `RunningCovers`: the step that leaves the spin loop is
  `PauseReturns`, which reads 0.
* `TokensCoverMessages`: `Spec => []TokenCover`. For each node a step either takes nothing away from
  its cover (`QuietFrame`), or moves one message or one token from one place to another
  (`TokenCoverStep`), or leaves the node without messages.
* `CounterExact`: `Spec => []QueuedCounter`. The set of held messages gains one element, loses
  one, loses those of a failed node, which `lost` counts, or stays as it is; its finiteness is part of the invariant.
* `DeathsExplained`: `Spec => []FaultsExplained`. `DeathInv` adds what leads there: an id under way that is not in the map was left over
  (`LeftoverInv`); while Main holds a `run_lock` the pool is paused and only late workers are outside the pause (`LockInv`), because `RunningCovers`
  makes the count 0 only then; and a worker's pointer is to a node of the map unless it is late (`DanglingInv`).

Those of `TinyNodeProofs` hold for every number of workers, blocks and transactions, from `TinyAssumption` (finitely
many workers and transactions, Main is not a worker, the node's own transactions do not go to itself; the numbers are natural).

* `TypeCorrect`: `Spec => []TypeOK`, with `ItemOK` (what a thread was called with, at each place) as the strengthening.
* `Shape`, invariant with the types: blocks that have not been mined are absent, unsent and in nobody's hands, and a
  thread outside `handle_block` has nothing to handle. Without it a new block could change the parent of a handled one.
* `HandledBlocksFormTree` and `HeadIsLongest`: `TreeOK` and `HeadLongest` are inductive together, given `Shape`.
* `NoBlockForgotten`: needs `LockInv`: a thread is in `update_head` exactly when it holds the mutex, and its block is then in
  the tree. A pending block leaves `pending_blocks` only into the `todo` of the thread that handled its parent, and leaves a `todo`
  only when it is handled or waits again.
* `BlocksForwardedOnce`: `ForwardInv` says who may forward what. A worker has the duty to forward a block only if it found
  it absent, and then no other worker has it; a block mined here is forwarded by Main, and reaches a worker only after that.

Those of `FreeListProofs` hold for every number of threads and blocks, from `FreeListAssumption` (finitely many of each; the flag leaves room for one reference of every thread and the list's).
`Exclusive` and `NoneLost` are not inductive; `Inv` is:

* the count below the flag is exact (`CountOK`), a node is in one place (`PlaceOK`), and who adds it has it for himself until it is ready for the list (`AddOK`);
* what a thread has read is still good where it matters (`LocalOK`): at the compare-exchange of the head, the next node that it read is still the next one, because its
  reference keeps the node from being added again; this is the ABA problem, and why the count is needed;
* the list has no circle (`Acyclic`), without which taking the head off would not remove it.

`Listed` is the intersection of the sets that are closed under `next`, so its steps are proved without induction (`ReachStep`, `ReachSame`).
`ExclusiveThroughout` and `NoneLostThroughout` follow from `Inv`.

Those of `ImplicitQueueProofs` hold for every number of producers, consumers, blocks and elements and all sizes that are powers of two, from `ImplicitQueueAssumption`. Its last part, that the range of indices is a multiple of what any block
index leads to, is true of the code's powers of two as long as the block index has fewer entries than there are indices; without it a replaced block index would lead astray when the indices wrap.

The program forgets what the proofs are about, so the module adds history variables (`HSpec`): the indices without their wrapping around, the claims one by one and what became of them, the indices whose elements have been dequeued, and for each entry of a
block index the number of the block it was used for last. They are only written, and no guard looks at them.

The hypothesis `[]Fresh` says that no consumer sleeps, between its load of the overcommit and its second look at the tail, while half of all indices (less the number of consumers) are given back. It is needed: with one producer of five elements, three consumers and indices
modulo 8, TLC finds a claim granted without an element after such a sleep, as a counter that wraps must allow. With the code's 64-bit indices a thread would have to be suspended through 2^63 failed dequeues. Nothing else is assumed of the schedule.

* `ClaimsStayBalanced` (`ClaimsBalanced`), from `QueueInv`. Its heart is `Accounts`: a producer's count is its head, the claims given back and the claims under way; the granted claims are the head and the consumers that may take an index; and `Covered`: below some number
  `m` are all granted claims, and those below `m` that were not given back have elements. A consumer compares with an overcommit that may be old, but it was loaded before its claim was made, so that the claims it counts are below its own (`ClaimAt`).
  `SizeInv` is the room check of `enqueue` extended over the rest of the block, so that the circular comparisons are those of the numbers.
* `EntriesFound` (`EntryFound`), from `IndexInv`. In the `j`-th block index, current or replaced, the entry of block `n` is at position `n` plus a constant modulo its size (`HeaderAt`); entries are reused only for numbers that are larger by the size of the current one, and only when
  their block was dequeued (`EntryAt`); a block with an element that has not been dequeued has its entry (`KeptAt`). So whichever block index and whichever tail a consumer has loaded, the difference of the keys leads it to its block (`HeldAt`).
* `BlocksStayApart`: `OwnerInv`, a part of `IndexInv`. A block that has been taken is on the free list, in one entry, or with the one thread that stores or releases it.
* `QueuesImplemented` (`ImplementsQueues`): the queue implements `ProducerQueues`, step by step, given at least one producer (without any, and without an active consumer, nobody is there to be alive). The mapping reads an element through the current block index; `Mapped` says it in
  numbers that do not wrap: the queue of a producer is `Elem` of its heads up to its tails. An index is `Live` from the moment its element is written until a consumer has read it; a live index has a block in an entry, and the current block index leads there
  (`LiveFound`, from `IndexInv`); no step takes such an entry away (`Kept`) or writes to its cell, since two indices share no cell (`OneCell`, from `OwnerInv`). So an element never changes while it is live (`ProducerElems`, `ConsumerElems`), and `ItemInv` says in addition that it
  is one that was enqueued and that `tailBlock` is the block of the tail's entry. `StoreTail` is then the abstract enqueue, `TakeIndex` the dequeue of the first element, `ReadElement` changes nothing, the last step of `try_dequeue` is the return, and all other steps are hidden.

Those of `ProducerTableProofs` hold for fewer than `MaxThreads` threads, every hash function, every initial size, any number of failures and any bound on the tables, from `ProducerTableAssumption`. The invariant:

* `CountInv`, the heart of `SlotAlwaysFree`. A thread that is copied from an older table is not counted again, and counts are given back, so the number of threads in a table is not
  bounded by the count itself. What is kept is: for every `k`, at most `k` threads got a count of `k` or less or are in a table that takes no larger count than `k`. A new thread gets a count above the number of all
  counted threads, and a thread that goes into a table was among those of that table's room before: by its own count, or by the older and smaller table it is copied from.
* `PlaceInv`: no slot that is probed before a thread's own is empty. With a free slot it follows that the probing stops, at the thread's slot if it has one (`StopFacts`, `HoldingFacts`); that the probes
  reach every slot is `ProbesCover`.
* `OwnInv`: who has a producer, where it is in the tables, and where a thread has none yet; `OneProducerPerThread` is the action property that follows from it.
* `SizeInv`: later tables are larger, and only the thread with the flag adds one.
* `ListInv`, for `NoProducerLost`: the linked producers are closed under `next`, and every closed set has them. A `Link` whose compare-exchange fails writes only to a producer that is not on the list.

The theorems of `TinyNodeProofs` about transactions add to `TinyAssumption` nothing but, for the balance, `Own = {}`.

* `NoTransactionLost`: `Spec => []NoTxLost`. In the middle of `update_head` the confirmed transactions are those of the chain up to the block that was confirmed last, or of the old branch down to
  the one that was unconfirmed last: `TxInv` says so for every place of the walk, and `WalkInv` that the walk's two blocks are at the heights the code assumes. That blocks have earlier parents, so that the chains are finite, is `ParentEarlier`.
* `BalanceIsOfChain`: for a node that does not spend (`Own = {}`: the run `balance_lost_update` shows that it is false for one that does) `Spec => []BalanceOfChain`. `BalanceInv` is the same for
  every place of the walk, and says that the balance a thread has read is not stale when it writes it. The sum over the chain is turned into the size of a set of pairs (`SumIsCells`), about which the library has theorems.

Those of `SelfishCoordinatorProofs` hold for every number of workers and blocks.

* `PublishedOnce` and `OneBranch`: `ChainInv`. `PlaceInv` has the places of a block one by one, `OpenInv` says that what the coordinator has received from others or sent is not in the private chain, and `LinkInv` is `ChainLinked` with
  what it needs of the blocks that Main has in its hands.
* `FrontNeedsRace`: `HeightsInv` adds the heights: `LengthInv` (a handled block's length), `BringInv` (a block the coordinator has is known, or some thread is about to bring it to `others_block`) and `HeightInv` (the published part of the branch is no higher
  than the coordinator's head, or one higher while there is more to publish; with an empty chain it is lower than a head that `others_block` has not seen yet, unless `ReadHeight` has just taken that head's own length while its thread is still to come). The two reads of `head` may find
  different blocks; what the argument needs is only that between the second one and the end of the critical section nothing else happens, and that head never gets lower in between.
* `BranchGivenUpBehind`: the action property `GiveUpOnlyBehind`, from `OurHeight`: `starting_height` and the length of the chain give at least the height of `our_head` in the tree of all blocks, since the second read of `head` finds one that is as long as the first or longer, outside the two exceptions that the property names.

Those of `ChordProofs` hold for every ring, from `ChordAssumption` (ids have at least one bit), and for every set of nodes.

* `FingerFirst`: finger `i` is the first node at least `2^(i-1)` away, or the node itself when there is none. With it `HopHalves`: the finger that the loop takes is at least `2^(i-1)` away and the destination less
  than `2^i`, since otherwise the next finger would not be beyond it either; and a finger that is the node itself is the last one.
* `HopsHalve` (`Spec => Halves`) is `HopHalves` at the one step that moves the message; `LostOnlyAtGap` is the safety part of `DeliveredButForGap`.
* `ReceivedByResponsible` (`Spec => []AtResponsible`): the bound on the hops is not inductive. `WayLeft` is: `2^hops` times the way that is left is less than the ring. A message that still has a way to go has therefore made fewer than `Bits` hops; that
  it makes one at all is `start_message`, which draws no key of its own node.
* The provers know no law of `^`: in `BlockTreeProofs` the powers of two are counted as the subsets of an interval (`PowerCounts`, `PowerStep`), and grow (`PowerGrows`).

The recursive functions on the blocks and the folds over finite sets are reached without induction over data: `BlockTreeProofs` shows from the library's well-founded induction that a set of numbers has a smallest one (`LeastNat`), and a family of
finite sets one without a smaller (`LeastSet`), and looks at the smallest counterexample. That a recursive function exists at all (it is a `CHOOSE`) is shown by giving one: the intersection of the upward-closed sets for a chain, the size of the chain for a height.

Only model-checked:

* the liveness properties (`MessagesHandled`, `StopTerminates`, `Connected`, `LockFree`, `DrainedAlone`, `CallsEnd`, `AllPublished`, `DeliveredButForGap`, `ProgramEnds`), which the prover does not reach;
* the hash set, and with it the program, which uses it for the neighbours: the table's operators are recursive as the code's are, and the prover loses its arithmetic in a module that reaches them;
* `NothingLeaked` of `ImplicitQueue`: what the destructors free is a sequence put together by recursion over sequences (`SelectSeq`, `FlattenSeq`), and says what induction over data would have to show;
* `GraphConnected` of `NetworkSetup`, for the same reason: a graph built edge by edge is connected by induction on its nodes.

## Plan

Done: the engine and its proofs; `TinyNode` and the proofs of its chain invariants; Chord; the hash set; the lock-free queue in three modules with its abstract
specification; the coordinator; the program with the overlay, the generators and the statistics.

The safety properties of the engine, of `TinyNode`, of the free list, of the queue's claims and block indices, of the table of producers, of the coordinator and of Chord are proved, and so is that the queue implements its abstract specification.

Next, proofs: `NothingLeaked`, for which `OwnerInv` and `KeptAt` have what is needed of the blocks; `GraphConnected` of `NetworkSetup`.

## Not modelled

* The queue's explicit producers and tokens, bulk operations, move, swap, thread-exit notification and debugging code: the repository never instantiates them, so they have no states to
  be right or wrong in. This is about half of the source lines of the repository. Memory orders weaker than sequential consistency: TLA+ has no notion of them, and the models say nothing of a missing fence.
* The failure of the very first allocation of a block index, which the code does not handle.
* The coordinator's own transactions; they do not decide what it publishes.
* The random number generator's bits and the distributions: the models take every result that is possible. Floating point: the percentage of the
  powers is an exact fraction.
* The configuration parser, the huge-page allocator, output. See `components` in `PROJECT.json`.
