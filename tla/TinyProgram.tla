------------------------------ MODULE TinyProgram -----------------------------
(***************************************************************************)
(* The TinyCoin simulation program (examples/tinycoin/main.cpp): with what *)
(* NetworkSetup has drawn it builds the nodes of a GraphHardwareManager    *)
(* (include/graph_hwm.hpp), lets nodes mine blocks and make transactions   *)
(* while the pool floods them, waits, stops the pool and computes its      *)
(* statistics from the blockchain of node 0.                               *)
(*                                                                         *)
(* Of the engine the model keeps which messages are queued, which are in a *)
(* worker's hands, and that a worker whose try_dequeue fails sleeps and    *)
(* then leaves if the pool is being stopped, whatever is queued by then.   *)
(* try_dequeue may fail although something is queued, but not where one    *)
(* worker is left.  Of the coordinator of the selfish miners it is only    *)
(* said that it publishes its private chain in order, or gives it up; when *)
(* it does which is SelfishCoordinator.                                    *)
(***************************************************************************)
EXTENDS NetworkSetup, CuckooTable

CONSTANT Workers    \* the number of threads of the pool

ASSUME ProgramAssumption == Workers \in Nat \ {0}

VARIABLES
  miner_weights_ps, role,               \* of the nodes that exist: prefix sums, and their class
  graph,                                \* of each node, the table of its neighbours
  items,                                \* the blocks and transactions made, by id from 1 on
  known, msgs, handling,                \* of each node, what it has; the messages queued and the
                                        \*   ones a worker has taken, as <<item, receiver>>
  napping, left,                        \* how many workers sleep after a failed try_dequeue, and
                                        \*   how many have left
  our_chain, our_head, given_up,        \* the coordinator's private blocks, the block to mine on,
                                        \*   and the blocks given up
  mining,                               \* <<n, p>> while Main is in on_mined of member n, which has
                                        \*   read the head p, <<>> elsewhere
  in_round,                             \* Main still owes the transaction of this round of its loop
  blocks_done, tx_done, status_thread,
  stats

nodes   == <<miner_weights_ps, role, graph>>
chain   == <<our_chain, our_head, given_up>>
workers == <<napping, left>>
traffic == <<items, known, msgs, handling, chain, workers>>
main    == <<mining, in_round, blocks_done, tx_done, status_thread, stats>>
vars    == <<setupVars, nodes, traffic, main>>

Genesis == 0

Init ==
  /\ SetupInit
  /\ miner_weights_ps = <<>> /\ role = <<>> /\ graph = <<>>
  /\ items = <<>>
  /\ known = [n \in Nodes |-> {}]
  /\ msgs = {} /\ handling = {}
  /\ napping = 0 /\ left = 0
  /\ our_chain = <<>> /\ our_head = Genesis /\ given_up = {}
  /\ mining = <<>> /\ in_round = FALSE
  /\ blocks_done = 0 /\ tx_done = 0 /\ status_thread = "running"
  /\ stats = <<>>

Setup == SetupNext /\ UNCHANGED <<nodes, traffic, main>>
------------------------------------------------------------------------------
(* The nodes and their edges. *)

\* The sum of the weights so far.
Weight == IF miner_weights_ps = <<>> THEN 0 ELSE Last(miner_weights_ps)

\* The node with id Len(role) is made: its class, its power, a table without neighbours.
AddNode(class, power) ==
  /\ At("nodes") /\ Len(role) < Size
  /\ role' = Append(role, class)
  /\ miner_weights_ps' = Append(miner_weights_ps, Weight + power)
  /\ graph' = Append(graph, EmptyTable(0))
  /\ UNCHANGED <<cfg, phase, edges, miners, honest_total, selfish_total, fault, traffic, main>>

Id == Len(role)

\* back() and pop_back() of the shuffled powers.
HonestNode ==
  /\ Id \in honest
  /\ \E p \in Support(honest_weights) :
       /\ AddNode("honest", p)
       /\ honest_weights' = [honest_weights EXCEPT ![p] = @ - 1]
  /\ UNCHANGED selfish_weights

SelfishNode ==
  /\ Id \in selfish \ honest
  /\ \E p \in Support(selfish_weights) :
       /\ AddNode("selfish", p)
       /\ selfish_weights' = [selfish_weights EXCEPT ![p] = @ - 1]
  /\ UNCHANGED honest_weights

PlainNode ==
  /\ Id \notin honest \cup selfish
  /\ AddNode("plain", 0)
  /\ UNCHANGED <<honest_weights, selfish_weights>>

\* back() of an empty vector.
NoPowerLeft ==
  /\ At("nodes") /\ Id < Size
  /\ \/ Id \in honest /\ Support(honest_weights) = {}
     \/ Id \in selfish \ honest /\ Support(selfish_weights) = {}
  /\ fault' = "no power"
  /\ UNCHANGED <<cfg, phase, edges, miners, weights, nodes, traffic, main>>

\* cuckoo_hash_set::insert of a key.
Added(k, T) == IF count(k, T) THEN T ELSE insert(k, T)

\* The table of node n is g[n + 1].
add_edge(g, e) ==
  [[g EXCEPT ![e[1] + 1] = Added(e[2], @)] EXCEPT ![e[2] + 1] = Added(e[1], @)]

\* All edges are added, and the pool starts; an edge to a node that does not exist throws.
AddEdges ==
  /\ At("nodes") /\ Id = Size
  /\ IF \A i \in DOMAIN edges : edges[i][1] < Size /\ edges[i][2] < Size
     THEN /\ graph' = FoldLeft(add_edge, graph, edges)
          /\ phase' = "mining"
          /\ UNCHANGED fault
     ELSE fault' = "edge" /\ UNCHANGED <<graph, phase>>
  /\ UNCHANGED <<cfg, edges, miners, weights, miner_weights_ps, role, traffic, main>>

can_send(a, b) == count(b, graph[a + 1])

\* What iter_neighbours visits: the slots that are not empty, with repetitions.
Visited(n) == LET T == graph[n + 1] IN {s \in DOMAIN T.ht : T.ht[s] # Missing}
Neighbours(n) == {graph[n + 1].ht[s] : s \in Visited(n)}
------------------------------------------------------------------------------
(* Blocks and transactions.  An item is forwarded by the node that made it *)
(* and by each node that gets it for the first time.                       *)

Item == 1 .. Len(items)
Block == {i \in Item : items[i].block} \cup {Genesis}
Parent(b) == IF b = Genesis THEN Genesis ELSE items[b].parent
Class(n) == role[n + 1]
Members == {n \in Nodes : Class(n) = "selfish"}

\* A block and its ancestors, recorded with the block.
Branch(b) == IF b = Genesis THEN {Genesis} ELSE items[b].branch
Length(b) == Cardinality(Branch(b))

\* The blocks of s that have been handled, and the longest of them.
Handled(s) == {b \in Block : Branch(b) \subseteq s \cup {Genesis}}
Longest(s) == {b \in Handled(s) : \A c \in Handled(s) : Length(c) <= Length(b)}

Messages(s, n) == {<<i, m>> : i \in s, m \in Neighbours(n)}

\* The nodes of ns have the items of s, and forward them.
Spread(s, ns) ==
  /\ known' = [n \in Nodes |-> IF n \in ns THEN known[n] \cup s ELSE known[n]]
  /\ msgs' = msgs \cup UNION {Messages(s, n) : n \in ns}

NewId == Len(items) + 1
New(block, parent, n) ==
  items' = Append(items, [block |-> block, parent |-> parent, miner |-> n,
                          branch |-> {NewId} \cup Branch(parent)])

\* TinyNode::start_message.
MakeTransaction(n) ==
  /\ New(FALSE, Genesis, n)
  /\ Spread({NewId}, {n})
  /\ UNCHANGED chain

\* MinerPolicy::on_mined.
MineHonestly(n) ==
  /\ \E p \in Longest(known[n]) : New(TRUE, p, n)
  /\ Spread({NewId}, {n})
  /\ UNCHANGED chain

\* What the coordinator's node may have as its head: of a block that a worker brings to a
\* member it may know already.
Heads ==
  LET brought == {m[1] : m \in {k \in handling : Class(k[2]) = "selfish" /\ items[k[1]].block}}
  IN  UNION {Longest(UNION {known[n] : n \in Members} \cup s) : s \in SUBSET brought}

\* Ways the coordinator lets go of blocks of the chain c.  A clear takes as our_head what
\* was the head before the blocks of c are handled.
GiveUp(c) ==
  /\ our_chain' = <<>> /\ our_head' \in Heads
  /\ given_up' = given_up \cup ToSet(c)
  /\ UNCHANGED <<known, msgs>>

PublishAll(c) ==
  /\ our_chain' = <<>> /\ our_head' \in Heads
  /\ Spread(ToSet(c), Members)
  /\ UNCHANGED given_up

PublishFirst(c) ==
  /\ c # <<>>
  /\ our_chain' = Tail(c)
  /\ Spread({Head(c)}, Members)
  /\ UNCHANGED <<our_head, given_up>>

\* Main's loop: choose_weighted and gen_message.  A node that is no miner makes a
\* transaction instead of a block.
MineBlock ==
  /\ At("mining") /\ mining = <<>> /\ blocks_done < cfg.blocks
  /\ \E n \in choose_weighted(miner_weights_ps) :
       \/ Class(n) = "honest" /\ MineHonestly(n)
       \/ Class(n) = "plain" /\ MakeTransaction(n)
  /\ blocks_done' = blocks_done + 1 /\ in_round' = TRUE
  /\ UNCHANGED <<setupVars, nodes, handling, workers, mining, tx_done, status_thread, stats>>

\* SelfishPolicy::on_mined: get_head, without a lock ...
MineSelfishly ==
  /\ At("mining") /\ mining = <<>> /\ blocks_done < cfg.blocks
  /\ \E n \in choose_weighted(miner_weights_ps) : Class(n) = "selfish" /\ mining' = <<n, our_head>>
  /\ UNCHANGED <<setupVars, nodes, traffic, in_round, blocks_done, tx_done, status_thread, stats>>

\* ... and our_block.
OurBlock ==
  /\ At("mining") /\ mining # <<>>
  /\ New(TRUE, mining[2], mining[1])
  /\ \/ /\ our_chain' = Append(our_chain, NewId) /\ our_head' = NewId
        /\ UNCHANGED <<given_up, known, msgs>>
     \/ PublishAll(Append(our_chain, NewId))
  /\ mining' = <<>>
  /\ blocks_done' = blocks_done + 1 /\ in_round' = TRUE
  /\ UNCHANGED <<setupVars, nodes, handling, workers, tx_done, status_thread, stats>>

\* A round of the loop ends with a transaction, also the one that made the last block.
\* From cfg.txs transactions on they are left out.
SendTransaction ==
  /\ At("mining") /\ mining = <<>> /\ (blocks_done < cfg.blocks \/ in_round)
  /\ tx_done < cfg.txs
  /\ \E n \in Nodes : MakeTransaction(n)
  /\ tx_done' = tx_done + 1 /\ in_round' = FALSE
  /\ UNCHANGED <<setupVars, nodes, handling, workers, mining, blocks_done, status_thread, stats>>

Running == phase \in {"mining", "joining", "stopping"} /\ fault = "none"

\* The workers that look for a message.
Looking == Workers - Cardinality(handling) - napping - left

\* A worker takes a message; queued_messages no longer counts it.
Take(m) ==
  /\ Running /\ Looking > 0
  /\ m \in msgs
  /\ msgs' = msgs \ {m}
  /\ handling' = handling \cup {m}
  /\ UNCHANGED <<setupVars, nodes, items, known, chain, workers, main>>

\* try_dequeue finds nothing, also where others take part and something is queued.
Miss ==
  /\ Running /\ Looking > 0
  /\ msgs = {} \/ Workers - left > 1
  /\ napping' = napping + 1
  /\ UNCHANGED <<setupVars, nodes, items, known, msgs, handling, chain, left, main>>

\* After its sleep the worker leaves the pool if that is being stopped.
EndNap ==
  /\ Running /\ napping > 0
  /\ napping' = napping - 1
  /\ left' = IF phase = "stopping" THEN left + 1 ELSE left
  /\ UNCHANGED <<setupVars, nodes, items, known, msgs, handling, chain, main>>

HandleKnown(m) ==
  /\ fault = "none"
  /\ m \in handling /\ m[1] \in known[m[2]]
  /\ handling' = handling \ {m}
  /\ UNCHANGED <<setupVars, nodes, items, known, msgs, chain, workers, main>>

\* Mutant: only miners forward what they get.
HandleNewMiners(m) ==
  /\ fault = "none"
  /\ m \in handling /\ m[1] \notin known[m[2]]
  /\ known' = [known EXCEPT ![m[2]] = @ \cup {m[1]}]
  /\ msgs' = IF Class(m[2]) = "plain" THEN msgs ELSE msgs \cup Messages({m[1]}, m[2])
  /\ handling' = handling \ {m}
  /\ UNCHANGED <<setupVars, nodes, items, chain, workers, main>>

HandleNew(m) ==
  /\ fault = "none"
  /\ m \in handling /\ m[1] \notin known[m[2]]
  /\ Spread({m[1]}, {m[2]})
  /\ handling' = handling \ {m}
  /\ UNCHANGED <<setupVars, nodes, items, chain, workers, main>>

\* A block that is new to a member makes the coordinator publish or give up.
Coordinate ==
  /\ \E m \in handling : Class(m[2]) = "selfish" /\ items[m[1]].block
  /\ fault = "none"
  /\ GiveUp(our_chain) \/ PublishFirst(our_chain) \/ PublishAll(our_chain)
  /\ UNCHANGED <<setupVars, nodes, items, handling, workers, main>>
------------------------------------------------------------------------------
(* The end. *)

\* coord.flush_chain() after the loop, which does nothing without members.
FlushChain ==
  /\ At("mining") /\ mining = <<>> /\ blocks_done = cfg.blocks
  /\ IF Members = {} THEN UNCHANGED <<chain, known, msgs>> ELSE PublishAll(our_chain)
  /\ phase' = "joining"
  /\ UNCHANGED <<cfg, edges, miners, weights, fault, nodes, items, handling, workers, main>>

\* Mutant: the thread waits for one block more.
StatusEndsLate ==
  /\ fault = "none" /\ status_thread = "running"
  /\ phase \in {"mining", "joining"}
  /\ msgs = {} /\ blocks_done > cfg.blocks
  /\ status_thread' = "ended"
  /\ UNCHANGED <<setupVars, nodes, traffic, mining, in_round, blocks_done, tx_done, stats>>

\* The status thread ends when it sees no queued message and all blocks done.
StatusEnds ==
  /\ fault = "none" /\ status_thread = "running"
  /\ phase \in {"mining", "joining"}
  /\ msgs = {} /\ blocks_done >= cfg.blocks
  /\ status_thread' = "ended"
  /\ UNCHANGED <<setupVars, nodes, traffic, mining, in_round, blocks_done, tx_done, stats>>

Join ==
  /\ At("joining") /\ status_thread = "ended"
  /\ phase' = "stopping"
  /\ UNCHANGED <<cfg, edges, miners, weights, fault, nodes, traffic, main>>

\* hwm.stop() waits until the workers have left.
Stop ==
  /\ At("stopping") /\ left = Workers
  /\ phase' = "statistics"
  /\ UNCHANGED <<cfg, edges, miners, weights, fault, nodes, traffic, main>>

\* The entries of node 0's blockchain by their index.  The genesis block is one of them:
\* its id is not 0 but a number that no other block has.
Blocks0 == Sorted(Handled(known[0]), <)

\* Mutant: a block on a split does not make it longer.
CountBlockFlat(m, s, b) ==
  LET off == b \notin m
      split == off /\ (s.num[Parent(b)] > 0 \/ Parent(b) \in m)
      len1 == IF split THEN 1 ELSE 0
      len == IF s.len[Parent(b)] > 0 THEN s.len[Parent(b)] ELSE len1
  IN  [s EXCEPT !.num[Parent(b)] = @ + 1, !.len[b] = len, !.max = Max({@, len1, len}),
                !.splits = IF split THEN @ + 1 ELSE @,
                !.honest = IF ~off /\ items[b].miner \in honest THEN @ + 1 ELSE @,
                !.selfish = IF ~off /\ items[b].miner \in selfish \ honest THEN @ + 1 ELSE @]

\* One round of the loop over the blocks, with the main chain m (without the genesis block).
CountBlock(m, s, b) ==
  LET off == b \notin m
      split == off /\ (s.num[Parent(b)] > 0 \/ Parent(b) \in m)
      len1 == IF split THEN 1 ELSE 0
      len == IF s.len[Parent(b)] > 0 THEN s.len[Parent(b)] + 1 ELSE len1
  IN  [s EXCEPT !.num[Parent(b)] = @ + 1, !.len[b] = len, !.max = Max({@, len1, len}),
                !.splits = IF split THEN @ + 1 ELSE @,
                !.honest = IF ~off /\ items[b].miner \in honest THEN @ + 1 ELSE @,
                !.selfish = IF ~off /\ items[b].miner \in selfish \ honest THEN @ + 1 ELSE @]

\* The main chain is that of the longest block.  A block without its parent has no place in
\* main_chain, which is read at index -2 then.
Statistics ==
  /\ At("statistics")
  /\ IF known[0] \cap Block \subseteq Handled(known[0])
     THEN /\ \E head \in Longest(known[0]) :
               LET zero == [b \in Block |-> 0]
               IN  stats' = [main_chain |-> Branch(head) \ {Genesis}, todo |-> Blocks0, num |-> zero,
                             len |-> zero, splits |-> 0, max |-> 0, honest |-> 0, selfish |-> 0]
          /\ phase' = "counting"
          /\ UNCHANGED fault
     ELSE fault' = "pending" /\ UNCHANGED <<phase, stats>>
  /\ UNCHANGED <<cfg, edges, miners, weights, nodes, traffic, mining, in_round, blocks_done, tx_done,
                 status_thread>>

CountNext ==
  /\ At("counting") /\ stats.todo # <<>>
  /\ stats' = [CountBlock(stats.main_chain, stats, Head(stats.todo)) EXCEPT !.todo = Tail(@)]
  /\ UNCHANGED <<setupVars, nodes, traffic, mining, in_round, blocks_done, tx_done, status_thread>>

Report ==
  /\ At("counting") /\ stats.todo = <<>>
  /\ phase' = "end"
  /\ UNCHANGED <<cfg, edges, miners, weights, fault, nodes, traffic, main>>

Worker == (\E m \in handling : HandleKnown(m) \/ HandleNew(m)) \/ Miss \/ EndNap

Building == HonestNode \/ SelfishNode \/ PlainNode \/ NoPowerLeft \/ AddEdges
Ending == FlushChain \/ Join \/ Stop \/ Statistics \/ CountNext \/ Report

\* The program has ended.
Ended == phase = "end" \/ fault # "none"

Next ==
  \/ Setup \/ Building
  \/ MineBlock \/ MineSelfishly \/ OurBlock \/ SendTransaction
  \/ (\E m \in msgs : Take(m)) \/ Worker \/ Coordinate
  \/ StatusEnds \/ Ending

Spec == Init /\ [][Next]_vars

\* Main's loop goes on, and so do the workers and the status thread; try_dequeue does not
\* miss what is queued for ever.
FairSpec ==
  /\ Spec
  /\ WF_vars(Building) /\ WF_vars(MineBlock \/ MineSelfishly \/ OurBlock) /\ WF_vars(Ending)
  /\ WF_vars(Worker) /\ WF_vars(StatusEnds)
  /\ SF_vars(\E m \in msgs : Take(m))
------------------------------------------------------------------------------
(* Properties. *)

Built == At("mining") /\ items = <<>>

\* The network is the one that was asked for.  Two nodes can send to each other exactly
\* if the generator drew an edge between them, and each is visited once, whatever their
\* tables had to move and however often the edge was drawn.  With randomly chosen
\* miners, not all nodes being one, the nodes get their roles; elsewhere the selfish
\* miners may be excluded in vain, and the powers run out only where every node is to
\* be a miner.
BuiltAsAsked ==
  /\ Built => \A n \in Nodes :
       /\ \A m \in Nodes : can_send(n, m) <=> {n, m} \in Pairs
       /\ Cardinality(Visited(n)) = Cardinality(Neighbours(n))
  /\ Built /\ cfg.algo = "random" /\ cfg.honest + cfg.selfish < Size =>
       /\ Cardinality({n \in Nodes : Class(n) = "honest"}) = cfg.honest
       /\ Cardinality(Members) = cfg.selfish
  /\ fault = "no power" => cfg.honest + cfg.selfish >= Size /\ cfg.selfish > 0

Published == {i \in Item : i \notin given_up \cup ToSet(our_chain)}

\* stop() may leave messages in the queues: the status thread ends while workers and
\* Main still have messages to send, and a worker leaves after one look at the queue that
\* found nothing.  What was not kept back and has not reached a node when the statistics
\* are made is then in a message that was left on its way to a node without it; nothing
\* is missing in any other way.
EveryoneKnows ==
  phase = "statistics" =>
    \A i \in Published : (\A n \in Nodes : i \in known[n]) \/ (\E m \in msgs : m[1] = i /\ i \notin known[m[2]])

\* The distance of a block from the main chain.
OffMain(b) == Cardinality(Branch(b) \ (stats.main_chain \cup {Genesis}))
Children(b) == {c \in Handled(known[0]) \ {Genesis} : Parent(c) = b}

\* The statistics are right for the blocks that node 0 has, whatever the order of their
\* ids: each further child of a block is a split, the longest split is the greatest
\* distance from the main chain, and every block of the main chain is somebody's.  They
\* cannot be made only where node 0 has a block without its parent: that was given up
\* between on_mined's look at the head and our_block, or a message with it was left when
\* the pool stopped.
StatisticsRight ==
  /\ phase = "end" /\ stats # <<>> =>
       /\ stats.splits = MapThenSumSet(LAMBDA b : IF Children(b) = {} THEN 0 ELSE Cardinality(Children(b)) - 1,
                                       Handled(known[0]))
       /\ stats.max = Max({OffMain(b) : b \in Handled(known[0])})
       /\ stats.honest + stats.selfish = Cardinality(stats.main_chain)
  /\ fault = "pending" =>
       \E b \in known[0] \cap Block :
         /\ Parent(b) \notin known[0] \cup {Genesis}
         /\ Parent(b) \in given_up \/ \E m \in msgs : m[1] = Parent(b)

\* From the first node on the program comes to its end.
ProgramEnds == phase = "nodes" ~> Ended
==============================================================================
