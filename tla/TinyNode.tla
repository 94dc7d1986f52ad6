------------------------------- MODULE TinyNode -------------------------------
(***************************************************************************)
(* One miner of the TinyCoin protocol (protocols/tinycoin.hpp) with the    *)
(* honest policy, as several threads run it: the engine may give one node  *)
(* to two workers, and Main makes it mine and spend.  The atomic steps are *)
(* the critical sections of its three mutexes, and the accesses to         *)
(* `balance` and `head` that no mutex protects.                            *)
(*                                                                         *)
(* The rest of the network is an environment: it extends any block it has  *)
(* seen with any transactions it knows, and delivers what it has in any    *)
(* order, any number of times.                                             *)
(***************************************************************************)
EXTENDS Integers, FiniteSets, FiniteSetsExt

CONSTANTS
  Workers,      \* the threads of the engine's pool
  Main,         \* the thread that calls start_message
  NoThread,     \* blockchain_mutex is free
  MaxBlocks,    \* bound: blocks ever mined, by anyone
  Tx,           \* bound: the ids of transactions, in the order of their creation
  Own,          \* the transactions this node makes
  ToMe,         \* the transactions that have this node as destination
  PerBlock,     \* MinerPolicy::transactions_per_block
  Reward,       \* block_reward
  TxReward      \* transaction_reward; a transaction's amount is 1

Threads == Workers \cup {Main}

\* Block 0 is the genesis block; the others have the ids of TinyBlock::next_id.
Genesis == 0
Block == 0 .. MaxBlocks

ASSUME TinyAssumption ==
  /\ IsFiniteSet(Workers)
  /\ Main \notin Workers
  /\ NoThread \notin Threads
  /\ MaxBlocks \in Nat /\ PerBlock \in Nat /\ Reward \in Nat /\ TxReward \in Nat
  /\ Tx \subseteq Nat /\ IsFiniteSet(Tx)
  /\ Own \subseteq Tx /\ ToMe \subseteq Tx /\ Own \cap ToMe = {}

VARIABLES
  made, parent, txs, mine, \* the blocks of the whole network: how many there are, the
                           \* parent and the transactions of each, the ones mined here
  blockchain,              \* absent (id -1), pending (id -2) or handled
  pending_blocks,          \* the blocks waiting for a block; a vector in the code, whose order
                           \* and repetitions do not matter: a handled block is not handled again
  lengths, head, balance,  \* balance is counted from the initial one
  received_transactions, pending_transactions,
  lock,                    \* the thread that holds blockchain_mutex
  pc, item,                \* where a thread is, and the block or transaction it was called with
  todo,                    \* the blocks a thread is still to call handle_block for
  fwd,                     \* should_forward of the call of handle_block for item
  blk, up, down,           \* handle_block's block, update_head's new_head and old_head
  loaded,                  \* the value of balance that a thread has read
  spent,                   \* the transactions this node has made
  sent,                    \* how often each block has been forwarded
  fault                    \* an undefined read has happened

network == <<made, parent, txs, mine>>
chain == <<blockchain, pending_blocks, lengths, head>>
money == <<balance, spent>>
pool == <<received_transactions, pending_transactions>>
locals == <<pc, item, todo, fwd, blk, up, down, loaded>>
vars == <<network, chain, money, pool, lock, locals, sent, fault>>

\* A thread's places: in no handler; in handle_block outside its critical section;
\* in update_head, between two blocks and before and after it has read the
\* balance for one; in handle_transaction, before its first and its second
\* critical section; in on_mined; in start_message.
Places == {"idle", "block", "walk", "confirm", "undo", "unconfirm", "tx", "insert",
           "collect", "spend"}

Init ==
  /\ made = 0 /\ mine = {}
  /\ parent = [b \in Block |-> Genesis]
  /\ txs = [b \in Block |-> {}]
  /\ blockchain = [b \in Block |-> IF b = Genesis THEN "handled" ELSE "absent"]
  /\ pending_blocks = [b \in Block |-> {}]
  /\ lengths = [b \in Block |-> IF b = Genesis THEN 1 ELSE 0]
  /\ head = Genesis
  /\ balance = 0 /\ spent = {}
  /\ received_transactions = {} /\ pending_transactions = {}
  /\ lock = NoThread
  /\ pc = [t \in Threads |-> "idle"]
  /\ item = [t \in Threads |-> Genesis]
  /\ todo = [t \in Threads |-> {}]
  /\ fwd = [t \in Threads |-> FALSE]
  /\ blk = [t \in Threads |-> Genesis]
  /\ up = [t \in Threads |-> Genesis]
  /\ down = [t \in Threads |-> Genesis]
  /\ loaded = [t \in Threads |-> 0]
  /\ sent = [b \in Block |-> 0]
  /\ fault = FALSE

At(t, place) == ~fault /\ pc[t] = place
Goto(t, place) == pc' = [pc EXCEPT ![t] = place]

\* The blocks from b down to the genesis block, without the latter.
ChainOf(b) ==
  LET chainTo[c \in Block] == IF c = Genesis THEN {} ELSE chainTo[parent[c]] \cup {c}
  IN  chainTo[b]

\* The transactions in the chain of b.
ChainTxs(b) == UNION {txs[c] : c \in ChainOf(b)}

\* block_value: what a block brings to this node.
block_value(b) ==
  Cardinality(txs[b] \cap ToMe)
    + (IF b \in mine THEN Reward + TxReward * Cardinality(txs[b]) ELSE 0)
------------------------------------------------------------------------------
(* The network. *)

\* A block that other nodes have: mined by one of them, or forwarded to them.
Public(b) == b = Genesis \/ (b <= made /\ (b \notin mine \/ sent[b] > 0))

PublicTx(x) == x \in Own =>
  x \in received_transactions /\ ~(item[Main] = x /\ pc[Main] = "insert")

\* Another node mines a block.
OthersMine(p, X) ==
  /\ ~fault
  /\ made < MaxBlocks
  /\ Public(p)
  /\ \A x \in X : PublicTx(x)
  /\ made' = made + 1
  /\ parent' = [parent EXCEPT ![made'] = p]
  /\ txs' = [txs EXCEPT ![made'] = X]
  /\ UNCHANGED <<mine, chain, money, pool, lock, locals, sent, fault>>

\* A worker gets a block, or a transaction, out of the node's queue.
DeliverBlock(t, b) ==
  /\ At(t, "idle")
  /\ b # Genesis /\ Public(b)
  /\ Goto(t, "block")
  /\ item' = [item EXCEPT ![t] = b]
  /\ todo' = [todo EXCEPT ![t] = {b}]
  /\ UNCHANGED <<fwd, blk, up, down, loaded, network, chain, money, pool, lock, sent, fault>>

DeliverTransaction(t, x) ==
  /\ At(t, "idle")
  /\ PublicTx(x)
  /\ Goto(t, "tx")
  /\ item' = [item EXCEPT ![t] = x]
  /\ UNCHANGED <<todo, fwd, blk, up, down, loaded, network, chain, money, pool, lock, sent, fault>>
------------------------------------------------------------------------------
(* handle_block.  The critical section of blockchain_mutex is one step     *)
(* when the head stays, and ends with EndUpdate when it moves.             *)

Enter(t, b) == At(t, "block") /\ b \in todo[t] /\ lock = NoThread

\* Mutant: a pending block counts as new.
SeenUnhandled(t, b) ==
  fwd' = IF b = item[t] /\ t # Main THEN [fwd EXCEPT ![t] = (blockchain[b] # "handled")] ELSE fwd

\* should_forward, of the block the thread was called with.
Seen(t, b) ==
  fwd' = IF b = item[t] /\ t # Main THEN [fwd EXCEPT ![t] = (blockchain[b] = "absent")] ELSE fwd

\* Mutant: the children are taken out and not handled.
TakeChildrenForgets(t, b) ==
  /\ todo' = [todo EXCEPT ![t] = @ \ {b}]
  /\ pending_blocks' = [pending_blocks EXCEPT ![b] = {}]

\* The children of b are handled next, outside the critical section.
TakeChildren(t, b) ==
  /\ todo' = [todo EXCEPT ![t] = (@ \ {b}) \cup pending_blocks[b]]
  /\ pending_blocks' = [pending_blocks EXCEPT ![b] = {}]

AlreadyHandled(t, b) ==
  /\ Enter(t, b)
  /\ blockchain[b] = "handled"
  /\ Seen(t, b)
  /\ todo' = [todo EXCEPT ![t] = @ \ {b}]
  /\ UNCHANGED <<pc, item, blk, up, down, loaded, network, chain, money, pool, lock, sent, fault>>

\* The parent has not been handled: the block waits for it.
WaitForParent(t, b) ==
  /\ Enter(t, b)
  /\ blockchain[b] # "handled"
  /\ blockchain[parent[b]] # "handled"
  /\ Seen(t, b)
  /\ blockchain' = [blockchain EXCEPT ![b] = "pending"]
  /\ pending_blocks' = [pending_blocks EXCEPT ![parent[b]] = @ \cup {b}]
  /\ todo' = [todo EXCEPT ![t] = @ \ {b}]
  /\ UNCHANGED <<pc, item, blk, up, down, loaded, lengths, head, network, money, pool, lock,
                 sent, fault>>

\* Mutant: only an absent parent is waited for.
InsertOnPending(b) ==
  /\ blockchain[b] # "handled"
  /\ blockchain[parent[b]] # "absent"
  /\ blockchain' = [blockchain EXCEPT ![b] = "handled"]
  /\ lengths' = [lengths EXCEPT ![b] = lengths[parent[b]] + 1]

\* The block becomes part of the tree.
Insert(b) ==
  /\ blockchain[b] # "handled"
  /\ blockchain[parent[b]] = "handled"
  /\ blockchain' = [blockchain EXCEPT ![b] = "handled"]
  /\ lengths' = [lengths EXCEPT ![b] = lengths[parent[b]] + 1]

\* Mutant: the length is not compared with the head's.
InsertBlockKeepsHead(t, b) ==
  /\ Enter(t, b)
  /\ Insert(b)
  /\ Seen(t, b)
  /\ TakeChildren(t, b)
  /\ UNCHANGED <<pc, item, blk, up, down, loaded, head, network, money, pool, lock, sent, fault>>

InsertBlock(t, b) ==
  /\ Enter(t, b)
  /\ Insert(b)
  /\ lengths[parent[b]] + 1 <= lengths[head]
  /\ Seen(t, b)
  /\ TakeChildren(t, b)
  /\ UNCHANGED <<pc, item, blk, up, down, loaded, head, network, money, pool, lock, sent, fault>>

\* Its chain is the longest: update_head begins.
BeginUpdate(t, b) ==
  /\ Enter(t, b)
  /\ Insert(b)
  /\ lengths[parent[b]] + 1 > lengths[head]
  /\ Seen(t, b)
  /\ head' = b
  /\ lock' = t
  /\ Goto(t, "walk")
  /\ blk' = [blk EXCEPT ![t] = b]
  /\ up' = [up EXCEPT ![t] = b]
  /\ down' = [down EXCEPT ![t] = head]
  /\ UNCHANGED <<item, todo, loaded, pending_blocks, network, money, pool, sent, fault>>
------------------------------------------------------------------------------
(* update_head: from the new head down to the length of the old one, then  *)
(* down both branches to their common block.                               *)

ConfirmNext(t) ==
  /\ At(t, "walk")
  /\ up[t] # down[t]
  /\ loaded' = [loaded EXCEPT ![t] = balance]
  /\ Goto(t, "confirm")
  /\ UNCHANGED <<item, todo, fwd, blk, up, down, network, chain, money, pool, lock, sent, fault>>

confirm(t) ==
  /\ At(t, "confirm")
  /\ balance' = loaded[t] + block_value(up[t])
  /\ pending_transactions' = pending_transactions \ txs[up[t]]
  /\ \/ /\ lengths[up[t]] > lengths[down[t]]
        /\ up' = [up EXCEPT ![t] = parent[@]]
        /\ Goto(t, "walk")
     \/ /\ lengths[up[t]] <= lengths[down[t]]
        /\ Goto(t, "undo")
        /\ UNCHANGED up
  /\ UNCHANGED <<item, todo, fwd, blk, down, loaded, network, chain, spent,
                 received_transactions, lock, sent, fault>>

UnconfirmNext(t) ==
  /\ At(t, "undo")
  /\ loaded' = [loaded EXCEPT ![t] = balance]
  /\ Goto(t, "unconfirm")
  /\ UNCHANGED <<item, todo, fwd, blk, up, down, network, chain, money, pool, lock, sent, fault>>

\* Mutant: the transactions of the old branch do not become pending again.
unconfirmForgets(t) ==
  /\ At(t, "unconfirm")
  /\ balance' = loaded[t] - block_value(down[t])
  /\ up' = [up EXCEPT ![t] = parent[@]]
  /\ down' = [down EXCEPT ![t] = parent[@]]
  /\ Goto(t, "walk")
  /\ UNCHANGED <<item, todo, fwd, blk, loaded, network, chain, spent, pool, lock, sent, fault>>

\* Mutant: the value of the old branch is kept.
unconfirmKeepsValue(t) ==
  /\ At(t, "unconfirm")
  /\ balance' = loaded[t]
  /\ pending_transactions' = pending_transactions \cup txs[down[t]]
  /\ up' = [up EXCEPT ![t] = parent[@]]
  /\ down' = [down EXCEPT ![t] = parent[@]]
  /\ Goto(t, "walk")
  /\ UNCHANGED <<item, todo, fwd, blk, loaded, network, chain, spent,
                 received_transactions, lock, sent, fault>>

unconfirm(t) ==
  /\ At(t, "unconfirm")
  /\ balance' = loaded[t] - block_value(down[t])
  /\ pending_transactions' = pending_transactions \cup txs[down[t]]
  /\ up' = [up EXCEPT ![t] = parent[@]]
  /\ down' = [down EXCEPT ![t] = parent[@]]
  /\ Goto(t, "walk")
  /\ UNCHANGED <<item, todo, fwd, blk, loaded, network, chain, spent,
                 received_transactions, lock, sent, fault>>

\* Mutant: handle_block returns after update_head.
EndUpdateReturns(t) ==
  /\ At(t, "walk")
  /\ up[t] = down[t]
  /\ todo' = [todo EXCEPT ![t] = @ \ {blk[t]}]
  /\ lock' = NoThread
  /\ Goto(t, "block")
  /\ UNCHANGED <<item, fwd, blk, up, down, loaded, chain, network, money, pool, sent, fault>>

EndUpdate(t) ==
  /\ At(t, "walk")
  /\ up[t] = down[t]
  /\ TakeChildren(t, blk[t])
  /\ lock' = NoThread
  /\ Goto(t, "block")
  /\ UNCHANGED <<item, fwd, blk, up, down, loaded, blockchain, lengths, head, network, money,
                 pool, sent, fault>>

\* handle_message, or send_block, ends: it forwards the block if it was new.
BlockDone(t) ==
  /\ At(t, "block")
  /\ todo[t] = {}
  /\ sent' = IF fwd[t] THEN [sent EXCEPT ![item[t]] = @ + 1] ELSE sent
  /\ fwd' = [fwd EXCEPT ![t] = FALSE]
  /\ Goto(t, "idle")
  /\ UNCHANGED <<item, todo, blk, up, down, loaded, network, chain, money, pool, lock, fault>>
------------------------------------------------------------------------------
(* handle_transaction: two critical sections, of transaction_mutex and of  *)
(* pending_lock.                                                           *)

ReceiveTransaction(t) ==
  /\ At(t, "tx")
  /\ \/ /\ item[t] \in received_transactions
        /\ Goto(t, "idle")
        /\ UNCHANGED received_transactions
     \/ /\ item[t] \notin received_transactions
        /\ received_transactions' = received_transactions \cup {item[t]}
        /\ Goto(t, "insert")
  /\ UNCHANGED <<item, todo, fwd, blk, up, down, loaded, network, chain, money,
                 pending_transactions, lock, sent, fault>>

InsertTransaction(t) ==
  /\ At(t, "insert")
  /\ pending_transactions' = pending_transactions \cup {item[t]}
  /\ Goto(t, "idle")
  /\ UNCHANGED <<item, todo, fwd, blk, up, down, loaded, network, chain, money,
                 received_transactions, lock, sent, fault>>
------------------------------------------------------------------------------
(* start_message, called by Main. *)

\* on_mined reads head, without the mutex, and makes a block.
Mine ==
  /\ At(Main, "idle")
  /\ made < MaxBlocks
  /\ made' = made + 1
  /\ parent' = [parent EXCEPT ![made'] = head]
  /\ mine' = mine \cup {made'}
  /\ item' = [item EXCEPT ![Main] = made']
  /\ Goto(Main, "collect")
  /\ UNCHANGED <<txs, todo, fwd, blk, up, down, loaded, chain, money, pool, lock, sent, fault>>

\* The pending transactions with the smallest ids, one more than
\* transactions_per_block: the loop tests size() > transactions_per_block.
Selected == {x \in pending_transactions :
               Cardinality({y \in pending_transactions : y < x}) <= PerBlock}

\* It copies them out of received_transactions, and calls send_block.
Collect ==
  /\ At(Main, "collect")
  /\ Selected \subseteq received_transactions
  /\ txs' = [txs EXCEPT ![item[Main]] = Selected]
  /\ todo' = [todo EXCEPT ![Main] = {item[Main]}]
  /\ fwd' = [fwd EXCEPT ![Main] = TRUE]
  /\ Goto(Main, "block")
  /\ UNCHANGED <<item, blk, up, down, loaded, made, parent, mine, chain, money, pool, lock,
                 sent, fault>>

\* For an id that has not been received it reads past the end of the vector,
\* or a default transaction; the model does not go on from there.
CollectUnknown ==
  /\ At(Main, "collect")
  /\ ~(Selected \subseteq received_transactions)
  /\ fault' = TRUE
  /\ UNCHANGED <<network, chain, money, pool, lock, locals, sent>>

\* TinyNode::start_message: balance -= tx.amount, a read and a write.
Spend(x) ==
  /\ At(Main, "idle")
  /\ x \in Own \ spent
  /\ loaded' = [loaded EXCEPT ![Main] = balance]
  /\ item' = [item EXCEPT ![Main] = x]
  /\ Goto(Main, "spend")
  /\ UNCHANGED <<todo, fwd, blk, up, down, network, chain, money, pool, lock, sent, fault>>

Pay ==
  /\ At(Main, "spend")
  /\ balance' = loaded[Main] - 1
  /\ spent' = spent \cup {item[Main]}
  /\ Goto(Main, "tx")
  /\ UNCHANGED <<item, todo, fwd, blk, up, down, loaded, network, chain, pool, lock, sent, fault>>

HandleStep(t) ==
  \/ \E b \in Block : \/ AlreadyHandled(t, b) \/ WaitForParent(t, b)
                      \/ InsertBlock(t, b) \/ BeginUpdate(t, b)
  \/ ConfirmNext(t) \/ confirm(t) \/ UnconfirmNext(t) \/ unconfirm(t) \/ EndUpdate(t)
  \/ BlockDone(t)
  \/ ReceiveTransaction(t) \/ InsertTransaction(t)

MainStep == Mine \/ Collect \/ CollectUnknown \/ Pay \/ \E x \in Tx : Spend(x)

Next ==
  \/ \E p \in Block, X \in SUBSET Tx : OthersMine(p, X)
  \/ \E t \in Workers, b \in Block : DeliverBlock(t, b)
  \/ \E t \in Workers, x \in Tx : DeliverTransaction(t, x)
  \/ \E t \in Threads : HandleStep(t)
  \/ MainStep

Spec == Init /\ [][Next]_vars

\* Every thread that is in a handler goes on; a mutex that is free again and
\* again is obtained.
Fairness ==
  /\ \A t \in Threads : SF_vars(HandleStep(t))
  /\ WF_vars(Collect \/ CollectUnknown \/ Pay)

FairSpec == Spec /\ Fairness
------------------------------------------------------------------------------
(* Properties. *)

\* Type invariant of the node's fields and of the threads' locals.
TypeOK ==
  /\ made \in Block /\ mine \subseteq Block
  /\ parent \in [Block -> Block] /\ txs \in [Block -> SUBSET Tx]
  /\ blockchain \in [Block -> {"absent", "pending", "handled"}]
  /\ pending_blocks \in [Block -> SUBSET Block]
  /\ lengths \in [Block -> Nat] /\ head \in Block
  /\ balance \in Int /\ spent \subseteq Own
  /\ received_transactions \subseteq Tx /\ pending_transactions \subseteq Tx
  /\ lock \in Threads \cup {NoThread}
  /\ pc \in [Threads -> Places]
  /\ item \in [Threads -> Block \cup Tx]
  /\ todo \in [Threads -> SUBSET Block] /\ fwd \in [Threads -> BOOLEAN]
  /\ blk \in [Threads -> Block] /\ up \in [Threads -> Block] /\ down \in [Threads -> Block]
  /\ loaded \in [Threads -> Int]
  /\ sent \in [Block -> Nat]
  /\ fault \in BOOLEAN

\* The handled blocks form a tree: each has a handled parent and the length of
\* its chain, whatever order the blocks arrived in.
TreeOK ==
  \A b \in Block : blockchain[b] = "handled" /\ b # Genesis =>
    blockchain[parent[b]] = "handled" /\ lengths[b] = lengths[parent[b]] + 1

\* The head is a handled block whose chain is as long as any handled one.
HeadLongest ==
  /\ blockchain[head] = "handled"
  /\ \A b \in Block : blockchain[b] = "handled" => lengths[b] <= lengths[head]

\* A pending block is never forgotten: it waits for a parent that has not been
\* handled, or whose handling still holds the mutex, or a thread has taken it
\* out of pending_blocks and will call handle_block for it.
NoneForgotten ==
  \A b \in Block : blockchain[b] = "pending" =>
    \/ /\ b \in pending_blocks[parent[b]]
       /\ \/ blockchain[parent[b]] # "handled"
          \/ lock # NoThread /\ blk[lock] = parent[b]
    \/ \E t \in Threads : b \in todo[t]

\* The balance, counted from the initial one, is what the chain of the head
\* brings, less what was spent, when no thread is in the middle of changing it.
BalanceOfChain ==
  lock = NoThread /\ pc[Main] # "spend" =>
    balance = MapThenSumSet(block_value, ChainOf(head)) - Cardinality(spent)

\* No transaction is lost: one that has been received is pending or confirmed,
\* also after any number of reorganisations.
NoTxLost ==
  lock = NoThread =>
    \A x \in received_transactions :
      \/ x \in pending_transactions \/ x \in ChainTxs(head)
      \/ \E t \in Threads : pc[t] = "insert" /\ item[t] = x

\* A node forwards a block at most once, also when several threads receive it
\* at the same time, or receive it again while it is pending.
ForwardOnce == \A b \in Block : sent[b] <= 1

\* A block whose ancestors have all been received is handled in the end.
Connected ==
  \A b \in Block :
    (\A c \in ChainOf(b) : c <= made /\ blockchain[c] # "absent") ~> blockchain[b] = "handled"

===============================================================================
