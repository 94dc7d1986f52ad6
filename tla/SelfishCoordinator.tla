-------------------------- MODULE SelfishCoordinator --------------------------
(***************************************************************************)
(* The selfish miners of the TinyCoin simulation                           *)
(* (examples/tinycoin/selfish.hpp).  The coordinator keeps the blocks its  *)
(* members mine in a private chain, and publishes or gives up parts of it  *)
(* as the others' blocks arrive.  Workers bring blocks that a member has   *)
(* received, Main lets a member mine and flushes the chain in the end.     *)
(*                                                                         *)
(* The atomic steps are the critical sections of blockchain_mutex (one per *)
(* block of TinyNode::handle_block), the reads of our_head that no mutex   *)
(* protects, and, with m held, the pieces of a critical section of m       *)
(* between two reads of head: the coordinator reads head and lengths       *)
(* without blockchain_mutex while handle_block of other threads moves      *)
(* them.  A read returns the current value; that lengths may be moved in   *)
(* memory during the read is left out, and so are transactions.            *)
(*                                                                         *)
(* A member calls others_block once for every block that is new to it.     *)
(* There may be any number of members, hence any number of calls for a     *)
(* block, and no more is said of the members than whether there are any.   *)
(***************************************************************************)
EXTENDS Integers, Sequences, FiniteSets

CONSTANTS
  Workers,    \* the threads of the engine's pool
  Main,       \* the thread that calls start_message and flush_chain
  MaxBlocks   \* bound: blocks ever mined, by anyone

Threads == Workers \cup {Main}
Genesis == 0
Block == 0 .. MaxBlocks

ASSUME SelfishAssumption ==
  IsFiniteSet(Workers) /\ Main \notin Workers /\ MaxBlocks \in Nat

VARIABLES
  made, parent, ours,        \* the blocks of the network, and the ones the members mined
  members,                   \* whether there are members (they join before the pool runs)
  blockchain, pending_blocks, lengths, head,    \* the coordinator as a TinyNode
  our_chain, published_blocks, our_head, starting_height, blocks_seen,
  pc, item, todo,            \* of a thread, the block it was called with, the blocks it still
                             \* calls handle_block for,
  to_send,                   \*   and the blocks it still publishes
  sent,                      \* how often each block has been handed to the members
  given_up,                  \* the private blocks that have been given up
  cleared,                   \* the threads that wait for m while what they saw is out of date:
                             \*   our_head was reset after on_mined, or starting_height
                             \*   after handle_block
  orphans,                   \* the blocks added to the chain after such a clear
  flushing, fault

network == <<made, parent, ours, members>>
node    == <<blockchain, pending_blocks, lengths, head>>
private == <<our_chain, published_blocks, our_head, starting_height>>
ghosts  == <<given_up, cleared, orphans>>
vars    == <<network, node, private, blocks_seen, pc, item, todo, to_send, sent, ghosts,
             flushing, fault>>

\* starting_height is 0, although the genesis block has length 1.
Init ==
  /\ made = 0 /\ ours = {}
  /\ members \in BOOLEAN
  /\ parent = [b \in Block |-> Genesis]
  /\ blockchain = [b \in Block |-> IF b = Genesis THEN "handled" ELSE "absent"]
  /\ pending_blocks = [b \in Block |-> {}]
  /\ lengths = [b \in Block |-> IF b = Genesis THEN 1 ELSE 0]
  /\ head = Genesis
  /\ our_chain = <<>> /\ published_blocks = 0
  /\ our_head = Genesis /\ starting_height = 0
  /\ blocks_seen = {}
  /\ pc = [t \in Threads |-> "idle"]
  /\ item = [t \in Threads |-> Genesis]
  /\ todo = [t \in Threads |-> {}]
  /\ to_send = [t \in Threads |-> <<>>]
  /\ sent = [b \in Block |-> 0]
  /\ given_up = {} /\ cleared = {} /\ orphans = {}
  /\ flushing = FALSE /\ fault = FALSE

At(t, place) == ~fault /\ pc[t] = place
Goto(t, place) == pc' = [pc EXCEPT ![t] = place]

\* A block that nodes other than the coordinator have.
Public(b) == b <= made /\ (b \in ours => sent[b] > 0)
------------------------------------------------------------------------------
(* The network. *)

OthersMine(p) ==
  /\ ~fault
  /\ made < MaxBlocks
  /\ Public(p)
  /\ made' = made + 1
  /\ parent' = [parent EXCEPT ![made'] = p]
  /\ UNCHANGED <<ours, members, node, private, blocks_seen, pc, item, todo, to_send, sent, ghosts,
                 flushing, fault>>
------------------------------------------------------------------------------
(* TinyNode::handle_block of the coordinator, called by others_block or by *)
(* send_block: the critical section for block b.                           *)

AlreadyHandled(t, b) ==
  /\ blockchain[b] = "handled"
  /\ todo' = [todo EXCEPT ![t] = @ \ {b}]
  /\ UNCHANGED node

WaitForParent(t, b) ==
  /\ blockchain[b] # "handled" /\ blockchain[parent[b]] # "handled"
  /\ blockchain' = [blockchain EXCEPT ![b] = "pending"]
  /\ pending_blocks' = [pending_blocks EXCEPT ![parent[b]] = @ \cup {b}]
  /\ todo' = [todo EXCEPT ![t] = @ \ {b}]
  /\ UNCHANGED <<lengths, head>>

InsertBlock(t, b) ==
  /\ blockchain[b] # "handled" /\ blockchain[parent[b]] = "handled"
  /\ blockchain' = [blockchain EXCEPT ![b] = "handled"]
  /\ lengths' = [lengths EXCEPT ![b] = lengths[parent[b]] + 1]
  /\ head' = IF lengths'[b] > lengths[head] THEN b ELSE head
  /\ todo' = [todo EXCEPT ![t] = (@ \ {b}) \cup pending_blocks[b]]
  /\ pending_blocks' = [pending_blocks EXCEPT ![b] = {}]

\* What t has seen of the coordinator is up to date.
Looked(t) == cleared' = cleared \ {t}

handle_block(t, b) ==
  /\ AlreadyHandled(t, b) \/ WaitForParent(t, b) \/ InsertBlock(t, b)
  /\ Looked(t)
  /\ UNCHANGED <<network, private, blocks_seen, to_send, sent, given_up, orphans, flushing, fault>>

\* A member gets a block that is new to it: on_block calls others_block, which calls
\* handle_block; nothing shared is read or written before that takes the mutex.  A call
\* for a handled block that is a member's or has been seen changes nothing and is left out.
Deliver(t, b) ==
  /\ At(t, "idle")
  /\ members
  /\ b # Genesis /\ Public(b)
  /\ blockchain[b] = "handled" => b \notin ours \cup blocks_seen
  /\ Goto(t, "others")
  /\ item' = [item EXCEPT ![t] = b]
  /\ handle_block(t, b)

\* A further block of the thread.
Handle(t, b) ==
  /\ ~fault /\ b \in todo[t]
  /\ handle_block(t, b)
  /\ UNCHANGED <<pc, item>>
------------------------------------------------------------------------------
(* The private chain.  These run with m held. *)

\* The height that the coordinator takes its branch to have.
Height == starting_height + Len(our_chain) + published_blocks

\* The thread leaves m and publishes the blocks of s: send_block for each.
Send(t, s) ==
  /\ to_send' = [to_send EXCEPT ![t] = s]
  /\ todo' = [todo EXCEPT ![t] = IF s = <<>> THEN {} ELSE {Head(s)}]
  /\ item' = [item EXCEPT ![t] = Genesis]
  /\ Goto(t, IF s = <<>> THEN "idle" ELSE "send")

\* No thread holds m across two steps.
Unlocked == \A t \in Threads : pc[t] \notin {"clear", "height"}

\* clear_chain; the thread then reads head, and publishes the blocks of s when it has
\* left m.
clear_chain(t, s) ==
  /\ our_chain' = <<>>
  /\ published_blocks' = 0
  /\ to_send' = [to_send EXCEPT ![t] = s]
  /\ Goto(t, "clear")
  /\ UNCHANGED <<starting_height, item, todo>>

\* Mutant: the next block is still mined on the chain that is gone.
ReadHeadNever(t) ==
  /\ At(t, "clear")
  /\ Goto(t, "height")
  /\ UNCHANGED <<network, node, private, blocks_seen, item, todo, to_send, sent, ghosts, flushing,
                 fault>>

\* our_head = head
ReadHead(t) ==
  /\ At(t, "clear")
  /\ our_head' = head
  /\ cleared' = cleared \cup {u \in Threads : pc[u] = "mined"}
  /\ Goto(t, "height")
  /\ UNCHANGED <<network, node, our_chain, published_blocks, starting_height, blocks_seen, item, todo,
                 to_send, sent, given_up, orphans, flushing, fault>>

\* starting_height = lengths[head], for what is now the head; the thread leaves m.
ReadHeight(t) ==
  /\ At(t, "height")
  /\ starting_height' = lengths[head]
  /\ Send(t, to_send[t])
  /\ cleared' = cleared \cup {u \in Threads : pc[u] = "others"}
  /\ UNCHANGED <<network, node, our_chain, published_blocks, our_head, blocks_seen, sent, given_up,
                 orphans, flushing, fault>>

\* Mutant: the flushed blocks stay in the private chain.
flush_chain_Keeps(t, chain) ==
  /\ Send(t, chain)
  /\ our_chain' = chain
  /\ UNCHANGED <<published_blocks, starting_height>>

\* flush_chain_, with chain as the private chain: nothing without members.
flush_chain_(t, chain) ==
  \/ members /\ clear_chain(t, chain)
  \/ /\ ~members
     /\ Send(t, <<>>)
     /\ our_chain' = chain
     /\ UNCHANGED <<published_blocks, starting_height>>

\* The first private block is published.
PublishFirst(t) ==
  /\ Send(t, <<Head(our_chain)>>)
  /\ our_chain' = Tail(our_chain)
  /\ published_blocks' = published_blocks + 1
  /\ UNCHANGED <<our_head, starting_height>>

\* others_block returns at once for a member's block and for a block it has seen;
\* a block that is not the head is remembered.
Ignored(t) == item[t] \in ours \/ item[t] \in blocks_seen

\* Mutant: a block that is not the head is treated as if it were.
NotHeadNever(t) == FALSE

NotHead(t) == ~Ignored(t) /\ item[t] # head

IgnoreBlock(t) ==
  /\ At(t, "others") /\ todo[t] = {} /\ Unlocked
  /\ Ignored(t) \/ NotHead(t)
  /\ blocks_seen' = IF Ignored(t) THEN blocks_seen ELSE blocks_seen \cup {item[t]}
  /\ Send(t, <<>>)
  /\ Looked(t)
  /\ UNCHANGED <<network, node, private, sent, given_up, orphans, flushing, fault>>

\* The block is the new head: others_block compares the branches.
NewHead(t) ==
  /\ At(t, "others") /\ todo[t] = {} /\ Unlocked
  /\ ~Ignored(t) /\ ~NotHead(t)
  /\ blocks_seen' = blocks_seen \cup {item[t]}
  /\ UNCHANGED <<network, node, sent, flushing>>

\* Mutant: a tied branch is given up.
GiveUpTied(t) ==
  /\ NewHead(t)
  /\ Height <= lengths[item[t]]
  /\ clear_chain(t, <<>>)
  /\ given_up' = given_up \cup {our_chain[i] : i \in DOMAIN our_chain}
  /\ Looked(t)
  /\ UNCHANGED <<our_head, orphans, fault>>

\* The others have more blocks.
GiveUp(t) ==
  /\ NewHead(t)
  /\ Height < lengths[item[t]]
  /\ clear_chain(t, <<>>)
  /\ given_up' = given_up \cup {our_chain[i] : i \in DOMAIN our_chain}
  /\ Looked(t)
  /\ UNCHANGED <<our_head, orphans, fault>>

\* The branches are tied, or ours leads by more than one.
Publish(t) ==
  /\ NewHead(t)
  /\ Height = lengths[item[t]] \/ Height > lengths[item[t]] + 1
  /\ our_chain # <<>>
  /\ PublishFirst(t)
  /\ Looked(t)
  /\ UNCHANGED <<given_up, orphans, fault>>

\* There is no private block: front() of an empty deque.  The model stops there.
PublishNothing(t) ==
  /\ NewHead(t)
  /\ Height = lengths[item[t]] \/ Height > lengths[item[t]] + 1
  /\ our_chain = <<>>
  /\ fault' = TRUE
  /\ UNCHANGED <<private, item, todo, to_send, pc, ghosts>>

\* Ours leads by one: all of it is published.
PublishAll(t) ==
  /\ NewHead(t)
  /\ Height = lengths[item[t]] + 1
  /\ flush_chain_(t, our_chain)
  /\ Looked(t)
  /\ UNCHANGED <<our_head, given_up, orphans, fault>>
------------------------------------------------------------------------------
(* send_block: after handle_block the members get the block, and call      *)
(* others_block in turn, which finds it handled and of a member.           *)

\* Mutant: only the first block is published.
SentFirst(t) ==
  /\ At(t, "send") /\ todo[t] = {}
  /\ sent' = [sent EXCEPT ![Head(to_send[t])] = @ + 1]
  /\ Send(t, <<>>)
  /\ UNCHANGED <<network, node, private, blocks_seen, ghosts, flushing, fault>>

Sent(t) ==
  /\ At(t, "send") /\ todo[t] = {}
  /\ sent' = [sent EXCEPT ![Head(to_send[t])] = @ + 1]
  /\ Send(t, Tail(to_send[t]))
  /\ UNCHANGED <<network, node, private, blocks_seen, ghosts, flushing, fault>>
------------------------------------------------------------------------------
(* Main. *)

\* on_mined reads our_head without a lock and makes a block.
OnMined ==
  /\ At(Main, "idle") /\ ~flushing
  /\ members
  /\ made < MaxBlocks
  /\ made' = made + 1
  /\ parent' = [parent EXCEPT ![made'] = our_head]
  /\ ours' = ours \cup {made'}
  /\ cleared' = cleared \ {Main}
  /\ item' = [item EXCEPT ![Main] = made']
  /\ Goto(Main, "mined")
  /\ UNCHANGED <<members, node, private, blocks_seen, todo, to_send, sent, given_up, orphans,
                 flushing, fault>>

\* our_block: the block is added; when that makes the branch longer by one and it
\* has more than one block, all of it is published.
OurBlock ==
  /\ At(Main, "mined") /\ Unlocked
  /\ our_head' = item[Main]
  /\ LET chain == Append(our_chain, item[Main])
         won == Height + 1 = lengths[head] + 1 /\ published_blocks + Len(chain) > 1
     IN  \/ /\ won
            /\ flush_chain_(Main, chain)
         \/ /\ ~won
            /\ our_chain' = chain
            /\ Send(Main, <<>>)
            /\ UNCHANGED <<published_blocks, starting_height>>
  /\ orphans' = IF Main \in cleared THEN orphans \cup {item[Main]} ELSE orphans
  /\ Looked(Main)
  /\ UNCHANGED <<network, node, blocks_seen, sent, given_up, flushing, fault>>

\* The last thing Main does with the coordinator.
FlushChain ==
  /\ At(Main, "idle") /\ ~flushing /\ Unlocked
  /\ flushing' = TRUE
  /\ flush_chain_(Main, our_chain)
  /\ UNCHANGED <<network, node, our_head, blocks_seen, sent, ghosts, fault>>

HandleStep(t) ==
  \/ \E b \in Block : Handle(t, b)
  \/ IgnoreBlock(t) \/ GiveUp(t) \/ Publish(t) \/ PublishNothing(t) \/ PublishAll(t)
  \/ ReadHead(t) \/ ReadHeight(t) \/ Sent(t)

MainStep == OnMined \/ OurBlock \/ FlushChain

Next ==
  \/ \E p \in Block : OthersMine(p)
  \/ \E t \in Workers, b \in Block : Deliver(t, b)
  \/ \E t \in Threads : HandleStep(t)
  \/ MainStep

Spec == Init /\ [][Next]_vars

\* A thread that is in a handler goes on, and Main flushes the chain in the end.
FairSpec ==
  /\ Spec
  /\ \A t \in Threads : WF_vars(HandleStep(t))
  /\ WF_vars(OurBlock) /\ WF_vars(FlushChain)
------------------------------------------------------------------------------
(* Properties. *)

\* The private chain is one branch, whatever is published, given up or mined in
\* between: every block's parent is the one before it, our_head is the last, and
\* its base has not been given up, unless the chain was given up between on_mined's
\* read of our_head and our_block.
ChainLinked ==
  /\ \A i \in 2 .. Len(our_chain) : parent[our_chain[i]] = our_chain[i - 1]
  /\ our_chain # <<>> => our_head = our_chain[Len(our_chain)]
  /\ our_chain # <<>> /\ Head(our_chain) \notin orphans => parent[Head(our_chain)] \notin given_up

SequenceSet(s) == {s[i] : i \in DOMAIN s}

\* A member's block is in one place: being added, private, being published by one
\* thread, published, or given up; so it is published at most once.
InOnePlace ==
  \A b \in ours :
      Cardinality({i \in DOMAIN our_chain : our_chain[i] = b})
    + Cardinality({t \in Threads : b \in SequenceSet(to_send[t])})
    + sent[b]
    + (IF b \in given_up THEN 1 ELSE 0)
    + (IF pc[Main] = "mined" /\ item[Main] = b THEN 1 ELSE 0) = 1

\* The front of an empty chain is taken in one way only: starting_height was reset to
\* the length of a head that others_block has not looked at yet, before or while that
\* block's own thread waits for m after its handle_block.  Neither a lead nor a tie
\* that is reached by mining and publishing ever finds the chain empty, although
\* our_head and starting_height may belong to different heads.
FrontAfterRace ==
  fault => /\ published_blocks = 0 /\ starting_height = lengths[head]
           /\ \E t \in cleared : pc[t] = "others" /\ item[t] = head

\* After the final flush every block of the members is published or given up.
AllPublished == <>[](fault \/ \A b \in ours : sent[b] = 1 \/ b \in given_up)

\* The height of a block in the tree of all blocks.
TreeHeight(b) ==
  LET h[c \in Block] == IF c = Genesis THEN 1 ELSE h[parent[c]] + 1 IN h[b]

\* "If the others have more blocks, give up and clear our branch": a private branch
\* is only given up for a block that is higher than its last one.  The exceptions
\* are a chain on an orphan, and the first chain of all, which counts one block
\* less than it has, since starting_height is 0 and the genesis block's length is 1.
GiveUpOnlyBehind ==
  [][\A t \in Threads : GiveUp(t) /\ our_chain # <<>> /\ starting_height > 0 /\ orphans = {} =>
        TreeHeight(our_head) < TreeHeight(item[t])]_vars
==============================================================================
