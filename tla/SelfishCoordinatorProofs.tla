----------------------- MODULE SelfishCoordinatorProofs -----------------------
(***************************************************************************)
(* Proofs about the selfish miners' coordinator, for every number of       *)
(* threads and blocks.                                                     *)
(***************************************************************************)
EXTENDS SelfishCoordinator, BlockTreeProofs, SequenceTheorems, FiniteSetTheorems, TLAPS

\* Where a thread is.
Place == {"idle", "others", "send", "mined", "clear", "height"}

TypeOK ==
  /\ made \in Block /\ parent \in [Block -> Block] /\ ours \in SUBSET Block
  /\ members \in BOOLEAN
  /\ blockchain \in [Block -> {"absent", "pending", "handled"}]
  /\ pending_blocks \in [Block -> SUBSET Block]
  /\ lengths \in [Block -> Nat] /\ head \in Block
  /\ our_chain \in Seq(Block) /\ published_blocks \in Nat
  /\ our_head \in Block /\ starting_height \in Nat
  /\ blocks_seen \in SUBSET Block
  /\ pc \in [Threads -> Place]
  /\ item \in [Threads -> Block]
  /\ todo \in [Threads -> SUBSET Block]
  /\ to_send \in [Threads -> Seq(Block)]
  /\ sent \in [Block -> Nat]
  /\ given_up \in SUBSET Block /\ orphans \in SUBSET Block /\ cleared \in SUBSET Threads
  /\ flushing \in BOOLEAN /\ fault \in BOOLEAN

\* A thread that holds m, in clear_chain.
Locking(t) == pc[t] \in {"clear", "height"}

\* What a thread has at each place; only Main mines, and only for members, only the
\* others call others_block, and one thread at a time is in clear_chain, where the chain
\* is empty.
PcOK ==
  /\ \A t \in Threads : pc[t] = "send" => to_send[t] # <<>>
  /\ \A t \in Threads : pc[t] \in {"idle", "others", "mined"} => to_send[t] = <<>>
  /\ \A t \in Threads : pc[t] \in {"idle", "mined", "clear", "height"} => todo[t] = {}
  /\ \A t \in Threads : pc[t] = "mined" => t = Main /\ members
  /\ pc[Main] # "others"
  /\ \A t, u \in Threads : Locking(t) /\ Locking(u) => t = u
  /\ (\E t \in Threads : Locking(t)) => our_chain = <<>> /\ published_blocks = 0
------------------------------------------------------------------------------
(* Where a member's block is. *)

Distinct(s) == \A i, j \in DOMAIN s : s[i] = s[j] => i = j

Private(b)    == b \in SequenceSet(our_chain)
Sending(t, b) == b \in SequenceSet(to_send[t])
Mined(b)      == pc[Main] = "mined" /\ item[Main] = b

\* A block has been mined before it is anywhere.
Places(b) ==
  /\ b \in ours => b # Genesis /\ b <= made
  /\ Private(b) \/ Mined(b) \/ b \in given_up \/ sent[b] > 0 \/ (\E t \in Threads : Sending(t, b))
       => b \in ours

\* It is in one place.
OnePlace(b) ==
  /\ Private(b) => ~Mined(b) /\ b \notin given_up /\ sent[b] = 0 /\ \A t \in Threads : ~Sending(t, b)
  /\ Mined(b) => b \notin given_up /\ sent[b] = 0 /\ \A t \in Threads : ~Sending(t, b)
  /\ b \in given_up => sent[b] = 0 /\ \A t \in Threads : ~Sending(t, b)
  /\ sent[b] > 0 => sent[b] = 1 /\ \A t \in Threads : ~Sending(t, b)
  /\ \A t, u \in Threads : Sending(t, b) /\ Sending(u, b) => t = u

\* It is in some place.
SomePlace(b) ==
  b \in ours =>
    Private(b) \/ Mined(b) \/ b \in given_up \/ sent[b] > 0 \/ \E t \in Threads : Sending(t, b)

PlaceInv ==
  /\ Distinct(our_chain)
  /\ \A t \in Threads : Distinct(to_send[t])
  /\ \A b \in Block : Places(b) /\ OnePlace(b) /\ SomePlace(b)
------------------------------------------------------------------------------
(* The coordinator's blocks and the private chain. *)

\* A block that the coordinator's node may have: it has been mined, and if a member
\* mined it, it has left the private chain to be published.
Open(b) == b <= made /\ (b \in ours => sent[b] > 0 \/ \E t \in Threads : Sending(t, b))

OpenInv ==
  /\ \A b \in Block : blockchain[b] # "absent" => Open(b)
  /\ \A t \in Threads : \A b \in todo[t] : Open(b)
  /\ \A p \in Block : \A b \in pending_blocks[p] : Open(b) /\ parent[b] = p
  /\ blockchain[head] = "handled"

\* The private chain hangs together.
LinkInv ==
  /\ \A i \in 2 .. Len(our_chain) : parent[our_chain[i]] = our_chain[i - 1]
  /\ our_chain # <<>> => our_head = our_chain[Len(our_chain)]
  /\ our_chain # <<>> /\ Head(our_chain) \notin orphans => parent[Head(our_chain)] \notin given_up
  /\ our_head <= made /\ ((\A t \in Threads : pc[t] # "clear") => our_head \notin given_up)
  /\ pc[Main] = "mined" /\ Main \notin cleared => parent[item[Main]] = our_head
  /\ pc[Main] = "mined" /\ Main \in cleared => our_chain = <<>>
------------------------------------------------------------------------------
(* The heights. *)

LengthInv ==
  /\ lengths[Genesis] = 1 /\ blockchain[Genesis] = "handled" /\ parent[Genesis] = Genesis
  /\ \A b \in Block \ {Genesis} :
       blockchain[b] = "handled" =>
         blockchain[parent[b]] = "handled" /\ lengths[b] = lengths[parent[b]] + 1
  /\ \A b \in Block : blockchain[b] = "handled" => lengths[b] <= lengths[head]

Known(b) == b \in ours \/ b \in blocks_seen \/ b = Genesis

\* A thread that has been called for b, has brought it to the coordinator, and has
\* still to compare the branches.
Bringing(t, b) == pc[t] = "others" /\ item[t] = b /\ b \notin todo[t] /\ \A c \in todo[t] : parent[c] = b

Settled(b) == Known(b) \/ \E t \in Threads : Bringing(t, b) /\ todo[t] = {}

\* A thread in others_block handles its own block first, and then the blocks that waited
\* for it.  Everything the coordinator has, or is about to handle for another block, is
\* known or a thread brings it.
BringInv ==
  /\ \A t \in Threads : pc[t] = "others" =>
       /\ item[t] # Genesis
       /\ item[t] \in todo[t] => todo[t] = {item[t]}
       /\ item[t] \notin todo[t] /\ todo[t] # {} => blockchain[item[t]] = "handled"
  /\ \A p \in Block : \A b \in pending_blocks[p] : Settled(b)
  /\ \A u \in Threads : \A b \in todo[u] : (pc[u] = "others" /\ item[u] = b) \/ Settled(b)
  /\ Known(head) \/ \E t \in Threads : Bringing(t, head)

\* The height of the published part, when no thread is about to set it.
HeightInv ==
  /\ Unlocked /\ our_chain = <<>> =>
       /\ starting_height + published_blocks <= lengths[head]
       /\ \/ Known(head) \/ starting_height + published_blocks < lengths[head]
          \/ published_blocks = 0 /\ starting_height = lengths[head] /\ \E t \in cleared : Bringing(t, head)
  /\ our_chain # <<>> =>
       starting_height + published_blocks <= lengths[head] + (IF Known(head) THEN 1 ELSE 0)
------------------------------------------------------------------------------
(* Sequences of blocks. *)

\* The empty and the one-element sequence.
LEMMA SeqSmall ==
  /\ SequenceSet(<<>>) = {} /\ Distinct(<<>>) /\ <<>> \in Seq(Block)
  /\ \A b \in Block : SequenceSet(<<b>>) = {b} /\ Distinct(<<b>>) /\ <<b>> \in Seq(Block)
                      /\ <<b>> # <<>> /\ Head(<<b>>) = b
  BY DEF SequenceSet, Distinct

\* The first element, and the others.
LEMMA SeqTail ==
  ASSUME NEW s \in Seq(Block), s # <<>>
  PROVE  /\ Head(s) \in SequenceSet(s) /\ Head(s) \in Block /\ Head(s) = s[1]
         /\ Tail(s) \in Seq(Block)
         /\ Distinct(s) => Distinct(Tail(s)) /\ SequenceSet(Tail(s)) = SequenceSet(s) \ {Head(s)}
  <1>1. Len(s) \in Nat \ {0} /\ DOMAIN s = 1 .. Len(s) /\ Head(s) = s[1] OBVIOUS
  <1>2. Tail(s) \in Seq(Block) /\ Len(Tail(s)) = Len(s) - 1
        /\ \A i \in 1 .. Len(s) - 1 : Tail(s)[i] = s[i + 1]
    OBVIOUS
  <1>3. DOMAIN Tail(s) = 1 .. Len(s) - 1 BY <1>2
  <1>4. 1 \in DOMAIN s BY <1>1
  <1>5. ASSUME Distinct(s) PROVE Distinct(Tail(s))
    BY <1>1, <1>2, <1>3, <1>5 DEF Distinct
  <1>6. ASSUME Distinct(s) PROVE SequenceSet(Tail(s)) = SequenceSet(s) \ {Head(s)}
    <2>1. ASSUME NEW x \in SequenceSet(Tail(s)) PROVE x \in SequenceSet(s) \ {Head(s)}
      <3>1. PICK i \in 1 .. Len(s) - 1 : x = s[i + 1] BY <1>2, <1>3, <2>1 DEF SequenceSet
      <3>2. i + 1 \in DOMAIN s /\ i + 1 # 1 BY <1>1, <3>1
      <3> QED BY <1>1, <1>4, <1>6, <3>1, <3>2 DEF SequenceSet, Distinct
    <2>2. ASSUME NEW x \in SequenceSet(s) \ {Head(s)} PROVE x \in SequenceSet(Tail(s))
      <3>1. PICK i \in DOMAIN s : x = s[i] BY <2>2 DEF SequenceSet
      <3>2. i # 1 BY <1>1, <2>2, <3>1
      <3>3. i - 1 \in DOMAIN Tail(s) /\ Tail(s)[i - 1] = s[i] BY <1>1, <1>2, <1>3, <3>1, <3>2
      <3> QED BY <3>1, <3>3 DEF SequenceSet
    <2> QED BY <2>1, <2>2
  <1> QED BY <1>1, <1>2, <1>4, <1>5, <1>6 DEF SequenceSet

\* One element more.
LEMMA SeqAppend ==
  ASSUME NEW s \in Seq(Block), NEW b \in Block
  PROVE  /\ Append(s, b) \in Seq(Block) /\ Append(s, b) # <<>>
         /\ SequenceSet(Append(s, b)) = SequenceSet(s) \cup {b}
         /\ Distinct(s) /\ b \notin SequenceSet(s) => Distinct(Append(s, b))
  <1>1. /\ Append(s, b) \in Seq(Block) /\ Len(Append(s, b)) = Len(s) + 1 /\ Append(s, b) # <<>>
        /\ Append(s, b)[Len(s) + 1] = b /\ \A i \in 1 .. Len(s) : Append(s, b)[i] = s[i]
    OBVIOUS
  <1>2. /\ DOMAIN s = 1 .. Len(s) /\ Len(s) \in Nat
        /\ DOMAIN Append(s, b) = 1 .. Len(s) + 1 BY <1>1
  <1>3. SequenceSet(Append(s, b)) = SequenceSet(s) \cup {b}
    <2>1. ASSUME NEW x \in SequenceSet(Append(s, b)) PROVE x \in SequenceSet(s) \cup {b}
      <3>1. PICK i \in 1 .. Len(s) + 1 : x = Append(s, b)[i] BY <1>2, <2>1 DEF SequenceSet
      <3> QED BY <1>1, <1>2, <3>1 DEF SequenceSet
    <2>2. ASSUME NEW x \in SequenceSet(s) PROVE x \in SequenceSet(Append(s, b))
      <3>1. PICK i \in 1 .. Len(s) : x = s[i] BY <1>2, <2>2 DEF SequenceSet
      <3> QED BY <1>1, <1>2, <3>1 DEF SequenceSet
    <2>3. b \in SequenceSet(Append(s, b)) BY <1>1, <1>2 DEF SequenceSet
    <2> QED BY <2>1, <2>2, <2>3
  <1>4. ASSUME Distinct(s), b \notin SequenceSet(s) PROVE Distinct(Append(s, b))
    BY <1>1, <1>2, <1>4 DEF Distinct, SequenceSet
  <1> QED BY <1>1, <1>3, <1>4
------------------------------------------------------------------------------
(* Types. *)

\* The constants' facts.
LEMMA BlockFacts ==
  /\ MaxBlocks \in Nat /\ Genesis \in Block /\ Main \in Threads /\ Workers \subseteq Threads
  /\ Block \subseteq Nat /\ Main \notin Workers
  BY SelfishAssumption DEF Block, Genesis, Threads

\* The thread's variables after it leaves m with the blocks of s to publish.
LEMMA SendFacts ==
  ASSUME TypeOK, NEW t \in Threads, NEW s \in Seq(Block), Send(t, s)
  PROVE  /\ pc' \in [Threads -> Place]
         /\ item' \in [Threads -> Block] /\ todo' \in [Threads -> SUBSET Block]
         /\ to_send' \in [Threads -> Seq(Block)]
         /\ to_send'[t] = s /\ todo'[t] = (IF s = <<>> THEN {} ELSE {Head(s)})
         /\ pc'[t] = (IF s = <<>> THEN "idle" ELSE "send")
         /\ \A u \in Threads \ {t} : /\ pc'[u] = pc[u] /\ item'[u] = item[u]
                                     /\ todo'[u] = todo[u] /\ to_send'[u] = to_send[u]
  <1>1. s # <<>> => Head(s) \in Block BY SeqTail
  <1> QED BY <1>1, BlockFacts DEF TypeOK, Send, Goto, Place

\* The thread's variables when it has emptied the chain and still holds m.
LEMMA ClearFacts ==
  ASSUME TypeOK, NEW t \in Threads, NEW s \in Seq(Block), clear_chain(t, s)
  PROVE  /\ pc' \in [Threads -> Place] /\ to_send' \in [Threads -> Seq(Block)]
         /\ to_send'[t] = s /\ pc'[t] = "clear"
         /\ \A u \in Threads \ {t} : pc'[u] = pc[u] /\ to_send'[u] = to_send[u]
         /\ item' = item /\ todo' = todo
         /\ our_chain' = <<>> /\ published_blocks' = 0 /\ starting_height' = starting_height
  BY DEF TypeOK, clear_chain, Goto, Place

\* Unlocked, no thread is in clear_chain.
LEMMA UnlockedIs == Unlocked <=> \A t \in Threads : ~Locking(t)
  BY DEF Unlocked, Locking

\* Leaving m keeps what a thread has at each place.
LEMMA SendPc ==
  ASSUME TypeOK, PcOK, NEW t \in Threads, NEW s \in Seq(Block), Send(t, s), members' = members,
         Unlocked \/ UNCHANGED <<our_chain, published_blocks>>
  PROVE  PcOK'
  <1>1. \A u \in Threads : Locking(u)' => u # t /\ Locking(u) BY SendFacts DEF Locking
  <1>2. (\E u \in Threads : Locking(u)') => our_chain' = <<>> /\ published_blocks' = 0
    BY <1>1, UnlockedIs DEF PcOK
  <1>3. CASE s = <<>> BY <1>1, <1>2, <1>3, SendFacts, BlockFacts DEF PcOK
  <1>4. CASE s # <<>> BY <1>1, <1>2, <1>4, SendFacts, BlockFacts DEF PcOK
  <1> QED BY <1>3, <1>4

\* So does emptying the chain.
LEMMA ClearPc ==
  ASSUME TypeOK, PcOK, Unlocked, NEW t \in Threads, NEW s \in Seq(Block), clear_chain(t, s),
         todo[t] = {}, members' = members
  PROVE  PcOK'
  <1>1. \A u \in Threads : Locking(u)' => u = t BY ClearFacts, UnlockedIs DEF Locking
  <1> QED BY <1>1, ClearFacts, BlockFacts DEF PcOK

\* The types of the private chain's variables.
PrivateType ==
  /\ our_chain \in Seq(Block) /\ published_blocks \in Nat
  /\ our_head \in Block /\ starting_height \in Nat /\ cleared \in SUBSET Threads

\* flush_chain_ empties the chain or leaves it as it is.
LEMMA FlushLeaves ==
  ASSUME NEW t, NEW chain \in Seq(Block), flush_chain_(t, chain)
  PROVE  \/ clear_chain(t, chain)
         \/ Send(t, <<>>) /\ our_chain' = chain /\ UNCHANGED <<published_blocks, starting_height>>
  BY DEF flush_chain_

\* The publication of the first block keeps the types.
LEMMA PublishFirstType ==
  ASSUME TypeOK, NEW t, our_chain # <<>>, PublishFirst(t)
  PROVE  /\ our_chain' \in Seq(Block) /\ published_blocks' \in Nat
         /\ UNCHANGED <<our_head, starting_height>>
         /\ <<Head(our_chain)>> \in Seq(Block) /\ Send(t, <<Head(our_chain)>>)
  <1>1. Head(our_chain) \in Block /\ Tail(our_chain) \in Seq(Block) BY SeqTail DEF TypeOK
  <1>2. <<Head(our_chain)>> \in Seq(Block) BY <1>1, SeqSmall
  <1> QED BY <1>1, <1>2 DEF PublishFirst, TypeOK

\* A critical section of handle_block.
Handles(t, b) == (t \in Workers /\ Deliver(t, b)) \/ Handle(t, b)

\* The actions.
LEMMA Steps ==
  ASSUME [Next]_vars
  PROVE  \/ \E p \in Block : OthersMine(p)
         \/ \E t \in Threads : \E b \in Block : Handles(t, b)
         \/ \E t \in Threads : \/ IgnoreBlock(t) \/ GiveUp(t) \/ Publish(t) \/ PublishNothing(t)
                               \/ PublishAll(t) \/ ReadHead(t) \/ ReadHeight(t) \/ Sent(t)
         \/ OnMined \/ OurBlock \/ FlushChain \/ UNCHANGED vars
  BY BlockFacts DEF Next, HandleStep, MainStep, Handles

\* The steps of handle_block, with what they share.
LEMMA HandleFacts ==
  ASSUME TypeOK, PcOK, NEW t \in Threads, NEW b \in Block, Handles(t, b)
  PROVE  /\ AlreadyHandled(t, b) \/ WaitForParent(t, b) \/ InsertBlock(t, b)
         /\ cleared' = cleared \ {t}
         /\ UNCHANGED <<made, parent, ours, members, our_chain, published_blocks, our_head,
                        starting_height, blocks_seen, to_send, sent, given_up, orphans, flushing, fault>>
         /\ ~fault
         /\ \A u \in Threads \ {t} : pc'[u] = pc[u] /\ item'[u] = item[u] /\ todo'[u] = todo[u]
         /\ \/ b \in todo[t] /\ pc' = pc /\ item' = item
            \/ /\ pc[t] = "idle" /\ todo[t] = {} /\ t # Main /\ b # Genesis /\ Public(b)
               /\ pc'[t] = "others" /\ item'[t] = b
         /\ pc' \in [Threads -> Place] /\ item' \in [Threads -> Block]
         /\ pc'[Main] = pc[Main] /\ item'[Main] = item[Main]
         /\ \A u \in Threads : pc'[u] # pc[u] => pc[u] = "idle" /\ pc'[u] = "others" /\ u # Main
  <1>0. Main \in Threads /\ Main \notin Workers BY BlockFacts
  <1>1. handle_block(t, b) /\ ~fault BY DEF Handles, Deliver, Handle, At
  <1>2. /\ AlreadyHandled(t, b) \/ WaitForParent(t, b) \/ InsertBlock(t, b)
        /\ cleared' = cleared \ {t}
        /\ UNCHANGED <<made, parent, ours, members, our_chain, published_blocks, our_head,
                       starting_height, blocks_seen, to_send, sent, given_up, orphans, flushing, fault>>
    BY <1>1 DEF handle_block, Looked, network, private
  <1>3. \A u \in Threads \ {t} : todo'[u] = todo[u]
    BY <1>2 DEF AlreadyHandled, WaitForParent, InsertBlock, TypeOK
  <1>4. CASE Handle(t, b)
    <2>1. b \in todo[t] /\ pc' = pc /\ item' = item BY <1>4 DEF Handle
    <2> QED BY <1>0, <1>1, <1>2, <1>3, <2>1 DEF TypeOK
  <1>5. CASE Deliver(t, b) /\ t \in Workers
    <2>1. pc[t] = "idle" /\ b # Genesis /\ Public(b) /\ pc' = [pc EXCEPT ![t] = "others"]
          /\ item' = [item EXCEPT ![t] = b]
      BY <1>5 DEF Deliver, At, Goto
    <2>2. todo[t] = {} /\ t # Main BY <1>0, <1>5, <2>1 DEF PcOK
    <2>3. pc'[t] = "others" /\ item'[t] = b /\ pc' \in [Threads -> Place] /\ item' \in [Threads -> Block]
      BY <2>1 DEF TypeOK, Place
    <2>4. \A u \in Threads \ {t} : pc'[u] = pc[u] /\ item'[u] = item[u] BY <2>1 DEF TypeOK
    <2> QED BY <1>0, <1>1, <1>2, <1>3, <2>1, <2>2, <2>3, <2>4
  <1> QED BY <1>4, <1>5 DEF Handles

\* The node's variables and the blocks to handle keep their types.
LEMMA HandleType ==
  ASSUME TypeOK, NEW t \in Threads, NEW b \in Block,
         AlreadyHandled(t, b) \/ WaitForParent(t, b) \/ InsertBlock(t, b)
  PROVE  /\ lengths' \in [Block -> Nat] /\ head' \in Block
         /\ todo' \in [Threads -> SUBSET Block] /\ pending_blocks' \in [Block -> SUBSET Block]
         /\ blockchain' \in [Block -> {"absent", "pending", "handled"}]
  <1>1. CASE AlreadyHandled(t, b) BY <1>1 DEF AlreadyHandled, node, TypeOK
  <1>2. CASE WaitForParent(t, b) BY <1>2 DEF WaitForParent, TypeOK
  <1>3. CASE InsertBlock(t, b)
    <2>0. parent[b] \in Block /\ lengths[parent[b]] + 1 \in Nat BY DEF TypeOK
    <2>a. lengths' = [lengths EXCEPT ![b] = lengths[parent[b]] + 1] BY <1>3 DEF InsertBlock
    <2>b. lengths' \in [Block -> Nat] BY <2>0, <2>a DEF TypeOK
    <2>c. head' \in Block BY <1>3 DEF InsertBlock, TypeOK
    <2>1. lengths' \in [Block -> Nat] /\ head' \in Block BY <2>b, <2>c
    <2>2. todo' \in [Threads -> SUBSET Block] /\ pending_blocks' \in [Block -> SUBSET Block]
          /\ blockchain' \in [Block -> {"absent", "pending", "handled"}]
      BY <1>3 DEF InsertBlock, TypeOK
    <2> QED BY <2>1, <2>2
  <1> QED BY <1>1, <1>2, <1>3

\* handle_block keeps the types and what a thread has at each place.
LEMMA HandleTypes ==
  ASSUME TypeOK, PcOK, NEW t \in Threads, NEW b \in Block, Handles(t, b)
  PROVE  TypeOK' /\ PcOK'
  <1>1. AlreadyHandled(t, b) \/ WaitForParent(t, b) \/ InsertBlock(t, b) BY HandleFacts
  <1>2. TypeOK'
    <2>1. /\ lengths' \in [Block -> Nat] /\ head' \in Block
          /\ todo' \in [Threads -> SUBSET Block] /\ pending_blocks' \in [Block -> SUBSET Block]
          /\ blockchain' \in [Block -> {"absent", "pending", "handled"}]
      BY <1>1, HandleType
    <2>2. /\ UNCHANGED <<made, parent, ours, members, our_chain, published_blocks, our_head,
                         starting_height, blocks_seen, to_send, sent, given_up, orphans, flushing, fault>>
          /\ pc' \in [Threads -> Place] /\ item' \in [Threads -> Block] /\ cleared' \subseteq cleared
      BY HandleFacts
    <2> QED BY <2>1, <2>2 DEF TypeOK
  <1>3. \A u \in Threads : Locking(u)' <=> Locking(u) BY HandleFacts DEF Locking
  <1>4. ASSUME NEW u \in Threads, pc'[u] \in {"idle", "mined", "clear", "height"} PROVE todo'[u] = {}
    <2>1. pc[u] = pc'[u] BY <1>4, HandleFacts
    <2>2. todo[u] = {} BY <1>4, <2>1 DEF PcOK
    <2>3. u # t BY <2>1, <2>2, <1>4, HandleFacts
    <2> QED BY <2>2, <2>3, HandleFacts
  <1>5. \A u \in Threads : /\ pc'[u] = "send" => to_send'[u] # <<>>
                           /\ pc'[u] \in {"idle", "others", "mined"} => to_send'[u] = <<>>
                           /\ pc'[u] = "mined" => u = Main /\ members'
    BY HandleFacts DEF PcOK
  <1>6. pc'[Main] # "others" BY HandleFacts DEF PcOK
  <1>7. /\ \A u, v \in Threads : Locking(u)' /\ Locking(v)' => u = v
        /\ (\E u \in Threads : Locking(u)') => our_chain' = <<>> /\ published_blocks' = 0
    BY <1>3, HandleFacts DEF PcOK
  <1> QED BY <1>2, <1>4, <1>5, <1>6, <1>7 DEF PcOK

\* Every step keeps the types and what a thread has at each place.
LEMMA TypeStep == TypeOK /\ PcOK /\ [Next]_vars => TypeOK' /\ PcOK'
  <1> SUFFICES ASSUME TypeOK, PcOK, [Next]_vars PROVE TypeOK' /\ PcOK' OBVIOUS
  <1>0. <<>> \in Seq(Block) BY SeqSmall
  <1>a. ASSUME NEW t \in Threads, NEW s \in Seq(Block), Send(t, s), PrivateType',
               Unlocked \/ UNCHANGED <<our_chain, published_blocks>>,
               UNCHANGED <<network, node>>, blocks_seen' \in SUBSET Block, sent' \in [Block -> Nat],
               given_up' \in SUBSET Block, orphans' \in SUBSET Block, flushing' \in BOOLEAN,
               fault' = fault
        PROVE  TypeOK' /\ PcOK'
    <2>1. PcOK' BY <1>a, SendPc DEF network
    <2>2. /\ pc' \in [Threads -> Place]
          /\ item' \in [Threads -> Block] /\ todo' \in [Threads -> SUBSET Block]
          /\ to_send' \in [Threads -> Seq(Block)]
      BY <1>a, SendFacts
    <2> QED BY <1>a, <2>1, <2>2 DEF TypeOK, network, node, PrivateType
  <1>b. ASSUME NEW t \in Threads, NEW s \in Seq(Block), clear_chain(t, s), Unlocked, todo[t] = {},
               our_head' \in Block, cleared' \in SUBSET Threads,
               UNCHANGED <<network, node>>, blocks_seen' \in SUBSET Block, sent' \in [Block -> Nat],
               given_up' \in SUBSET Block, orphans' \in SUBSET Block, flushing' \in BOOLEAN,
               fault' = fault
        PROVE  TypeOK' /\ PcOK'
    <2>1. PcOK' BY <1>b, ClearPc DEF network
    <2>2. /\ pc' \in [Threads -> Place] /\ item' = item /\ todo' = todo
          /\ to_send' \in [Threads -> Seq(Block)] /\ our_chain' \in Seq(Block)
          /\ published_blocks' \in Nat /\ starting_height' \in Nat
      <3>1. /\ pc' \in [Threads -> Place] /\ item' = item /\ todo' = todo
            /\ to_send' \in [Threads -> Seq(Block)]
            /\ our_chain' = <<>> /\ published_blocks' = 0 /\ starting_height' = starting_height
        BY <1>b, ClearFacts
      <3> QED BY <1>0, <3>1 DEF TypeOK
    <2> QED BY <1>b, <2>1, <2>2 DEF TypeOK, network, node
  <1>1. ASSUME NEW p \in Block, OthersMine(p) PROVE TypeOK' /\ PcOK'
    <2>1. made' \in Block BY <1>1, BlockFacts DEF OthersMine, TypeOK, Block
    <2>2. parent' \in [Block -> Block] BY <1>1, <2>1 DEF OthersMine, TypeOK
    <2> QED BY <1>1, <2>1, <2>2 DEF OthersMine, TypeOK, PcOK, Locking, node, private, ghosts
  <1>3. ASSUME NEW t \in Threads, NEW b \in Block, Handles(t, b) PROVE TypeOK' /\ PcOK'
    BY <1>3, HandleTypes
  <1>4. ASSUME NEW t \in Threads, ReadHead(t) PROVE TypeOK' /\ PcOK'
    <2>1. pc[t] = "clear" /\ pc' = [pc EXCEPT ![t] = "height"] BY <1>4 DEF ReadHead, At, Goto
    <2>2. pc' \in [Threads -> Place] /\ cleared' \in SUBSET Threads /\ our_head' \in Block
      BY <1>4, <2>1 DEF ReadHead, TypeOK, Place
    <2>3. TypeOK' BY <1>4, <2>2 DEF ReadHead, TypeOK, network, node
    <2>4. \A u \in Threads : Locking(u)' <=> Locking(u) BY <2>1 DEF Locking, TypeOK
    <2>5. \A u \in Threads \ {t} : pc'[u] = pc[u] BY <2>1 DEF TypeOK
    <2>6. pc'[t] = "height" /\ todo[t] = {} BY <2>1 DEF TypeOK, PcOK
    <2>7. UNCHANGED <<to_send, todo, members, our_chain, published_blocks>>
      BY <1>4 DEF ReadHead, network
    <2> QED BY <2>3, <2>4, <2>5, <2>6, <2>7, BlockFacts DEF PcOK
  <1>5. ASSUME NEW t \in Threads, ReadHeight(t) PROVE TypeOK' /\ PcOK'
    <2>1. PrivateType' BY <1>5 DEF ReadHeight, TypeOK, PrivateType
    <2>2. to_send[t] \in Seq(Block) BY DEF TypeOK
    <2> QED BY <1>5, <1>a, <2>1, <2>2 DEF ReadHeight, TypeOK
  <1>6. ASSUME NEW t \in Threads, IgnoreBlock(t) PROVE TypeOK' /\ PcOK'
    <2>1. blocks_seen' \in SUBSET Block BY <1>6 DEF IgnoreBlock, TypeOK
    <2> QED BY <1>0, <1>6, <1>a, <2>1 DEF IgnoreBlock, Looked, TypeOK, private, PrivateType
  <1>7. ASSUME NEW t \in Threads, GiveUp(t) PROVE TypeOK' /\ PcOK'
    <2>1. blocks_seen' \in SUBSET Block BY <1>7 DEF GiveUp, NewHead, TypeOK
    <2>2. given_up' \in SUBSET Block BY <1>7 DEF GiveUp, TypeOK
    <2> QED BY <1>0, <1>7, <1>b, <2>1, <2>2 DEF GiveUp, NewHead, Looked, TypeOK
  <1>8. ASSUME NEW t \in Threads, Publish(t) PROVE TypeOK' /\ PcOK'
    <2>1. blocks_seen' \in SUBSET Block BY <1>8 DEF Publish, NewHead, TypeOK
    <2>2. PrivateType' /\ \E s \in Seq(Block) : Send(t, s)
      BY <1>8, PublishFirstType DEF Publish, Looked, PrivateType, TypeOK
    <2> QED BY <1>8, <1>a, <2>1, <2>2 DEF Publish, NewHead, TypeOK
  <1>9. ASSUME NEW t \in Threads, PublishNothing(t) PROVE TypeOK' /\ PcOK'
    <2>1. blocks_seen' \in SUBSET Block BY <1>9 DEF PublishNothing, NewHead, TypeOK
    <2> QED BY <1>9, <2>1 DEF PublishNothing, NewHead, TypeOK, PcOK, Locking, network, node, private, ghosts
  <1>c. ASSUME NEW t \in Threads, NEW chain \in Seq(Block), flush_chain_(t, chain), Unlocked, todo[t] = {},
               our_head' \in Block, cleared' \in SUBSET Threads,
               UNCHANGED <<network, node>>, blocks_seen' \in SUBSET Block, sent' = sent,
               given_up' = given_up, orphans' \in SUBSET Block, flushing' \in BOOLEAN, fault' = fault
        PROVE  TypeOK' /\ PcOK'
    <2>1. CASE clear_chain(t, chain) BY <1>b, <1>c, <2>1 DEF TypeOK
    <2>2. CASE Send(t, <<>>) /\ our_chain' = chain /\ UNCHANGED <<published_blocks, starting_height>>
      BY <1>0, <1>a, <1>c, <2>2 DEF TypeOK, PrivateType
    <2> QED BY <1>c, <2>1, <2>2, FlushLeaves
  <1>10. ASSUME NEW t \in Threads, PublishAll(t) PROVE TypeOK' /\ PcOK'
    <2>1. blocks_seen' \in SUBSET Block BY <1>10 DEF PublishAll, NewHead, TypeOK
    <2> QED BY <1>10, <1>c, <2>1 DEF PublishAll, NewHead, Looked, TypeOK
  <1>11. ASSUME NEW t \in Threads, Sent(t) PROVE TypeOK' /\ PcOK'
    <2>1. to_send[t] \in Seq(Block) /\ to_send[t] # <<>> BY <1>11 DEF Sent, At, TypeOK, PcOK
    <2>2. Head(to_send[t]) \in Block /\ Tail(to_send[t]) \in Seq(Block) BY <2>1, SeqTail
    <2>3. sent' \in [Block -> Nat]
      <3>1. PICK h \in Block : h = Head(to_send[t]) BY <2>2
      <3>2. sent' = [sent EXCEPT ![h] = @ + 1] BY <1>11, <3>1 DEF Sent
      <3> QED BY <3>2 DEF TypeOK
    <2>4. PrivateType' /\ UNCHANGED <<our_chain, published_blocks>>
      BY <1>11 DEF Sent, TypeOK, private, ghosts, PrivateType
    <2> QED BY <1>11, <1>a, <2>2, <2>3, <2>4 DEF Sent, TypeOK, ghosts
  <1>12. CASE OnMined
    <2>1. made' \in Block BY <1>12, BlockFacts DEF OnMined, TypeOK, Block
    <2>2. parent' \in [Block -> Block] /\ ours' \in SUBSET Block /\ item' \in [Threads -> Block]
      BY <1>12, <2>1 DEF OnMined, TypeOK
    <2>3. pc[Main] = "idle" /\ pc'[Main] = "mined" /\ pc' \in [Threads -> Place]
          /\ \A u \in Threads \ {Main} : pc'[u] = pc[u]
      BY <1>12, BlockFacts DEF OnMined, At, Goto, TypeOK, Place
    <2>4. PcOK' BY <1>12, <2>3, BlockFacts DEF OnMined, PcOK, Locking, private
    <2> QED BY <1>12, <2>1, <2>2, <2>3, <2>4 DEF OnMined, TypeOK, node, private
  <1>13. CASE OurBlock
    <2>1. item[Main] \in Block /\ Main \in Threads /\ todo[Main] = {}
      BY <1>13, BlockFacts DEF TypeOK, PcOK, OurBlock, At
    <2>2. Append(our_chain, item[Main]) \in Seq(Block) BY <2>1, SeqAppend DEF TypeOK
    <2>3. orphans' \in SUBSET Block BY <1>13, <2>1 DEF OurBlock, TypeOK
    <2>4. our_head' \in Block /\ cleared' \in SUBSET Threads BY <1>13, <2>1 DEF OurBlock, Looked, TypeOK
    <2>5. CASE flush_chain_(Main, Append(our_chain, item[Main]))
      BY <1>13, <1>c, <2>1, <2>2, <2>3, <2>4, <2>5 DEF OurBlock, TypeOK
    <2>6. CASE ~flush_chain_(Main, Append(our_chain, item[Main]))
      <3>1. PrivateType' /\ Send(Main, <<>>) BY <1>13, <2>2, <2>4, <2>6 DEF OurBlock, TypeOK, PrivateType
      <3> QED BY <1>0, <1>13, <1>a, <2>1, <2>3, <3>1 DEF OurBlock, TypeOK
    <2> QED BY <2>5, <2>6
  <1>14. CASE FlushChain
    <2>1. todo[Main] = {} /\ Main \in Threads BY <1>14, BlockFacts DEF FlushChain, At, PcOK
    <2> QED BY <1>14, <1>c, <2>1 DEF FlushChain, TypeOK, ghosts
  <1>15. CASE UNCHANGED vars
    BY <1>15 DEF vars, network, node, private, ghosts, TypeOK, PcOK, Locking
  <1> QED BY <1>1, <1>3, <1>4, <1>5, <1>6, <1>7, <1>8, <1>9, <1>10, <1>11, <1>12, <1>13, <1>14, <1>15, Steps
------------------------------------------------------------------------------
(* A member's block is in one place. *)

\* A thread that publishes nothing has nothing left.
LEMMA SendNothing ==
  ASSUME TypeOK, PcOK, NEW t \in Threads, pc[t] \in {"idle", "others", "mined"},
         to_send' = [to_send EXCEPT ![t] = <<>>]
  PROVE  to_send' = to_send
  <1>1. to_send[t] = <<>> BY DEF PcOK
  <1> QED BY <1>1 DEF TypeOK

\* Steps that move no block.
LEMMA PlaceFrame ==
  ASSUME TypeOK, TypeOK', PlaceInv, made <= made',
         UNCHANGED <<our_chain, to_send, sent, given_up, ours>>,
         pc'[Main] = "mined" <=> pc[Main] = "mined", pc[Main] = "mined" => item'[Main] = item[Main]
  PROVE  PlaceInv'
  <1>1. \A b \in Block : /\ (Private(b)' <=> Private(b)) /\ (Mined(b)' <=> Mined(b))
                         /\ \A t \in Threads : Sending(t, b)' <=> Sending(t, b)
    BY DEF Private, Mined, Sending
  <1>2. ASSUME NEW b \in Block PROVE Places(b)' /\ OnePlace(b)' /\ SomePlace(b)'
    <2>1. Places(b) /\ OnePlace(b) /\ SomePlace(b) BY DEF PlaceInv
    <2>2. b <= made => b <= made' BY BlockFacts DEF TypeOK
    <2> QED BY <1>1, <2>1, <2>2 DEF Places, OnePlace, SomePlace
  <1> QED BY <1>2 DEF PlaceInv

\* The private chain is given up.
LEMMA PlaceGiveUp ==
  ASSUME TypeOK, PcOK, PlaceInv, NEW t \in Threads, GiveUp(t)
  PROVE  PlaceInv'
  <1>1. pc[t] = "others" /\ t # Main /\ UNCHANGED <<sent, ours, made>> /\ clear_chain(t, <<>>)
    BY DEF GiveUp, NewHead, At, network, PcOK
  <1>2. /\ to_send' = to_send /\ pc'[Main] = pc[Main] /\ item'[Main] = item[Main] /\ our_chain' = <<>>
    <2>1. to_send' = [to_send EXCEPT ![t] = <<>>] BY <1>1 DEF clear_chain
    <2> QED BY <1>1, <2>1, SendNothing, ClearFacts, SeqSmall, BlockFacts
  <1>3. given_up' = given_up \cup SequenceSet(our_chain) BY DEF GiveUp, SequenceSet
  <1>4. \A b \in Block : /\ ~Private(b)' /\ (Mined(b)' <=> Mined(b))
                         /\ b \in given_up' <=> b \in given_up \/ Private(b)
                         /\ \A u \in Threads : Sending(u, b)' <=> Sending(u, b)
    BY <1>1, <1>2, <1>3, SeqSmall DEF Private, Mined, Sending
  <1>5. ASSUME NEW b \in Block PROVE Places(b)' /\ OnePlace(b)' /\ SomePlace(b)'
    <2>1. Places(b) /\ OnePlace(b) /\ SomePlace(b) BY DEF PlaceInv
    <2> QED BY <1>1, <1>4, <2>1 DEF Places, OnePlace, SomePlace
  <1> QED BY <1>1, <1>2, <1>5, SeqSmall DEF PlaceInv

\* The first private block is handed to the thread.
LEMMA PlacePublish ==
  ASSUME TypeOK, PcOK, PlaceInv, NEW t \in Threads, Publish(t)
  PROVE  PlaceInv'
  <1>1. pc[t] = "others" /\ t # Main /\ UNCHANGED <<sent, ours, made, given_up>>
        /\ our_chain # <<>> /\ our_chain \in Seq(Block) /\ Distinct(our_chain)
    BY DEF Publish, NewHead, At, network, PcOK, TypeOK, PlaceInv
  <1>2. PICK h \in Block : h = Head(our_chain) BY <1>1, SeqTail
  <1>3. /\ our_chain' = Tail(our_chain) /\ Send(t, <<h>>) /\ <<h>> \in Seq(Block) /\ <<h>> # <<>>
    BY <1>2, SeqSmall DEF Publish, PublishFirst
  <1>4. Distinct(our_chain') /\ SequenceSet(our_chain') = SequenceSet(our_chain) \ {h}
        /\ h \in SequenceSet(our_chain)
    BY <1>1, <1>2, <1>3, SeqTail
  <1>5. /\ pc'[Main] = pc[Main] /\ item'[Main] = item[Main] /\ to_send'[t] = <<h>>
        /\ \A u \in Threads \ {t} : to_send'[u] = to_send[u]
    BY <1>1, <1>3, SendFacts, BlockFacts
  <1>6. to_send[t] = <<>> BY <1>1 DEF PcOK
  <1>7. \A b \in Block : /\ (Private(b)' <=> Private(b) /\ b # h) /\ (Mined(b)' <=> Mined(b))
                         /\ Sending(t, b)' <=> b = h
                         /\ ~Sending(t, b)
                         /\ \A u \in Threads \ {t} : Sending(u, b)' <=> Sending(u, b)
    BY <1>4, <1>5, <1>6, SeqSmall DEF Private, Mined, Sending
  <1>8. Private(h) BY <1>4 DEF Private
  <1>9. ASSUME NEW b \in Block PROVE Places(b)' /\ OnePlace(b)' /\ SomePlace(b)'
    <2>1. Places(b) /\ OnePlace(b) /\ SomePlace(b) BY DEF PlaceInv
    <2>2. CASE b = h BY <1>1, <1>7, <1>8, <2>1, <2>2 DEF Places, OnePlace, SomePlace
    <2>3. CASE b # h
      <3>1. \A u \in Threads : Sending(u, b)' <=> Sending(u, b) BY <1>7, <2>3
      <3> QED BY <1>1, <1>7, <2>1, <2>3, <3>1 DEF Places, OnePlace, SomePlace
    <2> QED BY <2>2, <2>3
  <1>10. \A u \in Threads : Distinct(to_send'[u]) BY <1>5, SeqSmall DEF PlaceInv
  <1> QED BY <1>4, <1>9, <1>10 DEF PlaceInv

\* A published block is sent.
LEMMA PlaceSent ==
  ASSUME TypeOK, PcOK, PlaceInv, NEW t \in Threads, Sent(t)
  PROVE  PlaceInv'
  <1>1. pc[t] = "send" /\ UNCHANGED <<our_chain, ours, made, given_up>>
        /\ to_send[t] # <<>> /\ to_send[t] \in Seq(Block) /\ Distinct(to_send[t])
    BY DEF Sent, At, network, private, ghosts, PcOK, TypeOK, PlaceInv
  <1>2. PICK h \in Block : h = Head(to_send[t]) BY <1>1, SeqTail
  <1>3. PICK s \in Seq(Block) : s = Tail(to_send[t]) BY <1>1, SeqTail
  <1>4. Distinct(s) /\ SequenceSet(s) = SequenceSet(to_send[t]) \ {h} /\ h \in SequenceSet(to_send[t])
    BY <1>1, <1>2, <1>3, SeqTail
  <1>5. /\ to_send'[t] = s /\ \A u \in Threads \ {t} : to_send'[u] = to_send[u]
        /\ t # Main => pc'[Main] = pc[Main] /\ item'[Main] = item[Main]
        /\ pc'[t] # "mined"
    BY <1>3, SendFacts, BlockFacts DEF Sent
  <1>6. sent' = [sent EXCEPT ![h] = @ + 1] BY <1>2 DEF Sent
  <1>7. \A b \in Block : /\ (Private(b)' <=> Private(b)) /\ (Mined(b)' <=> Mined(b))
                         /\ Sending(t, b)' <=> Sending(t, b) /\ b # h
                         /\ \A u \in Threads \ {t} : Sending(u, b)' <=> Sending(u, b)
    BY <1>1, <1>4, <1>5 DEF Private, Mined, Sending
  <1>8. Sending(t, h) BY <1>4 DEF Sending
  <1>9. ASSUME NEW b \in Block PROVE Places(b)' /\ OnePlace(b)' /\ SomePlace(b)'
    <2>1. Places(b) /\ OnePlace(b) /\ SomePlace(b) BY DEF PlaceInv
    <2>2. CASE b = h
      <3>1. sent[b] = 0 BY <1>8, <2>1, <2>2 DEF OnePlace, TypeOK
      <3>2. sent'[b] = 1 BY <1>6, <2>2, <3>1 DEF TypeOK
      <3>3. \A u \in Threads : ~Sending(u, b)' BY <1>7, <1>8, <2>1, <2>2 DEF OnePlace
      <3> QED BY <1>1, <1>7, <1>8, <2>1, <2>2, <3>2, <3>3 DEF Places, OnePlace, SomePlace
    <2>3. CASE b # h
      <3>1. \A u \in Threads : Sending(u, b)' <=> Sending(u, b) BY <1>7, <2>3
      <3>2. sent'[b] = sent[b] BY <1>6, <2>3 DEF TypeOK
      <3> QED BY <1>1, <1>7, <2>1, <2>3, <3>1, <3>2 DEF Places, OnePlace, SomePlace
    <2> QED BY <2>2, <2>3
  <1>10. \A u \in Threads : Distinct(to_send'[u]) BY <1>4, <1>5 DEF PlaceInv
  <1> QED BY <1>1, <1>9, <1>10 DEF PlaceInv

\* The private chain, and a block that has just been mined, are handed to the thread or
\* become the private chain.
LEMMA PlaceMove ==
  ASSUME TypeOK, PcOK, PlaceInv, NEW t \in Threads, pc[t] \in {"idle", "others", "mined"},
         NEW chain \in Seq(Block), Distinct(chain),
         \/ to_send' = [to_send EXCEPT ![t] = chain] /\ our_chain' = <<>>
         \/ to_send' = [to_send EXCEPT ![t] = <<>>] /\ our_chain' = chain,
         UNCHANGED <<sent, ours, made, given_up>>,
         \A b \in Block : Mined(b)' => Mined(b),
         \A b \in Block : b \in SequenceSet(chain) <=> Private(b) \/ (Mined(b) /\ ~Mined(b)')
  PROVE  PlaceInv'
  <1>1. to_send[t] = <<>> BY DEF PcOK
  <1>2. CASE to_send' = [to_send EXCEPT ![t] = chain] /\ our_chain' = <<>>
    <2>1. to_send'[t] = chain /\ \A u \in Threads \ {t} : to_send'[u] = to_send[u]
      BY <1>2 DEF TypeOK
    <2>2. \A b \in Block : /\ ~Private(b)' /\ ~Sending(t, b)
                           /\ Sending(t, b)' <=> Private(b) \/ (Mined(b) /\ ~Mined(b)')
                           /\ \A u \in Threads \ {t} : Sending(u, b)' <=> Sending(u, b)
      BY <1>1, <1>2, <2>1, SeqSmall DEF Private, Sending
    <2>3. ASSUME NEW b \in Block PROVE Places(b)' /\ OnePlace(b)' /\ SomePlace(b)'
      <3>1. Places(b) /\ OnePlace(b) /\ SomePlace(b) BY DEF PlaceInv
      <3>2. CASE Sending(t, b)' BY <2>2, <3>1, <3>2 DEF Places, OnePlace, SomePlace
      <3>3. CASE ~Sending(t, b)'
        <4>1. \A u \in Threads : Sending(u, b)' <=> Sending(u, b) BY <2>2, <3>3
        <4> QED BY <2>2, <3>1, <3>3, <4>1 DEF Places, OnePlace, SomePlace
      <3> QED BY <3>2, <3>3
    <2>4. \A u \in Threads : Distinct(to_send'[u]) BY <2>1 DEF PlaceInv
    <2> QED BY <1>2, <2>3, <2>4, SeqSmall DEF PlaceInv
  <1>3. CASE to_send' = [to_send EXCEPT ![t] = <<>>] /\ our_chain' = chain
    <2>1. to_send' = to_send BY <1>3, SendNothing
    <2>2. \A b \in Block : /\ Private(b)' <=> Private(b) \/ (Mined(b) /\ ~Mined(b)')
                           /\ \A u \in Threads : Sending(u, b)' <=> Sending(u, b)
      BY <1>3, <2>1 DEF Private, Sending
    <2>3. ASSUME NEW b \in Block PROVE Places(b)' /\ OnePlace(b)' /\ SomePlace(b)'
      <3>1. Places(b) /\ OnePlace(b) /\ SomePlace(b) BY DEF PlaceInv
      <3> QED BY <2>2, <3>1 DEF Places, OnePlace, SomePlace
    <2> QED BY <1>3, <2>1, <2>3 DEF PlaceInv
  <1> QED BY <1>2, <1>3

\* Where flush_chain_ leaves the thread and the blocks.
LEMMA FlushFacts ==
  ASSUME TypeOK, NEW t \in Threads, NEW chain \in Seq(Block), flush_chain_(t, chain)
  PROVE  /\ \/ to_send' = [to_send EXCEPT ![t] = chain] /\ our_chain' = <<>>
            \/ to_send' = [to_send EXCEPT ![t] = <<>>] /\ our_chain' = chain
         /\ pc'[t] \in {"idle", "clear"}
         /\ \A u \in Threads \ {t} : pc'[u] = pc[u] /\ item'[u] = item[u]
  <1>1. CASE clear_chain(t, chain)
    <2>1. to_send' = [to_send EXCEPT ![t] = chain] BY <1>1 DEF clear_chain
    <2> QED BY <1>1, <2>1, ClearFacts
  <1>2. CASE Send(t, <<>>) /\ our_chain' = chain
    <2>1. to_send' = [to_send EXCEPT ![t] = <<>>] BY <1>2 DEF Send
    <2> QED BY <1>2, <2>1, SendFacts, SeqSmall
  <1> QED BY <1>1, <1>2, FlushLeaves

\* The whole private chain is published, or stays where there are no members.
LEMMA PlaceFlush ==
  ASSUME TypeOK, PcOK, PlaceInv, NEW t \in Threads, pc[t] \in {"others", "idle"},
         flush_chain_(t, our_chain), UNCHANGED <<sent, ours, made, given_up>>
  PROVE  PlaceInv'
  <1>1. our_chain \in Seq(Block) /\ Distinct(our_chain) BY DEF TypeOK, PlaceInv
  <1>2. /\ \/ to_send' = [to_send EXCEPT ![t] = our_chain] /\ our_chain' = <<>>
           \/ to_send' = [to_send EXCEPT ![t] = <<>>] /\ our_chain' = our_chain
        /\ pc'[t] \in {"idle", "clear"}
        /\ \A u \in Threads \ {t} : pc'[u] = pc[u] /\ item'[u] = item[u]
    BY <1>1, FlushFacts
  <1>3. \A b \in Block : Mined(b)' <=> Mined(b) BY <1>2, BlockFacts DEF Mined
  <1>4. \A b \in Block : b \in SequenceSet(our_chain) <=> Private(b) BY DEF Private
  <1> QED BY <1>1, <1>2, <1>3, <1>4, PlaceMove

\* our_block: the new block joins the private chain.
LEMMA PlaceOurBlock ==
  ASSUME TypeOK, PcOK, PlaceInv, OurBlock
  PROVE  PlaceInv'
  <1>0. Main \in Threads /\ pc[Main] = "mined" /\ UNCHANGED <<sent, ours, made, given_up>>
    BY BlockFacts DEF OurBlock, At, network
  <1>1. PICK x \in Block : x = item[Main] BY <1>0 DEF TypeOK
  <1>2. PICK chain \in Seq(Block) :
          /\ chain = Append(our_chain, x)
          /\ SequenceSet(chain) = SequenceSet(our_chain) \cup {x}
          /\ x \notin SequenceSet(our_chain) => Distinct(chain)
    BY SeqAppend DEF TypeOK, PlaceInv
  <1>3. Mined(x) /\ \A b \in Block : Mined(b) => b = x BY <1>0, <1>1 DEF Mined
  <1>4. x \notin SequenceSet(our_chain) BY <1>3 DEF PlaceInv, OnePlace, Private
  <1>5. /\ \/ to_send' = [to_send EXCEPT ![Main] = chain] /\ our_chain' = <<>>
           \/ to_send' = [to_send EXCEPT ![Main] = <<>>] /\ our_chain' = chain
        /\ pc'[Main] \in {"idle", "clear"}
    <2>1. CASE flush_chain_(Main, chain) BY <1>0, <2>1, FlushFacts
    <2>2. CASE Send(Main, <<>>) /\ our_chain' = chain
      <3>1. to_send' = [to_send EXCEPT ![Main] = <<>>] BY <2>2 DEF Send
      <3> QED BY <1>0, <2>2, <3>1, SendFacts, SeqSmall
    <2> QED BY <1>1, <1>2, <2>1, <2>2 DEF OurBlock
  <1>6. \A b \in Block : ~Mined(b)' BY <1>5 DEF Mined
  <1>7. \A b \in Block : b \in SequenceSet(chain) <=> Private(b) \/ (Mined(b) /\ ~Mined(b)')
    BY <1>2, <1>3, <1>6 DEF Private
  <1> QED BY <1>0, <1>2, <1>4, <1>5, <1>6, <1>7, PlaceMove

\* on_mined: a new block.
LEMMA PlaceOnMined ==
  ASSUME TypeOK, TypeOK', PcOK, PlaceInv, OnMined
  PROVE  PlaceInv'
  <1>1. /\ made' = made + 1 /\ ours' = ours \cup {made'} /\ pc[Main] = "idle" /\ pc'[Main] = "mined"
        /\ item'[Main] = made' /\ UNCHANGED <<our_chain, to_send, sent, given_up>>
    BY BlockFacts DEF OnMined, At, Goto, TypeOK, private
  <1>2. made \in Nat /\ made' \in Block /\ made' # Genesis /\ ~(made' <= made)
    BY <1>1, BlockFacts DEF TypeOK, Genesis
  <1>3. \A b \in Block : /\ (Private(b)' <=> Private(b)) /\ (Mined(b)' <=> b = made') /\ ~Mined(b)
                         /\ \A t \in Threads : Sending(t, b)' <=> Sending(t, b)
    BY <1>1 DEF Private, Mined, Sending
  <1>4. made' \notin ours BY <1>2 DEF PlaceInv, Places
  <1>5. ASSUME NEW b \in Block PROVE Places(b)' /\ OnePlace(b)' /\ SomePlace(b)'
    <2>1. Places(b) /\ OnePlace(b) /\ SomePlace(b) BY DEF PlaceInv
    <2>2. b <= made => b <= made' BY <1>1, BlockFacts DEF TypeOK
    <2>3. CASE b = made'
      <3>0. sent[b] \in Nat /\ b \notin ours BY <1>4, <2>3 DEF TypeOK
      <3>1. sent[b] = 0 BY <2>1, <3>0 DEF Places
      <3>2. b <= made' /\ b # Genesis BY <1>2, <2>3, BlockFacts
      <3> QED BY <1>1, <1>3, <1>4, <2>1, <2>3, <3>1, <3>2 DEF Places, OnePlace, SomePlace
    <2>4. CASE b # made' BY <1>1, <1>3, <2>1, <2>2, <2>4 DEF Places, OnePlace, SomePlace
    <2> QED BY <2>3, <2>4
  <1> QED BY <1>1, <1>5 DEF PlaceInv

\* Every step keeps a member's block in one place.
LEMMA PlaceStep == ASSUME TypeOK, PcOK, PlaceInv, [Next]_vars PROVE PlaceInv'
  <1>0. TypeOK' /\ PcOK' BY TypeStep
  <1>a. made \in Int /\ Main \in Threads BY BlockFacts DEF TypeOK
  <1>1. ASSUME NEW p \in Block, OthersMine(p) PROVE PlaceInv'
    <2>1. made <= made' BY <1>1, <1>a DEF OthersMine
    <2> QED BY <1>0, <1>1, <2>1, PlaceFrame DEF OthersMine, private, ghosts
  <1>2. ASSUME NEW t \in Threads, NEW b \in Block, Handles(t, b)
        PROVE  PlaceInv'
    <2>1. made' = made /\ UNCHANGED <<our_chain, to_send, sent, given_up, ours>>
          /\ pc'[Main] = pc[Main] /\ item'[Main] = item[Main]
      BY <1>2, HandleFacts
    <2> QED BY <1>0, <1>a, <2>1, PlaceFrame
  <1>3. ASSUME NEW t \in Threads, ReadHead(t) \/ ReadHeight(t) PROVE PlaceInv'
    <2>1. /\ made' = made /\ UNCHANGED <<our_chain, to_send, sent, given_up, ours>>
          /\ pc'[Main] = "mined" => pc[Main] = "mined" /\ t # Main
      BY <1>3, <1>a DEF ReadHead, ReadHeight, Send, Goto, At, network, TypeOK
    <2>2. pc[Main] = "mined" => t # Main BY <1>3 DEF ReadHead, ReadHeight, At
    <2>3. t # Main => pc'[Main] = pc[Main] /\ item'[Main] = item[Main]
      BY <1>3, <1>a DEF ReadHead, ReadHeight, Send, Goto, TypeOK
    <2> QED BY <1>0, <1>a, <2>1, <2>2, <2>3, PlaceFrame
  <1>4. ASSUME NEW t \in Threads, IgnoreBlock(t) PROVE PlaceInv'
    <2>1. pc[t] = "others" /\ t # Main /\ made' = made /\ UNCHANGED <<our_chain, sent, given_up, ours>>
      BY <1>4 DEF IgnoreBlock, At, PcOK, network, private
    <2>2. pc'[Main] = pc[Main] /\ item'[Main] = item[Main]
      BY <1>4, <1>a, <2>1, SendFacts, SeqSmall DEF IgnoreBlock
    <2>3. to_send' = to_send
      <3>1. to_send' = [to_send EXCEPT ![t] = <<>>] BY <1>4 DEF IgnoreBlock, Send
      <3> QED BY <2>1, <3>1, SendNothing
    <2> QED BY <1>0, <1>a, <2>1, <2>2, <2>3, PlaceFrame
  <1>5. ASSUME NEW t \in Threads, PublishNothing(t) PROVE PlaceInv'
    <2>1. made' = made /\ UNCHANGED <<our_chain, to_send, sent, given_up, ours>> /\ pc' = pc /\ item' = item
      BY <1>5 DEF PublishNothing, NewHead, network, private, ghosts
    <2> QED BY <1>0, <1>a, <2>1, PlaceFrame
  <1>6. ASSUME NEW t \in Threads, PublishAll(t) PROVE PlaceInv'
    BY <1>6, PlaceFlush DEF PublishAll, NewHead, At, network
  <1>7. CASE FlushChain
    BY <1>7, <1>a, PlaceFlush DEF FlushChain, At, network, ghosts
  <1>8. CASE UNCHANGED vars
    BY <1>0, <1>8, <1>a, PlaceFrame DEF vars, network, private, ghosts
  <1> QED BY <1>0, <1>1, <1>2, <1>3, <1>4, <1>5, <1>6, <1>7, <1>8,
             PlaceGiveUp, PlacePublish, PlaceSent, PlaceOurBlock, PlaceOnMined, Steps
------------------------------------------------------------------------------
(* The coordinator's node has no private block. *)

\* Blocks are only added to the tree of all blocks.
LEMMA TreeGrows ==
  ASSUME TypeOK, PcOK, [Next]_vars
  PROVE  /\ made <= made' /\ made \in Nat
         /\ \A b \in Block : b <= made => parent'[b] = parent[b] /\ (b \in ours' => b \in ours)
         /\ ours \subseteq ours'
  <1>0. made \in Nat /\ \A b \in Block : b \in Nat BY BlockFacts DEF TypeOK
  <1> DEFINE Grows == /\ made <= made' /\ made \in Nat
                      /\ \A b \in Block : b <= made => parent'[b] = parent[b] /\ (b \in ours' => b \in ours)
                      /\ ours \subseteq ours'
  <1>1. ASSUME NEW p \in Block, OthersMine(p) PROVE Grows
    BY <1>0, <1>1 DEF OthersMine, TypeOK
  <1>2. CASE OnMined BY <1>0, <1>2 DEF OnMined, TypeOK
  <1>3. CASE UNCHANGED <<made, parent, ours>> BY <1>0, <1>3
  <1>4. CASE ~OnMined /\ ~\E p \in Block : OthersMine(p)
    <2>1. \A t \in Threads, b \in Block : Handles(t, b) => UNCHANGED <<made, parent, ours>>
      BY HandleFacts
    <2>2. UNCHANGED <<made, parent, ours>>
      BY <1>4, <2>1, Steps DEF vars, network, IgnoreBlock, GiveUp, Publish, PublishNothing, PublishAll,
         NewHead, ReadHead, ReadHeight, Sent, OurBlock, FlushChain
    <2> QED BY <1>3, <2>2
  <1> QED BY <1>1, <1>2, <1>4

\* A thread that leaves its critical section with blocks to publish takes none from the others.
LEMMA SendKeeps ==
  ASSUME TypeOK, PcOK, NEW t \in Threads, pc[t] \in {"idle", "others", "mined"},
         NEW s \in Seq(Block), to_send' = [to_send EXCEPT ![t] = s],
         NEW u \in Threads, NEW b, Sending(u, b)
  PROVE  Sending(u, b)'
  <1>1. to_send[t] = <<>> BY DEF PcOK
  <1>2. u # t BY <1>1, SeqSmall DEF Sending
  <1> QED BY <1>2 DEF Sending, TypeOK

\* What leaves the private chain goes to the threads, and from there to the members.
LEMMA SendingStep ==
  ASSUME TypeOK, PcOK, [Next]_vars, NEW b \in Block
  PROVE  /\ sent[b] > 0 => sent'[b] > 0
         /\ (\E u \in Threads : Sending(u, b)) => sent'[b] > 0 \/ \E u \in Threads : Sending(u, b)'
  <1> DEFINE Keeps == /\ sent[b] > 0 => sent'[b] > 0
                      /\ (\E u \in Threads : Sending(u, b)) => sent'[b] > 0 \/ \E u \in Threads : Sending(u, b)'
  <1>0. <<>> \in Seq(Block) /\ our_chain \in Seq(Block) /\ Main \in Threads BY SeqSmall, BlockFacts DEF TypeOK
  <1>1. ASSUME UNCHANGED <<sent, to_send>> PROVE Keeps BY <1>1 DEF Sending
  <1>2. ASSUME NEW t \in Threads, pc[t] \in {"idle", "others", "mined"}, NEW s \in Seq(Block),
               to_send' = [to_send EXCEPT ![t] = s], sent' = sent
        PROVE  Keeps
    BY <1>2, SendKeeps
  <1>3. ASSUME NEW t \in Threads, Sent(t) PROVE Keeps
    <2>1. to_send[t] # <<>> /\ to_send[t] \in Seq(Block) BY <1>3 DEF Sent, At, PcOK, TypeOK
    <2>2. PICK h \in Block : h = Head(to_send[t]) BY <2>1, SeqTail
    <2>3. PICK s \in Seq(Block) : s = Tail(to_send[t]) BY <2>1, SeqTail
    <2>4. sent' = [sent EXCEPT ![h] = @ + 1] BY <1>3, <2>2 DEF Sent
    <2>5. (sent[b] > 0 => sent'[b] > 0) /\ (b = h => sent'[b] > 0) BY <2>4 DEF TypeOK
    <2>6. to_send'[t] = s /\ \A u \in Threads \ {t} : to_send'[u] = to_send[u]
      BY <1>3, <2>3, SendFacts DEF Sent
    <2>7. ASSUME Sending(t, b), b # h PROVE Sending(t, b)'
      <3>1. PICK i \in DOMAIN to_send[t] : b = to_send[t][i] BY <2>7 DEF Sending, SequenceSet
      <3>2. i # 1 BY <2>1, <2>2, <2>7, <3>1
      <3>3. i - 1 \in DOMAIN s /\ s[i - 1] = b BY <2>1, <2>3, <3>1, <3>2
      <3> QED BY <2>6, <3>3 DEF Sending, SequenceSet
    <2> QED BY <2>5, <2>6, <2>7 DEF Sending
  <1>4. ASSUME NEW p \in Block, OthersMine(p) PROVE Keeps BY <1>1, <1>4 DEF OthersMine
  <1>5. ASSUME NEW t \in Threads, NEW c \in Block, Handles(t, c) PROVE Keeps
    BY <1>1, <1>5, HandleFacts
  <1>6. ASSUME NEW t \in Threads, ReadHead(t) \/ ReadHeight(t) PROVE Keeps
    BY <1>1, <1>6 DEF ReadHead, ReadHeight, Send, TypeOK
  <1>7. ASSUME NEW t \in Threads, IgnoreBlock(t) PROVE Keeps
    BY <1>0, <1>2, <1>7 DEF IgnoreBlock, At, Send
  <1>8. ASSUME NEW t \in Threads, GiveUp(t) PROVE Keeps
    BY <1>0, <1>2, <1>8 DEF GiveUp, NewHead, At, clear_chain
  <1>9. ASSUME NEW t \in Threads, Publish(t) PROVE Keeps
    <2>1. <<Head(our_chain)>> \in Seq(Block) BY <1>9, PublishFirstType DEF Publish
    <2> QED BY <1>2, <1>9, <2>1 DEF Publish, PublishFirst, NewHead, At, Send
  <1>10. ASSUME NEW t \in Threads, PublishNothing(t) PROVE Keeps
    BY <1>1, <1>10 DEF PublishNothing, NewHead
  <1>11. ASSUME NEW t \in Threads, PublishAll(t) PROVE Keeps
    BY <1>0, <1>2, <1>11, FlushFacts DEF PublishAll, NewHead, At
  <1>12. CASE OnMined BY <1>1, <1>12 DEF OnMined
  <1>13. CASE OurBlock
    <2>1. item[Main] \in Block BY <1>0 DEF TypeOK
    <2>2. Append(our_chain, item[Main]) \in Seq(Block) BY <2>1, SeqAppend DEF TypeOK
    <2>3. \E s \in Seq(Block) : to_send' = [to_send EXCEPT ![Main] = s]
      BY <1>0, <1>13, <2>2, FlushFacts DEF OurBlock, Send
    <2> QED BY <1>0, <1>2, <1>13, <2>3 DEF OurBlock, At
  <1>14. CASE FlushChain
    BY <1>0, <1>2, <1>14, FlushFacts DEF FlushChain, At
  <1>15. CASE UNCHANGED vars BY <1>1, <1>15 DEF vars
  <1> QED BY <1>3, <1>4, <1>5, <1>6, <1>7, <1>8, <1>9, <1>10, <1>11, <1>12, <1>13, <1>14, <1>15, Steps

\* A block that is open stays open.
LEMMA OpenStable ==
  ASSUME TypeOK, PcOK, [Next]_vars, NEW b \in Block, Open(b)
  PROVE  Open(b)' /\ parent'[b] = parent[b]
  <1>1. b <= made' /\ parent'[b] = parent[b] /\ (b \in ours' => b \in ours)
    <2>1. TypeOK' BY TypeStep
    <2>2. made \in Nat /\ made' \in Nat /\ b \in Nat /\ b <= made
      BY <2>1, BlockFacts DEF Open, TypeOK
    <2> QED BY <2>2, TreeGrows
  <1> QED BY <1>1, SendingStep DEF Open

\* The blocks a thread is about to bring to the node after it has left m are open.
LEMMA SendOpens ==
  ASSUME TypeOK, PlaceInv', NEW t \in Threads, NEW s \in Seq(Block), Send(t, s), NEW b \in todo'[t]
  PROVE  Open(b)' /\ b \in ours'
  <1>0. to_send'[t] = s /\ todo'[t] = (IF s = <<>> THEN {} ELSE {Head(s)}) BY SendFacts
  <1>1. s # <<>> /\ b = Head(s) /\ to_send'[t] = s BY <1>0
  <1>2. b \in SequenceSet(s) /\ b \in Block BY <1>1, SeqTail
  <1>3. Sending(t, b)' BY <1>1, <1>2 DEF Sending
  <1>4. b \in ours' /\ b <= made' BY <1>2, <1>3 DEF PlaceInv, Places
  <1> QED BY <1>3, <1>4 DEF Open

\* Every step keeps the private blocks from the coordinator's node.
LEMMA OpenStep == ASSUME TypeOK, PcOK, PlaceInv, OpenInv, [Next]_vars PROVE OpenInv'
  <1>0. TypeOK' /\ PcOK' /\ PlaceInv' BY TypeStep, PlaceStep
  <1>a. \A b \in Block : Open(b) => Open(b)' /\ parent'[b] = parent[b] BY OpenStable
  <1>b. \A t \in Threads : todo[t] \subseteq Block BY DEF TypeOK
  <1>c. \A p \in Block : pending_blocks[p] \subseteq Block BY DEF TypeOK
  <1>d. ASSUME UNCHANGED <<blockchain, pending_blocks, head>>,
               \A t \in Threads : \A b \in todo'[t] : b \in todo[t] \/ Open(b)'
        PROVE  OpenInv'
    BY <1>a, <1>b, <1>c, <1>d DEF OpenInv
  <1>e. ASSUME UNCHANGED node, NEW t \in Threads, NEW s \in Seq(Block), Send(t, s) PROVE OpenInv'
    <2>1. \A u \in Threads \ {t} : todo'[u] = todo[u] BY <1>e, SendFacts
    <2>2. \A b \in todo'[t] : Open(b)' BY <1>0, <1>e, SendOpens
    <2> QED BY <1>d, <1>e, <2>1, <2>2 DEF node
  <1>1. ASSUME NEW p \in Block, OthersMine(p) PROVE OpenInv'
    BY <1>d, <1>1 DEF OthersMine, node
  <1>2. ASSUME NEW t \in Threads, NEW c \in Block, Handles(t, c) PROVE Open(c) /\ Open(c)'
    <2>1. Open(c)
      <3>1. CASE c \in todo[t] BY <3>1 DEF OpenInv
      <3>2. CASE Public(c) BY <3>2 DEF Open, Public
      <3> QED BY <1>2, <3>1, <3>2, HandleFacts
    <2> QED BY <1>a, <2>1
  <1>3. ASSUME NEW t \in Threads, NEW c \in Block, Handles(t, c), AlreadyHandled(t, c) PROVE OpenInv'
    <2>1. \A u \in Threads : todo'[u] \subseteq todo[u] BY <1>3 DEF AlreadyHandled, TypeOK
    <2> QED BY <1>d, <1>3, <2>1 DEF AlreadyHandled, node
  <1>4. ASSUME NEW t \in Threads, NEW c \in Block, Handles(t, c), WaitForParent(t, c) PROVE OpenInv'
    <2>1. Open(c) /\ parent[c] \in Block BY <1>2, <1>4 DEF TypeOK
    <2>2. \A u \in Threads : todo'[u] \subseteq todo[u] BY <1>4 DEF WaitForParent, TypeOK
    <2>3. \A b \in Block : blockchain'[b] # "absent" => b = c \/ blockchain[b] # "absent"
      BY <1>4 DEF WaitForParent, TypeOK
    <2>4. \A p \in Block : \A b \in pending_blocks'[p] :
             b \in pending_blocks[p] \/ (b = c /\ p = parent[c])
      BY <1>4, <2>1 DEF WaitForParent, TypeOK
    <2>5. head' = head /\ blockchain'[head] = "handled"
      BY <1>4 DEF WaitForParent, TypeOK, OpenInv
    <2>6. \A b \in Block : blockchain'[b] # "absent" => Open(b)' BY <1>a, <2>1, <2>3 DEF OpenInv
    <2>7. \A u \in Threads : \A b \in todo'[u] : Open(b)' BY <1>a, <1>b, <2>2 DEF OpenInv
    <2>8. \A p \in Block : \A b \in pending_blocks'[p] : Open(b)' /\ parent'[b] = p
      BY <1>a, <1>c, <2>1, <2>4 DEF OpenInv
    <2> QED BY <2>5, <2>6, <2>7, <2>8 DEF OpenInv
  <1>5. ASSUME NEW t \in Threads, NEW c \in Block, Handles(t, c), InsertBlock(t, c) PROVE OpenInv'
    <2>1. Open(c) BY <1>2, <1>5
    <2>2. \A u \in Threads : todo'[u] \subseteq todo[u] \cup pending_blocks[c]
      BY <1>5 DEF InsertBlock, TypeOK
    <2>3. \A b \in Block : blockchain'[b] = IF b = c THEN "handled" ELSE blockchain[b]
      BY <1>5 DEF InsertBlock, TypeOK
    <2>4. \A p \in Block : pending_blocks'[p] \subseteq pending_blocks[p]
      BY <1>5 DEF InsertBlock, TypeOK
    <2>5. head' \in {c, head} /\ head \in Block BY <1>5 DEF InsertBlock, TypeOK
    <2>6. \A b \in Block : blockchain'[b] # "absent" => Open(b)' BY <1>a, <2>1, <2>3 DEF OpenInv
    <2>7. \A u \in Threads : \A b \in todo'[u] : Open(b)' BY <1>a, <1>b, <1>c, <2>2 DEF OpenInv
    <2>8. \A p \in Block : \A b \in pending_blocks'[p] : Open(b)' /\ parent'[b] = p
      BY <1>a, <1>c, <2>4 DEF OpenInv
    <2>9. blockchain'[head'] = "handled" BY <2>3, <2>5 DEF OpenInv
    <2> QED BY <2>6, <2>7, <2>8, <2>9 DEF OpenInv
  <1>f. ASSUME NEW t \in Threads, NEW c \in Block, Handles(t, c) PROVE OpenInv'
    BY <1>3, <1>4, <1>5, <1>f, HandleFacts
  <1>g. ASSUME UNCHANGED node, NEW t \in Threads, NEW s \in Seq(Block), flush_chain_(t, s) PROVE OpenInv'
    <2>1. CASE clear_chain(t, s) BY <1>d, <1>g, <2>1, ClearFacts DEF node
    <2>2. CASE Send(t, <<>>) BY <1>e, <1>g, <2>2, SeqSmall
    <2> QED BY <1>g, <2>1, <2>2, FlushLeaves
  <1>6. ASSUME NEW t \in Threads, IgnoreBlock(t) PROVE OpenInv'
    BY <1>6, <1>e, SeqSmall DEF IgnoreBlock
  <1>7. ASSUME NEW t \in Threads, GiveUp(t) PROVE OpenInv'
    BY <1>7, <1>d, SeqSmall, ClearFacts DEF GiveUp, NewHead, node
  <1>8. ASSUME NEW t \in Threads, Publish(t) PROVE OpenInv'
    <2>1. \E s \in Seq(Block) : Send(t, s) BY <1>8, PublishFirstType DEF Publish
    <2> QED BY <1>8, <1>e, <2>1 DEF Publish, NewHead
  <1>9. ASSUME NEW t \in Threads, PublishNothing(t) \/ ReadHead(t) PROVE OpenInv'
    BY <1>9, <1>d DEF PublishNothing, ReadHead, NewHead, node
  <1>10. ASSUME NEW t \in Threads, PublishAll(t) PROVE OpenInv'
    <2>1. our_chain \in Seq(Block) BY DEF TypeOK
    <2> QED BY <1>10, <1>g, <2>1 DEF PublishAll, NewHead
  <1>11. ASSUME NEW t \in Threads, Sent(t) \/ ReadHeight(t) PROVE OpenInv'
    <2>1. to_send[t] \in Seq(Block) BY DEF TypeOK
    <2>2. CASE ReadHeight(t) BY <1>e, <2>1, <2>2 DEF ReadHeight
    <2>3. CASE Sent(t)
      <3>1. to_send[t] # <<>> BY <2>3 DEF Sent, At, PcOK
      <3>2. Tail(to_send[t]) \in Seq(Block) BY <2>1, <3>1, SeqTail
      <3> QED BY <1>e, <2>3, <3>2 DEF Sent
    <2> QED BY <1>11, <2>2, <2>3
  <1>12. CASE OnMined BY <1>12, <1>d DEF OnMined, node
  <1>13. CASE OurBlock
    <2>1. item[Main] \in Block /\ Main \in Threads BY BlockFacts DEF TypeOK
    <2>2. Append(our_chain, item[Main]) \in Seq(Block) BY <2>1, SeqAppend DEF TypeOK
    <2> QED BY <1>13, <1>e, <1>g, <2>1, <2>2, SeqSmall DEF OurBlock
  <1>14. CASE FlushChain
    <2>1. our_chain \in Seq(Block) /\ Main \in Threads BY BlockFacts DEF TypeOK
    <2> QED BY <1>14, <1>g, <2>1 DEF FlushChain
  <1>15. CASE UNCHANGED vars BY <1>15, <1>d DEF vars, node
  <1> QED BY <1>1, <1>f, <1>6, <1>7, <1>8, <1>9, <1>10, <1>11, <1>12, <1>13, <1>14, <1>15, Steps

\* A block that the coordinator has handled has not been given up, nor is it private.
LEMMA HeadNotPrivate ==
  ASSUME TypeOK, PlaceInv, OpenInv
  PROVE  head \in Block /\ head <= made /\ head \notin given_up /\ ~Private(head)
  <1>1. head \in Block /\ Open(head) BY DEF OpenInv, TypeOK
  <1>2. Places(head) /\ OnePlace(head) BY <1>1 DEF PlaceInv
  <1> QED BY <1>1, <1>2 DEF Open, Places, OnePlace
------------------------------------------------------------------------------
(* The private chain hangs together. *)

\* The parents of the blocks of the chain, and of the block being added, stay.
LEMMA ParentsStay ==
  ASSUME TypeOK, PcOK, PlaceInv, [Next]_vars
  PROVE  /\ \A i \in DOMAIN our_chain : our_chain[i] \in Block /\ parent'[our_chain[i]] = parent[our_chain[i]]
         /\ pc[Main] = "mined" => parent'[item[Main]] = parent[item[Main]]
  <1>1. \A b \in Block : b \in ours => parent'[b] = parent[b] BY TreeGrows DEF PlaceInv, Places
  <1>2. \A i \in DOMAIN our_chain : our_chain[i] \in Block /\ our_chain[i] \in ours
    <2>1. \A i \in DOMAIN our_chain : our_chain[i] \in Block BY DEF TypeOK
    <2> QED BY <2>1 DEF PlaceInv, Places, Private, SequenceSet
  <1>3. pc[Main] = "mined" => item[Main] \in Block /\ item[Main] \in ours
    BY BlockFacts DEF PlaceInv, Places, Mined, TypeOK
  <1> QED BY <1>1, <1>2, <1>3

\* Steps that leave the private chain alone.
LEMMA LinkFrame ==
  ASSUME TypeOK, PcOK, PlaceInv, LinkInv, [Next]_vars,
         UNCHANGED <<our_chain, our_head, given_up, orphans>>,
         (\A u \in Threads : pc'[u] # "clear") => \A u \in Threads : pc[u] # "clear",
         pc'[Main] = "mined" =>
            pc[Main] = "mined" /\ item'[Main] = item[Main] /\ (Main \in cleared' <=> Main \in cleared)
  PROVE  LinkInv'
  <1>1. our_chain \in Seq(Block) /\ DOMAIN our_chain = 1 .. Len(our_chain) /\ Len(our_chain) \in Nat
    BY DEF TypeOK
  <1>2. \A i \in 2 .. Len(our_chain) : parent'[our_chain[i]] = our_chain[i - 1]
    BY <1>1, ParentsStay DEF LinkInv
  <1>3. our_chain # <<>> => Head(our_chain) = our_chain[1] /\ 1 \in DOMAIN our_chain BY <1>1
  <1>4. our_chain # <<>> => parent'[Head(our_chain)] = parent[Head(our_chain)] BY <1>3, ParentsStay
  <1>5. our_head <= made'
    <2>1. TypeOK' BY TypeStep
    <2>2. our_head \in Nat /\ made \in Nat /\ made' \in Nat BY <2>1, BlockFacts DEF TypeOK
    <2> QED BY <2>2, TreeGrows DEF LinkInv
  <1> QED BY <1>2, <1>4, <1>5, ParentsStay DEF LinkInv

\* The chain is emptied, and its blocks may be given up; our_head is set in the next step.
LEMMA LinkClear ==
  ASSUME TypeOK, PcOK, PlaceInv, LinkInv, NEW t \in Threads, NEW s \in Seq(Block), clear_chain(t, s),
         UNCHANGED <<made, parent>>, our_head' <= made,
         pc'[Main] = "mined" => /\ pc[Main] = "mined" /\ our_head' = our_head
                                /\ (Main \in cleared' <=> Main \in cleared)
  PROVE  LinkInv'
  <1>1. our_chain' = <<>> /\ pc'[t] = "clear" /\ item' = item BY ClearFacts
  <1>2. Len(our_chain') = 0 BY <1>1
  <1> QED BY <1>1, <1>2 DEF LinkInv

\* our_head is set to a block of the coordinator's node.
LEMMA LinkHead ==
  ASSUME TypeOK, PcOK, PlaceInv, OpenInv, NEW t \in Threads, ReadHead(t)
  PROVE  LinkInv'
  <1>1. /\ pc[t] = "clear" /\ our_head' = head /\ pc' = [pc EXCEPT ![t] = "height"]
        /\ cleared' = cleared \cup {u \in Threads : pc[u] = "mined"}
        /\ UNCHANGED <<our_chain, given_up, made>>
    BY DEF ReadHead, At, Goto, network
  <1>2. our_chain = <<>> BY <1>1 DEF PcOK, Locking
  <1>3. head <= made /\ head \notin given_up BY HeadNotPrivate
  <1>4. pc'[Main] = "mined" => Main \in cleared' BY <1>1, BlockFacts DEF TypeOK
  <1>5. Len(our_chain') = 0 BY <1>1, <1>2
  <1> QED BY <1>1, <1>2, <1>3, <1>4, <1>5 DEF LinkInv

\* The first block is published: the next one's parent is it.
LEMMA LinkPublish ==
  ASSUME TypeOK, PcOK, PlaceInv, LinkInv, [Next]_vars, NEW t \in Threads, Publish(t)
  PROVE  LinkInv'
  <1>1. /\ our_chain # <<>> /\ our_chain' = Tail(our_chain) /\ t # Main
        /\ UNCHANGED <<our_head, given_up, orphans, made, parent>>
        /\ cleared' = cleared \ {t} /\ pc[t] = "others" /\ \A u \in Threads : pc[u] # "clear"
    BY DEF Publish, PublishFirst, NewHead, At, PcOK, network, Looked, Unlocked
  <1>2. PICK n \in Nat : n = Len(our_chain) /\ n > 0 /\ DOMAIN our_chain = 1 .. n
    BY <1>1 DEF TypeOK
  <1>3. /\ our_chain' \in Seq(Block) /\ Len(our_chain') = n - 1
        /\ \A i \in 1 .. n - 1 : our_chain'[i] = our_chain[i + 1]
    BY <1>1, <1>2 DEF TypeOK
  <1>4. pc'[Main] = pc[Main] /\ item'[Main] = item[Main]
        /\ ((\A u \in Threads : pc'[u] # "clear") => \A u \in Threads : pc[u] # "clear")
    <2>0. <<Head(our_chain)>> \in Seq(Block) /\ Send(t, <<Head(our_chain)>>)
      BY <1>1, PublishFirstType DEF Publish
    <2>1. PICK s \in Seq(Block) : Send(t, s) BY <2>0
    <2>2. \A u \in Threads \ {t} : pc'[u] = pc[u] /\ item'[u] = item[u] BY <2>1, SendFacts
    <2>3. pc'[Main] = pc[Main] /\ item'[Main] = item[Main] BY <1>1, <2>2, BlockFacts
    <2> QED BY <1>1, <2>3
  <1>5. \A i \in 2 .. n - 1 : parent'[our_chain'[i]] = our_chain'[i - 1]
    <2> SUFFICES ASSUME NEW i \in 2 .. n - 1 PROVE parent[our_chain[i + 1]] = our_chain[i]
      BY <1>1, <1>2, <1>3
    <2>1. i + 1 \in 2 .. Len(our_chain) BY <1>2
    <2> QED BY <1>2, <2>1 DEF LinkInv
  <1>6. ASSUME our_chain' # <<>>
        PROVE  our_head' = our_chain'[Len(our_chain')] /\ parent'[Head(our_chain')] \notin given_up'
    <2>1. n > 1 BY <1>2, <1>3, <1>6
    <2>2. our_chain'[n - 1] = our_chain[n] /\ our_head = our_chain[n]
      BY <1>1, <1>2, <1>3, <2>1 DEF LinkInv
    <2>3. Head(our_chain') = our_chain[2] BY <1>2, <1>3, <1>6, <2>1
    <2>4. parent[our_chain[2]] = our_chain[1] BY <1>2, <2>1 DEF LinkInv
    <2>5. our_chain[1] \in Block /\ Private(our_chain[1])
      <3>1. 1 \in DOMAIN our_chain BY <1>2
      <3>2. our_chain[1] \in Block BY <1>1 DEF TypeOK
      <3> QED BY <3>1, <3>2 DEF Private, SequenceSet
    <2>6. our_chain[1] \notin given_up BY <2>5 DEF PlaceInv, OnePlace
    <2> QED BY <1>1, <1>3, <2>2, <2>3, <2>4, <2>6
  <1>7. /\ pc[Main] = "mined" /\ Main \in cleared => our_chain' = <<>>
        /\ Main \in cleared' <=> Main \in cleared
    BY <1>1 DEF LinkInv
  <1> QED BY <1>1, <1>3, <1>4, <1>5, <1>6, <1>7 DEF LinkInv

\* A block is added: its parent is the last one, or the chain has been cleared since the
\* block was made.
LEMMA LinkAppend ==
  ASSUME TypeOK, PcOK, PlaceInv, LinkInv, Unlocked, pc[Main] = "mined",
         our_chain' = Append(our_chain, item[Main]), our_head' = item[Main],
         orphans' = (IF Main \in cleared THEN orphans \cup {item[Main]} ELSE orphans),
         UNCHANGED <<given_up, made, parent>>, pc'[Main] # "mined"
  PROVE  LinkInv'
  <1>1. PICK n \in Nat : n = Len(our_chain) /\ DOMAIN our_chain = 1 .. n BY DEF TypeOK
  <1>2. PICK x \in Block : x = item[Main] BY BlockFacts DEF TypeOK
  <1>3. /\ our_chain' \in Seq(Block) /\ Len(our_chain') = n + 1 /\ our_chain'[n + 1] = x
        /\ \A i \in 1 .. n : our_chain'[i] = our_chain[i]
    BY <1>1, <1>2 DEF TypeOK
  <1>4. Mined(x) BY <1>2 DEF Mined
  <1>5. x <= made /\ x \notin given_up BY <1>4 DEF PlaceInv, Places, OnePlace
  <1>6. ASSUME NEW i \in 2 .. n + 1 PROVE parent'[our_chain'[i]] = our_chain'[i - 1]
    <2>1. CASE i <= n
      <3>1. our_chain'[i] = our_chain[i] /\ our_chain'[i - 1] = our_chain[i - 1] BY <1>3, <2>1
      <3> QED BY <1>1, <2>1, <3>1 DEF LinkInv
    <2>2. CASE i = n + 1
      <3>1. our_chain # <<>> /\ our_chain'[i - 1] = our_chain[n] BY <1>1, <1>3, <2>2
      <3>2. parent[x] = our_head /\ our_head = our_chain[n] BY <1>1, <1>2, <3>1 DEF LinkInv
      <3>3. our_chain'[i] = x /\ parent' = parent BY <1>3, <2>2
      <3> QED BY <3>1, <3>2, <3>3
    <2> QED BY <1>1, <2>1, <2>2
  <1>7. our_chain' # <<>> /\ Head(our_chain') = our_chain'[1] BY <1>3
  <1>8. ASSUME Head(our_chain') \notin orphans' PROVE parent'[Head(our_chain')] \notin given_up'
    <2>1. CASE our_chain = <<>>
      <3>1. Head(our_chain') = x BY <1>1, <1>3, <1>7, <2>1
      <3>2. Main \notin cleared BY <1>2, <1>8, <3>1
      <3>3. our_head \notin given_up BY DEF LinkInv, Unlocked
      <3> QED BY <1>2, <3>1, <3>2, <3>3 DEF LinkInv
    <2>2. CASE our_chain # <<>>
      <3>1. Head(our_chain') = Head(our_chain) BY <1>1, <1>3, <1>7, <2>2
      <3> QED BY <1>8, <2>2, <3>1 DEF LinkInv
    <2> QED BY <2>1, <2>2
  <1> QED BY <1>2, <1>3, <1>5, <1>6, <1>8 DEF LinkInv

\* Every step keeps the chain together.
LEMMA LinkStep == ASSUME TypeOK, PcOK, PlaceInv, OpenInv, LinkInv, [Next]_vars PROVE LinkInv'
  <1>0. Main \in Threads /\ <<>> \in Seq(Block) /\ our_chain \in Seq(Block) BY BlockFacts, SeqSmall DEF TypeOK
  <1>1. ASSUME NEW p \in Block, OthersMine(p) PROVE LinkInv'
    BY <1>1, LinkFrame DEF OthersMine, private, ghosts
  <1>2. ASSUME NEW t \in Threads, NEW b \in Block, Handles(t, b) PROVE LinkInv'
    <2>1. /\ UNCHANGED <<our_chain, our_head, given_up, orphans>> /\ cleared' = cleared \ {t}
          /\ pc'[Main] = pc[Main] /\ item'[Main] = item[Main]
          /\ (\A u \in Threads : pc'[u] # "clear") => \A u \in Threads : pc[u] # "clear"
      BY <1>2, HandleFacts
    <2>2. pc[Main] = "mined" => t # Main
      <3>1. b \in todo[t] \/ t # Main BY <1>2, HandleFacts
      <3> QED BY <1>0, <3>1 DEF PcOK
    <2> QED BY <2>1, <2>2, LinkFrame
  <1>3. ASSUME NEW t \in Threads, NEW s \in Seq(Block), Send(t, s), pc[t] # "mined",
               (\E u \in Threads : pc[u] = "clear") => \E u \in Threads : pc'[u] = "clear",
               UNCHANGED <<our_chain, our_head, given_up, orphans>>,
               Main \in cleared' <=> Main \in cleared
        PROVE  LinkInv'
    <2>1. pc'[Main] = "mined" => pc[Main] = "mined" /\ item'[Main] = item[Main]
      BY <1>0, <1>3, SendFacts
    <2> QED BY <1>3, <2>1, LinkFrame
  <1>4. ASSUME NEW t \in Threads, IgnoreBlock(t) PROVE LinkInv'
    <2>1. /\ t # Main /\ UNCHANGED <<our_chain, our_head, given_up, orphans>> /\ pc[t] # "mined"
          /\ cleared' = cleared \ {t} /\ Send(t, <<>>) /\ \A u \in Threads : pc[u] # "clear"
      BY <1>4 DEF IgnoreBlock, At, PcOK, private, Looked, Unlocked
    <2> QED BY <1>0, <1>3, <2>1
  <1>5. ASSUME NEW t \in Threads, GiveUp(t) PROVE LinkInv'
    <2>1. /\ t # Main /\ UNCHANGED <<made, parent, our_head>> /\ clear_chain(t, <<>>)
          /\ cleared' = cleared \ {t}
      BY <1>5 DEF GiveUp, NewHead, At, PcOK, network, Looked
    <2>2. pc'[Main] = pc[Main] BY <1>0, <2>1, ClearFacts
    <2> QED BY <1>0, <2>1, <2>2, LinkClear DEF LinkInv
  <1>6. ASSUME NEW t \in Threads, Publish(t) PROVE LinkInv' BY <1>6, LinkPublish
  <1>7. ASSUME NEW t \in Threads, PublishNothing(t) PROVE LinkInv'
    BY <1>7, LinkFrame DEF PublishNothing, NewHead, private, ghosts
  <1>8. ASSUME NEW t \in Threads, PublishAll(t) PROVE LinkInv'
    <2>1. /\ t # Main /\ UNCHANGED <<made, parent, our_head, given_up, orphans>> /\ pc[t] # "mined"
          /\ flush_chain_(t, our_chain)
          /\ cleared' = cleared \ {t} /\ \A u \in Threads : pc[u] # "clear"
      BY <1>8 DEF PublishAll, NewHead, At, PcOK, network, Looked, Unlocked
    <2>2. CASE clear_chain(t, our_chain)
      <3>1. pc'[Main] = pc[Main] BY <1>0, <2>1, <2>2, ClearFacts
      <3> QED BY <1>0, <2>1, <2>2, <3>1, LinkClear DEF LinkInv
    <2>3. CASE Send(t, <<>>) /\ our_chain' = our_chain BY <1>0, <1>3, <2>1, <2>3
    <2> QED BY <1>0, <2>1, <2>2, <2>3, FlushLeaves
  <1>9. ASSUME NEW t \in Threads, ReadHead(t) PROVE LinkInv' BY <1>9, LinkHead
  <1>10. ASSUME NEW t \in Threads, ReadHeight(t) PROVE LinkInv'
    <2>1. /\ pc[t] = "height" /\ Send(t, to_send[t]) /\ to_send[t] \in Seq(Block)
          /\ UNCHANGED <<our_chain, our_head, given_up, orphans>>
          /\ cleared' = cleared \cup {u \in Threads : pc[u] = "others"}
      BY <1>10 DEF ReadHeight, At, TypeOK
    <2>2. \A u \in Threads : pc[u] # "clear" BY <2>1 DEF PcOK, Locking
    <2>3. Main \in cleared' <=> Main \in cleared BY <2>1 DEF PcOK
    <2> QED BY <1>3, <2>1, <2>2, <2>3
  <1>11. ASSUME NEW t \in Threads, Sent(t) PROVE LinkInv'
    <2>1. to_send[t] # <<>> /\ to_send[t] \in Seq(Block) /\ pc[t] = "send"
      BY <1>11 DEF Sent, At, PcOK, TypeOK
    <2>2. Tail(to_send[t]) \in Seq(Block) BY <2>1, SeqTail
    <2>3. Send(t, Tail(to_send[t])) /\ UNCHANGED <<our_chain, our_head, given_up, orphans, cleared>>
      BY <1>11 DEF Sent, private, ghosts
    <2>4. \A u \in Threads : pc[u] = "clear" => u # t BY <2>1
    <2>5. \A u \in Threads \ {t} : pc'[u] = pc[u] BY <2>2, <2>3, SendFacts
    <2>6. (\E u \in Threads : pc[u] = "clear") => \E u \in Threads : pc'[u] = "clear" BY <2>4, <2>5
    <2>7. pc[t] # "mined" /\ (Main \in cleared' <=> Main \in cleared) BY <2>1, <2>3
    <2> QED BY <1>3, <2>2, <2>3, <2>6, <2>7
  <1>12. CASE OnMined
    <2>1. /\ made' = made + 1 /\ parent'[made'] = our_head /\ item'[Main] = made' /\ Main \notin cleared'
          /\ UNCHANGED <<our_chain, our_head, given_up, orphans>>
          /\ \A u \in Threads : pc'[u] # "clear" => pc[u] # "clear"
      BY <1>0, <1>12, TypeStep DEF OnMined, TypeOK, private, At, Goto
    <2>2. \A i \in DOMAIN our_chain : parent'[our_chain[i]] = parent[our_chain[i]] BY ParentsStay
    <2>3. DOMAIN our_chain = 1 .. Len(our_chain) /\ Len(our_chain) \in Nat BY <1>0
    <2>4. our_chain # <<>> => Head(our_chain) = our_chain[1] /\ 1 \in DOMAIN our_chain BY <1>0
    <2>5. \A i \in 2 .. Len(our_chain) : parent'[our_chain[i]] = our_chain[i - 1]
      BY <2>2, <2>3 DEF LinkInv
    <2>6. our_head <= made' BY <2>1, BlockFacts DEF LinkInv, TypeOK
    <2> QED BY <2>1, <2>2, <2>4, <2>5, <2>6 DEF LinkInv
  <1>13. CASE OurBlock
    <2>1. pc[Main] = "mined" /\ members BY <1>0, <1>13 DEF OurBlock, At, PcOK
    <2>2. item[Main] \in Block /\ Mined(item[Main]) BY <1>0, <2>1 DEF TypeOK, Mined
    <2>3. item[Main] <= made BY <2>2 DEF PlaceInv, Places
    <2>4. Append(our_chain, item[Main]) \in Seq(Block) BY <2>2, SeqAppend DEF TypeOK
    <2>5. /\ UNCHANGED <<made, parent, given_up>> /\ our_head' = item[Main] /\ Unlocked
          /\ orphans' = (IF Main \in cleared THEN orphans \cup {item[Main]} ELSE orphans)
      BY <1>13 DEF OurBlock, network
    <2>6. CASE clear_chain(Main, Append(our_chain, item[Main]))
      <3>1. pc'[Main] # "mined" BY <1>0, <2>4, <2>6, ClearFacts
      <3> QED BY <1>0, <2>3, <2>4, <2>5, <2>6, <3>1, LinkClear
    <2>7. CASE our_chain' = Append(our_chain, item[Main]) /\ Send(Main, <<>>)
      <3>1. pc'[Main] # "mined" BY <1>0, <2>7, SendFacts
      <3> QED BY <2>1, <2>5, <2>7, <3>1, LinkAppend
    <2> QED BY <1>13, <2>1, <2>6, <2>7 DEF OurBlock, flush_chain_
  <1>14. CASE FlushChain
    <2>1. /\ pc[Main] = "idle" /\ UNCHANGED <<made, parent, our_head, given_up, orphans, cleared>>
          /\ flush_chain_(Main, our_chain) /\ \A u \in Threads : pc[u] # "clear"
      BY <1>14 DEF FlushChain, At, network, ghosts, Unlocked
    <2>2. CASE clear_chain(Main, our_chain)
      <3>1. pc'[Main] # "mined" BY <1>0, <2>1, <2>2, ClearFacts
      <3> QED BY <1>0, <2>1, <2>2, <3>1, LinkClear DEF LinkInv
    <2>3. CASE Send(Main, <<>>) /\ our_chain' = our_chain BY <1>0, <1>3, <2>1, <2>3
    <2> QED BY <1>0, <2>1, <2>2, <2>3, FlushLeaves
  <1>15. CASE UNCHANGED vars BY <1>15, LinkFrame DEF vars, private, ghosts
  <1> QED BY <1>1, <1>2, <1>4, <1>5, <1>6, <1>7, <1>8, <1>9, <1>10, <1>11, <1>12, <1>13, <1>14, <1>15, Steps
------------------------------------------------------------------------------
(* The theorems on the private chain. *)

ChainInv == TypeOK /\ PcOK /\ PlaceInv /\ OpenInv /\ LinkInv

\* The coordinator starts with no block of the members.
LEMMA ChainInit == Init => ChainInv
  <1> SUFFICES ASSUME Init PROVE ChainInv OBVIOUS
  <1>1. Genesis \in Block /\ Genesis = 0 /\ 0 \in Nat /\ Main \in Threads BY BlockFacts DEF Genesis
  <1>2. SequenceSet(<<>>) = {} /\ Distinct(<<>>) /\ <<>> \in Seq(Block) BY SeqSmall
  <1>3. TypeOK BY <1>1, <1>2 DEF Init, TypeOK, Place
  <1>4. PcOK BY <1>1 DEF Init, PcOK, Locking
  <1>5. PlaceInv
    <2>1. \A b \in Block : /\ ~Private(b) /\ ~Mined(b) /\ b \notin given_up /\ b \notin ours /\ sent[b] = 0
                           /\ \A t \in Threads : ~Sending(t, b)
      BY <1>1, <1>2 DEF Init, Private, Mined, Sending
    <2> QED BY <1>2, <2>1 DEF Init, PlaceInv, Places, OnePlace, SomePlace
  <1>6. OpenInv BY <1>1 DEF Init, OpenInv, Open
  <1>7. LinkInv BY <1>1 DEF Init, LinkInv
  <1> QED BY <1>3, <1>4, <1>5, <1>6, <1>7 DEF ChainInv

\* It is an invariant.
LEMMA ChainAlways == Spec => []ChainInv
  <1>1. ChainInv /\ [Next]_vars => ChainInv'
    BY TypeStep, PlaceStep, OpenStep, LinkStep DEF ChainInv
  <1> QED BY <1>1, ChainInit, PTL DEF Spec

\* A set of at most one element has 0 or 1 elements.
LEMMA AtMostOne ==
  ASSUME NEW S, \A x, y \in S : x = y
  PROVE  Cardinality(S) = IF S = {} THEN 0 ELSE 1
  <1>1. CASE S = {} BY <1>1, FS_EmptySet
  <1>2. CASE S # {}
    <2>1. PICK x \in S : TRUE BY <1>2
    <2>2. S = {x} BY <2>1
    <2> QED BY <1>2, <2>2, FS_Singleton
  <1> QED BY <1>1, <1>2

\* Whatever the threads do between their critical sections, a member's block is in one
\* place: no block is published twice (others_block, flush_chain and our_block all take
\* it out of the chain with m held), and none is lost on its way out of the chain.
THEOREM PublishedOnce == Spec => []InOnePlace
  <1>1. ASSUME ChainInv PROVE InOnePlace
    <2> SUFFICES ASSUME NEW b \in ours
                 PROVE  Cardinality({i \in DOMAIN our_chain : our_chain[i] = b})
                        + Cardinality({t \in Threads : b \in SequenceSet(to_send[t])})
                        + sent[b] + (IF b \in given_up THEN 1 ELSE 0)
                        + (IF pc[Main] = "mined" /\ item[Main] = b THEN 1 ELSE 0) = 1
      BY DEF InOnePlace
    <2>1. b \in Block /\ sent[b] \in Nat BY <1>1 DEF ChainInv, TypeOK
    <2>2. OnePlace(b) /\ SomePlace(b) /\ Distinct(our_chain) BY <1>1, <2>1 DEF ChainInv, PlaceInv
    <2> DEFINE I == {i \in DOMAIN our_chain : our_chain[i] = b}
               S == {t \in Threads : b \in SequenceSet(to_send[t])}
    <2>3. (I # {}) <=> Private(b) BY DEF Private, SequenceSet
    <2>4. (S # {}) <=> \E t \in Threads : Sending(t, b) BY DEF Sending
    <2>5. Cardinality(I) = IF Private(b) THEN 1 ELSE 0
      <3>1. \A i, j \in I : i = j BY <2>2 DEF Distinct
      <3> HIDE DEF I
      <3> QED BY <2>3, <3>1, AtMostOne
    <2>6. Cardinality(S) = IF \E t \in Threads : Sending(t, b) THEN 1 ELSE 0
      <3>1. \A t, u \in S : t = u BY <2>2 DEF OnePlace, Sending
      <3> HIDE DEF S
      <3> QED BY <2>4, <3>1, AtMostOne
    <2> HIDE DEF I, S
    <2>7. Cardinality(I) + Cardinality(S) + sent[b] + (IF b \in given_up THEN 1 ELSE 0)
          + (IF Mined(b) THEN 1 ELSE 0) = 1
      BY <2>1, <2>2, <2>5, <2>6 DEF OnePlace, SomePlace
    <2> QED BY <2>7 DEF I, S, Mined
  <1> QED BY <1>1, ChainAlways, PTL

\* The private chain is one branch on a base that has not been given up, for any number
\* of threads, unless the unlocked read of our_head in on_mined raced with a clear.
THEOREM OneBranch == Spec => []ChainLinked
  <1>1. ChainInv => ChainLinked BY DEF ChainInv, LinkInv, ChainLinked
  <1> QED BY <1>1, ChainAlways, PTL
------------------------------------------------------------------------------
(* The lengths of the coordinator's blocks. *)

\* The steps that change the coordinator's node.
LEMMA NodeSteps ==
  ASSUME TypeOK, PcOK, [Next]_vars
  PROVE  \/ UNCHANGED node
         \/ \E t \in Threads, b \in Block :
              parent' = parent /\ (WaitForParent(t, b) \/ InsertBlock(t, b))
  <1>1. ASSUME NEW t \in Threads, NEW b \in Block, Handles(t, b)
        PROVE  parent' = parent /\ (UNCHANGED node \/ WaitForParent(t, b) \/ InsertBlock(t, b))
    BY <1>1, HandleFacts DEF AlreadyHandled
  <1> QED BY <1>1, Steps DEF vars, OthersMine, IgnoreBlock, GiveUp, Publish, PublishNothing, PublishAll,
             NewHead, ReadHead, ReadHeight, Sent, OnMined, OurBlock, FlushChain

\* A handled block is one longer than its parent, and the head is the longest.
LEMMA LengthStep ==
  ASSUME TypeOK, PcOK, OpenInv, LengthInv, [Next]_vars
  PROVE  LengthInv'
  <1>0. Genesis \in Block BY BlockFacts
  <1>1. \A b \in Block : blockchain[b] # "absent" => parent'[b] = parent[b] BY OpenStable DEF OpenInv
  <1>2. \A b \in Block : parent[b] \in Block /\ lengths[b] \in Nat BY DEF TypeOK
  <1>3. CASE UNCHANGED node
    <2>1. UNCHANGED <<blockchain, lengths, head>> BY <1>3 DEF node
    <2>2. parent'[Genesis] = Genesis BY <1>0, <1>1 DEF LengthInv
    <2> QED BY <1>1, <2>1, <2>2 DEF LengthInv
  <1>4. ASSUME NEW t \in Threads, NEW c \in Block, parent' = parent, WaitForParent(t, c)
        PROVE  LengthInv'
    <2>1. UNCHANGED <<lengths, head, parent>> BY <1>4 DEF WaitForParent
    <2>2. \A b \in Block : blockchain'[b] = "handled" <=> blockchain[b] = "handled"
      BY <1>4 DEF WaitForParent, TypeOK
    <2> QED BY <1>0, <1>2, <2>1, <2>2 DEF LengthInv
  <1>5. ASSUME NEW t \in Threads, NEW c \in Block, parent' = parent, InsertBlock(t, c)
        PROVE  LengthInv'
    <2>1. parent' = parent /\ head \in Block BY <1>5 DEF TypeOK
    <2>2. blockchain[c] # "handled" /\ blockchain[parent[c]] = "handled" BY <1>5 DEF InsertBlock
    <2>3. \A b \in Block : blockchain'[b] = IF b = c THEN "handled" ELSE blockchain[b]
      BY <1>5 DEF InsertBlock, TypeOK
    <2>4. \A b \in Block : lengths'[b] = IF b = c THEN lengths[parent[c]] + 1 ELSE lengths[b]
      BY <1>5, <1>2 DEF InsertBlock, TypeOK
    <2>5. head' = IF lengths'[c] > lengths[head] THEN c ELSE head BY <1>5 DEF InsertBlock
    <2>6. c # Genesis /\ c # head /\ parent[c] # c BY <2>2 DEF LengthInv, OpenInv
    <2>7. ASSUME NEW b \in Block \ {Genesis}, blockchain'[b] = "handled"
          PROVE  blockchain'[parent[b]] = "handled" /\ lengths'[b] = lengths'[parent[b]] + 1
      <3>1. CASE b = c BY <1>2, <2>2, <2>3, <2>4, <2>6, <3>1
      <3>2. CASE b # c
        <4>1. blockchain[parent[b]] = "handled" /\ lengths[b] = lengths[parent[b]] + 1
          BY <2>3, <2>7, <3>2 DEF LengthInv
        <4>2. parent[b] # c BY <2>2, <4>1
        <4> QED BY <1>2, <2>3, <2>4, <3>2, <4>1, <4>2
      <3> QED BY <3>1, <3>2
    <2>8. ASSUME NEW b \in Block, blockchain'[b] = "handled" PROVE lengths'[b] <= lengths'[head']
      <3>1. lengths'[b] \in Nat /\ lengths[head] \in Nat /\ lengths'[c] \in Nat BY <1>2, <2>1, <2>4
      <3>2. b # c => lengths'[b] <= lengths[head] BY <2>3, <2>4, <2>8 DEF LengthInv
      <3>3. lengths'[head] = lengths[head] BY <2>1, <2>4, <2>6
      <3>4. CASE lengths'[c] > lengths[head] BY <2>5, <3>1, <3>2, <3>4
      <3>5. CASE ~(lengths'[c] > lengths[head]) BY <2>5, <3>1, <3>2, <3>3, <3>5
      <3> QED BY <3>4, <3>5
    <2>9. /\ lengths'[Genesis] = 1 /\ blockchain'[Genesis] = "handled" /\ parent'[Genesis] = Genesis
      BY <1>0, <2>1, <2>3, <2>4, <2>6 DEF LengthInv
    <2> QED BY <2>1, <2>7, <2>8, <2>9 DEF LengthInv
  <1> QED BY <1>3, <1>4, <1>5, NodeSteps

\* A block that has just been inserted on the head is the new head, and the head has no
\* handled child.
LEMMA ChildOfHead ==
  ASSUME TypeOK, OpenInv, LengthInv, NEW c \in Block, parent[c] = head, c # head
  PROVE  blockchain[c] # "handled" /\ blockchain[parent[c]] = "handled"
  <1>1. c # Genesis BY DEF LengthInv
  <1>2. lengths[c] \in Nat /\ lengths[head] \in Nat BY DEF TypeOK
  <1> QED BY <1>1, <1>2 DEF LengthInv, OpenInv
------------------------------------------------------------------------------
(* Who brings a block to the coordinator. *)

\* What is known stays known.
LEMMA KnownStable == ASSUME [Next]_vars, TypeOK, PcOK, NEW b, Known(b) PROVE Known(b)'
  <1>1. ours \subseteq ours' BY TreeGrows
  <1>2. blocks_seen \subseteq blocks_seen'
    <2>1. \A t \in Threads, c \in Block : Handles(t, c) => blocks_seen' = blocks_seen BY HandleFacts
    <2> QED BY <2>1, Steps DEF vars, OthersMine, IgnoreBlock, GiveUp, Publish, PublishNothing, PublishAll,
               NewHead, ReadHead, ReadHeight, Sent, OnMined, OurBlock, FlushChain
  <1> QED BY <1>1, <1>2 DEF Known

\* A thread that does nothing goes on bringing its block, also if it has fewer left.
LEMMA BringingStable ==
  ASSUME TypeOK, PcOK, OpenInv, [Next]_vars, NEW t \in Threads, NEW b, Bringing(t, b),
         pc'[t] = pc[t], item'[t] = item[t], todo'[t] \subseteq todo[t]
  PROVE  Bringing(t, b)'
  <1>1. \A c \in todo[t] : parent'[c] = parent[c] BY OpenStable DEF OpenInv, TypeOK
  <1> QED BY <1>1 DEF Bringing

\* A step in which one thread t leaves others_block, or was not in it, and the block it was
\* called for is known now.
LEMMA BringLeave ==
  ASSUME TypeOK, PcOK, PlaceInv, OpenInv, BringInv, [Next]_vars, UNCHANGED node,
         NEW t \in Threads, pc'[t] # "others",
         \A u \in Threads \ {t} : pc'[u] = pc[u] /\ item'[u] = item[u] /\ todo'[u] = todo[u],
         \A b \in todo'[t] : Known(b)',
         \A b \in Block : pc[t] = "others" /\ item[t] = b => Known(b)'
  PROVE  BringInv'
  <1>0. TypeOK' /\ PcOK' /\ PlaceInv' BY TypeStep, PlaceStep
  <1>1. /\ pc'[t] # "others"
        /\ \A u \in Threads \ {t} : pc'[u] = pc[u] /\ item'[u] = item[u] /\ todo'[u] = todo[u]
    OBVIOUS
  <1>2. ASSUME NEW b \in Block, NEW u \in Threads, Bringing(u, b)
        PROVE  Known(b)' \/ (u # t /\ Bringing(u, b)')
    <2>1. CASE u = t BY <1>2, <2>1 DEF Bringing
    <2>2. CASE u # t BY <1>1, <1>2, <2>2, BringingStable
    <2> QED BY <2>1, <2>2
  <1>3. ASSUME NEW b \in Block, Settled(b) PROVE Settled(b)'
    BY <1>1, <1>2, <1>3, KnownStable DEF Settled
  <1>4. \A b \in todo'[t] : Known(b)' OBVIOUS
  <1>5. UNCHANGED <<head, pending_blocks, blockchain>> BY DEF node
  <1>6. \A u \in Threads : \A b \in todo'[u] : (pc'[u] = "others" /\ item'[u] = b) \/ Settled(b)'
    <2> SUFFICES ASSUME NEW u \in Threads, NEW b \in todo'[u]
                 PROVE  (pc'[u] = "others" /\ item'[u] = b) \/ Settled(b)'
      OBVIOUS
    <2>1. CASE u = t BY <1>4, <2>1 DEF Settled
    <2>2. CASE u # t BY <1>0, <1>1, <1>3, <2>2 DEF BringInv, TypeOK
    <2> QED BY <2>1, <2>2
  <1>7. Known(head)' \/ \E u \in Threads : Bringing(u, head)'
    <2>1. PICK h \in Block : h = head BY DEF TypeOK
    <2>2. Known(h)' \/ \E u \in Threads : Bringing(u, h)' BY <1>2, <2>1, KnownStable DEF BringInv
    <2>3. head' = h BY <1>5, <2>1
    <2> QED BY <2>2, <2>3 DEF Known, Bringing
  <1>8. \A u \in Threads : pc'[u] = "others" =>
           /\ item'[u] # Genesis
           /\ item'[u] \in todo'[u] => todo'[u] = {item'[u]}
           /\ item'[u] \notin todo'[u] /\ todo'[u] # {} => blockchain'[item'[u]] = "handled"
    BY <1>1, <1>5 DEF BringInv
  <1>9. \A p \in Block : \A b \in pending_blocks'[p] : Settled(b)'
    BY <1>3, <1>5 DEF BringInv, TypeOK
  <1> QED BY <1>6, <1>7, <1>8, <1>9 DEF BringInv

\* The thread publishes the blocks of s.
LEMMA BringSend ==
  ASSUME TypeOK, PcOK, PlaceInv, OpenInv, BringInv, [Next]_vars, UNCHANGED node,
         NEW t \in Threads, NEW s \in Seq(Block), Send(t, s),
         \A b \in Block : pc[t] = "others" /\ item[t] = b => Known(b)'
  PROVE  BringInv'
  <1>0. PlaceInv' BY PlaceStep
  <1>1. /\ pc'[t] # "others"
        /\ \A u \in Threads \ {t} : pc'[u] = pc[u] /\ item'[u] = item[u] /\ todo'[u] = todo[u]
    BY SendFacts
  <1>2. \A b \in todo'[t] : Known(b)' BY <1>0, SendOpens DEF Known
  <1> QED BY <1>1, <1>2, BringLeave

\* The thread empties the chain, or hands it over, and has no block left to handle.
LEMMA BringFlush ==
  ASSUME TypeOK, PcOK, PlaceInv, OpenInv, BringInv, [Next]_vars, UNCHANGED node,
         NEW t \in Threads, NEW s \in Seq(Block), clear_chain(t, s) \/ flush_chain_(t, s), todo[t] = {},
         \A b \in Block : pc[t] = "others" /\ item[t] = b => Known(b)'
  PROVE  BringInv'
  <1>1. CASE clear_chain(t, s)
    <2>1. /\ pc'[t] # "others" /\ todo'[t] = {}
          /\ \A u \in Threads \ {t} : pc'[u] = pc[u] /\ item'[u] = item[u] /\ todo'[u] = todo[u]
      BY <1>1, ClearFacts
    <2> QED BY <2>1, BringLeave
  <1>2. CASE Send(t, <<>>) BY <1>2, BringSend, SeqSmall
  <1> QED BY <1>1, <1>2, FlushLeaves

\* A step that leaves the threads in others_block, and the blocks still to handle, alone.
LEMMA BringFrame ==
  ASSUME TypeOK, PcOK, OpenInv, BringInv, [Next]_vars, UNCHANGED <<node, todo>>,
         \A u \in Threads : (pc'[u] = pc[u] /\ item'[u] = item[u]) \/ (pc[u] # "others" /\ pc'[u] # "others")
  PROVE  BringInv'
  <1>1. UNCHANGED <<head, pending_blocks, blockchain>> BY DEF node
  <1>2. ASSUME NEW b \in Block, NEW u \in Threads, Bringing(u, b) PROVE Bringing(u, b)'
    BY <1>2, BringingStable DEF Bringing
  <1>3. ASSUME NEW b \in Block, Settled(b) PROVE Settled(b)'
    BY <1>2, <1>3, KnownStable DEF Settled
  <1>4. \A u \in Threads : \A b \in todo[u] : (pc'[u] = "others" /\ item'[u] = b) \/ Settled(b)'
    <2> SUFFICES ASSUME NEW u \in Threads, NEW b \in todo[u]
                 PROVE  (pc'[u] = "others" /\ item'[u] = b) \/ Settled(b)'
      OBVIOUS
    <2> QED BY <1>3 DEF BringInv, TypeOK
  <1>5. Known(head)' \/ \E u \in Threads : Bringing(u, head)'
    <2>1. PICK h \in Block : h = head BY DEF TypeOK
    <2>2. Known(h)' \/ \E u \in Threads : Bringing(u, h)' BY <1>2, <2>1, KnownStable DEF BringInv
    <2>3. head' = h BY <1>1, <2>1
    <2> QED BY <2>2, <2>3 DEF Known, Bringing
  <1>6. \A p \in Block : \A b \in pending_blocks[p] : Settled(b)' BY <1>3 DEF BringInv, TypeOK
  <1> QED BY <1>1, <1>4, <1>5, <1>6 DEF BringInv

\* A thread has handled c, without the blocks that waited for it, or has left c to wait.
LEMMA BringLess ==
  ASSUME TypeOK, PcOK, OpenInv, BringInv, [Next]_vars, NEW t \in Threads, NEW c \in Block,
         Handles(t, c), AlreadyHandled(t, c) \/ WaitForParent(t, c)
  PROVE  BringInv'
  <1>0. /\ \A u \in Threads \ {t} : pc'[u] = pc[u] /\ item'[u] = item[u] /\ todo'[u] = todo[u]
        /\ \/ c \in todo[t] /\ pc' = pc /\ item' = item
           \/ pc[t] = "idle" /\ todo[t] = {} /\ pc'[t] = "others" /\ item'[t] = c /\ c # Genesis
    BY HandleFacts
  <1>1. head' = head BY DEF AlreadyHandled, WaitForParent, node
  <1>2. todo'[t] = todo[t] \ {c} BY DEF AlreadyHandled, WaitForParent, TypeOK
  <1>3. ASSUME NEW b \in Block, NEW u \in Threads, Bringing(u, b)
        PROVE  Bringing(u, b)' /\ (todo[u] = {} => todo'[u] = {})
    <2>1. pc'[u] = pc[u] /\ item'[u] = item[u] BY <1>0, <1>3 DEF Bringing
    <2>2. todo'[u] \subseteq todo[u] BY <1>0, <1>2
    <2> QED BY <1>3, <2>1, <2>2, BringingStable
  <1>4. ASSUME NEW b \in Block, Settled(b) PROVE Settled(b)'
    BY <1>3, <1>4, KnownStable DEF Settled
  <1>5. ASSUME NEW u \in Threads, NEW b \in todo'[u]
        PROVE  (pc'[u] = "others" /\ item'[u] = b) \/ Settled(b)'
    <2>1. b \in todo[u] /\ pc'[u] = pc[u] /\ item'[u] = item[u] BY <1>0, <1>2, <1>5
    <2>2. b \in Block BY <2>1 DEF TypeOK
    <2> QED BY <1>4, <2>1, <2>2 DEF BringInv
  <1>6. Known(head)' \/ \E u \in Threads : Bringing(u, head)'
    <2>1. PICK h \in Block : h = head BY DEF TypeOK
    <2>2. Known(h)' \/ \E u \in Threads : Bringing(u, h)' BY <1>3, <2>1, KnownStable DEF BringInv
    <2>3. head' = h BY <1>1, <2>1
    <2> QED BY <2>2, <2>3 DEF Known, Bringing
  <1>7. ASSUME WaitForParent(t, c) PROVE Settled(c)'
    <2>1. CASE Settled(c) BY <1>4, <2>1
    <2>2. CASE pc'[t] = "others" /\ item'[t] = c
      <3>1. todo'[t] = {} BY <1>0, <1>2, <2>2 DEF BringInv
      <3>2. Bringing(t, c)' BY <2>2, <3>1 DEF Bringing
      <3> QED BY <3>1, <3>2 DEF Settled
    <2> QED BY <1>0, <2>1, <2>2 DEF BringInv
  <1>8. ASSUME NEW p \in Block, NEW b \in pending_blocks'[p] PROVE Settled(b)'
    <2>1. b \in pending_blocks[p] \/ (WaitForParent(t, c) /\ b = c)
      <3>1. CASE AlreadyHandled(t, c) BY <1>8, <3>1 DEF AlreadyHandled, node
      <3>2. CASE WaitForParent(t, c)
        <4>1. b \in pending_blocks[p] \/ b = c BY <1>8, <3>2 DEF WaitForParent, TypeOK
        <4> QED BY <3>2, <4>1
      <3> QED BY <3>1, <3>2
    <2> QED BY <1>4, <1>7, <2>1 DEF BringInv, TypeOK
  <1>9. \A b \in Block : blockchain[b] = "handled" => blockchain'[b] = "handled"
    BY DEF AlreadyHandled, WaitForParent, node, TypeOK
  <1>10. ASSUME NEW u \in Threads, pc'[u] = "others"
         PROVE  /\ item'[u] # Genesis
                /\ item'[u] \in todo'[u] => todo'[u] = {item'[u]}
                /\ item'[u] \notin todo'[u] /\ todo'[u] # {} => blockchain'[item'[u]] = "handled"
    <2>1. CASE pc'[u] = pc[u] /\ item'[u] = item[u]
      <3>1. /\ item[u] # Genesis /\ item[u] \in Block
            /\ item[u] \in todo[u] => todo[u] = {item[u]}
            /\ item[u] \notin todo[u] /\ todo[u] # {} => blockchain'[item[u]] = "handled"
        BY <1>9, <1>10, <2>1 DEF BringInv, TypeOK
      <3>2. CASE u # t BY <1>0, <2>1, <3>1, <3>2
      <3>3. CASE u = t BY <1>0, <1>2, <2>1, <3>1, <3>3
      <3> QED BY <3>2, <3>3
    <2>2. CASE u = t /\ pc[t] = "idle" /\ todo[t] = {} /\ item'[t] = c /\ c # Genesis
      BY <1>2, <2>2
    <2> QED BY <1>0, <2>1, <2>2
  <1> QED BY <1>5, <1>6, <1>8, <1>10 DEF BringInv

\* A block that waits for an unhandled block has not been handled.
LEMMA WaitingUnhandled ==
  ASSUME TypeOK, OpenInv, LengthInv, NEW c \in Block, blockchain[c] # "handled", NEW b \in pending_blocks[c]
  PROVE  b \in Block /\ parent[b] = c /\ blockchain[b] # "handled"
  <1>1. b \in Block /\ parent[b] = c BY DEF OpenInv, TypeOK
  <1>2. b # Genesis BY <1>1 DEF LengthInv
  <1> QED BY <1>1, <1>2 DEF LengthInv

\* A thread has inserted c, and goes on with the blocks that waited for it.
LEMMA BringInsert ==
  ASSUME TypeOK, PcOK, OpenInv, LengthInv, BringInv, [Next]_vars, NEW t \in Threads, NEW c \in Block,
         Handles(t, c), InsertBlock(t, c)
  PROVE  BringInv'
  <1>0. /\ \A u \in Threads \ {t} : pc'[u] = pc[u] /\ item'[u] = item[u] /\ todo'[u] = todo[u]
        /\ \/ c \in todo[t] /\ pc' = pc /\ item' = item
           \/ pc[t] = "idle" /\ todo[t] = {} /\ pc'[t] = "others" /\ item'[t] = c /\ c # Genesis
        /\ parent' = parent
    BY HandleFacts
  <1>1. blockchain[c] # "handled" /\ blockchain[parent[c]] = "handled" /\ parent[c] # c
    BY DEF InsertBlock
  <1>2. todo'[t] = (todo[t] \ {c}) \cup pending_blocks[c] BY DEF InsertBlock, TypeOK
  <1>3. \A b \in pending_blocks[c] : b \in Block /\ parent[b] = c /\ blockchain[b] # "handled" /\ b # c
    BY <1>1, WaitingUnhandled
  <1>4. ASSUME NEW b \in Block, NEW u \in Threads, u # t, Bringing(u, b)
        PROVE  Bringing(u, b)' /\ todo'[u] = todo[u]
    BY <1>0, <1>4, BringingStable
  <1>5. ASSUME NEW b \in Block, Settled(b) PROVE Settled(b)'
    <2>1. ASSUME NEW u \in Threads, Bringing(u, b), todo[u] = {} PROVE u # t
      BY <1>0, <2>1 DEF Bringing
    <2> QED BY <1>4, <1>5, <2>1, KnownStable DEF Settled
  <1>6. ASSUME NEW u \in Threads, NEW b \in todo'[u]
        PROVE  (pc'[u] = "others" /\ item'[u] = b) \/ Settled(b)'
    <2>1. CASE u = t /\ b \in pending_blocks[c] BY <1>3, <1>5, <2>1 DEF BringInv
    <2>2. CASE b \in todo[u]
      <3>1. b \in Block BY <2>2 DEF TypeOK
      <3>2. pc'[u] = pc[u] /\ item'[u] = item[u] BY <1>0, <2>2
      <3> QED BY <1>5, <2>2, <3>1, <3>2 DEF BringInv
    <2> QED BY <1>0, <1>2, <1>6, <2>1, <2>2
  <1>7. ASSUME pc'[t] = "others", item'[t] = c PROVE Bringing(t, c)'
    <2>1. todo'[t] = pending_blocks[c] BY <1>0, <1>2, <1>7 DEF BringInv
    <2> QED BY <1>0, <1>3, <1>7, <2>1 DEF Bringing
  <1>8. Known(head)' \/ \E u \in Threads : Bringing(u, head)'
    <2>1. PICK h \in Block : h = head BY DEF TypeOK
    <2>2. CASE head' = c
      <3>1. Known(c)' \/ \E u \in Threads : Bringing(u, c)'
        <4>1. CASE pc'[t] = "others" /\ item'[t] = c BY <1>7, <4>1
        <4>2. CASE Settled(c) BY <1>5, <4>2 DEF Settled
        <4> QED BY <1>0, <4>1, <4>2 DEF BringInv
      <3> QED BY <2>2, <3>1 DEF Known, Bringing
    <2>3. CASE head' # c
      <3>1. head' = h /\ ~(lengths[parent[c]] + 1 > lengths[h])
        BY <2>1, <2>3 DEF InsertBlock, TypeOK
      <3>2. ~Bringing(t, h)
        <4>1. parent[c] # h BY <2>1, <3>1 DEF TypeOK
        <4> QED BY <1>0, <4>1 DEF Bringing
      <3>3. Known(h)' \/ \E u \in Threads : Bringing(u, h)'
        BY <1>4, <2>1, <3>2, KnownStable DEF BringInv
      <3> QED BY <3>1, <3>3 DEF Known, Bringing
    <2> QED BY <2>2, <2>3
  <1>9. ASSUME NEW p \in Block, NEW b \in pending_blocks'[p] PROVE Settled(b)'
    <2>1. b \in pending_blocks[p] BY <1>9 DEF InsertBlock, TypeOK
    <2> QED BY <1>5, <2>1 DEF BringInv, TypeOK
  <1>10. blockchain'[c] = "handled"
         /\ \A b \in Block : blockchain[b] = "handled" => blockchain'[b] = "handled"
    BY DEF InsertBlock, TypeOK
  <1>11. ASSUME NEW u \in Threads, pc'[u] = "others"
         PROVE  /\ item'[u] # Genesis
                /\ item'[u] \in todo'[u] => todo'[u] = {item'[u]}
                /\ item'[u] \notin todo'[u] /\ todo'[u] # {} => blockchain'[item'[u]] = "handled"
    <2>1. CASE pc'[u] = pc[u] /\ item'[u] = item[u] /\ (u = t => c \in todo[t])
      <3>1. /\ item[u] # Genesis /\ item[u] \in Block
            /\ item[u] \in todo[u] => todo[u] = {item[u]}
            /\ item[u] \notin todo[u] /\ todo[u] # {} => blockchain[item[u]] = "handled"
        BY <1>11, <2>1 DEF BringInv, TypeOK
      <3>2. CASE u # t BY <1>0, <1>10, <2>1, <3>1, <3>2
      <3>3. CASE u = t /\ item[u] = c BY <1>2, <1>3, <1>10, <2>1, <3>1, <3>3
      <3>4. CASE u = t /\ item[u] # c
        <4>1. item[u] \notin todo[u] /\ blockchain[item[u]] = "handled" BY <2>1, <3>1, <3>4
        <4> QED BY <1>1, <1>2, <1>3, <1>10, <2>1, <3>1, <3>4, <4>1
      <3> QED BY <3>2, <3>3, <3>4
    <2>2. CASE u = t /\ todo[t] = {} /\ item'[t] = c /\ c # Genesis
      BY <1>2, <1>3, <1>10, <2>2
    <2> QED BY <1>0, <2>1, <2>2
  <1> QED BY <1>6, <1>8, <1>9, <1>11 DEF BringInv

\* The block that a thread was called for is known once the thread leaves others_block.
LEMMA LeaveKnown ==
  ASSUME TypeOK, [Next]_vars, NEW t \in Threads,
         IgnoreBlock(t) \/ NewHead(t), NEW b \in Block, item[t] = b
  PROVE  Known(b)'
  BY DEF IgnoreBlock, NewHead, Ignored, Known, network

\* Every step keeps who brings what.
LEMMA BringStep ==
  ASSUME TypeOK, PcOK, PlaceInv, OpenInv, LengthInv, BringInv, [Next]_vars
  PROVE  BringInv'
  <1>0. Main \in Threads /\ <<>> \in Seq(Block) /\ our_chain \in Seq(Block) BY BlockFacts, SeqSmall DEF TypeOK
  <1>1. ASSUME NEW p \in Block, OthersMine(p) PROVE BringInv'
    BY <1>1, BringFrame DEF OthersMine
  <1>3. ASSUME NEW t \in Threads, NEW b \in Block, Handles(t, b) PROVE BringInv'
    BY <1>3, HandleFacts, BringLess, BringInsert
  <1>4. ASSUME NEW t \in Threads, IgnoreBlock(t) PROVE BringInv'
    BY <1>0, <1>4, LeaveKnown, BringSend DEF IgnoreBlock
  <1>5. ASSUME NEW t \in Threads, GiveUp(t) PROVE BringInv'
    <2>1. NewHead(t) /\ clear_chain(t, <<>>) BY <1>5 DEF GiveUp
    <2>2. UNCHANGED node /\ todo[t] = {} BY <2>1 DEF NewHead
    <2> QED BY <1>0, <2>1, <2>2, LeaveKnown, BringFlush
  <1>6. ASSUME NEW t \in Threads, Publish(t) PROVE BringInv'
    <2>1. NewHead(t) /\ \E s \in Seq(Block) : Send(t, s) BY <1>6, PublishFirstType DEF Publish
    <2>2. UNCHANGED node BY <2>1 DEF NewHead
    <2> QED BY <2>1, <2>2, LeaveKnown, BringSend
  <1>7. ASSUME NEW t \in Threads, PublishNothing(t) PROVE BringInv'
    BY <1>7, BringFrame DEF PublishNothing, NewHead
  <1>8. ASSUME NEW t \in Threads, PublishAll(t) PROVE BringInv'
    <2>1. NewHead(t) /\ flush_chain_(t, our_chain) BY <1>8 DEF PublishAll
    <2>2. UNCHANGED node /\ todo[t] = {} BY <2>1 DEF NewHead
    <2> QED BY <1>0, <2>1, <2>2, LeaveKnown, BringFlush
  <1>9. ASSUME NEW t \in Threads, Sent(t) PROVE BringInv'
    <2>1. to_send[t] # <<>> /\ to_send[t] \in Seq(Block) BY <1>9 DEF Sent, At, PcOK, TypeOK
    <2>2. Tail(to_send[t]) \in Seq(Block) BY <2>1, SeqTail
    <2> QED BY <1>9, <2>2, BringSend DEF Sent, At
  <1>a. ASSUME NEW t \in Threads, ReadHead(t) PROVE BringInv'
    <2>1. \A u \in Threads : (pc'[u] = pc[u] /\ item'[u] = item[u]) \/ (pc[u] # "others" /\ pc'[u] # "others")
      BY <1>a DEF ReadHead, At, Goto, TypeOK
    <2> QED BY <1>a, <2>1, BringFrame DEF ReadHead
  <1>b. ASSUME NEW t \in Threads, ReadHeight(t) PROVE BringInv'
    <2>1. to_send[t] \in Seq(Block) BY DEF TypeOK
    <2> QED BY <1>b, <2>1, BringSend DEF ReadHeight, At
  <1>10. CASE OnMined
    <2>1. \A u \in Threads : (pc'[u] = pc[u] /\ item'[u] = item[u]) \/ (pc[u] # "others" /\ pc'[u] # "others")
      BY <1>10 DEF OnMined, At, Goto, TypeOK
    <2> QED BY <1>10, <2>1, BringFrame DEF OnMined
  <1>11. CASE OurBlock
    <2>1. item[Main] \in Block BY <1>0 DEF TypeOK
    <2>2. Append(our_chain, item[Main]) \in Seq(Block) BY <2>1, SeqAppend DEF TypeOK
    <2>3. pc[Main] = "mined" /\ todo[Main] = {} /\ UNCHANGED node BY <1>0, <1>11 DEF OurBlock, At, PcOK
    <2> QED BY <1>0, <1>11, <2>2, <2>3, BringSend, BringFlush DEF OurBlock
  <1>12. CASE FlushChain
    <2>1. pc[Main] = "idle" /\ todo[Main] = {} /\ UNCHANGED node BY <1>0, <1>12 DEF FlushChain, At, PcOK
    <2> QED BY <1>0, <1>12, <2>1, BringFlush DEF FlushChain
  <1>13. CASE UNCHANGED vars BY <1>13, BringFrame DEF vars
  <1> QED BY <1>1, <1>3, <1>4, <1>5, <1>6, <1>7, <1>8, <1>9, <1>a, <1>b, <1>10, <1>11, <1>12, <1>13, Steps
------------------------------------------------------------------------------
(* The height of the published part. *)

\* A step that leaves the chain and the head alone: a thread that brings the head goes on,
\* or the head is known now.
LEMMA HeightFrame ==
  ASSUME TypeOK, PcOK, HeightInv, [Next]_vars,
         UNCHANGED <<our_chain, starting_height, published_blocks, lengths, head>>,
         Unlocked' => Unlocked,
         \A u \in Threads, b \in Block : u \in cleared /\ head = b /\ Bringing(u, b) =>
            Known(b)' \/ (u \in cleared' /\ Bringing(u, b)')
  PROVE  HeightInv'
  <1>1. PICK h \in Block : h = head BY DEF TypeOK
  <1>2. Known(h) => Known(h)' BY KnownStable
  <1>3. starting_height + published_blocks \in Nat /\ lengths[h] \in Nat BY DEF TypeOK
  <1>4. head' = h /\ cleared \subseteq Threads BY <1>1 DEF TypeOK
  <1>5. ASSUME Unlocked', our_chain = <<>>
        PROVE  \/ Known(h)' \/ starting_height + published_blocks < lengths[h]
               \/ published_blocks = 0 /\ starting_height = lengths[h] /\ \E u \in cleared' : Bringing(u, h)'
    BY <1>1, <1>2, <1>4, <1>5 DEF HeightInv
  <1>6. ASSUME Unlocked', our_chain = <<>>
        PROVE  \/ Known(head)' \/ starting_height + published_blocks < lengths[head]
               \/ published_blocks = 0 /\ starting_height = lengths[head] /\ \E u \in cleared' : Bringing(u, head)'
    BY <1>1, <1>4, <1>5, <1>6 DEF Known, Bringing
  <1>7. ASSUME our_chain # <<>>
        PROVE  starting_height + published_blocks <= lengths[h] + (IF Known(h)' THEN 1 ELSE 0)
    BY <1>1, <1>2, <1>3, <1>7 DEF HeightInv
  <1>8. ASSUME our_chain # <<>>
        PROVE  starting_height + published_blocks <= lengths[head] + (IF Known(head)' THEN 1 ELSE 0)
    BY <1>1, <1>4, <1>7, <1>8 DEF Known
  <1> QED BY <1>6, <1>8 DEF HeightInv

\* Nothing is claimed while a thread is in clear_chain.
LEMMA HeightLocked ==
  ASSUME our_chain' = <<>>, NEW t \in Threads, pc'[t] \in {"clear", "height"}
  PROVE  HeightInv'
  BY DEF HeightInv, Unlocked

\* At the end of clear_chain the head is known, or a thread that has looked at the
\* coordinator before the last read still brings it.
LEMMA HeightRead ==
  ASSUME TypeOK, PcOK, BringInv', NEW t \in Threads, ReadHeight(t)
  PROVE  HeightInv'
  <1>1. /\ starting_height' = lengths[head] /\ UNCHANGED <<our_chain, published_blocks, lengths, head>>
        /\ Send(t, to_send[t]) /\ cleared' = cleared \cup {u \in Threads : pc[u] = "others"}
        /\ pc[t] = "height"
    BY DEF ReadHeight, At, node
  <1>2. our_chain = <<>> /\ published_blocks = 0 BY <1>1 DEF PcOK, Locking
  <1>3. to_send[t] \in Seq(Block) BY DEF TypeOK
  <1>4. \A u \in Threads : pc'[u] = "others" => pc[u] = "others" BY <1>1, <1>3, SendFacts
  <1>5. Known(head)' \/ \E u \in cleared' : Bringing(u, head)' BY <1>1, <1>4 DEF BringInv, Bringing
  <1>6. starting_height' + published_blocks' <= lengths'[head'] BY <1>1, <1>2 DEF TypeOK
  <1> QED BY <1>1, <1>2, <1>5, <1>6 DEF HeightInv

\* A block is inserted: a new head is longer, and no thread that brings the head can
\* insert a block that is not.
LEMMA HeightInsert ==
  ASSUME TypeOK, PcOK, OpenInv, LengthInv, HeightInv, [Next]_vars,
         NEW t \in Threads, NEW c \in Block, Handles(t, c), InsertBlock(t, c)
  PROVE  HeightInv'
  <1>1. /\ UNCHANGED <<our_chain, starting_height, published_blocks>>
        /\ blockchain[c] # "handled" /\ cleared' = cleared \ {t}
        /\ \A u \in Threads \ {t} : pc'[u] = pc[u] /\ item'[u] = item[u] /\ todo'[u] = todo[u]
        /\ c \in todo[t] \/ pc[t] = "idle"
        /\ \A u \in Threads : pc'[u] # pc[u] => pc[u] = "idle"
    BY HandleFacts DEF InsertBlock
  <1>2. Unlocked' => Unlocked BY <1>1 DEF Unlocked
  <1>3. PICK h \in Block : h = head BY DEF TypeOK
  <1>4. c # h /\ lengths'[h] = lengths[h] /\ lengths'[c] = lengths[parent[c]] + 1
    BY <1>1, <1>3 DEF InsertBlock, TypeOK, OpenInv
  <1>5. /\ starting_height + published_blocks \in Nat /\ lengths[h] \in Nat
        /\ parent[c] \in Block /\ lengths[parent[c]] \in Nat
    BY DEF TypeOK
  <1>6. CASE lengths'[c] > lengths[h]
    <2>1. head' = c BY <1>3, <1>6 DEF InsertBlock
    <2>2. /\ our_chain # <<>> => starting_height + published_blocks <= lengths[h] + 1
          /\ Unlocked /\ our_chain = <<>> => starting_height + published_blocks <= lengths[h]
      BY <1>3, <1>5 DEF HeightInv
    <2> QED BY <1>1, <1>2, <1>4, <1>5, <1>6, <2>1, <2>2 DEF HeightInv
  <1>7. CASE ~(lengths'[c] > lengths[h])
    <2>1. head' = head BY <1>3, <1>7 DEF InsertBlock
    <2>2. ~Bringing(t, h)
      <3>1. parent[c] # h BY <1>4, <1>5, <1>7
      <3> QED BY <1>1, <3>1 DEF Bringing
    <2>3. \A u \in Threads : u \in cleared /\ Bringing(u, h) => u \in cleared' /\ Bringing(u, h)'
      BY <1>1, <2>2, BringingStable
    <2>4. Known(h) => Known(h)' BY KnownStable
    <2>5. cleared \subseteq Threads BY DEF TypeOK
    <2>6. ASSUME Unlocked', our_chain = <<>>
          PROVE  /\ starting_height + published_blocks <= lengths[h]
                 /\ \/ Known(head)' \/ starting_height + published_blocks < lengths[h]
                    \/ /\ published_blocks = 0 /\ starting_height = lengths[h]
                       /\ \E u \in cleared' : Bringing(u, head)'
      <3>1. \/ Known(h)' \/ starting_height + published_blocks < lengths[h]
            \/ published_blocks = 0 /\ starting_height = lengths[h] /\ \E u \in cleared' : Bringing(u, h)'
        BY <1>2, <1>3, <2>3, <2>4, <2>5, <2>6 DEF HeightInv
      <3> QED BY <1>2, <1>3, <2>1, <2>6, <3>1 DEF HeightInv, Known, Bringing
    <2>7. ASSUME our_chain # <<>>
          PROVE  starting_height + published_blocks <= lengths[h] + (IF Known(head)' THEN 1 ELSE 0)
      <3>1. starting_height + published_blocks <= lengths[h] + (IF Known(h)' THEN 1 ELSE 0)
        BY <1>3, <1>5, <2>4, <2>7 DEF HeightInv
      <3> QED BY <1>3, <2>1, <3>1 DEF Known
    <2> QED BY <1>1, <1>3, <1>4, <2>1, <2>6, <2>7 DEF HeightInv
  <1> QED BY <1>6, <1>7

\* The head is new to others_block when the branches are compared.
LEMMA NewHeadUnknown ==
  ASSUME TypeOK, BringInv, NEW t \in Threads, NewHead(t)
  PROVE  item[t] = head /\ ~Known(head) /\ Unlocked
  BY DEF NewHead, At, Ignored, NotHead, Known, BringInv

\* The first block is published for a head that was new: the published part is at most one
\* higher than that head, and not higher if there is no other private block.
LEMMA HeightPublish ==
  ASSUME TypeOK, PcOK, BringInv, HeightInv, [Next]_vars, NEW t \in Threads, Publish(t)
  PROVE  HeightInv'
  <1>1. /\ NewHead(t) /\ our_chain # <<>> /\ our_chain' = Tail(our_chain)
        /\ starting_height' = starting_height /\ published_blocks' = published_blocks + 1
        /\ UNCHANGED <<lengths, head>>
    BY DEF Publish, PublishFirst, NewHead, node
  <1>2. PICK h \in Block : h = head BY DEF TypeOK
  <1>3. item[t] = h /\ ~Known(h) BY <1>1, <1>2, NewHeadUnknown
  <1>4. Known(h)' BY <1>1, <1>3, LeaveKnown
  <1>5. Known(head)' BY <1>1, <1>2, <1>4 DEF Known
  <1>6. PICK n \in Nat : n = Len(our_chain) BY DEF TypeOK
  <1>7. PICK f \in Nat : f = starting_height + published_blocks BY DEF TypeOK
  <1>8. PICK l \in Nat : l = lengths[h] BY DEF TypeOK
  <1>9. f <= l BY <1>1, <1>2, <1>3, <1>7, <1>8 DEF HeightInv
  <1>10. f + n = l \/ f + n > l + 1
    <2>1. starting_height + n + published_blocks = f + n BY <1>6, <1>7 DEF TypeOK
    <2> QED BY <1>2, <1>3, <1>6, <1>8, <2>1 DEF Publish, Height
  <1>11. starting_height' + published_blocks' = f + 1 BY <1>1, <1>7 DEF TypeOK
  <1>12. our_chain' = <<>> => n = 1
    <2>1. our_chain \in Seq(Block) BY DEF TypeOK
    <2>2. Len(Tail(our_chain)) = n - 1 BY <1>1, <1>6, <2>1
    <2>3. Len(<<>>) = 0 OBVIOUS
    <2> QED BY <1>1, <1>6, <2>2, <2>3
  <1>13. lengths'[head'] = l BY <1>1, <1>2, <1>8
  <1>14. our_chain' = <<>> => f + 1 <= l
    <2>1. n = 1 => f + 1 <= l BY <1>7, <1>8, <1>9, <1>10
    <2> QED BY <1>12, <2>1
  <1>15. f + 1 <= l + 1 BY <1>7, <1>8, <1>9
  <1> QED BY <1>5, <1>11, <1>13, <1>14, <1>15 DEF HeightInv

\* Every step keeps the published part's height.
LEMMA HeightStep ==
  ASSUME TypeOK, PcOK, PlaceInv, OpenInv, LengthInv, BringInv, HeightInv, [Next]_vars
  PROVE  HeightInv'
  <1>0. Main \in Threads /\ <<>> \in Seq(Block) /\ our_chain \in Seq(Block) BY BlockFacts, SeqSmall DEF TypeOK
  <1>b. ASSUME UNCHANGED <<our_chain, starting_height, published_blocks, lengths, head>>,
               NEW t \in Threads, NEW s \in Seq(Block), Send(t, s), ~Locking(t), cleared \ {t} \subseteq cleared',
               \A b \in Block : pc[t] = "others" /\ item[t] = b => Known(b)'
        PROVE  HeightInv'
    <2>1. ASSUME NEW u \in Threads, NEW b \in Block, u \in cleared, Bringing(u, b)
          PROVE  Known(b)' \/ (u \in cleared' /\ Bringing(u, b)')
      <3>1. CASE u = t BY <1>b, <2>1, <3>1 DEF Bringing
      <3>2. CASE u # t
        <4>1. pc'[u] = pc[u] /\ item'[u] = item[u] /\ todo'[u] = todo[u] BY <1>b, <3>2, SendFacts
        <4> QED BY <1>b, <2>1, <3>2, <4>1, BringingStable
      <3> QED BY <3>1, <3>2
    <2>2. Unlocked' => Unlocked BY <1>b, SendFacts DEF Unlocked, Locking
    <2> QED BY <1>b, <2>1, <2>2, HeightFrame
  <1>c. ASSUME NEW t \in Threads, NEW s \in Seq(Block), clear_chain(t, s) PROVE HeightInv'
    BY <1>c, ClearFacts, HeightLocked
  <1>d. ASSUME UNCHANGED <<our_chain, starting_height, published_blocks, lengths, head, cleared, pc, item, todo>>
        PROVE  HeightInv'
    <2>1. \A u \in Threads, b \in Block : u \in cleared /\ Bringing(u, b) => u \in cleared' /\ Bringing(u, b)'
      BY <1>d, BringingStable
    <2>2. Unlocked' => Unlocked BY <1>d DEF Unlocked
    <2> QED BY <1>d, <2>1, <2>2, HeightFrame
  <1>1. ASSUME NEW p \in Block, OthersMine(p) PROVE HeightInv'
    BY <1>1, <1>d DEF OthersMine, node, private, ghosts
  <1>3. ASSUME NEW t \in Threads, NEW c \in Block, Handles(t, c), AlreadyHandled(t, c) \/ WaitForParent(t, c)
        PROVE  HeightInv'
    <2>1. /\ UNCHANGED <<our_chain, starting_height, published_blocks, lengths, head>>
          /\ cleared' = cleared \ {t}
          /\ \A u \in Threads \ {t} : pc'[u] = pc[u] /\ item'[u] = item[u] /\ todo'[u] = todo[u]
          /\ c \in todo[t] \/ pc[t] = "idle"
          /\ \A u \in Threads : pc'[u] # pc[u] => pc[u] = "idle"
      BY <1>3, HandleFacts DEF AlreadyHandled, WaitForParent, node
    <2>2. Unlocked' => Unlocked BY <2>1 DEF Unlocked
    <2>3. ~Bringing(t, head)
      <3>1. SUFFICES ASSUME Bringing(t, head) PROVE FALSE OBVIOUS
      <3>2. parent[c] = head /\ c # head BY <2>1, <3>1 DEF Bringing
      <3>3. blockchain[c] # "handled" /\ blockchain[parent[c]] = "handled" BY <3>2, ChildOfHead
      <3> QED BY <1>3, <3>3 DEF AlreadyHandled, WaitForParent
    <2>4. \A u \in Threads, b \in Block : u \in cleared /\ head = b /\ Bringing(u, b) =>
            u \in cleared' /\ Bringing(u, b)'
      BY <2>1, <2>3, BringingStable
    <2> QED BY <2>1, <2>2, <2>4, HeightFrame
  <1>4. ASSUME NEW t \in Threads, NEW c \in Block, Handles(t, c) PROVE HeightInv'
    BY <1>3, <1>4, HandleFacts, HeightInsert
  <1>5. ASSUME NEW t \in Threads, IgnoreBlock(t) PROVE HeightInv'
    <2>1. /\ UNCHANGED <<our_chain, starting_height, published_blocks, lengths, head>>
          /\ Send(t, <<>>) /\ cleared' = cleared \ {t} /\ ~Locking(t)
      BY <1>5, UnlockedIs DEF IgnoreBlock, Looked, node, private
    <2> QED BY <1>0, <1>5, <1>b, <2>1, LeaveKnown
  <1>6. ASSUME NEW t \in Threads, GiveUp(t) PROVE HeightInv'
    BY <1>0, <1>6, <1>c DEF GiveUp
  <1>7. ASSUME NEW t \in Threads, Publish(t) PROVE HeightInv' BY <1>7, HeightPublish
  <1>8. ASSUME NEW t \in Threads, PublishNothing(t) PROVE HeightInv'
    BY <1>8, <1>d DEF PublishNothing, NewHead, node, private, ghosts
  <1>9. ASSUME NEW t \in Threads, PublishAll(t) PROVE HeightInv'
    <2>1. NewHead(t) /\ flush_chain_(t, our_chain) /\ UNCHANGED node /\ cleared' = cleared \ {t} /\ ~Locking(t)
      BY <1>9, UnlockedIs DEF PublishAll, NewHead, Looked
    <2>2. CASE clear_chain(t, our_chain) BY <1>0, <1>c, <2>2
    <2>3. CASE Send(t, <<>>) /\ our_chain' = our_chain /\ UNCHANGED <<published_blocks, starting_height>>
      BY <1>0, <1>b, <2>1, <2>3, LeaveKnown DEF node
    <2> QED BY <1>0, <2>1, <2>2, <2>3, FlushLeaves
  <1>10. ASSUME NEW t \in Threads, Sent(t) PROVE HeightInv'
    <2>1. to_send[t] # <<>> /\ to_send[t] \in Seq(Block) /\ pc[t] = "send"
      BY <1>10 DEF Sent, At, PcOK, TypeOK
    <2>2. Tail(to_send[t]) \in Seq(Block) BY <2>1, SeqTail
    <2>3. ~Locking(t) BY <2>1 DEF Locking
    <2> QED BY <1>10, <1>b, <2>1, <2>2, <2>3 DEF Sent, node, private, ghosts
  <1>a. ASSUME NEW t \in Threads, ReadHead(t) PROVE HeightInv'
    <2>1. our_chain' = <<>> BY <1>a DEF ReadHead, At, PcOK, Locking
    <2>2. pc'[t] = "height" BY <1>a DEF ReadHead, Goto, TypeOK
    <2> QED BY <2>1, <2>2, HeightLocked
  <1>e. ASSUME NEW t \in Threads, ReadHeight(t) PROVE HeightInv' BY <1>e, BringStep, HeightRead
  <1>11. CASE OnMined
    <2>1. /\ UNCHANGED <<our_chain, starting_height, published_blocks, lengths, head, todo>>
          /\ cleared' = cleared \ {Main} /\ pc[Main] = "idle"
      BY <1>11 DEF OnMined, node, private, At
    <2>2. \A u \in Threads \ {Main} : pc'[u] = pc[u] /\ item'[u] = item[u]
      BY <1>11 DEF OnMined, Goto, TypeOK
    <2>3. \A b : ~Bringing(Main, b) BY DEF Bringing, PcOK
    <2>4. \A u \in Threads, b \in Block : u \in cleared /\ Bringing(u, b) => u \in cleared' /\ Bringing(u, b)'
      BY <2>1, <2>2, <2>3, BringingStable
    <2>5. Unlocked' => Unlocked BY <2>1, <2>2 DEF Unlocked
    <2> QED BY <2>1, <2>4, <2>5, HeightFrame
  <1>12. CASE OurBlock
    <2>1. item[Main] \in Block /\ Unlocked /\ UNCHANGED node
      BY <1>0, <1>12 DEF TypeOK, OurBlock
    <2>2. Append(our_chain, item[Main]) \in Seq(Block) /\ Append(our_chain, item[Main]) # <<>>
      BY <2>1, SeqAppend DEF TypeOK
    <2>3. CASE clear_chain(Main, Append(our_chain, item[Main])) BY <1>0, <1>c, <2>2, <2>3
    <2>4. CASE our_chain' = Append(our_chain, item[Main]) /\ UNCHANGED <<published_blocks, starting_height>>
      <3>1. UNCHANGED <<lengths, head, ours, blocks_seen>> BY <1>12 DEF OurBlock, node, network
      <3>2. PICK f \in Nat : f = starting_height + published_blocks BY DEF TypeOK
      <3>3. PICK l \in Nat : l = lengths[head] BY DEF TypeOK
      <3>4. f <= l + (IF Known(head) THEN 1 ELSE 0) BY <2>1, <3>2, <3>3 DEF HeightInv
      <3>5. Known(head)' <=> Known(head) BY <3>1 DEF Known
      <3> QED BY <2>2, <2>4, <3>1, <3>2, <3>3, <3>4, <3>5 DEF HeightInv
    <2> QED BY <1>12, <2>3, <2>4 DEF OurBlock, flush_chain_
  <1>13. CASE FlushChain
    <2>1. /\ flush_chain_(Main, our_chain) /\ UNCHANGED <<node, cleared>> /\ pc[Main] = "idle" /\ ~Locking(Main)
      BY <1>0, <1>13, UnlockedIs DEF FlushChain, At, ghosts
    <2>2. CASE clear_chain(Main, our_chain) BY <1>0, <1>c, <2>2
    <2>3. CASE Send(Main, <<>>) /\ our_chain' = our_chain /\ UNCHANGED <<published_blocks, starting_height>>
      BY <1>0, <1>b, <2>1, <2>3 DEF node
    <2> QED BY <1>0, <2>1, <2>2, <2>3, FlushLeaves
  <1>14. CASE UNCHANGED vars BY <1>14, <1>d DEF vars, node, private, ghosts
  <1> QED BY <1>1, <1>4, <1>5, <1>6, <1>7, <1>8, <1>9, <1>10, <1>a, <1>e, <1>11, <1>12, <1>13, <1>14, Steps

\* The chain's invariants, the heights, and that a fault comes from a race.
HeightsInv == ChainInv /\ LengthInv /\ BringInv /\ HeightInv /\ FrontAfterRace

\* There is nothing to bring at first; starting_height is less than the genesis block's length.
LEMMA HeightsInit == Init => HeightsInv
  <1> SUFFICES ASSUME Init PROVE HeightsInv OBVIOUS
  <1>1. Genesis \in Block BY BlockFacts
  <1>2. LengthInv BY <1>1 DEF Init, LengthInv
  <1>3. BringInv BY <1>1 DEF Init, BringInv, Known
  <1>4. HeightInv BY <1>1 DEF Init, HeightInv, Known
  <1>5. FrontAfterRace BY DEF Init, FrontAfterRace
  <1> QED BY <1>2, <1>3, <1>4, <1>5, ChainInit DEF HeightsInv

\* They are invariants: the heights keep a thread that was not overtaken from front().
LEMMA HeightsAlways == Spec => []HeightsInv
  <1>1. ASSUME HeightsInv, [Next]_vars PROVE FrontAfterRace'
    <2>0. TypeOK /\ PcOK /\ BringInv /\ HeightInv /\ FrontAfterRace /\ cleared \subseteq Threads
      BY <1>1 DEF HeightsInv, ChainInv, TypeOK
    <2>1. CASE UNCHANGED vars BY <2>0, <2>1 DEF vars, private, node, ghosts, FrontAfterRace
    <2>2. ASSUME NEW t \in Threads, PublishNothing(t) PROVE FrontAfterRace'
      <3>1. NewHead(t) /\ our_chain = <<>> /\ (Height = lengths[item[t]] \/ Height > lengths[item[t]] + 1)
            /\ UNCHANGED <<cleared, pc, item, published_blocks, starting_height, lengths, head>>
        BY <2>2 DEF PublishNothing, NewHead, ghosts, private, node
      <3>2. item[t] = head /\ ~Known(head) /\ Unlocked BY <2>0, <3>1, NewHeadUnknown
      <3>3. PICK f \in Nat : f = starting_height + published_blocks BY <2>0 DEF TypeOK
      <3>4. PICK l \in Nat : l = lengths[head] BY <2>0 DEF TypeOK
      <3>5. Height = f BY <2>0, <3>1, <3>3 DEF Height, TypeOK
      <3>6. f = l \/ f > l + 1 BY <3>1, <3>2, <3>4, <3>5
      <3>7. f <= l /\ \/ f < l
                      \/ /\ published_blocks = 0 /\ starting_height = lengths[head]
                         /\ \E u \in cleared : Bringing(u, head)
        BY <2>0, <3>1, <3>2, <3>3, <3>4 DEF HeightInv
      <3>8. /\ published_blocks = 0 /\ starting_height = lengths[head]
            /\ \E u \in cleared : Bringing(u, head)
        BY <3>3, <3>4, <3>6, <3>7
      <3> QED BY <2>0, <3>1, <3>8 DEF Bringing, FrontAfterRace
    <2>3. ASSUME ~\E t \in Threads : PublishNothing(t), ~UNCHANGED vars PROVE FrontAfterRace'
      <3>1. \A t \in Threads, b \in Block : Handles(t, b) => ~fault' BY <2>0, HandleFacts
      <3>2. ~fault' BY <1>1, <2>3, <3>1, Steps DEF OthersMine, IgnoreBlock, GiveUp, Publish, PublishAll,
           NewHead, ReadHead, ReadHeight, Sent, OnMined, OurBlock, FlushChain, At
      <3> QED BY <3>2 DEF FrontAfterRace
    <2> QED BY <1>1, <2>1, <2>2, <2>3
  <1>2. HeightsInv /\ [Next]_vars => HeightsInv'
    <2> SUFFICES ASSUME HeightsInv, [Next]_vars PROVE HeightsInv' OBVIOUS
    <2>1. ChainInv' BY TypeStep, PlaceStep, OpenStep, LinkStep DEF HeightsInv, ChainInv
    <2>2. LengthInv' /\ BringInv' /\ HeightInv'
      BY LengthStep, BringStep, HeightStep DEF HeightsInv, ChainInv
    <2> QED BY <1>1, <2>1, <2>2 DEF HeightsInv
  <1> QED BY <1>2, HeightsInit, PTL DEF Spec

\* front() of an empty private chain is only taken when starting_height was reset, by the
\* second unprotected read of head in clear_chain, to the length of a head whose own thread
\* has still to compare it: also when our_head is the head of an earlier read, the
\* comparison of heights in others_block protects the deque from everything else.
THEOREM FrontNeedsRace == Spec => []FrontAfterRace
  <1>1. HeightsInv => FrontAfterRace BY DEF HeightsInv
  <1> QED BY <1>1, HeightsAlways, PTL
------------------------------------------------------------------------------
(* The height that others_block compares is the height of the branch. *)

\* A block has an earlier parent.
ParentEarlier == Tree(parent, MaxBlocks)

\* Between the two reads of head, our_head is a block that the coordinator has.  Once the
\* height has been set, and as long as no block was added to a chain that was cleared under
\* it, the branch is not higher than the coordinator takes it to be: the second read may
\* find a longer head than the first.
OurHeight ==
  /\ \A t \in Threads : pc[t] = "height" => blockchain[our_head] = "handled"
  /\ \A b \in Block :
       b = our_head /\ Unlocked /\ starting_height > 0 /\ orphans = {} => TreeHeight(b) <= Height

\* TreeHeight is the height in the tree of all blocks.
LEMMA TreeHeightIs == \A b : TreeHeight(b) = HeightOf(parent, MaxBlocks)[b]
  BY DEF TreeHeight, HeightOf, IsHeight, Block, Genesis

\* Also in the next state.
LEMMA TreeHeightNext == \A b : TreeHeight(b)' = HeightOf(parent', MaxBlocks)[b]
  BY DEF TreeHeight, HeightOf, IsHeight, Block, Genesis

\* A handled block has the length of its chain.
LEMMA HandledHeights ==
  ASSUME TypeOK, LengthInv, ParentEarlier
  PROVE  \A b \in Block : blockchain[b] = "handled" => TreeHeight(b) = lengths[b]
  <1>0. MaxBlocks \in Nat /\ Genesis \in Block /\ Block \subseteq Nat BY BlockFacts
  <1> DEFINE f == HeightOf(parent, MaxBlocks)
             Bad == {c \in Block : blockchain[c] = "handled" /\ f[c] # lengths[c]}
  <1>1. f[0] = 1 /\ \A c \in 1 .. MaxBlocks : f[c] = f[parent[c]] + 1
    BY <1>0, HeightEquation DEF ParentEarlier
  <1>2. \A c \in 1 .. MaxBlocks : parent[c] < c BY Zenon DEF ParentEarlier, Tree
  <1> HIDE DEF f
  <1>3. Bad = {}
    <2> SUFFICES ASSUME Bad # {} PROVE FALSE OBVIOUS
    <2>1. PICK d \in Bad : \A e \in Bad : d <= e
      <3>1. Bad \in SUBSET Nat BY <1>0
      <3> HIDE DEF Bad
      <3> QED BY <3>1, LeastNat
    <2>2. d \in Block /\ blockchain[d] = "handled" /\ d # Genesis BY <1>1 DEF LengthInv, Genesis
    <2>3. d \in 1 .. MaxBlocks BY <1>0, <2>2 DEF Block, Genesis
    <2>4. parent[d] \in Block /\ blockchain[parent[d]] = "handled" /\ lengths[d] = lengths[parent[d]] + 1
      BY <2>2 DEF LengthInv, TypeOK
    <2>5. parent[d] < d /\ parent[d] \in Nat /\ d \in Nat BY <1>0, <1>2, <2>2, <2>3, <2>4
    <2>6. parent[d] \notin Bad BY <2>1, <2>5
    <2>7. f[parent[d]] = lengths[parent[d]] BY <2>4, <2>6
    <2> QED BY <1>1, <2>1, <2>3, <2>4, <2>7
  <1>4. \A b \in Block : blockchain[b] = "handled" => f[b] = lengths[b] BY <1>3
  <1> QED BY <1>4, TreeHeightIs DEF f

\* The parents stay earlier, and the heights of the blocks that have been made stay.
LEMMA HeightsStay ==
  ASSUME ChainInv, ParentEarlier, [Next]_vars
  PROVE  /\ ParentEarlier'
         /\ \A c \in Block : c <= made => TreeHeight(c)' = TreeHeight(c)
         /\ \A c \in Block : TreeHeight(c) \in Nat
  <1>0. TypeOK /\ PcOK /\ LinkInv /\ MaxBlocks \in Nat /\ Block = 0 .. MaxBlocks
    BY BlockFacts DEF ChainInv, Block
  <1>1. made \in Nat /\ made \in 0 .. MaxBlocks /\ our_head \in Block /\ our_head <= made
        /\ parent \in [0 .. MaxBlocks -> 0 .. MaxBlocks]
    <2>1. made \in Block /\ our_head \in Block /\ parent \in [Block -> Block] /\ our_head <= made
      BY <1>0 DEF TypeOK, LinkInv
    <2> QED BY <1>0, <2>1
  <1>2. TypeOK' BY <1>0, TypeStep
  <1>3. \A c \in Block : c <= made => parent'[c] = parent[c] BY <1>0, TreeGrows
  <1>4. \A c \in 1 .. MaxBlocks : parent[c] < c BY Zenon DEF ParentEarlier, Tree
  <1>5. parent' = parent \/ \E p \in Block : p <= made /\ parent' = [parent EXCEPT ![made + 1] = p]
    <2>1. ASSUME NEW p \in Block, OthersMine(p) PROVE p <= made /\ parent' = [parent EXCEPT ![made + 1] = p]
      BY <2>1 DEF OthersMine, Public
    <2>2. CASE OnMined BY <1>1, <2>2 DEF OnMined
    <2>3. CASE ~OnMined /\ ~\E p \in Block : OthersMine(p)
      <3>1. \A t \in Threads, b \in Block : Handles(t, b) => parent' = parent BY <1>0, HandleFacts
      <3> QED BY <2>3, <3>1, Steps DEF vars, network, IgnoreBlock, GiveUp, Publish, PublishNothing,
           PublishAll, NewHead, ReadHead, ReadHeight, Sent, OurBlock, FlushChain
    <2> QED BY <2>1, <2>2, <2>3
  <1>6. \A c \in 1 .. MaxBlocks : parent'[c] < c
    <2>1. CASE parent' = parent BY <1>4, <2>1
    <2>2. ASSUME NEW p \in Block, p <= made, parent' = [parent EXCEPT ![made + 1] = p]
          PROVE  \A c \in 1 .. MaxBlocks : parent'[c] < c
      <3> SUFFICES ASSUME NEW c \in 1 .. MaxBlocks PROVE parent'[c] < c OBVIOUS
      <3>1. parent'[c] = IF c = made + 1 THEN p ELSE parent[c] BY <1>1, <2>2
      <3>2. p \in Nat BY <1>0
      <3> QED BY <1>1, <1>4, <2>2, <3>1, <3>2
    <2> QED BY <1>5, <2>1, <2>2
  <1>7. parent' \in [0 .. MaxBlocks -> 0 .. MaxBlocks] BY <1>0, <1>2 DEF TypeOK
  <1>8. Tree(parent', MaxBlocks) BY <1>6, <1>7, Zenon DEF Tree
  <1>9. Tree(parent, MaxBlocks) BY DEF ParentEarlier
  <1>10. ASSUME NEW c \in 0 .. made PROVE TreeHeight(c)' = TreeHeight(c)
    <2>1. \A d \in 1 .. made : parent[d] = parent'[d] BY <1>0, <1>1, <1>3
    <2>2. HeightOf(parent, MaxBlocks)[c] = HeightOf(parent', MaxBlocks)[c]
      <3>1. made \in 0 .. MaxBlocks /\ MaxBlocks \in Nat BY <1>0, <1>1
      <3> QED BY <1>8, <1>9, <2>1, <3>1, HeightAgrees
    <2> QED BY <2>2, TreeHeightIs, TreeHeightNext
  <1>11. \A c \in Block : c <= made => TreeHeight(c)' = TreeHeight(c) BY <1>0, <1>1, <1>10
  <1>12. ASSUME NEW c \in Block PROVE TreeHeight(c) \in Nat
    <2>1. c \in 0 .. MaxBlocks /\ MaxBlocks \in 0 .. MaxBlocks BY <1>0
    <2>2. HeightOf(parent, MaxBlocks)[c] \in Nat BY <1>0, <1>9, <2>1, HeightAgrees
    <2> QED BY <2>2, TreeHeightIs
  <1> QED BY <1>8, <1>11, <1>12 DEF ParentEarlier

\* Handled blocks stay handled, and our_head stays between the two reads of head.
LEMMA HeadHandled ==
  ASSUME TypeOK, PcOK, OpenInv, OurHeight, [Next]_vars, NEW t \in Threads, pc'[t] = "height"
  PROVE  blockchain'[our_head'] = "handled"
  <1>0. our_head \in Block /\ head \in Block /\ blockchain[head] = "handled" /\ <<>> \in Seq(Block)
        /\ our_chain \in Seq(Block) /\ Main \in Threads
    BY SeqSmall, BlockFacts DEF TypeOK, OpenInv
  <1>1. \A b \in Block : blockchain[b] = "handled" => blockchain'[b] = "handled"
    <2>1. ASSUME NEW u \in Threads, NEW c \in Block, WaitForParent(u, c) \/ InsertBlock(u, c), NEW b \in Block
          PROVE  blockchain[b] = "handled" => blockchain'[b] = "handled"
      BY <2>1 DEF WaitForParent, InsertBlock, TypeOK
    <2> QED BY <2>1, NodeSteps DEF node
  <1>2. ASSUME pc[t] = "height", our_head' = our_head PROVE blockchain'[our_head'] = "handled"
    BY <1>0, <1>1, <1>2 DEF OurHeight
  <1>3. ASSUME Unlocked, NEW u \in Threads, pc'[u] # "height", \A v \in Threads \ {u} : pc'[v] = pc[v]
        PROVE  FALSE
    BY <1>3 DEF Unlocked
  <1>4. ASSUME NEW p \in Block, OthersMine(p) PROVE blockchain'[our_head'] = "handled"
    BY <1>2, <1>4 DEF OthersMine, private
  <1>5. ASSUME NEW u \in Threads, NEW b \in Block, Handles(u, b) PROVE blockchain'[our_head'] = "handled"
    BY <1>2, <1>5, HandleFacts
  <1>6. ASSUME NEW u \in Threads, IgnoreBlock(u) PROVE FALSE
    <2>1. Unlocked /\ Send(u, <<>>) BY <1>6 DEF IgnoreBlock
    <2> QED BY <1>0, <1>3, <2>1, SendFacts
  <1>7. ASSUME NEW u \in Threads, GiveUp(u) PROVE FALSE
    <2>1. Unlocked /\ clear_chain(u, <<>>) BY <1>7 DEF GiveUp, NewHead
    <2>2. pc'[u] = "clear" /\ \A v \in Threads \ {u} : pc'[v] = pc[v] BY <1>0, <2>1, ClearFacts
    <2> QED BY <1>3, <2>1, <2>2
  <1>8. ASSUME NEW u \in Threads, Publish(u) PROVE FALSE
    <2>1. Unlocked /\ our_chain # <<>> /\ PublishFirst(u) BY <1>8 DEF Publish, NewHead
    <2>2. <<Head(our_chain)>> \in Seq(Block) /\ Send(u, <<Head(our_chain)>>) BY <2>1, PublishFirstType
    <2>3. PICK s \in Seq(Block) : Send(u, s) BY <2>2
    <2>4. pc'[u] # "height" /\ \A v \in Threads \ {u} : pc'[v] = pc[v] BY <2>3, SendFacts
    <2> QED BY <1>3, <2>1, <2>4
  <1>9. ASSUME NEW u \in Threads, PublishNothing(u) PROVE FALSE
    BY <1>9 DEF PublishNothing, NewHead, Unlocked
  <1>10. ASSUME NEW u \in Threads, NEW s \in Seq(Block), Unlocked, flush_chain_(u, s) PROVE FALSE
    <2>1. pc'[u] # "height" /\ \A v \in Threads \ {u} : pc'[v] = pc[v] BY <1>10, FlushFacts
    <2> QED BY <1>3, <1>10, <2>1
  <1>11. ASSUME NEW u \in Threads, PublishAll(u) PROVE FALSE
    BY <1>0, <1>10, <1>11 DEF PublishAll, NewHead
  <1>12. ASSUME NEW u \in Threads, ReadHead(u) PROVE blockchain'[our_head'] = "handled"
    BY <1>0, <1>1, <1>12 DEF ReadHead
  <1>13. ASSUME NEW u \in Threads, ReadHeight(u) PROVE blockchain'[our_head'] = "handled"
    <2>1. Send(u, to_send[u]) /\ to_send[u] \in Seq(Block) /\ our_head' = our_head
      BY <1>13 DEF ReadHeight, TypeOK
    <2>2. pc[t] = "height" BY <2>1, SendFacts
    <2> QED BY <1>2, <2>1, <2>2
  <1>14. ASSUME NEW u \in Threads, Sent(u) PROVE blockchain'[our_head'] = "handled"
    <2>1. to_send[u] # <<>> /\ to_send[u] \in Seq(Block) BY <1>14 DEF Sent, At, PcOK, TypeOK
    <2>2. Tail(to_send[u]) \in Seq(Block) BY <2>1, SeqTail
    <2>3. Send(u, Tail(to_send[u])) /\ our_head' = our_head BY <1>14 DEF Sent, private
    <2>4. pc[t] = "height" BY <2>2, <2>3, SendFacts
    <2> QED BY <1>2, <2>3, <2>4
  <1>15. CASE OnMined
    <2>1. pc[t] = "height" /\ our_head' = our_head BY <1>15 DEF OnMined, Goto, TypeOK, private
    <2> QED BY <1>2, <2>1
  <1>16. CASE OurBlock
    <2>1. item[Main] \in Block BY <1>0 DEF TypeOK
    <2>2. Append(our_chain, item[Main]) \in Seq(Block) BY <2>1, SeqAppend DEF TypeOK
    <2>3. Unlocked /\ (flush_chain_(Main, Append(our_chain, item[Main])) \/ Send(Main, <<>>))
      BY <1>16 DEF OurBlock
    <2>4. CASE Send(Main, <<>>) BY <1>0, <1>3, <2>3, <2>4, SendFacts
    <2> QED BY <1>0, <1>10, <2>2, <2>3, <2>4
  <1>17. CASE FlushChain BY <1>0, <1>10, <1>17 DEF FlushChain
  <1>18. CASE UNCHANGED vars BY <1>2, <1>18 DEF vars, private
  <1> QED BY <1>4, <1>5, <1>6, <1>7, <1>8, <1>9, <1>11, <1>12, <1>13, <1>14, <1>15, <1>16, <1>17, <1>18, Steps

\* Every step keeps the height that the coordinator takes its branch to have.
LEMMA OurHeightStep ==
  ASSUME HeightsInv, ParentEarlier, OurHeight, [Next]_vars
  PROVE  OurHeight'
  <1>0. ChainInv /\ TypeOK /\ PcOK /\ PlaceInv /\ OpenInv /\ LinkInv /\ LengthInv BY DEF HeightsInv, ChainInv
  <1>1. /\ our_head \in Block /\ our_head <= made /\ our_chain \in Seq(Block) /\ head \in Block
        /\ starting_height \in Nat /\ published_blocks \in Nat /\ blockchain[head] = "handled"
        /\ lengths \in [Block -> Nat] /\ Main \in Threads /\ <<>> \in Seq(Block)
    BY <1>0, BlockFacts, SeqSmall DEF TypeOK, LinkInv, OpenInv
  <1>2. Len(our_chain) \in Nat BY <1>1
  <1>3. /\ \A c \in Block : c <= made => TreeHeight(c)' = TreeHeight(c)
        /\ \A c \in Block : TreeHeight(c) \in Nat
    BY <1>0, HeightsStay
  <1>h. \A t \in Threads : pc'[t] = "height" => blockchain'[our_head'] = "handled"
    BY <1>0, HeadHandled
  <1>u. ASSUME NEW t \in Threads, pc'[t] \in {"clear", "height"} PROVE OurHeight'
    BY <1>h, <1>u DEF OurHeight, Unlocked
  <1>a. ASSUME UNCHANGED <<our_head, starting_height, orphans>>, Unlocked' => Unlocked,
               Len(our_chain') + published_blocks' = Len(our_chain) + published_blocks,
               our_chain' \in Seq(Block), published_blocks' \in Nat
        PROVE  OurHeight'
    <2> SUFFICES ASSUME NEW b \in Block, b = our_head', Unlocked', starting_height' > 0, orphans' = {}
                 PROVE  TreeHeight(b)' <= starting_height' + Len(our_chain') + published_blocks'
      BY <1>h DEF OurHeight, Height
    <2>1. TreeHeight(b) <= starting_height + Len(our_chain) + published_blocks
      BY <1>a DEF OurHeight, Height
    <2>2. TreeHeight(b)' = TreeHeight(b) /\ TreeHeight(b) \in Nat BY <1>1, <1>3, <1>a
    <2>3. Len(our_chain') \in Nat /\ published_blocks' \in Nat /\ starting_height' = starting_height
          /\ Len(our_chain') + published_blocks' = Len(our_chain) + published_blocks BY <1>a
    <2>4. starting_height \in Nat /\ published_blocks \in Nat BY <1>1
    <2> QED BY <1>2, <2>1, <2>2, <2>3, <2>4
  <1>b. ASSUME UNCHANGED <<our_chain, our_head, starting_height, published_blocks, orphans>>,
               Unlocked' => Unlocked
        PROVE  OurHeight'
    BY <1>1, <1>a, <1>b
  <1>c. ASSUME NEW t \in Threads, NEW s \in Seq(Block), clear_chain(t, s) PROVE OurHeight'
    BY <1>0, <1>c, <1>u, ClearFacts
  <1>d. CASE \E p \in Block : OthersMine(p)
    BY <1>b, <1>d DEF OthersMine, private, ghosts, Unlocked
  <1>4. CASE UNCHANGED vars BY <1>b, <1>4 DEF vars, private, ghosts, Unlocked
  <1>5. CASE OnMined
    <2>1. UNCHANGED <<our_chain, our_head, starting_height, published_blocks, orphans>>
          /\ pc[Main] = "idle" /\ \A u \in Threads \ {Main} : pc'[u] = pc[u]
      BY <1>0, <1>5 DEF OnMined, private, At, Goto, TypeOK
    <2>2. Unlocked' => Unlocked BY <2>1 DEF Unlocked
    <2> QED BY <1>b, <2>1, <2>2
  <1>e. ASSUME NEW t \in Threads, NEW b \in Block, Handles(t, b) PROVE OurHeight'
    <2>1. UNCHANGED <<our_chain, our_head, starting_height, published_blocks, orphans>>
          /\ \A u \in Threads : pc'[u] # pc[u] => pc[u] = "idle"
      BY <1>0, <1>e, HandleFacts
    <2>2. Unlocked' => Unlocked BY <2>1 DEF Unlocked
    <2> QED BY <1>b, <2>1, <2>2
  <1>f. ASSUME NEW t \in Threads, IgnoreBlock(t) \/ PublishNothing(t) PROVE OurHeight'
    BY <1>b, <1>f DEF IgnoreBlock, PublishNothing, NewHead, private, ghosts
  <1>g. ASSUME NEW t \in Threads, Sent(t) PROVE OurHeight'
    <2>1. to_send[t] # <<>> /\ to_send[t] \in Seq(Block) /\ pc[t] = "send"
      BY <1>0, <1>g DEF Sent, At, PcOK, TypeOK
    <2>2. Tail(to_send[t]) \in Seq(Block) BY <2>1, SeqTail
    <2>3. Send(t, Tail(to_send[t])) /\ UNCHANGED <<our_chain, our_head, starting_height, published_blocks, orphans>>
      BY <1>g DEF Sent, private, ghosts
    <2>4. \A u \in Threads \ {t} : pc'[u] = pc[u] BY <1>0, <2>2, <2>3, SendFacts
    <2>5. Unlocked' => Unlocked BY <2>1, <2>4 DEF Unlocked
    <2> QED BY <1>b, <2>3, <2>5
  <1>i. ASSUME NEW t \in Threads, ReadHead(t) PROVE OurHeight'
    <2>1. pc'[t] = "height" BY <1>0, <1>i DEF ReadHead, Goto, TypeOK
    <2> QED BY <1>u, <2>1
  <1>j. ASSUME NEW t \in Threads, ReadHeight(t) PROVE OurHeight'
    <2>1. /\ starting_height' = lengths[head] /\ UNCHANGED <<our_chain, our_head, published_blocks>>
          /\ pc[t] = "height"
      BY <1>j DEF ReadHeight, At
    <2>2. our_chain = <<>> /\ published_blocks = 0 /\ blockchain[our_head] = "handled"
      BY <1>0, <2>1 DEF PcOK, Locking, OurHeight
    <2>3. TreeHeight(our_head) = lengths[our_head] /\ lengths[our_head] <= lengths[head]
      BY <1>0, <1>1, <2>2, HandledHeights DEF LengthInv
    <2> SUFFICES ASSUME NEW b \in Block, b = our_head'
                 PROVE  TreeHeight(b)' <= starting_height' + Len(our_chain') + published_blocks'
      BY <1>h DEF OurHeight, Height
    <2>4. b = our_head /\ TreeHeight(b)' = TreeHeight(our_head) BY <1>1, <1>3, <2>1
    <2>5. Len(our_chain') = 0 /\ published_blocks' = 0 BY <2>1, <2>2
    <2>6. lengths[head] \in Nat BY <1>1
    <2> QED BY <2>1, <2>3, <2>4, <2>5, <2>6
  <1>6. ASSUME NEW t \in Threads, GiveUp(t) PROVE OurHeight' BY <1>1, <1>c, <1>6 DEF GiveUp
  <1>7. ASSUME NEW t \in Threads, Publish(t) PROVE OurHeight'
    <2>1. /\ our_chain # <<>> /\ our_chain' = Tail(our_chain) /\ published_blocks' = published_blocks + 1
          /\ UNCHANGED <<our_head, starting_height, orphans>> /\ Unlocked
      BY <1>7 DEF Publish, PublishFirst, NewHead
    <2>2. our_chain' \in Seq(Block) /\ Len(our_chain') = Len(our_chain) - 1 BY <1>1, <2>1
    <2> QED BY <1>1, <1>2, <1>a, <2>1, <2>2
  <1>8. ASSUME NEW t \in Threads, flush_chain_(t, our_chain), UNCHANGED <<our_head, orphans>>, Unlocked
        PROVE  OurHeight'
    <2>1. CASE clear_chain(t, our_chain) BY <1>1, <1>c, <2>1
    <2> QED BY <1>1, <1>b, <1>8, <2>1, FlushLeaves
  <1>9. CASE OurBlock
    <2>1. PICK m \in Block : m = item[Main] BY <1>0, BlockFacts DEF TypeOK
    <2>2. pc[Main] = "mined" /\ Unlocked /\ parent' = parent /\ made' = made
      BY <1>0, <1>9, BlockFacts DEF OurBlock, At, network
    <2>3. CASE clear_chain(Main, Append(our_chain, item[Main])) BY <1>1, <1>c, <2>1, <2>3, SeqAppend
    <2>4. CASE our_chain' = Append(our_chain, item[Main]) /\ UNCHANGED <<published_blocks, starting_height>>
      <3>1. /\ our_chain' = Append(our_chain, m) /\ our_head' = m
            /\ UNCHANGED <<published_blocks, starting_height>>
            /\ orphans' = IF Main \in cleared THEN orphans \cup {m} ELSE orphans
        BY <1>9, <2>1, <2>4 DEF OurBlock
      <3>2. Len(our_chain') = Len(our_chain) + 1 BY <1>1, <2>1, <3>1
      <3> SUFFICES ASSUME NEW b \in Block, b = our_head', Unlocked', starting_height' > 0, orphans' = {}
                   PROVE  TreeHeight(b)' <= starting_height' + Len(our_chain') + published_blocks'
        BY <1>h DEF OurHeight, Height
      <3>3. Main \notin cleared /\ orphans = {} /\ b = m BY <3>1
      <3>4. parent[m] = our_head BY <1>0, <2>1, <2>2, <3>3 DEF LinkInv
      <3>5. m # Genesis /\ m <= made BY <1>0, <2>1, <2>2 DEF PlaceInv, Places, Mined
      <3>6. TreeHeight(m) = TreeHeight(our_head) + 1
        <4>1. m \in 1 .. MaxBlocks /\ MaxBlocks \in Nat BY <2>1, <3>5, BlockFacts DEF Block, Genesis
        <4>2. HeightOf(parent, MaxBlocks)[m] = HeightOf(parent, MaxBlocks)[parent[m]] + 1
          BY <4>1, HeightEquation DEF ParentEarlier
        <4> QED BY <3>4, <4>2, TreeHeightIs
      <3>7. TreeHeight(our_head) <= starting_height + Len(our_chain) + published_blocks
        BY <1>1, <2>2, <3>1, <3>3 DEF OurHeight, Height
      <3>8. TreeHeight(b)' = TreeHeight(m) /\ TreeHeight(our_head) \in Nat BY <1>1, <1>3, <3>3, <3>5
      <3> QED BY <1>1, <1>2, <3>1, <3>2, <3>6, <3>7, <3>8
    <2> QED BY <1>9, <2>3, <2>4 DEF OurBlock, flush_chain_
  <1>10. ASSUME NEW t \in Threads, PublishAll(t) PROVE OurHeight' BY <1>8, <1>10 DEF PublishAll, NewHead
  <1>11. CASE FlushChain BY <1>1, <1>8, <1>11 DEF FlushChain, ghosts
  <1> QED BY <1>d, <1>4, <1>5, <1>e, <1>f, <1>g, <1>i, <1>j, <1>6, <1>7, <1>9, <1>10, <1>11, Steps

\* others_block gives a private branch up only for a block that is higher than the branch's
\* last one, in the tree of all blocks: the height that it compares, which clear_chain
\* starts anew and every mined or published block changes, is never less than the branch
\* has, although clear_chain's two reads of head may find different blocks.  (Not so before
\* the first clear_chain, nor after a block was mined on a chain that was cleared meanwhile.)
THEOREM BranchGivenUpBehind == Spec => GiveUpOnlyBehind
  <1>1. Init => ParentEarlier /\ OurHeight
    <2> SUFFICES ASSUME Init PROVE ParentEarlier /\ OurHeight OBVIOUS
    <2>1. MaxBlocks \in Nat BY BlockFacts
    <2>2. parent = [b \in 0 .. MaxBlocks |-> 0] BY DEF Init, Block, Genesis
    <2>3. parent \in [0 .. MaxBlocks -> 0 .. MaxBlocks] /\ \A c \in 1 .. MaxBlocks : parent[c] < c BY <2>1, <2>2
    <2>4. ParentEarlier BY <2>3, Zenon DEF ParentEarlier, Tree
    <2>5. OurHeight BY BlockFacts DEF Init, OurHeight
    <2> QED BY <2>4, <2>5
  <1>2. HeightsInv /\ ParentEarlier /\ OurHeight /\ [Next]_vars => ParentEarlier' /\ OurHeight'
    BY HeightsStay, OurHeightStep DEF HeightsInv
  <1>3. HeightsInv /\ ParentEarlier /\ OurHeight /\ [Next]_vars =>
          [\A t \in Threads : GiveUp(t) /\ our_chain # <<>> /\ starting_height > 0 /\ orphans = {} =>
              TreeHeight(our_head) < TreeHeight(item[t])]_vars
    <2> SUFFICES ASSUME HeightsInv, ParentEarlier, OurHeight, [Next]_vars, NEW t \in Threads, GiveUp(t),
                        starting_height > 0, orphans = {}
                 PROVE  TreeHeight(our_head) < TreeHeight(item[t])
      OBVIOUS
    <2>0. TypeOK /\ OpenInv /\ LengthInv /\ our_head \in Block /\ head \in Block
      BY DEF HeightsInv, ChainInv, TypeOK
    <2>1. item[t] = head /\ Height < lengths[head] /\ Unlocked BY DEF GiveUp, NewHead, NotHead
    <2>2. TreeHeight(our_head) <= Height BY <2>0, <2>1 DEF OurHeight
    <2>3. TreeHeight(head) = lengths[head] BY <2>0, HandledHeights DEF OpenInv
    <2>4. TreeHeight(our_head) \in Nat BY <2>0, HeightsStay DEF HeightsInv
    <2>5. lengths[head] \in Nat /\ Height \in Nat
      <3>1. our_chain \in Seq(Block) BY <2>0 DEF TypeOK
      <3>2. Len(our_chain) \in Nat BY <3>1
      <3> QED BY <2>0, <3>2 DEF Height, TypeOK
    <2> QED BY <2>1, <2>2, <2>3, <2>4, <2>5
  <1> QED BY <1>1, <1>2, <1>3, HeightsAlways, PTL DEF Spec, GiveUpOnlyBehind
==============================================================================
