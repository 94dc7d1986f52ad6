---------------------------- MODULE TinyNodeProofs ----------------------------
(***************************************************************************)
(* Proofs about TinyNode, for every number of workers, blocks and          *)
(* transactions.                                                           *)
(***************************************************************************)
EXTENDS TinyNode, BlockTreeProofs

\* The places of a thread in handle_block, and in update_head.
BlockPlaces == {"block", "walk", "confirm", "undo", "unconfirm"}

\* What a thread's item is at its place.
ItemOK ==
  \A t \in Threads :
    /\ pc[t] \in BlockPlaces \cup {"collect"} => item[t] \in Block
    /\ pc[t] \in {"tx", "insert"} => item[t] \in Tx
    /\ pc[t] = "spend" => item[t] \in Own

TypeInv == TypeOK /\ ItemOK

\* What a block brings is a number.
LEMMA BlockValueType ==
  ASSUME TypeInv, NEW b \in Block
  PROVE  block_value(b) \in Int
<1>1. IsFiniteSet(txs[b]) /\ IsFiniteSet(txs[b] \cap ToMe)
  BY TinyAssumption, FS_Subset DEF TypeInv, TypeOK
<1>2. Cardinality(txs[b]) \in Nat /\ Cardinality(txs[b] \cap ToMe) \in Nat
  BY <1>1, FS_CardinalityType
<1>3. TxReward * Cardinality(txs[b]) \in Int
  BY <1>2, TinyAssumption
<1> QED
  BY <1>2, <1>3, TinyAssumption DEF block_value

\* The type invariant in two parts: the Boolean variables, and the others.
BoolType == fwd \in [Threads -> BOOLEAN] /\ fault \in BOOLEAN

DataType ==
  /\ made \in Block /\ mine \subseteq Block
  /\ parent \in [Block -> Block] /\ txs \in [Block -> SUBSET Tx]
  /\ blockchain \in [Block -> {"absent", "pending", "handled"}]
  /\ pending_blocks \in [Block -> SUBSET Block]
  /\ lengths \in [Block -> Nat] /\ head \in Block
  /\ balance \in Int /\ spent \subseteq Own
  /\ received_transactions \subseteq Tx /\ pending_transactions \subseteq Tx
  /\ lock \in Threads \cup {NoThread}
  /\ pc \in [Threads -> Places]
  /\ item \in [Threads -> Block \cup Tx]
  /\ todo \in [Threads -> SUBSET Block]
  /\ blk \in [Threads -> Block] /\ up \in [Threads -> Block] /\ down \in [Threads -> Block]
  /\ loaded \in [Threads -> Int]
  /\ sent \in [Block -> Nat]

\* Every step keeps the types.
LEMMA TypeInvStep == TypeInv /\ [Next]_vars => TypeInv'
<1> SUFFICES ASSUME TypeInv, DataType, BoolType, ItemOK, [Next]_vars
             PROVE  DataType' /\ BoolType' /\ ItemOK'
  BY DEF TypeInv, TypeOK, DataType, BoolType
<1> USE TinyAssumption
    DEF network, chain, money, pool, locals, At, Goto, Threads, BlockPlaces, Places
<1>1. ASSUME NEW p \in Block, NEW X \in SUBSET Tx, OthersMine(p, X)
      PROVE  DataType' /\ BoolType' /\ ItemOK'
  <2>0. made' \in Block
    BY <1>1 DEF DataType, OthersMine, Block
  <2>1. DataType'
    BY <1>1, <2>0 DEF DataType, OthersMine
  <2>2. BoolType'
    BY <1>1 DEF BoolType, OthersMine
  <2>3. ItemOK'
    BY <1>1, <2>0 DEF DataType, ItemOK, OthersMine
  <2> QED
    BY <2>1, <2>2, <2>3
<1>2. ASSUME NEW t \in Workers, NEW b \in Block, DeliverBlock(t, b)
      PROVE  DataType' /\ BoolType' /\ ItemOK'
  <2>1. DataType'
    BY <1>2 DEF DataType, DeliverBlock
  <2>2. BoolType'
    BY <1>2 DEF BoolType, DeliverBlock
  <2>3. ItemOK'
    BY <1>2 DEF DataType, ItemOK, DeliverBlock
  <2> QED
    BY <2>1, <2>2, <2>3
<1>3. ASSUME NEW t \in Workers, NEW x \in Tx, DeliverTransaction(t, x)
      PROVE  DataType' /\ BoolType' /\ ItemOK'
  <2>1. DataType'
    BY <1>3 DEF DataType, DeliverTransaction
  <2>2. BoolType'
    BY <1>3 DEF BoolType, DeliverTransaction
  <2>3. ItemOK'
    BY <1>3 DEF DataType, ItemOK, DeliverTransaction
  <2> QED
    BY <2>1, <2>2, <2>3
<1>4. ASSUME NEW t \in Threads, NEW b \in Block, AlreadyHandled(t, b)
      PROVE  DataType' /\ BoolType' /\ ItemOK'
  <2>1. DataType'
    BY <1>4 DEF DataType, AlreadyHandled, Enter, Seen
  <2>2. BoolType'
    BY <1>4 DEF BoolType, AlreadyHandled, Enter, Seen
  <2>3. ItemOK'
    BY <1>4 DEF DataType, ItemOK, AlreadyHandled, Enter, Seen
  <2> QED
    BY <2>1, <2>2, <2>3
<1>5. ASSUME NEW t \in Threads, NEW b \in Block, WaitForParent(t, b)
      PROVE  DataType' /\ BoolType' /\ ItemOK'
  <2>1. DataType'
    BY <1>5 DEF DataType, WaitForParent, Enter, Seen
  <2>2. BoolType'
    BY <1>5 DEF BoolType, WaitForParent, Enter, Seen
  <2>3. ItemOK'
    BY <1>5 DEF DataType, ItemOK, WaitForParent, Enter, Seen
  <2> QED
    BY <2>1, <2>2, <2>3
<1>6. ASSUME NEW t \in Threads, NEW b \in Block, InsertBlock(t, b)
      PROVE  DataType' /\ BoolType' /\ ItemOK'
  <2>0. lengths' \in [Block -> Nat]
    BY <1>6 DEF DataType, InsertBlock, Insert
  <2>1. DataType'
    BY <1>6, <2>0 DEF DataType, InsertBlock, Insert, TakeChildren
  <2>2. BoolType'
    BY <1>6 DEF BoolType, InsertBlock, Enter, Seen, Insert, TakeChildren
  <2>3. ItemOK'
    BY <1>6 DEF DataType, ItemOK, InsertBlock, Enter, Seen, Insert, TakeChildren
  <2> QED
    BY <2>1, <2>2, <2>3
<1>7. ASSUME NEW t \in Threads, NEW b \in Block, BeginUpdate(t, b)
      PROVE  DataType' /\ BoolType' /\ ItemOK'
  <2>0. lengths' \in [Block -> Nat]
    BY <1>7 DEF DataType, BeginUpdate, Insert
  <2>1. DataType'
    BY <1>7, <2>0 DEF DataType, BeginUpdate, Insert
  <2>2. BoolType'
    BY <1>7 DEF BoolType, BeginUpdate, Enter, Seen, Insert
  <2>3. ItemOK'
    BY <1>7 DEF DataType, ItemOK, BeginUpdate, Enter, Seen, Insert
  <2> QED
    BY <2>1, <2>2, <2>3
<1>8. ASSUME NEW t \in Threads, ConfirmNext(t) PROVE DataType' /\ BoolType' /\ ItemOK'
  <2>1. DataType'
    BY <1>8 DEF DataType, ConfirmNext
  <2>2. BoolType'
    BY <1>8 DEF BoolType, ConfirmNext
  <2>3. ItemOK'
    BY <1>8 DEF DataType, ItemOK, ConfirmNext
  <2> QED
    BY <2>1, <2>2, <2>3
<1>9. ASSUME NEW t \in Threads, confirm(t) PROVE DataType' /\ BoolType' /\ ItemOK'
  <2>0. balance' \in Int
    BY <1>9, BlockValueType DEF DataType, confirm
  <2>1. DataType'
    <3>1. up[t] \in Block /\ parent[up[t]] \in Block BY DEF DataType
    <3>2. up' \in [Threads -> Block] BY <1>9, <3>1 DEF DataType, confirm
    <3>3. pc' \in [Threads -> Places] BY <1>9 DEF DataType, confirm
    <3>4. pending_transactions' \subseteq Tx BY <1>9 DEF DataType, confirm
    <3> QED BY <1>9, <2>0, <3>2, <3>3, <3>4 DEF DataType, confirm
  <2>2. BoolType'
    BY <1>9 DEF BoolType, confirm
  <2>3. ItemOK'
    BY <1>9 DEF DataType, ItemOK, confirm
  <2> QED
    BY <2>1, <2>2, <2>3
<1>10. ASSUME NEW t \in Threads, UnconfirmNext(t) PROVE DataType' /\ BoolType' /\ ItemOK'
  <2>1. DataType'
    BY <1>10 DEF DataType, UnconfirmNext
  <2>2. BoolType'
    BY <1>10 DEF BoolType, UnconfirmNext
  <2>3. ItemOK'
    BY <1>10 DEF DataType, ItemOK, UnconfirmNext
  <2> QED
    BY <2>1, <2>2, <2>3
<1>11. ASSUME NEW t \in Threads, unconfirm(t) PROVE DataType' /\ BoolType' /\ ItemOK'
  <2>0. balance' \in Int
    BY <1>11, BlockValueType DEF DataType, unconfirm
  <2>1. DataType'
    BY <1>11, <2>0 DEF DataType, unconfirm
  <2>2. BoolType'
    BY <1>11 DEF BoolType, unconfirm
  <2>3. ItemOK'
    BY <1>11 DEF DataType, ItemOK, unconfirm
  <2> QED
    BY <2>1, <2>2, <2>3
<1>12. ASSUME NEW t \in Threads, EndUpdate(t) PROVE DataType' /\ BoolType' /\ ItemOK'
  <2>1. DataType'
    BY <1>12 DEF DataType, EndUpdate, TakeChildren
  <2>2. BoolType'
    BY <1>12 DEF BoolType, EndUpdate, TakeChildren
  <2>3. ItemOK'
    BY <1>12 DEF DataType, ItemOK, EndUpdate, TakeChildren
  <2> QED
    BY <2>1, <2>2, <2>3
<1>13. ASSUME NEW t \in Threads, BlockDone(t) PROVE DataType' /\ BoolType' /\ ItemOK'
  <2>0. sent' \in [Block -> Nat]
    BY <1>13 DEF DataType, BlockDone, ItemOK
  <2>1. DataType'
    BY <1>13, <2>0 DEF DataType, BlockDone
  <2>2. BoolType'
    BY <1>13 DEF BoolType, BlockDone
  <2>3. ItemOK'
    BY <1>13 DEF DataType, ItemOK, BlockDone
  <2> QED
    BY <2>1, <2>2, <2>3
<1>14. ASSUME NEW t \in Threads, ReceiveTransaction(t) PROVE DataType' /\ BoolType' /\ ItemOK'
  <2>1. DataType'
    BY <1>14 DEF DataType, ReceiveTransaction, ItemOK
  <2>2. BoolType'
    BY <1>14 DEF BoolType, ReceiveTransaction
  <2>3. ItemOK'
    BY <1>14 DEF DataType, ItemOK, ReceiveTransaction
  <2> QED
    BY <2>1, <2>2, <2>3
<1>15. ASSUME NEW t \in Threads, InsertTransaction(t) PROVE DataType' /\ BoolType' /\ ItemOK'
  <2>1. DataType'
    BY <1>15 DEF DataType, InsertTransaction, ItemOK
  <2>2. BoolType'
    BY <1>15 DEF BoolType, InsertTransaction
  <2>3. ItemOK'
    BY <1>15 DEF DataType, ItemOK, InsertTransaction
  <2> QED
    BY <2>1, <2>2, <2>3
<1>16. ASSUME Mine PROVE DataType' /\ BoolType' /\ ItemOK'
  <2>0. made' \in Block
    BY <1>16 DEF DataType, Mine, Block
  <2>1. DataType'
    BY <1>16, <2>0 DEF DataType, Mine
  <2>2. BoolType'
    BY <1>16 DEF BoolType, Mine
  <2>3. ItemOK'
    BY <1>16, <2>0 DEF DataType, ItemOK, Mine
  <2> QED
    BY <2>1, <2>2, <2>3
<1>17. ASSUME Collect PROVE DataType' /\ BoolType' /\ ItemOK'
  <2>1. DataType'
    BY <1>17 DEF DataType, Collect, Selected, ItemOK
  <2>2. BoolType'
    BY <1>17 DEF BoolType, Collect
  <2>3. ItemOK'
    BY <1>17 DEF DataType, ItemOK, Collect
  <2> QED
    BY <2>1, <2>2, <2>3
<1>18. ASSUME CollectUnknown PROVE DataType' /\ BoolType' /\ ItemOK'
  <2>1. DataType'
    BY <1>18 DEF DataType, CollectUnknown
  <2>2. BoolType'
    BY <1>18 DEF BoolType, CollectUnknown
  <2>3. ItemOK'
    BY <1>18 DEF DataType, ItemOK, CollectUnknown
  <2> QED
    BY <2>1, <2>2, <2>3
<1>19. ASSUME NEW x \in Tx, Spend(x) PROVE DataType' /\ BoolType' /\ ItemOK'
  <2>1. DataType'
    BY <1>19 DEF DataType, Spend
  <2>2. BoolType'
    BY <1>19 DEF BoolType, Spend
  <2>3. ItemOK'
    BY <1>19 DEF DataType, ItemOK, Spend
  <2> QED
    BY <2>1, <2>2, <2>3
<1>20. ASSUME Pay PROVE DataType' /\ BoolType' /\ ItemOK'
  <2>0. spent' \subseteq Own
    BY <1>20 DEF DataType, Pay, ItemOK
  <2>01. balance' \in Int
    BY <1>20 DEF DataType, Pay
  <2>1. DataType'
    BY <1>20, <2>0, <2>01 DEF DataType, Pay
  <2>2. BoolType'
    BY <1>20 DEF BoolType, Pay
  <2>3. ItemOK'
    BY <1>20 DEF DataType, ItemOK, Pay
  <2> QED
    BY <2>1, <2>2, <2>3
<1>21. CASE UNCHANGED vars
  BY <1>21 DEF vars, DataType, BoolType, ItemOK
<1> QED
  BY <1>1, <1>2, <1>3, <1>4, <1>5, <1>6, <1>7, <1>8, <1>9, <1>10, <1>11, <1>12, <1>13,
     <1>14, <1>15, <1>16, <1>17, <1>18, <1>19, <1>20, <1>21 DEF Next, HandleStep, MainStep

\* The types of the node's fields and of the threads' locals hold initially.
LEMMA TypeInvariance == Spec => []TypeInv
<1>1. Init => TypeInv
  <2> SUFFICES ASSUME Init PROVE DataType /\ BoolType /\ ItemOK
    BY DEF TypeInv, TypeOK, DataType, BoolType
  <2>0. Genesis \in Block
    BY TinyAssumption DEF Genesis, Block
  <2>1. DataType
    <3>1. lengths \in [Block -> Nat] /\ sent \in [Block -> Nat] /\ loaded \in [Threads -> Int]
      BY DEF Init
    <3>2. made \in Block
      BY <2>0 DEF Init, Genesis
    <3> QED
      BY <2>0, <3>1, <3>2 DEF Init, DataType, Places
  <2>2. BoolType
    BY DEF Init, BoolType
  <2>3. ItemOK
    BY DEF Init, ItemOK, BlockPlaces
  <2> QED
    BY <2>1, <2>2, <2>3
<1> QED
  BY <1>1, TypeInvStep, PTL DEF Spec

\* The state of a TinyCoin node keeps its types, for every instance.
THEOREM TypeCorrect == Spec => []TypeOK
BY TypeInvariance, PTL DEF TypeInv

\* Blocks that do not exist yet are nowhere, the genesis block is handled, and a
\* thread outside handle_block has no blocks to handle.
GenesisHandled == blockchain[Genesis] = "handled"
FutureAbsent == \A b \in Block : b > made => blockchain[b] = "absent" /\ sent[b] = 0
TodoMade == \A t \in Threads : \A b \in todo[t] : b <= made
WaitingMade == \A p \in Block : \A b \in pending_blocks[p] : b <= made
MineMade == \A b \in mine : b <= made
ItemMade == \A t \in Threads : pc[t] \in BlockPlaces \cup {"collect"} => item[t] <= made
TodoPlaces == \A t \in Threads : pc[t] \notin BlockPlaces => todo[t] = {}

Shape == /\ GenesisHandled /\ FutureAbsent /\ TodoMade /\ WaitingMade /\ MineMade
         /\ ItemMade /\ TodoPlaces

\* Every step keeps the blocks that do not exist yet out of the node.
LEMMA ShapeStep == TypeInv /\ Shape /\ [Next]_vars => Shape'
<1> SUFFICES ASSUME TypeInv, GenesisHandled, FutureAbsent, TodoMade, WaitingMade, MineMade,
                    ItemMade, TodoPlaces, [Next]_vars
             PROVE  Shape'
  BY DEF Shape
<1> USE TinyAssumption
    DEF network, chain, money, pool, locals, At, Goto, Threads, BlockPlaces, Places
<1>0. made \in Int /\ \A b \in Block : b \in Int
  BY DEF TypeInv, TypeOK, Block
<1>1. ASSUME NEW p \in Block, NEW X \in SUBSET Tx, OthersMine(p, X) PROVE Shape'
  <2>01. made' = made + 1
    BY <1>1 DEF OthersMine
  <2>1. GenesisHandled'
    BY <1>1 DEF OthersMine, TypeInv, TypeOK, ItemOK, Block, Genesis, Public, GenesisHandled,
       FutureAbsent, TodoMade, WaitingMade, MineMade, ItemMade, TodoPlaces
  <2>2. FutureAbsent'
    <3>1. blockchain' = blockchain /\ sent' = sent
      BY <1>1 DEF OthersMine
    <3> QED
      BY <1>0, <2>01, <3>1 DEF FutureAbsent
  <2>3. TodoMade'
    <3>1. todo' = todo
      BY <1>1 DEF OthersMine
    <3> QED
      BY <1>0, <2>01, <3>1 DEF TodoMade, TypeInv, TypeOK
  <2>4. WaitingMade'
    BY <1>1 DEF OthersMine, TypeInv, TypeOK, ItemOK, Block, Genesis, Public, GenesisHandled,
       FutureAbsent, TodoMade, WaitingMade, MineMade, ItemMade, TodoPlaces
  <2>5. MineMade'
    BY <1>1 DEF OthersMine, TypeInv, TypeOK, ItemOK, Block, Genesis, Public, GenesisHandled,
       FutureAbsent, TodoMade, WaitingMade, MineMade, ItemMade, TodoPlaces
  <2>6. ItemMade'
    <3>1. item' = item /\ pc' = pc
      BY <1>1 DEF OthersMine
    <3> QED
      BY <1>0, <2>01, <3>1 DEF ItemMade, TypeInv, ItemOK
  <2>7. TodoPlaces'
    BY <1>1 DEF OthersMine, TypeInv, TypeOK, ItemOK, Block, Genesis, Public, GenesisHandled,
       FutureAbsent, TodoMade, WaitingMade, MineMade, ItemMade, TodoPlaces
  <2> QED
    BY <2>1, <2>2, <2>3, <2>4, <2>5, <2>6, <2>7 DEF Shape
<1>2. ASSUME NEW t \in Workers, NEW b \in Block, DeliverBlock(t, b) PROVE Shape'
  BY <1>2 DEF Shape, DeliverBlock, TypeInv, TypeOK, ItemOK, Block, Genesis, Public,
     GenesisHandled, FutureAbsent, TodoMade, WaitingMade, MineMade, ItemMade, TodoPlaces
<1>3. ASSUME NEW t \in Workers, NEW x \in Tx, DeliverTransaction(t, x) PROVE Shape'
  BY <1>3 DEF Shape, DeliverTransaction, TypeInv, TypeOK, ItemOK, Block, Genesis, Public,
     GenesisHandled, FutureAbsent, TodoMade, WaitingMade, MineMade, ItemMade, TodoPlaces
<1>4. ASSUME NEW t \in Threads, NEW b \in Block, AlreadyHandled(t, b) PROVE Shape'
  BY <1>4 DEF Shape, AlreadyHandled, Enter, Seen, TypeInv, TypeOK, ItemOK, Block, Genesis,
     Public, GenesisHandled, FutureAbsent, TodoMade, WaitingMade, MineMade, ItemMade,
     TodoPlaces
<1>5. ASSUME NEW t \in Threads, NEW b \in Block, WaitForParent(t, b) PROVE Shape'
  <2>01. b <= made
    BY <1>5 DEF Enter, TodoMade, WaitForParent, Enter, Seen
  <2>02. made' = made /\ sent' = sent /\ \A c \in Block : c # b => blockchain'[c] = blockchain[c]
    BY <1>5 DEF WaitForParent, Enter, Seen, TypeInv, TypeOK
  <2>1. GenesisHandled'
    BY <1>5 DEF WaitForParent, Enter, Seen, TypeInv, TypeOK, ItemOK, Block, Genesis, Public,
       GenesisHandled, FutureAbsent, TodoMade, WaitingMade, MineMade, ItemMade, TodoPlaces
  <2>2. FutureAbsent'
    BY <1>0, <2>01, <2>02 DEF FutureAbsent
  <2>3. TodoMade'
    BY <1>5 DEF WaitForParent, Enter, Seen, TypeInv, TypeOK, ItemOK, Block, Genesis, Public,
       GenesisHandled, FutureAbsent, TodoMade, WaitingMade, MineMade, ItemMade, TodoPlaces
  <2>4. WaitingMade'
    <3>1. pending_blocks \in [Block -> SUBSET Block] BY DEF TypeInv, TypeOK
    <3>2. pending_blocks' = [pending_blocks EXCEPT ![parent[b]] = @ \cup {b}] BY <1>5 DEF WaitForParent
    <3>3. \A p \in Block : pending_blocks'[p] \subseteq pending_blocks[p] \cup {b} BY <3>1, <3>2
    <3> QED BY <2>01, <2>02, <3>3 DEF WaitingMade
  <2>5. MineMade'
    BY <1>5 DEF WaitForParent, Enter, Seen, TypeInv, TypeOK, ItemOK, Block, Genesis, Public,
       GenesisHandled, FutureAbsent, TodoMade, WaitingMade, MineMade, ItemMade, TodoPlaces
  <2>6. ItemMade'
    BY <1>5 DEF WaitForParent, Enter, Seen, TypeInv, TypeOK, ItemOK, Block, Genesis, Public,
       GenesisHandled, FutureAbsent, TodoMade, WaitingMade, MineMade, ItemMade, TodoPlaces
  <2>7. TodoPlaces'
    BY <1>5 DEF WaitForParent, Enter, Seen, TypeInv, TypeOK, ItemOK, Block, Genesis, Public,
       GenesisHandled, FutureAbsent, TodoMade, WaitingMade, MineMade, ItemMade, TodoPlaces
  <2> QED
    BY <2>1, <2>2, <2>3, <2>4, <2>5, <2>6, <2>7 DEF Shape
<1>6. ASSUME NEW t \in Threads, NEW b \in Block, InsertBlock(t, b) PROVE Shape'
  <2>01. b <= made
    BY <1>6 DEF Enter, TodoMade, InsertBlock, Enter, Seen, Insert, TakeChildren
  <2>02. made' = made /\ sent' = sent /\ \A c \in Block : c # b => blockchain'[c] = blockchain[c]
    BY <1>6 DEF InsertBlock, Enter, Seen, Insert, TakeChildren, TypeInv, TypeOK
  <2>1. GenesisHandled'
    BY <1>6 DEF InsertBlock, Enter, Seen, Insert, TakeChildren, TypeInv, TypeOK, ItemOK,
       Block, Genesis, Public, GenesisHandled, FutureAbsent, TodoMade, WaitingMade, MineMade,
       ItemMade, TodoPlaces
  <2>2. FutureAbsent'
    BY <1>0, <2>01, <2>02 DEF FutureAbsent
  <2>3. TodoMade'
    BY <1>6 DEF InsertBlock, Enter, Seen, Insert, TakeChildren, TypeInv, TypeOK, ItemOK,
       Block, Genesis, Public, GenesisHandled, FutureAbsent, TodoMade, WaitingMade, MineMade,
       ItemMade, TodoPlaces
  <2>4. WaitingMade'
    BY <1>6 DEF InsertBlock, Enter, Seen, Insert, TakeChildren, TypeInv, TypeOK, ItemOK,
       Block, Genesis, Public, GenesisHandled, FutureAbsent, TodoMade, WaitingMade, MineMade,
       ItemMade, TodoPlaces
  <2>5. MineMade'
    BY <1>6 DEF InsertBlock, Enter, Seen, Insert, TakeChildren, TypeInv, TypeOK, ItemOK,
       Block, Genesis, Public, GenesisHandled, FutureAbsent, TodoMade, WaitingMade, MineMade,
       ItemMade, TodoPlaces
  <2>6. ItemMade'
    BY <1>6 DEF InsertBlock, Enter, Seen, Insert, TakeChildren, TypeInv, TypeOK, ItemOK,
       Block, Genesis, Public, GenesisHandled, FutureAbsent, TodoMade, WaitingMade, MineMade,
       ItemMade, TodoPlaces
  <2>7. TodoPlaces'
    BY <1>6 DEF InsertBlock, Enter, Seen, Insert, TakeChildren, TypeInv, TypeOK, ItemOK,
       Block, Genesis, Public, GenesisHandled, FutureAbsent, TodoMade, WaitingMade, MineMade,
       ItemMade, TodoPlaces
  <2> QED
    BY <2>1, <2>2, <2>3, <2>4, <2>5, <2>6, <2>7 DEF Shape
<1>7. ASSUME NEW t \in Threads, NEW b \in Block, BeginUpdate(t, b) PROVE Shape'
  <2>01. b <= made
    BY <1>7 DEF Enter, TodoMade, BeginUpdate, Enter, Seen, Insert
  <2>02. made' = made /\ sent' = sent /\ \A c \in Block : c # b => blockchain'[c] = blockchain[c]
    BY <1>7 DEF BeginUpdate, Enter, Seen, Insert, TypeInv, TypeOK
  <2>1. GenesisHandled'
    BY <1>7 DEF BeginUpdate, Enter, Seen, Insert, TypeInv, TypeOK, ItemOK, Block, Genesis,
       Public, GenesisHandled, FutureAbsent, TodoMade, WaitingMade, MineMade, ItemMade,
       TodoPlaces
  <2>2. FutureAbsent'
    BY <1>0, <2>01, <2>02 DEF FutureAbsent
  <2>3. TodoMade'
    BY <1>7 DEF BeginUpdate, Enter, Seen, Insert, TypeInv, TypeOK, ItemOK, Block, Genesis,
       Public, GenesisHandled, FutureAbsent, TodoMade, WaitingMade, MineMade, ItemMade,
       TodoPlaces
  <2>4. WaitingMade'
    BY <1>7 DEF BeginUpdate, Enter, Seen, Insert, TypeInv, TypeOK, ItemOK, Block, Genesis,
       Public, GenesisHandled, FutureAbsent, TodoMade, WaitingMade, MineMade, ItemMade,
       TodoPlaces
  <2>5. MineMade'
    BY <1>7 DEF BeginUpdate, Enter, Seen, Insert, TypeInv, TypeOK, ItemOK, Block, Genesis,
       Public, GenesisHandled, FutureAbsent, TodoMade, WaitingMade, MineMade, ItemMade,
       TodoPlaces
  <2>6. ItemMade'
    BY <1>7 DEF BeginUpdate, Enter, Seen, Insert, TypeInv, TypeOK, ItemOK, Block, Genesis,
       Public, GenesisHandled, FutureAbsent, TodoMade, WaitingMade, MineMade, ItemMade,
       TodoPlaces
  <2>7. TodoPlaces'
    BY <1>7 DEF BeginUpdate, Enter, Seen, Insert, TypeInv, TypeOK, ItemOK, Block, Genesis,
       Public, GenesisHandled, FutureAbsent, TodoMade, WaitingMade, MineMade, ItemMade,
       TodoPlaces
  <2> QED
    BY <2>1, <2>2, <2>3, <2>4, <2>5, <2>6, <2>7 DEF Shape
<1>8. ASSUME NEW t \in Threads, ConfirmNext(t) PROVE Shape'
  BY <1>8 DEF Shape, ConfirmNext, TypeInv, TypeOK, ItemOK, Block, Genesis, Public,
     GenesisHandled, FutureAbsent, TodoMade, WaitingMade, MineMade, ItemMade, TodoPlaces
<1>9. ASSUME NEW t \in Threads, confirm(t) PROVE Shape'
  BY <1>9 DEF Shape, confirm, TypeInv, TypeOK, ItemOK, Block, Genesis, Public,
     GenesisHandled, FutureAbsent, TodoMade, WaitingMade, MineMade, ItemMade, TodoPlaces
<1>10. ASSUME NEW t \in Threads, UnconfirmNext(t) PROVE Shape'
  BY <1>10 DEF Shape, UnconfirmNext, TypeInv, TypeOK, ItemOK, Block, Genesis, Public,
     GenesisHandled, FutureAbsent, TodoMade, WaitingMade, MineMade, ItemMade, TodoPlaces
<1>11. ASSUME NEW t \in Threads, unconfirm(t) PROVE Shape'
  BY <1>11 DEF Shape, unconfirm, TypeInv, TypeOK, ItemOK, Block, Genesis, Public,
     GenesisHandled, FutureAbsent, TodoMade, WaitingMade, MineMade, ItemMade, TodoPlaces
<1>12. ASSUME NEW t \in Threads, EndUpdate(t) PROVE Shape'
  BY <1>12 DEF Shape, EndUpdate, TakeChildren, TypeInv, TypeOK, ItemOK, Block, Genesis,
     Public, GenesisHandled, FutureAbsent, TodoMade, WaitingMade, MineMade, ItemMade,
     TodoPlaces
<1>13. ASSUME NEW t \in Threads, BlockDone(t) PROVE Shape'
  <2>01. item[t] \in Block /\ item[t] <= made
    BY <1>13 DEF BlockDone, ItemMade, TypeInv, ItemOK
  <2>02. made' = made /\ blockchain' = blockchain /\ \A c \in Block : c # item[t] => sent'[c] = sent[c]
    BY <1>13 DEF BlockDone, TypeInv, TypeOK
  <2>1. GenesisHandled'
    BY <1>13 DEF BlockDone, TypeInv, TypeOK, ItemOK, Block, Genesis, Public, GenesisHandled,
       FutureAbsent, TodoMade, WaitingMade, MineMade, ItemMade, TodoPlaces
  <2>2. FutureAbsent'
    BY <1>0, <2>01, <2>02 DEF FutureAbsent
  <2>3. TodoMade'
    BY <1>13 DEF BlockDone, TypeInv, TypeOK, ItemOK, Block, Genesis, Public, GenesisHandled,
       FutureAbsent, TodoMade, WaitingMade, MineMade, ItemMade, TodoPlaces
  <2>4. WaitingMade'
    BY <1>13 DEF BlockDone, TypeInv, TypeOK, ItemOK, Block, Genesis, Public, GenesisHandled,
       FutureAbsent, TodoMade, WaitingMade, MineMade, ItemMade, TodoPlaces
  <2>5. MineMade'
    BY <1>13 DEF BlockDone, TypeInv, TypeOK, ItemOK, Block, Genesis, Public, GenesisHandled,
       FutureAbsent, TodoMade, WaitingMade, MineMade, ItemMade, TodoPlaces
  <2>6. ItemMade'
    BY <1>13 DEF BlockDone, TypeInv, TypeOK, ItemOK, Block, Genesis, Public, GenesisHandled,
       FutureAbsent, TodoMade, WaitingMade, MineMade, ItemMade, TodoPlaces
  <2>7. TodoPlaces'
    BY <1>13 DEF BlockDone, TypeInv, TypeOK, ItemOK, Block, Genesis, Public, GenesisHandled,
       FutureAbsent, TodoMade, WaitingMade, MineMade, ItemMade, TodoPlaces
  <2> QED
    BY <2>1, <2>2, <2>3, <2>4, <2>5, <2>6, <2>7 DEF Shape
<1>14. ASSUME NEW t \in Threads, ReceiveTransaction(t) PROVE Shape'
  <2>1. GenesisHandled' /\ FutureAbsent' /\ TodoMade' /\ WaitingMade' /\ MineMade'
    BY <1>14 DEF ReceiveTransaction, GenesisHandled, FutureAbsent, TodoMade, WaitingMade, MineMade
  <2>2. \A u \in Threads : pc'[u] # pc[u] => pc'[u] \in {"idle", "insert"} /\ u = t /\ pc[u] = "tx"
    BY <1>14 DEF ReceiveTransaction, TypeInv, TypeOK
  <2>3. ItemMade'
    BY <1>14, <2>2 DEF ReceiveTransaction, ItemMade
  <2>4. TodoPlaces'
    BY <1>14, <2>2 DEF ReceiveTransaction, TodoPlaces
  <2> QED
    BY <2>1, <2>3, <2>4 DEF Shape
<1>15. ASSUME NEW t \in Threads, InsertTransaction(t) PROVE Shape'
  BY <1>15 DEF Shape, InsertTransaction, TypeInv, TypeOK, ItemOK, Block, Genesis, Public,
     GenesisHandled, FutureAbsent, TodoMade, WaitingMade, MineMade, ItemMade, TodoPlaces
<1>16. ASSUME Mine PROVE Shape'
  <2>01. made' = made + 1
    BY <1>16 DEF Mine
  <2>1. GenesisHandled'
    BY <1>16 DEF Mine, TypeInv, TypeOK, ItemOK, Block, Genesis, Public, GenesisHandled,
       FutureAbsent, TodoMade, WaitingMade, MineMade, ItemMade, TodoPlaces
  <2>2. FutureAbsent'
    <3>1. blockchain' = blockchain /\ sent' = sent
      BY <1>16 DEF Mine
    <3> QED
      BY <1>0, <2>01, <3>1 DEF FutureAbsent
  <2>3. TodoMade'
    <3>1. todo' = todo
      BY <1>16 DEF Mine
    <3> QED
      BY <1>0, <2>01, <3>1 DEF TodoMade, TypeInv, TypeOK
  <2>4. WaitingMade'
    BY <1>16 DEF Mine, TypeInv, TypeOK, ItemOK, Block, Genesis, Public, GenesisHandled,
       FutureAbsent, TodoMade, WaitingMade, MineMade, ItemMade, TodoPlaces
  <2>5. MineMade'
    BY <1>16 DEF Mine, TypeInv, TypeOK, ItemOK, Block, Genesis, Public, GenesisHandled,
       FutureAbsent, TodoMade, WaitingMade, MineMade, ItemMade, TodoPlaces
  <2>6. ItemMade'
    <3>1. item' = [item EXCEPT ![Main] = made'] /\ pc' = [pc EXCEPT ![Main] = "collect"]
      BY <1>16 DEF Mine
    <3>2. SUFFICES ASSUME NEW t \in Threads, pc'[t] \in BlockPlaces \cup {"collect"}
                   PROVE  item'[t] <= made'
      BY DEF ItemMade
    <3>3. CASE t = Main
      BY <1>0, <2>01, <3>1, <3>3 DEF TypeInv, TypeOK
    <3>4. CASE t # Main
      <4>1. item'[t] = item[t] /\ pc'[t] = pc[t]
        BY <3>1, <3>4 DEF TypeInv, TypeOK
      <4>2. item[t] \in Block /\ item[t] <= made
        BY <3>2, <4>1 DEF ItemMade, TypeInv, ItemOK
      <4> QED
        BY <1>0, <2>01, <4>1, <4>2
    <3> QED
      BY <3>3, <3>4
  <2>7. TodoPlaces'
    BY <1>16 DEF Mine, TypeInv, TypeOK, ItemOK, Block, Genesis, Public, GenesisHandled,
       FutureAbsent, TodoMade, WaitingMade, MineMade, ItemMade, TodoPlaces
  <2> QED
    BY <2>1, <2>2, <2>3, <2>4, <2>5, <2>6, <2>7 DEF Shape
<1>17. ASSUME Collect PROVE Shape'
  <2>01. item[Main] <= made
    BY <1>17 DEF Collect, ItemMade
  <2>02. made' = made /\ todo' = [todo EXCEPT ![Main] = {item[Main]}]
    BY <1>17 DEF Collect
  <2>1. GenesisHandled'
    BY <1>17 DEF Collect, TypeInv, TypeOK, ItemOK, Block, Genesis, Public, GenesisHandled,
       FutureAbsent, TodoMade, WaitingMade, MineMade, ItemMade, TodoPlaces
  <2>2. FutureAbsent'
    BY <1>17 DEF Collect, TypeInv, TypeOK, ItemOK, Block, Genesis, Public, GenesisHandled,
       FutureAbsent, TodoMade, WaitingMade, MineMade, ItemMade, TodoPlaces
  <2>3. TodoMade'
    BY <2>01, <2>02 DEF TodoMade, TypeInv, TypeOK
  <2>4. WaitingMade'
    BY <1>17 DEF Collect, TypeInv, TypeOK, ItemOK, Block, Genesis, Public, GenesisHandled,
       FutureAbsent, TodoMade, WaitingMade, MineMade, ItemMade, TodoPlaces
  <2>5. MineMade'
    BY <1>17 DEF Collect, TypeInv, TypeOK, ItemOK, Block, Genesis, Public, GenesisHandled,
       FutureAbsent, TodoMade, WaitingMade, MineMade, ItemMade, TodoPlaces
  <2>6. ItemMade'
    BY <1>17 DEF Collect, TypeInv, TypeOK, ItemOK, Block, Genesis, Public, GenesisHandled,
       FutureAbsent, TodoMade, WaitingMade, MineMade, ItemMade, TodoPlaces
  <2>7. TodoPlaces'
    BY <1>17 DEF Collect, TypeInv, TypeOK, ItemOK, Block, Genesis, Public, GenesisHandled,
       FutureAbsent, TodoMade, WaitingMade, MineMade, ItemMade, TodoPlaces
  <2> QED
    BY <2>1, <2>2, <2>3, <2>4, <2>5, <2>6, <2>7 DEF Shape
<1>18. ASSUME CollectUnknown PROVE Shape'
  BY <1>18 DEF Shape, CollectUnknown, TypeInv, TypeOK, ItemOK, Block, Genesis, Public,
     GenesisHandled, FutureAbsent, TodoMade, WaitingMade, MineMade, ItemMade, TodoPlaces
<1>19. ASSUME NEW x \in Tx, Spend(x) PROVE Shape'
  BY <1>19 DEF Shape, Spend, TypeInv, TypeOK, ItemOK, Block, Genesis, Public,
     GenesisHandled, FutureAbsent, TodoMade, WaitingMade, MineMade, ItemMade, TodoPlaces
<1>20. ASSUME Pay PROVE Shape'
  BY <1>20 DEF Shape, Pay, TypeInv, TypeOK, ItemOK, Block, Genesis, Public, GenesisHandled,
     FutureAbsent, TodoMade, WaitingMade, MineMade, ItemMade, TodoPlaces
<1>21. CASE UNCHANGED vars
  BY <1>21 DEF vars, Shape, GenesisHandled, FutureAbsent, TodoMade, WaitingMade, MineMade,
     ItemMade, TodoPlaces
<1> QED
  BY <1>1, <1>2, <1>3, <1>4, <1>5, <1>6, <1>7, <1>8, <1>9, <1>10, <1>11, <1>12, <1>13,
     <1>14, <1>15, <1>16, <1>17, <1>18, <1>19, <1>20, <1>21 DEF Next, HandleStep, MainStep

\* Initially only the genesis block is in the node.
LEMMA ShapeInvariance == Spec => [](TypeInv /\ Shape)
<1>1. Init => Shape
  <2> SUFFICES ASSUME Init PROVE Shape
    OBVIOUS
  <2>1. Genesis \in Block /\ \A b \in Block : b > 0 => b # Genesis
    BY TinyAssumption DEF Genesis, Block
  <2> QED
    BY <2>1 DEF Init, Shape, GenesisHandled, FutureAbsent, TodoMade, WaitingMade, MineMade,
                ItemMade, TodoPlaces, BlockPlaces
<1> QED
  BY <1>1, TypeInvariance, ShapeStep, PTL DEF Spec

\* Every step keeps the tree of handled blocks, and the head on a longest chain.
LEMMA TreeStep == TypeInv /\ Shape /\ TreeOK /\ HeadLongest /\ [Next]_vars => TreeOK' /\ HeadLongest'
<1> SUFFICES ASSUME TypeInv, Shape, TreeOK, HeadLongest, [Next]_vars
             PROVE  TreeOK' /\ HeadLongest'
  OBVIOUS
<1> USE DEF network, chain, money, pool, locals
<1>0. FutureAbsent /\ made \in Int /\ \A b \in Block : b \in Int
  BY DEF Shape, TypeInv, TypeOK, Block
<1>1. ASSUME NEW p \in Block, NEW X \in SUBSET Tx, OthersMine(p, X)
      PROVE  TreeOK' /\ HeadLongest'
  <2>1. made' = made + 1 /\ blockchain' = blockchain /\ lengths' = lengths /\ head' = head
    BY <1>1 DEF OthersMine
  <2>2. \A c \in Block : c # made' => parent'[c] = parent[c]
    BY <1>1 DEF OthersMine, TypeInv, TypeOK
  <2>3. \A c \in Block : blockchain[c] = "handled" => c # made'
    BY <1>0, <2>1 DEF FutureAbsent
  <2> QED
    BY <2>1, <2>2, <2>3 DEF TreeOK, HeadLongest
<1>2. ASSUME NEW t \in Workers, NEW b \in Block, DeliverBlock(t, b)
      PROVE  TreeOK' /\ HeadLongest'
  BY <1>2 DEF DeliverBlock, TreeOK, HeadLongest
<1>3. ASSUME NEW t \in Workers, NEW x \in Tx, DeliverTransaction(t, x)
      PROVE  TreeOK' /\ HeadLongest'
  BY <1>3 DEF DeliverTransaction, TreeOK, HeadLongest
<1>4. ASSUME NEW t \in Threads, NEW b \in Block, AlreadyHandled(t, b)
      PROVE  TreeOK' /\ HeadLongest'
  BY <1>4 DEF AlreadyHandled, Enter, Seen, TreeOK, HeadLongest
<1>5. ASSUME NEW t \in Threads, NEW b \in Block, WaitForParent(t, b)
      PROVE  TreeOK' /\ HeadLongest'
  <2>1. parent' = parent /\ lengths' = lengths /\ head' = head
    BY <1>5 DEF WaitForParent, Enter, Seen
  <2>2. \A c \in Block : blockchain'[c] = "handled" <=> blockchain[c] = "handled"
    BY <1>5 DEF WaitForParent, Enter, Seen, TypeInv, TypeOK
  <2> QED
    BY <2>1, <2>2 DEF TreeOK, HeadLongest, TypeInv, TypeOK
<1>6. ASSUME NEW t \in Threads, NEW b \in Block, InsertBlock(t, b) PROVE TreeOK' /\ HeadLongest'
  <2>1. /\ parent' = parent
        /\ blockchain' = [blockchain EXCEPT ![b] = "handled"]
        /\ lengths' = [lengths EXCEPT ![b] = lengths[parent[b]] + 1]
        /\ blockchain[b] # "handled" /\ blockchain[parent[b]] = "handled"
    BY <1>6 DEF InsertBlock, Enter, Seen, Insert, TakeChildren
  <2>2. parent[b] \in Block /\ parent[b] # b /\ head # b /\ head \in Block
    BY <2>1 DEF HeadLongest, TypeInv, TypeOK
  <2>3. /\ blockchain'[b] = "handled" /\ lengths'[b] = lengths[parent[b]] + 1
        /\ \A c \in Block : c # b => blockchain'[c] = blockchain[c] /\ lengths'[c] = lengths[c]
    BY <2>1 DEF TypeInv, TypeOK
  <2>4. TreeOK'
    BY <2>1, <2>2, <2>3 DEF TreeOK, TypeInv, TypeOK
  <2>5. HeadLongest'
    <3>1. head' = head /\ lengths[parent[b]] + 1 <= lengths[head]
      BY <1>6 DEF InsertBlock
    <3> QED
      BY <2>2, <2>3, <3>1 DEF HeadLongest, TypeInv, TypeOK
  <2> QED
    BY <2>4, <2>5
<1>7. ASSUME NEW t \in Threads, NEW b \in Block, BeginUpdate(t, b) PROVE TreeOK' /\ HeadLongest'
  <2>1. /\ parent' = parent
        /\ blockchain' = [blockchain EXCEPT ![b] = "handled"]
        /\ lengths' = [lengths EXCEPT ![b] = lengths[parent[b]] + 1]
        /\ blockchain[b] # "handled" /\ blockchain[parent[b]] = "handled"
    BY <1>7 DEF BeginUpdate, Enter, Seen, Insert
  <2>2. parent[b] \in Block /\ parent[b] # b /\ head # b /\ head \in Block
    BY <2>1 DEF HeadLongest, TypeInv, TypeOK
  <2>3. /\ blockchain'[b] = "handled" /\ lengths'[b] = lengths[parent[b]] + 1
        /\ \A c \in Block : c # b => blockchain'[c] = blockchain[c] /\ lengths'[c] = lengths[c]
    BY <2>1 DEF TypeInv, TypeOK
  <2>4. TreeOK'
    BY <2>1, <2>2, <2>3 DEF TreeOK, TypeInv, TypeOK
  <2>5. HeadLongest'
    <3>1. head' = b /\ lengths[parent[b]] + 1 > lengths[head]
      BY <1>7 DEF BeginUpdate
    <3> QED
      BY <2>2, <2>3, <3>1 DEF HeadLongest, TypeInv, TypeOK
  <2> QED
    BY <2>4, <2>5
<1>8. ASSUME NEW t \in Threads, ConfirmNext(t) PROVE TreeOK' /\ HeadLongest'
  BY <1>8 DEF ConfirmNext, TreeOK, HeadLongest
<1>9. ASSUME NEW t \in Threads, confirm(t) PROVE TreeOK' /\ HeadLongest'
  BY <1>9 DEF confirm, TreeOK, HeadLongest
<1>10. ASSUME NEW t \in Threads, UnconfirmNext(t) PROVE TreeOK' /\ HeadLongest'
  BY <1>10 DEF UnconfirmNext, TreeOK, HeadLongest
<1>11. ASSUME NEW t \in Threads, unconfirm(t) PROVE TreeOK' /\ HeadLongest'
  BY <1>11 DEF unconfirm, TreeOK, HeadLongest
<1>12. ASSUME NEW t \in Threads, EndUpdate(t) PROVE TreeOK' /\ HeadLongest'
  BY <1>12 DEF EndUpdate, TakeChildren, TreeOK, HeadLongest
<1>13. ASSUME NEW t \in Threads, BlockDone(t) PROVE TreeOK' /\ HeadLongest'
  BY <1>13 DEF BlockDone, TreeOK, HeadLongest
<1>14. ASSUME NEW t \in Threads, ReceiveTransaction(t) PROVE TreeOK' /\ HeadLongest'
  BY <1>14 DEF ReceiveTransaction, TreeOK, HeadLongest
<1>15. ASSUME NEW t \in Threads, InsertTransaction(t) PROVE TreeOK' /\ HeadLongest'
  BY <1>15 DEF InsertTransaction, TreeOK, HeadLongest
<1>16. ASSUME Mine PROVE TreeOK' /\ HeadLongest'
  <2>1. made' = made + 1 /\ blockchain' = blockchain /\ lengths' = lengths /\ head' = head
    BY <1>16 DEF Mine
  <2>2. \A c \in Block : c # made' => parent'[c] = parent[c]
    BY <1>16 DEF Mine, TypeInv, TypeOK
  <2>3. \A c \in Block : blockchain[c] = "handled" => c # made'
    BY <1>0, <2>1 DEF FutureAbsent
  <2> QED
    BY <2>1, <2>2, <2>3 DEF TreeOK, HeadLongest
<1>17. ASSUME Collect PROVE TreeOK' /\ HeadLongest'
  BY <1>17 DEF Collect, TreeOK, HeadLongest
<1>18. ASSUME CollectUnknown PROVE TreeOK' /\ HeadLongest'
  BY <1>18 DEF CollectUnknown, TreeOK, HeadLongest
<1>19. ASSUME NEW x \in Tx, Spend(x) PROVE TreeOK' /\ HeadLongest'
  BY <1>19 DEF Spend, TreeOK, HeadLongest
<1>20. ASSUME Pay PROVE TreeOK' /\ HeadLongest'
  BY <1>20 DEF Pay, TreeOK, HeadLongest
<1>21. CASE UNCHANGED vars
  BY <1>21 DEF vars, TreeOK, HeadLongest
<1> QED
  BY <1>1, <1>2, <1>3, <1>4, <1>5, <1>6, <1>7, <1>8, <1>9, <1>10, <1>11, <1>12, <1>13,
     <1>14, <1>15, <1>16, <1>17, <1>18, <1>19, <1>20, <1>21 DEF Next, HandleStep, MainStep

\* Both hold in every reachable state.
LEMMA TreeInvariance == Spec => [](TypeInv /\ Shape /\ TreeOK /\ HeadLongest)
<1>1. Init => TreeOK /\ HeadLongest
  BY TinyAssumption DEF Init, TreeOK, HeadLongest, Block, Genesis
<1> QED
  BY <1>1, ShapeInvariance, TreeStep, PTL DEF Spec

\* The handled blocks of every node form a tree with the right lengths.
THEOREM HandledBlocksFormTree == Spec => []TreeOK
BY TreeInvariance, PTL

\* The head of every node is the end of a longest chain.
THEOREM HeadIsLongest == Spec => []HeadLongest
BY TreeInvariance, PTL

\* A thread is in update_head exactly when it holds blockchain_mutex,
\* and has then already put the block into the tree.
HoldPlaces == {"walk", "confirm", "undo", "unconfirm"}

LockInv ==
  /\ \A t \in Threads : pc[t] \in HoldPlaces => lock = t
  /\ \A t \in Threads : lock = t => pc[t] \in HoldPlaces /\ blockchain[blk[t]] = "handled"

\* Every step keeps the mutex with the thread in update_head.
LEMMA LockStep == TypeInv /\ LockInv /\ [Next]_vars => LockInv'
<1> SUFFICES ASSUME TypeInv, LockInv, [Next]_vars
             PROVE  LockInv'
  OBVIOUS
<1> USE TinyAssumption DEF network, chain, money, pool, locals, Threads
<1>1. ASSUME NEW p \in Block, NEW X \in SUBSET Tx, OthersMine(p, X) PROVE LockInv'
  BY <1>1 DEF OthersMine, LockInv, HoldPlaces, At, Goto, Enter, TypeInv, TypeOK
<1>2. ASSUME NEW t \in Workers, NEW b \in Block, DeliverBlock(t, b) PROVE LockInv'
  BY <1>2 DEF DeliverBlock, LockInv, HoldPlaces, At, Goto, Enter, TypeInv, TypeOK
<1>3. ASSUME NEW t \in Workers, NEW x \in Tx, DeliverTransaction(t, x) PROVE LockInv'
  BY <1>3 DEF DeliverTransaction, LockInv, HoldPlaces, At, Goto, Enter, TypeInv, TypeOK
<1>4. ASSUME NEW t \in Threads, NEW b \in Block, AlreadyHandled(t, b) PROVE LockInv'
  BY <1>4 DEF AlreadyHandled, Enter, Seen, LockInv, HoldPlaces, At, Goto, Enter, TypeInv, TypeOK
<1>5. ASSUME NEW t \in Threads, NEW b \in Block, WaitForParent(t, b) PROVE LockInv'
  BY <1>5 DEF WaitForParent, Enter, Seen, LockInv, HoldPlaces, At, Goto, Enter, TypeInv, TypeOK
<1>6. ASSUME NEW t \in Threads, NEW b \in Block, InsertBlock(t, b) PROVE LockInv'
  BY <1>6 DEF InsertBlock, Enter, Seen, Insert, TakeChildren, LockInv, HoldPlaces, At, Goto,
     Enter, TypeInv, TypeOK
<1>7. ASSUME NEW t \in Threads, NEW b \in Block, BeginUpdate(t, b) PROVE LockInv'
  BY <1>7 DEF BeginUpdate, Enter, Seen, Insert, LockInv, HoldPlaces, At, Goto, Enter,
     TypeInv, TypeOK
<1>8. ASSUME NEW t \in Threads, ConfirmNext(t) PROVE LockInv'
  BY <1>8 DEF ConfirmNext, LockInv, HoldPlaces, At, Goto, Enter, TypeInv, TypeOK
<1>9. ASSUME NEW t \in Threads, confirm(t) PROVE LockInv'
  BY <1>9 DEF confirm, LockInv, HoldPlaces, At, Goto, Enter, TypeInv, TypeOK
<1>10. ASSUME NEW t \in Threads, UnconfirmNext(t) PROVE LockInv'
  BY <1>10 DEF UnconfirmNext, LockInv, HoldPlaces, At, Goto, Enter, TypeInv, TypeOK
<1>11. ASSUME NEW t \in Threads, unconfirm(t) PROVE LockInv'
  BY <1>11 DEF unconfirm, LockInv, HoldPlaces, At, Goto, Enter, TypeInv, TypeOK
<1>12. ASSUME NEW t \in Threads, EndUpdate(t) PROVE LockInv'
  BY <1>12 DEF EndUpdate, TakeChildren, LockInv, HoldPlaces, At, Goto, Enter, TypeInv, TypeOK
<1>13. ASSUME NEW t \in Threads, BlockDone(t) PROVE LockInv'
  BY <1>13 DEF BlockDone, LockInv, HoldPlaces, At, Goto, Enter, TypeInv, TypeOK
<1>14. ASSUME NEW t \in Threads, ReceiveTransaction(t) PROVE LockInv'
  BY <1>14 DEF ReceiveTransaction, LockInv, HoldPlaces, At, Goto, Enter, TypeInv, TypeOK
<1>15. ASSUME NEW t \in Threads, InsertTransaction(t) PROVE LockInv'
  BY <1>15 DEF InsertTransaction, LockInv, HoldPlaces, At, Goto, Enter, TypeInv, TypeOK
<1>16. ASSUME Mine PROVE LockInv'
  BY <1>16 DEF Mine, LockInv, HoldPlaces, At, Goto, Enter, TypeInv, TypeOK
<1>17. ASSUME Collect PROVE LockInv'
  BY <1>17 DEF Collect, LockInv, HoldPlaces, At, Goto, Enter, TypeInv, TypeOK
<1>18. ASSUME CollectUnknown PROVE LockInv'
  BY <1>18 DEF CollectUnknown, LockInv, HoldPlaces, At, Goto, Enter, TypeInv, TypeOK
<1>19. ASSUME NEW x \in Tx, Spend(x) PROVE LockInv'
  BY <1>19 DEF Spend, LockInv, HoldPlaces, At, Goto, Enter, TypeInv, TypeOK
<1>20. ASSUME Pay PROVE LockInv'
  BY <1>20 DEF Pay, LockInv, HoldPlaces, At, Goto, Enter, TypeInv, TypeOK
<1>21. CASE UNCHANGED vars
  BY <1>21 DEF vars, LockInv, HoldPlaces, At, Goto, Enter, TypeInv, TypeOK
<1> QED
  BY <1>1, <1>2, <1>3, <1>4, <1>5, <1>6, <1>7, <1>8, <1>9, <1>10, <1>11, <1>12, <1>13,
     <1>14, <1>15, <1>16, <1>17, <1>18, <1>19, <1>20, <1>21 DEF Next, HandleStep, MainStep

\* Every step keeps hold of the pending blocks.
LEMMA NoneForgottenStep ==
  TypeInv /\ Shape /\ LockInv /\ NoneForgotten /\ [Next]_vars => NoneForgotten'
<1> SUFFICES ASSUME TypeInv, Shape, LockInv, NoneForgotten, [Next]_vars
             PROVE  NoneForgotten'
  OBVIOUS
<1> USE DEF network, chain, money, pool, locals
<1>0. FutureAbsent /\ made \in Int /\ \A b \in Block : b \in Int
  BY DEF Shape, TypeInv, TypeOK, Block
<1>1. ASSUME NEW p \in Block, NEW X \in SUBSET Tx, OthersMine(p, X) PROVE NoneForgotten'
  <2>1. /\ blockchain' = blockchain /\ pending_blocks' = pending_blocks /\ todo' = todo
        /\ lock' = lock /\ blk' = blk
    BY <1>1 DEF OthersMine
  <2>2. \A c \in Block : c # made' => parent'[c] = parent[c]
    BY <1>1 DEF OthersMine, TypeInv, TypeOK
  <2>3. \A c \in Block : blockchain[c] = "pending" => c # made'
    <3>1. made' = made + 1
      BY <1>1 DEF OthersMine
    <3> QED
      BY <1>0, <3>1 DEF FutureAbsent
  <2> QED
    BY <2>1, <2>2, <2>3 DEF NoneForgotten
<1>2. ASSUME NEW t \in Workers, NEW b \in Block, DeliverBlock(t, b) PROVE NoneForgotten'
  <2>1. todo[t] = {}
    BY <1>2 DEF DeliverBlock, Shape, TodoPlaces, At, Threads, BlockPlaces
  <2>2. \A u \in Threads : todo[u] \subseteq todo'[u]
    BY <1>2, <2>1 DEF DeliverBlock, TypeInv, TypeOK
  <2>3. UNCHANGED <<blockchain, pending_blocks, parent, lock, blk>>
    BY <1>2 DEF DeliverBlock
  <2> QED
    BY <2>2, <2>3 DEF NoneForgotten
<1>3. ASSUME NEW t \in Workers, NEW x \in Tx, DeliverTransaction(t, x) PROVE NoneForgotten'
  BY <1>3 DEF DeliverTransaction, NoneForgotten
<1>4. ASSUME NEW t \in Threads, NEW b \in Block, AlreadyHandled(t, b) PROVE NoneForgotten'
  <2>1. /\ UNCHANGED <<blockchain, pending_blocks, parent, lock, blk>> /\ blockchain[b] = "handled"
        /\ \A u \in Threads, c \in Block : c \in todo[u] /\ c # b => c \in todo'[u]
    BY <1>4 DEF AlreadyHandled, Enter, Seen, TypeInv, TypeOK
  <2> QED
    BY <2>1 DEF NoneForgotten
<1>5. ASSUME NEW t \in Threads, NEW b \in Block, WaitForParent(t, b) PROVE NoneForgotten'
  <2>1. /\ parent' = parent /\ lock' = lock /\ lock = NoThread
        /\ blockchain[parent[b]] # "handled" /\ parent[b] \in Block
        /\ \A c \in Block : c # b => blockchain'[c] = blockchain[c]
        /\ blockchain'[b] = "pending"
        /\ b \in pending_blocks'[parent[b]]
        /\ \A c \in Block : pending_blocks[c] \subseteq pending_blocks'[c]
        /\ \A u \in Threads, c \in Block : c \in todo[u] /\ c # b => c \in todo'[u]
    BY <1>5 DEF WaitForParent, Enter, Seen, TypeInv, TypeOK
  <2>2. parent \in [Block -> Block]
    BY DEF TypeInv, TypeOK
  <2> QED
    BY <2>1, <2>2 DEF NoneForgotten
<1>6. ASSUME NEW t \in Threads, NEW b \in Block, InsertBlock(t, b) PROVE NoneForgotten'
  <2>1. /\ parent' = parent /\ lock' = lock /\ lock = NoThread
        /\ \A c \in Block : c # b => blockchain'[c] = blockchain[c]
        /\ blockchain'[b] = "handled"
        /\ \A c \in Block : c # b => pending_blocks'[c] = pending_blocks[c]
        /\ \A c \in pending_blocks[b] : c \in todo'[t]
        /\ \A u \in Threads, c \in Block : c \in todo[u] /\ c # b => c \in todo'[u]
    BY <1>6 DEF InsertBlock, Enter, Seen, Insert, TakeChildren, TypeInv, TypeOK
  <2>2. parent \in [Block -> Block]
    BY DEF TypeInv, TypeOK
  <2> QED
    BY <2>1, <2>2 DEF NoneForgotten
<1>7. ASSUME NEW t \in Threads, NEW b \in Block, BeginUpdate(t, b) PROVE NoneForgotten'
  <2>1. /\ parent' = parent /\ lock = NoThread /\ lock' = t /\ t # NoThread /\ blk'[t] = b
        /\ \A c \in Block : c # b => blockchain'[c] = blockchain[c]
        /\ blockchain'[b] = "handled"
        /\ pending_blocks' = pending_blocks /\ todo' = todo
    BY <1>7, TinyAssumption DEF BeginUpdate, Enter, Seen, Insert, TypeInv, TypeOK
  <2>2. parent \in [Block -> Block]
    BY DEF TypeInv, TypeOK
  <2> QED
    BY <2>1, <2>2 DEF NoneForgotten
<1>8. ASSUME NEW t \in Threads, ConfirmNext(t) PROVE NoneForgotten'
  BY <1>8 DEF ConfirmNext, NoneForgotten
<1>9. ASSUME NEW t \in Threads, confirm(t) PROVE NoneForgotten'
  BY <1>9 DEF confirm, NoneForgotten
<1>10. ASSUME NEW t \in Threads, UnconfirmNext(t) PROVE NoneForgotten'
  BY <1>10 DEF UnconfirmNext, NoneForgotten
<1>11. ASSUME NEW t \in Threads, unconfirm(t) PROVE NoneForgotten'
  BY <1>11 DEF unconfirm, NoneForgotten
<1>12. ASSUME NEW t \in Threads, EndUpdate(t) PROVE NoneForgotten'
  <2>0. lock = t
    BY <1>12 DEF EndUpdate, LockInv, HoldPlaces, At
  <2>1. /\ parent' = parent /\ blockchain' = blockchain /\ blk' = blk
        /\ \A c \in Block : c # blk[t] => pending_blocks'[c] = pending_blocks[c]
        /\ \A c \in pending_blocks[blk[t]] : c \in todo'[t]
        /\ \A u \in Threads, c \in Block : c \in todo[u] /\ c # blk[t] => c \in todo'[u]
    BY <1>12 DEF EndUpdate, TakeChildren, TypeInv, TypeOK
  <2>2. parent \in [Block -> Block] /\ blk[t] \in Block /\ blockchain[blk[t]] = "handled"
    BY <2>0 DEF TypeInv, TypeOK, LockInv
  <2> QED
    BY <2>0, <2>1, <2>2 DEF NoneForgotten
<1>13. ASSUME NEW t \in Threads, BlockDone(t) PROVE NoneForgotten'
  BY <1>13 DEF BlockDone, NoneForgotten
<1>14. ASSUME NEW t \in Threads, ReceiveTransaction(t) PROVE NoneForgotten'
  BY <1>14 DEF ReceiveTransaction, NoneForgotten
<1>15. ASSUME NEW t \in Threads, InsertTransaction(t) PROVE NoneForgotten'
  BY <1>15 DEF InsertTransaction, NoneForgotten
<1>16. ASSUME Mine PROVE NoneForgotten'
  <2>1. /\ blockchain' = blockchain /\ pending_blocks' = pending_blocks /\ todo' = todo
        /\ lock' = lock /\ blk' = blk
    BY <1>16 DEF Mine
  <2>2. \A c \in Block : c # made' => parent'[c] = parent[c]
    BY <1>16 DEF Mine, TypeInv, TypeOK
  <2>3. \A c \in Block : blockchain[c] = "pending" => c # made'
    <3>1. made' = made + 1
      BY <1>16 DEF Mine
    <3> QED
      BY <1>0, <3>1 DEF FutureAbsent
  <2> QED
    BY <2>1, <2>2, <2>3 DEF NoneForgotten
<1>17. ASSUME Collect PROVE NoneForgotten'
  <2>1. todo[Main] = {}
    BY <1>17 DEF Collect, Shape, TodoPlaces, At, Threads, BlockPlaces
  <2>2. \A u \in Threads : todo[u] \subseteq todo'[u]
    BY <1>17, <2>1 DEF Collect, TypeInv, TypeOK
  <2>3. UNCHANGED <<blockchain, pending_blocks, parent, lock, blk>>
    BY <1>17 DEF Collect
  <2> QED
    BY <2>2, <2>3 DEF NoneForgotten
<1>18. ASSUME CollectUnknown PROVE NoneForgotten'
  BY <1>18 DEF CollectUnknown, NoneForgotten
<1>19. ASSUME NEW x \in Tx, Spend(x) PROVE NoneForgotten'
  BY <1>19 DEF Spend, NoneForgotten
<1>20. ASSUME Pay PROVE NoneForgotten'
  BY <1>20 DEF Pay, NoneForgotten
<1>21. CASE UNCHANGED vars
  BY <1>21 DEF vars, NoneForgotten
<1> QED
  BY <1>1, <1>2, <1>3, <1>4, <1>5, <1>6, <1>7, <1>8, <1>9, <1>10, <1>11, <1>12, <1>13,
     <1>14, <1>15, <1>16, <1>17, <1>18, <1>19, <1>20, <1>21 DEF Next, HandleStep, MainStep

\* The mutex, and the pending blocks, in every reachable state.
LEMMA LockInvariance == Spec => [](LockInv /\ NoneForgotten)
<1>1. Init => LockInv /\ NoneForgotten
  BY TinyAssumption DEF Init, LockInv, NoneForgotten, HoldPlaces
<1> QED
  BY <1>1, ShapeInvariance, LockStep, NoneForgottenStep, PTL DEF Spec

\* No node ever forgets a block that arrived before its parent.
THEOREM NoBlockForgotten == Spec => []NoneForgotten
BY LockInvariance, PTL

\* Who may forward what: a block is sent only when it has been seen; a worker is given blocks
\* of others, or blocks of this node that came back; Main forwards a block mined here,
\* a worker one that was mined elsewhere, and no two workers the same one.
SentOnce == \A b \in Block : sent[b] \in {0, 1}
SentSeen == \A b \in Block : sent[b] # 0 => blockchain[b] # "absent"
WorkerItem == \A t \in Workers : pc[t] \in BlockPlaces => item[t] \notin mine \/ sent[item[t]] # 0
MainItem == pc[Main] = "collect" => item[Main] \in mine /\ sent[item[Main]] = 0
ItemSeen == \A t \in Threads : pc[t] \in BlockPlaces =>
              item[t] \in todo[t] \/ blockchain[item[t]] # "absent"
WorkerForward == \A t \in Workers : fwd[t] = TRUE =>
  /\ pc[t] \in BlockPlaces /\ item[t] \notin mine
  /\ sent[item[t]] = 0 /\ blockchain[item[t]] # "absent"
MainForward == fwd[Main] = TRUE => pc[Main] \in BlockPlaces /\ item[Main] \in mine /\ sent[item[Main]] = 0
OneForwarder == \A t, u \in Workers : fwd[t] = TRUE /\ fwd[u] = TRUE /\ item[t] = item[u] => t = u

ForwardInv ==
  /\ SentOnce /\ SentSeen /\ WorkerItem /\ MainItem /\ ItemSeen /\ WorkerForward
  /\ MainForward /\ OneForwarder

\* Every step keeps the duty to forward a block with one thread.
LEMMA ForwardStep == TypeInv /\ Shape /\ LockInv /\ ForwardInv /\ [Next]_vars => ForwardInv'
<1> SUFFICES ASSUME TypeInv, Shape, LockInv, [Next]_vars,
                    SentOnce, SentSeen, WorkerItem, MainItem, ItemSeen, WorkerForward, MainForward, OneForwarder
             PROVE  ForwardInv'
  BY DEF ForwardInv
<1> USE TinyAssumption DEF network, chain, money, pool, locals, Threads, BlockPlaces, At, Goto
<1>1. ASSUME NEW p \in Block, NEW X \in SUBSET Tx, OthersMine(p, X) PROVE ForwardInv'
  <2>1. SentOnce'
    BY <1>1 DEF OthersMine, TypeInv, TypeOK, ItemOK, SentOnce
  <2>2. SentSeen'
    BY <1>1 DEF OthersMine, TypeInv, TypeOK, ItemOK, SentSeen
  <2>3. WorkerItem'
    BY <1>1 DEF OthersMine, TypeInv, TypeOK, ItemOK, WorkerItem
  <2>4. MainItem'
    BY <1>1 DEF OthersMine, TypeInv, TypeOK, ItemOK, MainItem
  <2>5. ItemSeen'
    BY <1>1 DEF OthersMine, TypeInv, TypeOK, ItemOK, ItemSeen
  <2>6. WorkerForward'
    BY <1>1 DEF OthersMine, TypeInv, TypeOK, ItemOK, WorkerForward
  <2>7. MainForward'
    BY <1>1 DEF OthersMine, TypeInv, TypeOK, ItemOK, MainForward
  <2>8. OneForwarder'
    BY <1>1 DEF OthersMine, TypeInv, TypeOK, ItemOK, OneForwarder, WorkerForward
  <2> QED
    BY <2>1, <2>2, <2>3, <2>4, <2>5, <2>6, <2>7, <2>8 DEF ForwardInv
<1>2. ASSUME NEW t \in Workers, NEW b \in Block, DeliverBlock(t, b) PROVE ForwardInv'
  <2>0. b \notin mine \/ sent[b] # 0
    BY <1>2 DEF DeliverBlock, Public, Genesis, TypeInv, TypeOK
  <2>1. SentOnce'
    BY <1>2 DEF DeliverBlock, TypeInv, TypeOK, ItemOK, SentOnce
  <2>2. SentSeen'
    BY <1>2 DEF DeliverBlock, TypeInv, TypeOK, ItemOK, SentSeen
  <2>3. WorkerItem'
    BY <1>2, <2>0 DEF DeliverBlock, TypeInv, TypeOK, ItemOK, WorkerItem
  <2>4. MainItem'
    BY <1>2 DEF DeliverBlock, TypeInv, TypeOK, ItemOK, MainItem
  <2>5. ItemSeen'
    BY <1>2 DEF DeliverBlock, TypeInv, TypeOK, ItemOK, ItemSeen
  <2>6. WorkerForward'
    BY <1>2 DEF DeliverBlock, TypeInv, TypeOK, ItemOK, WorkerForward
  <2>7. MainForward'
    BY <1>2 DEF DeliverBlock, TypeInv, TypeOK, ItemOK, MainForward
  <2>8. OneForwarder'
    BY <1>2 DEF DeliverBlock, TypeInv, TypeOK, ItemOK, OneForwarder, WorkerForward
  <2> QED
    BY <2>1, <2>2, <2>3, <2>4, <2>5, <2>6, <2>7, <2>8 DEF ForwardInv
<1>3. ASSUME NEW t \in Workers, NEW x \in Tx, DeliverTransaction(t, x) PROVE ForwardInv'
  BY <1>3 DEF ForwardInv, DeliverTransaction, TypeInv, TypeOK, SentOnce, SentSeen,
     WorkerItem, MainItem, ItemSeen, WorkerForward, MainForward, OneForwarder
<1>4. ASSUME NEW t \in Threads, NEW b \in Block, AlreadyHandled(t, b) PROVE ForwardInv'
  <2>1. SentOnce'
    BY <1>4 DEF AlreadyHandled, Enter, Seen, TypeInv, TypeOK, ItemOK, SentOnce
  <2>2. SentSeen'
    BY <1>4 DEF AlreadyHandled, Enter, Seen, TypeInv, TypeOK, ItemOK, SentSeen
  <2>3. WorkerItem'
    BY <1>4 DEF AlreadyHandled, Enter, Seen, TypeInv, TypeOK, ItemOK, WorkerItem
  <2>4. MainItem'
    BY <1>4 DEF AlreadyHandled, Enter, Seen, TypeInv, TypeOK, ItemOK, MainItem
  <2>5. ItemSeen'
    BY <1>4 DEF AlreadyHandled, Enter, Seen, TypeInv, TypeOK, ItemOK, ItemSeen
  <2>6. WorkerForward'
    BY <1>4 DEF AlreadyHandled, Enter, Seen, TypeInv, TypeOK, ItemOK, WorkerForward,
       WorkerItem, SentSeen
  <2>7. MainForward'
    BY <1>4 DEF AlreadyHandled, Enter, Seen, TypeInv, TypeOK, ItemOK, MainForward
  <2>8. OneForwarder'
    BY <1>4 DEF AlreadyHandled, Enter, Seen, TypeInv, TypeOK, ItemOK, OneForwarder,
       WorkerForward
  <2> QED
    BY <2>1, <2>2, <2>3, <2>4, <2>5, <2>6, <2>7, <2>8 DEF ForwardInv
<1>5. ASSUME NEW t \in Threads, NEW b \in Block, WaitForParent(t, b) PROVE ForwardInv'
  <2>1. SentOnce'
    BY <1>5 DEF WaitForParent, Enter, Seen, TypeInv, TypeOK, ItemOK, SentOnce
  <2>2. SentSeen'
    BY <1>5 DEF WaitForParent, Enter, Seen, TypeInv, TypeOK, ItemOK, SentSeen
  <2>3. WorkerItem'
    BY <1>5 DEF WaitForParent, Enter, Seen, TypeInv, TypeOK, ItemOK, WorkerItem
  <2>4. MainItem'
    BY <1>5 DEF WaitForParent, Enter, Seen, TypeInv, TypeOK, ItemOK, MainItem
  <2>5. ItemSeen'
    BY <1>5 DEF WaitForParent, Enter, Seen, TypeInv, TypeOK, ItemOK, ItemSeen
  <2>6. WorkerForward'
    BY <1>5 DEF WaitForParent, Enter, Seen, TypeInv, TypeOK, ItemOK, WorkerForward,
       WorkerItem, SentSeen
  <2>7. MainForward'
    BY <1>5 DEF WaitForParent, Enter, Seen, TypeInv, TypeOK, ItemOK, MainForward
  <2>8. OneForwarder'
    BY <1>5 DEF WaitForParent, Enter, Seen, TypeInv, TypeOK, ItemOK, OneForwarder, WorkerForward
  <2> QED
    BY <2>1, <2>2, <2>3, <2>4, <2>5, <2>6, <2>7, <2>8 DEF ForwardInv
<1>6. ASSUME NEW t \in Threads, NEW b \in Block, InsertBlock(t, b) PROVE ForwardInv'
  <2>1. SentOnce'
    BY <1>6 DEF InsertBlock, Enter, Seen, Insert, TakeChildren, TypeInv, TypeOK, ItemOK,
       SentOnce
  <2>2. SentSeen'
    BY <1>6 DEF InsertBlock, Enter, Seen, Insert, TakeChildren, TypeInv, TypeOK, ItemOK,
       SentSeen
  <2>3. WorkerItem'
    BY <1>6 DEF InsertBlock, Enter, Seen, Insert, TakeChildren, TypeInv, TypeOK, ItemOK,
       WorkerItem
  <2>4. MainItem'
    BY <1>6 DEF InsertBlock, Enter, Seen, Insert, TakeChildren, TypeInv, TypeOK, ItemOK,
       MainItem
  <2>5. ItemSeen'
    BY <1>6 DEF InsertBlock, Enter, Seen, Insert, TakeChildren, TypeInv, TypeOK, ItemOK,
       ItemSeen
  <2>6. WorkerForward'
    BY <1>6 DEF InsertBlock, Enter, Seen, Insert, TakeChildren, TypeInv, TypeOK, ItemOK,
       WorkerForward, WorkerItem, SentSeen
  <2>7. MainForward'
    BY <1>6 DEF InsertBlock, Enter, Seen, Insert, TakeChildren, TypeInv, TypeOK, ItemOK,
       MainForward
  <2>8. OneForwarder'
    BY <1>6 DEF InsertBlock, Enter, Seen, Insert, TakeChildren, TypeInv, TypeOK, ItemOK,
       OneForwarder, WorkerForward
  <2> QED
    BY <2>1, <2>2, <2>3, <2>4, <2>5, <2>6, <2>7, <2>8 DEF ForwardInv
<1>7. ASSUME NEW t \in Threads, NEW b \in Block, BeginUpdate(t, b) PROVE ForwardInv'
  <2>1. SentOnce'
    BY <1>7 DEF BeginUpdate, Enter, Seen, Insert, TypeInv, TypeOK, ItemOK, SentOnce
  <2>2. SentSeen'
    BY <1>7 DEF BeginUpdate, Enter, Seen, Insert, TypeInv, TypeOK, ItemOK, SentSeen
  <2>3. WorkerItem'
    BY <1>7 DEF BeginUpdate, Enter, Seen, Insert, TypeInv, TypeOK, ItemOK, WorkerItem
  <2>4. MainItem'
    BY <1>7 DEF BeginUpdate, Enter, Seen, Insert, TypeInv, TypeOK, ItemOK, MainItem
  <2>5. ItemSeen'
    BY <1>7 DEF BeginUpdate, Enter, Seen, Insert, TypeInv, TypeOK, ItemOK, ItemSeen
  <2>6. WorkerForward'
    BY <1>7 DEF BeginUpdate, Enter, Seen, Insert, TypeInv, TypeOK, ItemOK, WorkerForward,
       WorkerItem, SentSeen
  <2>7. MainForward'
    BY <1>7 DEF BeginUpdate, Enter, Seen, Insert, TypeInv, TypeOK, ItemOK, MainForward
  <2>8. OneForwarder'
    BY <1>7 DEF BeginUpdate, Enter, Seen, Insert, TypeInv, TypeOK, ItemOK, OneForwarder,
       WorkerForward
  <2> QED
    BY <2>1, <2>2, <2>3, <2>4, <2>5, <2>6, <2>7, <2>8 DEF ForwardInv
<1>8. ASSUME NEW t \in Threads, ConfirmNext(t) PROVE ForwardInv'
  BY <1>8 DEF ForwardInv, ConfirmNext, TypeInv, TypeOK, SentOnce, SentSeen, WorkerItem,
     MainItem, ItemSeen, WorkerForward, MainForward, OneForwarder
<1>9. ASSUME NEW t \in Threads, confirm(t) PROVE ForwardInv'
  BY <1>9 DEF ForwardInv, confirm, TypeInv, TypeOK, SentOnce, SentSeen, WorkerItem,
     MainItem, ItemSeen, WorkerForward, MainForward, OneForwarder
<1>10. ASSUME NEW t \in Threads, UnconfirmNext(t) PROVE ForwardInv'
  BY <1>10 DEF ForwardInv, UnconfirmNext, TypeInv, TypeOK, SentOnce, SentSeen, WorkerItem,
     MainItem, ItemSeen, WorkerForward, MainForward, OneForwarder
<1>11. ASSUME NEW t \in Threads, unconfirm(t) PROVE ForwardInv'
  BY <1>11 DEF ForwardInv, unconfirm, TypeInv, TypeOK, SentOnce, SentSeen, WorkerItem,
     MainItem, ItemSeen, WorkerForward, MainForward, OneForwarder
<1>12. ASSUME NEW t \in Threads, EndUpdate(t) PROVE ForwardInv'
  <2>0. blockchain[blk[t]] = "handled"
    BY <1>12 DEF EndUpdate, LockInv, HoldPlaces
  <2>1. SentOnce'
    BY <1>12 DEF EndUpdate, TakeChildren, TypeInv, TypeOK, ItemOK, SentOnce
  <2>2. SentSeen'
    BY <1>12 DEF EndUpdate, TakeChildren, TypeInv, TypeOK, ItemOK, SentSeen
  <2>3. WorkerItem'
    BY <1>12 DEF EndUpdate, TakeChildren, TypeInv, TypeOK, ItemOK, WorkerItem
  <2>4. MainItem'
    BY <1>12 DEF EndUpdate, TakeChildren, TypeInv, TypeOK, ItemOK, MainItem
  <2>5. ItemSeen'
    BY <1>12, <2>0 DEF EndUpdate, TakeChildren, TypeInv, TypeOK, ItemOK, ItemSeen
  <2>6. WorkerForward'
    BY <1>12 DEF EndUpdate, TakeChildren, TypeInv, TypeOK, ItemOK, WorkerForward
  <2>7. MainForward'
    BY <1>12 DEF EndUpdate, TakeChildren, TypeInv, TypeOK, ItemOK, MainForward
  <2>8. OneForwarder'
    BY <1>12 DEF EndUpdate, TakeChildren, TypeInv, TypeOK, ItemOK, OneForwarder, WorkerForward
  <2> QED
    BY <2>1, <2>2, <2>3, <2>4, <2>5, <2>6, <2>7, <2>8 DEF ForwardInv
<1>13. ASSUME NEW t \in Threads, BlockDone(t) PROVE ForwardInv'
  <2>1. SentOnce'
    BY <1>13 DEF BlockDone, TypeInv, TypeOK, ItemOK, SentOnce, WorkerForward, MainForward
  <2>2. SentSeen'
    BY <1>13 DEF BlockDone, TypeInv, TypeOK, ItemOK, SentSeen, ItemSeen
  <2>3. WorkerItem'
    BY <1>13 DEF BlockDone, TypeInv, TypeOK, ItemOK, WorkerItem, SentOnce, WorkerForward,
       MainForward
  <2>4. MainItem'
    BY <1>13 DEF BlockDone, TypeInv, TypeOK, ItemOK, MainItem, WorkerForward
  <2>5. ItemSeen'
    BY <1>13 DEF BlockDone, TypeInv, TypeOK, ItemOK, ItemSeen
  <2>6. WorkerForward'
    BY <1>13 DEF BlockDone, TypeInv, TypeOK, ItemOK, WorkerForward, OneForwarder, MainForward
  <2>7. MainForward'
    BY <1>13 DEF BlockDone, TypeInv, TypeOK, ItemOK, MainForward, WorkerForward
  <2>8. OneForwarder'
    BY <1>13 DEF BlockDone, TypeInv, TypeOK, ItemOK, OneForwarder, WorkerForward
  <2> QED
    BY <2>1, <2>2, <2>3, <2>4, <2>5, <2>6, <2>7, <2>8 DEF ForwardInv
<1>14. ASSUME NEW t \in Threads, ReceiveTransaction(t) PROVE ForwardInv'
  BY <1>14 DEF ForwardInv, ReceiveTransaction, TypeInv, TypeOK, SentOnce, SentSeen,
     WorkerItem, MainItem, ItemSeen, WorkerForward, MainForward, OneForwarder
<1>15. ASSUME NEW t \in Threads, InsertTransaction(t) PROVE ForwardInv'
  BY <1>15 DEF ForwardInv, InsertTransaction, TypeInv, TypeOK, SentOnce, SentSeen,
     WorkerItem, MainItem, ItemSeen, WorkerForward, MainForward, OneForwarder
<1>16. ASSUME Mine PROVE ForwardInv'
  <2>00. made \in Int /\ made' = made + 1 /\ 0 <= made /\ made < MaxBlocks /\ MaxBlocks \in Int
    BY <1>16 DEF Mine, TypeInv, TypeOK, Block
  <2>01. made' \in Block /\ made' > made
    BY <2>00 DEF Block
  <2>02. sent[made'] = 0 /\ \A t \in Workers : pc[t] \in BlockPlaces => item[t] # made'
    <3>1. sent[made'] = 0
      BY <2>01 DEF Shape, FutureAbsent
    <3>2. \A t \in Workers : pc[t] \in BlockPlaces => item[t] <= made /\ item[t] \in Block
      BY DEF Shape, ItemMade, TypeInv, ItemOK
    <3>3. \A c \in Block : c <= made => c # made'
      BY <2>00 DEF Block
    <3> QED
      BY <3>1, <3>2, <3>3
  <2>03. /\ sent' = sent /\ mine' = mine \cup {made'} /\ item' = [item EXCEPT ![Main] = made']
         /\ pc' = [pc EXCEPT ![Main] = "collect"] /\ fwd' = fwd /\ blockchain' = blockchain
    BY <1>16 DEF Mine
  <2>1. SentOnce'
    BY <1>16 DEF Mine, TypeInv, TypeOK, ItemOK, SentOnce
  <2>2. SentSeen'
    BY <1>16 DEF Mine, TypeInv, TypeOK, ItemOK, SentSeen
  <2>3. WorkerItem'
    BY <2>01, <2>02, <2>03 DEF WorkerItem, TypeInv, TypeOK
  <2>4. MainItem'
    BY <2>01, <2>02, <2>03 DEF MainItem, TypeInv, TypeOK
  <2>5. ItemSeen'
    BY <1>16 DEF Mine, TypeInv, TypeOK, ItemOK, ItemSeen
  <2>6. WorkerForward'
    BY <2>01, <2>02, <2>03 DEF WorkerForward, TypeInv, TypeOK
  <2>7. MainForward'
    BY <1>16 DEF Mine, TypeInv, TypeOK, ItemOK, MainForward
  <2>8. OneForwarder'
    BY <1>16 DEF Mine, TypeInv, TypeOK, ItemOK, OneForwarder, WorkerForward
  <2> QED
    BY <2>1, <2>2, <2>3, <2>4, <2>5, <2>6, <2>7, <2>8 DEF ForwardInv
<1>17. ASSUME Collect PROVE ForwardInv'
  <2>1. SentOnce'
    BY <1>17 DEF Collect, TypeInv, TypeOK, ItemOK, SentOnce
  <2>2. SentSeen'
    BY <1>17 DEF Collect, TypeInv, TypeOK, ItemOK, SentSeen
  <2>3. WorkerItem'
    BY <1>17 DEF Collect, TypeInv, TypeOK, ItemOK, WorkerItem
  <2>4. MainItem'
    BY <1>17 DEF Collect, TypeInv, TypeOK, ItemOK, MainItem
  <2>5. ItemSeen'
    BY <1>17 DEF Collect, TypeInv, TypeOK, ItemOK, ItemSeen
  <2>6. WorkerForward'
    BY <1>17 DEF Collect, TypeInv, TypeOK, ItemOK, WorkerForward
  <2>7. MainForward'
    BY <1>17 DEF Collect, TypeInv, TypeOK, ItemOK, MainForward, MainItem
  <2>8. OneForwarder'
    BY <1>17 DEF Collect, TypeInv, TypeOK, ItemOK, OneForwarder, WorkerForward
  <2> QED
    BY <2>1, <2>2, <2>3, <2>4, <2>5, <2>6, <2>7, <2>8 DEF ForwardInv
<1>18. ASSUME CollectUnknown PROVE ForwardInv'
  BY <1>18 DEF ForwardInv, CollectUnknown, TypeInv, TypeOK, SentOnce, SentSeen, WorkerItem,
     MainItem, ItemSeen, WorkerForward, MainForward, OneForwarder
<1>19. ASSUME NEW x \in Tx, Spend(x) PROVE ForwardInv'
  BY <1>19 DEF ForwardInv, Spend, TypeInv, TypeOK, SentOnce, SentSeen, WorkerItem, MainItem,
     ItemSeen, WorkerForward, MainForward, OneForwarder
<1>20. ASSUME Pay PROVE ForwardInv'
  BY <1>20 DEF ForwardInv, Pay, TypeInv, TypeOK, SentOnce, SentSeen, WorkerItem, MainItem,
     ItemSeen, WorkerForward, MainForward, OneForwarder
<1>21. CASE UNCHANGED vars
  BY <1>21 DEF vars, ForwardInv, SentOnce, SentSeen, WorkerItem, MainItem, ItemSeen,
     WorkerForward, MainForward, OneForwarder
<1> QED
  BY <1>1, <1>2, <1>3, <1>4, <1>5, <1>6, <1>7, <1>8, <1>9, <1>10, <1>11, <1>12, <1>13,
     <1>14, <1>15, <1>16, <1>17, <1>18, <1>19, <1>20, <1>21 DEF Next, HandleStep, MainStep

\* It holds in every reachable state.
LEMMA ForwardInvariance == Spec => []ForwardInv
<1>1. Init => ForwardInv
  BY TinyAssumption DEF Init, ForwardInv, Threads, BlockPlaces, SentOnce, SentSeen,
     WorkerItem, MainItem, ItemSeen, WorkerForward, MainForward, OneForwarder
<1> QED
  BY <1>1, ShapeInvariance, LockInvariance, ForwardStep, PTL DEF Spec

\* No node forwards a block twice, however many threads run it.
THEOREM BlocksForwardedOnce == Spec => []ForwardOnce
<1>1. ForwardInv => ForwardOnce
  BY DEF ForwardInv, SentOnce, ForwardOnce
<1> QED
  BY <1>1, ForwardInvariance, PTL
-------------------------------------------------------------------------------
(* The chain: update_head loses no transaction, and it keeps the balance. *)


\* A block other than the genesis block has an earlier parent.
ParentEarlier == Tree(parent, MaxBlocks)

\* A block has no transactions before it is made.
TxsLater ==
  /\ \A b \in Block : b > made => txs[b] = {}
  /\ pc[Main] = "collect" => txs[item[Main]] = {}

GenesisLength == lengths[Genesis] = 1

\* update_head walks down two handled branches, the new one at least as long as the old
\* one, and as long once it undoes blocks; it stays on the chain of the new head.
WalkOK(t) ==
  /\ blockchain[up[t]] = "handled" /\ blockchain[down[t]] = "handled"
  /\ lengths[up[t]] >= lengths[down[t]]
  /\ ChainOf(up[t]) \subseteq ChainOf(head)
  /\ pc[t] \in {"confirm", "undo", "unconfirm"} => up[t] # down[t]
  /\ pc[t] \in {"undo", "unconfirm"} => lengths[up[t]] = lengths[down[t]]

WalkInv == \A t \in Threads : lock = t => WalkOK(t)

TreeInv == TypeInv /\ Shape /\ TreeOK /\ HeadLongest /\ LockInv
           /\ ParentEarlier /\ TxsLater /\ GenesisLength /\ WalkInv

\* What is confirmed in the middle of update_head: the blocks of the new branch that have
\* been confirmed, and the blocks of the old branch that have not been undone.
Confirmed(t, b) ==
  \/ b \in ChainOf(down[t])
  \/ b \in ChainOf(head) /\ b \notin ChainOf(up[t])
  \/ pc[t] \in {"undo", "unconfirm"} /\ b = up[t]

Inserting(x) == \E t \in Threads : pc[t] = "insert" /\ item[t] = x

\* A received transaction is pending, about to be, or confirmed.
Covered(x) ==
  \/ x \in pending_transactions \/ Inserting(x)
  \/ lock = NoThread /\ x \in ChainTxs(head)
  \/ \E t \in Threads : lock = t /\ \E b \in Block : Confirmed(t, b) /\ x \in txs[b]

TxInv == \A x \in received_transactions : Covered(x)

\* ChainOf is the chain in the tree of all blocks.
LEMMA ChainOfTree == \A b : ChainOf(b) = Chain(parent, MaxBlocks)[b]
  BY DEF ChainOf, Chain, IsChain, Block, Genesis
\* Also in the next state.
LEMMA ChainOfTreeNext == \A b : ChainOf(b)' = Chain(parent', MaxBlocks)[b]
  BY DEF ChainOf, Chain, IsChain, Block, Genesis

\* The chain of a block is the block and the chain of its parent, in which it is not.
LEMMA ChainFacts ==
  ASSUME TypeInv, ParentEarlier
  PROVE  /\ ChainOf(Genesis) = {}
         /\ \A c \in Block : c # Genesis => /\ parent[c] \in Block
                                            /\ ChainOf(c) = ChainOf(parent[c]) \cup {c}
                                            /\ c \notin ChainOf(parent[c])
         /\ \A c \in Block : ChainOf(c) \subseteq {d \in Block : d <= c}
  <1>0. MaxBlocks \in Nat /\ parent \in [0 .. MaxBlocks -> 0 .. MaxBlocks]
    BY TinyAssumption DEF TypeInv, TypeOK, Block
  <1>1. ChainOf(Genesis) = {} BY <1>0, ChainOfTree, ChainEquation DEF Genesis
  <1>2. ASSUME NEW c \in Block, c # Genesis
        PROVE  /\ parent[c] \in Block /\ ChainOf(c) = ChainOf(parent[c]) \cup {c}
               /\ c \notin ChainOf(parent[c])
    <2>1. c \in 1 .. MaxBlocks /\ c \in 0 .. MaxBlocks /\ c # 0 BY <1>0, <1>2 DEF Block, Genesis
    <2>2. parent[c] \in Block BY <1>0, <2>1 DEF Block
    <2>3. ChainOf(c) = ChainOf(parent[c]) \cup {c}
      <3>1. \A d \in 1 .. MaxBlocks :
              Chain(parent, MaxBlocks)[d] = Chain(parent, MaxBlocks)[parent[d]] \cup {d}
        BY <1>0, ChainEquation
      <3>2. Chain(parent, MaxBlocks)[c] = Chain(parent, MaxBlocks)[parent[c]] \cup {c}
        BY <2>1, <3>1
      <3> QED BY <3>2, ChainOfTree
    <2>4. c \notin ChainOf(parent[c]) BY <1>0, <2>1, ChainOfTree, ChainBelow DEF ParentEarlier
    <2> QED BY <2>2, <2>3, <2>4
  <1>3. ASSUME NEW c \in Block PROVE ChainOf(c) \subseteq {d \in Block : d <= c}
    <2>1. c \in 0 .. MaxBlocks BY DEF Block
    <2>2. ChainOf(c) \subseteq 1 .. c BY <1>0, <2>1, ChainOfTree, ChainBelow DEF ParentEarlier
    <2>3. 1 .. c \subseteq {d \in Block : d <= c} BY <1>0, <2>1 DEF Block
    <2> HIDE DEF ChainOf
    <2> QED BY <2>2, <2>3
  <1> QED BY <1>1, <1>2, <1>3

\* The network only adds blocks: the next one gets a parent that has been made.
LEMMA NetworkStep ==
  ASSUME TypeInv, Shape, HeadLongest, [Next]_vars
  PROVE  \/ parent' = parent /\ made' = made
         \/ /\ made' = made + 1 /\ made + 1 \in Block
            /\ \E p \in Block : p <= made /\ parent' = [parent EXCEPT ![made + 1] = p]
  <1> USE DEF network, chain, money, pool, locals
  <1>0. made \in Nat /\ MaxBlocks \in Nat /\ made <= MaxBlocks /\ head \in Block /\ head <= made
    <2>1. made \in Nat /\ MaxBlocks \in Nat /\ made <= MaxBlocks /\ head \in Block
      BY TinyAssumption DEF TypeInv, TypeOK, Block
    <2>2. head <= made
      <3>1. PICK h \in Block : h = head BY <2>1
      <3>2. h \in Nat BY <2>1 DEF Block
      <3>3. ~(h > made) BY <3>1 DEF Shape, FutureAbsent, HeadLongest
      <3> QED BY <2>1, <3>1, <3>2, <3>3
    <2> QED BY <2>1, <2>2
  <1>1. ASSUME NEW p \in Block, NEW X \in SUBSET Tx, OthersMine(p, X)
        PROVE  made' = made + 1 /\ made + 1 \in Block /\ p <= made /\ parent' = [parent EXCEPT ![made + 1] = p]
    <2>1. made' = made + 1 /\ made < MaxBlocks /\ parent' = [parent EXCEPT ![made + 1] = p] BY <1>1 DEF OthersMine
    <2>2. p <= made BY <1>0, <1>1 DEF OthersMine, Public, Genesis
    <2> QED BY <1>0, <2>1, <2>2 DEF Block
  <1>2. ASSUME Mine PROVE made' = made + 1 /\ made + 1 \in Block /\ parent' = [parent EXCEPT ![made + 1] = head]
    <2>1. made' = made + 1 /\ made < MaxBlocks /\ parent' = [parent EXCEPT ![made + 1] = head] BY <1>2 DEF Mine
    <2> QED BY <1>0, <2>1 DEF Block
  <1>3. ASSUME NEW t \in Workers, \/ \E b \in Block : DeliverBlock(t, b)
                                  \/ \E x \in Tx : DeliverTransaction(t, x)
        PROVE  parent' = parent /\ made' = made
    BY <1>3 DEF DeliverBlock, DeliverTransaction
  <1>4. ASSUME NEW t \in Threads, HandleStep(t) PROVE parent' = parent /\ made' = made
    BY <1>4 DEF HandleStep, AlreadyHandled, WaitForParent, InsertBlock, BeginUpdate, ConfirmNext, confirm,
       UnconfirmNext, unconfirm, EndUpdate, BlockDone, ReceiveTransaction, InsertTransaction
  <1>5. ASSUME Collect \/ CollectUnknown \/ Pay \/ \E x \in Tx : Spend(x) PROVE parent' = parent /\ made' = made
    BY <1>5 DEF Collect, CollectUnknown, Pay, Spend
  <1>6. CASE UNCHANGED vars BY <1>6 DEF vars
  <1> QED BY <1>0, <1>1, <1>2, <1>3, <1>4, <1>5, <1>6 DEF Next, MainStep

\* So a parent is always earlier, and the chains of the blocks that have been made stay.
LEMMA ChainsStay ==
  ASSUME TypeInv, Shape, HeadLongest, ParentEarlier, [Next]_vars
  PROVE  /\ ParentEarlier'
         /\ \A c \in Block : c <= made => parent'[c] = parent[c] /\ ChainOf(c)' = ChainOf(c)
  <1>0. MaxBlocks \in Nat /\ made \in 0 .. MaxBlocks /\ parent \in [0 .. MaxBlocks -> 0 .. MaxBlocks]
    BY TinyAssumption DEF TypeInv, TypeOK, Block
  <1>1. CASE parent' = parent /\ made' = made
    <2>1. ParentEarlier' BY <1>1 DEF ParentEarlier
    <2>2. \A c : ChainOf(c)' = ChainOf(c)
      BY <1>1, ChainOfTree, ChainOfTreeNext
    <2> QED BY <1>1, <2>1, <2>2
  <1>2. ASSUME NEW p \in Block, p <= made, made + 1 \in Block, parent' = [parent EXCEPT ![made + 1] = p]
        PROVE  /\ ParentEarlier'
               /\ \A c \in Block : c <= made => parent'[c] = parent[c] /\ ChainOf(c)' = ChainOf(c)
    <2>0. p \in 0 .. MaxBlocks /\ made + 1 \in 0 .. MaxBlocks BY <1>2 DEF Block
    <2>1. parent' \in [0 .. MaxBlocks -> 0 .. MaxBlocks] BY <1>0, <1>2, <2>0
    <2>2. \A c \in 0 .. MaxBlocks : parent'[c] = IF c = made + 1 THEN p ELSE parent[c] BY <1>0, <1>2
    <2>3. \A c \in 1 .. MaxBlocks : parent[c] < c BY Zenon DEF ParentEarlier, Tree
    <2>4. ASSUME NEW c \in 1 .. MaxBlocks PROVE parent'[c] < c
      <3>1. c \in 0 .. MaxBlocks /\ c \in Nat BY <1>0
      <3>2. CASE c = made + 1
        <4>1. parent'[c] = p BY <2>2, <3>1, <3>2
        <4> QED BY <1>0, <1>2, <2>0, <3>2, <4>1
      <3>3. CASE c # made + 1
        <4>1. parent'[c] = parent[c] BY <2>2, <3>1, <3>3
        <4> QED BY <2>3, <4>1
      <3> QED BY <3>2, <3>3
    <2>5. Tree(parent', MaxBlocks) BY <2>1, <2>4, Zenon DEF Tree
    <2>6. ParentEarlier' BY <2>5 DEF ParentEarlier
    <2>7. \A c \in 0 .. made : parent'[c] = parent[c] BY <1>0, <2>2
    <2>8. Tree(parent, MaxBlocks) BY DEF ParentEarlier
    <2>9. ASSUME NEW c \in 0 .. made PROVE ChainOf(c)' = ChainOf(c)
      <3>1. \A d \in 1 .. made : parent[d] = parent'[d] BY <1>0, <2>7
      <3>2. Chain(parent, MaxBlocks)[c] = Chain(parent', MaxBlocks)[c]
        BY <1>0, <2>5, <2>8, <3>1, ChainAgrees
      <3> QED BY <3>2, ChainOfTree, ChainOfTreeNext
    <2> QED BY <1>0, <2>6, <2>7, <2>9 DEF Block
  <1> QED BY <1>1, <1>2, NetworkStep

\* A step of a thread that is not in update_head and does not enter it leaves the walk
\* alone: handled blocks keep their length, blocks that have been made their transactions,
\* and no transaction is forgotten.
Aside ==
  /\ lock' = lock /\ head' = head /\ up' = up /\ down' = down
  /\ \A t \in Threads : lock = t => pc'[t] = pc[t]
  /\ \A b \in Block : blockchain[b] = "handled" => blockchain'[b] = "handled" /\ lengths'[b] = lengths[b]
  /\ \A b \in Block : b <= made => txs[b] \subseteq txs'[b]
  /\ pending_transactions \subseteq pending_transactions'
  /\ \A x \in received_transactions' : x \in received_transactions \/ Inserting(x)'
  /\ \A x : Inserting(x) => Inserting(x)' \/ x \in pending_transactions'

Walk(t) ==
  \/ \E b \in Block : BeginUpdate(t, b)
  \/ ConfirmNext(t) \/ confirm(t) \/ UnconfirmNext(t) \/ unconfirm(t) \/ EndUpdate(t)

\* Every step is a step of update_head or such a step.
LEMMA AsideStep ==
  ASSUME TypeInv, Shape, LockInv, TxsLater, [Next]_vars
  PROVE  Aside \/ \E t \in Threads : Walk(t)
  <1> USE DEF network, chain, money, pool, locals
  <1>0. /\ made \in Int /\ (\A b \in Block : b \in Int) /\ Main \in Threads /\ Workers \subseteq Threads
        /\ blockchain \in [Block -> {"absent", "pending", "handled"}] /\ lengths \in [Block -> Nat]
        /\ pc \in [Threads -> Places] /\ item \in [Threads -> Block \cup Tx] /\ txs \in [Block -> SUBSET Tx]
    <2>1. \A b \in Block : b \in Int BY DEF Block
    <2>2. Main \in Threads /\ Workers \subseteq Threads BY DEF Threads
    <2> QED BY <2>1, <2>2 DEF TypeInv, TypeOK
  <1> DEFINE Same == lock' = lock /\ head' = head /\ up' = up /\ down' = down
             SameChain == blockchain' = blockchain /\ lengths' = lengths
             Pool == received_transactions' = received_transactions
                     /\ pending_transactions' = pending_transactions
  \* A thread that is not in update_head moves to another place.
  <1>1. ASSUME NEW t \in Threads, pc[t] \notin HoldPlaces, NEW q, pc' = [pc EXCEPT ![t] = q]
        PROVE  \A u \in Threads : lock = u => pc'[u] = pc[u]
    BY <1>0, <1>1 DEF LockInv
  <1>2. ASSUME NEW t \in Threads, pc[t] # "insert", NEW q, pc' = [pc EXCEPT ![t] = q],
               \A u \in Threads : u # t => item'[u] = item[u]
        PROVE  \A x : Inserting(x) => Inserting(x)'
    BY <1>0, <1>2 DEF Inserting
  <1>3. ASSUME NEW p \in Block, NEW X \in SUBSET Tx, OthersMine(p, X) PROVE Aside
    <2>1. Same /\ SameChain /\ pc' = pc /\ item' = item /\ Pool /\ made' = made + 1
          /\ txs' = [txs EXCEPT ![made + 1] = X] BY <1>3 DEF OthersMine
    <2>2. \A b \in Block : b <= made => txs'[b] = txs[b] BY <1>0, <2>1
    <2> QED BY <2>1, <2>2 DEF Aside, Inserting
  <1>4. ASSUME NEW t \in Workers, \/ \E b \in Block : DeliverBlock(t, b)
                                  \/ \E x \in Tx : DeliverTransaction(t, x)
        PROVE  Aside
    <2>0. t \in Threads BY <1>0
    <2>1. Same /\ SameChain /\ Pool /\ txs' = txs /\ pc[t] = "idle" /\ \E z : item' = [item EXCEPT ![t] = z]
      BY <1>4 DEF DeliverBlock, DeliverTransaction, At
    <2>2. PICK q \in {"block", "tx"} : pc' = [pc EXCEPT ![t] = q]
      BY <1>4 DEF DeliverBlock, DeliverTransaction, Goto
    <2>3. \A u \in Threads : u # t => item'[u] = item[u] BY <1>0, <2>1
    <2>4. \A u \in Threads : lock = u => pc'[u] = pc[u] BY <1>1, <2>0, <2>1, <2>2 DEF HoldPlaces
    <2>5. \A x : Inserting(x) => Inserting(x)' BY <1>2, <2>0, <2>1, <2>2, <2>3
    <2> QED BY <2>1, <2>4, <2>5 DEF Aside
  <1>5. ASSUME NEW t \in Threads, NEW b \in Block, AlreadyHandled(t, b) PROVE Aside
    BY <1>5 DEF AlreadyHandled, Aside, Inserting
  <1>6. ASSUME NEW t \in Threads, NEW b \in Block, WaitForParent(t, b) PROVE Aside
    <2>1. Same /\ Pool /\ txs' = txs /\ pc' = pc /\ item' = item /\ lengths' = lengths
          /\ blockchain[b] # "handled" /\ blockchain' = [blockchain EXCEPT ![b] = "pending"]
      BY <1>6 DEF WaitForParent
    <2>2. \A c \in Block : blockchain[c] = "handled" => blockchain'[c] = "handled" BY <1>0, <2>1
    <2> QED BY <2>1, <2>2 DEF Aside, Inserting
  <1>7. ASSUME NEW t \in Threads, NEW b \in Block, InsertBlock(t, b) PROVE Aside
    <2>1. Same /\ Pool /\ txs' = txs /\ pc' = pc /\ item' = item
          /\ blockchain[b] # "handled" /\ blockchain' = [blockchain EXCEPT ![b] = "handled"]
          /\ lengths' = [lengths EXCEPT ![b] = lengths[parent[b]] + 1]
      BY <1>7 DEF InsertBlock, Insert
    <2>2. \A c \in Block : blockchain[c] = "handled" => blockchain'[c] = "handled" /\ lengths'[c] = lengths[c]
      BY <1>0, <2>1
    <2> QED BY <2>1, <2>2 DEF Aside, Inserting
  <1>8. ASSUME NEW t \in Threads, BlockDone(t) PROVE Aside
    <2>1. Same /\ SameChain /\ Pool /\ txs' = txs /\ item' = item /\ pc[t] = "block"
          /\ pc' = [pc EXCEPT ![t] = "idle"] BY <1>8 DEF BlockDone, At, Goto
    <2>2. \A u \in Threads : lock = u => pc'[u] = pc[u] BY <1>1, <2>1 DEF HoldPlaces
    <2>3. \A x : Inserting(x) => Inserting(x)' BY <1>2, <2>1
    <2> QED BY <2>1, <2>2, <2>3 DEF Aside
  <1>9. ASSUME NEW t \in Threads, ReceiveTransaction(t) PROVE Aside
    <2>1. Same /\ SameChain /\ txs' = txs /\ item' = item /\ pc[t] = "tx"
          /\ pending_transactions' = pending_transactions BY <1>9 DEF ReceiveTransaction, At
    <2>2. PICK q \in {"idle", "insert"} :
            /\ pc' = [pc EXCEPT ![t] = q]
            /\ \/ received_transactions' = received_transactions
               \/ q = "insert" /\ received_transactions' = received_transactions \cup {item[t]}
      BY <1>9 DEF ReceiveTransaction, Goto
    <2>3. \A u \in Threads : lock = u => pc'[u] = pc[u] BY <1>1, <2>1, <2>2 DEF HoldPlaces
    <2>4. \A x : Inserting(x) => Inserting(x)' BY <1>2, <2>1, <2>2
    <2>5. q = "insert" => Inserting(item[t])' BY <1>0, <2>1, <2>2 DEF Inserting
    <2> QED BY <2>1, <2>2, <2>3, <2>4, <2>5 DEF Aside
  <1>10. ASSUME NEW t \in Threads, InsertTransaction(t) PROVE Aside
    <2>1. Same /\ SameChain /\ txs' = txs /\ item' = item /\ pc[t] = "insert"
          /\ pc' = [pc EXCEPT ![t] = "idle"] /\ received_transactions' = received_transactions
          /\ pending_transactions' = pending_transactions \cup {item[t]}
      BY <1>10 DEF InsertTransaction, At, Goto
    <2>2. \A u \in Threads : lock = u => pc'[u] = pc[u] BY <1>1, <2>1 DEF HoldPlaces
    <2>3. ASSUME NEW x, Inserting(x) PROVE Inserting(x)' \/ x \in pending_transactions'
      BY <1>0, <2>1, <2>3 DEF Inserting
    <2> QED BY <2>1, <2>2, <2>3 DEF Aside
  <1>11. ASSUME Mine \/ Pay \/ \E x \in Tx : Spend(x) PROVE Aside
    <2>1. Same /\ SameChain /\ Pool /\ txs' = txs /\ pc[Main] \in {"idle", "spend"}
          /\ \E z : item' = [item EXCEPT ![Main] = z]
      <3>1. item = [item EXCEPT ![Main] = item[Main]] BY <1>0
      <3> QED BY <1>11, <3>1 DEF Mine, Pay, Spend, At
    <2>2. PICK q \in {"collect", "tx", "spend"} : pc' = [pc EXCEPT ![Main] = q]
      BY <1>11 DEF Mine, Pay, Spend, Goto
    <2>3. \A u \in Threads : u # Main => item'[u] = item[u] BY <1>0, <2>1
    <2>4. \A u \in Threads : lock = u => pc'[u] = pc[u] BY <1>0, <1>1, <2>1, <2>2 DEF HoldPlaces
    <2>5. \A x : Inserting(x) => Inserting(x)' BY <1>0, <1>2, <2>1, <2>2, <2>3
    <2> QED BY <2>1, <2>4, <2>5 DEF Aside
  <1>12. ASSUME Collect PROVE Aside
    <2>1. Same /\ SameChain /\ Pool /\ item' = item /\ pc[Main] = "collect"
          /\ pc' = [pc EXCEPT ![Main] = "block"] /\ txs' = [txs EXCEPT ![item[Main]] = Selected]
      BY <1>12 DEF Collect, At, Goto
    <2>2. txs[item[Main]] = {} BY <2>1 DEF TxsLater
    <2>3. \A b \in Block : txs[b] \subseteq txs'[b] BY <1>0, <2>1, <2>2
    <2>4. \A u \in Threads : lock = u => pc'[u] = pc[u] BY <1>0, <1>1, <2>1 DEF HoldPlaces
    <2>5. \A x : Inserting(x) => Inserting(x)' BY <1>0, <1>2, <2>1
    <2> QED BY <2>1, <2>3, <2>4, <2>5 DEF Aside
  <1>13. CASE CollectUnknown BY <1>13 DEF CollectUnknown, Aside, Inserting
  <1>14. CASE UNCHANGED vars BY <1>14 DEF vars, Aside, Inserting
  <1> HIDE DEF Same, SameChain, Pool
  <1> QED BY <1>3, <1>4, <1>5, <1>6, <1>7, <1>8, <1>9, <1>10, <1>11, <1>12, <1>13, <1>14
          DEF Next, HandleStep, MainStep, Walk
------------------------------------------------------------------------------
(* The walk of update_head. *)

\* A block that is handled has been made.
LEMMA HandledMade ==
  ASSUME TypeInv, Shape, NEW b \in Block, blockchain[b] = "handled"
  PROVE  b <= made
  <1>1. b \in Int /\ made \in Int BY TinyAssumption DEF TypeInv, TypeOK, Block
  <1>2. ~(b > made) BY DEF Shape, FutureAbsent
  <1> QED BY <1>1, <1>2

\* Transactions stay out of the blocks that have not been made.
LEMMA TxsLaterStep ==
  ASSUME TypeInv, Shape, TxsLater, [Next]_vars
  PROVE  TxsLater'
  <1> USE DEF network, chain, money, pool, locals
  <1>0. /\ made \in Int /\ (\A b \in Block : b \in Int) /\ Main \in Threads /\ Workers \subseteq Threads
        /\ pc \in [Threads -> Places] /\ item \in [Threads -> Block \cup Tx] /\ txs \in [Block -> SUBSET Tx]
        /\ Main \notin Workers
    <2>1. \A b \in Block : b \in Int BY DEF Block
    <2>2. Main \in Threads /\ Workers \subseteq Threads BY DEF Threads
    <2> QED BY <2>1, <2>2, TinyAssumption DEF TypeInv, TypeOK
  <1>1. pc[Main] = "collect" => item[Main] \in Block /\ item[Main] <= made
    BY <1>0 DEF Shape, ItemMade, TypeInv, ItemOK
  <1>2. ASSUME txs' = txs, made' = made, pc'[Main] = "collect" => pc[Main] = "collect" /\ item'[Main] = item[Main]
        PROVE  TxsLater'
    BY <1>2 DEF TxsLater
  <1>3. ASSUME NEW p \in Block, NEW X \in SUBSET Tx, OthersMine(p, X) PROVE TxsLater'
    <2>1. made' = made + 1 /\ txs' = [txs EXCEPT ![made + 1] = X] /\ pc' = pc /\ item' = item
      BY <1>3 DEF OthersMine
    <2>2. \A b \in Block : b # made + 1 => txs'[b] = txs[b] BY <1>0, <2>1
    <2>3. \A b \in Block : b > made' => txs'[b] = {} BY <1>0, <2>1, <2>2 DEF TxsLater
    <2>4. pc'[Main] = "collect" => txs'[item'[Main]] = {} BY <1>0, <1>1, <2>1, <2>2 DEF TxsLater
    <2> QED BY <2>3, <2>4 DEF TxsLater
  <1>4. ASSUME NEW t \in Workers, \/ \E b \in Block : DeliverBlock(t, b)
                                  \/ \E x \in Tx : DeliverTransaction(t, x)
        PROVE  TxsLater'
    BY <1>0, <1>2, <1>4 DEF DeliverBlock, DeliverTransaction, Goto
  <1>5. ASSUME NEW t \in Threads, HandleStep(t) PROVE TxsLater'
    <2>1. txs' = txs /\ made' = made /\ item' = item
      BY <1>5 DEF HandleStep, AlreadyHandled, WaitForParent, InsertBlock, BeginUpdate, ConfirmNext, confirm,
         UnconfirmNext, unconfirm, EndUpdate, BlockDone, ReceiveTransaction, InsertTransaction
    <2>2. pc' = pc \/ \E q \in Places \ {"collect"} : pc' = [pc EXCEPT ![t] = q]
      BY <1>5 DEF HandleStep, AlreadyHandled, WaitForParent, InsertBlock, BeginUpdate, ConfirmNext, confirm,
         UnconfirmNext, unconfirm, EndUpdate, BlockDone, ReceiveTransaction, InsertTransaction, Goto, Places
    <2>3. pc'[Main] = "collect" => pc[Main] = "collect" BY <1>0, <2>2
    <2> QED BY <1>2, <2>1, <2>3
  <1>6. ASSUME Mine PROVE TxsLater'
    <2>1. made' = made + 1 /\ txs' = txs /\ item' = [item EXCEPT ![Main] = made + 1] /\ made < MaxBlocks
      BY <1>6 DEF Mine
    <2>2. item'[Main] = made + 1 BY <1>0, <2>1
    <2>3. made + 1 \in Block /\ made + 1 > made
      BY <2>1, TinyAssumption DEF TypeInv, TypeOK, Block
    <2> QED BY <1>0, <2>1, <2>2, <2>3 DEF TxsLater
  <1>7. ASSUME Collect PROVE TxsLater'
    <2>1. made' = made /\ txs' = [txs EXCEPT ![item[Main]] = Selected] /\ pc[Main] = "collect"
          /\ pc' = [pc EXCEPT ![Main] = "block"] BY <1>7 DEF Collect, At, Goto
    <2>2. pc'[Main] # "collect" BY <1>0, <2>1
    <2>3. \A b \in Block : b > made => txs'[b] = txs[b] BY <1>0, <1>1, <2>1
    <2> QED BY <2>1, <2>2, <2>3 DEF TxsLater
  <1>8. ASSUME CollectUnknown \/ Pay \/ \E x \in Tx : Spend(x) PROVE TxsLater'
    BY <1>0, <1>2, <1>8 DEF CollectUnknown, Pay, Spend, Goto
  <1>9. CASE UNCHANGED vars BY <1>2, <1>9 DEF vars
  <1> QED BY <1>3, <1>4, <1>5, <1>6, <1>7, <1>8, <1>9 DEF Next, MainStep

\* Only the genesis block has length 1.
LEMMA LongerThanGenesis ==
  ASSUME TypeInv, TreeOK, GenesisLength, Shape, NEW b \in Block, blockchain[b] = "handled", b # Genesis
  PROVE  /\ parent[b] \in Block /\ blockchain[parent[b]] = "handled"
         /\ lengths[b] = lengths[parent[b]] + 1 /\ lengths[b] >= 2
  <1>1. parent[b] \in Block /\ lengths \in [Block -> Nat] BY DEF TypeInv, TypeOK
  <1>2. blockchain[parent[b]] = "handled" /\ lengths[b] = lengths[parent[b]] + 1 BY DEF TreeOK
  <1>3. lengths[parent[b]] >= 1
    <2>1. CASE parent[b] = Genesis BY <2>1 DEF GenesisLength
    <2>2. CASE parent[b] # Genesis
      <3>1. parent[parent[b]] \in Block BY <1>1 DEF TypeInv, TypeOK
      <3>2. lengths[parent[b]] = lengths[parent[parent[b]]] + 1 BY <1>1, <1>2, <2>2 DEF TreeOK
      <3> QED BY <1>1, <3>1, <3>2
    <2> QED BY <2>1, <2>2
  <1> QED BY <1>1, <1>2, <1>3

\* While it walks, neither branch ends before they meet.
LEMMA WalkNotGenesis ==
  ASSUME TypeInv, Shape, TreeOK, GenesisLength, NEW t \in Threads, WalkOK(t), up[t] # down[t]
  PROVE  /\ up[t] # Genesis
         /\ lengths[up[t]] = lengths[down[t]] => down[t] # Genesis
  <1>1. up[t] \in Block /\ down[t] \in Block /\ blockchain[up[t]] = "handled"
        /\ blockchain[down[t]] = "handled" /\ lengths[up[t]] >= lengths[down[t]]
    BY DEF TypeInv, TypeOK, WalkOK
  <1>2. lengths[Genesis] = 1 BY DEF GenesisLength
  <1>3. up[t] # Genesis => lengths[up[t]] >= 2 BY <1>1, LongerThanGenesis
  <1>4. down[t] # Genesis => lengths[down[t]] >= 2 BY <1>1, LongerThanGenesis
  <1>5. lengths[up[t]] \in Nat /\ lengths[down[t]] \in Nat BY <1>1 DEF TypeInv, TypeOK
  <1> QED BY <1>1, <1>2, <1>3, <1>4, <1>5

\* The chains that the walk's invariants name, in the next state.
LEMMA WalkChains ==
  ASSUME NEW t
  PROVE  /\ ChainOf(head)' = Chain(parent', MaxBlocks)[head']
         /\ ChainOf(up[t])' = Chain(parent', MaxBlocks)[up'[t]]
         /\ ChainOf(down[t])' = Chain(parent', MaxBlocks)[down'[t]]
         /\ ChainTxs(head)' = UNION {txs'[c] : c \in Chain(parent', MaxBlocks)[head']}
  <1>1. ChainOf(head)' = Chain(parent', MaxBlocks)[head'] BY DEF ChainOf, Chain, IsChain, Block, Genesis
  <1>2. ChainOf(up[t])' = Chain(parent', MaxBlocks)[up'[t]] BY DEF ChainOf, Chain, IsChain, Block, Genesis
  <1>3. ChainOf(down[t])' = Chain(parent', MaxBlocks)[down'[t]] BY DEF ChainOf, Chain, IsChain, Block, Genesis
  <1>4. ChainTxs(head)' = UNION {txs'[c] : c \in ChainOf(head)'} BY DEF ChainTxs
  <1> QED BY <1>1, <1>2, <1>3, <1>4

\* What the steps of update_head change.
LEMMA WalkEffect ==
  ASSUME TypeInv, LockInv, NEW t \in Threads, Walk(t)
  PROVE  /\ parent' = parent /\ txs' = txs /\ item' = item
         /\ received_transactions' = received_transactions
         /\ \A u \in Threads : u # t => pc'[u] = pc[u] /\ up'[u] = up[u] /\ down'[u] = down[u]
         /\ \A u \in Threads : lock' = u => u = t
         /\ pc[t] # "insert" /\ (\A u \in Threads : lock = u => u = t)
  <1> USE DEF network, chain, money, pool, locals
  <1>1. parent' = parent /\ txs' = txs /\ item' = item /\ received_transactions' = received_transactions
    BY DEF Walk, BeginUpdate, ConfirmNext, confirm, UnconfirmNext, unconfirm, EndUpdate
  <1>2. pc \in [Threads -> Places] /\ up \in [Threads -> Block] /\ down \in [Threads -> Block]
    BY DEF TypeInv, TypeOK
  <1>3. \A u \in Threads : u # t => pc'[u] = pc[u] /\ up'[u] = up[u] /\ down'[u] = down[u]
    BY <1>2 DEF Walk, BeginUpdate, ConfirmNext, confirm, UnconfirmNext, unconfirm, EndUpdate, Goto
  <1>4. NoThread \notin Threads BY TinyAssumption
  <1>5. \/ lock = NoThread /\ lock' = t /\ pc[t] = "block"
        \/ pc[t] \in HoldPlaces /\ (lock' = lock \/ lock' = NoThread)
    BY DEF Walk, BeginUpdate, Enter, ConfirmNext, confirm, UnconfirmNext, unconfirm, EndUpdate, At, HoldPlaces
  <1>6. (\A u \in Threads : lock' = u => u = t) /\ (\A u \in Threads : lock = u => u = t)
    BY <1>4, <1>5 DEF LockInv
  <1>7. pc[t] # "insert" BY <1>5 DEF HoldPlaces
  <1> QED BY <1>1, <1>3, <1>6, <1>7

\* The genesis block keeps its length.
LEMMA GenesisLengthStep ==
  ASSUME TypeInv, Shape, LockInv, TxsLater, GenesisLength, [Next]_vars
  PROVE  GenesisLength'
  <1> USE DEF network, chain, money, pool, locals
  <1>0. Genesis \in Block /\ blockchain[Genesis] = "handled" /\ lengths \in [Block -> Nat]
    <2>1. Genesis \in Block BY TinyAssumption DEF Block, Genesis
    <2> QED BY <2>1 DEF Shape, GenesisHandled, TypeInv, TypeOK
  <1>1. CASE Aside BY <1>0, <1>1 DEF Aside, GenesisLength
  <1>2. ASSUME NEW t \in Threads, NEW b \in Block, BeginUpdate(t, b) PROVE GenesisLength'
    <2>1. blockchain[b] # "handled" /\ lengths' = [lengths EXCEPT ![b] = lengths[parent[b]] + 1]
      BY <1>2 DEF BeginUpdate, Insert
    <2> QED BY <1>0, <2>1 DEF GenesisLength
  <1>3. ASSUME NEW t \in Threads,
               ConfirmNext(t) \/ confirm(t) \/ UnconfirmNext(t) \/ unconfirm(t) \/ EndUpdate(t)
        PROVE  GenesisLength'
    BY <1>3 DEF GenesisLength, ConfirmNext, confirm, UnconfirmNext, unconfirm, EndUpdate
  <1> QED BY <1>1, <1>2, <1>3, AsideStep DEF Walk

\* Every step keeps the walk on two handled branches.
LEMMA WalkStep ==
  ASSUME TreeInv, [Next]_vars
  PROVE  WalkInv'
  <1> USE DEF network, chain, money, pool, locals
  <1>0. TypeInv /\ Shape /\ TreeOK /\ HeadLongest /\ LockInv /\ ParentEarlier /\ TxsLater
        /\ GenesisLength /\ WalkInv BY DEF TreeInv
  <1>1. head \in Block /\ up \in [Threads -> Block] /\ down \in [Threads -> Block] /\ pc \in [Threads -> Places]
        /\ blockchain \in [Block -> {"absent", "pending", "handled"}] /\ lengths \in [Block -> Nat]
    BY <1>0 DEF TypeInv, TypeOK
  <1>2. NoThread \notin Threads BY TinyAssumption
  <1> DEFINE K == Chain(parent', MaxBlocks)
  <1>3. \A c \in Block : c <= made => ChainOf(c)' = ChainOf(c) BY <1>0, ChainsStay
  <1>4. \A c : ChainOf(c)' = K[c] BY ChainOfTreeNext
  <1>5. \A c \in Block : blockchain[c] = "handled" => K[c] = ChainOf(c)
    BY <1>0, <1>3, <1>4, HandledMade
  <1>6. \A t : /\ ChainOf(head)' = K[head'] /\ ChainOf(up[t])' = K[up'[t]] BY WalkChains
  <1> HIDE DEF K
  <1>7. CASE Aside
    <2> SUFFICES ASSUME NEW t \in Threads, lock' = t PROVE WalkOK(t)' BY DEF WalkInv
    <2>1. lock = t /\ WalkOK(t) /\ pc'[t] = pc[t] /\ up' = up /\ down' = down /\ head' = head
      BY <1>0, <1>7 DEF Aside, WalkInv
    <2>2. up[t] \in Block /\ down[t] \in Block /\ blockchain[up[t]] = "handled" /\ blockchain[down[t]] = "handled"
          /\ blockchain[head] = "handled"
      BY <1>0, <1>1, <2>1 DEF WalkOK, HeadLongest
    <2>3. K[up'[t]] = ChainOf(up[t]) /\ K[head'] = ChainOf(head) BY <1>1, <1>5, <2>1, <2>2
    <2>4. /\ blockchain'[up[t]] = "handled" /\ blockchain'[down[t]] = "handled"
          /\ lengths'[up[t]] = lengths[up[t]] /\ lengths'[down[t]] = lengths[down[t]]
      BY <1>7, <2>2 DEF Aside
    <2>5. ChainOf(up[t])' \subseteq ChainOf(head)' BY <1>6, <2>1, <2>3 DEF WalkOK
    <2> QED BY <2>1, <2>4, <2>5 DEF WalkOK
  <1>8. ASSUME NEW t \in Threads, NEW b \in Block, BeginUpdate(t, b) PROVE WalkOK(t)'
    <2>1. /\ up' = [up EXCEPT ![t] = b] /\ down' = [down EXCEPT ![t] = head] /\ head' = b
          /\ pc' = [pc EXCEPT ![t] = "walk"] /\ parent' = parent
          /\ blockchain' = [blockchain EXCEPT ![b] = "handled"]
          /\ lengths' = [lengths EXCEPT ![b] = lengths[parent[b]] + 1]
          /\ blockchain[b] # "handled" /\ lengths[parent[b]] + 1 > lengths[head]
      BY <1>8 DEF BeginUpdate, Insert, Goto
    <2>2. blockchain[head] = "handled" BY <1>0 DEF HeadLongest
    <2>3. up'[t] = b /\ down'[t] = head /\ pc'[t] = "walk" BY <1>1, <2>1
    <2>4. parent[b] \in Block BY <1>0 DEF TypeInv, TypeOK
    <2>5. blockchain'[b] = "handled" /\ blockchain'[head] = "handled" /\ lengths'[b] >= lengths'[head]
      BY <1>1, <2>1, <2>2, <2>4
    <2>6. ChainOf(up[t])' \subseteq ChainOf(head)' BY <1>6, <2>1, <2>3
    <2> QED BY <2>3, <2>5, <2>6 DEF WalkOK
  <1>9. ASSUME NEW t \in Threads, ConfirmNext(t) PROVE WalkOK(t)'
    <2>1. /\ pc[t] = "walk" /\ pc' = [pc EXCEPT ![t] = "confirm"] /\ up[t] # down[t]
          /\ up' = up /\ down' = down /\ head' = head /\ blockchain' = blockchain /\ lengths' = lengths
      BY <1>9 DEF ConfirmNext, At, Goto
    <2>2. WalkOK(t) /\ pc'[t] = "confirm" BY <1>0, <1>1, <2>1 DEF LockInv, HoldPlaces, WalkInv
    <2>3. up[t] \in Block /\ blockchain[up[t]] = "handled" /\ blockchain[head] = "handled"
      BY <1>0, <1>1, <2>2 DEF WalkOK, HeadLongest
    <2>4. ChainOf(up[t])' \subseteq ChainOf(head)'
      BY <1>1, <1>5, <1>6, <2>1, <2>2, <2>3 DEF WalkOK
    <2> QED BY <2>1, <2>2, <2>4 DEF WalkOK
  <1>10. ASSUME NEW t \in Threads, UnconfirmNext(t) PROVE WalkOK(t)'
    <2>1. /\ pc[t] = "undo" /\ pc' = [pc EXCEPT ![t] = "unconfirm"]
          /\ up' = up /\ down' = down /\ head' = head /\ blockchain' = blockchain /\ lengths' = lengths
      BY <1>10 DEF UnconfirmNext, At, Goto
    <2>2. WalkOK(t) /\ pc'[t] = "unconfirm" BY <1>0, <1>1, <2>1 DEF LockInv, HoldPlaces, WalkInv
    <2>3. up[t] \in Block /\ blockchain[up[t]] = "handled" /\ blockchain[head] = "handled"
      BY <1>0, <1>1, <2>2 DEF WalkOK, HeadLongest
    <2>4. ChainOf(up[t])' \subseteq ChainOf(head)'
      BY <1>1, <1>5, <1>6, <2>1, <2>2, <2>3 DEF WalkOK
    <2> QED BY <2>1, <2>2, <2>4 DEF WalkOK
  <1>11. ASSUME NEW t \in Threads, confirm(t) \/ unconfirm(t) PROVE WalkOK(t)'
    <2>1. /\ pc[t] \in {"confirm", "unconfirm"} /\ head' = head /\ blockchain' = blockchain /\ lengths' = lengths
          /\ parent' = parent
      BY <1>11 DEF confirm, unconfirm, At
    <2>2. WalkOK(t) BY <1>0, <2>1 DEF LockInv, HoldPlaces, WalkInv
    <2>3. /\ up[t] \in Block /\ blockchain[up[t]] = "handled" /\ blockchain[head] = "handled"
          /\ down[t] \in Block /\ blockchain[down[t]] = "handled" /\ lengths[up[t]] >= lengths[down[t]]
          /\ up[t] # down[t]
      BY <1>0, <1>1, <2>1, <2>2 DEF WalkOK, HeadLongest
    <2>4. up[t] # Genesis BY <1>0, <2>2, <2>3, WalkNotGenesis
    <2>5. /\ parent[up[t]] \in Block /\ blockchain[parent[up[t]]] = "handled"
          /\ lengths[up[t]] = lengths[parent[up[t]]] + 1
      BY <1>0, <2>3, <2>4, LongerThanGenesis
    <2>6. ChainOf(parent[up[t]]) \subseteq ChainOf(head)
      <3>1. ChainOf(up[t]) \subseteq ChainOf(head) BY <2>2 DEF WalkOK
      <3>2. ChainOf(up[t]) = ChainOf(parent[up[t]]) \cup {up[t]} BY <1>0, <2>3, <2>4, ChainFacts
      <3> QED BY <3>1, <3>2
    <2>7. /\ ChainOf(up[t]) \subseteq ChainOf(head) /\ K[head] = ChainOf(head) /\ K[up[t]] = ChainOf(up[t])
          /\ K[parent[up[t]]] = ChainOf(parent[up[t]])
      BY <1>1, <1>5, <2>2, <2>3, <2>5 DEF WalkOK
    <2>8. CASE confirm(t) /\ lengths[up[t]] > lengths[down[t]]
      <3>1. up' = [up EXCEPT ![t] = parent[up[t]]] /\ pc' = [pc EXCEPT ![t] = "walk"] /\ down' = down
        BY <1>1, <2>3, <2>8 DEF confirm, Goto
      <3>2. up'[t] = parent[up[t]] /\ pc'[t] = "walk" BY <1>1, <3>1
      <3>3. ChainOf(up[t])' \subseteq ChainOf(head)' BY <1>6, <2>1, <2>6, <2>7, <3>2
      <3>4. lengths[parent[up[t]]] >= lengths[down[t]] BY <1>1, <2>3, <2>5, <2>8
      <3> QED BY <2>1, <2>3, <2>5, <3>1, <3>2, <3>3, <3>4 DEF WalkOK
    <2>9. CASE confirm(t) /\ ~(lengths[up[t]] > lengths[down[t]])
      <3>1. up' = up /\ pc' = [pc EXCEPT ![t] = "undo"] /\ down' = down BY <2>9 DEF confirm, Goto
      <3>2. pc'[t] = "undo" /\ lengths[up[t]] = lengths[down[t]] BY <1>1, <2>3, <2>9, <3>1
      <3>3. ChainOf(up[t])' \subseteq ChainOf(head)' BY <1>6, <2>1, <2>7, <3>1
      <3> QED BY <2>1, <2>3, <3>1, <3>2, <3>3 DEF WalkOK
    <2>10. CASE unconfirm(t)
      <3>1. /\ up' = [up EXCEPT ![t] = parent[up[t]]] /\ pc' = [pc EXCEPT ![t] = "walk"]
            /\ down' = [down EXCEPT ![t] = parent[down[t]]] /\ pc[t] = "unconfirm"
        BY <2>10 DEF unconfirm, At, Goto
      <3>2. up'[t] = parent[up[t]] /\ pc'[t] = "walk" /\ down'[t] = parent[down[t]] BY <1>1, <3>1
      <3>3. lengths[up[t]] = lengths[down[t]] BY <2>2, <3>1 DEF WalkOK
      <3>4. down[t] # Genesis BY <1>0, <2>2, <2>3, <3>3, WalkNotGenesis
      <3>5. /\ parent[down[t]] \in Block /\ blockchain[parent[down[t]]] = "handled"
            /\ lengths[down[t]] = lengths[parent[down[t]]] + 1
        BY <1>0, <2>3, <3>4, LongerThanGenesis
      <3>6. ChainOf(up[t])' \subseteq ChainOf(head)' BY <1>6, <2>1, <2>6, <2>7, <3>2
      <3>7. lengths[parent[up[t]]] >= lengths[parent[down[t]]] BY <1>1, <2>5, <3>3, <3>5
      <3> QED BY <2>1, <2>5, <3>2, <3>5, <3>6, <3>7 DEF WalkOK
    <2> QED BY <1>11, <2>8, <2>9, <2>10
  <1>12. ASSUME NEW t \in Threads, EndUpdate(t) PROVE WalkInv'
    <2>1. lock' = NoThread BY <1>12 DEF EndUpdate
    <2> QED BY <1>2, <2>1 DEF WalkInv
  <1>13. ASSUME NEW t \in Threads, Walk(t), WalkOK(t)' PROVE WalkInv'
    <2>1. \A u \in Threads : lock' = u => u = t BY <1>0, <1>13, WalkEffect
    <2> SUFFICES ASSUME NEW u \in Threads, lock' = u PROVE WalkOK(u)' BY DEF WalkInv
    <2>2. u = t BY <2>1
    <2> QED BY <1>13, <2>2
  <1> QED BY <1>0, <1>7, <1>8, <1>9, <1>10, <1>11, <1>12, <1>13, AsideStep DEF Walk

\* Every step keeps the tree and the walk.
LEMMA TreeInvStep == TreeInv /\ [Next]_vars => TreeInv'
  <1> SUFFICES ASSUME TreeInv, [Next]_vars PROVE TreeInv' OBVIOUS
  <1>0. TypeInv /\ Shape /\ TreeOK /\ HeadLongest /\ LockInv /\ ParentEarlier /\ TxsLater
        /\ GenesisLength /\ WalkInv BY DEF TreeInv
  <1>1. TypeInv' /\ Shape' /\ TreeOK' /\ HeadLongest' /\ LockInv'
    BY <1>0, TypeInvStep, ShapeStep, TreeStep, LockStep
  <1>2. ParentEarlier' BY <1>0, ChainsStay
  <1>3. TxsLater' BY <1>0, TxsLaterStep
  <1>4. GenesisLength' BY <1>0, GenesisLengthStep
  <1>5. WalkInv' BY WalkStep
  <1> QED BY <1>1, <1>2, <1>3, <1>4, <1>5 DEF TreeInv

\* They hold in every reachable state.
LEMMA TreeInvInvariance == Spec => []TreeInv
  <1>1. Init => ParentEarlier /\ TxsLater /\ GenesisLength /\ WalkInv
    <2> SUFFICES ASSUME Init PROVE ParentEarlier /\ TxsLater /\ GenesisLength /\ WalkInv OBVIOUS
    <2>0. MaxBlocks \in Nat /\ Main \in Threads BY TinyAssumption DEF Threads
    <2>1. parent = [b \in 0 .. MaxBlocks |-> 0] BY DEF Init, Block, Genesis
    <2>2. parent \in [0 .. MaxBlocks -> 0 .. MaxBlocks] /\ \A c \in 1 .. MaxBlocks : parent[c] < c BY <2>0, <2>1
    <2>3. ParentEarlier BY <2>2, Zenon DEF ParentEarlier, Tree
    <2>4. TxsLater BY <2>0 DEF Init, TxsLater
    <2>5. GenesisLength BY <2>0 DEF Init, GenesisLength, Block, Genesis
    <2>6. WalkInv BY TinyAssumption DEF Init, WalkInv
    <2> QED BY <2>3, <2>4, <2>5, <2>6
  <1>2. TypeInv /\ Shape /\ TreeOK /\ HeadLongest /\ LockInv /\ ParentEarlier /\ TxsLater /\ GenesisLength /\ WalkInv
        => TreeInv BY DEF TreeInv
  <1> QED BY <1>1, <1>2, TreeInvariance, LockInvariance, TreeInvStep, PTL DEF Spec
------------------------------------------------------------------------------
(* The transactions. *)

\* Every step keeps each received transaction pending, about to be, or confirmed.
LEMMA TxStep == TreeInv /\ TxInv /\ [Next]_vars => TxInv'
  <1> SUFFICES ASSUME TreeInv, TxInv, [Next]_vars PROVE TxInv' OBVIOUS
  <1> USE DEF network, chain, money, pool, locals
  <1>0. TypeInv /\ Shape /\ TreeOK /\ HeadLongest /\ LockInv /\ ParentEarlier /\ TxsLater
        /\ GenesisLength /\ WalkInv BY DEF TreeInv
  <1>1. head \in Block /\ up \in [Threads -> Block] /\ down \in [Threads -> Block] /\ pc \in [Threads -> Places]
        /\ blockchain[head] = "handled"
    BY <1>0 DEF TypeInv, TypeOK, HeadLongest
  <1>2. NoThread \notin Threads BY TinyAssumption
  <1> DEFINE K == Chain(parent', MaxBlocks)
  <1>3. \A c \in Block : c <= made => ChainOf(c)' = ChainOf(c) BY <1>0, ChainsStay
  <1>4. \A c : ChainOf(c)' = K[c] BY ChainOfTreeNext
  <1>5. \A c \in Block : blockchain[c] = "handled" => K[c] = ChainOf(c)
    BY <1>0, <1>3, <1>4, HandledMade
  <1>6. \A t : /\ ChainOf(head)' = K[head'] /\ ChainOf(up[t])' = K[up'[t]] /\ ChainOf(down[t])' = K[down'[t]]
               /\ ChainTxs(head)' = UNION {txs'[c] : c \in K[head']}
    BY WalkChains
  <1>7. \A c \in Block : blockchain[c] = "handled" => ChainOf(c) \subseteq {d \in Block : d <= made}
    <2> SUFFICES ASSUME NEW c \in Block, blockchain[c] = "handled", NEW d \in ChainOf(c)
                 PROVE  d \in Block /\ d <= made
      OBVIOUS
    <2>1. c <= made BY <1>0, HandledMade
    <2>2. d \in Block /\ d <= c BY <1>0, ChainFacts
    <2>3. made \in Int /\ c \in Int /\ d \in Int BY <1>0, <2>2 DEF TypeInv, TypeOK, Block
    <2> QED BY <2>1, <2>2, <2>3
  <1> HIDE DEF K
  <1>8. CASE Aside
    <2> SUFFICES ASSUME NEW x \in received_transactions' PROVE Covered(x)' BY DEF TxInv
    <2>1. CASE Inserting(x)' \/ x \in pending_transactions' BY <2>1 DEF Covered
    <2>2. CASE x \in received_transactions /\ lock = NoThread /\ x \in ChainTxs(head)
      <3>1. PICK c \in ChainOf(head) : x \in txs[c] BY <2>2 DEF ChainTxs
      <3>2. c \in Block /\ c <= made BY <1>1, <1>7
      <3>3. x \in txs'[c] /\ c \in K[head'] /\ lock' = NoThread BY <1>1, <1>5, <1>8, <2>2, <3>1, <3>2 DEF Aside
      <3>4. x \in ChainTxs(head)' BY <1>6, <3>3
      <3> QED BY <3>3, <3>4 DEF Covered
    <2>3. ASSUME NEW t \in Threads, lock = t, NEW b \in Block, Confirmed(t, b), x \in txs[b] PROVE Covered(x)'
      <3>1. WalkOK(t) BY <1>0, <2>3 DEF WalkInv
      <3>2. /\ up[t] \in Block /\ blockchain[up[t]] = "handled" /\ down[t] \in Block
            /\ blockchain[down[t]] = "handled"
        BY <1>1, <3>1 DEF WalkOK
      <3>3. lock' = t /\ up' = up /\ down' = down /\ head' = head /\ pc'[t] = pc[t] BY <1>8, <2>3 DEF Aside
      <3>4. K[up'[t]] = ChainOf(up[t]) /\ K[down'[t]] = ChainOf(down[t]) /\ K[head'] = ChainOf(head)
        BY <1>1, <1>5, <3>2, <3>3
      <3>5. ChainOf(up[t])' = ChainOf(up[t]) /\ ChainOf(down[t])' = ChainOf(down[t])
            /\ ChainOf(head)' = ChainOf(head) BY <1>6, <3>4
      <3>6. Confirmed(t, b)' BY <2>3, <3>3, <3>5 DEF Confirmed
      <3>7. b <= made
        <4>1. b \in ChainOf(down[t]) \/ b \in ChainOf(head) \/ b = up[t] BY <2>3 DEF Confirmed
        <4>2. up[t] <= made BY <1>0, <3>2, HandledMade
        <4> QED BY <1>1, <1>7, <3>2, <4>1, <4>2
      <3>8. x \in txs'[b] BY <1>8, <2>3, <3>7 DEF Aside
      <3> QED BY <3>3, <3>6, <3>8 DEF Covered
    <2>4. x \in received_transactions => Covered(x) BY DEF TxInv
    <2>5. Inserting(x) \/ x \in pending_transactions => Inserting(x)' \/ x \in pending_transactions' BY <1>8 DEF Aside
    <2> QED BY <1>8, <2>1, <2>2, <2>3, <2>4, <2>5 DEF Aside, Covered
  <1>9. ASSUME NEW t \in Threads, Walk(t) PROVE TxInv'
    <2> SUFFICES ASSUME NEW x \in received_transactions' PROVE Covered(x)' BY DEF TxInv
    <2>1. /\ parent' = parent /\ txs' = txs /\ item' = item /\ x \in received_transactions
          /\ \A u \in Threads : u # t => pc'[u] = pc[u]
          /\ pc[t] # "insert" /\ \A u \in Threads : lock = u => u = t
      BY <1>0, <1>9, WalkEffect
    <2>2. Covered(x) BY <2>1 DEF TxInv
    <2>3. Inserting(x) => Inserting(x)' BY <2>1 DEF Inserting
    <2>4. \A c : K[c] = ChainOf(c) BY <2>1, ChainOfTree DEF K
    <2>5. ChainOf(up[t])' = ChainOf(up'[t]) /\ ChainOf(down[t])' = ChainOf(down'[t])
          /\ ChainOf(head)' = ChainOf(head')
          /\ ChainTxs(head)' = UNION {txs[c] : c \in ChainOf(head')}
      BY <1>6, <2>1, <2>4
    <2>6. ASSUME NEW b \in Block, BeginUpdate(t, b) PROVE Covered(x)'
      <3>1. /\ lock = NoThread /\ lock' = t /\ down' = [down EXCEPT ![t] = head]
            /\ pending_transactions' = pending_transactions
        BY <2>6 DEF BeginUpdate, Enter
      <3>2. down'[t] = head BY <1>1, <3>1
      <3>3. CASE x \in ChainTxs(head)
        <4>1. PICK c \in ChainOf(head) : x \in txs[c] BY <3>3 DEF ChainTxs
        <4>2. c \in Block BY <1>1, <1>7
        <4>3. Confirmed(t, c)' BY <2>5, <3>2, <4>1 DEF Confirmed
        <4> QED BY <2>1, <3>1, <4>1, <4>2, <4>3 DEF Covered
      <3> QED BY <1>2, <2>2, <2>3, <3>1, <3>3 DEF Covered
    <2>7. ASSUME ~(\E b \in Block : BeginUpdate(t, b)) PROVE lock = t /\ pc[t] \in HoldPlaces /\ WalkOK(t) /\ head' = head
      <3>1. pc[t] \in HoldPlaces /\ head' = head
        BY <1>9, <2>7 DEF Walk, ConfirmNext, confirm, UnconfirmNext, unconfirm, EndUpdate, At, HoldPlaces
      <3> QED BY <1>0, <3>1 DEF LockInv, WalkInv
    \* What was confirmed is confirmed or pending again: enough for a step that keeps the lock.
    <2>8. ASSUME lock = t, lock' = t,
                 \A y \in pending_transactions : y \in pending_transactions' \/
                                                 \E b \in Block : Confirmed(t, b)' /\ y \in txs[b],
                 \A b \in Block : Confirmed(t, b) => Confirmed(t, b)' \/ txs[b] \subseteq pending_transactions'
          PROVE  Covered(x)'
      <3>1. CASE x \in pending_transactions BY <2>1, <2>8, <3>1 DEF Covered
      <3>2. CASE \E b \in Block : Confirmed(t, b) /\ x \in txs[b] BY <2>1, <2>8, <3>2 DEF Covered
      <3> QED BY <1>2, <2>1, <2>2, <2>3, <2>8, <3>1, <3>2 DEF Covered
    <2>9. ASSUME ConfirmNext(t) \/ UnconfirmNext(t) PROVE Covered(x)'
      <3>1. /\ lock' = lock /\ up' = up /\ down' = down /\ head' = head
            /\ pending_transactions' = pending_transactions
            /\ pc[t] \in HoldPlaces
            /\ \/ pc[t] = "walk" /\ pc' = [pc EXCEPT ![t] = "confirm"]
               \/ pc[t] = "undo" /\ pc' = [pc EXCEPT ![t] = "unconfirm"]
        BY <2>9 DEF ConfirmNext, UnconfirmNext, At, Goto, HoldPlaces
      <3>2. pc[t] \in {"undo", "unconfirm"} => pc'[t] \in {"undo", "unconfirm"} BY <1>1, <3>1
      <3>3. lock = t BY <1>0, <3>1 DEF LockInv
      <3>4. \A b \in Block : Confirmed(t, b) => Confirmed(t, b)' BY <2>5, <3>1, <3>2 DEF Confirmed
      <3> QED BY <2>8, <3>1, <3>3, <3>4
    <2>10. ASSUME confirm(t) \/ unconfirm(t) PROVE Covered(x)'
      <3>1. pc[t] \in {"confirm", "unconfirm"} /\ head' = head /\ lock' = lock BY <2>10 DEF confirm, unconfirm, At
      <3>2. lock = t /\ WalkOK(t) BY <1>0, <3>1 DEF LockInv, HoldPlaces, WalkInv
      <3>3. up[t] \in Block /\ down[t] \in Block /\ up[t] # down[t] /\ ChainOf(up[t]) \subseteq ChainOf(head)
        BY <1>1, <3>1, <3>2 DEF WalkOK
      <3>4. up[t] # Genesis BY <1>0, <3>2, <3>3, WalkNotGenesis
      <3>5. /\ ChainOf(up[t]) = ChainOf(parent[up[t]]) \cup {up[t]} /\ up[t] \notin ChainOf(parent[up[t]])
            /\ up[t] \in ChainOf(head)
        BY <1>0, <3>3, <3>4, ChainFacts
      <3>6. CASE confirm(t)
        <4>1. /\ pending_transactions' = pending_transactions \ txs[up[t]] /\ down' = down
              /\ \/ up' = [up EXCEPT ![t] = parent[up[t]]]
                 \/ up' = up /\ pc' = [pc EXCEPT ![t] = "undo"]
              /\ pc[t] = "confirm"
          BY <3>6 DEF confirm, Goto, At
        <4>2. up'[t] = parent[up[t]] \/ (up'[t] = up[t] /\ pc'[t] = "undo") BY <1>1, <4>1
        <4>3. \A b \in Block : Confirmed(t, b) => Confirmed(t, b)'
          BY <2>5, <3>1, <3>5, <4>1, <4>2 DEF Confirmed
        <4>4. PICK d \in Block : d = up[t] BY <3>3
        <4>5. Confirmed(t, d)' BY <2>5, <3>1, <3>5, <4>1, <4>2, <4>4 DEF Confirmed
        <4> QED BY <2>8, <3>1, <3>2, <4>1, <4>3, <4>4, <4>5
      <3>7. CASE unconfirm(t)
        <4>1. /\ pending_transactions' = pending_transactions \cup txs[down[t]]
              /\ up' = [up EXCEPT ![t] = parent[up[t]]] /\ down' = [down EXCEPT ![t] = parent[down[t]]]
              /\ pc[t] = "unconfirm"
          BY <3>7 DEF unconfirm, At
        <4>2. up'[t] = parent[up[t]] /\ down'[t] = parent[down[t]] BY <1>1, <4>1
        <4>3. down[t] # Genesis BY <1>0, <3>2, <3>3, <4>1, WalkNotGenesis DEF WalkOK
        <4>4. ChainOf(down[t]) = ChainOf(parent[down[t]]) \cup {down[t]} BY <1>0, <3>3, <4>3, ChainFacts
        <4>5. \A b \in Block : Confirmed(t, b) => Confirmed(t, b)' \/ b = down[t]
          BY <2>5, <3>1, <3>5, <4>1, <4>2, <4>4 DEF Confirmed
        <4> QED BY <2>8, <3>1, <3>2, <3>3, <4>1, <4>5
      <3> QED BY <2>10, <3>6, <3>7
    <2>11. ASSUME EndUpdate(t) PROVE Covered(x)'
      <3>1. /\ lock' = NoThread /\ up[t] = down[t] /\ pc[t] = "walk" /\ head' = head
            /\ pending_transactions' = pending_transactions
        BY <2>11 DEF EndUpdate, TakeChildren, At
      <3>2. lock = t /\ WalkOK(t) BY <1>0, <3>1 DEF LockInv, HoldPlaces, WalkInv
      <3>3. \A b : Confirmed(t, b) => b \in ChainOf(head) BY <3>1, <3>2 DEF Confirmed, WalkOK
      <3>4. CASE \E b \in Block : Confirmed(t, b) /\ x \in txs[b]
        <4>1. x \in ChainTxs(head)' BY <2>5, <3>1, <3>3, <3>4
        <4> QED BY <3>1, <4>1 DEF Covered
      <3> QED BY <1>2, <2>1, <2>2, <2>3, <3>1, <3>2, <3>4 DEF Covered
    <2> QED BY <1>9, <2>6, <2>9, <2>10, <2>11 DEF Walk
  <1> QED BY <1>0, <1>8, <1>9, AsideStep

\* No transaction is lost: in every reachable state one that handle_transaction has received
\* is pending, about to be inserted, or in the chain of the head, whatever blocks arrive and
\* however often update_head changes branches.
THEOREM NoTransactionLost == Spec => []NoTxLost
  <1>1. Init => TxInv BY DEF Init, TxInv
  <1>2. TxInv => NoTxLost
    <2> SUFFICES ASSUME TxInv, lock = NoThread, NEW x \in received_transactions
                 PROVE  \/ x \in pending_transactions \/ x \in ChainTxs(head)
                        \/ \E t \in Threads : pc[t] = "insert" /\ item[t] = x
      BY DEF NoTxLost
    <2>1. NoThread \notin Threads BY TinyAssumption
    <2>2. Covered(x) BY DEF TxInv
    <2> QED BY <2>1, <2>2 DEF Covered, Inserting
  <1> QED BY <1>1, <1>2, TreeInvInvariance, TxStep, PTL DEF Spec
------------------------------------------------------------------------------
(* The sum that BalanceOfChain takes over the blocks of a chain. *)

Pick(s) == CHOOSE x \in s : TRUE
IsTotal(f, T) == f = [s \in SUBSET T |-> IF s = {} THEN 0 ELSE block_value(Pick(s)) + f[s \ {Pick(s)}]]
Total(T) == CHOOSE f : IsTotal(f, T)

\* One cell for each unit that a block of T brings.
Cells(T) == {c \in T \X Nat : c[2] \in 1 .. block_value(c[1])}

\* One more block has as many more cells as it brings.
LEMMA MoreCells ==
  ASSUME NEW S, IsFiniteSet(Cells(S)), NEW x, x \notin S, block_value(x) \in Nat
  PROVE  /\ IsFiniteSet(Cells(S \cup {x}))
         /\ Cardinality(Cells(S \cup {x})) = Cardinality(Cells(S)) + block_value(x)
  <1> DEFINE v == block_value(x)
             new == {x} \X (1 .. v)
  <1>0. v \in Nat OBVIOUS
  <1>1. Cells(S \cup {x}) = Cells(S) \cup new
    <2>1. ASSUME NEW c \in Cells(S \cup {x}) PROVE c \in Cells(S) \cup new
      <3>1. c \in (S \cup {x}) \X Nat /\ c[2] \in 1 .. block_value(c[1]) BY DEF Cells
      <3> QED BY <3>1 DEF Cells
    <2>2. ASSUME NEW c \in Cells(S) \cup new PROVE c \in Cells(S \cup {x})
      BY <1>0, <2>2 DEF Cells
    <2> QED BY <2>1, <2>2
  <1>2. Cells(S) \cap new = {} BY DEF Cells
  <1> HIDE DEF v
  <1>3. IsFiniteSet(1 .. v) /\ Cardinality(1 .. v) = v BY <1>0, FS_Interval
  <1>4. IsFiniteSet({x}) /\ Cardinality({x}) = 1 BY FS_Singleton
  <1>5. IsFiniteSet(new) /\ Cardinality(new) = 1 * v
    <2>1. IsFiniteSet({x} \X (1 .. v)) /\ Cardinality({x} \X (1 .. v)) = Cardinality({x}) * Cardinality(1 .. v)
      BY <1>3, <1>4, FS_Product
    <2> QED BY <1>3, <1>4, <2>1
  <1> HIDE DEF new
  <1>6. IsFiniteSet(Cells(S) \cup new)
        /\ Cardinality(Cells(S) \cup new) = Cardinality(Cells(S)) + Cardinality(new) - Cardinality(Cells(S) \cap new)
    BY <1>5, FS_Union
  <1>7. Cardinality(Cells(S) \cap new) = 0 BY <1>2, FS_EmptySet
  <1>8. Cardinality(Cells(S)) \in Nat BY FS_CardinalityType
  <1>9. Cardinality(Cells(S) \cup new) = Cardinality(Cells(S)) + v BY <1>0, <1>5, <1>6, <1>7, <1>8
  <1> QED BY <1>1, <1>6, <1>9 DEF v

\* The fold over a finite set of blocks counts their cells: the equation of the fold has a
\* solution, and only one.
LEMMA SumIsCells ==
  ASSUME NEW T, IsFiniteSet(T), \A x \in T : block_value(x) \in Nat
  PROVE  IsFiniteSet(Cells(T)) /\ MapThenSumSet(block_value, T) = Cardinality(Cells(T))
  <1>1. Cells({}) = {} BY DEF Cells
  <1>2. \A s \in SUBSET T : IsFiniteSet(Cells(s))
    <2> DEFINE Bad == {s \in SUBSET T : ~IsFiniteSet(Cells(s))}
    <2> SUFFICES ASSUME Bad # {} PROVE FALSE OBVIOUS
    <2>1. PICK s \in Bad : \A x \in s : s \ {x} \notin Bad
      <3>1. Bad \in SUBSET SUBSET T OBVIOUS
      <3> HIDE DEF Bad
      <3> QED BY <3>1, LeastSet
    <2>2. s # {} BY <1>1, FS_EmptySet
    <2>3. PICK x : x \in s BY <2>2
    <2>4. s \ {x} \in SUBSET T /\ x \in T /\ s = (s \ {x}) \cup {x} BY <2>3
    <2>5. IsFiniteSet(Cells(s \ {x})) BY <2>1, <2>3, <2>4
    <2>6. IsFiniteSet(Cells((s \ {x}) \cup {x})) BY <2>4, <2>5, MoreCells
    <2> QED BY <2>4, <2>6
  <1>3. ASSUME NEW s \in SUBSET T, s # {}
        PROVE  Pick(s) \in s /\ Cardinality(Cells(s)) = block_value(Pick(s)) + Cardinality(Cells(s \ {Pick(s)}))
    <2>1. Pick(s) \in s BY <1>3 DEF Pick
    <2> DEFINE x == Pick(s)
    <2> HIDE DEF x
    <2>2. x \in s BY <2>1 DEF x
    <2>3. s \ {x} \in SUBSET T /\ x \in T /\ s = (s \ {x}) \cup {x} BY <2>2
    <2>4. IsFiniteSet(Cells(s \ {x})) BY <1>2, <2>3
    <2>5. Cardinality(Cells((s \ {x}) \cup {x})) = Cardinality(Cells(s \ {x})) + block_value(x)
      BY <2>3, <2>4, MoreCells
    <2>6. Cardinality(Cells(s \ {x})) \in Nat /\ block_value(x) \in Nat BY <2>3, <2>4, FS_CardinalityType
    <2> QED BY <2>1, <2>3, <2>5, <2>6 DEF x
  <1>4. Cardinality(Cells({})) = 0 BY <1>1, FS_EmptySet
  <1>5. IsTotal(Total(T), T)
    <2> DEFINE g == [s \in SUBSET T |-> Cardinality(Cells(s))]
    <2>1. ASSUME NEW s \in SUBSET T
          PROVE  g[s] = IF s = {} THEN 0 ELSE block_value(Pick(s)) + g[s \ {Pick(s)}]
      <3>1. s \ {Pick(s)} \in SUBSET T OBVIOUS
      <3> QED BY <1>3, <1>4, <3>1
    <2>2. g = [s \in SUBSET T |-> g[s]] OBVIOUS
    <2> HIDE DEF g
    <2>3. IsTotal(g, T) BY <2>1, <2>2 DEF IsTotal
    <2> QED BY <2>3, Zenon DEF Total
  <1> DEFINE f == Total(T)
  <1>6. \A s \in SUBSET T : f[s] = IF s = {} THEN 0 ELSE block_value(Pick(s)) + f[s \ {Pick(s)}]
    <2>1. IsTotal(f, T) BY <1>5
    <2> HIDE DEF f
    <2>2. f = [s \in SUBSET T |-> IF s = {} THEN 0 ELSE block_value(Pick(s)) + f[s \ {Pick(s)}]]
      BY <2>1 DEF IsTotal
    <2> QED BY <2>2
  <1>7. \A s \in SUBSET T : f[s] = Cardinality(Cells(s))
    <2> HIDE DEF f
    <2> DEFINE Bad == {s \in SUBSET T : f[s] # Cardinality(Cells(s))}
    <2> SUFFICES ASSUME Bad # {} PROVE FALSE OBVIOUS
    <2>1. PICK s \in Bad : \A x \in s : s \ {x} \notin Bad
      <3>1. Bad \in SUBSET SUBSET T OBVIOUS
      <3> HIDE DEF Bad
      <3> QED BY <3>1, LeastSet
    <2>2. s # {} BY <1>4, <1>6
    <2>3. Pick(s) \in s BY <1>3, <2>2
    <2>4. s \ {Pick(s)} \in SUBSET T BY <2>3
    <2>5. f[s \ {Pick(s)}] = Cardinality(Cells(s \ {Pick(s)})) BY <2>1, <2>3, <2>4
    <2> QED BY <1>3, <1>6, <2>2, <2>5
  <1>8. MapThenSumSet(block_value, T) = Total(T)[T]
    BY Zenon DEF MapThenSumSet, MapThenFoldSet, Total, IsTotal, Pick
  <1> QED BY <1>2, <1>7, <1>8
------------------------------------------------------------------------------
(* The balance, of a node that does not spend. *)

\* What the chain of a block brings.
Value(b) == MapThenSumSet(block_value, ChainOf(b))

\* The values of the chains, one block after the other.
ValueOK ==
  /\ Value(Genesis) = 0
  /\ \A c \in Block : Value(c) \in Int /\ block_value(c) \in Int
  /\ \A c \in Block : c # Genesis => Value(c) = Value(parent[c]) + block_value(c)

\* The block that on_mined is still filling is nowhere else.
CollectNew ==
  pc[Main] = "collect" =>
    /\ blockchain[item[Main]] = "absent"
    /\ \A t \in Threads : item[Main] \notin todo[t]
    /\ \A p \in Block : item[Main] \notin pending_blocks[p]

\* In the middle of update_head the balance is what the blocks bring that are confirmed
\* then; the value that a thread has read is not stale when it uses it.
BalanceInv ==
  \A h \in Block : h = head =>
    /\ lock = NoThread => balance = Value(h)
    /\ \A t \in Threads, u, d \in Block : lock = t /\ u = up[t] /\ d = down[t] =>
         /\ pc[t] \notin {"undo", "unconfirm"} => balance = Value(d) + Value(h) - Value(u)
         /\ pc[t] \in {"undo", "unconfirm"} => balance = Value(d) + Value(h) - Value(u) + block_value(u)
         /\ pc[t] \in {"confirm", "unconfirm"} => loaded[t] = balance

\* The value of a chain is that of its parent's chain and what the block brings.
LEMMA ValueHolds == TypeInv /\ ParentEarlier => ValueOK
  <1> SUFFICES ASSUME TypeInv, ParentEarlier PROVE ValueOK OBVIOUS
  <1>0. Genesis \in Block /\ IsFiniteSet(Block)
    <2>1. Genesis \in Block BY TinyAssumption DEF Block, Genesis
    <2>2. IsFiniteSet(0 .. MaxBlocks) BY TinyAssumption, FS_Interval
    <2> QED BY <2>1, <2>2 DEF Block
  <1>1. ASSUME NEW b \in Block PROVE block_value(b) \in Nat
    <2>1. IsFiniteSet(txs[b]) /\ IsFiniteSet(txs[b] \cap ToMe)
      BY TinyAssumption, FS_Subset DEF TypeInv, TypeOK
    <2>2. Cardinality(txs[b]) \in Nat /\ Cardinality(txs[b] \cap ToMe) \in Nat BY <2>1, FS_CardinalityType
    <2>3. TxReward * Cardinality(txs[b]) \in Nat BY <2>2, TinyAssumption
    <2> QED BY <2>2, <2>3, TinyAssumption DEF block_value
  <1>2. /\ ChainOf(Genesis) = {}
        /\ \A c \in Block : c # Genesis => /\ parent[c] \in Block
                                           /\ ChainOf(c) = ChainOf(parent[c]) \cup {c}
                                           /\ c \notin ChainOf(parent[c])
        /\ \A c \in Block : ChainOf(c) \subseteq Block
    BY ChainFacts
  <1>3. ASSUME NEW c \in Block
        PROVE  /\ IsFiniteSet(Cells(ChainOf(c))) /\ Value(c) = Cardinality(Cells(ChainOf(c)))
               /\ Value(c) \in Nat
    <2>1. IsFiniteSet(ChainOf(c)) BY <1>0, <1>2, FS_Subset
    <2>2. \A x \in ChainOf(c) : block_value(x) \in Nat BY <1>1, <1>2
    <2> DEFINE T == ChainOf(c)
    <2>3. IsFiniteSet(T) /\ \A x \in T : block_value(x) \in Nat BY <2>1, <2>2
    <2> HIDE DEF T
    <2>4. IsFiniteSet(Cells(T)) /\ MapThenSumSet(block_value, T) = Cardinality(Cells(T)) BY <2>3, SumIsCells
    <2>5. Cardinality(Cells(T)) \in Nat BY <2>4, FS_CardinalityType
    <2> QED BY <2>4, <2>5 DEF T, Value
  <1>4. Value(Genesis) = 0
    <2>1. Cells({}) = {} BY DEF Cells
    <2> QED BY <1>0, <1>2, <1>3, <2>1, FS_EmptySet
  <1>5. ASSUME NEW c \in Block, c # Genesis PROVE Value(c) = Value(parent[c]) + block_value(c)
    <2>1. parent[c] \in Block /\ ChainOf(c) = ChainOf(parent[c]) \cup {c} /\ c \notin ChainOf(parent[c])
      BY <1>2, <1>5
    <2>2. Cardinality(Cells(ChainOf(parent[c]) \cup {c})) = Cardinality(Cells(ChainOf(parent[c]))) + block_value(c)
      BY <1>1, <1>3, <2>1, MoreCells
    <2> QED BY <1>3, <2>1, <2>2
  <1> QED BY <1>1, <1>3, <1>4, <1>5 DEF ValueOK

\* Also in the next state.
LEMMA ValueHoldsNext == TypeInv' /\ ParentEarlier' => ValueOK'
  BY ValueHolds, PTL

\* Nobody touches the block that on_mined is filling.
LEMMA CollectNewStep ==
  ASSUME TypeInv, Shape, ForwardInv, CollectNew, [Next]_vars
  PROVE  CollectNew'
  <1> USE DEF network, chain, money, pool, locals
  <1>0. /\ Main \in Threads /\ Workers \subseteq Threads /\ Main \notin Workers
        /\ pc \in [Threads -> Places] /\ item \in [Threads -> Block \cup Tx] /\ todo \in [Threads -> SUBSET Block]
        /\ blockchain \in [Block -> {"absent", "pending", "handled"}] /\ pending_blocks \in [Block -> SUBSET Block]
        /\ parent \in [Block -> Block]
    <2>1. Main \in Threads /\ Workers \subseteq Threads BY DEF Threads
    <2> QED BY <2>1, TinyAssumption DEF TypeInv, TypeOK
  <1>1. ASSUME Mine PROVE CollectNew'
    <2>1. item' = [item EXCEPT ![Main] = made + 1] /\ made < MaxBlocks /\ blockchain' = blockchain
          /\ todo' = todo /\ pending_blocks' = pending_blocks BY <1>1 DEF Mine
    <2>2. item'[Main] = made + 1 BY <1>0, <2>1
    <2>3. made \in Int /\ made + 1 \in Block /\ made + 1 > made /\ ~(made + 1 <= made)
      BY <2>1, TinyAssumption DEF TypeInv, TypeOK, Block
    <2>4. blockchain[made + 1] = "absent" BY <2>3 DEF Shape, FutureAbsent
    <2>5. \A t \in Threads : made + 1 \notin todo[t] BY <2>3 DEF Shape, TodoMade
    <2>6. \A p \in Block : made + 1 \notin pending_blocks[p] BY <2>3 DEF Shape, WaitingMade
    <2> QED BY <2>1, <2>2, <2>4, <2>5, <2>6 DEF CollectNew
  \* Otherwise Main is in on_mined before the step, with the same block.
  <1>2. ASSUME ~Mine, pc'[Main] = "collect"
        PROVE  pc[Main] = "collect" /\ item'[Main] = item[Main]
    <2>1. ASSUME NEW t \in Workers, \/ \E b \in Block : DeliverBlock(t, b)
                                    \/ \E x \in Tx : DeliverTransaction(t, x)
          PROVE  pc'[Main] = pc[Main] /\ item'[Main] = item[Main]
      BY <1>0, <2>1 DEF DeliverBlock, DeliverTransaction, Goto
    <2>2. ASSUME NEW t \in Threads, HandleStep(t) PROVE pc[Main] = "collect" /\ item'[Main] = item[Main]
      <3>1. item' = item
        BY <2>2 DEF HandleStep, AlreadyHandled, WaitForParent, InsertBlock, BeginUpdate, ConfirmNext, confirm,
           UnconfirmNext, unconfirm, EndUpdate, BlockDone, ReceiveTransaction, InsertTransaction
      <3>2. pc' = pc \/ \E q \in Places \ {"collect"} : pc' = [pc EXCEPT ![t] = q]
        BY <2>2 DEF HandleStep, AlreadyHandled, WaitForParent, InsertBlock, BeginUpdate, ConfirmNext, confirm,
           UnconfirmNext, unconfirm, EndUpdate, BlockDone, ReceiveTransaction, InsertTransaction, Goto, Places
      <3> QED BY <1>0, <1>2, <3>1, <3>2
    <2>3. ASSUME NEW p \in Block, NEW X \in SUBSET Tx, OthersMine(p, X) PROVE pc' = pc /\ item' = item
      BY <2>3 DEF OthersMine
    <2>4. CASE CollectUnknown BY <1>2, <2>4 DEF CollectUnknown
    <2>5. ASSUME Collect \/ Pay \/ \E x \in Tx : Spend(x) PROVE FALSE
      BY <1>0, <1>2, <2>5 DEF Collect, Pay, Spend, Goto
    <2>6. CASE UNCHANGED vars BY <1>2, <2>6 DEF vars
    <2> QED BY <1>2, <2>1, <2>2, <2>3, <2>4, <2>5, <2>6 DEF Next, MainStep
  <1>3. ASSUME ~Mine, pc'[Main] = "collect", NEW c \in Block, c = item[Main]
        PROVE  /\ blockchain'[c] = "absent" /\ \A t \in Threads : c \notin todo'[t]
               /\ \A p \in Block : c \notin pending_blocks'[p]
    <2>0. /\ c \in mine /\ sent[c] = 0 /\ blockchain[c] = "absent" /\ \A t \in Threads : c \notin todo[t]
          /\ \A p \in Block : c \notin pending_blocks[p]
          /\ pc[Main] = "collect"
      BY <1>2, <1>3 DEF CollectNew, ForwardInv, MainItem
    <2>1. ASSUME NEW t \in Workers, NEW b \in Block, DeliverBlock(t, b)
          PROVE  /\ blockchain' = blockchain /\ pending_blocks' = pending_blocks
                 /\ \A u \in Threads : c \notin todo'[u]
      <3>1. b # c
        <4>1. b # Genesis /\ Public(b) BY <2>1 DEF DeliverBlock
        <4>2. b \notin mine \/ sent[b] > 0 BY <4>1 DEF Public
        <4> QED BY <2>0, <4>2
      <3> QED BY <1>0, <2>0, <2>1, <3>1 DEF DeliverBlock
    <2>2. ASSUME NEW t \in Threads, NEW b \in Block, WaitForParent(t, b)
          PROVE  /\ blockchain'[c] = "absent" /\ \A u \in Threads : c \notin todo'[u]
                 /\ \A p \in Block : c \notin pending_blocks'[p]
      <3>1. /\ b \in todo[t] /\ blockchain' = [blockchain EXCEPT ![b] = "pending"]
            /\ pending_blocks' = [pending_blocks EXCEPT ![parent[b]] = @ \cup {b}]
            /\ todo' = [todo EXCEPT ![t] = @ \ {b}]
        BY <2>2 DEF WaitForParent, Enter
      <3> QED BY <1>0, <2>0, <3>1
    <2>3. ASSUME NEW t \in Threads, NEW b \in Block,
                 \/ InsertBlock(t, b) \/ BeginUpdate(t, b) \/ AlreadyHandled(t, b)
                 \/ EndUpdate(t) /\ b = blk[t]
          PROVE  /\ blockchain'[c] = "absent" /\ \A u \in Threads : c \notin todo'[u]
                 /\ \A p \in Block : c \notin pending_blocks'[p]
      <3>1. /\ blockchain' = blockchain \/ (b \in todo[t] /\ blockchain' = [blockchain EXCEPT ![b] = "handled"])
            /\ pending_blocks' = pending_blocks \/ pending_blocks' = [pending_blocks EXCEPT ![b] = {}]
            /\ \/ todo' = todo \/ todo' = [todo EXCEPT ![t] = @ \ {b}]
               \/ todo' = [todo EXCEPT ![t] = (@ \ {b}) \cup pending_blocks[b]]
        <4>1. CASE InsertBlock(t, b) BY <4>1 DEF InsertBlock, Enter, Insert, TakeChildren
        <4>2. CASE BeginUpdate(t, b) BY <4>2 DEF BeginUpdate, Enter, Insert
        <4>3. CASE AlreadyHandled(t, b) BY <4>3 DEF AlreadyHandled
        <4>4. CASE EndUpdate(t) /\ b = blk[t] BY <4>4 DEF EndUpdate, TakeChildren
        <4> QED BY <2>3, <4>1, <4>2, <4>3, <4>4
      <3>2. blockchain'[c] = "absent" BY <1>0, <2>0, <3>1
      <3>3. \A u \in Threads : c \notin todo'[u] BY <1>0, <2>0, <3>1
      <3>4. \A p \in Block : c \notin pending_blocks'[p] BY <1>0, <2>0, <3>1
      <3> QED BY <3>2, <3>3, <3>4
    <2>4. ASSUME NEW t \in Threads, \/ ConfirmNext(t) \/ confirm(t) \/ UnconfirmNext(t) \/ unconfirm(t)
                                    \/ BlockDone(t) \/ ReceiveTransaction(t) \/ InsertTransaction(t)
          PROVE  blockchain' = blockchain /\ pending_blocks' = pending_blocks /\ todo' = todo
      BY <2>4 DEF ConfirmNext, confirm, UnconfirmNext, unconfirm, BlockDone, ReceiveTransaction, InsertTransaction
    <2>5. ASSUME \/ \E p \in Block, X \in SUBSET Tx : OthersMine(p, X)
                 \/ \E t \in Workers, x \in Tx : DeliverTransaction(t, x)
                 \/ CollectUnknown \/ Pay \/ \E x \in Tx : Spend(x)
          PROVE  blockchain' = blockchain /\ pending_blocks' = pending_blocks /\ todo' = todo
      BY <2>5 DEF OthersMine, DeliverTransaction, CollectUnknown, Pay, Spend
    <2>6. ASSUME Collect PROVE FALSE BY <1>0, <1>3, <2>6 DEF Collect, Goto
    <2>7. CASE UNCHANGED vars BY <2>0, <2>7 DEF vars
    <2>8. \A t \in Threads : blk[t] \in Block BY DEF TypeInv, TypeOK
    <2> QED BY <1>3, <2>0, <2>1, <2>2, <2>3, <2>4, <2>5, <2>6, <2>7, <2>8 DEF Next, HandleStep, MainStep
  <1>4. ASSUME ~Mine PROVE CollectNew'
    <2> SUFFICES ASSUME pc'[Main] = "collect"
                 PROVE  /\ blockchain'[item'[Main]] = "absent"
                        /\ \A t \in Threads : item'[Main] \notin todo'[t]
                        /\ \A p \in Block : item'[Main] \notin pending_blocks'[p]
      BY DEF CollectNew
    <2>1. pc[Main] = "collect" /\ item'[Main] = item[Main] BY <1>2, <1>4
    <2>2. item[Main] \in Block BY <1>0, <2>1 DEF TypeInv, ItemOK
    <2> QED BY <1>3, <1>4, <2>1, <2>2
  <1> QED BY <1>1, <1>4

\* A handled block keeps what it brings, and its chain too.
LEMMA ValueStays ==
  ASSUME TreeInv, CollectNew, [Next]_vars
  PROVE  \A c \in Block : blockchain[c] = "handled" =>
           block_value(c)' = block_value(c) /\ Value(c)' = Value(c)
  <1> USE DEF network, chain, money, pool, locals
  <1>0. TypeInv /\ Shape /\ TreeOK /\ HeadLongest /\ LockInv /\ ParentEarlier BY DEF TreeInv
  <1>1. made \in Int /\ (\A b \in Block : b \in Int) /\ txs \in [Block -> SUBSET Tx] /\ Main \in Threads
        /\ parent \in [Block -> Block] /\ Genesis \in Block
    <2>1. (\A b \in Block : b \in Int) /\ Genesis \in Block BY TinyAssumption DEF Block, Genesis
    <2>2. Main \in Threads BY DEF Threads
    <2>3. made \in Block /\ txs \in [Block -> SUBSET Tx] /\ parent \in [Block -> Block]
      BY <1>0 DEF TypeInv, TypeOK
    <2> QED BY <2>1, <2>2, <2>3
  <1>2. \A c \in Block : blockchain[c] = "handled" => c <= made BY <1>0, HandledMade
  <1>3. \A c \in Block : blockchain[c] = "handled" => txs'[c] = txs[c] /\ (c \in mine' <=> c \in mine)
    <2>1. ASSUME NEW p \in Block, NEW X \in SUBSET Tx, OthersMine(p, X)
          PROVE  mine' = mine /\ \A c \in Block : c <= made => txs'[c] = txs[c]
      <3>1. mine' = mine /\ txs' = [txs EXCEPT ![made + 1] = X] BY <2>1 DEF OthersMine
      <3> QED BY <1>1, <3>1
    <2>2. ASSUME Mine PROVE txs' = txs /\ \A c \in Block : c <= made => (c \in mine' <=> c \in mine)
      <3>1. txs' = txs /\ mine' = mine \cup {made + 1} BY <2>2 DEF Mine
      <3> QED BY <1>1, <3>1
    <2>3. ASSUME Collect PROVE mine' = mine /\ \A c \in Block : blockchain[c] = "handled" => txs'[c] = txs[c]
      <3>1. mine' = mine /\ pc[Main] = "collect" /\ txs' = [txs EXCEPT ![item[Main]] = Selected]
        BY <2>3 DEF Collect, At
      <3>2. blockchain[item[Main]] = "absent" BY <3>1 DEF CollectNew
      <3> QED BY <1>1, <3>1, <3>2
    <2>4. ASSUME NEW t \in Workers, \/ \E b \in Block : DeliverBlock(t, b)
                                    \/ \E x \in Tx : DeliverTransaction(t, x)
          PROVE  txs' = txs /\ mine' = mine
      BY <2>4 DEF DeliverBlock, DeliverTransaction
    <2>5. ASSUME NEW t \in Threads, HandleStep(t) PROVE txs' = txs /\ mine' = mine
      BY <2>5 DEF HandleStep, AlreadyHandled, WaitForParent, InsertBlock, BeginUpdate, ConfirmNext, confirm,
         UnconfirmNext, unconfirm, EndUpdate, BlockDone, ReceiveTransaction, InsertTransaction
    <2>6. ASSUME CollectUnknown \/ Pay \/ \E x \in Tx : Spend(x) PROVE txs' = txs /\ mine' = mine
      BY <2>6 DEF CollectUnknown, Pay, Spend
    <2>7. CASE UNCHANGED vars BY <2>7 DEF vars
    <2> QED BY <1>2, <2>1, <2>2, <2>3, <2>4, <2>5, <2>6, <2>7 DEF Next, MainStep
  <1>4. ASSUME NEW c \in Block, blockchain[c] = "handled" PROVE block_value(c)' = block_value(c)
    BY <1>3, <1>4 DEF block_value
  <1>5. ValueOK /\ ValueOK'
    <2>1. TypeInv' /\ ParentEarlier' BY <1>0, TypeInvStep, ChainsStay
    <2> QED BY <1>0, <2>1, ValueHolds, ValueHoldsNext
  <1>6. \A c \in Block : blockchain[c] = "handled" => parent'[c] = parent[c] BY <1>0, <1>2, ChainsStay
  <1> DEFINE V == [c \in Block |-> Value(c)]
             W == [c \in Block |-> Value(c)']
             Bad == {c \in Block : blockchain[c] = "handled" /\ V[c] # W[c]}
  <1>7. /\ V[Genesis] = 0 /\ W[Genesis] = 0
        /\ \A c \in Block : c # Genesis => V[c] = V[parent[c]] + block_value(c)
        /\ \A c \in Block : c # Genesis => W[c] = Value(c)'
    BY <1>1, <1>5 DEF ValueOK
  <1>8. ASSUME NEW c \in Block, c # Genesis, blockchain[c] = "handled" PROVE W[c] = W[parent[c]] + block_value(c)
    <2>1. PICK q \in Block : q = parent[c] BY <1>1
    <2>2. parent'[c] = q BY <1>6, <1>8, <2>1
    <2>3. Value(c)' = Value(q)' + block_value(c)'
      <3>1. Value(c)' = Value(parent[c])' + block_value(c)' BY <1>5, <1>8 DEF ValueOK
      <3>2. Value(parent[c])' = Value(q)' BY <2>2 DEF Value, MapThenSumSet, MapThenFoldSet, ChainOf, block_value
      <3> QED BY <3>1, <3>2
    <2> QED BY <1>4, <1>8, <2>1, <2>3
  <1>9. Bad = {}
    <2> SUFFICES ASSUME Bad # {} PROVE FALSE OBVIOUS
    <2> HIDE DEF V, W
    <2>1. PICK d \in Bad : \A e \in Bad : d <= e
      <3>1. Bad \in SUBSET Nat BY DEF Block
      <3> HIDE DEF Bad
      <3> QED BY <3>1, LeastNat
    <2>2. d \in Block /\ d # Genesis /\ blockchain[d] = "handled" BY <1>7
    <2>3. parent[d] \in Block /\ blockchain[parent[d]] = "handled" BY <1>0, <1>1, <2>2 DEF TreeOK
    <2>4. parent[d] < d
      <3>1. \A e \in 1 .. MaxBlocks : parent[e] < e BY <1>0, Zenon DEF ParentEarlier, Tree
      <3>2. d \in 1 .. MaxBlocks BY <2>2, TinyAssumption DEF Block, Genesis
      <3> QED BY <3>1, <3>2
    <2>5. parent[d] \notin Bad BY <1>1, <2>1, <2>2, <2>3, <2>4
    <2>6. V[parent[d]] = W[parent[d]] BY <2>3, <2>5
    <2> QED BY <1>7, <1>8, <2>1, <2>2, <2>6
  <1> QED BY <1>4, <1>9

\* Without spending, only update_head changes the balance.
LEMMA MoneyStep ==
  ASSUME TypeInv, Own = {}, [Next]_vars
  PROVE  (balance' = balance /\ loaded' = loaded) \/ \E t \in Threads : Walk(t)
  <1> USE DEF network, chain, money, pool, locals
  <1>1. ASSUME Pay PROVE FALSE
    <2>1. Main \in Threads /\ pc[Main] = "spend" BY <1>1 DEF Pay, At, Threads
    <2> QED BY <2>1 DEF TypeInv, ItemOK
  <1>2. ASSUME NEW x \in Tx, Spend(x) PROVE FALSE BY <1>2 DEF Spend
  <1>3. ASSUME \/ \E p \in Block, X \in SUBSET Tx : OthersMine(p, X)
               \/ \E t \in Workers, b \in Block : DeliverBlock(t, b)
               \/ \E t \in Workers, x \in Tx : DeliverTransaction(t, x)
               \/ Mine \/ Collect \/ CollectUnknown
        PROVE  balance' = balance /\ loaded' = loaded
    BY <1>3 DEF OthersMine, DeliverBlock, DeliverTransaction, Mine, Collect, CollectUnknown
  <1>4. ASSUME NEW t \in Threads, HandleStep(t) PROVE (balance' = balance /\ loaded' = loaded) \/ Walk(t)
    BY <1>4 DEF HandleStep, Walk, AlreadyHandled, WaitForParent, InsertBlock, BlockDone, ReceiveTransaction,
       InsertTransaction
  <1>5. CASE UNCHANGED vars BY <1>5 DEF vars
  <1> QED BY <1>1, <1>2, <1>3, <1>4, <1>5 DEF Next, MainStep

\* Every step of a node that does not spend keeps the balance with the chain.
LEMMA BalanceStep ==
  ASSUME Own = {}, TreeInv, CollectNew, BalanceInv, [Next]_vars
  PROVE  BalanceInv'
  <1> USE DEF network, chain, money, pool, locals
  <1>0. TypeInv /\ Shape /\ TreeOK /\ HeadLongest /\ LockInv /\ ParentEarlier /\ TxsLater
        /\ GenesisLength /\ WalkInv BY DEF TreeInv
  <1>1. head \in Block /\ up \in [Threads -> Block] /\ down \in [Threads -> Block] /\ pc \in [Threads -> Places]
        /\ blockchain[head] = "handled" /\ loaded \in [Threads -> Int] /\ balance \in Int
    BY <1>0 DEF TypeInv, TypeOK, HeadLongest
  <1>2. NoThread \notin Threads BY TinyAssumption
  <1>3. \A c \in Block : blockchain[c] = "handled" => block_value(c)' = block_value(c) /\ Value(c)' = Value(c)
    BY ValueStays
  <1>4. ValueOK /\ ValueOK'
    <2>1. TypeInv' /\ ParentEarlier' BY <1>0, TypeInvStep, ChainsStay
    <2> QED BY <1>0, <2>1, ValueHolds, ValueHoldsNext
  <1>5. /\ \A c \in Block : Value(c) \in Int /\ block_value(c) \in Int
        /\ \A c \in Block : c # Genesis => Value(c) = Value(parent[c]) + block_value(c)
        /\ \A c \in Block : Value(c)' \in Int
    BY <1>4 DEF ValueOK
  <1>6. PICK h \in Block : h = head BY <1>1
  <1>7. blockchain[h] = "handled" BY <1>1, <1>6
  <1>8. ASSUME NEW t \in Threads, lock = t
        PROVE  /\ up[t] \in Block /\ down[t] \in Block /\ blockchain[up[t]] = "handled"
               /\ blockchain[down[t]] = "handled"
               /\ pc[t] \notin {"undo", "unconfirm"} => balance = Value(down[t]) + Value(h) - Value(up[t])
               /\ pc[t] \in {"undo", "unconfirm"} =>
                    balance = Value(down[t]) + Value(h) - Value(up[t]) + block_value(up[t])
               /\ pc[t] \in {"confirm", "unconfirm"} => loaded[t] = balance
    <2>1. WalkOK(t) BY <1>0, <1>8 DEF WalkInv
    <2>2. up[t] \in Block /\ down[t] \in Block BY <1>1
    <2>3. PICK u, d \in Block : u = up[t] /\ d = down[t] BY <2>2
    <2>4. /\ pc[t] \notin {"undo", "unconfirm"} => balance = Value(d) + Value(h) - Value(u)
          /\ pc[t] \in {"undo", "unconfirm"} => balance = Value(d) + Value(h) - Value(u) + block_value(u)
          /\ pc[t] \in {"confirm", "unconfirm"} => loaded[t] = balance
      BY <1>6, <1>8, <2>3 DEF BalanceInv
    <2> QED BY <2>1, <2>2, <2>3, <2>4 DEF WalkOK
  \* To show: the balance is right for the head and the two branches of the next state.
  <1> SUFFICES ASSUME NEW k \in Block, k = head'
               PROVE  /\ lock' = NoThread => balance' = Value(k)'
                      /\ \A t \in Threads, u, d \in Block : lock' = t /\ u = up'[t] /\ d = down'[t] =>
                           /\ pc'[t] \notin {"undo", "unconfirm"} =>
                                balance' = Value(d)' + Value(k)' - Value(u)'
                           /\ pc'[t] \in {"undo", "unconfirm"} =>
                                balance' = Value(d)' + Value(k)' - Value(u)' + block_value(u)'
                           /\ pc'[t] \in {"confirm", "unconfirm"} => loaded'[t] = balance'
    BY DEF BalanceInv
  <1>9. CASE Aside /\ balance' = balance /\ loaded' = loaded
    <2>1. lock' = lock /\ k = h /\ up' = up /\ down' = down /\ \A t \in Threads : lock = t => pc'[t] = pc[t]
      BY <1>6, <1>9 DEF Aside
    <2>2. lock' = NoThread => balance' = Value(k)' BY <1>3, <1>6, <1>7, <1>9, <2>1 DEF BalanceInv
    <2>3. ASSUME NEW t \in Threads, NEW u \in Block, NEW d \in Block, lock' = t, u = up'[t], d = down'[t]
          PROVE  /\ pc'[t] \notin {"undo", "unconfirm"} => balance' = Value(d)' + Value(k)' - Value(u)'
                 /\ pc'[t] \in {"undo", "unconfirm"} =>
                      balance' = Value(d)' + Value(k)' - Value(u)' + block_value(u)'
                 /\ pc'[t] \in {"confirm", "unconfirm"} => loaded'[t] = balance'
      <3>1. lock = t /\ u = up[t] /\ d = down[t] /\ pc'[t] = pc[t] BY <2>1, <2>3
      <3>2. Value(u)' = Value(u) /\ Value(d)' = Value(d) /\ Value(k)' = Value(h) /\ block_value(u)' = block_value(u)
        BY <1>3, <1>7, <1>8, <2>1, <3>1
      <3> QED BY <1>8, <1>9, <3>1, <3>2
    <2> QED BY <2>2, <2>3
  <1>10. ASSUME NEW t \in Threads, Walk(t)
         PROVE  /\ lock' = NoThread => balance' = Value(k)'
                /\ \A u, d \in Block : lock' = t /\ u = up'[t] /\ d = down'[t] =>
                     /\ pc'[t] \notin {"undo", "unconfirm"} => balance' = Value(d)' + Value(k)' - Value(u)'
                     /\ pc'[t] \in {"undo", "unconfirm"} =>
                          balance' = Value(d)' + Value(k)' - Value(u)' + block_value(u)'
                     /\ pc'[t] \in {"confirm", "unconfirm"} => loaded'[t] = balance'
    <2>1. ASSUME NEW b \in Block, BeginUpdate(t, b)
          PROVE  /\ lock' = t /\ up'[t] = b /\ down'[t] = h /\ k = b /\ pc'[t] = "walk"
                 /\ balance' = Value(h)' + Value(b)' - Value(b)'
      <3>1. /\ lock = NoThread /\ lock' = t /\ head' = b /\ up' = [up EXCEPT ![t] = b]
            /\ down' = [down EXCEPT ![t] = head] /\ pc' = [pc EXCEPT ![t] = "walk"] /\ balance' = balance
        BY <2>1 DEF BeginUpdate, Enter, Goto
      <3>2. balance = Value(h) BY <1>6, <3>1 DEF BalanceInv
      <3>3. Value(h)' = Value(h) BY <1>3, <1>7
      <3>4. Value(b)' \in Int /\ Value(h)' \in Int BY <1>5
      <3>5. balance' = Value(h)' + Value(b)' - Value(b)' BY <3>1, <3>2, <3>3, <3>4
      <3> QED BY <1>1, <1>6, <3>1, <3>5
    <2>2. ASSUME ~(\E b \in Block : BeginUpdate(t, b))
          PROVE  lock = t /\ WalkOK(t) /\ k = h /\ Value(k)' = Value(h)
      <3>1. pc[t] \in HoldPlaces /\ head' = head
        BY <1>10, <2>2 DEF Walk, ConfirmNext, confirm, UnconfirmNext, unconfirm, EndUpdate, At, HoldPlaces
      <3> QED BY <1>0, <1>3, <1>6, <1>7, <3>1 DEF LockInv, WalkInv
    <2>3. ASSUME ConfirmNext(t) \/ UnconfirmNext(t), lock = t, k = h, Value(k)' = Value(h),
                 NEW u \in Block, NEW d \in Block, u = up'[t], d = down'[t]
          PROVE  /\ lock' # NoThread
                 /\ pc'[t] \notin {"undo", "unconfirm"} => balance' = Value(d)' + Value(k)' - Value(u)'
                 /\ pc'[t] \in {"undo", "unconfirm"} =>
                      balance' = Value(d)' + Value(k)' - Value(u)' + block_value(u)'
                 /\ pc'[t] \in {"confirm", "unconfirm"} => loaded'[t] = balance'
      <3>1. /\ lock' = lock /\ up' = up /\ down' = down /\ balance' = balance
            /\ loaded' = [loaded EXCEPT ![t] = balance]
            /\ \/ pc[t] = "walk" /\ pc' = [pc EXCEPT ![t] = "confirm"]
               \/ pc[t] = "undo" /\ pc' = [pc EXCEPT ![t] = "unconfirm"]
        BY <2>3 DEF ConfirmNext, UnconfirmNext, At, Goto
      <3>2. pc'[t] \in {"undo", "unconfirm"} <=> pc[t] \in {"undo", "unconfirm"} BY <1>1, <3>1
      <3>3. u = up[t] /\ d = down[t] /\ loaded'[t] = balance BY <1>1, <2>3, <3>1
      <3>4. Value(u)' = Value(u) /\ Value(d)' = Value(d) /\ block_value(u)' = block_value(u)
        BY <1>3, <1>8, <2>3, <3>3
      <3> QED BY <1>2, <1>8, <2>3, <3>1, <3>2, <3>3, <3>4
    <2>4. ASSUME confirm(t) \/ unconfirm(t), lock = t, WalkOK(t), k = h, Value(k)' = Value(h),
                 NEW u \in Block, NEW d \in Block, u = up'[t], d = down'[t]
          PROVE  /\ lock' # NoThread
                 /\ pc'[t] \notin {"undo", "unconfirm"} => balance' = Value(d)' + Value(k)' - Value(u)'
                 /\ pc'[t] \in {"undo", "unconfirm"} =>
                      balance' = Value(d)' + Value(k)' - Value(u)' + block_value(u)'
                 /\ pc'[t] \notin {"confirm", "unconfirm"}
      <3> DEFINE p == up[t]
                 q == down[t]
      <3>1. /\ p \in Block /\ q \in Block /\ blockchain[p] = "handled" /\ blockchain[q] = "handled"
            /\ pc[t] \in {"confirm", "unconfirm"} /\ p # q /\ loaded[t] = balance /\ lock' = lock
        BY <1>8, <2>4 DEF confirm, unconfirm, At, WalkOK
      <3>2. p # Genesis BY <1>0, <2>4, <3>1, WalkNotGenesis
      <3>3. parent[p] \in Block /\ blockchain[parent[p]] = "handled" BY <1>0, <3>1, <3>2, LongerThanGenesis
      <3>4. Value(p) = Value(parent[p]) + block_value(p) BY <1>5, <3>1, <3>2
      <3>5. CASE confirm(t)
        <4>1. /\ balance' = loaded[t] + block_value(p) /\ down' = down
              /\ \/ up' = [up EXCEPT ![t] = parent[p]] /\ pc' = [pc EXCEPT ![t] = "walk"]
                 \/ up' = up /\ pc' = [pc EXCEPT ![t] = "undo"]
              /\ pc[t] = "confirm"
          BY <3>5 DEF confirm, Goto, At
        <4>2. d = q /\ balance = Value(q) + Value(h) - Value(p) BY <1>8, <2>4, <4>1
        <4>3. Value(d)' = Value(q) BY <1>3, <3>1, <4>2
        <4>4. CASE up' = [up EXCEPT ![t] = parent[p]] /\ pc' = [pc EXCEPT ![t] = "walk"]
          <5>1. u = parent[p] /\ pc'[t] = "walk" BY <1>1, <2>4, <4>4
          <5>2. Value(u)' = Value(parent[p]) BY <1>3, <3>3, <5>1
          <5>3. balance' = Value(q) + Value(h) - Value(parent[p])
            BY <1>5, <3>1, <3>3, <3>4, <4>1, <4>2
          <5> QED BY <1>2, <2>4, <3>1, <4>3, <5>1, <5>2, <5>3
        <4>5. CASE up' = up /\ pc' = [pc EXCEPT ![t] = "undo"]
          <5>1. u = p /\ pc'[t] = "undo" BY <1>1, <2>4, <4>5
          <5>2. Value(u)' = Value(p) /\ block_value(u)' = block_value(p) BY <1>3, <3>1, <5>1
          <5>3. balance' = Value(q) + Value(h) - Value(p) + block_value(p) BY <3>1, <4>1, <4>2
          <5> QED BY <1>2, <2>4, <3>1, <4>3, <5>1, <5>2, <5>3
        <4> QED BY <4>1, <4>4, <4>5
      <3>6. CASE unconfirm(t)
        <4>1. /\ balance' = loaded[t] - block_value(q)
              /\ up' = [up EXCEPT ![t] = parent[p]] /\ pc' = [pc EXCEPT ![t] = "walk"]
              /\ down' = [down EXCEPT ![t] = parent[q]] /\ pc[t] = "unconfirm"
          BY <3>6 DEF unconfirm, Goto, At
        <4>2. u = parent[p] /\ d = parent[q] /\ pc'[t] = "walk" BY <1>1, <2>4, <4>1
        <4>3. balance = Value(q) + Value(h) - Value(p) + block_value(p) BY <1>8, <2>4, <4>1
        <4>4. q # Genesis BY <1>0, <2>4, <3>1, <4>1, WalkNotGenesis DEF WalkOK
        <4>5. parent[q] \in Block /\ blockchain[parent[q]] = "handled" BY <1>0, <3>1, <4>4, LongerThanGenesis
        <4>6. Value(q) = Value(parent[q]) + block_value(q) BY <1>5, <3>1, <4>4
        <4>7. Value(u)' = Value(parent[p]) /\ Value(d)' = Value(parent[q]) BY <1>3, <3>3, <4>2, <4>5
        <4>8. balance' = Value(parent[q]) + Value(h) - Value(parent[p])
          BY <1>5, <3>1, <3>3, <3>4, <4>1, <4>3, <4>5, <4>6
        <4> QED BY <1>2, <2>4, <3>1, <4>2, <4>7, <4>8
      <3> QED BY <2>4, <3>5, <3>6
    <2>5. ASSUME EndUpdate(t), lock = t, k = h, Value(k)' = Value(h)
          PROVE  lock' = NoThread /\ balance' = Value(k)'
      <3>1. lock' = NoThread /\ up[t] = down[t] /\ pc[t] = "walk" /\ balance' = balance
        BY <2>5 DEF EndUpdate, At
      <3>2. balance = Value(down[t]) + Value(h) - Value(up[t]) /\ up[t] \in Block BY <1>8, <2>5, <3>1
      <3> QED BY <1>5, <2>5, <3>1, <3>2
    <2>6. CASE \E b \in Block : BeginUpdate(t, b) BY <1>2, <2>1, <2>6
    <2>7. CASE ConfirmNext(t) \/ UnconfirmNext(t)
      <3>1. lock' # NoThread BY <1>2, <2>7, <1>0 DEF ConfirmNext, UnconfirmNext, At, LockInv, HoldPlaces
      <3> QED BY <2>2, <2>3, <2>6, <2>7, <3>1
    <2>8. CASE confirm(t) \/ unconfirm(t)
      <3>1. lock' # NoThread BY <1>2, <2>8, <1>0 DEF confirm, unconfirm, At, LockInv, HoldPlaces
      <3> QED BY <2>2, <2>4, <2>6, <2>8, <3>1
    <2>9. CASE EndUpdate(t) BY <1>2, <2>2, <2>5, <2>6, <2>9
    <2> QED BY <1>10, <2>6, <2>7, <2>8, <2>9 DEF Walk
  <1>11. ASSUME NEW t \in Threads, Walk(t) PROVE \A u \in Threads : lock' = u => u = t
    BY <1>0, <1>11, WalkEffect
  <1>12. CASE \E t \in Threads : Walk(t)
    <2>1. PICK t \in Threads : Walk(t) BY <1>12
    <2>2. \A u \in Threads : lock' = u => u = t BY <1>11, <2>1
    <2> QED BY <1>10, <2>1, <2>2
  <1> QED BY <1>0, <1>9, <1>12, AsideStep, MoneyStep

\* The balance of a node that does not spend is what the chain of its head brings, whenever
\* no thread is in update_head: whatever branches it took and gave up on the way.  (A node
\* that spends loses updates: `balance -= amount` does not hold blockchain_mutex.)
THEOREM BalanceIsOfChain ==
  ASSUME Own = {}
  PROVE  Spec => []BalanceOfChain
  <1>1. Init /\ TypeInv => CollectNew /\ BalanceInv
    <2> SUFFICES ASSUME Init, TypeInv PROVE CollectNew /\ BalanceInv OBVIOUS
    <2>0. Main \in Threads /\ NoThread \notin Threads BY TinyAssumption DEF Threads
    <2>1. CollectNew BY <2>0 DEF Init, CollectNew
    <2>2. ParentEarlier
      <3>1. MaxBlocks \in Nat BY TinyAssumption
      <3>2. parent = [b \in 0 .. MaxBlocks |-> 0] BY DEF Init, Block, Genesis
      <3>3. parent \in [0 .. MaxBlocks -> 0 .. MaxBlocks] /\ \A c \in 1 .. MaxBlocks : parent[c] < c BY <3>1, <3>2
      <3> QED BY <3>3, Zenon DEF ParentEarlier, Tree
    <2>3. Value(Genesis) = 0 BY <2>2, ValueHolds DEF ValueOK
    <2>4. head = Genesis /\ balance = 0 /\ lock = NoThread BY DEF Init
    <2>5. BalanceInv BY <2>0, <2>3, <2>4 DEF BalanceInv
    <2> QED BY <2>1, <2>5
  <1>2. TypeInv /\ BalanceInv => BalanceOfChain
    <2> SUFFICES ASSUME TypeInv, BalanceInv, lock = NoThread
                 PROVE  balance = MapThenSumSet(block_value, ChainOf(head)) - Cardinality(spent)
      BY DEF BalanceOfChain
    <2>1. spent = {} /\ head \in Block /\ balance \in Int BY DEF TypeInv, TypeOK
    <2>2. Cardinality(spent) = 0 BY <2>1, FS_EmptySet
    <2>3. balance = Value(head) BY <2>1 DEF BalanceInv
    <2> QED BY <2>1, <2>2, <2>3 DEF Value
  <1>3. TypeInv /\ Shape /\ ForwardInv /\ TreeInv /\ CollectNew /\ BalanceInv /\ [Next]_vars => CollectNew' /\ BalanceInv'
    BY CollectNewStep, BalanceStep
  <1>4. TreeInv => TypeInv /\ Shape BY DEF TreeInv
  <1> QED BY <1>1, <1>2, <1>3, <1>4, TreeInvInvariance, ForwardInvariance, PTL DEF Spec
===============================================================================
