------------------------------- MODULE FreeList -------------------------------
(***************************************************************************)
(* The lock-free list of free blocks of the vendored queue                 *)
(* (include/concurrentqueue.hpp, struct FreeList).  A node carries a       *)
(* reference count whose top bit says that the node ought to be on the     *)
(* list; who brings the count to zero while the bit is set puts the node   *)
(* there.  Every step is one access to an atomic variable, and the         *)
(* variables are sequentially consistent.                                  *)
(*                                                                         *)
(* The users are threads that take a node with try_get and give it back    *)
(* with add; a node that is handed out is used by one thread.              *)
(***************************************************************************)
EXTENDS Integers, FiniteSets

CONSTANTS
  Threads,               \* the threads that use the queue
  Nodes,                 \* the blocks
  Null,                  \* nullptr, and no thread
  SHOULD_BE_ON_FREELIST  \* the top bit of the 32-bit count

ASSUME FreeListAssumption ==
  /\ IsFiniteSet(Threads) /\ IsFiniteSet(Nodes)
  /\ Null \notin Nodes /\ Null \notin Threads
  /\ SHOULD_BE_ON_FREELIST \in Nat
  /\ SHOULD_BE_ON_FREELIST > Cardinality(Threads) + 1

\* The count is an unsigned integer: the flag and the references below it.
Width == 2 * SHOULD_BE_ON_FREELIST
References(r) == r % SHOULD_BE_ON_FREELIST   \* refs & REFS_MASK
FetchAdd(r, d) == (r + d) % Width

VARIABLES
  freeListHead, freeListRefs, freeListNext,
  owner,   \* who uses a node that is not free
  pc,
  head,    \* try_get's head
  node,    \* the node a thread has referenced, or adds
  top,     \* add_knowing_refcount_is_zero's head
  seen,    \* the count, or the next node, that the thread has loaded
  resume   \* whether the addition is made inside try_get

list == <<freeListHead, freeListRefs, freeListNext>>
locals == <<head, node, top, seen, resume>>
vars == <<list, owner, pc, locals>>

Places == {"idle", "reload", "refs", "incr", "next", "swing", "drop2", "drop1",
           "load", "setnext", "setrefs", "link", "retry"}

\* The list is empty; every block has been allocated, and is in use by some thread.
Init ==
  /\ freeListHead = Null
  /\ freeListRefs = [n \in Nodes |-> 0]
  /\ freeListNext = [n \in Nodes |-> Null]
  /\ owner \in [Nodes -> Threads]
  /\ pc = [t \in Threads |-> "idle"]
  /\ head = [t \in Threads |-> Null]
  /\ node = [t \in Threads |-> Null]
  /\ top = [t \in Threads |-> Null]
  /\ seen = [t \in Threads |-> Null]
  /\ resume = [t \in Threads |-> FALSE]

Goto(t, from, to) == pc[t] = from /\ pc' = [pc EXCEPT ![t] = to]

\* The thread forgets its local variables when it returns.
Return(t) ==
  /\ pc' = [pc EXCEPT ![t] = "idle"]
  /\ head' = [head EXCEPT ![t] = Null]
  /\ node' = [node EXCEPT ![t] = Null]
  /\ top' = [top EXCEPT ![t] = Null]
  /\ seen' = [seen EXCEPT ![t] = Null]
  /\ resume' = [resume EXCEPT ![t] = FALSE]

\* The test of try_get's loop, with h as its head: it goes on with h, or returns nullptr.
Loop(t, h) ==
  IF h = Null THEN Return(t)
  ELSE /\ pc' = [pc EXCEPT ![t] = "refs"]
       /\ head' = [head EXCEPT ![t] = h]
       /\ node' = [node EXCEPT ![t] = Null]
       /\ seen' = [seen EXCEPT ![t] = Null]
       /\ resume' = [resume EXCEPT ![t] = FALSE]
       /\ top' = [top EXCEPT ![t] = Null]
------------------------------------------------------------------------------
(* try_get *)

\* head = freeListHead.load(), on entry and after a failed attempt.
LoadHead(t) ==
  /\ pc[t] \in {"idle", "reload"}
  /\ Loop(t, freeListHead)
  /\ UNCHANGED <<list, owner>>

\* refs = head->freeListRefs.load(): a node without references is not on the list.
LoadRefs(t) ==
  /\ pc[t] = "refs"
  /\ LET r == freeListRefs[head[t]]
     IN  /\ pc' = [pc EXCEPT ![t] = IF References(r) = 0 THEN "reload" ELSE "incr"]
         /\ seen' = [seen EXCEPT ![t] = IF References(r) = 0 THEN Null ELSE r]
  /\ UNCHANGED <<list, owner, head, node, top, resume>>

\* The CAS from refs to refs + 1.
TakeReference(t) ==
  /\ pc[t] = "incr"
  /\ \/ /\ freeListRefs[head[t]] = seen[t]
        /\ freeListRefs' = [freeListRefs EXCEPT ![head[t]] = FetchAdd(@, 1)]
        /\ node' = [node EXCEPT ![t] = head[t]]
        /\ pc' = [pc EXCEPT ![t] = "next"]
     \/ /\ freeListRefs[head[t]] # seen[t]
        /\ pc' = [pc EXCEPT ![t] = "reload"]
        /\ UNCHANGED <<freeListRefs, node>>
  /\ seen' = [seen EXCEPT ![t] = Null]
  /\ UNCHANGED <<freeListHead, freeListNext, owner, head, top, resume>>

LoadNext(t) ==
  /\ Goto(t, "next", "swing")
  /\ seen' = [seen EXCEPT ![t] = freeListNext[head[t]]]
  /\ UNCHANGED <<list, owner, head, node, top, resume>>

\* The CAS of freeListHead from head to next; when it fails, head is the new head.
SwingHead(t) ==
  /\ pc[t] = "swing"
  /\ \/ /\ freeListHead = head[t]
        /\ freeListHead' = seen[t]
        /\ pc' = [pc EXCEPT ![t] = "drop2"]
        /\ UNCHANGED head
     \/ /\ freeListHead # head[t]
        /\ head' = [head EXCEPT ![t] = freeListHead]
        /\ pc' = [pc EXCEPT ![t] = "drop1"]
        /\ UNCHANGED freeListHead
  /\ seen' = [seen EXCEPT ![t] = Null]
  /\ UNCHANGED <<freeListRefs, freeListNext, owner, node, top, resume>>

\* Got it: the references of the thread and of the list are dropped.
TakeNode(t) ==
  /\ pc[t] = "drop2"
  /\ freeListRefs' = [freeListRefs EXCEPT ![node[t]] = FetchAdd(@, -2)]
  /\ owner' = [owner EXCEPT ![node[t]] = t]
  /\ Return(t)
  /\ UNCHANGED <<freeListHead, freeListNext>>

\* Mutant: nobody adds the node when its last reference goes.
DropReferenceOnly(t) ==
  /\ pc[t] = "drop1"
  /\ freeListRefs' = [freeListRefs EXCEPT ![node[t]] = FetchAdd(@, -1)]
  /\ Loop(t, head[t])
  /\ UNCHANGED <<freeListHead, freeListNext, owner>>

\* The head has changed: the thread's reference is dropped, and a node that was
\* to be added meanwhile is added by the one who drops its last reference.
DropReference(t) ==
  /\ pc[t] = "drop1"
  /\ freeListRefs' = [freeListRefs EXCEPT ![node[t]] = FetchAdd(@, -1)]
  /\ \/ /\ freeListRefs[node[t]] = SHOULD_BE_ON_FREELIST + 1
        /\ pc' = [pc EXCEPT ![t] = "load"]
        /\ resume' = [resume EXCEPT ![t] = TRUE]
        /\ UNCHANGED <<head, node, top, seen>>
     \/ /\ freeListRefs[node[t]] # SHOULD_BE_ON_FREELIST + 1
        /\ Loop(t, head[t])
  /\ UNCHANGED <<freeListHead, freeListNext, owner>>
------------------------------------------------------------------------------
(* add *)

\* Mutant: the node is added although somebody holds a reference.
AddUnconditionally(t, n) ==
  /\ Goto(t, "idle", "load")
  /\ owner[n] = t
  /\ owner' = [owner EXCEPT ![n] = Null]
  /\ freeListRefs' = [freeListRefs EXCEPT ![n] = FetchAdd(@, SHOULD_BE_ON_FREELIST)]
  /\ node' = [node EXCEPT ![t] = n]
  /\ UNCHANGED <<freeListHead, freeListNext, head, top, seen, resume>>

\* The bit is set; if somebody holds a reference, he will add the node.
Add(t, n) ==
  /\ pc[t] = "idle"
  /\ owner[n] = t
  /\ owner' = [owner EXCEPT ![n] = Null]
  /\ freeListRefs' = [freeListRefs EXCEPT ![n] = FetchAdd(@, SHOULD_BE_ON_FREELIST)]
  /\ \/ /\ freeListRefs[n] = 0
        /\ pc' = [pc EXCEPT ![t] = "load"]
        /\ node' = [node EXCEPT ![t] = n]
     \/ /\ freeListRefs[n] # 0
        /\ UNCHANGED <<pc, node>>
  /\ UNCHANGED <<freeListHead, freeListNext, head, top, seen, resume>>

(* add_knowing_refcount_is_zero *)

LoadTop(t) ==
  /\ Goto(t, "load", "setnext")
  /\ top' = [top EXCEPT ![t] = freeListHead]
  /\ UNCHANGED <<list, owner, head, node, seen, resume>>

StoreNext(t) ==
  /\ Goto(t, "setnext", "setrefs")
  /\ freeListNext' = [freeListNext EXCEPT ![node[t]] = top[t]]
  /\ UNCHANGED <<freeListHead, freeListRefs, owner, locals>>

StoreRefs(t) ==
  /\ Goto(t, "setrefs", "link")
  /\ freeListRefs' = [freeListRefs EXCEPT ![node[t]] = 1]
  /\ UNCHANGED <<freeListHead, freeListNext, owner, locals>>

\* add returns, or try_get goes on with the head it has seen.
Added(t) == IF resume[t] THEN Loop(t, head[t]) ELSE Return(t)

\* The CAS of freeListHead from top to the node; when it fails, top is the new head.
Link(t) ==
  /\ pc[t] = "link"
  /\ \/ /\ freeListHead = top[t]
        /\ freeListHead' = node[t]
        /\ Added(t)
     \/ /\ freeListHead # top[t]
        /\ top' = [top EXCEPT ![t] = freeListHead]
        /\ pc' = [pc EXCEPT ![t] = "retry"]
        /\ UNCHANGED <<freeListHead, head, node, seen, resume>>
  /\ UNCHANGED <<freeListRefs, freeListNext, owner>>

\* Mutant: the thread tries again although somebody has taken a reference.
GiveUpNever(t) ==
  /\ Goto(t, "retry", "setnext")
  /\ freeListRefs' = [freeListRefs EXCEPT ![node[t]] = FetchAdd(@, SHOULD_BE_ON_FREELIST - 1)]
  /\ UNCHANGED <<freeListHead, freeListNext, owner, locals>>

\* The list's reference is dropped again and the bit set: the thread tries once
\* more, or leaves the node to whoever has taken a reference.
GiveUp(t) ==
  /\ pc[t] = "retry"
  /\ freeListRefs' = [freeListRefs EXCEPT ![node[t]] = FetchAdd(@, SHOULD_BE_ON_FREELIST - 1)]
  /\ \/ /\ freeListRefs[node[t]] = 1
        /\ pc' = [pc EXCEPT ![t] = "setnext"]
        /\ UNCHANGED locals
     \/ /\ freeListRefs[node[t]] # 1
        /\ Added(t)
  /\ UNCHANGED <<freeListHead, freeListNext, owner>>

Step(t) ==
  \/ LoadHead(t) \/ LoadRefs(t) \/ TakeReference(t) \/ LoadNext(t) \/ SwingHead(t)
  \/ TakeNode(t) \/ DropReference(t)
  \/ \E n \in Nodes : Add(t, n)
  \/ LoadTop(t) \/ StoreNext(t) \/ StoreRefs(t) \/ Link(t) \/ GiveUp(t)

Next == \E t \in Threads : Step(t)

Spec == Init /\ [][Next]_vars

\* Some thread runs; any other may be delayed for ever.
FairSpec == Spec /\ WF_vars(Next)
------------------------------------------------------------------------------
(* Properties. *)

\* The nodes reached from x: those that are in every set that holds x and, with a
\* node, the next one.
Closed(next, S) == \A n \in S : next[n] # Null => next[n] \in S
Reach(next, x) ==
  {n \in Nodes : \A S \in SUBSET Nodes : Closed(next, S) /\ (x # Null => x \in S) => n \in S}

Listed == Reach(freeListNext, freeListHead)

\* Threads that hold a reference taken in try_get, and threads that are adding a node.
Referencing(n) == {t \in Threads : node[t] = n /\ pc[t] \in {"next", "swing", "drop2", "drop1"}}
Taking(n)      == {t \in Threads : node[t] = n /\ pc[t] = "drop2"}
Adding(n)      == {t \in Threads : node[t] = n /\ pc[t] \in {"load", "setnext", "setrefs", "link", "retry"}}
Linked(n)      == {t \in Adding(n) : pc[t] \in {"link", "retry"}}

\* A block in use is in nobody else's hands: it is not on the list, no try_get
\* is about to return it and nobody adds it; and only one try_get returns it.
Exclusive ==
  \A n \in Nodes :
    /\ owner[n] # Null => n \notin Listed /\ Taking(n) = {} /\ Adding(n) = {}
    /\ n \in Listed => Taking(n) = {}
    /\ Cardinality(Taking(n)) + Cardinality(Adding(n)) <= 1

\* No free block is lost: it is on the list, or a try_get is about to return it,
\* or somebody is adding it, or it is flagged and somebody holds a reference, and
\* will add it when he drops it.  For that the count below the flag has to be exact:
\* one for each reference and one for the list, from the moment the node is made ready
\* for it; "shouldBeOnFreeList must be false no matter the refcount" when try_get
\* returns the node, which it asserts.
NoneLost ==
  \A n \in Nodes :
    /\ owner[n] = Null =>
         \/ n \in Listed \/ Taking(n) # {} \/ Adding(n) # {}
         \/ freeListRefs[n] >= SHOULD_BE_ON_FREELIST /\ Referencing(n) # {}
    /\ Taking(n) # {} => freeListRefs[n] < SHOULD_BE_ON_FREELIST
    /\ References(freeListRefs[n]) =
         Cardinality(Referencing(n))
           + (IF n \in Listed \/ Taking(n) # {} \/ Linked(n) # {} THEN 1 ELSE 0)

\* The list is lock-free: whatever threads are delayed, operations complete for ever.
LockFree == []<><<\E t \in Threads : pc[t] # "idle" /\ pc'[t] = "idle">>_vars
==============================================================================
