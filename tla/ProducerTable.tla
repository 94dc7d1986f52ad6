---------------------------- MODULE ProducerTable -----------------------------
(***************************************************************************)
(* How a thread finds its producer in the vendored queue                   *)
(* (include/concurrentqueue.hpp, get_or_add_implicit_producer): a lock-    *)
(* free hash table from threads to producers that is enlarged by adding a  *)
(* larger table in front of the old ones, and the lock-free list of        *)
(* producers.  A thread that is found in an old table is copied to the     *)
(* newest.  The build has no thread_local, so producers are never recycled.*)
(*                                                                         *)
(* A step is one access to what other threads write.  Probing is part of   *)
(* one: a slot that is taken stays taken, and only the thread itself       *)
(* inserts its id, so what it finds does not depend on the others.         *)
(***************************************************************************)
EXTENDS Integers, Sequences, FiniteSets

CONSTANTS
  Threads,
  Hash,         \* the hash of a thread's id
  InitialSize,  \* INITIAL_IMPLICIT_PRODUCER_HASH_SIZE
  MaxFailures,  \* bound: allocations that fail
  MaxTables,    \* bound: tables
  NoThread      \* invalid_thread_id

\* bound: a table is enlarged by one of these factors, which is enough for MaxThreads - 1 threads
Doublings == {2, 4, 8, 16, 32, 64, 128, 256, 512, 1024}
MaxThreads == 512

ASSUME ProducerTableAssumption ==
  /\ IsFiniteSet(Threads) /\ NoThread \notin Threads /\ Cardinality(Threads) < MaxThreads
  /\ Hash \in [Threads -> Nat]
  /\ InitialSize \in {1} \cup Doublings
  /\ MaxFailures \in Nat /\ MaxTables \in Nat \ {0}

\* Producers are numbered in the order of their creation; 0 is nullptr.
MaxProducers == Cardinality(Threads) + 1
Producers == 1 .. MaxProducers

VARIABLES
  tables,        \* the hash tables, implicitProducerHash last and prev before it
  implicitProducerHashCount,
  implicitProducerHashResizeInProgress,
  producerListTail, producerCount,
  next,          \* of each producer
  owner,         \* the thread a producer was created for
  failures,
  pc,
  mainHash,      \* the table a thread works with,
  newCount,      \*   its count,
  producer,      \*   and the producer it creates or copies
  ret            \* what its last call returned

list   == <<producerListTail, producerCount, next, owner>>
table  == <<tables, implicitProducerHashCount, implicitProducerHashResizeInProgress>>
locals == <<mainHash, newCount, producer>>
vars   == <<table, list, failures, pc, locals, ret>>

EmptyTable(n) == [i \in 0 .. n - 1 |-> [key |-> NoThread, value |-> 0]]
Capacity(h) == Cardinality(DOMAIN tables[h])

\* populate_initial_implicit_producer_hash, and the constructor's empty list.
Init ==
  /\ tables = <<EmptyTable(InitialSize)>>
  /\ implicitProducerHashCount = 0
  /\ implicitProducerHashResizeInProgress = FALSE
  /\ producerListTail = 0
  /\ producerCount = 0
  /\ next = [p \in Producers |-> 0]
  /\ owner = <<>>
  /\ failures = 0
  /\ pc = [t \in Threads |-> "idle"]
  /\ mainHash = [t \in Threads |-> 0]
  /\ newCount = [t \in Threads |-> 0]
  /\ producer = [t \in Threads |-> 0]
  /\ ret = [t \in Threads |-> 0]

Goto(t, from, to) == pc[t] = from /\ pc' = [pc EXCEPT ![t] = to]

\* The call returns p.
Return(t, p) ==
  /\ pc' = [pc EXCEPT ![t] = "idle"]
  /\ mainHash' = [mainHash EXCEPT ![t] = 0]
  /\ newCount' = [newCount EXCEPT ![t] = 0]
  /\ producer' = [producer EXCEPT ![t] = 0]
  /\ ret' = [ret EXCEPT ![t] = p]

\* The i-th slot that is probed for t in table h.
Probe(h, t, i) == (Hash[t] + i) % Capacity(h)

\* The slot where the probing for t ends in table h: the first that is empty, or
\* holds t when t is looked for.
Stop(h, t, keys) ==
  LET ends == {i \in 0 .. Capacity(h) - 1 : tables[h][Probe(h, t, i)].key \in keys}
  IN  Probe(h, t, CHOOSE i \in ends : \A j \in ends : i <= j)

\* The thread puts itself and its producer into the first empty slot of table h.
Insert(h, t, p) ==
  tables' = [tables EXCEPT ![h][Stop(h, t, {NoThread})] = [key |-> t, value |-> p]]
------------------------------------------------------------------------------
\* Mutant: the older tables are not searched.
HoldingNewest(t) == {h \in {Len(tables)} : tables[h][Stop(h, t, {t, NoThread})].key = t}

\* The tables in which the thread finds its id.
Holding(t) == {h \in DOMAIN tables : tables[h][Stop(h, t, {t, NoThread})].key = t}

\* The newest table is loaded, and the thread looks for its id in it and in the
\* older ones.
Begin(t) ==
  /\ pc[t] = "idle"
  /\ \/ /\ Holding(t) = {}
        /\ pc' = [pc EXCEPT ![t] = "count"]
        /\ mainHash' = [mainHash EXCEPT ![t] = Len(tables)]
        /\ UNCHANGED <<newCount, producer, ret>>
     \/ \E h \in Holding(t) :
          /\ \A g \in Holding(t) : g <= h
          /\ LET p == tables[h][Stop(h, t, {t})].value
             IN  \/ /\ h = Len(tables)
                    /\ Return(t, p)
                 \/ /\ h < Len(tables)
                    /\ pc' = [pc EXCEPT ![t] = "copy"]
                    /\ mainHash' = [mainHash EXCEPT ![t] = Len(tables)]
                    /\ producer' = [producer EXCEPT ![t] = p]
                    /\ UNCHANGED <<newCount, ret>>
  /\ UNCHANGED <<table, list, failures>>

\* Found in an old table: the thread is added to the one it started with.
Copy(t) ==
  /\ pc[t] = "copy"
  /\ Insert(mainHash[t], t, producer[t])
  /\ Return(t, producer[t])
  /\ UNCHANGED <<implicitProducerHashCount, implicitProducerHashResizeInProgress, list, failures>>

AddCount(t) ==
  /\ Goto(t, "count", "resize")
  /\ implicitProducerHashCount' = implicitProducerHashCount + 1
  /\ newCount' = [newCount EXCEPT ![t] = implicitProducerHashCount + 1]
  /\ UNCHANGED <<tables, implicitProducerHashResizeInProgress, list, failures, mainHash, producer, ret>>

Half(n) == n \div 2
ThreeQuarters(n) == (n \div 2) + (n \div 4)

\* A table that is half full is enlarged by the thread that sets the flag.
TryResize(t) ==
  /\ pc[t] = "resize"
  /\ \/ /\ newCount[t] >= Half(Capacity(mainHash[t])) /\ ~implicitProducerHashResizeInProgress
        /\ implicitProducerHashResizeInProgress' = TRUE
        /\ pc' = [pc EXCEPT ![t] = "locked"]
     \/ /\ newCount[t] < Half(Capacity(mainHash[t])) \/ implicitProducerHashResizeInProgress
        /\ pc' = [pc EXCEPT ![t] = "room"]
        /\ UNCHANGED implicitProducerHashResizeInProgress
  /\ UNCHANGED <<tables, implicitProducerHashCount, list, failures, locals, ret>>

\* The table is loaded again: it may have been enlarged meanwhile.
Reload(t) ==
  /\ Goto(t, "locked", IF newCount[t] >= Half(Capacity(Len(tables))) THEN "grow" ELSE "clear")
  /\ mainHash' = [mainHash EXCEPT ![t] = Len(tables)]
  /\ UNCHANGED <<table, list, failures, newCount, producer, ret>>

\* The capacity is doubled until the count is less than half of it.
NewCapacity(n, count) ==
  LET fits == {f \in Doublings : count < Half(n * f)}
  IN  n * (CHOOSE f \in fits : \A g \in fits : f <= g)

Grow(t) ==
  /\ Goto(t, "grow", "clear")
  /\ Len(tables) < MaxTables
  /\ tables' = Append(tables, EmptyTable(NewCapacity(Capacity(mainHash[t]), newCount[t])))
  /\ mainHash' = [mainHash EXCEPT ![t] = Len(tables) + 1]
  /\ UNCHANGED <<implicitProducerHashCount, implicitProducerHashResizeInProgress, list, failures,
                 newCount, producer, ret>>

ClearFlag(t) ==
  /\ Goto(t, "clear", "room")
  /\ implicitProducerHashResizeInProgress' = FALSE
  /\ UNCHANGED <<tables, implicitProducerHashCount, list, failures, locals, ret>>

\* There is no memory for the table: the thread is not counted,
GrowFails(t) ==
  /\ Goto(t, "grow", "abandon")
  /\ failures < MaxFailures
  /\ failures' = failures + 1
  /\ implicitProducerHashCount' = implicitProducerHashCount - 1
  /\ UNCHANGED <<tables, implicitProducerHashResizeInProgress, list, locals, ret>>

\* Mutant: the flag stays set when there is no memory for the table.
AbandonLocked(t) ==
  /\ pc[t] = "abandon"
  /\ Return(t, 0)
  /\ UNCHANGED <<table, list, failures>>

\* the flag is cleared, and the call returns nullptr.
Abandon(t) ==
  /\ pc[t] = "abandon"
  /\ implicitProducerHashResizeInProgress' = FALSE
  /\ Return(t, 0)
  /\ UNCHANGED <<tables, implicitProducerHashCount, list, failures>>

\* Mutant: the table is filled to the last slot.
RoomToTheLast(t) ==
  /\ pc[t] = "room"
  /\ \/ /\ newCount[t] <= Capacity(mainHash[t])
        /\ pc' = [pc EXCEPT ![t] = "create"]
        /\ UNCHANGED mainHash
     \/ /\ newCount[t] > Capacity(mainHash[t])
        /\ pc' = [pc EXCEPT ![t] = "resize"]
        /\ mainHash' = [mainHash EXCEPT ![t] = Len(tables)]
  /\ UNCHANGED <<table, list, failures, newCount, producer, ret>>

\* A table that is less than three quarters full takes the thread; otherwise it
\* waits for the thread that is allocating.
Room(t) ==
  /\ pc[t] = "room"
  /\ \/ /\ newCount[t] < ThreeQuarters(Capacity(mainHash[t]))
        /\ pc' = [pc EXCEPT ![t] = "create"]
        /\ UNCHANGED mainHash
     \/ /\ newCount[t] >= ThreeQuarters(Capacity(mainHash[t]))
        /\ pc' = [pc EXCEPT ![t] = "resize"]
        /\ mainHash' = [mainHash EXCEPT ![t] = Len(tables)]
  /\ UNCHANGED <<table, list, failures, newCount, producer, ret>>

\* recycle_or_create_producer finds no inactive producer and creates one;
\* add_producer counts it, lets it point to the last one,
Create(t) ==
  /\ Goto(t, "create", "link")
  /\ Len(owner) < MaxProducers
  /\ owner' = Append(owner, t)
  /\ producerCount' = producerCount + 1
  /\ producer' = [producer EXCEPT ![t] = Len(owner) + 1]
  /\ next' = [next EXCEPT ![Len(owner) + 1] = producerListTail]
  /\ UNCHANGED <<table, producerListTail, failures, mainHash, newCount, ret>>

CreateFails(t) ==
  /\ pc[t] = "create"
  /\ failures < MaxFailures
  /\ failures' = failures + 1
  /\ implicitProducerHashCount' = implicitProducerHashCount - 1
  /\ Return(t, 0)
  /\ UNCHANGED <<tables, implicitProducerHashResizeInProgress, list>>

\* Mutant: the producer becomes the last one whoever is last.
LinkBlindly(t) ==
  /\ Goto(t, "link", "insert")
  /\ producerListTail' = producer[t]
  /\ UNCHANGED <<table, producerCount, next, owner, failures, locals, ret>>

\* and makes it the last one, if that has not changed.
Link(t) ==
  /\ pc[t] = "link"
  /\ \/ /\ producerListTail = next[producer[t]]
        /\ producerListTail' = producer[t]
        /\ pc' = [pc EXCEPT ![t] = "insert"]
        /\ UNCHANGED next
     \/ /\ producerListTail # next[producer[t]]
        /\ next' = [next EXCEPT ![producer[t]] = producerListTail]
        /\ UNCHANGED <<producerListTail, pc>>
  /\ UNCHANGED <<table, producerCount, owner, failures, locals, ret>>

\* The thread inserts its producer into the table it has decided for.
InsertProducer(t) ==
  /\ pc[t] = "insert"
  /\ Insert(mainHash[t], t, producer[t])
  /\ Return(t, producer[t])
  /\ UNCHANGED <<implicitProducerHashCount, implicitProducerHashResizeInProgress, list, failures>>

Step(t) ==
  \/ Copy(t) \/ AddCount(t) \/ TryResize(t) \/ Reload(t) \/ Grow(t)
  \/ ClearFlag(t) \/ GrowFails(t) \/ Abandon(t) \/ Room(t) \/ Create(t) \/ CreateFails(t)
  \/ Link(t) \/ InsertProducer(t)

Next == \E t \in Threads : Begin(t) \/ Step(t)

Spec == Init /\ [][Next]_vars

\* A call that has begun is executed.
FairSpec == Spec /\ \A t \in Threads : WF_vars(Step(t))
------------------------------------------------------------------------------
(* Properties. *)

\* "at least one slot is free in the hash table": no probing runs in circles, and
\* a thread that is copied to the newest table finds room.
FreeSlot == \A h \in DOMAIN tables : \E i \in DOMAIN tables[h] : tables[h][i].key = NoThread

\* A set of producers that has the last one, and the next one of each of its own.
Closed(S) ==
  /\ producerListTail # 0 => producerListTail \in S
  /\ \A p \in S : next[p] # 0 => next[p] \in S

\* The producers that try_dequeue meets, from the last one.
Reached == {p \in Producers : \A S \in SUBSET Producers : Closed(S) => p \in S}

\* No producer is lost from the list: all are on it but those being linked, and no
\* thread has two of them.
ListComplete ==
  /\ \A p, q \in DOMAIN owner : owner[p] = owner[q] => p = q
  /\ producerCount = Len(owner)
  /\ Reached = {p \in DOMAIN owner : ~\E t \in Threads : pc[t] = "link" /\ producer[t] = p}

\* Once a thread has got its producer, every call returns it; in particular none
\* fails, so the order in which a thread enqueues is the order of one producer.
SameProducer == [][\A t \in Threads : ret[t] # 0 => ret'[t] = ret[t]]_vars

\* Every call returns: a thread that waits for a larger table gets it, or allocates
\* it itself when the allocating thread has failed.
CallsEnd == \A t \in Threads : pc[t] # "idle" ~> pc[t] = "idle"
==============================================================================
