------------------------ MODULE HardwareManagerProofs ------------------------
(***************************************************************************)
(* Proofs about HardwareManager, for every number of workers and nodes,    *)
(* every batch size and every subset of the operations.                    *)
(***************************************************************************)
EXTENDS HardwareManager, FiniteSetTheorems, TLAPS

\* Main is inside pause(), fail or add_node exactly at its places there, with a
\* node id as argument.
CallInv ==
  /\ mpc \in {"spin", "locked", "unlock"} <=> call # "none"
  /\ call \in {"fail", "add_node", "emplace"} => arg \in NodeId

TypeInv == TypeOK /\ CallInv

\* Node::enqueue adds exactly one message, delayed or not.
LEMMA EnqueueAddsOne ==
  ASSUME NEW q \in Queue, NEW d \in BOOLEAN
  PROVE  enqueue(q, d) \in Queue /\ Size(enqueue(q, d)) = Size(q) + 1
BY DEF Queue, enqueue, Size

\* handle_one_message takes exactly one message out of the two queues.
LEMMA TakeRemovesOne ==
  ASSUME NEW q \in Queue, HasMessage(q)
  PROVE  TakeMessage(q) \in Queue /\ Size(TakeMessage(q)) = Size(q) - 1
<1>1. CASE q.messages > 0
  BY <1>1 DEF Queue, TakeMessage, Size
<1>2. CASE ~(q.messages > 0) /\ q.ripe > 0
  BY <1>2 DEF Queue, TakeMessage, Size
<1> QED
  BY <1>1, <1>2 DEF HasMessage

\* The passing of a delivery instant moves no message between nodes.
LEMMA RipenKeepsSize ==
  ASSUME NEW q \in Queue, q.later > 0
  PROVE  Ripen(q) \in Queue /\ Size(Ripen(q)) = Size(q)
BY DEF Queue, Ripen, Size

\* A new node has no messages.
LEMMA EmptyQueueSize == EmptyQueue \in Queue /\ Size(EmptyQueue) = 0
BY DEF Queue, EmptyQueue, Size

\* A node holds a natural number of messages.
LEMMA SizeIsNat == \A q \in Queue : Size(q) \in Nat
BY DEF Queue, Size

\* Every step of a thread or of the clock keeps the type invariant and what is
\* known of Main's current call.
LEMMA TypeInvStep == TypeInv /\ [Next]_vars => TypeInv'
<1> SUFFICES ASSUME TypeInv, [Next]_vars PROVE TypeInv'
  OBVIOUS
<1> USE ManagerAssumption
    DEF TypeInv, TypeOK, CallInv, vars, pool, work, worker, main, history, At, MainAt, Call, Goto,
        WorkerPlaces, MainPlaces, Threads
<1>1. ASSUME NEW w \in Workers, StartWorker(w) PROVE TypeInv'
  BY <1>1 DEF StartWorker
<1>2. ASSUME NEW w \in Workers, DequeueFails(w) PROVE TypeInv'
  BY <1>2 DEF DequeueFails
<1>3. ASSUME NEW w \in Workers, EndNap(w) PROVE TypeInv'
  BY <1>3 DEF EndNap
<1>4. ASSUME NEW w \in Workers, Lookup(w) PROVE TypeInv'
  BY <1>4 DEF Lookup
<1>5. ASSUME NEW w \in Workers, BatchIsFull(w) PROVE TypeInv'
  BY <1>5 DEF BatchIsFull
<1>6. ASSUME NEW w \in Workers, TakeOne(w) PROVE TypeInv'
  BY <1>6, TakeRemovesOne DEF TakeOne
<1>7. ASSUME NEW w \in Workers, NotYet(w) PROVE TypeInv'
  BY <1>7 DEF NotYet
<1>8. ASSUME NEW w \in Workers, Drained(w) PROVE TypeInv'
  BY <1>8 DEF Drained
<1>9. ASSUME NEW w \in Workers, Requeue(w) PROVE TypeInv'
  BY <1>9 DEF Requeue
<1>10. ASSUME NEW w \in Workers, HandlerReturns(w) PROVE TypeInv'
  BY <1>10 DEF HandlerReturns
<1>11. ASSUME NEW w \in Workers, HandlerThrows(w) PROVE TypeInv'
  BY <1>11 DEF HandlerThrows
<1>12. ASSUME NEW w \in Workers, UseDestroyedNode(w) PROVE TypeInv'
  BY <1>12 DEF UseDestroyedNode
<1>13. ASSUME NEW w \in Workers, CheckPausing(w) PROVE TypeInv'
  BY <1>13 DEF CheckPausing
<1>14. ASSUME NEW w \in Workers, LeavePool(w) PROVE TypeInv'
  BY <1>14 DEF LeavePool
<1>15. ASSUME NEW w \in Workers, SeeResumed(w) PROVE TypeInv'
  BY <1>15 DEF SeeResumed
<1>16. ASSUME NEW w \in Workers, RejoinPool(w) PROVE TypeInv'
  BY <1>16 DEF RejoinPool
<1>17. ASSUME NEW w \in Workers, RaceOnMap(w) PROVE TypeInv'
  BY <1>17 DEF RaceOnMap
<1>18. ASSUME NEW w \in Workers, NEW n \in NodeId, Dequeue(w, n) PROVE TypeInv'
  BY <1>18 DEF Dequeue
<1>19. ASSUME NEW w \in Workers, NEW n \in NodeId, HandlerSends(w, n) PROVE TypeInv'
  BY <1>19, EnqueueAddsOne DEF HandlerSends, SendMessage
<1>20. ASSUME NEW t \in Threads, PublishToken(t) PROVE TypeInv'
  <2>1. dest[t] \in NodeId
    BY <1>20 DEF PublishToken
  <2>2. nodes_queue' \in [NodeId -> Nat] /\ dest' \in [Threads -> NodeId \cup {NoNode}]
    BY <1>20, <2>1 DEF PublishToken
  <2> QED
    BY <1>20, <2>2 DEF PublishToken
<1>21. ASSUME NEW n \in NodeId, Tick(n) PROVE TypeInv'
  BY <1>21, RipenKeepsSize DEF Tick
<1>22. ASSUME Run PROVE TypeInv'
  <2>1. pc' \in [Workers -> WorkerPlaces] /\ stopping' \in BOOLEAN /\ pausing' \in BOOLEAN
    BY <1>22 DEF Run
  <2>2. runs' \in Nat
    BY <1>22 DEF Run
  <2>3. UNCHANGED <<running_threads, cur, num, work, mpc, call, arg, fault, history>>
    BY <1>22 DEF Run
  <2> QED
    BY <2>1, <2>2, <2>3
<1>23. ASSUME MainReturns PROVE TypeInv'
  BY <1>23 DEF MainReturns
<1>24. ASSUME PauseReturns PROVE TypeInv'
  BY <1>24 DEF PauseReturns
<1>25. ASSUME Erase PROVE TypeInv'
  <2>1. arg \in NodeId /\ Size(queue[arg]) \in Nat
    BY <1>25, SizeIsNat DEF Erase
  <2> QED
    BY <1>25, <2>1, EmptyQueueSize DEF Erase
<1>26. ASSUME Emplace PROVE TypeInv'
  BY <1>26 DEF Emplace
<1>27. ASSUME Unlock PROVE TypeInv'
  BY <1>27 DEF Unlock
<1>28. ASSUME Resume PROVE TypeInv'
  BY <1>28 DEF Resume
<1>29. ASSUME Stop PROVE TypeInv'
  BY <1>29 DEF Stop
<1>30. ASSUME StopReturns PROVE TypeInv'
  BY <1>30 DEF StopReturns
<1>31. ASSUME Pause PROVE TypeInv'
  BY <1>31 DEF Pause, BeginPause
<1>32. ASSUME NEW n \in NodeId, GenMessage(n) PROVE TypeInv'
  BY <1>32 DEF GenMessage
<1>33. ASSUME NEW n \in NodeId, MainSends(n) PROVE TypeInv'
  BY <1>33, EnqueueAddsOne DEF MainSends, SendMessage
<1>34. ASSUME NEW n \in NodeId, Fail(n) PROVE TypeInv'
  BY <1>34 DEF Fail, BeginPause
<1>35. ASSUME NEW n \in NodeId, AddNode(n) PROVE TypeInv'
  BY <1>35 DEF AddNode, BeginPause
<1>36. CASE UNCHANGED vars
  BY <1>36
<1> QED
  BY <1>1, <1>2, <1>3, <1>4, <1>5, <1>6, <1>7, <1>8, <1>9, <1>10, <1>11, <1>12, <1>13, <1>14, <1>15, <1>16, <1>17, <1>18, <1>19, <1>20, <1>21, <1>22, <1>23, <1>24, <1>25, <1>26, <1>27, <1>28, <1>29, <1>30, <1>31, <1>32, <1>33, <1>34, <1>35, <1>36 DEF Next, WorkerStep, MainStep, MainContinues

\* The inductive invariant behind every theorem below: the types, and that the
\* argument of the call Main is in is a node id.
LEMMA TypeInvariance == Spec => []TypeInv
<1>1. Init => TypeInv
  <2> SUFFICES ASSUME Init PROVE TypeInv
    OBVIOUS
  <2>1. stopping \in BOOLEAN /\ pausing \in BOOLEAN
    BY DEF Init
  <2>2. /\ queue \in [NodeId -> Queue] /\ nodes_queue \in [NodeId -> Nat]
        /\ pc \in [Workers -> WorkerPlaces] /\ cur \in [Workers -> NodeId \cup {NoNode}]
        /\ num \in [Workers -> Nat] /\ dest \in [Threads -> NodeId \cup {NoNode}]
    BY EmptyQueueSize DEF Init, WorkerPlaces
  <2>3. /\ queued_messages = 0 /\ all_messages = 0 /\ running_threads = 0 /\ runs = 0
        /\ nodes \subseteq NodeId
        /\ mpc = "ready" /\ call = "none" /\ arg = NoNode /\ fault = "none"
        /\ lost = 0 /\ late = {} /\ leftover = {}
    BY ManagerAssumption DEF Init
  <2> QED
    BY <2>1, <2>2, <2>3 DEF TypeInv, TypeOK, CallInv, MainPlaces
<1> QED
  BY <1>1, TypeInvStep, PTL DEF Spec

\* The engine's state keeps its types, whatever the protocol and Main do.
THEOREM TypeCorrect == Spec => []TypeOK
BY TypeInvariance, PTL DEF TypeInv

\* The counted workers are finitely many.
LEMMA CountedType == Counted \subseteq Workers /\ IsFiniteSet(Counted) /\ Cardinality(Counted) \in Nat
BY ManagerAssumption, FS_Subset, FS_CardinalityType DEF Counted

\* Only the increments and the decrement of workerfun change running_threads;
\* no other step makes a worker counted (run() starts from joined threads).
LEMMA CountedFrame ==
  ASSUME TypeInv, [Next]_vars
  PROVE  \/ Counted' \subseteq Counted /\ running_threads' = running_threads
         \/ \E w \in Workers : StartWorker(w) \/ LeavePool(w) \/ RejoinPool(w)
<1> DEFINE Frame == Counted' \subseteq Counted /\ running_threads' = running_threads
<1> USE DEF TypeInv, TypeOK, pool, work, worker, main, history, At, MainAt, Call, Goto, Counted
<1>1. ASSUME NEW w \in Workers,
             DequeueFails(w) \/ EndNap(w) \/ Lookup(w) \/ BatchIsFull(w) \/ TakeOne(w)
             \/ NotYet(w) \/ Drained(w) \/ Requeue(w)
      PROVE  Frame
  BY <1>1 DEF DequeueFails, EndNap, Lookup, BatchIsFull, TakeOne, NotYet, Drained, Requeue
<1>2. ASSUME NEW w \in Workers,
             HandlerReturns(w) \/ HandlerThrows(w) \/ UseDestroyedNode(w) \/ CheckPausing(w)
             \/ SeeResumed(w) \/ RaceOnMap(w)
      PROVE  Frame
  BY <1>2 DEF HandlerReturns, HandlerThrows, UseDestroyedNode, CheckPausing, SeeResumed, RaceOnMap
<1>3. ASSUME NEW w \in Workers, NEW n \in NodeId, Dequeue(w, n) \/ HandlerSends(w, n)
      PROVE  Frame
  BY <1>3 DEF Dequeue, HandlerSends
<1>4. ASSUME NEW t \in Threads, PublishToken(t) PROVE Frame
  BY <1>4 DEF PublishToken
<1>5. ASSUME NEW n \in NodeId,
             Tick(n) \/ GenMessage(n) \/ MainSends(n) \/ Fail(n) \/ AddNode(n)
      PROVE  Frame
  BY <1>5 DEF Tick, GenMessage, MainSends, Fail, AddNode, BeginPause
<1>6. CASE Run
  BY <1>6 DEF Run, AllOff
<1>7. ASSUME MainReturns \/ PauseReturns \/ Erase \/ Emplace \/ Unlock \/ StopReturns
             \/ Pause \/ Resume \/ Stop
      PROVE  Frame
  BY <1>7 DEF MainReturns, PauseReturns, Erase, Emplace, Unlock, StopReturns, Pause,
              BeginPause, Resume, Stop
<1>8. CASE UNCHANGED vars
  BY <1>8 DEF vars
<1> QED
  BY <1>1, <1>2, <1>3, <1>4, <1>5, <1>6, <1>7, <1>8
  DEF Next, WorkerStep, MainStep, MainContinues, Threads

\* A set with at most one element more than S has at most one more in number.
LEMMA AddOne ==
  ASSUME NEW S, NEW T, NEW x, IsFiniteSet(S), T \subseteq S \cup {x}
  PROVE  IsFiniteSet(T) /\ Cardinality(T) <= Cardinality(S) + 1
<1>1. /\ IsFiniteSet(S \cup {x})
      /\ \/ Cardinality(S \cup {x}) = Cardinality(S)
         \/ Cardinality(S \cup {x}) = Cardinality(S) + 1
  BY FS_AddElement
<1>2. IsFiniteSet(T) /\ Cardinality(T) <= Cardinality(S \cup {x})
  BY <1>1, FS_Subset
<1>3. Cardinality(S) \in Nat /\ Cardinality(T) \in Nat
  BY <1>2, FS_CardinalityType
<1> QED
  BY <1>1, <1>2, <1>3

\* A set without an element of S has at least one less in number.
LEMMA DropOne ==
  ASSUME NEW S, NEW T, NEW x, IsFiniteSet(S), x \in S, T \subseteq S \ {x}
  PROVE  IsFiniteSet(T) /\ Cardinality(T) <= Cardinality(S) - 1
<1>1. IsFiniteSet(S \ {x}) /\ Cardinality(S \ {x}) = Cardinality(S) - 1
  BY FS_RemoveElement
<1> QED
  BY <1>1, FS_Subset, FS_CardinalityType

\* Every step keeps running_threads at or above the number of counted workers.
LEMMA RunningCoversStep ==
  ASSUME TypeInv, RunningCovers, [Next]_vars
  PROVE  RunningCovers'
<1>1. CASE Counted' \subseteq Counted /\ running_threads' = running_threads
  <2>1. Cardinality(Counted') \in Nat /\ Cardinality(Counted') <= Cardinality(Counted)
    BY <1>1, CountedType, FS_Subset, FS_CardinalityType
  <2> QED
    BY <1>1, <2>1, CountedType DEF RunningCovers, TypeInv, TypeOK
<1>2. ASSUME NEW w \in Workers, StartWorker(w) \/ RejoinPool(w) PROVE RunningCovers'
  <2>1. Counted' \subseteq Counted \cup {w} /\ running_threads' = running_threads + 1
    BY <1>2 DEF StartWorker, RejoinPool, TypeInv, TypeOK, Goto, Counted
  <2>2. Cardinality(Counted') \in Nat /\ Cardinality(Counted') <= Cardinality(Counted) + 1
    BY <2>1, CountedType, AddOne, FS_CardinalityType
  <2> QED
    BY <2>1, <2>2, CountedType DEF RunningCovers, TypeInv, TypeOK
<1>3. ASSUME NEW w \in Workers, LeavePool(w) PROVE RunningCovers'
  <2>1. w \in Counted /\ Counted' \subseteq Counted \ {w} /\ running_threads' = running_threads - 1
    BY <1>3 DEF LeavePool, TypeInv, TypeOK, At, Goto, Counted
  <2>2. Cardinality(Counted') \in Nat /\ Cardinality(Counted') <= Cardinality(Counted) - 1
    BY <2>1, CountedType, DropOne, FS_CardinalityType
  <2> QED
    BY <2>1, <2>2, CountedType DEF RunningCovers, TypeInv, TypeOK
<1> QED
  BY <1>1, <1>2, <1>3, CountedFrame

\* running_threads covers the workers that may touch nodes, for any number of
\* workers and nodes: RunningCovers is inductive given the types.
THEOREM RunningThreadsCover == Spec => []RunningCovers
<1>1. Init => RunningCovers
  <2> SUFFICES ASSUME Init PROVE RunningCovers
    OBVIOUS
  <2>1. Counted = {}
    BY DEF Init, Counted
  <2> QED
    BY <2>1, FS_EmptySet DEF Init, RunningCovers
<1> QED
  BY <1>1, TypeInvariance, RunningCoversStep, PTL DEF Spec

\* The step that leaves the spin loop of pause() is taken when no worker looks
\* up or uses a node: running_threads = 0 leaves no counted worker.
THEOREM PauseGateHolds == Spec => PauseGate
<1> DEFINE Gate == mpc = "spin" /\ (mpc' # "spin" \/ call' # call)
                  => \A w \in Workers : pc[w] \notin HasPointer \cup {"lookup"}
<1>1. TypeInv /\ RunningCovers /\ [Next]_vars => [Gate]_vars
  <2> SUFFICES ASSUME TypeInv, RunningCovers, [Next]_vars,
                      mpc = "spin", mpc' # "spin" \/ call' # call
               PROVE  \A w \in Workers : pc[w] \notin HasPointer \cup {"lookup"}
    OBVIOUS
  <2>1. PauseReturns
    <3> USE DEF vars, pool, work, worker, main, history, At, MainAt, Call
    <3>1. ASSUME NEW w \in Workers, WorkerStep(w) PROVE UNCHANGED main
      BY <3>1 DEF WorkerStep, StartWorker, DequeueFails, EndNap, Lookup, Dequeue, HandlerSends,
        BatchIsFull, TakeOne, NotYet, Drained, Requeue, HandlerReturns, HandlerThrows,
        UseDestroyedNode, CheckPausing, LeavePool, SeeResumed, RejoinPool, PublishToken
    <3>2. ASSUME NEW n \in NodeId, Tick(n) PROVE UNCHANGED main
      BY <3>2 DEF Tick
    <3>3. CASE MainStep
      BY <3>3 DEF MainStep, MainContinues, Run, Pause, Resume, Stop, GenMessage, MainSends,
        Fail, AddNode, MainReturns, Erase, Emplace, Unlock, StopReturns, RaceOnMap, PublishToken
    <3> QED
      BY <3>1, <3>2, <3>3 DEF Next
  <2>2. Counted = {}
    BY <2>1, CountedType, FS_EmptySet DEF PauseReturns, RunningCovers, TypeInv, TypeOK
  <2> QED
    BY <2>2 DEF Counted, HasPointer
<1> QED
  BY <1>1, TypeInvariance, RunningThreadsCover, PTL DEF Spec, PauseGate

\* A set of threads is finite.
LEMMA ThreadSets ==
  ASSUME NEW S, S \subseteq Threads
  PROVE  IsFiniteSet(S) /\ Cardinality(S) \in Nat
<1>1. IsFiniteSet(Threads)
  BY ManagerAssumption, FS_AddElement DEF Threads
<1> QED
  BY <1>1, FS_Subset, FS_CardinalityType

\* The threads that hold or carry a token of n are finitely many, before and
\* after a step.
LEMMA HoldersType ==
  ASSUME NEW n
  PROVE  /\ Holders(n) \subseteq Threads /\ Holders(n)' \subseteq Threads
         /\ Carriers(n) \subseteq Threads /\ Carriers(n)' \subseteq Threads
         /\ Cardinality(Holders(n)) \in Nat /\ Cardinality(Holders(n)') \in Nat
         /\ Cardinality(Carriers(n)) \in Nat /\ Cardinality(Carriers(n)') \in Nat
<1>1. /\ Holders(n) \subseteq Threads /\ Holders(n)' \subseteq Threads
      /\ Carriers(n) \subseteq Threads /\ Carriers(n)' \subseteq Threads
  BY DEF Holders, Carriers, Threads
<1> QED
  BY <1>1, ThreadSets

\* A step that takes nothing away from what covers n.
Frame(n) ==
  /\ Size(queue'[n]) <= Size(queue[n])
  /\ nodes_queue'[n] = nodes_queue[n]
  /\ Holders(n) \subseteq Holders(n)'
  /\ Carriers(n) \subseteq Carriers(n)'

\* A step that takes nothing from what covers n keeps n covered.
LEMMA FrameCovers ==
  ASSUME TypeInv, TypeInv', TokenCover, NEW n \in NodeId, Frame(n)
  PROVE  Covered(n)'
<1>1. /\ Cardinality(Holders(n)) <= Cardinality(Holders(n)')
      /\ Cardinality(Carriers(n)) <= Cardinality(Carriers(n)')
  BY HoldersType, ThreadSets, FS_Subset DEF Frame
<1>2. /\ Size(queue[n]) \in Nat /\ Size(queue'[n]) \in Nat
      /\ nodes_queue[n] \in Nat
  BY SizeIsNat DEF TypeInv, TypeOK
<1>3. Covered(n)
  BY DEF TokenCover
<1> QED
  BY <1>1, <1>2, <1>3, HoldersType DEF Frame, Covered

\* All steps are such steps, but for the moves of one message or one token.
LEMMA QuietFrame ==
  ASSUME TypeInv, [Next]_vars, NEW n \in NodeId
  PROVE  \/ Frame(n)
         \/ \E w \in Workers : \/ TakeOne(w) \/ Drained(w) \/ Requeue(w)
                              \/ \E m \in NodeId : Dequeue(w, m) \/ HandlerSends(w, m)
         \/ \E t \in Threads : PublishToken(t)
         \/ \E m \in NodeId : MainSends(m)
         \/ Erase
<1> USE ManagerAssumption
    DEF TypeInv, TypeOK, pool, work, worker, main, history, At, MainAt, Call, Goto
<1>0. Size(queue[n]) \in Nat
  BY SizeIsNat
<1>1. ASSUME NEW w \in Workers,
             StartWorker(w) \/ DequeueFails(w) \/ EndNap(w) \/ Lookup(w) \/ BatchIsFull(w)
             \/ NotYet(w)
      PROVE  Frame(n)
  BY <1>0, <1>1 DEF StartWorker, DequeueFails, EndNap, Lookup, BatchIsFull, NotYet,
    Frame, Holders, Carriers
<1>2. ASSUME NEW w \in Workers,
             HandlerReturns(w) \/ HandlerThrows(w) \/ UseDestroyedNode(w) \/ CheckPausing(w)
             \/ SeeResumed(w) \/ RaceOnMap(w) \/ LeavePool(w) \/ RejoinPool(w)
      PROVE  Frame(n)
  BY <1>0, <1>2 DEF HandlerReturns, HandlerThrows, UseDestroyedNode, CheckPausing, SeeResumed,
    RaceOnMap, LeavePool, RejoinPool, Frame, Holders, Carriers
<1>3. ASSUME NEW m \in NodeId, Tick(m) PROVE Frame(n)
  <2>1. Size(queue'[n]) = Size(queue[n])
    BY <1>3, RipenKeepsSize DEF Tick
  <2> QED
    BY <1>0, <1>3, <2>1 DEF Tick, Frame, Holders, Carriers
<1>4. ASSUME NEW m \in NodeId, GenMessage(m) \/ Fail(m) \/ AddNode(m) PROVE Frame(n)
  BY <1>0, <1>4 DEF GenMessage, Fail, AddNode, BeginPause, Frame, Holders, Carriers
<1>5. CASE Run
  BY <1>0, <1>5 DEF Run, AllOff, Frame, Holders, Carriers
<1>6. ASSUME MainReturns \/ PauseReturns \/ Emplace \/ Unlock \/ StopReturns
             \/ Pause \/ Resume \/ Stop
      PROVE  Frame(n)
  BY <1>0, <1>6 DEF MainReturns, PauseReturns, Emplace, Unlock, StopReturns, Pause,
    BeginPause, Resume, Stop, Frame, Holders, Carriers
<1>7. CASE UNCHANGED vars
  BY <1>0, <1>7 DEF vars, Frame, Holders, Carriers
<1> QED
  BY <1>1, <1>2, <1>3, <1>4, <1>5, <1>6, <1>7
  DEF Next, WorkerStep, MainStep, MainContinues, Threads


\* A set with an element more than S has at least one more in number.
LEMMA GrowOne ==
  ASSUME NEW S, NEW T, NEW x, IsFiniteSet(T), x \notin S, S \cup {x} \subseteq T
  PROVE  Cardinality(S) + 1 <= Cardinality(T)
<1>1. IsFiniteSet(S) /\ IsFiniteSet(S \cup {x}) /\ Cardinality(S \cup {x}) <= Cardinality(T)
  BY FS_Subset
<1> QED
  BY <1>1, FS_AddElement

\* A step that moves one message or one token of n keeps the balance when what
\* it takes away is put somewhere else.
LEMMA MoveCovers ==
  ASSUME TypeInv, TypeInv', TokenCover, NEW n \in NodeId,
         LET loss == nodes_queue[n] + Cardinality(Holders(n)) + Cardinality(Carriers(n))
             gain == nodes_queue'[n] + Cardinality(Holders(n)') + Cardinality(Carriers(n)')
         IN  Size(queue'[n]) - Size(queue[n]) <= gain - loss
  PROVE  Covered(n)'
<1>1. Covered(n)
  BY DEF TokenCover
<1>2. /\ Size(queue[n]) \in Nat /\ Size(queue'[n]) \in Nat
      /\ nodes_queue[n] \in Nat /\ nodes_queue'[n] \in Nat
  BY SizeIsNat DEF TypeInv, TypeOK
<1> QED
  BY <1>1, <1>2, HoldersType DEF Covered

\* The first half of send_message adds a message and a thread carrying its token.
LEMMA SendCovers ==
  ASSUME TypeInv, TypeInv', TokenCover, NEW n \in NodeId,
         NEW t \in Threads, NEW from, NEW to \in NodeId, SendMessage(t, from, to),
         UNCHANGED <<pc, cur, num>>
  PROVE  Covered(n)'
<1>0. nodes_queue'[n] = nodes_queue[n] /\ nodes_queue[n] \in Nat /\ Size(queue[n]) \in Nat
  BY SizeIsNat DEF SendMessage, TypeInv, TypeOK
<1>1. Holders(n)' = Holders(n)
  BY DEF Holders
<1>2. CASE n = to
  <2>1. Size(queue'[n]) = Size(queue[n]) + 1
    BY <1>2, EnqueueAddsOne DEF SendMessage, TypeInv, TypeOK
  <2>2. t \notin Carriers(n) /\ Carriers(n) \cup {t} \subseteq Carriers(n)'
    BY <1>2, ManagerAssumption DEF SendMessage, TypeInv, TypeOK, Carriers
  <2>3. Cardinality(Carriers(n)) + 1 <= Cardinality(Carriers(n)')
    BY <2>2, GrowOne, HoldersType, ThreadSets
  <2> QED
    BY <1>0, <1>1, <2>1, <2>3, HoldersType, MoveCovers
<1>3. CASE n # to
  <2>1. Frame(n)
    BY <1>0, <1>1, <1>3, ManagerAssumption DEF SendMessage, TypeInv, TypeOK, Frame, Carriers
  <2> QED
    BY <2>1, FrameCovers
<1> QED
  BY <1>2, <1>3

\* Every step keeps the messages of n covered.
LEMMA TokenCoverStep ==
  ASSUME TypeInv, TypeInv', TokenCover, [Next]_vars, NEW n \in NodeId
  PROVE  Covered(n)'
<1> USE ManagerAssumption DEF TypeInv, TypeOK, At, MainAt, Goto, pool, work, worker, main, history
<1>0. /\ Size(queue[n]) \in Nat /\ Size(queue'[n]) \in Nat
      /\ nodes_queue[n] \in Nat /\ nodes_queue'[n] \in Nat
  BY SizeIsNat
<1>1. ASSUME NEW w \in Workers, NEW m \in NodeId, Dequeue(w, m) PROVE Covered(n)'
  <2>1. Size(queue'[n]) = Size(queue[n]) /\ Carriers(n)' = Carriers(n)
    BY <1>1 DEF Dequeue, Carriers
  <2>2. CASE n = m
    <3>1. nodes_queue'[n] = nodes_queue[n] - 1
      BY <1>1, <2>2 DEF Dequeue
    <3>2. w \notin Holders(n) /\ Holders(n) \cup {w} \subseteq Holders(n)'
      BY <1>1, <2>2 DEF Dequeue, Holders
    <3>3. Cardinality(Holders(n)) + 1 <= Cardinality(Holders(n)')
      BY <3>2, GrowOne, HoldersType, ThreadSets
    <3> QED
      BY <1>0, <2>1, <3>1, <3>3, HoldersType, MoveCovers
  <2>3. CASE n # m
    <3>1. Frame(n)
      BY <1>0, <1>1, <2>1, <2>3 DEF Dequeue, Frame, Holders
    <3> QED
      BY <3>1, FrameCovers
  <2> QED
    BY <2>2, <2>3
<1>2. ASSUME NEW w \in Workers, TakeOne(w) PROVE Covered(n)'
  <2>1. nodes_queue'[n] = nodes_queue[n] /\ Carriers(n)' = Carriers(n)
    BY <1>2 DEF TakeOne, Carriers
  <2>2. CASE n = cur[w]
    <3>1. Size(queue'[n]) = Size(queue[n]) - 1
      BY <1>2, <2>2, TakeRemovesOne DEF TakeOne
    <3>2. Holders(n) \subseteq Holders(n)' \cup {w}
      BY <1>2, <2>2 DEF TakeOne, Holders
    <3>3. Cardinality(Holders(n)) <= Cardinality(Holders(n)') + 1
      BY <3>2, AddOne, HoldersType, ThreadSets
    <3> QED
      BY <1>0, <2>1, <3>1, <3>3, HoldersType, MoveCovers
  <2>3. CASE n # cur[w]
    <3>1. Frame(n)
      BY <1>0, <1>2, <2>1, <2>3 DEF TakeOne, Frame, Holders
    <3> QED
      BY <3>1, FrameCovers
  <2> QED
    BY <2>2, <2>3
<1>3. ASSUME NEW w \in Workers, Drained(w) PROVE Covered(n)'
  <2>1. CASE n = cur[w]
    <3>1. Size(queue'[n]) = 0
      BY <1>3, <2>1 DEF Drained
    <3> QED
      BY <1>0, <3>1, HoldersType DEF Covered
  <2>2. CASE n # cur[w]
    <3>1. Frame(n)
      BY <1>0, <1>3, <2>2 DEF Drained, Frame, Holders, Carriers
    <3> QED
      BY <3>1, FrameCovers
  <2> QED
    BY <2>1, <2>2
<1>4. ASSUME NEW w \in Workers, Requeue(w) PROVE Covered(n)'
  <2>1. Size(queue'[n]) = Size(queue[n]) /\ Carriers(n)' = Carriers(n)
    BY <1>4 DEF Requeue, Carriers
  <2>2. CASE n = cur[w]
    <3>1. nodes_queue'[n] = nodes_queue[n] + 1
      BY <1>4, <2>2 DEF Requeue
    <3>2. Holders(n) \subseteq Holders(n)' \cup {w}
      BY <1>4, <2>2 DEF Requeue, Holders
    <3>3. Cardinality(Holders(n)) <= Cardinality(Holders(n)') + 1
      BY <3>2, AddOne, HoldersType, ThreadSets
    <3> QED
      BY <1>0, <2>1, <3>1, <3>3, HoldersType, MoveCovers
  <2>3. CASE n # cur[w]
    <3>1. Frame(n)
      BY <1>0, <1>4, <2>1, <2>3 DEF Requeue, Frame, Holders
    <3> QED
      BY <3>1, FrameCovers
  <2> QED
    BY <2>2, <2>3
<1>5. ASSUME NEW t \in Threads, PublishToken(t) PROVE Covered(n)'
  <2>1. Size(queue'[n]) = Size(queue[n]) /\ Holders(n)' = Holders(n)
    BY <1>5 DEF PublishToken, Holders
  <2>2. CASE n = dest[t]
    <3>1. nodes_queue'[n] = nodes_queue[n] + 1
      BY <1>5, <2>2 DEF PublishToken
    <3>2. Carriers(n) \subseteq Carriers(n)' \cup {t}
      BY <1>5 DEF PublishToken, Carriers
    <3>3. Cardinality(Carriers(n)) <= Cardinality(Carriers(n)') + 1
      BY <3>2, AddOne, HoldersType, ThreadSets
    <3> QED
      BY <1>0, <2>1, <3>1, <3>3, HoldersType, MoveCovers
  <2>3. CASE n # dest[t]
    <3>1. Frame(n)
      BY <1>0, <1>5, <2>1, <2>3 DEF PublishToken, Frame, Carriers
    <3> QED
      BY <3>1, FrameCovers
  <2> QED
    BY <2>2, <2>3
<1>6. ASSUME NEW w \in Workers, NEW m \in NodeId, HandlerSends(w, m) PROVE Covered(n)'
  BY <1>6, SendCovers DEF HandlerSends, Threads
<1>7. ASSUME NEW m \in NodeId, MainSends(m) PROVE Covered(n)'
  BY <1>7, SendCovers DEF MainSends, Threads
<1>8. CASE Erase
  <2>1. CASE n = arg
    <3>1. Size(queue'[n]) = 0
      BY <1>8, <2>1, EmptyQueueSize DEF Erase
    <3> QED
      BY <1>0, <3>1, HoldersType DEF Covered
  <2>2. CASE n # arg
    <3>1. Frame(n)
      BY <1>0, <1>8, <2>2 DEF Erase, Frame, Holders, Carriers
    <3> QED
      BY <3>1, FrameCovers
  <2> QED
    BY <2>1, <2>2
<1> QED
  BY <1>1, <1>2, <1>3, <1>4, <1>5, <1>6, <1>7, <1>8, QuietFrame, FrameCovers

\* No message is stranded without a token, for any number of workers and nodes,
\* any batch size, handlers that throw and nodes that fail.
THEOREM TokensCoverMessages == Spec => []TokenCover
<1>1. Init => TokenCover
  <2> SUFFICES ASSUME Init, NEW n \in NodeId PROVE Covered(n)
    BY DEF TokenCover
  <2>1. Size(queue[n]) = 0 /\ nodes_queue[n] = 0
    BY EmptyQueueSize DEF Init
  <2> QED
    BY <2>1, HoldersType DEF Covered
<1>2. TypeInv /\ TypeInv' /\ TokenCover /\ [Next]_vars => TokenCover'
  BY TokenCoverStep DEF TokenCover
<1> QED
  BY <1>1, <1>2, TypeInvariance, PTL DEF Spec

\* QueuedCounter with the finiteness its cardinality needs.
CounterInv ==
  /\ IsFiniteSet(HeldMessages)
  /\ QueuedCounter

\* The messages held, as a set of pairs.
LEMMA HeldMembers ==
  ASSUME TypeInv
  PROVE  HeldMessages = {e \in NodeId \X Nat : e[2] \in 1 .. Size(queue[e[1]])}
BY SizeIsNat DEF HeldMessages, TypeInv, TypeOK

\* Only a send, a take and the erasing of a node change the number of messages
\* or queued_messages.
LEMMA SameSizes ==
  ASSUME TypeInv, [Next]_vars
  PROVE  \/ /\ \A n \in NodeId : Size(queue'[n]) = Size(queue[n])
            /\ UNCHANGED <<queued_messages, lost>>
         \/ \E t \in Threads, to \in NodeId : \E from : SendMessage(t, from, to) /\ UNCHANGED lost
         \/ \E w \in Workers : TakeOne(w) /\ UNCHANGED lost
         \/ Erase
<1> DEFINE Same == /\ \A n \in NodeId : Size(queue'[n]) = Size(queue[n])
                   /\ UNCHANGED <<queued_messages, lost>>
<1> USE DEF pool, work, worker, main, history
<1>1. ASSUME NEW w \in Workers,
             StartWorker(w) \/ DequeueFails(w) \/ EndNap(w) \/ Lookup(w) \/ BatchIsFull(w)
             \/ NotYet(w) \/ Drained(w) \/ Requeue(w) \/ HandlerReturns(w) \/ HandlerThrows(w)
             \/ UseDestroyedNode(w) \/ CheckPausing(w) \/ SeeResumed(w) \/ RaceOnMap(w)
             \/ LeavePool(w) \/ RejoinPool(w)
      PROVE  Same
  BY <1>1 DEF StartWorker, DequeueFails, EndNap, Lookup, BatchIsFull, NotYet, Drained, Requeue,
    HandlerReturns, HandlerThrows, UseDestroyedNode, CheckPausing, SeeResumed, RaceOnMap,
    LeavePool, RejoinPool
<1>2. ASSUME NEW w \in Workers, NEW m \in NodeId, Dequeue(w, m) PROVE Same
  BY <1>2 DEF Dequeue
<1>3. ASSUME NEW t \in Threads, PublishToken(t) PROVE Same
  BY <1>3 DEF PublishToken
<1>4. ASSUME NEW m \in NodeId, Tick(m) PROVE Same
  BY <1>4, RipenKeepsSize DEF Tick, TypeInv, TypeOK
<1>5. ASSUME NEW m \in NodeId, GenMessage(m) \/ Fail(m) \/ AddNode(m) PROVE Same
  BY <1>5 DEF GenMessage, Fail, AddNode, BeginPause
<1>6. ASSUME Run \/ MainReturns \/ PauseReturns \/ Emplace \/ Unlock \/ StopReturns
             \/ Pause \/ Resume \/ Stop
      PROVE  Same
  BY <1>6 DEF Run, MainReturns, PauseReturns, Emplace, Unlock, StopReturns, Pause,
    BeginPause, Resume, Stop
<1>7. CASE UNCHANGED vars
  BY <1>7 DEF vars
<1>8. ASSUME NEW w \in Workers, NEW m \in NodeId, HandlerSends(w, m)
      PROVE  \E t \in Threads, to \in NodeId : \E from : SendMessage(t, from, to) /\ UNCHANGED lost
  BY <1>8 DEF HandlerSends, Threads
<1>9. ASSUME NEW m \in NodeId, MainSends(m)
      PROVE  \E t \in Threads, to \in NodeId : \E from : SendMessage(t, from, to) /\ UNCHANGED lost
  BY <1>9 DEF MainSends, Threads
<1>10. ASSUME NEW w \in Workers, TakeOne(w) PROVE UNCHANGED lost
  BY <1>10 DEF TakeOne
<1> QED
  BY <1>1, <1>2, <1>3, <1>4, <1>5, <1>6, <1>7, <1>8, <1>9, <1>10
  DEF Next, WorkerStep, MainStep, MainContinues, Threads

\* The messages of one node, as pairs.
LEMMA PairsOfOne ==
  ASSUME NEW n, NEW k \in Nat
  PROVE  IsFiniteSet({n} \X (1 .. k)) /\ Cardinality({n} \X (1 .. k)) = k
<1>1. IsFiniteSet(1 .. k) /\ Cardinality(1 .. k) = k
  BY FS_Interval
<1>2. IsFiniteSet({n}) /\ Cardinality({n}) = 1
  BY FS_Singleton
<1> QED
  BY <1>1, <1>2, FS_Product

\* Every step keeps queued_messages at the number of messages held and destroyed.
LEMMA CounterStep ==
  ASSUME TypeInv, TypeInv', CounterInv, [Next]_vars
  PROVE  CounterInv'
<1>0. /\ HeldMessages = {e \in NodeId \X Nat : e[2] \in 1 .. Size(queue[e[1]])}
      /\ HeldMessages' = {e \in NodeId \X Nat : e[2] \in 1 .. Size(queue'[e[1]])}
  BY HeldMembers, SizeIsNat DEF HeldMessages, TypeInv, TypeOK
<1>1. /\ Cardinality(HeldMessages) \in Nat /\ queued_messages \in Int
      /\ \A n \in NodeId : Size(queue[n]) \in Nat /\ Size(queue'[n]) \in Nat
  BY FS_CardinalityType, SizeIsNat DEF CounterInv, TypeInv, TypeOK
<1>2. CASE /\ \A n \in NodeId : Size(queue'[n]) = Size(queue[n])
           /\ UNCHANGED <<queued_messages, lost>>
  <2>1. HeldMessages' = HeldMessages
    BY <1>0, <1>2
  <2> QED
    BY <1>2, <2>1 DEF CounterInv, QueuedCounter
<1>3. ASSUME NEW t \in Threads, NEW to \in NodeId, NEW from, SendMessage(t, from, to),
             UNCHANGED lost
      PROVE  CounterInv'
  <2> DEFINE e == <<to, Size(queue[to]) + 1>>
  <2>1. \A n \in NodeId :
          Size(queue'[n]) = IF n = to THEN Size(queue[n]) + 1 ELSE Size(queue[n])
    BY <1>3, EnqueueAddsOne DEF SendMessage, TypeInv, TypeOK
  <2>2. e \notin HeldMessages /\ HeldMessages' = HeldMessages \cup {e}
    BY <1>0, <1>1, <2>1
  <2>3. IsFiniteSet(HeldMessages') /\ Cardinality(HeldMessages') = Cardinality(HeldMessages) + 1
    BY <2>2, FS_AddElement DEF CounterInv
  <2> QED
    BY <1>1, <1>3, <2>3 DEF SendMessage, CounterInv, QueuedCounter, TypeInv, TypeOK
<1>4. ASSUME NEW w \in Workers, TakeOne(w), UNCHANGED lost PROVE CounterInv'
  <2> DEFINE e == <<cur[w], Size(queue[cur[w]])>>
  <2>1. cur[w] \in NodeId
    BY <1>4 DEF TakeOne, TypeInv, TypeOK
  <2>2. \A n \in NodeId :
          Size(queue'[n]) = IF n = cur[w] THEN Size(queue[n]) - 1 ELSE Size(queue[n])
    BY <1>4, TakeRemovesOne DEF TakeOne, TypeInv, TypeOK
  <2>3. e \in HeldMessages /\ HeldMessages' = HeldMessages \ {e}
    BY <1>0, <1>1, <2>1, <2>2
  <2>4. IsFiniteSet(HeldMessages') /\ Cardinality(HeldMessages') = Cardinality(HeldMessages) - 1
    BY <2>3, FS_RemoveElement DEF CounterInv
  <2> QED
    BY <1>1, <1>4, <2>4 DEF TakeOne, CounterInv, QueuedCounter, TypeInv, TypeOK
<1>5. CASE Erase
  <2> DEFINE gone == {arg} \X (1 .. Size(queue[arg]))
  <2>1. arg \in NodeId
    BY <1>5 DEF Erase, TypeInv, CallInv
  <2>2. \A n \in NodeId : Size(queue'[n]) = IF n = arg THEN 0 ELSE Size(queue[n])
    BY <1>5, EmptyQueueSize DEF Erase, TypeInv, TypeOK
  <2>3. gone \subseteq HeldMessages /\ HeldMessages' = HeldMessages \ gone
    BY <1>0, <1>1, <2>1, <2>2
  <2>4. IsFiniteSet(gone) /\ Cardinality(gone) = Size(queue[arg])
    BY <1>1, <2>1, PairsOfOne
  <2>5. /\ IsFiniteSet(HeldMessages')
        /\ Cardinality(HeldMessages') = Cardinality(HeldMessages) - Size(queue[arg])
    <3>1. HeldMessages \cap gone = gone
      BY <2>3
    <3>2. /\ IsFiniteSet(HeldMessages \ gone)
          /\ Cardinality(HeldMessages \ gone)
               = Cardinality(HeldMessages) - Cardinality(HeldMessages \cap gone)
      BY FS_Difference DEF CounterInv
    <3> QED
      BY <2>3, <2>4, <3>1, <3>2
  <2>6. queued_messages' = queued_messages /\ lost' = lost + Size(queue[arg]) /\ lost \in Nat
    BY <1>5 DEF Erase, TypeInv, TypeOK
  <2> QED
    BY <1>1, <2>1, <2>5, <2>6 DEF CounterInv, QueuedCounter
<1> QED
  BY <1>2, <1>3, <1>4, <1>5, SameSizes

\* queued_messages is the number of messages in the queues and of those destroyed
\* by fail(), for any number of threads and nodes and whatever Main calls.
THEOREM CounterExact == Spec => []QueuedCounter
<1>1. Init => CounterInv
  <2> SUFFICES ASSUME Init PROVE CounterInv
    OBVIOUS
  <2>1. HeldMessages = {}
    BY EmptyQueueSize DEF Init, HeldMessages
  <2> QED
    BY <2>1, FS_EmptySet DEF Init, CounterInv, QueuedCounter
<1>2. TypeInv /\ TypeInv' /\ CounterInv /\ [Next]_vars => CounterInv'
  BY CounterStep
<1>3. CounterInv => QueuedCounter
  BY DEF CounterInv
<1> QED
  BY <1>1, <1>2, <1>3, TypeInvariance, PTL DEF Spec

------------------------------------------------------------------------------
(* How the process dies. *)

\* An absent id is under way only if it was when its node was erased.
LeftoverInv ==
  /\ \A n \in NodeId : UnderWay(n) => n \in nodes \cup leftover
  /\ leftover \cap nodes = {}

\* While Main holds a run_lock the pool is paused, and a worker that is neither in the
\* pause nor gone is a late one.
LockInv ==
  /\ mpc \in {"spin", "locked", "unlock"} => pausing
  /\ mpc \in {"locked", "unlock"} =>
       \A w \in Workers : pc[w] \notin {"wait", "off"} => w \in late
  /\ mpc = "locked" => call \in {"fail", "emplace"}

\* A worker has an id to look up, and then a pointer to a node of the map, unless it
\* is late and the node has been destroyed.
DanglingInv ==
  \A w \in Workers :
    /\ pc[w] = "lookup" => cur[w] \in NodeId
    /\ pc[w] \in HasPointer => cur[w] \in nodes \/ (cur[w] = NoNode /\ w \in late)

DeathInv == LeftoverInv /\ LockInv /\ DanglingInv /\ FaultsExplained

\* The steps of a worker but sends and dequeues, which bring no id under way.
LEMMA DeathWorkerStep ==
  ASSUME TypeInv, DeathInv, NEW w \in Workers,
         \/ StartWorker(w) \/ DequeueFails(w) \/ EndNap(w) \/ Lookup(w) \/ BatchIsFull(w)
         \/ TakeOne(w) \/ NotYet(w) \/ Drained(w) \/ HandlerReturns(w)
         \/ HandlerThrows(w) \/ UseDestroyedNode(w) \/ CheckPausing(w) \/ LeavePool(w)
         \/ SeeResumed(w) \/ RejoinPool(w) \/ RaceOnMap(w)
  PROVE  DeathInv'
<1> USE DEF TypeInv, TypeOK, DeathInv, LockInv, DanglingInv, FaultsExplained, HasPointer,
        pool, work, worker, main, history, At, MainAt, Goto
<1>0. \A n : UnderWay(n)' => UnderWay(n)
  BY DEF UnderWay, StartWorker, DequeueFails, EndNap, Lookup, BatchIsFull, TakeOne, NotYet, Drained,
     HandlerReturns, HandlerThrows, UseDestroyedNode, CheckPausing, LeavePool, SeeResumed,
     RejoinPool, RaceOnMap
<1>1. UNCHANGED <<nodes, leftover>>
  BY DEF StartWorker, DequeueFails, EndNap, Lookup, BatchIsFull, TakeOne, NotYet, Drained,
     HandlerReturns, HandlerThrows, UseDestroyedNode, CheckPausing, LeavePool, SeeResumed,
     RejoinPool, RaceOnMap
<1>2. LeftoverInv'
  BY <1>0, <1>1 DEF LeftoverInv
<1>3. CASE Lookup(w)
  <2>1. cur[w] \in NodeId => UnderWay(cur[w])
    BY <1>3 DEF Lookup, UnderWay
  <2> QED
    BY <1>2, <1>3, <2>1, ManagerAssumption DEF Lookup, LeftoverInv
<1>4. CASE StartWorker(w) \/ DequeueFails(w) \/ EndNap(w) \/ BatchIsFull(w) \/ TakeOne(w)
           \/ NotYet(w) \/ Drained(w)
  BY <1>2, <1>4 DEF StartWorker, DequeueFails, EndNap, BatchIsFull, TakeOne, NotYet, Drained
<1>5. CASE HandlerReturns(w) \/ HandlerThrows(w) \/ CheckPausing(w) \/ LeavePool(w)
           \/ SeeResumed(w) \/ RejoinPool(w)
  BY <1>2, <1>5 DEF HandlerReturns, HandlerThrows, CheckPausing, LeavePool, SeeResumed, RejoinPool
<1>6. CASE UseDestroyedNode(w) \/ RaceOnMap(w)
  BY <1>2, <1>6, ManagerAssumption DEF UseDestroyedNode, RaceOnMap
<1> QED
  BY <1>3, <1>4, <1>5, <1>6

\* Every step keeps the explanation of how the process dies.
LEMMA DeathStep ==
  ASSUME TypeInv, RunningCovers, DeathInv, [Next]_vars
  PROVE  DeathInv'
<1> USE ManagerAssumption
    DEF TypeInv, TypeOK, CallInv, DeathInv, LeftoverInv, LockInv, DanglingInv, FaultsExplained,
        HasPointer, UnderWay, vars, pool, work, worker, main, history, At, MainAt, Call, Goto, Threads
<1>1. ASSUME NEW w \in Workers, NEW n \in NodeId, Dequeue(w, n) PROVE DeathInv'
  BY <1>1 DEF Dequeue
<1>2. ASSUME NEW w \in Workers, Requeue(w) PROVE DeathInv'
  BY <1>2 DEF Requeue
<1>3. ASSUME NEW t \in Threads, NEW from, NEW to \in NodeId, SendMessage(t, from, to),
             UNCHANGED <<pool, worker, main, fault>>
      PROVE  DeathInv'
  BY <1>3 DEF SendMessage
<1>4. ASSUME NEW t \in Threads, PublishToken(t) PROVE DeathInv'
  BY <1>4 DEF PublishToken
<1>5. ASSUME NEW n \in NodeId, Tick(n) \/ GenMessage(n) \/ Fail(n) \/ AddNode(n) PROVE DeathInv'
  BY <1>5 DEF Tick, GenMessage, Fail, AddNode, BeginPause
<1>6. CASE Run
  BY <1>6 DEF Run
<1>7. CASE MainReturns \/ Unlock \/ StopReturns \/ Pause \/ Resume \/ Stop
  BY <1>7 DEF MainReturns, Unlock, StopReturns, Pause, BeginPause, Resume, Stop
<1>8. CASE PauseReturns
  <2>1. Counted = {}
    BY <1>8, CountedType, FS_EmptySet DEF PauseReturns, RunningCovers
  <2>2. \A w \in Workers : pc[w] \in {"start", "inc", "wait", "off"}
    BY <2>1 DEF Counted, WorkerPlaces
  <2> QED
    BY <1>8, <2>2 DEF PauseReturns
<1>9. CASE Erase
  BY <1>9 DEF Erase
<1>10. CASE Emplace
  BY <1>10 DEF Emplace
<1>11. CASE UNCHANGED vars
  BY <1>11
<1> QED
  BY <1>1, <1>2, <1>3, <1>4, <1>5, <1>6, <1>7, <1>8, <1>9, <1>10, <1>11, DeathWorkerStep
  DEF Next, WorkerStep, MainStep, MainContinues, HandlerSends, MainSends

\* The process dies only in the ways that FaultsExplained names, for any number of
\* workers, nodes and messages and whatever Main calls.
THEOREM DeathsExplained == Spec => []FaultsExplained
<1>1. Init => DeathInv
  BY ManagerAssumption DEF Init, DeathInv, LeftoverInv, LockInv, DanglingInv, FaultsExplained,
     UnderWay, HasPointer, Threads
<1>2. TypeInv /\ RunningCovers /\ DeathInv /\ [Next]_vars => DeathInv'
  BY DeathStep
<1>3. DeathInv => FaultsExplained
  BY DEF DeathInv
<1> QED
  BY <1>1, <1>2, <1>3, TypeInvariance, RunningThreadsCover, PTL DEF Spec
==============================================================================
