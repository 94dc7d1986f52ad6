--------------------------- MODULE HardwareManager ---------------------------
(***************************************************************************)
(* The simulator's engine: include/hardware_manager.hpp with the queues of *)
(* include/node.hpp.  A pool of worker threads takes node ids (tokens)     *)
(* from `nodes_queue` and lets the named node handle its messages; a       *)
(* controlling thread, Main, calls the public operations.  The atomic      *)
(* steps are the accesses to shared state: one atomic variable, one        *)
(* critical section of a node's mutex, one operation of the lock-free      *)
(* queue.                                                                  *)
(*                                                                         *)
(* What a protocol does in handle_message and start_message is left open:  *)
(* it sends any number of messages to any nodes, and returns or throws.    *)
(* A message the link loses (rng() < fail_thres) leaves no trace, so a     *)
(* lost send is a step that changes nothing.                               *)
(***************************************************************************)
EXTENDS NodeQueue, Integers, FiniteSets

CONSTANTS
  Workers,      \* the threads of the pool; Cardinality(Workers) = nthreads
  Main,         \* the thread that owns the manager and calls its operations
  NodeId,       \* the ids nodes may have
  NoNode,       \* no node: a null or a destroyed Node<T>*
  InitialNodes, \* the nodes added before the pool is first started
  Calls,        \* the operations Main calls
  Batch,        \* messages a worker handles before it requeues a node (128)
  MaxMessages,  \* bound: messages ever enqueued
  MaxRuns       \* bound: calls of run()

Threads == Workers \cup {Main}

AllCalls == {"run", "gen_message", "pause", "resume", "fail", "add_node", "stop"}

ASSUME ManagerAssumption ==
  /\ IsFiniteSet(Workers)
  /\ Workers # {}
  /\ Main \notin Workers
  /\ NoNode \notin NodeId
  /\ InitialNodes \subseteq NodeId
  /\ Calls \subseteq AllCalls
  /\ Batch \in Nat
  /\ MaxMessages \in Nat
  /\ MaxRuns \in Nat

VARIABLES
  nodes,           \* the keys of the map from ids to nodes
  queue,           \* the message queues of each node
  queued_messages, \* Node<T>::queued_messages
  all_messages,    \* Node<T>::all_messages
  nodes_queue,     \* how often each id is in the lock-free queue
  stopping, pausing, running_threads,
  pc,              \* where each worker is in workerfun
  cur,             \* a worker's node_idx, and then its Node<T>*
  num,             \* a worker's num
  dest,            \* the receiver of a message enqueued at its node whose
                   \* token is still to be enqueued, or NoNode
  mpc, call, arg,  \* where Main is, the operation it is in, its argument
  runs,            \* how often run() has been called
  fault,           \* why the process has died, or "none"
  lost,            \* history: the messages that were destroyed with their nodes
  late,            \* history: the workers about to enter the count when pause() last
                   \*   returned, if it was the pause() of a run_lock that holds
  leftover         \* history: the ids that were on their way to a worker when their
                   \*   node was erased, and that have no new node

pool == <<stopping, pausing, running_threads>>
work == <<nodes, queue, queued_messages, all_messages, nodes_queue, dest>>
worker == <<pc, cur, num>>
history == <<lost, late, leftover>>
main == <<mpc, call, arg, runs, history>>
vars == <<pool, work, worker, main, fault>>

\* A worker's places: thread created; in try_dequeue; asleep after it failed;
\* holding an id; at the top of the message loop; in handle_message; about to
\* put its id back; at `if (pausing)`; about to decrement running_threads;
\* waiting for the resume; about to increment it; not running.
WorkerPlaces == {"start", "scan", "nap", "lookup", "loop", "handle", "requeue",
                 "check", "dec", "wait", "inc", "off"}

\* Main's places: between two calls; in a node's start_message or init; in pause();
\* between the pause and the resume of a run_lock; about to resume; joining.
MainPlaces == {"ready", "send", "spin", "locked", "unlock", "join"}

\* Where a worker uses its Node<T>*.
HasPointer == {"loop", "handle", "requeue"}

\* The pause protocol counts a worker between the increment and the
\* decrement of running_threads.
Counted == {w \in Workers :
              pc[w] \in {"scan", "nap", "lookup", "loop", "handle", "requeue", "check", "dec"}}

\* A thread takes a step at one of its places, in a process that is alive.
At(w, place) == fault = "none" /\ pc[w] = place
MainAt(place) == fault = "none" /\ mpc = place

Goto(w, place) == pc' = [pc EXCEPT ![w] = place]

Init ==
  /\ nodes = InitialNodes
  /\ queue = [n \in NodeId |-> EmptyQueue]
  /\ queued_messages = 0 /\ all_messages = 0
  /\ nodes_queue = [n \in NodeId |-> 0]
  /\ stopping = FALSE /\ pausing = FALSE /\ running_threads = 0
  /\ pc = [w \in Workers |-> "off"]
  /\ cur = [w \in Workers |-> NoNode]
  /\ num = [w \in Workers |-> 0]
  /\ dest = [t \in Threads |-> NoNode]
  /\ mpc = "ready" /\ call = "none" /\ arg = NoNode
  /\ runs = 0
  /\ fault = "none"
  /\ lost = 0 /\ late = {} /\ leftover = {}
------------------------------------------------------------------------------
(* Sending.  send_message enqueues the message at its receiver, under the  *)
(* receiver's mutex, and then the receiver's id in nodes_queue.            *)

\* can_send: the base class only excludes a node sending to itself.
can_send(a, b) == a # b

\* Mutant: only undelayed messages are counted.
SendMessageUncounted(t, from, to) ==
  /\ dest[t] = NoNode
  /\ to \in nodes
  /\ can_send(from, to)
  /\ all_messages < MaxMessages
  /\ \E delayed \in BOOLEAN :
       /\ queue' = [queue EXCEPT ![to] = enqueue(@, delayed)]
       /\ queued_messages' = queued_messages + (IF delayed THEN 0 ELSE 1)
  /\ all_messages' = all_messages + 1
  /\ dest' = [dest EXCEPT ![t] = to]
  /\ UNCHANGED <<nodes, nodes_queue>>

\* Mutant: the receiver is not looked up first.
SendMessageUnchecked(t, from, to) ==
  /\ dest[t] = NoNode
  /\ can_send(from, to)
  /\ all_messages < MaxMessages
  /\ \E delayed \in BOOLEAN : queue' = [queue EXCEPT ![to] = enqueue(@, delayed)]
  /\ queued_messages' = queued_messages + 1
  /\ all_messages' = all_messages + 1
  /\ dest' = [dest EXCEPT ![t] = to]
  /\ UNCHANGED <<nodes, nodes_queue>>

\* The first half of send_message(from, to, msg) by thread t.
SendMessage(t, from, to) ==
  /\ dest[t] = NoNode
  /\ to \in nodes
  /\ can_send(from, to)
  /\ all_messages < MaxMessages
  /\ \E delayed \in BOOLEAN : queue' = [queue EXCEPT ![to] = enqueue(@, delayed)]
  /\ queued_messages' = queued_messages + 1
  /\ all_messages' = all_messages + 1
  /\ dest' = [dest EXCEPT ![t] = to]
  /\ UNCHANGED <<nodes, nodes_queue>>

\* The second half: nodes_queue.enqueue(receiver).
PublishToken(t) ==
  /\ fault = "none"
  /\ dest[t] # NoNode
  /\ nodes_queue' = [nodes_queue EXCEPT ![dest[t]] = @ + 1]
  /\ dest' = [dest EXCEPT ![t] = NoNode]
  /\ UNCHANGED <<nodes, queue, queued_messages, all_messages, pool, worker, main, fault>>

\* The clock reaches the instant of a delayed message.
Tick(n) ==
  /\ fault = "none"
  /\ queue[n].later > 0
  /\ queue' = [queue EXCEPT ![n] = Ripen(@)]
  /\ UNCHANGED <<nodes, queued_messages, all_messages, nodes_queue, dest, pool, worker, main, fault>>
------------------------------------------------------------------------------
(* The worker threads: workerfun, one action per access to shared state.   *)

\* Mutant: the thread does not enter the count.
StartWorkerUncounted(w) ==
  /\ At(w, "start")
  /\ Goto(w, "scan")
  /\ UNCHANGED <<cur, num, pool, work, main, fault>>

StartWorker(w) ==
  /\ At(w, "start")
  /\ running_threads' = running_threads + 1
  /\ Goto(w, "scan")
  /\ UNCHANGED <<stopping, pausing, cur, num, work, main, fault>>

\* nodes_queue.try_dequeue(node_idx) succeeds.
Dequeue(w, n) ==
  /\ At(w, "scan")
  /\ nodes_queue[n] > 0
  /\ nodes_queue' = [nodes_queue EXCEPT ![n] = @ - 1]
  /\ cur' = [cur EXCEPT ![w] = n]
  /\ Goto(w, "lookup")
  /\ UNCHANGED <<nodes, queue, queued_messages, all_messages, dest, num, pool, main, fault>>

\* It returns false; the queue is "likely but not guaranteed to be empty".
DequeueFails(w) ==
  /\ At(w, "scan")
  /\ Goto(w, "nap")
  /\ UNCHANGED <<cur, num, pool, work, main, fault>>

\* Mutant: `stopping` is not looked at.
EndNapIgnoresStop(w) ==
  /\ At(w, "nap")
  /\ Goto(w, "scan")
  /\ UNCHANGED <<cur, num, pool, work, main, fault>>

\* After the sleep the worker leaves workerfun or tries again.
EndNap(w) ==
  /\ At(w, "nap")
  /\ Goto(w, IF stopping THEN "off" ELSE "scan")
  /\ UNCHANGED <<cur, num, pool, work, main, fault>>

\* nodes.at(node_idx), outside the try: for an id that is not in the map the
\* exception leaves the thread's function and ends the process.
Lookup(w) ==
  /\ At(w, "lookup")
  /\ \/ /\ cur[w] \in nodes
        /\ Goto(w, "loop")
        /\ num' = [num EXCEPT ![w] = 0]
        /\ UNCHANGED fault
     \/ /\ cur[w] \notin nodes
        /\ fault' = "out_of_range"
        /\ UNCHANGED <<pc, num>>
  /\ UNCHANGED <<cur, pool, work, main>>

\* num++ > 128
BatchIsFull(w) ==
  /\ At(w, "loop")
  /\ cur[w] # NoNode
  /\ num[w] > Batch
  /\ Goto(w, "requeue")
  /\ UNCHANGED <<cur, num, pool, work, main, fault>>

\* handle_one_message takes a message and calls handle_message.
TakeOne(w) ==
  /\ At(w, "loop")
  /\ cur[w] # NoNode
  /\ num[w] <= Batch
  /\ HasMessage(queue[cur[w]])
  /\ queue' = [queue EXCEPT ![cur[w]] = TakeMessage(@)]
  /\ queued_messages' = queued_messages - 1
  /\ num' = [num EXCEPT ![w] = @ + 1]
  /\ Goto(w, "handle")
  /\ UNCHANGED <<nodes, all_messages, nodes_queue, dest, cur, pool, main, fault>>

\* Mutant: -1 is treated as 0, and the id does not go back.
NotYetDropsToken(w) ==
  /\ At(w, "loop")
  /\ cur[w] # NoNode
  /\ num[w] <= Batch
  /\ OnlyLater(queue[cur[w]])
  /\ Goto(w, "check")
  /\ UNCHANGED <<cur, num, pool, work, main, fault>>

\* It finds only messages to be handled later, and returns -1.
NotYet(w) ==
  /\ At(w, "loop")
  /\ cur[w] # NoNode
  /\ num[w] <= Batch
  /\ OnlyLater(queue[cur[w]])
  /\ Goto(w, "requeue")
  /\ UNCHANGED <<cur, num, pool, work, main, fault>>

\* It finds nothing, and returns 0.
Drained(w) ==
  /\ At(w, "loop")
  /\ cur[w] # NoNode
  /\ num[w] <= Batch
  /\ Size(queue[cur[w]]) = 0
  /\ Goto(w, "check")
  /\ UNCHANGED <<cur, num, pool, work, main, fault>>

\* nodes_queue.enqueue(node->id())
Requeue(w) ==
  /\ At(w, "requeue")
  /\ cur[w] # NoNode
  /\ nodes_queue' = [nodes_queue EXCEPT ![cur[w]] = @ + 1]
  /\ Goto(w, "check")
  /\ UNCHANGED <<nodes, queue, queued_messages, all_messages, dest, cur, num, pool, main, fault>>

HandlerSends(w, to) ==
  /\ At(w, "handle")
  /\ cur[w] # NoNode
  /\ SendMessage(w, cur[w], to)
  /\ UNCHANGED <<pool, worker, main, fault>>

HandlerReturns(w) ==
  /\ At(w, "handle")
  /\ cur[w] # NoNode
  /\ dest[w] = NoNode
  /\ Goto(w, "loop")
  /\ UNCHANGED <<cur, num, pool, work, main, fault>>

\* The handler, or a send_message it calls, throws; workerfun reports it and
\* leaves the message loop.
HandlerThrows(w) ==
  /\ At(w, "handle")
  /\ cur[w] # NoNode
  /\ dest[w] = NoNode
  /\ Goto(w, "check")
  /\ UNCHANGED <<cur, num, pool, work, main, fault>>

\* The worker uses a node that has been destroyed: undefined behaviour, from
\* which the model does not continue.
UseDestroyedNode(w) ==
  /\ fault = "none"
  /\ pc[w] \in HasPointer
  /\ cur[w] = NoNode
  /\ fault' = "destroyed_node"
  /\ UNCHANGED <<pool, work, worker, main>>

CheckPausing(w) ==
  /\ At(w, "check")
  /\ Goto(w, IF pausing THEN "dec" ELSE "scan")
  /\ UNCHANGED <<cur, num, pool, work, main, fault>>

LeavePool(w) ==
  /\ At(w, "dec")
  /\ running_threads' = running_threads - 1
  /\ Goto(w, "wait")
  /\ UNCHANGED <<stopping, pausing, cur, num, work, main, fault>>

SeeResumed(w) ==
  /\ At(w, "wait")
  /\ ~pausing
  /\ Goto(w, "inc")
  /\ UNCHANGED <<cur, num, pool, work, main, fault>>

RejoinPool(w) ==
  /\ At(w, "inc")
  /\ running_threads' = running_threads + 1
  /\ Goto(w, "scan")
  /\ UNCHANGED <<stopping, pausing, cur, num, work, main, fault>>

WorkerStep(w) ==
  \/ StartWorker(w) \/ DequeueFails(w) \/ EndNap(w) \/ Lookup(w)
  \/ \E n \in NodeId : Dequeue(w, n) \/ HandlerSends(w, n)
  \/ BatchIsFull(w) \/ TakeOne(w) \/ NotYet(w) \/ Drained(w) \/ Requeue(w)
  \/ HandlerReturns(w) \/ HandlerThrows(w) \/ UseDestroyedNode(w)
  \/ CheckPausing(w) \/ LeavePool(w) \/ SeeResumed(w) \/ RejoinPool(w)
  \/ PublishToken(w)
------------------------------------------------------------------------------
(* Main's calls.  A call is made between two calls; run() needs the former *)
(* threads to be joined, stop() needs threads to join.                     *)

Running == \A w \in Workers : pc[w] # "off"
AllOff  == \A w \in Workers : pc[w] = "off"

Call(op) == MainAt("ready") /\ op \in Calls

Run ==
  /\ Call("run")
  /\ AllOff
  /\ runs < MaxRuns
  /\ stopping' = FALSE /\ pausing' = FALSE
  /\ pc' = [w \in Workers |-> "start"]
  /\ runs' = runs + 1
  /\ UNCHANGED <<running_threads, cur, num, work, mpc, call, arg, fault, history>>

\* gen_message(n): Main runs start_message of node n.
GenMessage(n) ==
  /\ Call("gen_message")
  /\ n \in nodes
  /\ mpc' = "send" /\ arg' = n
  /\ UNCHANGED <<call, runs, pool, work, worker, fault, history>>

MainSends(to) ==
  /\ MainAt("send")
  /\ SendMessage(Main, arg, to)
  /\ UNCHANGED <<pool, worker, main, fault>>

\* start_message returns, or throws and gen_message reports it.
MainReturns ==
  /\ MainAt("send")
  /\ dest[Main] = NoNode
  /\ mpc' = "ready" /\ arg' = NoNode
  /\ UNCHANGED <<call, runs, pool, work, worker, fault, history>>

\* pause() sets the flag and spins; fail and add_node begin with it too.
BeginPause(op, n) ==
  /\ pausing' = TRUE
  /\ mpc' = "spin" /\ call' = op /\ arg' = n
  /\ UNCHANGED <<stopping, running_threads, runs, work, worker, fault, history>>

Pause == Call("pause") /\ BeginPause("pause", NoNode)

Fail(n) == Call("fail") /\ n \in nodes /\ BeginPause("fail", n)

AddNode(n) == Call("add_node") /\ BeginPause("add_node", n)

\* running_threads is 0: pause() returns.  add_node then constructs its
\* run_lock, which pauses once more.
PauseReturns ==
  /\ MainAt("spin")
  /\ running_threads = 0
  /\ \/ call = "pause" /\ mpc' = "ready" /\ call' = "none" /\ late' = {} /\ UNCHANGED pausing
     \/ call = "add_node" /\ pausing' = TRUE /\ call' = "emplace" /\ late' = {} /\ UNCHANGED mpc
     \/ /\ call \in {"fail", "emplace"}
        /\ mpc' = "locked"
        /\ late' = {w \in Workers : pc[w] \in {"start", "inc"}}
        /\ UNCHANGED <<call, pausing>>
  /\ UNCHANGED <<stopping, running_threads, arg, runs, work, worker, fault, lost, leftover>>

\* An id on its way to a worker: in nodes_queue, in a send_message, or in the hands
\* of a worker that has not looked it up.
UnderWay(n) ==
  \/ nodes_queue[n] > 0
  \/ \E t \in Threads : dest[t] = n
  \/ \E w \in Workers : pc[w] = "lookup" /\ cur[w] = n

\* nodes.erase(node) destroys the node, its messages with it; its ids stay in
\* nodes_queue and a worker's pointer to it dangles.
Erase ==
  /\ MainAt("locked") /\ call = "fail"
  /\ nodes' = nodes \ {arg}
  /\ queue' = [queue EXCEPT ![arg] = EmptyQueue]
  /\ cur' = [w \in Workers |->
               IF cur[w] = arg /\ pc[w] \in HasPointer THEN NoNode ELSE cur[w]]
  /\ mpc' = "unlock"
  /\ lost' = lost + Size(queue[arg])
  /\ leftover' = IF UnderWay(arg) THEN leftover \cup {arg} ELSE leftover \ {arg}
  /\ UNCHANGED <<queued_messages, all_messages, nodes_queue, dest, pc, num,
                 pool, call, arg, runs, fault, late>>

\* nodes.emplace(id, ptr): a node that is there already stays.
Emplace ==
  /\ MainAt("locked") /\ call = "emplace"
  /\ nodes' = nodes \cup {arg}
  /\ leftover' = leftover \ {arg}
  /\ mpc' = "unlock"
  /\ UNCHANGED <<queue, queued_messages, all_messages, nodes_queue, dest,
                 pool, worker, call, arg, runs, fault, lost, late>>

\* A worker is in nodes.at, or in a send_message of its handler, while Main
\* changes the map: a data race, which may end the process.
RaceOnMap(w) ==
  /\ MainAt("locked")
  /\ pc[w] \in {"lookup", "handle"}
  /\ fault' = "map_race"
  /\ UNCHANGED <<pool, work, worker, main>>

\* ~run_lock resumes the pool.  fail returns; add_node goes on with init() of
\* the node that has the id, which sends messages as start_message does.
Unlock ==
  /\ MainAt("unlock")
  /\ pausing' = FALSE
  /\ call' = "none"
  /\ \/ call = "fail" /\ mpc' = "ready" /\ arg' = NoNode
     \/ call = "emplace" /\ mpc' = "send" /\ UNCHANGED arg
  /\ UNCHANGED <<stopping, running_threads, runs, work, worker, fault, history>>

Resume ==
  /\ Call("resume")
  /\ pausing' = FALSE
  /\ UNCHANGED <<stopping, running_threads, main, work, worker, fault>>

Stop ==
  /\ Call("stop")
  /\ Running
  /\ stopping' = TRUE
  /\ mpc' = "join"
  /\ UNCHANGED <<pausing, running_threads, call, arg, runs, work, worker, fault, history>>

\* Every worker has been joined.
StopReturns ==
  /\ MainAt("join")
  /\ AllOff
  /\ mpc' = "ready"
  /\ UNCHANGED <<call, arg, runs, pool, work, worker, fault, history>>

\* What Main does inside a call; it makes a call when it likes.
MainContinues ==
  \/ MainReturns \/ PauseReturns \/ Erase \/ Emplace \/ Unlock \/ StopReturns
  \/ PublishToken(Main) \/ \E w \in Workers : RaceOnMap(w)

MainStep ==
  \/ Run \/ Pause \/ Resume \/ Stop
  \/ \E n \in NodeId : GenMessage(n) \/ MainSends(n) \/ Fail(n) \/ AddNode(n)
  \/ MainContinues

Next ==
  \/ \E w \in Workers : WorkerStep(w)
  \/ \E n \in NodeId : Tick(n)
  \/ MainStep

Spec == Init /\ [][Next]_vars

\* The operating system runs every thread, the clock advances, and a token
\* that stays in nodes_queue is not missed by try_dequeue for ever.
Fairness ==
  /\ \A w \in Workers : WF_vars(WorkerStep(w))
  /\ \A w \in Workers : SF_vars(\E n \in NodeId : Dequeue(w, n))
  /\ \A n \in NodeId : WF_vars(Tick(n))
  /\ WF_vars(MainContinues)

FairSpec == Spec /\ Fairness
------------------------------------------------------------------------------
(* Properties. *)

\* Type invariant of the engine's state (fields of HardwareManager and Node, and
\* the locals of workerfun).
TypeOK ==
  /\ nodes \subseteq NodeId
  /\ queue \in [NodeId -> Queue]
  /\ queued_messages \in Int /\ all_messages \in Nat
  /\ nodes_queue \in [NodeId -> Nat]
  /\ stopping \in BOOLEAN /\ pausing \in BOOLEAN /\ running_threads \in Int
  /\ pc \in [Workers -> WorkerPlaces]
  /\ cur \in [Workers -> NodeId \cup {NoNode}]
  /\ num \in [Workers -> Nat]
  /\ dest \in [Threads -> NodeId \cup {NoNode}]
  /\ mpc \in MainPlaces
  /\ call \in {"none", "pause", "fail", "add_node", "emplace"}
  /\ arg \in NodeId \cup {NoNode}
  /\ runs \in Nat
  /\ fault \in {"none", "out_of_range", "destroyed_node", "map_race"}
  /\ lost \in Nat /\ late \subseteq Workers /\ leftover \subseteq NodeId

\* Workers that hold n's id and have not taken a message for it.
Holders(n) ==
  {w \in Workers : /\ cur[w] = n
                   /\ \/ pc[w] \in {"lookup", "requeue"}
                      \/ pc[w] = "loop" /\ num[w] = 0}

\* Threads inside send_message, between the message and its token.
Carriers(n) == {t \in Threads : dest[t] = n}

\* The messages of n are matched by tokens.
Covered(n) ==
  Size(queue[n]) <= nodes_queue[n] + Cardinality(Holders(n)) + Cardinality(Carriers(n))

\* No message is stranded: a node never holds more messages than there are
\* tokens for it, in nodes_queue, in the hands of a worker or about to be
\* enqueued by send_message.  A worker that has handled a message has used its
\* token up, which is why workerfun may drop the token when a later handler
\* throws or the queues are empty, but not when its first look returns -1.
TokenCover == \A n \in NodeId : Covered(n)

\* running_threads never under-counts the workers that may touch nodes, so a
\* pause() that reads 0 reads it at an instant when none does.
RunningCovers == running_threads >= Cardinality(Counted)

\* pause() returns only from a state in which no worker looks up a node or
\* uses one: the step that leaves the spin loop of pause().
PauseGate ==
  [][ mpc = "spin" /\ (mpc' # "spin" \/ call' # call)
      => \A w \in Workers : pc[w] \notin HasPointer \cup {"lookup"} ]_vars

\* The messages of all nodes, one pair per message.
HeldMessages == UNION {{n} \X (1..Size(queue[n])) : n \in NodeId}

\* queued_messages, on which the status thread of the tinycoin example waits until
\* it is 0, is exactly the number of messages in the nodes' queues plus those that
\* fail() has destroyed together with their nodes: no send, take or throw loses or
\* repeats a count, and after a fail the counter stays above the truth for ever by
\* what the node held.
QueuedCounter == queued_messages = Cardinality(HeldMessages) + lost

\* The ways fail() and add_node() may end the process, and there is no other.
\* nodes.at throws only for an id that was under way when its node was erased: no
\* send, requeue or late token brings up the id of a node that is gone.  A worker
\* meets the map while Main changes it, or a node that has been destroyed, only if it
\* was past the end of a pause, or at the start of its thread, and not yet counted
\* when the pause() of that run_lock returned.
FaultsExplained ==
  /\ fault = "out_of_range" => \E w \in Workers : pc[w] = "lookup" /\ cur[w] \in leftover
  /\ fault = "destroyed_node" => \E w \in late : pc[w] \in HasPointer /\ cur[w] = NoNode
  /\ fault = "map_race" => \E w \in late : pc[w] \in {"lookup", "handle"}

\* Every message is handled: while the pool runs and is not stopped, the
\* queues of a node that has messages become empty, delayed messages and
\* handlers that throw included.
MessagesHandled ==
  \A n \in NodeId :
    (Size(queue[n]) > 0 /\ runs > 0 /\ ~stopping) ~> (Size(queue[n]) = 0 \/ stopping)

\* stop() returns: every worker sees `stopping` and leaves workerfun.
StopTerminates == mpc = "join" ~> mpc # "join"

==============================================================================
