----------------------------- MODULE WorkQueue -----------------------------
(***************************************************************************)
(* The queue of partB/src/threadpool_server.c: a linked list with a head   *)
(* and a tail pointer, a mutex and a condition variable.  The main thread  *)
(* pushes, the workers pop.  Threads interleave between any two of the     *)
(* steps below; the C library's malloc(), free(), mutex and condition      *)
(* variable (spurious wake-ups included) are modelled from their POSIX     *)
(* specification.                                                          *)
(*                                                                         *)
(* The connections are numbered in the order accept() returned them, so    *)
(* that one handed out twice, lost or overtaken shows.                     *)
(***************************************************************************)
EXTENDS Integers, Sequences, FiniteSets

CONSTANTS
    Workers,    \* the threads of the pool
    Main,       \* the thread that accepts
    Nobody,     \* who holds a free mutex
    Nodes,      \* bound: blocks malloc() can return, numbered from 1
    MaxPush     \* bound: how many connections are accepted

ASSUME WorkQueueAssumption ==
    /\ Main \notin Workers /\ Nobody \notin Workers \cup {Main}
    /\ IsFiniteSet(Workers)
    /\ Nodes \subseteq Nat \ {0} /\ IsFiniteSet(Nodes)
    /\ MaxPush \in Nat

VARIABLES
    mutex,      \* the thread that holds queue->mutex
    sleepers,   \* threads blocked in pthread_cond_wait()
    head, tail, \* queue->head, queue->tail
    node,       \* the client_node_t blocks
    pushed,     \* number of connections accepted
    mpc, mnode, \* the main thread in queue_push(): step, node
    wpc, wnode, \* a worker in queue_pop(): step, node
    wfd         \* the connection a worker serves

vars == <<mutex, sleepers, head, tail, node, pushed, mpc, mnode, wpc, wnode, wfd>>

mainVars   == <<pushed, mpc, mnode>>
workerVars == <<wpc, wnode, wfd>>

NULL    == 0
Garbage == -1
None    == 0
Items   == 1 .. MaxPush
Freed   == [live |-> FALSE, fd |-> Garbage, next |-> Garbage]

TypeOK ==
    /\ mutex \in Workers \cup {Main, Nobody}
    /\ sleepers \subseteq Workers
    /\ {head, tail} \subseteq Nodes \cup {NULL}
    /\ node \in [Nodes -> [live : BOOLEAN, fd : Items \cup {Garbage},
                           next : Nodes \cup {NULL, Garbage}]]
    /\ pushed \in 0 .. MaxPush
    /\ mpc \in {"accept", "lock", "link", "signal", "unlock"}
    /\ mnode \in Nodes \cup {NULL}
    /\ wpc \in [Workers -> {"lock", "test", "wait", "take", "unlock", "free", "serve"}]
    /\ wnode \in [Workers -> Nodes \cup {NULL}]
    /\ wfd \in [Workers -> Items \cup {None}]

Init ==
    /\ mutex = Nobody
    /\ sleepers = {}
    /\ head = NULL /\ tail = NULL
    /\ node = [n \in Nodes |-> Freed]
    /\ pushed = 0
    /\ mpc = "accept" /\ mnode = NULL
    /\ wpc = [w \in Workers |-> "lock"]
    /\ wnode = [w \in Workers |-> NULL]
    /\ wfd = [w \in Workers |-> None]

----------------------------------------------------------------------------
(* The main thread: accept() and queue_push(). *)

\* malloc() returns one of the free blocks; which one does not matter.
Allocated(n) == ~node[n].live /\ \A m \in Nodes : ~node[m].live => n <= m

PushAlloc ==
    /\ mpc = "accept"
    /\ pushed < MaxPush
    /\ pushed' = pushed + 1
    /\ \E n \in Nodes :
          /\ Allocated(n)
          /\ node' = [node EXCEPT ![n] = [live |-> TRUE, fd |-> pushed + 1, next |-> NULL]]
          /\ mnode' = n
    /\ mpc' = "lock"
    /\ UNCHANGED <<mutex, sleepers, head, tail, workerVars>>

\* malloc() fails: the connection is closed and never queued.
PushNoMemory ==
    /\ mpc = "accept"
    /\ pushed < MaxPush
    /\ pushed' = pushed + 1
    /\ UNCHANGED <<mutex, sleepers, head, tail, node, mpc, mnode, workerVars>>

\* Mutant: queue_push() does not lock; its unlock then frees another's mutex.
PushLock_not ==
    /\ mpc = "lock"
    /\ mpc' = "link"
    /\ UNCHANGED <<mutex, sleepers, head, tail, node, pushed, mnode, workerVars>>

PushLock ==
    /\ mpc = "lock"
    /\ mutex = Nobody
    /\ mutex' = Main
    /\ mpc' = "link"
    /\ UNCHANGED <<sleepers, head, tail, node, pushed, mnode, workerVars>>

\* Mutant: the node is linked in front.
PushLink_front ==
    /\ mpc = "link"
    /\ node' = [node EXCEPT ![mnode].next = head]
    /\ head' = mnode
    /\ tail' = IF tail = NULL THEN mnode ELSE tail
    /\ mpc' = "signal"
    /\ UNCHANGED <<mutex, sleepers, pushed, mnode, workerVars>>

PushLink ==
    /\ mpc = "link"
    /\ IF tail = NULL
       THEN head' = mnode /\ UNCHANGED node
       ELSE node' = [node EXCEPT ![tail].next = mnode] /\ UNCHANGED head
    /\ tail' = mnode
    /\ mpc' = "signal"
    /\ UNCHANGED <<mutex, sleepers, pushed, mnode, workerVars>>

\* Mutant: a signal only when the queue was empty.
PushSignal_wasEmpty ==
    /\ mpc = "signal"
    /\ IF head # mnode THEN UNCHANGED sleepers
       ELSE \/ \E w \in sleepers : sleepers' = sleepers \ {w}
            \/ sleepers = {} /\ UNCHANGED sleepers
    /\ mpc' = "unlock"
    /\ UNCHANGED <<mutex, head, tail, node, pushed, mnode, workerVars>>

\* Mutant: no signal.
PushSignal_never ==
    /\ mpc = "signal"
    /\ mpc' = "unlock"
    /\ UNCHANGED <<mutex, sleepers, head, tail, node, pushed, mnode, workerVars>>

PushSignal ==
    /\ mpc = "signal"
    /\ \/ \E w \in sleepers : sleepers' = sleepers \ {w}
       \/ sleepers = {} /\ UNCHANGED sleepers
    /\ mpc' = "unlock"
    /\ UNCHANGED <<mutex, head, tail, node, pushed, mnode, workerVars>>

PushUnlock ==
    /\ mpc = "unlock"
    /\ mutex' = Nobody
    /\ mpc' = "accept" /\ mnode' = NULL
    /\ UNCHANGED <<sleepers, head, tail, node, pushed, workerVars>>

MainNext ==
    PushAlloc \/ PushNoMemory \/ PushLock \/ PushLink \/ PushSignal \/ PushUnlock

----------------------------------------------------------------------------
(* A worker: queue_pop(). *)

PopLock(w) ==
    /\ wpc[w] = "lock"
    /\ mutex = Nobody
    /\ mutex' = w
    /\ wpc' = [wpc EXCEPT ![w] = "test"]
    /\ UNCHANGED <<sleepers, head, tail, node, mainVars, wnode, wfd>>

\* The test of the while loop; pthread_cond_wait() releases the mutex.
PopTest(w) ==
    /\ wpc[w] = "test"
    /\ IF head = NULL
       THEN /\ wpc' = [wpc EXCEPT ![w] = "wait"]
            /\ sleepers' = sleepers \cup {w}
            /\ mutex' = Nobody
       ELSE /\ wpc' = [wpc EXCEPT ![w] = "take"]
            /\ UNCHANGED <<mutex, sleepers>>
    /\ UNCHANGED <<head, tail, node, mainVars, wnode, wfd>>

SpuriousWakeup(w) ==
    /\ w \in sleepers
    /\ sleepers' = sleepers \ {w}
    /\ UNCHANGED <<mutex, head, tail, node, mainVars, workerVars>>

\* pthread_cond_wait() returns with the mutex, and the loop tests again.
PopRelock(w) ==
    /\ wpc[w] = "wait"
    /\ w \notin sleepers
    /\ mutex = Nobody
    /\ mutex' = w
    /\ wpc' = [wpc EXCEPT ![w] = "test"]
    /\ UNCHANGED <<sleepers, head, tail, node, mainVars, wnode, wfd>>

\* Mutant: queue->tail keeps pointing to the last node taken.
PopTake_tail(w) ==
    /\ wpc[w] = "take"
    /\ wnode' = [wnode EXCEPT ![w] = head]
    /\ head' = node[head].next
    /\ wpc' = [wpc EXCEPT ![w] = "unlock"]
    /\ UNCHANGED <<mutex, sleepers, tail, node, mainVars, wfd>>

PopTake(w) ==
    /\ wpc[w] = "take"
    /\ wnode' = [wnode EXCEPT ![w] = head]
    /\ head' = node[head].next
    /\ tail' = IF node[head].next = NULL THEN NULL ELSE tail
    /\ wpc' = [wpc EXCEPT ![w] = "unlock"]
    /\ UNCHANGED <<mutex, sleepers, node, mainVars, wfd>>

PopUnlock(w) ==
    /\ wpc[w] = "unlock"
    /\ mutex' = Nobody
    /\ wpc' = [wpc EXCEPT ![w] = "free"]
    /\ UNCHANGED <<sleepers, head, tail, node, mainVars, wnode, wfd>>

\* The node belongs to this thread alone: its fd is read and it is freed.
PopFree(w) ==
    /\ wpc[w] = "free"
    /\ wfd' = [wfd EXCEPT ![w] = node[wnode[w]].fd]
    /\ node' = [node EXCEPT ![wnode[w]] = Freed]
    /\ wnode' = [wnode EXCEPT ![w] = NULL]
    /\ wpc' = [wpc EXCEPT ![w] = "serve"]
    /\ UNCHANGED <<mutex, sleepers, head, tail, mainVars>>

\* The connection has been served and closed (ThreadPoolServer).
ServeDone(w) ==
    /\ wpc[w] = "serve"
    /\ wfd' = [wfd EXCEPT ![w] = None]
    /\ wpc' = [wpc EXCEPT ![w] = "lock"]
    /\ UNCHANGED <<mutex, sleepers, head, tail, node, mainVars, wnode>>

WorkerNext(w) ==
    \/ PopLock(w) \/ PopTest(w) \/ PopRelock(w)
    \/ PopTake(w) \/ PopUnlock(w) \/ PopFree(w) \/ ServeDone(w)

Next ==
    \/ MainNext
    \/ \E w \in Workers : WorkerNext(w) \/ SpuriousWakeup(w)

Spec == Init /\ [][Next]_vars

\* Every thread is scheduled and connections end.  The mutex need not be fair,
\* and nothing is assumed of spurious wake-ups.
FairSpec ==
    /\ Spec
    /\ WF_vars(MainNext)
    /\ \A w \in Workers : WF_vars(WorkerNext(w))

----------------------------------------------------------------------------
(* Properties. *)

\* Hop[k] is the node k links away from the head.
Hops(h, nd) ==
    LET hop[k \in 0 .. Cardinality(Nodes)] ==
            IF k = 0 THEN h
            ELSE IF hop[k - 1] \in Nodes THEN nd[hop[k - 1]].next ELSE hop[k - 1]
    IN  hop

Hop == Hops(head, node)

Linked  == {k \in 0 .. (Cardinality(Nodes) - 1) : Hop[k] \in Nodes}
Listed  == {Hop[k] : k \in Linked}
Content == [k \in 1 .. Cardinality(Linked) |-> node[Hop[k - 1]].fd]

Unlisted == {mnode} \cup {wnode[w] : w \in Workers}

\* The list ends at the tail and has no tail without a head; every live block is
\* in exactly one place (the list, the node being pushed, a worker that took it)
\* and nothing points to a freed one.  Between PushLink and PushUnlock the main
\* thread's node is also the list's last.
ListWellFormed ==
    /\ head = NULL <=> tail = NULL
    /\ tail # NULL => tail \in Listed /\ node[tail].next = NULL
    /\ Hop[Cardinality(Linked)] = NULL
    /\ {n \in Nodes : node[n].live} = (Listed \cup Unlisted) \ {NULL}
    /\ Listed \cap Unlisted \subseteq (IF mpc \in {"signal", "unlock"} THEN {mnode} ELSE {})
    /\ \A v, w \in Workers : wnode[v] = wnode[w] /\ v # w => wnode[v] = NULL

\* One thread at a time is between lock and unlock, and it holds the mutex.
MutualExclusion ==
    /\ \A w \in Workers : wpc[w] \in {"test", "take", "unlock"} <=> mutex = w
    /\ mpc \in {"link", "signal", "unlock"} <=> mutex = Main

\* While a worker sleeps, enough others are on their way to the queue to take
\* all it holds: no signal is lost, whichever thread gets the mutex first.  A
\* push is owed its signal until PushSignal.
Awake == {w \in Workers \ sleepers : wpc[w] \in {"lock", "test", "wait", "take"}}

NoLostWakeup ==
    sleepers # {} =>
        Len(Content) <= Cardinality(Awake) + (IF mpc = "signal" THEN 1 ELSE 0)

\* A connection that was queued is taken by a worker.
Handed ==
    \A i \in Items :
        (\E k \in 1 .. Len(Content) : Content[k] = i) ~> (\E w \in Workers : wfd[w] = i)

\* The list is a first-in first-out queue: connections are taken in the order
\* they were pushed, and none is given to two workers.
Fifo ==
    INSTANCE FdQueue WITH
        queue <- Content,
        held <- [w \in Workers |->
                    IF wpc[w] \in {"unlock", "free"} THEN node[wnode[w]].fd ELSE wfd[w]]

IsFifo == Fifo!Spec
============================================================================
