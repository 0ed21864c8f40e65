-------------------------- MODULE ThreadPoolServer --------------------------
(***************************************************************************)
(* partB/src/threadpool_server.c: a main thread that accepts and queues,   *)
(* and a pool of workers that each serve one connection to its end with    *)
(* blocking read() and write_full().  The queue is the abstract one that   *)
(* WorkQueue is shown to implement.                                        *)
(*                                                                         *)
(* One action is one system call of one thread.  A write() that blocks     *)
(* takes the bytes as room appears, and the loop of write_full() goes on   *)
(* after a partial one: both are WorkerWrite.                              *)
(***************************************************************************)
EXTENDS Sockets

CONSTANTS
    Workers,    \* the threads of the pool
    BufSize     \* sizeof buffer in worker_main()

ASSUME ThreadPoolAssumption == BufSize \in Nat \ {0}

VARIABLES
    queue,      \* descriptors pushed and not taken
    held,       \* the descriptor each worker serves
    buf,        \* the bytes of a worker's last read()
    done        \* how many of them write_full() has written

vars == <<netVars, queue, held, buf, done>>

Q == INSTANCE FdQueue WITH Items <- Fds, None <- NoFd

TypeOK ==
    /\ NetTypeOK
    /\ queue \in Seq(Fds)
    /\ held \in [Workers -> Fds \cup {NoFd}]
    /\ buf \in [Workers -> Seq(Byte)]
    /\ \A w \in Workers : done[w] \in 0 .. Len(buf[w]) /\ Len(buf[w]) <= BufSize

Init ==
    /\ NetInit
    /\ Q!Init
    /\ buf = [w \in Workers |-> <<>>]
    /\ done = [w \in Workers |-> 0]

----------------------------------------------------------------------------
(* The main thread.  A failing accept() is tried again: a stuttering step. *)

Accept ==
    /\ \E fd \in Fds : SysAccept(fd) /\ Q!Push(fd)
    /\ UNCHANGED <<buf, done>>

\* queue_push() finds no memory for the node and closes the connection.
AcceptNoMemory ==
    /\ SysAcceptClose
    /\ UNCHANGED <<queue, held, buf, done>>

----------------------------------------------------------------------------
(* A worker. *)

Peer(w)    == fdtab[held[w]]
Serving(w) == held[w] # NoFd
Reading(w) == Serving(w) /\ done[w] = Len(buf[w])
Writing(w) == Serving(w) /\ done[w] < Len(buf[w])

Take(w) ==
    /\ Q!Pop(w)
    /\ UNCHANGED <<netVars, buf, done>>

WorkerRead(w) ==
    /\ Reading(w)
    /\ HasInput(Peer(w))
    /\ LET n == Smaller(BufSize, Len(inq[Peer(w)]))
       IN  /\ SysRead(Peer(w), n)
           /\ buf' = [buf EXCEPT ![w] = SubSeq(inq[Peer(w)], 1, n)]
    /\ done' = [done EXCEPT ![w] = 0]
    /\ UNCHANGED <<queue, held>>

\* Mutants: a short write counts as a complete one, or not at all.
DoneAfter_all(w, to)   == Len(buf[w])
DoneAfter_stuck(w, to) == done[w]
DoneAfter(w, to) == to

WorkerWrite(w) ==
    /\ Writing(w)
    /\ CanWrite(Peer(w))
    /\ LET to == done[w] + Smaller(Room(Peer(w)), Len(buf[w]) - done[w])
       IN  /\ SysWrite(Peer(w), SubSeq(buf[w], done[w] + 1, to))
           /\ done' = [done EXCEPT ![w] = DoneAfter(w, to)]
    /\ UNCHANGED <<queue, held, buf>>

\* Mutant: the worker turns to the next connection without close().
WorkerEnd_keepFd(w) ==
    /\ \/ Reading(w) /\ AtEnd(Peer(w))
       \/ Writing(w) /\ peer[Peer(w)] = "reset"
    /\ Q!Done(w)
    /\ buf' = [buf EXCEPT ![w] = <<>>]
    /\ done' = [done EXCEPT ![w] = 0]
    /\ UNCHANGED netVars

\* Mutant: close() without the break behind it, so the worker goes on with the
\* number, which the next accept() may return to another.
WorkerEnd_again(w) ==
    /\ \/ Reading(w) /\ AtEnd(Peer(w))
       \/ Writing(w) /\ peer[Peer(w)] = "reset"
    /\ SysClose(held[w])
    /\ buf' = [buf EXCEPT ![w] = <<>>]
    /\ done' = [done EXCEPT ![w] = 0]
    /\ UNCHANGED <<queue, held>>

\* read() finds the end of the stream or fails, or write_full() fails: close()
\* and back to queue_pop().  What the buffer holds is dead.
WorkerEnd(w) ==
    /\ \/ Reading(w) /\ AtEnd(Peer(w))
       \/ Writing(w) /\ peer[Peer(w)] = "reset"
    /\ SysClose(held[w])
    /\ Q!Done(w)
    /\ buf' = [buf EXCEPT ![w] = <<>>]
    /\ done' = [done EXCEPT ![w] = 0]

WorkerNext(w) == Take(w) \/ WorkerRead(w) \/ WorkerWrite(w) \/ WorkerEnd(w)

Next ==
    \/ Accept \/ AcceptNoMemory
    \/ \E w \in Workers : WorkerNext(w)
    \/ PeerNext /\ UNCHANGED <<queue, held, buf, done>>

Spec == Init /\ [][Next]_vars

\* Every thread is scheduled, and a peer reads what it is sent and some day ends
\* its connection, as load_client does: a worker has nobody else to serve before.
PeerMoves(A) == A /\ UNCHANGED <<queue, held, buf, done>>

FairSpec ==
    /\ Spec
    /\ WF_vars(Accept)
    /\ \A w \in Workers : WF_vars(WorkerNext(w))
    /\ \A c \in Clients : /\ WF_vars(PeerMoves(RecvByte(c)))
                          /\ WF_vars(PeerMoves(SendFin(c)))

----------------------------------------------------------------------------
(* Properties. *)

Queued == {queue[i] : i \in 1 .. Len(queue)}
Busy   == {w \in Workers : Serving(w)}

\* Every open connection is in exactly one place, in the queue or with one
\* worker, and nothing refers to a closed one: no worker goes on with a number
\* after its close(), when accept() may already have returned it again.
FdOwnership ==
    /\ OpenFds = Queued \cup {held[w] : w \in Busy}
    /\ Cardinality(OpenFds) = Len(queue) + Cardinality(Busy)

\* A connection that its peer has not reset is closed only when everything the
\* peer sent has been written back, unless it was never queued.
CloseOnlyWhenDrained ==
    [][\A w \in Busy :
          Peer(w) \in closed' \ closed /\ peer[Peer(w)] # "reset"
              => Len(echoed[Peer(w)]) = sent[Peer(w)]]_vars

\* Every connection is served and closed in its turn, however many more there
\* are than workers.
Served == \A c \in Clients : peer[c] # "idle" ~> c \in closed
============================================================================
