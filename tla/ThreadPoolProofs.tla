--------------------------- MODULE ThreadPoolProofs ---------------------------
(***************************************************************************)
(* Proofs about ThreadPoolServer for any number of clients, workers and    *)
(* descriptors and any buffer size.                                        *)
(*                                                                         *)
(* FdOwnership counts; what is inductive is that no two places hold the    *)
(* same descriptor (Own).  The counts follow from it.                      *)
(***************************************************************************)
EXTENDS ThreadPoolServer, SocketsProofs, FiniteSetTheorems

Held == {held[w] : w \in Busy}

\* A descriptor is at one position of the queue or with one worker, and these are
\* the open ones.
Own ==
    /\ \A m, n \in 1 .. Len(queue) : queue[m] = queue[n] => m = n
    /\ \A v, w \in Busy : held[v] = held[w] => v = w
    /\ \A m \in 1 .. Len(queue), w \in Busy : queue[m] # held[w]
    /\ OpenFds = Queued \cup Held

IInv == TypeOK /\ done \in [Workers -> Nat] /\ Own

\* What IInv says of a busy worker.
LEMMA BusyWorker ==
    ASSUME IInv, NEW w \in Busy
    PROVE  /\ w \in Workers
           /\ held[w] \in OpenFds
           /\ held[w] \in Fds
           /\ Peer(w) \in Clients
           /\ buf[w] \in Seq(Byte)
           /\ done[w] \in 0 .. Len(buf[w])
           /\ Len(buf[w]) \in Nat
<1>1. w \in Workers /\ held[w] \in OpenFds
  BY DEF IInv, Own, Held, Busy
<1>2. held[w] \in Fds /\ Peer(w) \in Clients
  BY <1>1 DEF IInv, TypeOK, NetTypeOK, OpenFds, Peer
<1>3. buf[w] \in Seq(Byte) /\ done[w] \in 0 .. Len(buf[w])
  BY <1>1 DEF IInv, TypeOK
<1> QED
  BY <1>1, <1>2, <1>3, LenProperties

\* The head of the queue and what is left without it.
LEMMA QueueTail ==
    ASSUME TypeOK, queue # <<>>
    PROVE  /\ Head(queue) \in Fds /\ Tail(queue) \in Seq(Fds)
           /\ 1 \in 1 .. Len(queue) /\ Head(queue) = queue[1]
           /\ Len(queue) \in Nat /\ Len(Tail(queue)) = Len(queue) - 1
           /\ \A m \in 1 .. Len(Tail(queue)) : /\ m + 1 \in 1 .. Len(queue)
                                             /\ m + 1 # 1
                                             /\ Tail(queue)[m] = queue[m + 1]
           /\ \A m \in 1 .. Len(queue) :
                 m = 1 \/ (m - 1 \in 1 .. Len(Tail(queue)) /\ Tail(queue)[m - 1] = queue[m])
<1>1. queue \in Seq(Fds)
  BY DEF TypeOK
<1>2. Len(queue) \in Nat \ {0}
  BY <1>1, EmptySeq
<1>3. /\ Head(queue) \in Fds /\ Tail(queue) \in Seq(Fds)
      /\ Len(Tail(queue)) = Len(queue) - 1
      /\ \A m \in 1 .. Len(Tail(queue)) : Tail(queue)[m] = queue[m + 1]
  BY <1>1, HeadTailProperties
<1>4. Head(queue) = queue[1]
  BY <1>1
<1>5. \A m \in 1 .. Len(queue) : m = 1 \/ m - 1 \in 1 .. Len(queue) - 1
  BY <1>2
<1>6. \A m \in 1 .. Len(queue) - 1 : m + 1 \in 1 .. Len(queue) /\ m + 1 # 1
  BY <1>2
<1>7. \A m \in 1 .. Len(queue) : m - 1 + 1 = m
  BY <1>2
<1> QED
  BY <1>2, <1>3, <1>4, <1>5, <1>6, <1>7

\* A step that moves no descriptor.
LEMMA SameOwn ==
    ASSUME IInv, OpenFds' = OpenFds, UNCHANGED <<queue, held>>
    PROVE  Own' /\ Busy' = Busy
BY DEF IInv, Own, Queued, Held, Busy, Serving

----------------------------------------------------------------------------
(* One lemma per action. *)

\* A new descriptor is none that the queue or a worker has.
LEMMA AcceptInv ==
    ASSUME IInv, Accept
    PROVE  IInv'
<1> PICK fd \in Fds : SysAccept(fd) /\ Q!Push(fd)
  BY DEF Accept
<1>1. /\ NetTypeOK'
      /\ fd \notin OpenFds
      /\ OpenFds' = OpenFds \cup {fd}
  BY AcceptStep DEF IInv, TypeOK
<1>2. queue' = Append(queue, fd) /\ UNCHANGED <<held, buf, done>>
  BY DEF Accept, Q!Push
<1>3. /\ queue' \in Seq(Fds)
      /\ Len(queue) \in Nat /\ Len(queue') = Len(queue) + 1
      /\ \A m \in 1 .. Len(queue) : queue'[m] = queue[m]
      /\ queue'[Len(queue) + 1] = fd
  BY <1>2, AppendProperties, LenProperties DEF IInv, TypeOK
<1>4. \A m \in 1 .. Len(queue') : m \in 1 .. Len(queue) \/ m = Len(queue) + 1
  BY <1>3
<1>5. Busy' = Busy /\ Held' = Held
  BY <1>2 DEF Busy, Serving, Held
<1>6. /\ \A m \in 1 .. Len(queue) : queue[m] # fd
      /\ \A w \in Busy : held[w] # fd
  BY <1>1 DEF IInv, Own, Queued, Held
<1>7. \A m, n \in 1 .. Len(queue') : queue'[m] = queue'[n] => m = n
  BY <1>3, <1>4, <1>6 DEF IInv, Own
<1>8. \A m \in 1 .. Len(queue'), w \in Busy' : queue'[m] # held'[w]
  BY <1>2, <1>3, <1>4, <1>5, <1>6 DEF IInv, Own
<1>9. Queued' = Queued \cup {fd}
  <2>1. \A m \in 1 .. Len(queue) : m \in 1 .. Len(queue')
    BY <1>3
  <2>2. Len(queue) + 1 \in 1 .. Len(queue')
    BY <1>3
  <2>3. \A x : (\E m \in 1 .. Len(queue') : x = queue'[m])
                 <=> (\E m \in 1 .. Len(queue) : x = queue[m]) \/ x = fd
    BY <1>3, <1>4, <2>1, <2>2
  <2> QED
    BY <2>3 DEF Queued
<1>10. OpenFds' = Queued' \cup Held'
  BY <1>1, <1>5, <1>9 DEF IInv, Own
<1>11. \A v, w \in Busy' : held'[v] = held'[w] => v = w
  BY <1>2, <1>5 DEF IInv, Own
<1>12. Own'
  BY <1>7, <1>8, <1>10, <1>11 DEF Own
<1>13. TypeOK'
  BY <1>1, <1>2, <1>3 DEF IInv, TypeOK
<1> QED
  BY <1>2, <1>12, <1>13 DEF IInv

\* queue_pop() hands a descriptor from the queue to one worker.
LEMMA TakeInv ==
    ASSUME IInv, NEW w \in Workers, Take(w)
    PROVE  /\ IInv'
           /\ Busy' = Busy \cup {w} /\ w \notin Busy
           /\ held'[w] = queue[1] /\ 1 \in 1 .. Len(queue)
           /\ \A v \in Workers \ {w} : held'[v] = held[v]
           /\ \A m \in 1 .. Len(queue') : m + 1 \in 1 .. Len(queue) /\ queue'[m] = queue[m + 1]
<1> PICK h : h = Head(queue)
  OBVIOUS
<1>1. /\ held[w] = NoFd /\ queue # <<>>
      /\ held' = [held EXCEPT ![w] = h] /\ queue' = Tail(queue)
      /\ UNCHANGED <<netVars, buf, done>>
  BY DEF Take, Q!Pop
<1>2. /\ h \in Fds /\ queue' \in Seq(Fds)
      /\ 1 \in 1 .. Len(queue) /\ h = queue[1]
      /\ \A m \in 1 .. Len(queue') : m + 1 \in 1 .. Len(queue) /\ m + 1 # 1
                                     /\ queue'[m] = queue[m + 1]
      /\ \A m \in 1 .. Len(queue) :
            m = 1 \/ (m - 1 \in 1 .. Len(queue') /\ queue'[m - 1] = queue[m])
  BY <1>1, QueueTail DEF IInv
<1>3. /\ held'[w] = h /\ h # NoFd
      /\ \A v \in Workers \ {w} : held'[v] = held[v]
  BY <1>1, <1>2, SocketsAssumption DEF IInv, TypeOK, Fds, NoFd
<1>4. Busy' = Busy \cup {w} /\ w \notin Busy
  BY <1>1, <1>3 DEF Busy, Serving
<1>5. \A v \in Busy : v \in Workers \ {w}
  BY <1>4 DEF Busy
<1>6. \A m, n \in 1 .. Len(queue') : queue'[m] = queue'[n] => m = n
  <2> SUFFICES ASSUME NEW m \in 1 .. Len(queue'), NEW n \in 1 .. Len(queue'),
                      queue'[m] = queue'[n]
               PROVE  m = n
    OBVIOUS
  <2>1. m + 1 = n + 1
    BY <1>2 DEF IInv, Own
  <2> QED
    BY <2>1
<1>7. \A m \in 1 .. Len(queue') : queue'[m] # h
  BY <1>2 DEF IInv, Own
<1>8. \A v \in Busy : held[v] # h
  BY <1>2 DEF IInv, Own
<1>9. \A u, v \in Busy' : held'[u] = held'[v] => u = v
  BY <1>3, <1>4, <1>5, <1>8 DEF IInv, Own
<1>10. \A m \in 1 .. Len(queue'), v \in Busy' : queue'[m] # held'[v]
  <2> TAKE m \in 1 .. Len(queue'), v \in Busy'
  <2>1. CASE v = w
    BY <1>3, <1>7, <2>1
  <2>2. CASE v # w
    <3>1. v \in Busy /\ held'[v] = held[v]
      BY <1>3, <1>4, <1>5, <2>2
    <3>2. m + 1 \in 1 .. Len(queue) /\ queue'[m] = queue[m + 1]
      BY <1>2
    <3> QED
      BY <3>1, <3>2 DEF IInv, Own
  <2> QED
    BY <2>1, <2>2
<1>11. Queued = Queued' \cup {h}
  <2>1. \A x : (\E m \in 1 .. Len(queue) : x = queue[m])
                 <=> (\E m \in 1 .. Len(queue') : x = queue'[m]) \/ x = h
    BY <1>2
  <2> QED
    BY <2>1 DEF Queued
<1>12. Held' = Held \cup {h}
  BY <1>3, <1>4, <1>5 DEF Held
<1>13. OpenFds' = OpenFds
  BY <1>1 DEF netVars, OpenFds
<1>14. OpenFds' = Queued' \cup Held'
  BY <1>11, <1>12, <1>13 DEF IInv, Own
<1>15. Own'
  BY <1>6, <1>9, <1>10, <1>14 DEF Own
<1>16. TypeOK'
  BY <1>1, <1>2 DEF IInv, TypeOK, NetTypeOK, netVars
<1> QED
  BY <1>1, <1>2, <1>3, <1>4, <1>15, <1>16 DEF IInv

\* A worker closes its own descriptor, and holds none.
LEMMA EndInv ==
    ASSUME IInv, NEW w \in Workers, WorkerEnd(w)
    PROVE  /\ IInv'
           /\ w \in Busy /\ Busy' = Busy \ {w}
           /\ done'[w] = Len(buf'[w])
           /\ \A v \in Workers \ {w} : held'[v] = held[v] /\ buf'[v] = buf[v]
                                       /\ done'[v] = done[v]
<1>1. /\ SysClose(held[w]) /\ held' = [held EXCEPT ![w] = NoFd]
      /\ buf' = [buf EXCEPT ![w] = <<>>] /\ done' = [done EXCEPT ![w] = 0]
      /\ UNCHANGED queue
  BY DEF WorkerEnd, Q!Done
<1>2. w \in Busy
  BY DEF WorkerEnd, Reading, Writing, Busy
<1>3. NetTypeOK' /\ OpenFds' = OpenFds \ {held[w]}
  BY <1>1, <1>2, BusyWorker, CloseStep DEF IInv, TypeOK
<1>4. /\ held'[w] = NoFd
      /\ \A v \in Workers \ {w} : held'[v] = held[v] /\ buf'[v] = buf[v]
                                  /\ done'[v] = done[v]
      /\ buf'[w] = <<>> /\ done'[w] = 0
  BY <1>1 DEF IInv, TypeOK
<1>5. Busy' = Busy \ {w} /\ \A v \in Busy' : v \in Busy /\ v \in Workers \ {w}
  BY <1>4 DEF Busy, Serving
<1>6. Held' = Held \ {held[w]}
  <2>1. \A v \in Busy : v # w => held[v] # held[w]
    BY <1>2 DEF IInv, Own
  <2> QED
    BY <1>4, <1>5, <2>1 DEF Held
<1>7. held[w] \notin Queued /\ Queued' = Queued
  BY <1>1, <1>2 DEF IInv, Own, Queued
<1>8. OpenFds' = Queued' \cup Held'
  BY <1>3, <1>6, <1>7 DEF IInv, Own
<1>9. Own'
  BY <1>1, <1>4, <1>5, <1>8 DEF IInv, Own
<1>10. <<>> \in Seq(Byte) /\ Len(<<>>) = 0
  BY EmptySeq
<1>11. held' \in [Workers -> Fds \cup {NoFd}] /\ buf' \in [Workers -> Seq(Byte)]
         /\ done' \in [Workers -> Nat]
  BY <1>1, <1>10 DEF IInv, TypeOK
<1>12. \A v \in Workers : done'[v] \in 0 .. Len(buf'[v]) /\ Len(buf'[v]) <= BufSize
  BY <1>4, <1>10, ThreadPoolAssumption DEF IInv, TypeOK
<1>13. TypeOK'
  BY <1>1, <1>3, <1>11, <1>12 DEF IInv, TypeOK
<1> QED
  BY <1>2, <1>4, <1>5, <1>9, <1>11, <1>13 DEF IInv

\* A worker's read() fills its buffer from the front of its peer's input.
LEMMA ReadInv ==
    ASSUME IInv, NEW w \in Workers, WorkerRead(w)
    PROVE  /\ IInv'
           /\ w \in Busy /\ done[w] = Len(buf[w])
           /\ Busy' = Busy /\ UNCHANGED held
           /\ \E n \in 0 .. Len(inq[Peer(w)]) :
                 /\ SysRead(Peer(w), n)
                 /\ buf'[w] = SubSeq(inq[Peer(w)], 1, n)
           /\ done'[w] = 0
           /\ \A v \in Workers \ {w} : buf'[v] = buf[v] /\ done'[v] = done[v]
<1>1. w \in Busy /\ done[w] = Len(buf[w])
  BY DEF WorkerRead, Reading, Busy
<1> PICK c \in Clients : c = Peer(w)
  BY <1>1, BusyWorker
<1> PICK q \in Seq(Byte) : q = inq[c]
  BY DEF IInv, TypeOK, NetTypeOK
<1> PICK n : n = Smaller(BufSize, Len(q))
  OBVIOUS
<1>2. /\ SysRead(c, n) /\ buf' = [buf EXCEPT ![w] = SubSeq(q, 1, n)]
      /\ done' = [done EXCEPT ![w] = 0] /\ UNCHANGED <<queue, held>>
  BY DEF WorkerRead
<1>3. n \in 0 .. Len(q) /\ n <= BufSize
  <2>1. Len(q) \in Nat
    BY LenProperties
  <2> QED
    BY <2>1, ThreadPoolAssumption DEF Smaller
<1>4. SubSeq(q, 1, n) \in Seq(Byte) /\ Len(SubSeq(q, 1, n)) = n
  BY <1>3, SplitType
<1>5. NetTypeOK' /\ UNCHANGED fdtab
  BY <1>2, <1>3, ReadStep DEF IInv, TypeOK
<1>6. Own' /\ Busy' = Busy
  BY <1>2, <1>5, SameOwn DEF OpenFds
<1>7. /\ buf'[w] = SubSeq(q, 1, n) /\ done'[w] = 0
      /\ \A v \in Workers \ {w} : buf'[v] = buf[v] /\ done'[v] = done[v]
      /\ buf' \in [Workers -> Seq(Byte)] /\ done' \in [Workers -> Nat]
  BY <1>2, <1>4 DEF IInv, TypeOK
<1>8. \A v \in Workers : done'[v] \in 0 .. Len(buf'[v]) /\ Len(buf'[v]) <= BufSize
  <2> TAKE v \in Workers
  <2>1. CASE v = w
    BY <1>3, <1>4, <1>7, <2>1
  <2>2. CASE v # w
    <3>1. buf'[v] = buf[v] /\ done'[v] = done[v]
      BY <1>7, <2>2
    <3> QED
      BY <3>1 DEF IInv, TypeOK
  <2> QED
    BY <2>1, <2>2
<1>9. TypeOK'
  BY <1>2, <1>5, <1>7, <1>8 DEF IInv, TypeOK
<1> QED
  BY <1>1, <1>2, <1>3, <1>6, <1>7, <1>9 DEF IInv

\* A worker's write() takes the next bytes of its buffer.
LEMMA WriteInv ==
    ASSUME IInv, NEW w \in Workers, WorkerWrite(w)
    PROVE  /\ IInv'
           /\ w \in Busy /\ Busy' = Busy /\ UNCHANGED <<held, buf>>
           /\ \E to \in done[w] + 1 .. Len(buf[w]) :
                 /\ SysWrite(Peer(w), SubSeq(buf[w], done[w] + 1, to))
                 /\ done'[w] = to
           /\ \A v \in Workers \ {w} : done'[v] = done[v]
<1>1. w \in Busy /\ done[w] < Len(buf[w])
  BY DEF WorkerWrite, Writing, Busy
<1> PICK c \in Clients : c = Peer(w)
  BY <1>1, BusyWorker
<1> PICK b \in Seq(Byte) : b = buf[w]
  BY <1>1, BusyWorker
<1> PICK s \in Nat : s = done[w]
  BY DEF IInv
<1> PICK to : to = s + Smaller(Room(c), Len(b) - s)
  OBVIOUS
<1>2. /\ SysWrite(c, SubSeq(b, s + 1, to)) /\ Room(c) > 0
      /\ done' = [done EXCEPT ![w] = to] /\ UNCHANGED <<queue, held, buf>>
  BY DEF WorkerWrite, DoneAfter, CanWrite
<1>3. Room(c) \in Int
  <2>1. Len(echoed[c]) \in Nat /\ rcvd[c] \in Nat
    BY LenProperties DEF IInv, TypeOK, NetTypeOK
  <2> QED
    BY <2>1, SocketsAssumption DEF Room
<1>4. to \in s + 1 .. Len(b) /\ to \in Nat /\ Len(b) \in Nat
  <2>1. Len(b) \in Nat /\ s < Len(b)
    BY <1>1, LenProperties
  <2>2. PICK r \in Int : r = Room(c)
    BY <1>3
  <2> QED
    BY <1>2, <2>1, <2>2, Advance
<1>5. SubSeq(b, s + 1, to) \in Seq(Byte)
  <2>1. <<>> \in Seq(Byte)
    BY EmptySeq
  <2>2. NextMoves(<<>>, b, <<>>, s, to)
    BY <1>4, <2>1, MoveNext
  <2> QED
    BY <2>2 DEF NextMoves
<1>6. NetTypeOK' /\ UNCHANGED fdtab
  BY <1>2, <1>5, WriteStep DEF IInv, TypeOK
<1>7. Own' /\ Busy' = Busy
  BY <1>2, <1>6, SameOwn DEF OpenFds
<1>8. /\ done'[w] = to /\ done' \in [Workers -> Nat]
      /\ \A v \in Workers \ {w} : done'[v] = done[v]
  BY <1>2, <1>4 DEF IInv
<1>9. \A v \in Workers : done'[v] \in 0 .. Len(buf'[v]) /\ Len(buf'[v]) <= BufSize
  <2> TAKE v \in Workers
  <2>1. done[v] \in 0 .. Len(buf[v]) /\ Len(buf[v]) <= BufSize
    BY DEF IInv, TypeOK
  <2>2. buf'[v] = buf[v] /\ to \in 0 .. Len(b)
    BY <1>2, <1>4
  <2> QED
    BY <1>8, <2>1, <2>2
<1>10. TypeOK'
  BY <1>2, <1>6, <1>9 DEF IInv, TypeOK
<1> QED
  BY <1>1, <1>2, <1>4, <1>7, <1>8, <1>10 DEF IInv

\* The steps of the others, and accept() without the memory to queue what it returns.
LEMMA QuietInv ==
    ASSUME IInv, NetTypeOK', OpenFds' = OpenFds, UNCHANGED <<queue, held, buf, done>>
    PROVE  IInv' /\ Busy' = Busy
<1>1. Own' /\ Busy' = Busy
  BY SameOwn
<1> QED
  BY <1>1 DEF IInv, TypeOK

LEMMA InitInv == Init => IInv
<1> SUFFICES ASSUME Init
             PROVE  IInv
  OBVIOUS
<1>1. NetTypeOK /\ OpenFds = {}
  BY NetInitType DEF Init
<1>2. /\ <<>> \in Seq(Fds) /\ <<>> \in Seq(Byte) /\ Len(<<>>) = 0
      /\ queue = <<>> /\ held = [w \in Workers |-> NoFd]
      /\ buf = [w \in Workers |-> <<>>] /\ done = [w \in Workers |-> 0]
  BY EmptySeq DEF Init, Q!Init
<1>3. Busy = {} /\ Len(queue) = 0
  BY <1>2 DEF Busy, Serving
<1>4. Queued = {} /\ Held = {}
  BY <1>3 DEF Queued, Held
<1>5. Own
  BY <1>1, <1>3, <1>4 DEF Own
<1>6. TypeOK
  BY <1>1, <1>2, ThreadPoolAssumption DEF TypeOK
<1> QED
  BY <1>2, <1>5, <1>6 DEF IInv

LEMMA NextInv == IInv /\ [Next]_vars => IInv'
<1> SUFFICES ASSUME IInv, [Next]_vars
             PROVE  IInv'
  OBVIOUS
<1>1. CASE UNCHANGED vars
  <2>1. NetTypeOK' /\ OpenFds' = OpenFds
    BY <1>1 DEF vars, netVars, IInv, TypeOK, NetTypeOK, OpenFds
  <2> QED
    BY <1>1, <2>1, QuietInv DEF vars
<1>2. CASE AcceptNoMemory
  BY <1>2, AcceptCloseStep, QuietInv DEF AcceptNoMemory, IInv, TypeOK
<1>3. CASE PeerNext /\ UNCHANGED <<queue, held, buf, done>>
  <2>1. NetTypeOK' /\ OpenFds' = OpenFds
    BY <1>3, PeerStep DEF OpenFds, IInv, TypeOK
  <2> QED
    BY <1>3, <2>1, QuietInv
<1>4. ASSUME NEW w \in Workers, WorkerNext(w)
      PROVE  IInv'
  BY <1>4, TakeInv, ReadInv, WriteInv, EndInv DEF WorkerNext
<1> QED
  BY <1>1, <1>2, <1>3, <1>4, AcceptInv DEF Next

LEMMA Inductive == Spec => []IInv
BY InitInv, NextInv, PTL DEF Spec

\* Every variable keeps its type, and no worker has written more than it has read.
THEOREM TypeCorrect == Spec => []TypeOK
<1>1. IInv => TypeOK
  BY DEF IInv
<1> QED
  BY <1>1, Inductive, PTL

----------------------------------------------------------------------------
(* Every open connection is in exactly one place. *)

\* A set that an injective operator counts is as large as what it is counted from:
\* the queue's positions and the queued descriptors, the busy workers and theirs.
LEMMA Counted ==
    ASSUME IInv
    PROVE  /\ IsFiniteSet(Queued) /\ Cardinality(Queued) = Len(queue)
           /\ IsFiniteSet(Held) /\ Cardinality(Held) = Cardinality(Busy)
           /\ Cardinality(Busy) \in Nat
<1>1. IsFiniteSet(Fds)
  <2>1. FirstFd \in Int /\ FdLimit - 1 \in Int
    BY SocketsAssumption
  <2> QED
    BY <2>1, FS_Interval DEF Fds
<1>2. Len(queue) \in Nat /\ \A m \in 1 .. Len(queue) : queue[m] \in Fds
  BY LenProperties, ElementOfSeq DEF IInv, TypeOK
<1>3. IsFiniteSet(Queued) /\ Cardinality(Queued) = Len(queue)
  <2> DEFINE f == [m \in 1 .. Len(queue) |-> queue[m]]
  <2>1. f \in Bijection(1 .. Len(queue), Queued)
    <3>1. f \in [1 .. Len(queue) -> Queued]
      BY DEF Queued
    <3>2. \A m, n \in 1 .. Len(queue) : f[m] = f[n] => m = n
      BY DEF IInv, Own
    <3>3. \A x \in Queued : \E m \in 1 .. Len(queue) : f[m] = x
      BY DEF Queued
    <3> QED
      BY <3>1, <3>2, <3>3 DEF Bijection, Injection, Surjection, IsInjective
  <2>2. ExistsBijection(1 .. Len(queue), Queued)
    BY <2>1 DEF ExistsBijection
  <2>3. IsFiniteSet(1 .. Len(queue)) /\ Cardinality(1 .. Len(queue)) = Len(queue)
    BY <1>2, FS_Interval
  <2> QED
    BY <2>2, <2>3, FS_Bijection
<1>4. IsFiniteSet(Held)
  <2>1. Held \in SUBSET Fds
    BY BusyWorker DEF Held
  <2> QED
    BY <1>1, <2>1, FS_Subset
<1>5. IsFiniteSet(Busy) /\ Cardinality(Held) = Cardinality(Busy)
  <2> DEFINE f == [v \in Busy |-> held[v]]
  <2>1. f \in [Busy -> Held]
    BY DEF Held
  <2>2. \A v, w \in Busy : f[v] = f[w] => v = w
    BY DEF IInv, Own
  <2>3. \A x \in Held : \E v \in Busy : f[v] = x
    BY DEF Held
  <2>4. f \in Injection(Busy, Held) /\ f \in Surjection(Busy, Held)
    BY <2>1, <2>2, <2>3 DEF Injection, Surjection, IsInjective
  <2> HIDE DEF f
  <2> QED
    BY <1>4, <2>4, FS_Injection
<1>6. Cardinality(Busy) \in Nat
  BY <1>5, FS_CardinalityType
<1> QED
  BY <1>3, <1>4, <1>5, <1>6

\* The open descriptors are those in the queue and those the workers hold, and
\* each is in one place: their number is the sum.
THEOREM OwnershipCorrect == Spec => []FdOwnership
<1>1. IInv => FdOwnership
  <2> SUFFICES ASSUME IInv
               PROVE  FdOwnership
    OBVIOUS
  <2>1. OpenFds = Queued \cup Held
    BY DEF IInv, Own
  <2>2. Queued \cap Held = {}
    BY DEF IInv, Own, Queued, Held
  <2>3. Cardinality({}) = 0
    BY FS_EmptySet
  <2>4. Cardinality(Queued \cup Held) = Cardinality(Queued) + Cardinality(Held) - 0
    <3>1. IsFiniteSet(Queued) /\ IsFiniteSet(Held)
      BY Counted
    <3>2. Cardinality(Queued \cup Held)
            = Cardinality(Queued) + Cardinality(Held) - Cardinality(Queued \cap Held)
      BY <3>1, FS_Union
    <3> QED
      BY <2>2, <2>3, <3>2
  <2>5. Len(queue) \in Nat
    BY LenProperties DEF IInv, TypeOK
  <2> QED
    BY <2>1, <2>4, <2>5, Counted DEF FdOwnership, Held
<1> QED
  BY <1>1, Inductive, PTL

----------------------------------------------------------------------------
(* Bytes. *)

Unsent(w) == SubSeq(buf[w], done[w] + 1, Len(buf[w]))

\* What was echoed, what is buffered and what is not read yet make up the stream.
Whole(w) == echoed[Peer(w)] \o Unsent(w) \o inq[Peer(w)] = Stream(Peer(w))

\* A connection that waits in the queue is as it was accepted, a worker that has
\* none keeps no bytes, and one that has one has all of its bytes in their order.
StreamInv ==
    /\ IInv
    /\ Placed
    /\ \A m \in 1 .. Len(queue) : fdtab[queue[m]] \in Untouched
    /\ \A w \in Workers \ Busy : done[w] = Len(buf[w])
    /\ \A w \in Busy : Whole(w)

\* The types of what StreamInv speaks of.
LEMMA Types ==
    ASSUME StreamInv
    PROVE  /\ NetTypeOK /\ Placed
           /\ \A c \in Clients : echoed[c] \in Seq(Byte) /\ inq[c] \in Seq(Byte)
           /\ \A m \in 1 .. Len(queue) : queue[m] \in OpenFds
           /\ \A w \in Workers : buf[w] \in Seq(Byte) /\ done[w] \in Nat
                                 /\ Unsent(w) \in Seq(Byte)
<1>1. NetTypeOK /\ Placed
  BY DEF StreamInv, IInv, TypeOK
<1>2. \A m \in 1 .. Len(queue) : queue[m] \in OpenFds
  BY DEF StreamInv, IInv, Own, Queued
<1>3. \A w \in Workers : buf[w] \in Seq(Byte) /\ done[w] \in Nat
  BY DEF StreamInv, IInv, TypeOK
<1>4. \A w \in Workers : Unsent(w) \in Seq(Byte)
  BY <1>3, UnsentType DEF Unsent
<1> QED
  BY <1>1, <1>2, <1>3, <1>4 DEF NetTypeOK

LEMMA SameWhole ==
    ASSUME NEW w \in Workers, Whole(w),
           held'[w] = held[w], buf'[w] = buf[w], done'[w] = done[w],
           fdtab'[held[w]] = fdtab[held[w]],
           echoed'[Peer(w)] = echoed[Peer(w)],
           inq'[Peer(w)] = inq[Peer(w)],
           sent'[Peer(w)] = sent[Peer(w)]
    PROVE  Whole(w)'
BY DEF Whole, Unsent, Peer, Stream

\* With nothing in the buffer, a connection as it was accepted is whole.
LEMMA UntouchedWhole ==
    ASSUME StreamInv, NEW w \in Workers, Peer(w)' \in Untouched,
           done[w] = Len(buf[w]), UNCHANGED <<netVars, buf, done>>
    PROVE  Whole(w)'
<1> PICK c \in Clients : c = Peer(w)'
  BY DEF Untouched
<1>1. echoed[c] = <<>> /\ inq[c] = Stream(c) /\ inq[c] \in Seq(Byte)
  BY Types DEF Untouched
<1>2. Unsent(w) = <<>>
  BY Types, LenProperties, SubSeqEmpty DEF Unsent
<1>3. <<>> \o <<>> \o inq[c] = inq[c]
  BY <1>1, ConcatEmptySeq, EmptySeq
<1>4. /\ Unsent(w)' = Unsent(w) /\ Stream(c)' = Stream(c)
      /\ echoed'[c] = echoed[c] /\ inq'[c] = inq[c]
  BY DEF Unsent, Stream, netVars
<1> QED
  BY <1>1, <1>2, <1>3, <1>4 DEF Whole

\* A step of the main thread that queues nothing moves no byte either.
LEMMA QuietStream ==
    ASSUME StreamInv, IInv', Placed', Busy' = Busy,
           UNCHANGED <<fdtab, inq, echoed, sent, queue, held, buf, done>>
    PROVE  StreamInv'
<1>1. Untouched' = Untouched
  BY DEF Untouched, Stream
<1>2. \A w \in Busy : Whole(w)'
  <2> TAKE w \in Busy
  <2>1. w \in Workers /\ Whole(w)
    BY DEF Busy, StreamInv
  <2> QED
    BY <2>1, SameWhole
<1> QED
  BY <1>1, <1>2 DEF StreamInv

\* read() and write() of one worker concern its own peer only.
LEMMA OneStream ==
    ASSUME StreamInv, IInv', NEW w \in Busy, Busy' = Busy,
           UNCHANGED <<peer, backlog, fdtab, sent, queue, held>>,
           \A c \in Clients \ {Peer(w)} : inq'[c] = inq[c] /\ echoed'[c] = echoed[c],
           \A v \in Workers \ {w} : buf'[v] = buf[v] /\ done'[v] = done[v],
           Whole(w)'
    PROVE  StreamInv'
<1>1. w \in Workers /\ held[w] \in OpenFds
  BY BusyWorker DEF StreamInv
<1>2. Placed'
  BY <1>1, Types, DataPlaced DEF Peer
<1>3. \A m \in 1 .. Len(queue) : fdtab[queue[m]] \in Untouched'
  <2> TAKE m \in 1 .. Len(queue)
  <2>1. queue[m] # held[w] /\ queue[m] \in OpenFds
    BY Types DEF StreamInv, IInv, Own
  <2>2. fdtab[queue[m]] # Peer(w)
    BY <1>1, <2>1 DEF StreamInv, Placed, Peer
  <2>3. fdtab[queue[m]] \in Untouched
    BY DEF StreamInv
  <2> QED
    BY <2>2, <2>3 DEF Untouched, Stream
<1>4. ASSUME NEW v \in Busy, v # w
      PROVE  Whole(v)'
  <2>1. held[v] # held[w] /\ held[v] \in OpenFds /\ v \in Workers /\ Peer(v) \in Clients
    BY <1>4, BusyWorker DEF StreamInv, IInv, Own
  <2>2. Peer(v) # Peer(w)
    BY <1>1, <2>1 DEF StreamInv, Placed, Peer
  <2> QED
    BY <1>4, <2>1, <2>2, SameWhole DEF StreamInv
<1>5. \A v \in Workers \ Busy : done'[v] = Len(buf'[v])
  BY DEF StreamInv
<1> QED
  BY <1>2, <1>3, <1>4, <1>5 DEF StreamInv

\* A new connection waits untouched at the end of the queue.
LEMMA AcceptStream ==
    ASSUME StreamInv, Accept
    PROVE  StreamInv'
<1> PICK fd \in Fds : SysAccept(fd) /\ Q!Push(fd)
  BY DEF Accept
<1>1. /\ Placed' /\ fdtab'[fd] \in Untouched' /\ Untouched' = Untouched
      /\ \A gd \in OpenFds : fdtab'[gd] = fdtab[gd]
  BY Types, AcceptPlaced
<1>2. queue' = Append(queue, fd) /\ UNCHANGED <<held, buf, done, inq, echoed, sent>>
  BY DEF Accept, Q!Push, SysAccept
<1>3. /\ Len(queue) \in Nat /\ Len(queue') = Len(queue) + 1
      /\ \A m \in 1 .. Len(queue) : queue'[m] = queue[m]
      /\ queue'[Len(queue) + 1] = fd
  BY <1>2, AppendProperties, LenProperties DEF StreamInv, IInv, TypeOK
<1>4. \A m \in 1 .. Len(queue') : fdtab'[queue'[m]] \in Untouched'
  <2> TAKE m \in 1 .. Len(queue')
  <2>1. CASE m = Len(queue) + 1
    BY <1>1, <1>3, <2>1
  <2>2. CASE m # Len(queue) + 1
    <3>1. m \in 1 .. Len(queue)
      BY <1>3, <2>2
    <3>2. queue[m] \in OpenFds /\ fdtab[queue[m]] \in Untouched
      BY <3>1, Types DEF StreamInv
    <3> QED
      BY <1>1, <1>3, <3>1, <3>2
  <2> QED
    BY <2>1, <2>2
<1>5. Busy' = Busy
  BY <1>2 DEF Busy, Serving
<1>6. \A w \in Busy : Whole(w)'
  <2> TAKE w \in Busy
  <2>1. w \in Workers /\ Whole(w) /\ held[w] \in OpenFds
    BY BusyWorker DEF StreamInv
  <2> QED
    BY <1>1, <1>2, <2>1, SameWhole
<1>7. IInv'
  BY AcceptInv DEF StreamInv
<1> QED
  BY <1>1, <1>2, <1>4, <1>5, <1>6, <1>7 DEF StreamInv

\* A worker takes an untouched connection, with nothing in its buffer.
LEMMA TakeStream ==
    ASSUME StreamInv, NEW w \in Workers, Take(w)
    PROVE  StreamInv'
<1>1. /\ IInv'
      /\ Busy' = Busy \cup {w} /\ w \notin Busy
      /\ held'[w] = queue[1] /\ 1 \in 1 .. Len(queue)
      /\ \A v \in Workers \ {w} : held'[v] = held[v]
      /\ \A m \in 1 .. Len(queue') : m + 1 \in 1 .. Len(queue) /\ queue'[m] = queue[m + 1]
  BY TakeInv DEF StreamInv
<1>2. UNCHANGED <<netVars, buf, done>>
  BY DEF Take
<1>3. UNCHANGED <<peer, backlog, fdtab, sent, inq, echoed>>
  BY <1>2 DEF netVars
<1>4. Untouched' = Untouched
  BY <1>3 DEF Untouched, Stream
<1>5. Placed'
  BY <1>3, <1>4 DEF StreamInv, Placed, OpenFds
<1>6. \A m \in 1 .. Len(queue') : fdtab'[queue'[m]] \in Untouched'
  BY <1>1, <1>3, <1>4 DEF StreamInv
<1>7. Whole(w)'
  <2>1. Peer(w)' \in Untouched
    BY <1>1, <1>3 DEF StreamInv, Peer
  <2>2. done[w] = Len(buf[w])
    BY <1>1 DEF StreamInv
  <2> QED
    BY <1>2, <2>1, <2>2, UntouchedWhole
<1>8. ASSUME NEW v \in Busy
      PROVE  Whole(v)'
  <2>1. v \in Workers \ {w} /\ Whole(v)
    BY <1>1 DEF StreamInv, Busy
  <2> QED
    BY <1>1, <1>2, <1>3, <2>1, SameWhole
<1>9. \A v \in Workers \ Busy' : done'[v] = Len(buf'[v])
  BY <1>1, <1>2 DEF StreamInv
<1> QED
  BY <1>1, <1>5, <1>6, <1>7, <1>8, <1>9 DEF StreamInv

\* A worker that closes drops its own peer's bytes and no others.
LEMMA EndStream ==
    ASSUME StreamInv, NEW w \in Workers, WorkerEnd(w)
    PROVE  StreamInv'
<1>1. /\ IInv' /\ w \in Busy /\ Busy' = Busy \ {w}
      /\ done'[w] = Len(buf'[w])
      /\ \A v \in Workers \ {w} : held'[v] = held[v] /\ buf'[v] = buf[v]
                                  /\ done'[v] = done[v]
  BY EndInv DEF StreamInv
<1>2. SysClose(held[w]) /\ held[w] \in OpenFds /\ UNCHANGED queue
  BY <1>1, BusyWorker DEF WorkerEnd, Q!Done, StreamInv
<1>3. Placed' /\ \A gd \in OpenFds \ {held[w]} : fdtab'[gd] = fdtab[gd]
  BY <1>2, Types, ClosePlaced
<1>4. UNCHANGED <<inq, echoed, sent>>
  BY <1>2 DEF SysClose
<1>5. Untouched' = Untouched
  BY <1>4 DEF Untouched, Stream
<1>6. \A m \in 1 .. Len(queue') : fdtab'[queue'[m]] \in Untouched'
  <2> TAKE m \in 1 .. Len(queue')
  <2>1. m \in 1 .. Len(queue) /\ queue'[m] = queue[m]
    BY <1>2
  <2>2. queue[m] \in OpenFds \ {held[w]} /\ fdtab[queue[m]] \in Untouched
    BY <1>1, <2>1, Types DEF StreamInv, IInv, Own
  <2> QED
    BY <1>3, <1>5, <2>1, <2>2
<1>7. ASSUME NEW v \in Busy'
      PROVE  Whole(v)'
  <2>1. v \in Busy /\ v # w
    BY <1>1
  <2>2. v \in Workers \ {w} /\ Whole(v) /\ held[v] \in OpenFds
    BY <2>1, BusyWorker DEF StreamInv
  <2>3. held[v] # held[w]
    BY <1>1, <2>1 DEF StreamInv, IInv, Own
  <2> QED
    BY <1>1, <1>3, <1>4, <2>2, <2>3, SameWhole
<1>8. \A v \in Workers \ Busy' : done'[v] = Len(buf'[v])
  <2> TAKE v \in Workers \ Busy'
  <2>1. CASE v = w
    BY <1>1, <2>1
  <2>2. CASE v # w
    BY <1>1, <2>2 DEF StreamInv
  <2> QED
    BY <2>1, <2>2
<1> QED
  BY <1>1, <1>3, <1>6, <1>7, <1>8 DEF StreamInv

\* A read moves bytes from the front of the input to the written-out buffer.
LEMMA ReadStream ==
    ASSUME StreamInv, NEW w \in Workers, WorkerRead(w)
    PROVE  StreamInv'
<1> PICK c : c = Peer(w)
  OBVIOUS
<1>1. /\ IInv' /\ w \in Busy /\ done[w] = Len(buf[w])
      /\ Busy' = Busy /\ UNCHANGED held /\ done'[w] = 0
      /\ \A v \in Workers \ {w} : buf'[v] = buf[v] /\ done'[v] = done[v]
      /\ \E n \in 0 .. Len(inq[c]) : SysRead(c, n) /\ buf'[w] = SubSeq(inq[c], 1, n)
  BY ReadInv DEF StreamInv
<1>2. c \in Clients
  BY <1>1, BusyWorker DEF StreamInv
<1> PICK q \in Seq(Byte) : q = inq[c]
  BY <1>2, Types
<1> PICK d \in Seq(Byte) : d = echoed[c]
  BY <1>2, Types
<1> PICK n \in 0 .. Len(q) : SysRead(c, n) /\ buf'[w] = SubSeq(q, 1, n)
  BY <1>1
<1>3. /\ inq'[c] = SubSeq(q, n + 1, Len(q))
      /\ \A a \in Clients \ {c} : inq'[a] = inq[a]
      /\ UNCHANGED <<peer, backlog, fdtab, sent, echoed>>
  BY <1>2, Types DEF SysRead, NetTypeOK
<1>4. UNCHANGED queue
  BY DEF WorkerRead
<1>5. d \o q = Stream(c)
  <2>1. Unsent(w) = <<>>
    BY <1>1, Types, LenProperties, SubSeqEmpty DEF Unsent
  <2>2. d \o <<>> = d
    BY ConcatEmptySeq
  <2> QED
    BY <1>1, <2>1, <2>2 DEF Whole, StreamInv
<1>6. PICK b \in Seq(Byte) : b = SubSeq(q, 1, n)
  BY SplitType
<1>7. d \o b \o SubSeq(q, n + 1, Len(q)) = d \o q
  <2>1. n \in 0 .. Len(q)
    OBVIOUS
  <2>2. FrontMoves(d, q, n)
    BY <2>1, FrontBytes
  <2> QED
    BY <1>6, <2>2 DEF FrontMoves
<1>8. Unsent(w)' = b
  <2>1. SubSeq(b, 0 + 1, Len(b)) = b
    BY SubSeqFull
  <2> QED
    BY <1>1, <1>6, <2>1 DEF Unsent
<1>9. Peer(w)' = c /\ Stream(c)' = Stream(c)
  BY <1>1, <1>3 DEF Peer, Stream
<1>10. Whole(w)'
  BY <1>3, <1>5, <1>7, <1>8, <1>9 DEF Whole
<1> QED
  BY <1>1, <1>3, <1>4, <1>10, OneStream

\* A write is an echo, and leaves the rest of the buffer to be written.
LEMMA WriteStream ==
    ASSUME StreamInv, NEW w \in Workers, WorkerWrite(w)
    PROVE  /\ StreamInv'
           /\ Unclosed => Refines /\ Unclosed'
<1> PICK c : c = Peer(w)
  OBVIOUS
<1> PICK b \in Seq(Byte) : b = buf[w]
  BY Types
<1> PICK s \in Nat : s = done[w]
  BY Types
<1>1. /\ IInv' /\ w \in Busy /\ Busy' = Busy /\ UNCHANGED <<held, buf>>
      /\ \A v \in Workers \ {w} : done'[v] = done[v]
      /\ \E to \in s + 1 .. Len(b) : SysWrite(c, SubSeq(b, s + 1, to)) /\ done'[w] = to
  BY WriteInv DEF StreamInv
<1>2. c \in Clients /\ held[w] \in OpenFds
  BY <1>1, BusyWorker DEF StreamInv
<1> PICK to \in s + 1 .. Len(b) : SysWrite(c, SubSeq(b, s + 1, to)) /\ done'[w] = to
  BY <1>1
<1> PICK q \in Seq(Byte) : q = inq[c]
  BY <1>2, Types
<1> PICK d \in Seq(Byte) : d = echoed[c]
  BY <1>2, Types
<1>3. /\ SubSeq(b, s + 1, to) \in Seq(Byte)
      /\ SubSeq(b, s + 1, to) # <<>>
      /\ SubSeq(b, to + 1, Len(b)) \in Seq(Byte)
      /\ (d \o SubSeq(b, s + 1, to)) \o SubSeq(b, to + 1, Len(b)) \o q
            = d \o SubSeq(b, s + 1, Len(b)) \o q
  <2>1. NextMoves(d, b, q, s, to)
    BY MoveNext
  <2> QED
    BY <2>1 DEF NextMoves
<1> PICK out \in Seq(Byte) : out = SubSeq(b, s + 1, to)
  BY <1>3
<1> PICK rest \in Seq(Byte) : rest = SubSeq(b, to + 1, Len(b))
  BY <1>3
<1>4. (d \o out) \o rest \o q = Stream(c)
  <2>1. Whole(w) /\ Unsent(w) = SubSeq(b, s + 1, Len(b))
    BY <1>1 DEF StreamInv, Unsent
  <2> QED
    BY <1>3, <2>1 DEF Whole
<1>5. /\ echoed'[c] = d \o out
      /\ \A a \in Clients \ {c} : echoed'[a] = echoed[a]
      /\ UNCHANGED <<peer, backlog, fdtab, sent, inq>>
  BY <1>2, Types DEF SysWrite, NetTypeOK
<1>6. UNCHANGED queue
  BY DEF WorkerWrite
<1>7. /\ Peer(w)' = c /\ Stream(c)' = Stream(c) /\ Unsent(w)' = rest
  BY <1>1, <1>5 DEF Peer, Stream, Unsent
<1>8. Whole(w)'
  BY <1>4, <1>5, <1>7 DEF Whole
<1>9. StreamInv'
  BY <1>1, <1>5, <1>6, <1>8, OneStream
<1>10. ASSUME Unclosed
       PROVE  Refines /\ Unclosed'
  <2>1. (d \o out) \o (rest \o q) = Stream(c) /\ rest \o q \in Seq(Byte)
    <3>1. d \o out \in Seq(Byte) /\ rest \o q \in Seq(Byte)
      BY Concat, Zenon
    <3> PICK x \in Seq(Byte) : x = d \o out
      BY <3>1
    <3>2. Grouped(x, rest, q)
      BY Associative
    <3> QED
      BY <1>4, <3>1, <3>2 DEF Grouped
  <2>2. NetTypeOK /\ NetTypeOK' /\ Placed
    BY <1>1, Types DEF IInv, TypeOK
  <2>3. c = fdtab[held[w]] /\ out # <<>> /\ SysWrite(c, out)
    BY <1>3 DEF Peer
  <2> QED
    BY <1>2, <1>5, <1>10, <2>1, <2>2, <2>3, WriteAbstract
<1> QED
  BY <1>9, <1>10

\* What peers send goes to the end of their input, wherever their connection is.
LEMMA PeerStreamInv ==
    ASSUME StreamInv, PeerNext, UNCHANGED <<queue, held, buf, done>>
    PROVE  StreamInv'
<1>1. /\ Placed' /\ NetTypeOK' /\ UNCHANGED <<fdtab, closed, echoed>>
  BY Types, PeerPlaced, PeerStep
<1>2. IInv' /\ Busy' = Busy
  BY <1>1, QuietInv DEF StreamInv, OpenFds
<1>3. ASSUME NEW c \in Untouched
      PROVE  c \in Untouched'
  <2>1. c \in Clients /\ echoed'[c] = <<>> /\ inq[c] = Stream(c)
    BY <1>1 DEF Untouched
  <2>2. inq'[c] = Stream(c)'
    BY <2>1, Types, PeerStream
  <2> QED
    BY <2>1, <2>2 DEF Untouched
<1>4. ASSUME NEW w \in Busy
      PROVE  Whole(w)'
  <2> PICK c \in Clients : c = Peer(w)
    BY BusyWorker DEF StreamInv
  <2>1. w \in Workers /\ Unsent(w) \in Seq(Byte) /\ Whole(w) /\ echoed[c] \in Seq(Byte)
    BY Types DEF StreamInv, Busy
  <2> PICK b \in Seq(Byte) : b = echoed[c] \o Unsent(w)
    BY <2>1, ConcatProperties
  <2> PICK q \in Seq(Byte) : q = inq[c]
    BY Types
  <2>2. /\ b \o q = Stream(c)
        /\ Peer(w)' = c /\ echoed'[c] \o Unsent(w)' = b
    BY <1>1, <2>1 DEF Whole, Peer, Unsent
  <2>3. CASE inq'[c] = inq[c] /\ Stream(c)' = Stream(c)
    BY <2>2, <2>3 DEF Whole
  <2>4. ASSUME NEW x \in Byte,
               inq'[c] = Append(inq[c], x),
               Stream(c)' = Append(Stream(c), x)
        PROVE  Whole(w)'
    <3>1. b \o Append(q, x) = Append(b \o q, x)
      BY <2>4, LastByte, Zenon
    <3> QED
      BY <2>2, <2>4, <3>1 DEF Whole
  <2> QED
    BY <2>3, <2>4, Types, PeerStream
<1> QED
  BY <1>1, <1>2, <1>3, <1>4 DEF StreamInv

LEMMA InitStream == Init => StreamInv
<1> SUFFICES ASSUME Init
             PROVE  StreamInv
  OBVIOUS
<1>1. Busy = {} /\ Len(queue) = 0 /\ \A w \in Workers : done[w] = Len(buf[w])
  BY EmptySeq DEF Init, Q!Init, Busy, Serving
<1> QED
  BY <1>1, InitInv, PlacedInit DEF Init, StreamInv

\* Every step keeps every connection in one place and every byte in its stream.
LEMMA NextStream == StreamInv /\ [Next]_vars => StreamInv'
<1> SUFFICES ASSUME StreamInv, [Next]_vars
             PROVE  StreamInv'
  OBVIOUS
<1>1. IInv'
  BY NextInv DEF StreamInv
<1>2. CASE UNCHANGED vars
  <2>1. UNCHANGED <<peer, backlog, fdtab, sent, inq, echoed, queue, held, buf, done>>
    BY <1>2 DEF vars, netVars
  <2>2. Placed' /\ Busy' = Busy
    BY <2>1 DEF StreamInv, Placed, Untouched, OpenFds, Stream, Busy, Serving
  <2> QED
    BY <1>1, <2>1, <2>2, QuietStream
<1>3. CASE AcceptNoMemory
  <2>1. SysAcceptClose /\ UNCHANGED <<queue, held, buf, done>>
    BY <1>3 DEF AcceptNoMemory
  <2>2. Placed' /\ Busy' = Busy /\ UNCHANGED <<fdtab, inq, echoed, sent>>
    BY <2>1, Types, AcceptClosePlaced DEF SysAcceptClose, Busy, Serving
  <2> QED
    BY <1>1, <2>1, <2>2, QuietStream
<1>4. ASSUME NEW w \in Workers, WorkerNext(w)
      PROVE  StreamInv'
  BY <1>4, TakeStream, ReadStream, WriteStream, EndStream DEF WorkerNext
<1>5. CASE PeerNext /\ UNCHANGED <<queue, held, buf, done>>
  BY <1>5, PeerStreamInv
<1> QED
  BY <1>2, <1>3, <1>4, <1>5, AcceptStream DEF Next

----------------------------------------------------------------------------
(* Closed when drained; an echo service. *)

\* A step that closes a served connection is its worker's, at the end of the stream
\* or at a reset.
LEMMA NextDrained ==
    ASSUME StreamInv, [Next]_vars, NEW w \in Busy,
           Peer(w) \in closed' \ closed, peer[Peer(w)] # "reset"
    PROVE  Len(echoed[Peer(w)]) = sent[Peer(w)]
<1> PICK c \in Clients : c = Peer(w)
  BY BusyWorker DEF StreamInv
<1>1. CASE UNCHANGED closed
  BY <1>1
<1>2. CASE AcceptNoMemory
  <2>1. /\ backlog # <<>> /\ backlog' = Tail(backlog) /\ c = Head(backlog)
        /\ UNCHANGED <<peer, sent, inq, echoed>>
    BY <1>2 DEF AcceptNoMemory, SysAcceptClose
  <2>2. \A fd \in OpenFds : fdtab[fd] # Head(backlog)
    BY <2>1, Types, TakePlaced
  <2> QED
    BY <2>1, <2>2, BusyWorker DEF StreamInv, Peer
<1>3. ASSUME NEW v \in Workers, WorkerEnd(v)
      PROVE  Len(echoed[c]) = sent[c]
  <2>1. v \in Busy /\ SysClose(held[v])
    BY <1>3, EndInv DEF WorkerEnd, StreamInv
  <2>2. c = Peer(v)
    BY <2>1 DEF SysClose, Peer
  <2>3. done[v] = Len(buf[v]) /\ inq[c] = <<>>
    BY <1>3, <2>2 DEF WorkerEnd, Reading, AtEnd
  <2>4. Unsent(v) = <<>>
    BY <2>3, Types, LenProperties, SubSeqEmpty DEF Unsent
  <2> PICK d \in Seq(Byte) : d = echoed[c]
    BY Types
  <2>5. d \o <<>> \o <<>> = d
    BY ConcatEmptySeq
  <2>6. d = Stream(c)
    BY <2>1, <2>2, <2>3, <2>4, <2>5 DEF Whole, StreamInv
  <2> QED
    BY <2>6, Types, StreamType
<1>4. CASE PeerNext
  BY <1>1, <1>4, Types, PeerStep
<1>5. CASE \/ Accept \/ UNCHANGED vars
           \/ \E v \in Workers : Take(v) \/ WorkerRead(v) \/ WorkerWrite(v)
  <2>1. UNCHANGED closed
    BY <1>5 DEF Accept, Take, WorkerRead, WorkerWrite, SysAccept, SysRead, SysWrite,
                netVars, vars
  <2> QED
    BY <1>1, <2>1
<1> QED
  BY <1>2, <1>3, <1>4, <1>5 DEF Next, WorkerNext

\* A served connection that its peer has not reset is closed only when everything
\* the peer sent has been written back.
THEOREM DrainCorrect == Spec => CloseOnlyWhenDrained
<1>1. StreamInv /\ [Next]_vars
        => [\A w \in Busy :
               Peer(w) \in closed' \ closed /\ peer[Peer(w)] # "reset"
                   => Len(echoed[Peer(w)]) = sent[Peer(w)]]_vars
  BY NextDrained
<1> QED
  BY <1>1, InitStream, NextStream, PTL DEF Spec, CloseOnlyWhenDrained

LEMMA NextAbstract ==
    StreamInv /\ Unclosed /\ [Next]_vars => Refines /\ Unclosed'
<1> SUFFICES ASSUME StreamInv, Unclosed, [Next]_vars
             PROVE  Refines /\ Unclosed'
  OBVIOUS
<1>1. NetTypeOK /\ Placed
  BY Types
<1>2. ASSUME UNCHANGED <<peer, backlog, fdtab, closed, sent, echoed>>
      PROVE  Refines /\ Unclosed'
  BY <1>2, AbstractStutter DEF Unclosed, OpenFds
<1>3. CASE UNCHANGED vars \/ \E w \in Workers : Take(w) \/ WorkerRead(w)
  <2>1. UNCHANGED <<peer, backlog, fdtab, closed, sent, echoed>>
    BY <1>3 DEF Take, WorkerRead, SysRead, netVars, vars
  <2> QED
    BY <1>2, <2>1
<1>4. CASE Accept
  BY <1>1, <1>4, AcceptAbstract DEF Accept
<1>5. CASE AcceptNoMemory
  BY <1>1, <1>5, AcceptCloseAbstract DEF AcceptNoMemory
<1>6. ASSUME NEW w \in Workers, WorkerEnd(w)
      PROVE  Refines /\ Unclosed'
  <2>1. SysClose(held[w]) /\ held[w] \in OpenFds
    BY <1>6, EndInv, BusyWorker DEF WorkerEnd, StreamInv
  <2> QED
    BY <1>1, <2>1, CloseAbstract
<1>7. ASSUME NEW w \in Workers, WorkerWrite(w)
      PROVE  Refines /\ Unclosed'
  BY <1>7, WriteStream
<1>8. CASE PeerNext
  BY <1>1, <1>8, PeerAbstract
<1> QED
  BY <1>3, <1>4, <1>5, <1>6, <1>7, <1>8 DEF Next, WorkerNext

\* The pool implements the echo service: accept(), the queue and read() are no step
\* of it, a worker's write() is an echo of what was sent next, its close() a close.
THEOREM ImplementsEcho == Spec => EchoesPrefix
<1>1. Init => StreamInv /\ Unclosed /\ Abstract!Init
  BY InitStream, AbstractInit DEF Init
<1>2. StreamInv /\ Unclosed /\ [Next]_vars
        => StreamInv' /\ Unclosed' /\ [Abstract!Next]_(Abstract!vars)
  BY NextStream, NextAbstract DEF Refines
<1> QED
  BY <1>1, <1>2, PTL DEF Spec, EchoesPrefix, Abstract!Spec
===============================================================================
