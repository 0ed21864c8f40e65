-------------------------- MODULE PollServerProofs --------------------------
(***************************************************************************)
(* Proofs about PollServer for any number of clients, slots, descriptors   *)
(* and any buffer size.                                                    *)
(*                                                                         *)
(* TypeOK is not inductive: that closing a slot leaves closed a set of     *)
(* clients needs the slot's descriptor to be open, which is FdOwnership.   *)
(* The two together are inductive; InterestMatchesBuffer is inductive      *)
(* relative to them.                                                       *)
(***************************************************************************)
EXTENDS PollServer, SocketsProofs

IInv == TypeOK /\ FdOwnership

\* What IInv says of a slot in use: its descriptor is open and its client is a
\* peer.
LEMMA LiveSlot ==
    ASSUME IInv, NEW i \in Live
    PROVE  /\ i \in Slots
           /\ conns[i].fd \in OpenFds
           /\ conns[i].fd \in Fds
           /\ Client(i) \in Clients
BY DEF IInv, TypeOK, NetTypeOK, FdOwnership, Live, OpenFds, Client

\* A step that changes neither a slot's descriptor nor the descriptor table.
LEMMA SameOwnership ==
    ASSUME FdOwnership, UNCHANGED fdtab,
           \A i \in Slots : conns'[i].fd = conns[i].fd /\ pfds'[i].fd = pfds[i].fd
    PROVE  FdOwnership' /\ Live' = Live
<1>1. Live' = Live
  BY DEF Live
<1>2. OpenFds' = OpenFds
  BY DEF OpenFds
<1>3. {conns'[i].fd : i \in Live} = {conns[i].fd : i \in Live}
  BY DEF Live
<1>4. \A i \in Slots : pfds'[i].fd = conns'[i].fd
  BY DEF FdOwnership
<1>5. \A i, j \in Live : conns'[i].fd = conns'[j].fd => i = j
  BY DEF FdOwnership, Live
<1> QED
  BY <1>1, <1>2, <1>3, <1>4, <1>5 DEF FdOwnership

\* close_connection() frees one slot and its descriptor together.
LEMMA CloseConnection ==
    ASSUME IInv, NEW i \in Live, close_connection(i), UNCHANGED pc
    PROVE  IInv' /\ Live' = Live \ {i}
<1>1. /\ i \in Slots
      /\ conns[i].fd \in OpenFds
  BY LiveSlot
<1>2. /\ NetTypeOK'
      /\ OpenFds' = OpenFds \ {conns[i].fd}
  BY <1>1, CloseStep DEF IInv, TypeOK, close_connection
<1>3. TypeOK'
  <2>1. <<>> \in Seq(Byte)
    BY EmptySeq
  <2> QED
    BY <1>1, <1>2, <2>1 DEF IInv, TypeOK, close_connection
<1>4. /\ \A j \in Slots \ {i} : conns'[j] = conns[j] /\ pfds'[j] = pfds[j]
      /\ conns'[i].fd = NoFd
      /\ pfds'[i].fd = NoFd
  BY <1>1 DEF IInv, TypeOK, close_connection
<1>5. Live' = Live \ {i}
  BY <1>1, <1>4 DEF Live
<1>6. {conns'[j].fd : j \in Live'} = {conns[j].fd : j \in Live} \ {conns[i].fd}
  BY <1>4, <1>5 DEF IInv, FdOwnership, Live
<1>7. \A j \in Slots : pfds'[j].fd = conns'[j].fd
  BY <1>4 DEF IInv, FdOwnership
<1>8. \A j, k \in Live' : conns'[j].fd = conns'[k].fd => j = k
  BY <1>4, <1>5 DEF IInv, FdOwnership, Live
<1>9. FdOwnership'
  BY <1>2, <1>6, <1>7, <1>8 DEF IInv, FdOwnership
<1> QED
  BY <1>3, <1>5, <1>9 DEF IInv

----------------------------------------------------------------------------
(* One lemma per action. *)

\* A readiness report is made of events.
LEMMA ReportType ==
    ASSUME TypeOK, NEW i \in Slots
    PROVE  Report(i) \subseteq SUBSET Event
<1>1. pfds[i].events \subseteq Event
  BY DEF TypeOK
<1>2. \A c : Ready(c) \subseteq Event
  BY DEF Ready, Event
<1>3. \A c : Reported(c, pfds[i].events) \subseteq SUBSET Event
  BY <1>1, <1>2 DEF Reported, Event
<1> QED
  BY <1>3 DEF Report

\* Slots of poll()'s array whose fields are set one by one.
Polled(p, rev) == [i \in Slots |-> [p[i] EXCEPT !.revents = rev[i]]]
Interested(p, i, ev, rv) == [p EXCEPT ![i].events = ev, ![i].revents = rv]

LEMMA PollFdTypes ==
    ASSUME NEW D, NEW E, NEW p \in [Slots -> [fd : D, events : E, revents : E]]
    PROVE  /\ \A rev \in [Slots -> E] :
                 Polled(p, rev) \in [Slots -> [fd : D, events : E, revents : E]]
           /\ \A i \in Slots, ev, rv \in E :
                 Interested(p, i, ev, rv) \in [Slots -> [fd : D, events : E, revents : E]]
<1> USE DEF Polled, Interested
<1>1. ASSUME NEW rev \in [Slots -> E], NEW i \in Slots
      PROVE  [p[i] EXCEPT !.revents = rev[i]] \in [fd : D, events : E, revents : E]
  <2>1. p[i] \in [fd : D, events : E, revents : E] /\ rev[i] \in E
    OBVIOUS
  <2> QED
    BY <2>1
<1>2. ASSUME NEW i \in Slots, NEW ev \in E, NEW rv \in E
      PROVE  [p EXCEPT ![i].events = ev, ![i].revents = rv]
                    \in [Slots -> [fd : D, events : E, revents : E]]
  <2> PICK q : q = [p EXCEPT ![i].events = ev]
    OBVIOUS
  <2>1. q \in [Slots -> [fd : D, events : E, revents : E]]
    OBVIOUS
  <2>2. [q EXCEPT ![i].revents = rv] \in [Slots -> [fd : D, events : E, revents : E]]
    BY <2>1
  <2> QED
    BY <2>2
<1> QED
  BY <1>1, <1>2

\* poll() rewrites the revents and nothing else of a slot.
LEMMA PollInv ==
    ASSUME IInv, Poll
    PROVE  IInv' /\ UNCHANGED conns
             /\ \A i \in Slots : pfds'[i].events = pfds[i].events
<1> PICK rev \in [Slots -> UNION {Report(i) : i \in Slots}] :
        /\ \A i \in Slots : rev[i] \in Report(i)
        /\ pfds' = [i \in Slots |-> [pfds[i] EXCEPT !.revents = rev[i]]]
  BY DEF Poll
<1>1. \A i \in Slots : rev[i] \in SUBSET Event
  BY ReportType DEF IInv
<1>2. \A i \in Slots : /\ pfds'[i].fd = pfds[i].fd
                       /\ pfds'[i].events = pfds[i].events
  BY DEF IInv, TypeOK
<1>3. TypeOK'
  <2>1. pfds' \in [Slots -> [fd : Fds \cup {NoFd},
                             events : SUBSET Event, revents : SUBSET Event]]
    <3>1. rev \in [Slots -> SUBSET Event]
      BY <1>1
    <3>2. pfds \in [Slots -> [fd : Fds \cup {NoFd},
                              events : SUBSET Event, revents : SUBSET Event]]
      BY DEF IInv, TypeOK
    <3>3. Polled(pfds, rev) \in [Slots -> [fd : Fds \cup {NoFd},
                                          events : SUBSET Event, revents : SUBSET Event]]
      BY <3>1, <3>2, PollFdTypes
    <3> QED
      BY <3>3 DEF Polled
  <2>2. NetTypeOK'
    BY DEF IInv, TypeOK, Poll, netVars, NetTypeOK
  <2>3. conns' \in [Slots -> [fd : Fds \cup {NoFd}, buf : Seq(Byte), sent : Nat]]
    BY DEF IInv, TypeOK, Poll
  <2> QED
    BY <2>1, <2>2, <2>3 DEF IInv, TypeOK, Poll
<1>4. FdOwnership'
  BY <1>2, SameOwnership DEF IInv, Poll, netVars
<1> QED
  BY <1>2, <1>3, <1>4 DEF IInv, Poll

\* add_connection() puts the new descriptor in a slot that was free.
LEMMA AcceptAddInv ==
    ASSUME IInv, AcceptAdd
    PROVE  IInv'
<1> PICK fd \in Fds, i \in Slots : SysAccept(fd) /\ add_connection(i, fd)
  BY DEF AcceptAdd
<1>1. /\ NetTypeOK'
      /\ fd \notin OpenFds
      /\ OpenFds' = OpenFds \cup {fd}
  BY AcceptStep DEF IInv, TypeOK
<1>2. i \in Slots /\ conns[i].fd = NoFd /\ i \notin Live
  BY DEF add_connection, IsLowest, FreeSlots, Live
<1>3. fd # NoFd
  BY SocketsAssumption DEF Fds, NoFd
<1>4. TypeOK'
  <2>1. <<>> \in Seq(Byte)
    BY EmptySeq
  <2> QED
    BY <1>1, <2>1 DEF IInv, TypeOK, AcceptAdd, add_connection, Event
<1>5. /\ \A j \in Slots \ {i} : conns'[j] = conns[j] /\ pfds'[j] = pfds[j]
      /\ conns'[i].fd = fd
      /\ pfds'[i].fd = fd
  BY DEF IInv, TypeOK, add_connection
<1>6. Live' = Live \cup {i}
  BY <1>3, <1>5 DEF Live
<1>7. {conns'[j].fd : j \in Live'} = {conns[j].fd : j \in Live} \cup {fd}
  BY <1>2, <1>5, <1>6 DEF Live
<1>8. \A j \in Slots : pfds'[j].fd = conns'[j].fd
  BY <1>5 DEF IInv, FdOwnership
<1>9. \A j, k \in Live' : conns'[j].fd = conns'[k].fd => j = k
  <2>1. \A j \in Live : j # i /\ conns[j].fd # fd /\ conns'[j].fd = conns[j].fd
    BY <1>1, <1>2, <1>5 DEF IInv, FdOwnership, Live
  <2> QED
    BY <1>5, <1>6, <2>1 DEF IInv, FdOwnership
<1>10. FdOwnership'
  BY <1>1, <1>7, <1>8, <1>9 DEF IInv, FdOwnership
<1> QED
  BY <1>4, <1>10 DEF IInv

\* A connection nobody has a slot for leaves the slots as they are.
LEMMA AcceptRejectInv ==
    ASSUME IInv, AcceptReject
    PROVE  IInv'
<1>1. NetTypeOK' /\ UNCHANGED fdtab
  BY AcceptCloseStep DEF IInv, TypeOK, AcceptReject, SysAcceptClose
<1>2. FdOwnership'
  BY <1>1, SameOwnership DEF IInv, AcceptReject
<1> QED
  BY <1>1, <1>2 DEF IInv, TypeOK, AcceptReject

\* The end of the accept loop and the end of the scan only move the loop on.
LEMMA LoopInv ==
    ASSUME IInv, AcceptFails \/ ScanDone
    PROVE  IInv'
<1>1. UNCHANGED <<netVars, pfds, conns>>
  BY DEF AcceptFails, ScanDone
<1>2. TypeOK'
  BY <1>1 DEF IInv, TypeOK, NetTypeOK, netVars, AcceptFails, ScanDone
<1>3. FdOwnership'
  BY <1>1, SameOwnership DEF IInv, netVars
<1> QED
  BY <1>2, <1>3 DEF IInv

\* The slot the scan serves is in use.
LEMMA CurrentIsLive ==
    ASSUME NEW i \in Slots, Current(i)
    PROVE  i \in Live
BY DEF Current, IsLowest, Pending, Live

\* One read(): its bytes leave the socket and become the slot's buffer.
LEMMA HandleReadInv ==
    ASSUME IInv, NEW i \in Slots, HandleRead(i)
    PROVE  /\ IInv'
           /\ \A j \in Slots \ {i} : conns'[j] = conns[j] /\ pfds'[j] = pfds[j]
           /\ conns'[i].fd = conns[i].fd
           /\ conns'[i].sent = 0
           /\ Len(conns'[i].buf) > 0
           /\ pfds'[i].events = {"OUT"}
<1> DEFINE c == Client(i)
           n == Smaller(BufSize, Len(inq[c]))
<1>1. i \in Live /\ c \in Clients
  BY CurrentIsLive, LiveSlot DEF HandleRead, ToWrite
<1>2. inq[c] \in Seq(Byte) /\ inq[c] # <<>>
  BY <1>1 DEF IInv, TypeOK, NetTypeOK, HandleRead, ToWrite, HasInput
<1>3. Len(inq[c]) \in Nat \ {0}
  BY <1>2, EmptySeq
<1>4. n \in 1 .. Len(inq[c]) /\ n \in 0 .. Len(inq[c])
  BY <1>3, PollAssumption DEF Smaller
<1>5. /\ SubSeq(inq[c], 1, n) \in Seq(Byte)
      /\ Len(SubSeq(inq[c], 1, n)) = n
  BY <1>2, <1>4, SplitType
<1> HIDE DEF n
<1>6. NetTypeOK' /\ UNCHANGED fdtab
  <2>1. SysRead(c, n)
    BY DEF HandleRead, ToWrite, n
  <2> QED
    BY <1>1, <1>4, <2>1, ReadStep DEF IInv, TypeOK
<1>7. /\ conns' = [conns EXCEPT ![i].buf = SubSeq(inq[c], 1, n), ![i].sent = 0]
      /\ pfds' = [pfds EXCEPT ![i].events = {"OUT"}, ![i].revents = @ \cap {"OUT"}]
      /\ UNCHANGED pc
  BY DEF HandleRead, ToWrite, n
<1>8. TypeOK'
  <2>1. 0 \in Nat /\ {"OUT"} \in SUBSET Event /\ pfds[i].revents \cap {"OUT"} \in SUBSET Event
    BY DEF Event
  <2>2. conns' \in [Slots -> [fd : Fds \cup {NoFd}, buf : Seq(Byte), sent : Nat]]
    BY <1>5, <1>7, <2>1 DEF IInv, TypeOK
  <2>3. pfds' \in [Slots -> [fd : Fds \cup {NoFd},
                             events : SUBSET Event, revents : SUBSET Event]]
    <3>1. pfds \in [Slots -> [fd : Fds \cup {NoFd},
                              events : SUBSET Event, revents : SUBSET Event]]
      BY DEF IInv, TypeOK
    <3>2. pfds' = [pfds EXCEPT ![i].events = {"OUT"},
                               ![i].revents = pfds[i].revents \cap {"OUT"}]
      BY <1>7, <3>1
    <3>3. pfds' = Interested(pfds, i, {"OUT"}, pfds[i].revents \cap {"OUT"})
      BY <3>2 DEF Interested
    <3> QED
      BY <2>1, <3>1, <3>3, PollFdTypes
  <2> QED
    BY <1>6, <1>7, <2>2, <2>3 DEF IInv, TypeOK
<1>9. \A j \in Slots : conns'[j].fd = conns[j].fd /\ pfds'[j].fd = pfds[j].fd
  BY <1>7 DEF IInv, TypeOK
<1>10. FdOwnership'
  BY <1>6, <1>9, SameOwnership DEF IInv
<1>11. /\ \A j \in Slots \ {i} : conns'[j] = conns[j] /\ pfds'[j] = pfds[j]
       /\ conns'[i].sent = 0
       /\ conns'[i].buf = SubSeq(inq[c], 1, n)
       /\ pfds'[i].events = {"OUT"}
  BY <1>7 DEF IInv, TypeOK
<1> QED
  BY <1>4, <1>5, <1>8, <1>9, <1>10, <1>11 DEF IInv

\* One write(): the bytes sent leave the buffer for the peer.  When none is left
\* the buffer is empty and the interest is POLLIN; else both stay as they were.
LEMMA HandleWriteInv ==
    ASSUME IInv, NEW i \in Slots, HandleWrite(i)
    PROVE  /\ IInv'
           /\ \A j \in Slots \ {i} : conns'[j] = conns[j] /\ pfds'[j] = pfds[j]
           /\ conns'[i].fd = conns[i].fd
           /\ \/ /\ conns'[i].sent = 0
                 /\ conns'[i].buf = <<>>
                 /\ pfds'[i].events = {"IN"}
              \/ /\ conns'[i].sent \in conns[i].sent .. Used(i) - 1
                 /\ conns'[i].buf = conns[i].buf
                 /\ pfds'[i].events = pfds[i].events
<1> DEFINE c == Client(i)
           to == conns[i].sent + Smaller(Room(c), Used(i) - conns[i].sent)
           out == SubSeq(conns[i].buf, conns[i].sent + 1, to)
<1>1. i \in Live /\ c \in Clients
  BY CurrentIsLive, LiveSlot DEF HandleWrite, From, ToRead, SentAfter
<1>2. /\ conns[i].buf \in Seq(Byte)
      /\ conns[i].sent \in Nat
      /\ Used(i) \in Nat
      /\ conns[i].sent < Used(i)
  BY LenProperties DEF IInv, TypeOK, HandleWrite, From, ToRead, SentAfter, Writing, Used
<1>3. Room(c) \in Int /\ Room(c) > 0
  <2>1. rcvd[c] \in Nat /\ Len(echoed[c]) \in Nat
    BY <1>1, LenProperties DEF IInv, TypeOK, NetTypeOK
  <2> QED
    BY <2>1, SocketsAssumption DEF Room, HandleWrite, From, ToRead, SentAfter, CanWrite
<1>4. to \in conns[i].sent + 1 .. Used(i)
  BY <1>2, <1>3 DEF Smaller
<1>5. out \in Seq(Byte)
  <2>1. \A m \in conns[i].sent + 1 .. to : conns[i].buf[m] \in Byte
    BY <1>2, <1>4, ElementOfSeq DEF Used
  <2>2. conns[i].sent + 1 \in Int /\ to \in Int
    BY <1>2, <1>4
  <2> QED
    BY <2>1, <2>2, SubSeqProperties
<1>6. /\ SysWrite(c, out)
      /\ IF to = Used(i)
         THEN /\ conns' = [conns EXCEPT ![i].buf = <<>>, ![i].sent = 0]
              /\ pfds' = [pfds EXCEPT ![i].events = {"IN"}, ![i].revents = {}]
         ELSE /\ conns' = [conns EXCEPT ![i].sent = to]
              /\ pfds' = [pfds EXCEPT ![i].revents = {}]
      /\ UNCHANGED pc
  BY DEF HandleWrite, From, ToRead, SentAfter
<1> HIDE DEF to, out
<1>7. NetTypeOK' /\ UNCHANGED fdtab
  BY <1>1, <1>5, <1>6, WriteStep DEF IInv, TypeOK
<1>8. <<>> \in Seq(Byte) /\ to \in Nat
  BY <1>2, <1>4, EmptySeq
<1>9. CASE to = Used(i)
  <2>1. /\ conns' = [conns EXCEPT ![i].buf = <<>>, ![i].sent = 0]
        /\ pfds' = [pfds EXCEPT ![i].events = {"IN"}, ![i].revents = {}]
        /\ UNCHANGED pc
    BY <1>6, <1>9
  <2>2. conns' \in [Slots -> [fd : Fds \cup {NoFd}, buf : Seq(Byte), sent : Nat]]
    <3>1. conns \in [Slots -> [fd : Fds \cup {NoFd}, buf : Seq(Byte), sent : Nat]]
      BY DEF IInv, TypeOK
    <3>2. 0 \in Nat OBVIOUS
    <3> QED
      BY <1>8, <2>1, <3>1, <3>2
  <2>3. pfds' \in [Slots -> [fd : Fds \cup {NoFd},
                             events : SUBSET Event, revents : SUBSET Event]]
    <3>1. pfds \in [Slots -> [fd : Fds \cup {NoFd},
                              events : SUBSET Event, revents : SUBSET Event]]
      BY DEF IInv, TypeOK
    <3>2. {"IN"} \in SUBSET Event /\ {} \in SUBSET Event
      BY DEF Event
    <3>3. pfds' = Interested(pfds, i, {"IN"}, {})
      BY <2>1 DEF Interested
    <3> QED
      BY <3>1, <3>2, <3>3, PollFdTypes
  <2>4. TypeOK'
    BY <1>7, <2>1, <2>2, <2>3 DEF IInv, TypeOK
  <2>5. \A j \in Slots : conns'[j].fd = conns[j].fd /\ pfds'[j].fd = pfds[j].fd
    BY <2>1 DEF IInv, TypeOK
  <2>6. FdOwnership'
    BY <1>7, <2>5, SameOwnership DEF IInv
  <2>7. /\ \A j \in Slots \ {i} : conns'[j] = conns[j] /\ pfds'[j] = pfds[j]
        /\ conns'[i].sent = 0
        /\ conns'[i].buf = <<>>
        /\ pfds'[i].events = {"IN"}
    BY <2>1 DEF IInv, TypeOK
  <2> QED
    BY <2>4, <2>5, <2>6, <2>7 DEF IInv
<1>10. CASE to # Used(i)
  <2>1. /\ conns' = [conns EXCEPT ![i].sent = to]
        /\ pfds' = [pfds EXCEPT ![i].revents = {}]
        /\ UNCHANGED pc
    BY <1>6, <1>10
  <2>2. TypeOK'
    BY <1>7, <1>8, <2>1 DEF IInv, TypeOK
  <2>3. \A j \in Slots : conns'[j].fd = conns[j].fd /\ pfds'[j].fd = pfds[j].fd
    BY <2>1 DEF IInv, TypeOK
  <2>4. FdOwnership'
    BY <1>7, <2>3, SameOwnership DEF IInv
  <2>5. /\ \A j \in Slots \ {i} : conns'[j] = conns[j] /\ pfds'[j] = pfds[j]
        /\ conns'[i].sent = to
        /\ conns'[i].buf = conns[i].buf
        /\ pfds'[i].events = pfds[i].events
    BY <2>1 DEF IInv, TypeOK
  <2>6. to \in conns[i].sent .. Used(i) - 1
    BY <1>2, <1>4, <1>10
  <2> QED
    BY <2>2, <2>3, <2>4, <2>5, <2>6 DEF IInv
<1> QED
  BY <1>9, <1>10

\* Nothing to do for a slot: only its revents change.
LEMMA HandleNothingInv ==
    ASSUME IInv, NEW i \in Slots, HandleNothing(i)
    PROVE  IInv' /\ UNCHANGED conns
             /\ \A j \in Slots : pfds'[j].events = pfds[j].events
<1>1. \A j \in Slots : /\ pfds'[j].fd = pfds[j].fd
                       /\ pfds'[j].events = pfds[j].events
  BY DEF IInv, TypeOK, HandleNothing, WriteFails
<1>2. TypeOK'
  <2>1. UNCHANGED <<netVars, conns, pc>> /\ pfds' = [pfds EXCEPT ![i].revents = {}]
    BY DEF HandleNothing, WriteFails
  <2>2. NetTypeOK'
    BY <2>1 DEF IInv, TypeOK, NetTypeOK, netVars
  <2> QED
    BY <2>1, <2>2 DEF IInv, TypeOK
<1>3. FdOwnership'
  BY <1>1, SameOwnership DEF IInv, HandleNothing, WriteFails, netVars
<1> QED
  BY <1>1, <1>2, <1>3 DEF IInv, HandleNothing, WriteFails

\* Every way the scan closes a connection.
LEMMA HandleCloseInv ==
    ASSUME IInv, NEW i \in Slots, HandleHup(i) \/ HandleEnd(i)
    PROVE  /\ IInv'
           /\ Live' = Live \ {i}
           /\ \A j \in Slots \ {i} : conns'[j] = conns[j] /\ pfds'[j] = pfds[j]
<1>1. i \in Live /\ close_connection(i) /\ UNCHANGED pc
  BY CurrentIsLive DEF HandleHup, HandleEnd, WriteFails
<1>2. IInv' /\ Live' = Live \ {i}
  BY <1>1, CloseConnection
<1>3. \A j \in Slots \ {i} : conns'[j] = conns[j] /\ pfds'[j] = pfds[j]
  BY <1>1 DEF IInv, TypeOK, close_connection
<1> QED
  BY <1>2, <1>3

\* What a peer does, and a stuttering step, leave the slots alone.
LEMMA PeerInv ==
    ASSUME IInv, (PeerNext /\ UNCHANGED <<pc, pfds, conns>>) \/ UNCHANGED vars
    PROVE  IInv' /\ UNCHANGED <<pfds, conns>>
<1>1. UNCHANGED <<pc, pfds, conns>>
  BY DEF vars
<1>2. NetTypeOK' /\ UNCHANGED fdtab
  <2>1. CASE PeerNext
    BY <2>1, PeerStep DEF IInv, TypeOK
  <2>2. CASE UNCHANGED vars
    BY <2>2 DEF IInv, TypeOK, NetTypeOK, vars, netVars
  <2> QED
    BY <2>1, <2>2
<1>3. TypeOK'
  BY <1>1, <1>2 DEF IInv, TypeOK
<1>4. FdOwnership'
  BY <1>1, <1>2, SameOwnership DEF IInv
<1> QED
  BY <1>1, <1>3, <1>4 DEF IInv

----------------------------------------------------------------------------
(* The invariants. *)

\* No connection is open and no slot in use when the server starts.
LEMMA InitInv == Init => IInv /\ Live = {}
<1> SUFFICES ASSUME Init
             PROVE  IInv /\ Live = {}
  OBVIOUS
<1>1. NetTypeOK /\ OpenFds = {}
  BY NetInitType DEF Init
<1>2. <<>> \in Seq(Byte)
  BY EmptySeq
<1>3. TypeOK
  BY <1>1, <1>2 DEF Init, TypeOK, Event
<1>4. Live = {}
  BY DEF Init, Live
<1>5. FdOwnership
  BY <1>1, <1>4 DEF Init, FdOwnership
<1> QED
  BY <1>3, <1>4, <1>5 DEF IInv

\* Every step keeps the types and the ownership of the descriptors.
LEMMA NextInv == IInv /\ [Next]_vars => IInv'
<1> SUFFICES ASSUME IInv, [Next]_vars
             PROVE  IInv'
  OBVIOUS
<1>1. CASE Poll
  BY <1>1, PollInv
<1>2. CASE AcceptAdd
  BY <1>2, AcceptAddInv
<1>3. CASE AcceptReject
  BY <1>3, AcceptRejectInv
<1>4. CASE AcceptFails \/ ScanDone
  BY <1>4, LoopInv
<1>5. ASSUME NEW i \in Slots, HandleHup(i) \/ HandleEnd(i)
      PROVE  IInv'
  BY <1>5, HandleCloseInv
<1>6. ASSUME NEW i \in Slots, HandleRead(i)
      PROVE  IInv'
  BY <1>6, HandleReadInv
<1>7. ASSUME NEW i \in Slots, HandleWrite(i)
      PROVE  IInv'
  BY <1>7, HandleWriteInv
<1>8. ASSUME NEW i \in Slots, HandleNothing(i)
      PROVE  IInv'
  BY <1>8, HandleNothingInv
<1>9. CASE (PeerNext /\ UNCHANGED <<pc, pfds, conns>>) \/ UNCHANGED vars
  BY <1>9, PeerInv
<1> QED
  BY <1>1, <1>2, <1>3, <1>4, <1>5, <1>6, <1>7, <1>8, <1>9 DEF Next, ServerNext

\* The inductive invariant holds in every behaviour.
LEMMA Inductive == Spec => []IInv
<1>1. Init => IInv
  BY InitInv
<1> QED
  BY <1>1, NextInv, PTL DEF Spec

\* Every variable of the poll server and of the network keeps its type.
THEOREM TypeCorrect == Spec => []TypeOK
<1>1. IInv => TypeOK
  BY DEF IInv
<1> QED
  BY <1>1, Inductive, PTL

\* The connections open in the kernel are exactly those in slots, one slot each,
\* whatever accept(), rejection, closing and slot reuse come in between.
THEOREM OwnershipCorrect == Spec => []FdOwnership
<1>1. IInv => FdOwnership
  BY DEF IInv
<1> QED
  BY <1>1, Inductive, PTL

\* No step makes a slot deaf to its peer or lets poll() spin on it.
LEMMA NextInterest ==
    IInv /\ InterestMatchesBuffer /\ [Next]_vars => InterestMatchesBuffer'
<1> SUFFICES ASSUME IInv, InterestMatchesBuffer, [Next]_vars
             PROVE  InterestMatchesBuffer'
  OBVIOUS
<1> USE DEF InterestMatchesBuffer, Live, Used
<1>1. CASE Poll
  BY <1>1, PollInv
<1>2. CASE AcceptAdd
  <2> PICK fd \in Fds, i \in Slots : add_connection(i, fd)
    BY <1>2 DEF AcceptAdd
  <2>1. \A j \in Slots \ {i} : conns'[j] = conns[j] /\ pfds'[j] = pfds[j]
    BY DEF IInv, TypeOK, add_connection
  <2>2. conns'[i].buf = <<>> /\ conns'[i].sent = 0 /\ pfds'[i].events = {"IN"}
    BY DEF IInv, TypeOK, add_connection
  <2>3. Len(conns'[i].buf) = 0
    BY <2>2, EmptySeq
  <2>4. \A j \in Slots \ {i} : j \in Live' => pfds'[j].events
                  = IF conns'[j].sent < Used(j)' THEN {"OUT"} ELSE {"IN"}
    BY <2>1
  <2>5. pfds'[i].events = IF conns'[i].sent < Used(i)' THEN {"OUT"} ELSE {"IN"}
    BY <2>2, <2>3
  <2> QED
    BY <2>4, <2>5
<1>3. CASE AcceptReject \/ AcceptFails \/ ScanDone
  <2>1. UNCHANGED <<conns, pfds>>
    BY <1>3 DEF AcceptReject, AcceptFails, ScanDone
  <2> QED
    BY <2>1
<1>4. ASSUME NEW i \in Slots, HandleHup(i) \/ HandleEnd(i)
      PROVE  InterestMatchesBuffer'
  BY <1>4, HandleCloseInv
<1>5. ASSUME NEW i \in Slots, HandleRead(i)
      PROVE  InterestMatchesBuffer'
  <2>1. /\ \A j \in Slots \ {i} : conns'[j] = conns[j] /\ pfds'[j] = pfds[j]
        /\ conns'[i].sent = 0 /\ Used(i)' > 0 /\ pfds'[i].events = {"OUT"}
    BY <1>5, HandleReadInv
  <2>2. ASSUME NEW j \in Live', j # i
        PROVE  pfds'[j].events = IF conns'[j].sent < Used(j)' THEN {"OUT"} ELSE {"IN"}
    BY <2>1, <2>2
  <2>3. pfds'[i].events = IF conns'[i].sent < Used(i)' THEN {"OUT"} ELSE {"IN"}
    BY <2>1
  <2> QED
    BY <2>2, <2>3
<1>6. ASSUME NEW i \in Slots, HandleWrite(i)
      PROVE  InterestMatchesBuffer'
  <2>1. i \in Live /\ conns[i].sent \in Nat /\ Len(conns[i].buf) \in Nat
    BY <1>6, CurrentIsLive, LenProperties DEF HandleWrite, From, ToRead, SentAfter, IInv, TypeOK
  <2>2. conns[i].sent < Used(i)
    BY <1>6 DEF HandleWrite, From, ToRead, SentAfter, Writing
  <2>3. /\ \A j \in Slots \ {i} : conns'[j] = conns[j] /\ pfds'[j] = pfds[j]
        /\ \/ /\ conns'[i].sent = 0
              /\ Len(conns'[i].buf) = 0
              /\ pfds'[i].events = {"IN"}
           \/ /\ conns'[i].sent < Len(conns'[i].buf)
              /\ pfds'[i].events = pfds[i].events
    BY <1>6, <2>1, EmptySeq, HandleWriteInv
  <2>4. pfds[i].events = {"OUT"}
    BY <2>1, <2>2
  <2>5. \A j \in Slots \ {i} : j \in Live' => pfds'[j].events
                  = IF conns'[j].sent < Used(j)' THEN {"OUT"} ELSE {"IN"}
    BY <2>3
  <2>6. pfds'[i].events = IF conns'[i].sent < Used(i)' THEN {"OUT"} ELSE {"IN"}
    <3>1. CASE /\ conns'[i].sent = 0
               /\ Len(conns'[i].buf) = 0
               /\ pfds'[i].events = {"IN"}
      BY <3>1
    <3>2. CASE /\ conns'[i].sent < Len(conns'[i].buf)
               /\ pfds'[i].events = pfds[i].events
      BY <2>4, <3>2
    <3> QED
      BY <2>3, <3>1, <3>2
  <2> QED
    BY <2>5, <2>6
<1>7. ASSUME NEW i \in Slots, HandleNothing(i)
      PROVE  InterestMatchesBuffer'
  BY <1>7, HandleNothingInv
<1>8. CASE (PeerNext /\ UNCHANGED <<pc, pfds, conns>>) \/ UNCHANGED vars
  BY <1>8, PeerInv
<1> QED
  BY <1>1, <1>2, <1>3, <1>4, <1>5, <1>6, <1>7, <1>8 DEF Next, ServerNext

\* poll() is asked for POLLOUT exactly while a slot has bytes to write and for
\* POLLIN exactly while it has none.
THEOREM InterestCorrect == Spec => []InterestMatchesBuffer
<1>1. Init => InterestMatchesBuffer
  BY InitInv DEF InterestMatchesBuffer
<1> QED
  BY <1>1, Inductive, NextInterest, PTL DEF Spec

----------------------------------------------------------------------------
(* The poll server loses, repeats, reorders and misdirects no byte.
   StreamIntact speaks of the slots in use.  That a new connection starts with
   nothing echoed, and that no two slots serve one peer, is Placed of
   SocketsProofs: a connection is in one place.  With IInv the three are
   inductive. *)

StreamInv == IInv /\ Placed /\ StreamIntact

\* Two slots never serve one peer.
LEMMA OneSlotPerClient ==
    ASSUME IInv, Placed, NEW i \in Live, NEW j \in Live, Client(i) = Client(j)
    PROVE  i = j
<1>1. conns[i].fd \in OpenFds /\ conns[j].fd \in OpenFds
  BY LiveSlot
<1>2. conns[i].fd = conns[j].fd
  BY <1>1 DEF Placed, Client
<1> QED
  BY <1>2 DEF IInv, FdOwnership

\* What StreamIntact says of one slot: echoed, then buffered, then not read yet,
\* is all that was sent.
Whole(i) ==
    echoed[Client(i)] \o SubSeq(conns[i].buf, conns[i].sent + 1, Used(i))
        \o inq[Client(i)] = Stream(Client(i))

\* A slot whose peer and whose own data a step does not touch stays whole.
LEMMA SameWhole ==
    ASSUME NEW i \in Slots, Whole(i), conns'[i] = conns[i],
           fdtab'[conns[i].fd] = fdtab[conns[i].fd],
           echoed'[Client(i)] = echoed[Client(i)],
           inq'[Client(i)] = inq[Client(i)],
           sent'[Client(i)] = sent[Client(i)]
    PROVE  Whole(i)'
BY DEF Whole, Client, Used, Stream

----------------------------------------------------------------------------
(* One lemma per action that moves bytes or descriptors. *)

\* Adding a connection: nothing echoed, nothing buffered, all of it unread.
LEMMA AcceptAddStream ==
    ASSUME StreamInv, AcceptAdd
    PROVE  Placed' /\ StreamIntact'
<1> PICK fd \in Fds, i \in Slots : SysAccept(fd) /\ add_connection(i, fd)
  BY DEF AcceptAdd
<1>1. /\ Placed'
      /\ fdtab'[fd] \in Untouched'
      /\ \A gd \in OpenFds : fdtab'[gd] = fdtab[gd]
  BY AcceptPlaced DEF StreamInv, IInv, TypeOK
<1>2. /\ UNCHANGED <<inq, echoed, sent>>
      /\ i \in Slots
      /\ conns'[i].fd = fd /\ conns'[i].buf = <<>> /\ conns'[i].sent = 0
      /\ \A j \in Slots \ {i} : conns'[j] = conns[j]
  BY DEF SysAccept, add_connection, StreamInv, IInv, TypeOK
<1>3. ASSUME NEW j \in Live', j # i
      PROVE  Whole(j)'
  <2>1. j \in Live /\ j \in Slots /\ conns'[j] = conns[j]
    BY <1>2, <1>3 DEF Live
  <2>2. conns[j].fd \in OpenFds /\ Whole(j)
    BY <2>1, LiveSlot DEF StreamInv, StreamIntact, Whole
  <2> QED
    BY <1>1, <1>2, <2>1, <2>2, SameWhole
<1>4. Whole(i)'
  <2> PICK c \in Clients : c = fdtab'[fd]
    BY <1>1 DEF Untouched
  <2>1. /\ c \in Clients
        /\ echoed'[c] = <<>>
        /\ inq'[c] = Stream(c)'
    BY <1>1 DEF Untouched
  <2>2. Client(i)' = c
    BY <1>2 DEF Client
  <2>3. inq[c] \in Seq(Byte) /\ inq'[c] = inq[c]
    BY <1>2, <2>1 DEF StreamInv, IInv, TypeOK, NetTypeOK
  <2>4. SubSeq(conns'[i].buf, conns'[i].sent + 1, Used(i)') = <<>>
    <3>1. Used(i)' = 0
      BY <1>2, EmptySeq DEF Used
    <3> QED
      BY <1>2, <3>1, SubSeqEmpty
  <2>5. <<>> \o <<>> \o inq[c] = inq[c]
    BY <2>3, ConcatEmptySeq, EmptySeq
  <2> QED
    BY <2>1, <2>2, <2>3, <2>4, <2>5 DEF Whole
<1> QED
  BY <1>1, <1>3, <1>4 DEF StreamIntact, Whole

\* A slot that closes takes its peer's bytes with it and touches no other slot.
LEMMA HandleCloseStream ==
    ASSUME StreamInv, NEW i \in Slots, HandleHup(i) \/ HandleEnd(i)
    PROVE  Placed' /\ StreamIntact'
<1>1. i \in Live /\ SysClose(conns[i].fd)
  BY CurrentIsLive DEF HandleHup, HandleEnd, WriteFails, close_connection
<1>2. conns[i].fd \in OpenFds
  BY <1>1, LiveSlot DEF StreamInv
<1>3. /\ Placed'
      /\ \A gd \in OpenFds \ {conns[i].fd} : fdtab'[gd] = fdtab[gd]
  BY <1>1, <1>2, ClosePlaced DEF StreamInv, IInv, TypeOK
<1>4. /\ Live' = Live \ {i}
      /\ \A j \in Slots \ {i} : conns'[j] = conns[j]
  BY HandleCloseInv DEF StreamInv
<1>5. UNCHANGED <<inq, echoed, sent>>
  BY <1>1 DEF SysClose
<1>6. ASSUME NEW j \in Live'
      PROVE  Whole(j)'
  <2>1. j \in Live /\ j # i /\ j \in Slots
    BY <1>4, <1>6 DEF Live
  <2>2. conns[j].fd \in OpenFds \ {conns[i].fd} /\ Whole(j)
    BY <1>1, <2>1, LiveSlot DEF StreamInv, StreamIntact, Whole, IInv, FdOwnership
  <2> QED
    BY <1>3, <1>4, <1>5, <2>1, <2>2, SameWhole
<1> QED
  BY <1>3, <1>6 DEF StreamIntact, Whole

\* A step that leaves every slot's data and the network as they are.
LEMMA QuietStream ==
    ASSUME StreamInv, UNCHANGED <<conns, peer, backlog, fdtab, sent, inq, echoed>>
    PROVE  Placed' /\ StreamIntact'
<1>1. Placed'
  BY DEF StreamInv, Placed, Untouched, OpenFds, Stream
<1>2. Live' = Live /\ \A i \in Live : i \in Slots /\ Whole(i)
  BY DEF StreamInv, StreamIntact, Live, Whole
<1>3. \A i \in Live : Whole(i)'
  BY <1>2, SameWhole
<1>4. StreamIntact'
  BY <1>2, <1>3 DEF StreamIntact, Whole
<1> QED
  BY <1>1, <1>4

\* The other slots when the scan moves bytes between slot i and its peer.
LEMMA OthersWhole ==
    ASSUME StreamInv, NEW i \in Live, NEW j \in Live, j # i,
           conns'[j] = conns[j], UNCHANGED <<fdtab, sent>>,
           \A d \in Clients \ {Client(i)} : inq'[d] = inq[d] /\ echoed'[d] = echoed[d]
    PROVE  Whole(j)'
<1>1. Client(j) \in Clients \ {Client(i)} /\ j \in Slots /\ Whole(j)
  BY LiveSlot, OneSlotPerClient DEF StreamInv, StreamIntact, Whole
<1> QED
  BY <1>1, SameWhole

\* A read moves bytes from the front of the input to the (empty) buffer.
LEMMA HandleReadStream ==
    ASSUME StreamInv, NEW i \in Slots, HandleRead(i)
    PROVE  Placed' /\ StreamIntact'
<1>1. i \in Live /\ Client(i) \in Clients /\ conns[i].fd \in OpenFds
  BY CurrentIsLive, LiveSlot DEF HandleRead, ToWrite, StreamInv
<1> PICK c \in Clients : c = Client(i)
  BY <1>1
<1> DEFINE n == Smaller(BufSize, Len(inq[c]))
           e == echoed[c]
           q == inq[c]
<1>2. e \in Seq(Byte) /\ q \in Seq(Byte)
  BY <1>1 DEF StreamInv, IInv, TypeOK, NetTypeOK
<1>3. n \in 0 .. Len(q)
  BY <1>2, LenProperties, PollAssumption DEF Smaller
<1>4. SysRead(c, n)
  BY DEF HandleRead, ToWrite
<1>5. /\ inq'[c] = SubSeq(q, n + 1, Len(q))
      /\ \A d \in Clients \ {c} : inq'[d] = inq[d]
      /\ UNCHANGED <<peer, backlog, fdtab, sent, echoed>>
  BY <1>1, <1>4 DEF SysRead, StreamInv, IInv, TypeOK, NetTypeOK
<1>6. /\ conns'[i].buf = SubSeq(q, 1, n)
      /\ conns'[i].sent = 0
      /\ conns'[i].fd = conns[i].fd
      /\ \A j \in Slots \ {i} : conns'[j] = conns[j]
  <2>1. conns' = [conns EXCEPT ![i].buf = SubSeq(q, 1, n), ![i].sent = 0]
    BY DEF HandleRead, ToWrite
  <2> HIDE DEF n, q
  <2> QED
    BY <2>1 DEF StreamInv, IInv, TypeOK
<1>7. Placed'
  BY <1>1, <1>5, DataPlaced DEF Client, StreamInv, IInv, TypeOK
<1>8. Live' = Live
  BY <1>1, <1>6 DEF Live
<1>9. e \o q = Stream(c)
  <2>1. /\ conns[i].sent = Used(i)
        /\ Used(i) \in Nat
    BY LenProperties DEF HandleRead, ToWrite, Reading, StreamInv, IInv, TypeOK, Used
  <2>2. SubSeq(conns[i].buf, conns[i].sent + 1, Used(i)) = <<>>
    BY <2>1, SubSeqEmpty
  <2>3. Whole(i)
    BY <1>1 DEF StreamInv, StreamIntact, Whole
  <2>4. e \o <<>> = e
    BY <1>2, ConcatEmptySeq
  <2> QED
    BY <2>2, <2>3, <2>4 DEF Whole
<1> HIDE DEF n
<1>10. Whole(i)'
  <2> DEFINE b == SubSeq(q, 1, n)
  <2>1. b \in Seq(Byte)
    BY <1>2, <1>3, SplitType
  <2>2. SubSeq(b, 0 + 1, Len(b)) = b
    BY <2>1, SubSeqFull
  <2>3. e \o b \o SubSeq(q, n + 1, Len(q)) = e \o q
    <3>1. FrontMoves(e, q, n)
      <4>1. n \in 0 .. Len(q)
        BY <1>3
      <4> HIDE DEF e, q
      <4> QED
        BY <1>2, <4>1, FrontBytes
    <3> QED
      BY <3>1 DEF FrontMoves
  <2>4. /\ Client(i)' = c
        /\ Stream(c)' = Stream(c)
        /\ echoed'[c] = e
    BY <1>5, <1>6 DEF Client, Stream
  <2>5. conns'[i].buf = b /\ Used(i)' = Len(b)
    BY <1>6 DEF Used
  <2> HIDE DEF b
  <2> QED
    BY <1>5, <1>6, <1>9, <2>2, <2>3, <2>4, <2>5 DEF Whole
<1>11. \A j \in Live \ {i} : Whole(j)'
  <2> TAKE j \in Live \ {i}
  <2>1. j \in Live /\ j # i /\ conns'[j] = conns[j]
    BY <1>6 DEF Live
  <2> QED
    BY <1>1, <1>5, <2>1, OthersWhole
<1> QED
  BY <1>7, <1>8, <1>10, <1>11 DEF StreamIntact, Whole

\* A write moves the next bytes of the buffer to the end of the echo; when it
\* was all, the buffer is empty, else sent marks where the rest begins.
LEMMA HandleWriteStream ==
    ASSUME StreamInv, NEW i \in Slots, HandleWrite(i)
    PROVE  Placed' /\ StreamIntact'
<1>1. i \in Live /\ Client(i) \in Clients /\ conns[i].fd \in OpenFds
  BY CurrentIsLive, LiveSlot DEF HandleWrite, From, ToRead, SentAfter, StreamInv
<1> PICK c \in Clients : c = Client(i)
  BY <1>1
<1> DEFINE s == conns[i].sent
           b == conns[i].buf
           to == s + Smaller(Room(c), Used(i) - s)
           out == SubSeq(b, s + 1, to)
           rest == SubSeq(b, to + 1, Used(i))
           e == echoed[c]
           q == inq[c]
<1>2. e \in Seq(Byte) /\ q \in Seq(Byte) /\ b \in Seq(Byte)
  BY DEF StreamInv, IInv, TypeOK, NetTypeOK
<1>3. s \in Nat /\ Used(i) \in Nat /\ Used(i) = Len(b) /\ s < Used(i)
  BY <1>2, LenProperties DEF HandleWrite, From, ToRead, SentAfter, Writing, StreamInv, IInv,
              TypeOK, Used
<1>4. to \in s + 1 .. Used(i)
  <2>1. rcvd[c] \in Nat /\ Len(e) \in Nat
    BY <1>2, LenProperties DEF StreamInv, IInv, TypeOK, NetTypeOK
  <2>2. Room(c) \in Int /\ Room(c) > 0
    BY <2>1, SocketsAssumption DEF Room, HandleWrite, From, ToRead, SentAfter, CanWrite
  <2> QED
    BY <1>3, <2>2 DEF Smaller
<1>5. /\ SysWrite(c, out)
      /\ IF to = Used(i)
         THEN conns' = [conns EXCEPT ![i].buf = <<>>, ![i].sent = 0]
         ELSE conns' = [conns EXCEPT ![i].sent = to]
  BY DEF HandleWrite, From, ToRead, SentAfter
<1> HIDE DEF to
<1>6. out \in Seq(Byte) /\ rest \in Seq(Byte)
  <2>1. /\ \A m \in s + 1 .. to : b[m] \in Byte
        /\ \A m \in to + 1 .. Used(i) : b[m] \in Byte
    BY <1>2, <1>3, <1>4, ElementOfSeq
  <2>2. s + 1 \in Int /\ to \in Int /\ to + 1 \in Int /\ Used(i) \in Int
    BY <1>3, <1>4
  <2> QED
    BY <2>1, <2>2, SubSeqProperties
<1>7. out \o rest = SubSeq(b, s + 1, Used(i))
  <2>1. /\ s + 1 \in 1 .. Len(b) + 1
        /\ to \in (s + 1) - 1 .. Len(b)
        /\ Used(i) \in to .. Len(b)
    BY <1>3, <1>4
  <2> HIDE DEF b, s, to
  <2>2. SubSeq(b, s + 1, to) \o SubSeq(b, to + 1, Used(i)) = SubSeq(b, s + 1, Used(i))
    BY <1>2, <2>1, ConcatAdjacentSubSeq
  <2> QED
    BY <2>2
<1>8. (e \o out) \o rest \o q = Stream(c)
  <2>1. e \o SubSeq(b, s + 1, Used(i)) \o q = Stream(c)
    BY <1>1 DEF StreamInv, StreamIntact
  <2>2. (e \o out) \o rest = e \o (out \o rest)
    <3>1. Grouped(e, out, rest)
      <4> HIDE DEF e, out, rest
      <4> QED
        BY <1>2, <1>6, Associative
    <3> QED
      BY <3>1 DEF Grouped
  <2> QED
    BY <1>7, <2>1, <2>2
<1>9. /\ echoed'[c] = e \o out
      /\ \A d \in Clients \ {c} : echoed'[d] = echoed[d]
      /\ UNCHANGED <<peer, backlog, fdtab, sent, inq>>
  <2> HIDE DEF out
  <2> QED
    BY <1>5 DEF SysWrite, StreamInv, IInv, TypeOK, NetTypeOK
<1>10. /\ SubSeq(conns'[i].buf, conns'[i].sent + 1, Used(i)') = rest
       /\ conns'[i].fd = conns[i].fd
       /\ \A j \in Slots \ {i} : conns'[j] = conns[j]
  <2>1. CASE to = Used(i)
    <3>1. conns' = [conns EXCEPT ![i].buf = <<>>, ![i].sent = 0]
      BY <1>5, <2>1
    <3>2. /\ conns'[i].buf = <<>> /\ conns'[i].sent = 0
          /\ conns'[i].fd = conns[i].fd
          /\ \A j \in Slots \ {i} : conns'[j] = conns[j]
      BY <3>1 DEF StreamInv, IInv, TypeOK
    <3>3. Used(i)' = 0
      BY <3>2, EmptySeq DEF Used
    <3>4. SubSeq(conns'[i].buf, conns'[i].sent + 1, Used(i)') = <<>>
      BY <3>2, <3>3, SubSeqEmpty
    <3>5. rest = <<>>
      BY <1>3, <2>1, SubSeqEmpty
    <3> QED
      BY <3>2, <3>4, <3>5
  <2>2. CASE to # Used(i)
    <3>1. conns' = [conns EXCEPT ![i].sent = to]
      BY <1>5, <2>2
    <3>2. /\ conns'[i].buf = b /\ conns'[i].sent = to
          /\ conns'[i].fd = conns[i].fd
          /\ \A j \in Slots \ {i} : conns'[j] = conns[j]
      BY <3>1 DEF StreamInv, IInv, TypeOK
    <3> QED
      BY <3>2 DEF Used
  <2> QED
    BY <2>1, <2>2
<1>11. Placed'
  BY <1>1, <1>9, DataPlaced DEF Client, StreamInv, IInv, TypeOK
<1>12. Live' = Live
  BY <1>1, <1>10 DEF Live
<1>13. Whole(i)'
  <2>1. Client(i)' = c /\ Stream(c)' = Stream(c)
    BY <1>9, <1>10 DEF Client, Stream
  <2> HIDE DEF out, rest
  <2> QED
    BY <1>8, <1>9, <1>10, <2>1 DEF Whole
<1>14. \A j \in Live \ {i} : Whole(j)'
  <2> TAKE j \in Live \ {i}
  <2>1. j \in Live /\ j # i /\ conns'[j] = conns[j]
    BY <1>10 DEF Live
  <2> HIDE DEF out
  <2> QED
    BY <1>1, <1>9, <2>1, OthersWhole
<1> QED
  BY <1>11, <1>12, <1>13, <1>14 DEF StreamIntact, Whole

\* What peers send goes to the end of their input, in use or not.
LEMMA PeerStreamIntact ==
    ASSUME StreamInv, PeerNext, UNCHANGED <<pc, pfds, conns>>
    PROVE  Placed' /\ StreamIntact'
<1>1. Placed'
  BY PeerPlaced DEF StreamInv, IInv, TypeOK
<1>2. UNCHANGED <<fdtab, echoed>>
  BY PeerStep DEF StreamInv, IInv, TypeOK
<1>3. ASSUME NEW i \in Live
      PROVE  Whole(i)'
  <2> PICK c \in Clients : c = Client(i)
    BY LiveSlot DEF StreamInv
  <2> DEFINE b == SubSeq(conns[i].buf, conns[i].sent + 1, Used(i))
  <2>1. /\ i \in Slots
        /\ echoed[c] \in Seq(Byte)
        /\ inq[c] \in Seq(Byte)
        /\ echoed[c] \o b \o inq[c] = Stream(c)
    BY LiveSlot DEF StreamInv, StreamIntact, IInv, TypeOK, NetTypeOK
  <2>2. /\ Client(i)' = c
        /\ SubSeq(conns'[i].buf, conns'[i].sent + 1, Used(i)') = b
    BY <1>2 DEF Client, Used
  <2>3. echoed[c] \o b \in Seq(Byte)
    <3>1. conns[i].buf \in Seq(Byte) /\ conns[i].sent \in Nat
      BY <2>1 DEF StreamInv, IInv, TypeOK
    <3>2. Used(i) = Len(conns[i].buf) /\ Used(i) \in Nat
      BY <3>1, LenProperties DEF Used
    <3>3. \A m \in conns[i].sent + 1 .. Used(i) : conns[i].buf[m] \in Byte
      BY <3>1, <3>2, ElementOfSeq
    <3>4. conns[i].sent + 1 \in Int /\ Used(i) \in Int
      BY <3>1, <3>2
    <3>5. b \in Seq(Byte)
      BY <3>3, <3>4, SubSeqProperties
    <3> QED
      BY <2>1, <3>5, ConcatProperties
  <2> HIDE DEF b
  <2>4. CASE inq'[c] = inq[c] /\ Stream(c)' = Stream(c)
    BY <1>2, <2>1, <2>2, <2>4 DEF Whole
  <2>5. ASSUME NEW x \in Byte,
               inq'[c] = Append(inq[c], x),
               Stream(c)' = Append(Stream(c), x)
        PROVE  Whole(i)'
    <3>1. (echoed[c] \o b) \o Append(inq[c], x) = Append((echoed[c] \o b) \o inq[c], x)
      <4>1. \A y, z \in Seq(Byte) : y \o Append(z, x) = Append(y \o z, x)
        BY <2>5, AppendLast
      <4> QED
        BY <2>1, <2>3, <4>1
    <3> QED
      BY <1>2, <2>1, <2>2, <2>5, <3>1 DEF Whole
  <2> QED
    BY <2>4, <2>5, PeerStream DEF StreamInv, IInv, TypeOK
<1>4. Live' = Live
  BY DEF Live
<1> QED
  BY <1>1, <1>3, <1>4 DEF StreamIntact, Whole

----------------------------------------------------------------------------
(* The theorem. *)

\* Every step keeps every byte in its place.
LEMMA NextStream == StreamInv /\ [Next]_vars => StreamInv'
<1> SUFFICES ASSUME StreamInv, [Next]_vars
             PROVE  Placed' /\ StreamIntact'
  BY NextInv DEF StreamInv
<1>1. CASE Poll \/ AcceptFails \/ ScanDone
  <2>1. UNCHANGED <<conns, peer, backlog, fdtab, sent, inq, echoed>>
    BY <1>1 DEF Poll, AcceptFails, ScanDone, netVars
  <2> QED
    BY <2>1, QuietStream
<1>2. CASE AcceptAdd
  BY <1>2, AcceptAddStream
<1>3. CASE AcceptReject
  <2>1. SysAcceptClose /\ UNCHANGED conns
    BY <1>3 DEF AcceptReject
  <2>2. UNCHANGED <<fdtab, inq, echoed, sent>>
    BY <2>1 DEF SysAcceptClose
  <2>3. Placed'
    BY <2>1, AcceptClosePlaced DEF StreamInv, IInv, TypeOK
  <2>4. Live' = Live /\ \A i \in Live : i \in Slots /\ Whole(i)
    BY <2>1 DEF StreamInv, StreamIntact, Live, Whole
  <2>5. \A i \in Live : Whole(i)'
    BY <2>1, <2>2, <2>4, SameWhole
  <2> QED
    BY <2>3, <2>4, <2>5 DEF StreamIntact, Whole
<1>4. ASSUME NEW i \in Slots, HandleHup(i) \/ HandleEnd(i)
      PROVE  Placed' /\ StreamIntact'
  BY <1>4, HandleCloseStream
<1>5. ASSUME NEW i \in Slots, HandleRead(i)
      PROVE  Placed' /\ StreamIntact'
  BY <1>5, HandleReadStream
<1>6. ASSUME NEW i \in Slots, HandleWrite(i)
      PROVE  Placed' /\ StreamIntact'
  BY <1>6, HandleWriteStream
<1>7. ASSUME NEW i \in Slots, HandleNothing(i)
      PROVE  Placed' /\ StreamIntact'
  <2>1. UNCHANGED <<conns, peer, backlog, fdtab, sent, inq, echoed>>
    BY <1>7 DEF HandleNothing, WriteFails, netVars
  <2> QED
    BY <2>1, QuietStream
<1>8. CASE PeerNext /\ UNCHANGED <<pc, pfds, conns>>
  BY <1>8, PeerStreamIntact
<1>9. CASE UNCHANGED vars
  <2>1. UNCHANGED <<conns, peer, backlog, fdtab, sent, inq, echoed>>
    BY <1>9 DEF vars, netVars
  <2> QED
    BY <2>1, QuietStream
<1> QED
  BY <1>1, <1>2, <1>3, <1>4, <1>5, <1>6, <1>7, <1>8, <1>9 DEF Next, ServerNext

\* Every byte a registered peer has sent is echoed, buffered past sent, or not
\* read yet, in order: for any number of peers and slots, any buffer size, any
\* interleaving of short reads, short writes, closes and slot reuse.
THEOREM StreamCorrect == Spec => []StreamIntact
<1>1. Init => StreamInv
  BY InitInv, PlacedInit DEF Init, StreamInv, StreamIntact
<1>2. StreamInv => StreamIntact
  BY DEF StreamInv
<1> QED
  BY <1>1, <1>2, NextStream, PTL DEF Spec

----------------------------------------------------------------------------
(* Closing.  The revents of a slot may be out of date when the scan gets to it: *)
(* peers go on between poll() and the scan.  POLLHUP is never wrong, because a  *)
(* reset is for good.                                                           *)

HupIsReset ==
    \A i \in Live : "HUP" \in pfds[i].revents => peer[Client(i)] = "reset"

\* POLLHUP is only reported of a connection that is reset.
LEMMA ReportedHup ==
    ASSUME NEW c, NEW interest, NEW r \in Reported(c, interest), "HUP" \in r
    PROVE  peer[c] = "reset"
<1>1. "HUP" \in Ready(c)
  BY DEF Reported
<1> QED
  BY <1>1 DEF Ready

\* A reset peer stays so.
LEMMA ResetStays ==
    ASSUME StreamInv, [Next]_vars, NEW c \in Clients, peer[c] = "reset"
    PROVE  peer'[c] = "reset"
<1>1. CASE PeerNext
  BY <1>1 DEF PeerNext, Connect, SendByte, RecvByte, SendFin, SendReset,
              StreamInv, IInv, TypeOK, NetTypeOK
<1>2. CASE ~PeerNext
  BY <1>2 DEF Next, ServerNext, vars, netVars, Poll, AcceptAdd, SysAccept,
              AcceptReject, SysAcceptClose, AcceptFails, HandleHup, HandleEnd,
              WriteFails, close_connection, SysClose, HandleRead, ToWrite, SysRead,
              HandleWrite, From, ToRead, SentAfter, SysWrite, HandleNothing,
              ScanDone
<1> QED
  BY <1>1, <1>2

\* A slot that stays in use and gets no new POLLHUP keeps its client.
LEMMA HupStays ==
    ASSUME StreamInv, HupIsReset, [Next]_vars, NEW i \in Live,
           conns'[i].fd = conns[i].fd, fdtab'[conns[i].fd] = fdtab[conns[i].fd],
           "HUP" \in pfds'[i].revents => "HUP" \in pfds[i].revents
    PROVE  "HUP" \in pfds'[i].revents => peer'[Client(i)'] = "reset"
<1>1. Client(i) \in Clients
  BY LiveSlot DEF StreamInv
<1>2. Client(i)' = Client(i)
  BY DEF Client
<1> QED
  BY <1>1, <1>2, ResetStays DEF HupIsReset

\* No step leaves a POLLHUP on a slot whose connection is not reset.
LEMMA NextHup == StreamInv /\ HupIsReset /\ [Next]_vars => HupIsReset'
<1> SUFFICES ASSUME StreamInv, HupIsReset, [Next]_vars, NEW i \in Live',
                    "HUP" \in pfds'[i].revents
             PROVE  peer'[Client(i)'] = "reset"
  BY DEF HupIsReset
<1>1. i \in Slots
  BY DEF Live
<1>2. CASE Poll
  <2> PICK rev \in [Slots -> UNION {Report(j) : j \in Slots}] :
          /\ \A j \in Slots : rev[j] \in Report(j)
          /\ pfds' = [j \in Slots |-> [pfds[j] EXCEPT !.revents = rev[j]]]
    BY <1>2 DEF Poll
  <2>1. UNCHANGED <<conns, fdtab, peer>> /\ i \in Live
    BY <1>2 DEF Poll, netVars, Live
  <2>2. /\ pfds'[i].revents = rev[i]
        /\ pfds[i].fd = conns[i].fd
        /\ conns[i].fd # NoFd
    BY <1>1, <2>1 DEF StreamInv, IInv, TypeOK, FdOwnership, Live
  <2>3. rev[i] \in Reported(Client(i), pfds[i].events)
    BY <1>1, <2>2 DEF Report, Client
  <2>4. peer[Client(i)] = "reset"
    BY <2>2, <2>3, ReportedHup
  <2> QED
    BY <2>1, <2>4 DEF Client
<1>3. CASE AcceptAdd
  <2> PICK fd \in Fds, k \in Slots : SysAccept(fd) /\ add_connection(k, fd)
    BY <1>3 DEF AcceptAdd
  <2>1. /\ pfds'[k].revents = {}
        /\ \A j \in Slots \ {k} : conns'[j] = conns[j] /\ pfds'[j] = pfds[j]
    BY DEF StreamInv, IInv, TypeOK, add_connection
  <2>2. i # k /\ i \in Live
    BY <1>1, <2>1 DEF Live
  <2>3. conns[i].fd \in OpenFds
    BY <2>2, LiveSlot DEF StreamInv
  <2>4. fdtab'[conns[i].fd] = fdtab[conns[i].fd]
    BY <2>3, AcceptPlaced DEF StreamInv, IInv, TypeOK
  <2> QED
    BY <1>1, <2>1, <2>2, <2>4, HupStays
<1>4. CASE \/ AcceptReject \/ AcceptFails \/ ScanDone
           \/ PeerNext /\ UNCHANGED <<pc, pfds, conns>>
           \/ UNCHANGED vars
  <2>1. UNCHANGED <<conns, fdtab, pfds>>
    BY <1>4, PeerStep DEF AcceptReject, SysAcceptClose, AcceptFails, ScanDone,
        vars, netVars, StreamInv, IInv, TypeOK
  <2> QED
    BY <2>1, HupStays DEF Live
<1>5. ASSUME NEW k \in Slots, HandleHup(k) \/ HandleEnd(k)
      PROVE  peer'[Client(i)'] = "reset"
  <2>1. /\ Live' = Live \ {k}
        /\ \A j \in Slots \ {k} : conns'[j] = conns[j] /\ pfds'[j] = pfds[j]
    BY <1>5, HandleCloseInv DEF StreamInv
  <2>2. k \in Live /\ SysClose(conns[k].fd)
    BY <1>5, CurrentIsLive DEF HandleHup, HandleEnd, WriteFails, close_connection
  <2>3. i \in Live /\ i # k
    BY <2>1
  <2>4. conns[k].fd \in OpenFds /\ conns[i].fd \in OpenFds \ {conns[k].fd}
    BY <2>2, <2>3, LiveSlot DEF StreamInv, IInv, FdOwnership
  <2>5. fdtab'[conns[i].fd] = fdtab[conns[i].fd]
    BY <2>2, <2>4, ClosePlaced DEF StreamInv, IInv, TypeOK
  <2> QED
    BY <1>1, <2>1, <2>3, <2>5, HupStays
<1>6. ASSUME NEW k \in Slots, HandleRead(k) \/ HandleWrite(k) \/ HandleNothing(k)
      PROVE  peer'[Client(i)'] = "reset"
  <2>1. UNCHANGED fdtab
    BY <1>6 DEF HandleRead, ToWrite, SysRead, HandleWrite, From, ToRead, SentAfter,
              SysWrite, HandleNothing, WriteFails, netVars
  <2>2. \A j \in Slots : conns'[j].fd = conns[j].fd
    BY <1>6, HandleReadInv, HandleWriteInv DEF HandleNothing, WriteFails, StreamInv
  <2>3. "HUP" \notin pfds'[k].revents
    <3>1. CASE HandleRead(k)
      BY <3>1 DEF HandleRead, ToWrite, StreamInv, IInv, TypeOK
    <3>2. CASE HandleWrite(k) \/ HandleNothing(k)
      BY <3>2 DEF HandleWrite, From, ToRead, SentAfter, HandleNothing, WriteFails,
              StreamInv, IInv, TypeOK
    <3> QED
      BY <1>6, <3>1, <3>2
  <2>4. \A j \in Slots \ {k} : pfds'[j] = pfds[j]
    BY <1>6, HandleReadInv, HandleWriteInv
       DEF HandleNothing, WriteFails, StreamInv, IInv, TypeOK
  <2>5. i # k /\ i \in Live
    BY <1>1, <2>2, <2>3 DEF Live
  <2> QED
    BY <1>1, <2>1, <2>2, <2>4, <2>5, HupStays
<1>7. \/ Poll \/ AcceptAdd \/ AcceptReject \/ AcceptFails \/ ScanDone
      \/ \E k \in Slots : HandleHup(k) \/ HandleEnd(k)
      \/ \E k \in Slots : HandleRead(k) \/ HandleWrite(k) \/ HandleNothing(k)
      \/ PeerNext /\ UNCHANGED <<pc, pfds, conns>>
      \/ UNCHANGED vars
  BY DEF Next, ServerNext
<1>8. CASE \E k \in Slots : HandleHup(k) \/ HandleEnd(k)
  BY <1>5, <1>8
<1>9. CASE \E k \in Slots : HandleRead(k) \/ HandleWrite(k) \/ HandleNothing(k)
  BY <1>6, <1>9
<1> QED
  BY <1>2, <1>3, <1>4, <1>7, <1>8, <1>9

\* In the states the invariants describe, a slot is only closed when its
\* connection is reset or its stream has been echoed in full.
LEMMA CloseStepDrained ==
    ASSUME StreamInv, HupIsReset, [Next]_vars, NEW i \in Live,
           Client(i) \in closed' \ closed, peer[Client(i)] # "reset"
    PROVE  Len(echoed[Client(i)]) = sent[Client(i)]
<1> PICK c \in Clients : c = Client(i)
  BY LiveSlot DEF StreamInv
<1>1. PICK k \in Slots : HandleHup(k) \/ HandleEnd(k)
  <2>1. ~AcceptReject
    <3>1. SUFFICES ASSUME AcceptReject
                   PROVE  FALSE
      OBVIOUS
    <3>2. /\ backlog # <<>>
          /\ closed' = closed \cup {Head(backlog)}
      BY <3>1 DEF AcceptReject, SysAcceptClose
    <3>3. Head(backlog) = backlog[1] /\ 1 \in 1 .. Len(backlog)
      BY <3>2, BacklogTail DEF StreamInv, IInv, TypeOK
    <3>4. conns[i].fd \in OpenFds
      BY LiveSlot DEF StreamInv
    <3> QED
      BY <3>2, <3>3, <3>4 DEF StreamInv, Placed, Client
  <2>2. \/ \E k \in Slots : HandleHup(k) \/ HandleEnd(k)
        \/ UNCHANGED closed
    BY <2>1, PeerStep DEF Next, ServerNext, vars, netVars, Poll, AcceptAdd, SysAccept,
              AcceptFails, HandleRead, ToWrite, SysRead, HandleWrite, From, ToRead,
              SentAfter, SysWrite, HandleNothing, WriteFails, ScanDone, StreamInv,
              IInv, TypeOK
  <2> QED
    BY <2>2
<1>2. k \in Live /\ SysClose(conns[k].fd)
  BY <1>1, CurrentIsLive DEF HandleHup, HandleEnd, WriteFails, close_connection
<1>3. Client(k) = c
  BY <1>2 DEF SysClose, Client
<1>4. ~HandleHup(k)
  BY <1>2, <1>3 DEF HandleHup, Hup, HupIsReset
<1>5. Reading(k) /\ AtEnd(c)
  BY <1>1, <1>3, <1>4 DEF HandleEnd, WriteFails
<1>6. Used(k) \in Nat /\ conns[k].sent = Used(k) /\ inq[c] = <<>>
  BY <1>5, LenProperties DEF Reading, AtEnd, StreamInv, IInv, TypeOK, Used
<1>7. SubSeq(conns[k].buf, conns[k].sent + 1, Used(k)) = <<>>
  BY <1>6, SubSeqEmpty
<1>8. echoed[c] \o <<>> \o <<>> = Stream(c)
  BY <1>2, <1>3, <1>6, <1>7 DEF StreamInv, StreamIntact
<1>9. echoed[c] \in Seq(Byte)
  BY DEF StreamInv, IInv, TypeOK, NetTypeOK
<1>10. echoed[c] = Stream(c)
  BY <1>8, <1>9, ConcatEmptySeq
<1> QED
  BY <1>10, StreamType DEF StreamInv, IInv, TypeOK

\* A registered connection that its peer has not reset is closed only when
\* everything the peer sent has been echoed: the action property CloseOnlyWhenDrained.
THEOREM DrainCorrect == Spec => CloseOnlyWhenDrained
<1>1. Init => StreamInv /\ HupIsReset
  BY InitInv, PlacedInit DEF Init, StreamInv, StreamIntact, HupIsReset
<1>2. StreamInv /\ HupIsReset /\ [Next]_vars =>
        [\A i \in Live :
            LET c == Client(i)
            IN  c \in closed' \ closed /\ peer[c] # "reset"
                  => Len(echoed[c]) = sent[c]]_vars
  BY CloseStepDrained
<1> QED
  BY <1>1, <1>2, NextStream, NextHup, PTL DEF Spec, CloseOnlyWhenDrained

----------------------------------------------------------------------------
(* The poll server implements the echo service. *)

\* What a slot still has to write.
Unsent(i) == SubSeq(conns[i].buf, conns[i].sent + 1, Used(i))

\* A write() is an echo.
LEMMA HandleWriteAbstract ==
    ASSUME StreamInv, StreamInv', Unclosed, NEW i \in Slots, HandleWrite(i)
    PROVE  Refines /\ Unclosed'
<1>1. i \in Live /\ Client(i) \in Clients /\ conns[i].fd \in OpenFds
  BY CurrentIsLive, LiveSlot DEF HandleWrite, From, ToRead, SentAfter, StreamInv
<1> PICK c \in Clients : c = Client(i)
  BY <1>1
<1> DEFINE s == conns[i].sent
           b == conns[i].buf
           to == s + Smaller(Room(c), Used(i) - s)
           out == SubSeq(b, s + 1, to)
<1>2. b \in Seq(Byte) /\ s \in Nat /\ Used(i) \in Nat /\ Used(i) = Len(b) /\ s < Used(i)
  BY LenProperties DEF HandleWrite, From, ToRead, SentAfter, Writing, StreamInv, IInv,
                       TypeOK, Used
<1>3. to \in s + 1 .. Used(i)
  <2>1. rcvd[c] \in Nat /\ Len(echoed[c]) \in Nat
    BY LenProperties DEF StreamInv, IInv, TypeOK, NetTypeOK
  <2>2. Room(c) \in Int /\ Room(c) > 0
    BY <2>1, SocketsAssumption DEF Room, HandleWrite, From, ToRead, SentAfter, CanWrite
  <2> QED
    BY <1>2, <2>2 DEF Smaller
<1>4. SysWrite(c, out)
  BY DEF HandleWrite, From, ToRead, SentAfter
<1> HIDE DEF to
<1>5. out \in Seq(Byte) /\ out # <<>>
  <2>1. \A m \in s + 1 .. to : b[m] \in Byte
    BY <1>2, <1>3, ElementOfSeq
  <2>2. s + 1 \in Int /\ to \in Int /\ s + 1 <= to
    BY <1>2, <1>3
  <2>3. out \in Seq(Byte) /\ Len(out) = to - (s + 1) + 1
    BY <2>1, <2>2, SubSeqProperties
  <2>4. Len(out) # 0
    BY <2>2, <2>3
  <2> QED
    BY <2>3, <2>4, EmptySeq
<1> HIDE DEF out
<1>6. /\ UNCHANGED fdtab
      /\ conns'[i].fd = conns[i].fd
  BY <1>4, HandleWriteInv DEF SysWrite, StreamInv
<1>7. Client(i)' = c /\ i \in Live'
  BY <1>1, <1>6 DEF Client, Live
<1>8. Unsent(i)' \in Seq(Byte) /\ inq'[c] \in Seq(Byte) /\ echoed'[c] \in Seq(Byte)
  <2>1. TypeOK'
    BY DEF StreamInv, IInv
  <2>2. Unsent(i)' \in Seq(Byte)
    BY <2>1, UnsentType DEF TypeOK, Unsent, Used
  <2> QED
    BY <2>1, <2>2 DEF TypeOK, NetTypeOK
<1>9. echoed'[c] \o (Unsent(i)' \o inq'[c]) = Stream(c)'
  <2>1. echoed'[c] \o Unsent(i)' \o inq'[c] = Stream(c)'
    BY <1>7 DEF StreamInv, StreamIntact, Unsent
  <2>2. \A x, y, z \in Seq(Byte) : (x \o y) \o z = x \o (y \o z)
    BY ConcatAssociative
  <2> QED
    BY <1>8, <2>1, <2>2
<1>10. Stream(c)' = Stream(c)
  BY <1>4 DEF SysWrite, Stream
<1>11. NetTypeOK /\ NetTypeOK' /\ Placed
  BY DEF StreamInv, IInv, TypeOK
<1>12. Unsent(i)' \o inq'[c] \in Seq(Byte)
  BY <1>8, ConcatProperties
<1>13. c = fdtab[conns[i].fd]
  BY DEF Client
<1> QED
  BY <1>1, <1>4, <1>5, <1>9, <1>10, <1>11, <1>12, <1>13, WriteAbstract

\* Every step of the server is a step of the service, or none.
LEMMA NextAbstract ==
    StreamInv /\ StreamInv' /\ Unclosed /\ [Next]_vars => Refines /\ Unclosed'
<1> SUFFICES ASSUME StreamInv, StreamInv', Unclosed, [Next]_vars
             PROVE  Refines /\ Unclosed'
  OBVIOUS
<1>1. NetTypeOK /\ Placed
  BY DEF StreamInv, IInv, TypeOK
<1>2. ASSUME UNCHANGED <<peer, backlog, fdtab, closed, sent, echoed>>
      PROVE  Refines /\ Unclosed'
  BY <1>2, AbstractStutter DEF Unclosed, OpenFds
<1>3. CASE Poll \/ AcceptFails \/ ScanDone \/ UNCHANGED vars
  BY <1>2, <1>3 DEF Poll, AcceptFails, ScanDone, netVars, vars
<1>4. CASE AcceptAdd
  BY <1>1, <1>4, AcceptAbstract DEF AcceptAdd
<1>5. CASE AcceptReject
  BY <1>1, <1>5, AcceptCloseAbstract DEF AcceptReject
<1>6. ASSUME NEW i \in Slots, HandleHup(i) \/ HandleEnd(i)
      PROVE  Refines /\ Unclosed'
  <2>1. i \in Live /\ SysClose(conns[i].fd)
    BY <1>6, CurrentIsLive DEF HandleHup, HandleEnd, WriteFails, close_connection
  <2>2. conns[i].fd \in OpenFds
    BY <2>1, LiveSlot DEF StreamInv
  <2> QED
    BY <1>1, <2>1, <2>2, CloseAbstract
<1>7. ASSUME NEW i \in Slots, HandleRead(i)
      PROVE  Refines /\ Unclosed'
  BY <1>2, <1>7 DEF HandleRead, SysRead
<1>8. ASSUME NEW i \in Slots, HandleWrite(i)
      PROVE  Refines /\ Unclosed'
  BY <1>8, HandleWriteAbstract
<1>9. ASSUME NEW i \in Slots, HandleNothing(i)
      PROVE  Refines /\ Unclosed'
  BY <1>2, <1>9 DEF HandleNothing, netVars
<1>10. CASE PeerNext
  BY <1>1, <1>10, PeerAbstract
<1> QED
  BY <1>3, <1>4, <1>5, <1>6, <1>7, <1>8, <1>9, <1>10 DEF Next, ServerNext

\* The poll server implements the echo service: initial states map to initial
\* states, accept() and read() to no step, write() to an echo of what was sent next,
\* close() to a close.
THEOREM ImplementsEcho == Spec => EchoesPrefix
<1>1. Init => StreamInv /\ Unclosed /\ Abstract!Init
  BY InitInv, PlacedInit, AbstractInit DEF Init, StreamInv, StreamIntact
<1>2. StreamInv /\ Unclosed /\ [Next]_vars
        => StreamInv' /\ Unclosed' /\ [Abstract!Next]_(Abstract!vars)
  BY NextStream, NextAbstract DEF Refines
<1> QED
  BY <1>1, <1>2, PTL DEF Spec, EchoesPrefix, Abstract!Spec
=============================================================================
