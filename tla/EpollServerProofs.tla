-------------------------- MODULE EpollServerProofs --------------------------
(***************************************************************************)
(* Proofs about EpollServer for any number of clients, slots, descriptors  *)
(* and any buffer size.                                                    *)
(*                                                                         *)
(* What epoll watches and what waits in a batch depend on one another: an  *)
(* event's pointer is good because the slot has not been closed, and a     *)
(* slot is closed once only because its events were one in the batch.      *)
(***************************************************************************)
EXTENDS EpollServer, SocketsProofs

\* A batch has one event of a connection at most.
OnePerSlot == \A e, f \in batch : e.slot # 0 /\ e.slot = f.slot => e = f

\* What an event says of the end of a connection stays true.
GoneIsGone == \A e \in batch : e.slot # 0 /\ Gone(e) => peer[e.src] \in {"fin", "reset"}

BatchInv == BatchIsCurrent /\ OnePerSlot /\ GoneIsGone

IInv == TypeOK /\ InterestMatchesBuffer /\ BatchInv

\* What IInv says of a slot in use.
LEMMA LiveSlot ==
    ASSUME IInv, NEW i \in Live
    PROVE  /\ i \in Slots
           /\ conns[i].fd \in OpenFds
           /\ conns[i].fd \in Fds
           /\ Client(i) \in Clients
           /\ watch[conns[i].fd].slot = i
           /\ conns[i].buf \in Seq(Byte)
           /\ conns[i].sent \in Nat
           /\ Used(i) \in Nat
<1>1. i \in Slots /\ conns[i].fd \in OpenFds /\ watch[conns[i].fd].slot = i
  <2>1. i \in Slots
    BY DEF Live
  <2>2. OpenFds = {conns[j].fd : j \in Live}
    BY DEF IInv, InterestMatchesBuffer
  <2>3. \E ev : watch[conns[i].fd] = [slot |-> i, events |-> ev]
    BY Zenon DEF IInv, InterestMatchesBuffer
  <2>4. watch[conns[i].fd].slot = i
    BY <2>3
  <2> QED
    BY <2>1, <2>2, <2>4
<1>2. conns[i].fd \in Fds /\ Client(i) \in Clients
  BY <1>1 DEF IInv, TypeOK, NetTypeOK, OpenFds, Client
<1>3. conns[i].buf \in Seq(Byte) /\ conns[i].sent \in Nat
  BY <1>1 DEF IInv, TypeOK
<1> QED
  BY <1>1, <1>2, <1>3, LenProperties DEF Used

\* No two slots share a descriptor: epoll keeps one pointer for it.
LEMMA Distinct ==
    ASSUME IInv, NEW i \in Live, NEW j \in Live, conns[i].fd = conns[j].fd
    PROVE  i = j
BY LiveSlot

LEMMA ZeroIsNoSlot == \A i \in Slots : i # 0
BY EpollAssumption DEF Slots

\* The slot of the event being served is in use, by the connection that raised it.
LEMMA CurrentIsLive ==
    ASSUME IInv, NEW e \in batch, Current(e)
    PROVE  e.slot \in Live /\ Client(e.slot) = e.src
BY DEF IInv, BatchInv, BatchIsCurrent, Current

\* An event is served and gone; the slots of the others are as they were.
LEMMA BatchShrinks ==
    ASSUME IInv, batch' \subseteq batch,
           \A f \in batch' : f.slot # 0 =>
               f.slot \in Live' /\ fdtab'[conns'[f.slot].fd] = Client(f.slot),
           \A c \in Clients : peer[c] \in {"fin", "reset"} => peer'[c] \in {"fin", "reset"}
    PROVE  BatchInv'
<1>1. BatchIsCurrent'
  BY DEF IInv, BatchInv, BatchIsCurrent, Client
<1>2. OnePerSlot'
  BY DEF IInv, BatchInv, OnePerSlot
<1>3. GoneIsGone'
  <2> SUFFICES ASSUME NEW e \in batch', e.slot # 0, Gone(e)
               PROVE  peer'[e.src] \in {"fin", "reset"}
    BY DEF GoneIsGone, Gone
  <2>1. e \in batch /\ e.slot \in Live /\ Client(e.slot) = e.src
    BY DEF IInv, BatchInv, BatchIsCurrent
  <2>2. e.src \in Clients
    BY <2>1, LiveSlot
  <2> QED
    BY <2>1, <2>2 DEF IInv, BatchInv, GoneIsGone
<1> QED
  BY <1>1, <1>2, <1>3 DEF BatchInv

\* A step that leaves the slots, the descriptors and the interest list alone.
LEMMA SameSlots ==
    ASSUME IInv, UNCHANGED <<fdtab, watch, conns>>
    PROVE  InterestMatchesBuffer' /\ Live' = Live /\ OpenFds' = OpenFds
BY DEF IInv, InterestMatchesBuffer, Live, Watched, OpenFds, Used

----------------------------------------------------------------------------
(* The interest list. *)

\* What a slot still has to write.
Unsent(i) == SubSeq(conns[i].buf, conns[i].sent + 1, Used(i))

Interest(i) == IF conns[i].sent < Used(i) THEN "OUT" ELSE "IN"

\* One slot's buffer changes and its interest with it.
LEMMA OneSlot ==
    ASSUME IInv, NEW i \in Live, UNCHANGED fdtab,
           conns'[i].fd = conns[i].fd,
           \A j \in Slots \ {i} : conns'[j] = conns[j],
           watch' = [watch EXCEPT ![conns[i].fd] =
                        [slot |-> i, events |-> {Interest(i)', "RDHUP"}]]
    PROVE  InterestMatchesBuffer' /\ Live' = Live /\ OpenFds' = OpenFds
<1>1. i \in Slots /\ conns[i].fd \in Fds /\ watch[conns[i].fd].slot = i
  BY LiveSlot
<1>2. Live' = Live /\ OpenFds' = OpenFds
  BY DEF Live, OpenFds
<1>3. \A j \in Slots : conns'[j].fd = conns[j].fd
  OBVIOUS
<1>4. /\ watch'[conns[i].fd] = [slot |-> i, events |-> {Interest(i)', "RDHUP"}]
      /\ \A fd \in Fds \ {conns[i].fd} : watch'[fd] = watch[fd]
  BY <1>1 DEF IInv, TypeOK
<1>5. Watched' = Watched
  <2>1. \A fd \in Fds : watch'[fd].slot = watch[fd].slot
    BY <1>1, <1>4
  <2> QED
    BY <2>1 DEF Watched
<1>6. {conns'[j].fd : j \in Live} = {conns[j].fd : j \in Live}
  BY <1>3 DEF Live
<1>7. ASSUME NEW j \in Live
      PROVE  watch'[conns'[j].fd] = [slot |-> j, events |-> {Interest(j)', "RDHUP"}]
  <2>1. CASE j = i
    BY <1>4, <2>1
  <2>2. CASE j # i
    <3>1. j \in Slots /\ conns[j].fd \in Fds /\ conns[j].fd # conns[i].fd
      BY <2>2, LiveSlot, Distinct
    <3>2. watch'[conns'[j].fd] = watch[conns[j].fd] /\ conns'[j] = conns[j]
      BY <1>3, <1>4, <2>2, <3>1
    <3>3. watch[conns[j].fd] = [slot |-> j, events |-> {Interest(j), "RDHUP"}]
      BY DEF IInv, InterestMatchesBuffer, Interest
    <3>4. Interest(j)' = Interest(j)
      BY <3>2 DEF Interest, Used
    <3> QED
      BY <3>2, <3>3, <3>4
  <2> QED
    BY <2>1, <2>2
<1>8. /\ Watched' = {conns'[j].fd : j \in Live'}
      /\ OpenFds' = Watched'
  BY <1>2, <1>5, <1>6 DEF IInv, InterestMatchesBuffer
<1>9. InterestMatchesBuffer'
  BY <1>2, <1>7, <1>8 DEF InterestMatchesBuffer, Interest
<1> QED
  BY <1>2, <1>9

\* A new descriptor, a free slot, and the interest of an empty buffer.
LEMMA NewSlot ==
    ASSUME IInv, NEW fd \in Fds, fd \notin OpenFds, OpenFds' = OpenFds \cup {fd},
           NEW i \in Slots, i \notin Live,
           conns' = [conns EXCEPT ![i] = [fd |-> fd, buf |-> <<>>, sent |-> 0]],
           watch' = [watch EXCEPT ![fd] = [slot |-> i, events |-> {"IN", "RDHUP"}]]
    PROVE  InterestMatchesBuffer' /\ Live' = Live \cup {i}
<1>1. fd # NoFd
  BY SocketsAssumption DEF Fds, NoFd
<1>2. /\ conns'[i] = [fd |-> fd, buf |-> <<>>, sent |-> 0]
      /\ \A j \in Slots \ {i} : conns'[j] = conns[j]
      /\ watch'[fd] = [slot |-> i, events |-> {"IN", "RDHUP"}]
      /\ \A gd \in Fds \ {fd} : watch'[gd] = watch[gd]
  BY DEF IInv, TypeOK
<1>3. Live' = Live \cup {i}
  BY <1>1, <1>2 DEF Live
<1>4. Watched' = Watched \cup {fd}
  <2>1. watch'[fd].slot # 0
    BY <1>2, ZeroIsNoSlot
  <2> QED
    BY <1>2, <2>1 DEF Watched
<1>5. {conns'[j].fd : j \in Live'} = {conns[j].fd : j \in Live} \cup {fd}
  BY <1>2, <1>3 DEF Live
<1>6. Watched' = {conns'[j].fd : j \in Live'} /\ OpenFds' = Watched'
  BY <1>4, <1>5 DEF IInv, InterestMatchesBuffer
<1>7. ASSUME NEW j \in Live'
      PROVE  watch'[conns'[j].fd] = [slot |-> j, events |-> {Interest(j)', "RDHUP"}]
  <2>1. CASE j = i
    <3>1. conns'[j].sent = 0 /\ conns'[j].buf = <<>> /\ conns'[j].fd = fd
      BY <1>2, <2>1
    <3>2. Interest(j)' = "IN"
      BY <3>1, EmptySeq DEF Interest, Used
    <3> QED
      BY <1>2, <2>1, <3>1, <3>2
  <2>2. CASE j # i
    <3>1. j \in Live /\ j \in Slots
      BY <1>3, <2>2, LiveSlot
    <3>2. conns[j].fd \in Fds /\ conns[j].fd # fd
      BY <3>1, LiveSlot
    <3>3. watch'[conns'[j].fd] = watch[conns[j].fd] /\ conns'[j] = conns[j]
      BY <1>2, <2>2, <3>1, <3>2
    <3>4. watch[conns[j].fd] = [slot |-> j, events |-> {Interest(j), "RDHUP"}]
      BY <3>1 DEF IInv, InterestMatchesBuffer, Interest
    <3>5. Interest(j)' = Interest(j)
      BY <3>3 DEF Interest, Used
    <3> QED
      BY <3>3, <3>4, <3>5
  <2> QED
    BY <2>1, <2>2
<1>8. InterestMatchesBuffer'
  BY <1>6, <1>7 DEF InterestMatchesBuffer, Interest
<1> QED
  BY <1>3, <1>8

\* close_connection() frees a slot, its descriptor and its place in the list.
LEMMA CloseSlot ==
    ASSUME IInv, NEW i \in Live, close_connection(i)
    PROVE  /\ NetTypeOK' /\ InterestMatchesBuffer'
           /\ Live' = Live \ {i}
           /\ \A j \in Slots \ {i} : conns'[j] = conns[j]
           /\ \A fd \in OpenFds \ {conns[i].fd} : fdtab'[fd] = fdtab[fd]
           /\ UNCHANGED peer
           /\ watch' \in [Fds -> [slot : {0} \cup Slots, events : SUBSET Event]]
           /\ conns' \in [Slots -> [fd : Fds \cup {NoFd}, buf : Seq(Byte), sent : Nat]]
<1>1. i \in Slots /\ conns[i].fd \in OpenFds /\ conns[i].fd \in Fds
  BY LiveSlot
<1>2. NetTypeOK' /\ OpenFds' = OpenFds \ {conns[i].fd}
  BY <1>1, CloseStep DEF IInv, TypeOK, close_connection
<1>3. /\ \A fd \in OpenFds \ {conns[i].fd} : fdtab'[fd] = fdtab[fd]
      /\ UNCHANGED peer
  BY DEF close_connection, SysClose, IInv, TypeOK, NetTypeOK, OpenFds
<1>4. /\ conns'[i].fd = NoFd
      /\ \A j \in Slots \ {i} : conns'[j] = conns[j]
      /\ watch'[conns[i].fd].slot = 0
      /\ \A fd \in Fds \ {conns[i].fd} : watch'[fd] = watch[fd]
  BY <1>1 DEF close_connection, IInv, TypeOK, Unwatched
<1>5. Live' = Live \ {i}
  BY <1>4 DEF Live
<1>6. Watched' = Watched \ {conns[i].fd}
  BY <1>1, <1>4 DEF Watched
<1>7. \A j \in Live \ {i} : conns[j].fd # conns[i].fd /\ j \in Slots
  BY Distinct, LiveSlot
<1>8. {conns'[j].fd : j \in Live'} = {conns[j].fd : j \in Live} \ {conns[i].fd}
  BY <1>4, <1>5, <1>7
<1>9. Watched' = {conns'[j].fd : j \in Live'} /\ OpenFds' = Watched'
  BY <1>2, <1>6, <1>8 DEF IInv, InterestMatchesBuffer
<1>10. ASSUME NEW j \in Live'
       PROVE  watch'[conns'[j].fd] = [slot |-> j, events |-> {Interest(j)', "RDHUP"}]
  <2>1. j \in Live /\ j \in Slots /\ j # i /\ conns[j].fd \in Fds /\ conns[j].fd # conns[i].fd
    BY <1>5, <1>7, LiveSlot
  <2>2. watch'[conns'[j].fd] = watch[conns[j].fd] /\ conns'[j] = conns[j]
    BY <1>4, <2>1
  <2>3. watch[conns[j].fd] = [slot |-> j, events |-> {Interest(j), "RDHUP"}]
    BY <2>1 DEF IInv, InterestMatchesBuffer, Interest
  <2>4. Interest(j)' = Interest(j)
    BY <2>2 DEF Interest, Used
  <2> QED
    BY <2>2, <2>3, <2>4
<1>11. InterestMatchesBuffer'
  BY <1>9, <1>10 DEF InterestMatchesBuffer, Interest
<1>12. watch' \in [Fds -> [slot : {0} \cup Slots, events : SUBSET Event]]
  BY DEF IInv, TypeOK, close_connection, Unwatched
<1>13. conns' \in [Slots -> [fd : Fds \cup {NoFd}, buf : Seq(Byte), sent : Nat]]
  <2>1. <<>> \in Seq(Byte)
    BY EmptySeq
  <2> QED
    BY <2>1 DEF IInv, TypeOK, close_connection
<1> QED
  BY <1>2, <1>3, <1>4, <1>5, <1>11, <1>12, <1>13

----------------------------------------------------------------------------
(* One lemma per action. *)

\* An event of a batch tells what is so of its connection.
LEMMA ReportType ==
    ASSUME TypeOK, NEW fd \in Fds,
           NEW r \in Reported(fdtab[fd], watch[fd].events)
    PROVE  r \in SUBSET Event
<1>1. watch[fd].events \subseteq Event
  BY DEF TypeOK
<1> QED
  BY <1>1 DEF Reported, Ready, Event

LEMMA ReportGone ==
    ASSUME NEW c \in Clients, NEW ev \in SUBSET Event, NEW r \in Reported(c, ev),
           r \cap {"HUP", "RDHUP"} # {}
    PROVE  peer[c] \in {"fin", "reset"}
BY DEF Reported, Ready

\* epoll_wait() makes a batch of what is so now, with one event of a descriptor.
LEMMA WaitInv ==
    ASSUME IInv, epoll_wait
    PROVE  IInv'
<1> PICK rev \in [Watched -> UNION {Reported(fdtab[fd], watch[fd].events) :
                                        fd \in Watched}] :
        /\ \A fd \in Watched : rev[fd] \in Reported(fdtab[fd], watch[fd].events)
        /\ batch' = {[slot |-> watch[fd].slot, revents |-> rev[fd], src |-> fdtab[fd]] :
                        fd \in {w \in Watched : rev[w] # {}}}
                    \cup (IF backlog # <<>> THEN {ListenEvent} ELSE {})
  BY DEF epoll_wait
<1>1. /\ pc' = "events"
      /\ UNCHANGED <<netVars, watch, conns>>
  BY DEF epoll_wait
<1>2. NetTypeOK' /\ InterestMatchesBuffer' /\ Live' = Live
  BY <1>1, SameSlots DEF IInv, TypeOK, NetTypeOK, netVars
<1>3. \A fd \in Watched : \E i \in Live : conns[i].fd = fd
  BY DEF IInv, InterestMatchesBuffer
<1>4. \A fd \in Watched : /\ fd \in Fds
                          /\ fdtab[fd] \in Clients
                          /\ watch[fd].slot \in Live
                          /\ conns[watch[fd].slot].fd = fd
                          /\ watch[fd].events \subseteq Event
                          /\ rev[fd] \in SUBSET Event
  <2> TAKE fd \in Watched
  <2>1. PICK i \in Live : conns[i].fd = fd
    BY <1>3
  <2>2. fd \in Fds /\ fdtab[fd] \in Clients /\ watch[fd].slot = i
    BY <2>1, LiveSlot DEF Client
  <2>3. watch[fd].events \subseteq Event
    BY <2>2 DEF IInv, TypeOK
  <2>4. rev[fd] \in SUBSET Event
    BY <2>2, ReportType DEF IInv
  <2> QED
    BY <2>1, <2>2, <2>3, <2>4
<1>5. \A e \in batch' : e.slot # 0 =>
         \E fd \in Watched : e = [slot |-> watch[fd].slot, revents |-> rev[fd],
                                 src |-> fdtab[fd]]
  BY DEF ListenEvent
<1>6. \A e \in batch' : e \in [slot : {0} \cup Slots, revents : SUBSET Event,
                               src : Clients \cup {NoClient}]
  <2> TAKE e \in batch'
  <2>1. CASE e = ListenEvent
    BY <2>1 DEF ListenEvent, Event
  <2>2. CASE e # ListenEvent
    <3>1. PICK fd \in Watched : e = [slot |-> watch[fd].slot, revents |-> rev[fd],
                                    src |-> fdtab[fd]]
      BY <2>2
    <3>2. watch[fd].slot \in Slots
      BY <1>4, LiveSlot
    <3> QED
      BY <1>4, <3>1, <3>2
  <2> QED
    BY <2>1, <2>2
<1>7. TypeOK'
  BY <1>1, <1>2, <1>6 DEF IInv, TypeOK
<1>8. BatchIsCurrent'
  <2> SUFFICES ASSUME NEW e \in batch', e.slot # 0
               PROVE  e.slot \in Live' /\ fdtab'[conns'[e.slot].fd] = e.src
    BY DEF BatchIsCurrent, Client
  <2>1. PICK fd \in Watched : e = [slot |-> watch[fd].slot, revents |-> rev[fd],
                                  src |-> fdtab[fd]]
    BY <1>5
  <2>2. e.slot = watch[fd].slot /\ e.src = fdtab[fd]
    BY <2>1
  <2> QED
    BY <1>1, <1>2, <1>4, <2>2 DEF netVars
<1>9. OnePerSlot'
  <2> SUFFICES ASSUME NEW e \in batch', NEW f \in batch', e.slot # 0, e.slot = f.slot
               PROVE  e = f
    BY DEF OnePerSlot
  <2>1. PICK fd \in Watched : e = [slot |-> watch[fd].slot, revents |-> rev[fd],
                                  src |-> fdtab[fd]]
    BY <1>5
  <2>2. PICK gd \in Watched : f = [slot |-> watch[gd].slot, revents |-> rev[gd],
                                  src |-> fdtab[gd]]
    BY <1>5
  <2>3. watch[fd].slot = watch[gd].slot
    BY <2>1, <2>2
  <2>4. fd = gd
    BY <1>4, <2>3
  <2> QED
    BY <2>1, <2>2, <2>4
<1>10. GoneIsGone'
  <2> SUFFICES ASSUME NEW e \in batch', e.slot # 0, Gone(e)
               PROVE  peer[e.src] \in {"fin", "reset"}
    BY <1>1 DEF GoneIsGone, Gone, netVars
  <2>1. PICK fd \in Watched : e = [slot |-> watch[fd].slot, revents |-> rev[fd],
                                  src |-> fdtab[fd]]
    BY <1>5
  <2>2. rev[fd] \cap {"HUP", "RDHUP"} # {}
    BY <2>1 DEF Gone
  <2>3. peer[fdtab[fd]] \in {"fin", "reset"}
    BY <1>4, <2>2, ReportGone
  <2> QED
    BY <2>1, <2>3
<1> QED
  BY <1>2, <1>7, <1>8, <1>9, <1>10 DEF IInv, BatchInv

\* The steps that touch neither a slot nor a descriptor: the batch at most gets
\* smaller.
LEMMA QuietInv ==
    ASSUME IInv, NetTypeOK', UNCHANGED <<fdtab, watch, conns>>, batch' \subseteq batch,
           pc' \in {"wait", "events", "accept", "dead"},
           \A c \in Clients : peer[c] \in {"fin", "reset"} => peer'[c] \in {"fin", "reset"}
    PROVE  IInv'
<1>1. InterestMatchesBuffer' /\ Live' = Live
  BY SameSlots
<1>2. TypeOK'
  BY DEF IInv, TypeOK
<1>3. \A f \in batch' : f.slot # 0 =>
          f.slot \in Live' /\ fdtab'[conns'[f.slot].fd] = Client(f.slot)
  BY <1>1 DEF IInv, BatchInv, BatchIsCurrent, Client
<1>4. BatchInv'
  BY <1>3, BatchShrinks
<1> QED
  BY <1>1, <1>2, <1>4 DEF IInv

LEMMA QuietStep ==
    ASSUME IInv, \/ HandleListen \/ AcceptAddFails \/ AcceptReject \/ AcceptFails
                 \/ BatchDone \/ UNCHANGED vars
                 \/ \E e \in batch : HandleNothing(e)
    PROVE  IInv'
<1>1. NetTypeOK /\ TypeOK
  BY DEF IInv, TypeOK
<1>2. CASE AcceptAddFails \/ AcceptReject
  <2>1. SysAcceptClose /\ UNCHANGED <<pc, watch, batch, conns>>
    BY <1>2 DEF AcceptAddFails, AcceptReject
  <2>2. NetTypeOK' /\ UNCHANGED <<peer, fdtab>>
    BY <1>1, <2>1, AcceptCloseStep DEF SysAcceptClose
  <2> QED
    BY <1>1, <2>1, <2>2, QuietInv DEF TypeOK
<1>3. CASE \/ HandleListen \/ AcceptFails \/ BatchDone \/ UNCHANGED vars
           \/ \E e \in batch : HandleNothing(e)
  <2>1. UNCHANGED <<netVars, watch, conns>>
    BY <1>3 DEF HandleListen, AcceptFails, BatchDone, HandleNothing, vars
  <2>2. batch' \subseteq batch
    BY <1>3 DEF HandleListen, AcceptFails, BatchDone, HandleNothing, vars
  <2>3. pc' \in {"wait", "events", "accept", "dead"}
    BY <1>1, <1>3 DEF HandleListen, AcceptFails, BatchDone, HandleNothing, vars, TypeOK
  <2>4. NetTypeOK' /\ UNCHANGED <<peer, fdtab>>
    BY <1>1, <2>1 DEF NetTypeOK, netVars
  <2> QED
    BY <2>1, <2>2, <2>3, <2>4, QuietInv
<1> QED
  BY <1>2, <1>3

\* What a peer does: who has ended stays at an end.
LEMMA PeerInv ==
    ASSUME IInv, PeerNext, UNCHANGED <<pc, watch, batch, conns>>
    PROVE  IInv'
<1>1. NetTypeOK' /\ UNCHANGED fdtab
  BY PeerStep DEF IInv, TypeOK
<1>2. \A c \in Clients : peer[c] \in {"fin", "reset"} => peer'[c] \in {"fin", "reset"}
  BY DEF IInv, TypeOK, NetTypeOK, PeerNext, Connect, SendByte, RecvByte, SendFin, SendReset
<1> QED
  BY <1>1, <1>2, QuietInv DEF IInv, TypeOK

\* The slot of a new connection was free, so no event points to it.
LEMMA AcceptAddInv ==
    ASSUME IInv, AcceptAdd
    PROVE  IInv'
<1> PICK fd \in Fds, i \in Slots :
        /\ SysAccept(fd)
        /\ allocate_connection(i, fd)
        /\ watch' = [watch EXCEPT ![fd] = [slot |-> i, events |-> {"IN", "RDHUP"}]]
  BY DEF AcceptAdd
<1>1. /\ NetTypeOK'
      /\ fd \notin OpenFds
      /\ OpenFds' = OpenFds \cup {fd}
  BY AcceptStep DEF IInv, TypeOK
<1>2. i \notin Live
  BY DEF allocate_connection, IsLowest, FreeSlots, Live
<1>3. conns' = [conns EXCEPT ![i] = [fd |-> fd, buf |-> <<>>, sent |-> 0]]
  BY DEF allocate_connection
<1>4. InterestMatchesBuffer' /\ Live' = Live \cup {i}
  BY <1>1, <1>2, <1>3, NewSlot
<1>5. UNCHANGED <<pc, batch, peer>> /\ \A gd \in OpenFds : fdtab'[gd] = fdtab[gd]
  BY <1>1 DEF AcceptAdd, SysAccept, IInv, TypeOK, NetTypeOK, OpenFds
<1>6. TypeOK'
  <2>1. <<>> \in Seq(Byte)
    BY EmptySeq
  <2>2. conns' \in [Slots -> [fd : Fds \cup {NoFd}, buf : Seq(Byte), sent : Nat]]
    BY <1>3, <2>1 DEF IInv, TypeOK
  <2>3. watch' \in [Fds -> [slot : {0} \cup Slots, events : SUBSET Event]]
    BY DEF IInv, TypeOK, Event
  <2> QED
    BY <1>1, <1>5, <2>2, <2>3 DEF IInv, TypeOK
<1>7. \A f \in batch' : f.slot # 0 =>
          f.slot \in Live' /\ fdtab'[conns'[f.slot].fd] = Client(f.slot)
  <2> SUFFICES ASSUME NEW f \in batch, f.slot # 0
               PROVE  f.slot \in Live' /\ fdtab'[conns'[f.slot].fd] = Client(f.slot)
    BY <1>5
  <2>1. f.slot \in Live
    BY DEF IInv, BatchInv, BatchIsCurrent
  <2>2. f.slot \in Slots /\ conns[f.slot].fd \in OpenFds
    BY <2>1, LiveSlot
  <2>3. conns'[f.slot] = conns[f.slot]
    BY <1>2, <1>3, <2>1, <2>2 DEF IInv, TypeOK
  <2> QED
    BY <1>4, <1>5, <2>1, <2>2, <2>3 DEF Client
<1>8. BatchInv'
  BY <1>5, <1>7, BatchShrinks
<1> QED
  BY <1>4, <1>6, <1>8 DEF IInv

\* A connection is closed: its event was the only one that pointed to it.
LEMMA HandleCloseInv ==
    ASSUME IInv, NEW e \in batch, HandleGone(e) \/ HandleEnd(e)
    PROVE  IInv'
<1>1. /\ Current(e) /\ close_connection(e.slot)
      /\ batch' = batch \ {e} /\ UNCHANGED pc
  BY DEF HandleGone, HandleEnd
<1> PICK i \in Live : i = e.slot
  BY <1>1, CurrentIsLive
<1>2. /\ NetTypeOK' /\ InterestMatchesBuffer'
      /\ Live' = Live \ {i}
      /\ \A j \in Slots \ {i} : conns'[j] = conns[j]
      /\ \A fd \in OpenFds \ {conns[i].fd} : fdtab'[fd] = fdtab[fd]
      /\ UNCHANGED peer
      /\ watch' \in [Fds -> [slot : {0} \cup Slots, events : SUBSET Event]]
      /\ conns' \in [Slots -> [fd : Fds \cup {NoFd}, buf : Seq(Byte), sent : Nat]]
  BY <1>1, CloseSlot
<1>3. TypeOK'
  BY <1>1, <1>2 DEF IInv, TypeOK
<1>4. \A f \in batch' : f.slot # 0 =>
          f.slot \in Live' /\ fdtab'[conns'[f.slot].fd] = Client(f.slot)
  <2> SUFFICES ASSUME NEW f \in batch, f # e, f.slot # 0
               PROVE  f.slot \in Live' /\ fdtab'[conns'[f.slot].fd] = Client(f.slot)
    BY <1>1
  <2>1. f.slot \in Live /\ f.slot # i
    BY <1>1 DEF IInv, BatchInv, BatchIsCurrent, OnePerSlot
  <2>2. f.slot \in Slots /\ conns[f.slot].fd \in OpenFds /\ conns[f.slot].fd # conns[i].fd
    BY <2>1, LiveSlot, Distinct
  <2> QED
    BY <1>2, <2>1, <2>2 DEF Client
<1>5. BatchInv'
  BY <1>1, <1>2, <1>4, BatchShrinks
<1> QED
  BY <1>2, <1>3, <1>5 DEF IInv

\* A connection is served and stays: its slot's buffer and interest change together.
LEMMA ServedInv ==
    ASSUME IInv, NEW e \in batch, NEW i \in Live, i = e.slot, batch' = batch \ {e},
           NetTypeOK', UNCHANGED <<fdtab, peer, pc>>,
           conns' \in [Slots -> [fd : Fds \cup {NoFd}, buf : Seq(Byte), sent : Nat]],
           conns'[i].fd = conns[i].fd,
           \A j \in Slots \ {i} : conns'[j] = conns[j],
           watch' = [watch EXCEPT ![conns[i].fd] =
                        [slot |-> i, events |-> {Interest(i)', "RDHUP"}]]
    PROVE  IInv'
<1>1. InterestMatchesBuffer' /\ Live' = Live
  BY OneSlot
<1>2. watch' \in [Fds -> [slot : {0} \cup Slots, events : SUBSET Event]]
  <2>1. {Interest(i)', "RDHUP"} \in SUBSET Event /\ i \in Slots
    BY LiveSlot DEF Interest, Event
  <2> QED
    BY <2>1 DEF IInv, TypeOK
<1>3. TypeOK'
  BY <1>2 DEF IInv, TypeOK
<1>4. \A f \in batch' : f.slot # 0 =>
          f.slot \in Live' /\ fdtab'[conns'[f.slot].fd] = Client(f.slot)
  <2> SUFFICES ASSUME NEW f \in batch, f.slot # 0
               PROVE  f.slot \in Live' /\ fdtab'[conns'[f.slot].fd] = Client(f.slot)
    OBVIOUS
  <2>1. f.slot \in Live
    BY DEF IInv, BatchInv, BatchIsCurrent
  <2>2. conns'[f.slot].fd = conns[f.slot].fd
    BY <2>1, LiveSlot
  <2> QED
    BY <1>1, <2>1, <2>2 DEF Client
<1>5. BatchInv'
  BY <1>4, BatchShrinks
<1> QED
  BY <1>1, <1>3, <1>5 DEF IInv

\* The bytes read become the slot's buffer, and are now to be written.
LEMMA HandleReadInv ==
    ASSUME IInv, NEW e \in batch, HandleRead(e)
    PROVE  /\ IInv'
           /\ \E i \in Live, c \in Clients : \E n \in 0 .. Len(inq[c]) :
                 /\ c = Client(i) /\ conns[i].sent = Used(i)
                 /\ SysRead(c, n)
                 /\ conns'[i].buf = SubSeq(inq[c], 1, n) /\ conns'[i].sent = 0
                 /\ conns'[i].fd = conns[i].fd
                 /\ \A j \in Slots \ {i} : conns'[j] = conns[j]
<1>1. Current(e) /\ batch' = batch \ {e}
  BY DEF HandleRead
<1> PICK i \in Live : i = e.slot
  BY <1>1, CurrentIsLive
<1> PICK c \in Clients : c = Client(i)
  BY LiveSlot
<1>2. inq[c] \in Seq(Byte) /\ Len(inq[c]) \in Nat \ {0}
  <2>1. inq[c] \in Seq(Byte) /\ inq[c] # <<>>
    BY DEF IInv, TypeOK, NetTypeOK, HandleRead, HasInput
  <2> QED
    BY <2>1, EmptySeq
<1> DEFINE n == Smaller(BufSize, Len(inq[c]))
<1>3. n \in 1 .. Len(inq[c]) /\ n \in 0 .. Len(inq[c])
  BY <1>2, EpollAssumption DEF Smaller
<1>4. /\ SysRead(c, n)
      /\ conns' = [conns EXCEPT ![i].buf = SubSeq(inq[c], 1, n), ![i].sent = 0]
      /\ arm_connection(i, ToWrite)
  BY DEF HandleRead
<1> HIDE DEF n
<1>5. /\ SubSeq(inq[c], 1, n) \in Seq(Byte)
      /\ Len(SubSeq(inq[c], 1, n)) = n
  BY <1>2, <1>3, SplitType
<1>6. NetTypeOK' /\ UNCHANGED <<fdtab, peer>>
  BY <1>3, <1>4, ReadStep DEF IInv, TypeOK, SysRead
<1>7. i \in Slots /\ watch[conns[i].fd].slot # 0
  BY LiveSlot, ZeroIsNoSlot
<1>8. /\ conns' \in [Slots -> [fd : Fds \cup {NoFd}, buf : Seq(Byte), sent : Nat]]
      /\ conns'[i].fd = conns[i].fd
      /\ \A j \in Slots \ {i} : conns'[j] = conns[j]
      /\ conns'[i].sent = 0 /\ conns'[i].buf = SubSeq(inq[c], 1, n)
  BY <1>4, <1>5, <1>7 DEF IInv, TypeOK
<1>9. Interest(i)' = "OUT"
  BY <1>3, <1>5, <1>8 DEF Interest, Used
<1>10. /\ watch' = [watch EXCEPT ![conns[i].fd] =
                        [slot |-> i, events |-> {Interest(i)', "RDHUP"}]]
       /\ UNCHANGED pc
  BY <1>4, <1>7, <1>9 DEF arm_connection, ToWrite
<1>11. IInv'
  BY <1>1, <1>6, <1>8, <1>10, ServedInv
<1>12. conns[i].sent = Used(i)
  BY DEF HandleRead, Reading
<1>13. \E m \in 0 .. Len(inq[c]) :
          /\ c = Client(i) /\ conns[i].sent = Used(i)
          /\ SysRead(c, m)
          /\ conns'[i].buf = SubSeq(inq[c], 1, m) /\ conns'[i].sent = 0
          /\ conns'[i].fd = conns[i].fd
          /\ \A j \in Slots \ {i} : conns'[j] = conns[j]
  <2> USE <1>3
  <2> WITNESS n \in 0 .. Len(inq[c])
  <2> QED
    BY <1>4, <1>8, <1>12
<1> QED
  BY <1>11, <1>13

LEMMA ExceptSame ==
    ASSUME NEW D, NEW R, NEW f \in [D -> R], NEW x, NEW v, f[x] = v
    PROVE  f = [f EXCEPT ![x] = v]
OBVIOUS

\* A write() that takes all that is left turns the interest; a shorter one leaves it.
LEMMA HandleWriteInv ==
    ASSUME IInv, NEW e \in batch, HandleWrite(e)
    PROVE  /\ IInv'
           /\ \E i \in Live, c \in Clients :
              \E to \in conns[i].sent + 1 .. Used(i) :
                 /\ c = Client(i)
                 /\ SysWrite(c, SubSeq(conns[i].buf, conns[i].sent + 1, to))
                 /\ Unsent(i)' = SubSeq(conns[i].buf, to + 1, Used(i))
                 /\ conns'[i].fd = conns[i].fd
                 /\ \A j \in Slots \ {i} : conns'[j] = conns[j]
<1>1. Current(e) /\ batch' = batch \ {e} /\ Writing(e)
  BY DEF HandleWrite
<1> PICK i \in Live : i = e.slot
  BY <1>1, CurrentIsLive
<1> PICK c \in Clients : c = Client(i)
  BY LiveSlot
<1> PICK s \in Nat : s = conns[i].sent
  BY LiveSlot
<1>2. /\ conns[i].buf \in Seq(Byte) /\ Used(i) \in Nat /\ s < Used(i)
      /\ Used(i) = Len(conns[i].buf)
  BY <1>1, LiveSlot DEF Writing, Used
<1>3. Room(c) \in Int /\ Room(c) > 0
  <2>1. rcvd[c] \in Nat /\ Len(echoed[c]) \in Nat
    BY LenProperties DEF IInv, TypeOK, NetTypeOK
  <2> QED
    BY <2>1, SocketsAssumption DEF Room, HandleWrite, CanWrite
<1> DEFINE to  == s + Smaller(Room(c), Used(i) - s)
           out == SubSeq(conns[i].buf, s + 1, to)
<1>4. to \in s + 1 .. Used(i) /\ to \in Nat
  BY <1>2, <1>3, Advance
<1>5. /\ SysWrite(c, out)
      /\ IF to = Used(i)
         THEN /\ conns' = [conns EXCEPT ![i].buf = <<>>, ![i].sent = 0]
              /\ arm_connection(i, ToRead)
         ELSE /\ conns' = [conns EXCEPT ![i].sent = to]
              /\ UNCHANGED <<pc, watch>>
  BY DEF HandleWrite, SentAfter
<1>6. out \in Seq(Byte)
  <2>1. \A m \in s + 1 .. to : conns[i].buf[m] \in Byte
    BY <1>2, <1>4, ElementOfSeq
  <2>2. s + 1 \in Int /\ to \in Int
    BY <1>4
  <2> QED
    BY <2>1, <2>2, SubSeqProperties
<1> HIDE DEF to, out
<1>7. NetTypeOK' /\ UNCHANGED <<fdtab, peer>>
  BY <1>5, <1>6, WriteStep DEF IInv, TypeOK, SysWrite
<1>8. i \in Slots /\ watch[conns[i].fd].slot # 0 /\ conns[i].fd \in Fds
  BY LiveSlot, ZeroIsNoSlot
<1>9. ASSUME to = Used(i)
      PROVE  /\ IInv'
             /\ Unsent(i)' = SubSeq(conns[i].buf, to + 1, Used(i))
             /\ conns'[i].fd = conns[i].fd
             /\ \A j \in Slots \ {i} : conns'[j] = conns[j]
  <2>1. /\ conns' = [conns EXCEPT ![i].buf = <<>>, ![i].sent = 0]
        /\ arm_connection(i, ToRead)
    BY <1>5, <1>9
  <2>2. <<>> \in Seq(Byte) /\ Len(<<>>) = 0
    BY EmptySeq
  <2>3. /\ conns' \in [Slots -> [fd : Fds \cup {NoFd}, buf : Seq(Byte), sent : Nat]]
        /\ conns'[i].fd = conns[i].fd
        /\ \A j \in Slots \ {i} : conns'[j] = conns[j]
        /\ conns'[i].sent = 0 /\ conns'[i].buf = <<>>
    BY <1>8, <2>1, <2>2 DEF IInv, TypeOK
  <2>4. Interest(i)' = "IN"
    BY <2>2, <2>3 DEF Interest, Used
  <2>5. /\ watch' = [watch EXCEPT ![conns[i].fd] =
                        [slot |-> i, events |-> {Interest(i)', "RDHUP"}]]
        /\ UNCHANGED pc
    BY <1>8, <2>1, <2>4 DEF arm_connection, ToRead
  <2>6. Unsent(i)' = SubSeq(conns[i].buf, to + 1, Used(i))
    <3>1. SubSeq(conns[i].buf, to + 1, Used(i)) = <<>>
      BY <1>2, <1>9, SubSeqEmpty
    <3>2. SubSeq(<<>>, 0 + 1, 0) = <<>>
      BY SubSeqEmpty
    <3> QED
      BY <2>2, <2>3, <3>1, <3>2 DEF Unsent, Used
  <2> QED
    BY <1>1, <1>7, <2>3, <2>5, <2>6, ServedInv
<1>10. ASSUME to # Used(i)
       PROVE  /\ IInv'
              /\ Unsent(i)' = SubSeq(conns[i].buf, to + 1, Used(i))
              /\ conns'[i].fd = conns[i].fd
              /\ \A j \in Slots \ {i} : conns'[j] = conns[j]
  <2>1. /\ conns' = [conns EXCEPT ![i].sent = to]
        /\ UNCHANGED <<pc, watch>>
    BY <1>5, <1>10
  <2>2. /\ conns' \in [Slots -> [fd : Fds \cup {NoFd}, buf : Seq(Byte), sent : Nat]]
        /\ conns'[i].fd = conns[i].fd
        /\ \A j \in Slots \ {i} : conns'[j] = conns[j]
        /\ conns'[i].sent = to /\ conns'[i].buf = conns[i].buf
    <3>1. conns \in [Slots -> [fd : Fds \cup {NoFd}, buf : Seq(Byte), sent : Nat]]
      BY DEF IInv, TypeOK
    <3>2. to \in Nat
      BY <1>4
    <3> QED
      BY <1>8, <2>1, <3>1, <3>2
  <2>3. Interest(i)' = "OUT" /\ Interest(i) = "OUT"
    BY <1>2, <1>4, <1>10, <2>2 DEF Interest, Used
  <2>4. watch[conns[i].fd] = [slot |-> i, events |-> {Interest(i), "RDHUP"}]
    BY DEF IInv, InterestMatchesBuffer, Interest
  <2>5. watch' = [watch EXCEPT ![conns[i].fd] =
                    [slot |-> i, events |-> {Interest(i)', "RDHUP"}]]
    <3>1. watch \in [Fds -> [slot : {0} \cup Slots, events : SUBSET Event]]
      BY DEF IInv, TypeOK
    <3> QED
      BY <2>1, <2>3, <2>4, <3>1, ExceptSame
  <2>6. Unsent(i)' = SubSeq(conns[i].buf, to + 1, Used(i))
    BY <2>2 DEF Unsent, Used
  <2> QED
    BY <1>1, <1>7, <2>1, <2>2, <2>5, <2>6, ServedInv
<1>11. /\ IInv'
       /\ Unsent(i)' = SubSeq(conns[i].buf, to + 1, Used(i))
       /\ conns'[i].fd = conns[i].fd
       /\ \A j \in Slots \ {i} : conns'[j] = conns[j]
  BY <1>9, <1>10
<1>12. SysWrite(c, SubSeq(conns[i].buf, conns[i].sent + 1, to))
  BY <1>5 DEF out
<1> QED
  BY <1>4, <1>11, <1>12

----------------------------------------------------------------------------
(* The invariants. *)

LEMMA InitInv == Init => IInv
<1> SUFFICES ASSUME Init
             PROVE  IInv
  OBVIOUS
<1>1. NetTypeOK /\ OpenFds = {}
  BY NetInitType DEF Init
<1>2. <<>> \in Seq(Byte)
  BY EmptySeq
<1>3. TypeOK
  BY <1>1, <1>2 DEF Init, TypeOK, Unwatched
<1>4. Live = {} /\ Watched = {} /\ batch = {}
  BY DEF Init, Live, Watched, Unwatched
<1>5. InterestMatchesBuffer
  BY <1>1, <1>4 DEF InterestMatchesBuffer
<1>6. BatchInv
  BY <1>4 DEF BatchInv, BatchIsCurrent, OnePerSlot, GoneIsGone
<1> QED
  BY <1>3, <1>5, <1>6 DEF IInv

LEMMA NextInv == IInv /\ [Next]_vars => IInv'
<1> SUFFICES ASSUME IInv, [Next]_vars
             PROVE  IInv'
  OBVIOUS
<1>1. CASE epoll_wait
  BY <1>1, WaitInv
<1>2. CASE \/ HandleListen \/ AcceptAddFails \/ AcceptReject \/ AcceptFails
           \/ BatchDone \/ UNCHANGED vars
  BY <1>2, QuietStep
<1>3. CASE AcceptAdd
  BY <1>3, AcceptAddInv
<1>4. ASSUME NEW e \in batch, HandleGone(e) \/ HandleEnd(e)
      PROVE  IInv'
  BY <1>4, HandleCloseInv
<1>5. ASSUME NEW e \in batch, HandleRead(e)
      PROVE  IInv'
  BY <1>5, HandleReadInv
<1>6. ASSUME NEW e \in batch, HandleWrite(e)
      PROVE  IInv'
  BY <1>6, HandleWriteInv
<1>7. ASSUME NEW e \in batch, HandleNothing(e)
      PROVE  IInv'
  BY <1>7, QuietStep
<1>8. CASE PeerNext /\ UNCHANGED <<pc, watch, batch, conns>>
  BY <1>8, PeerInv
<1> QED
  BY <1>1, <1>2, <1>3, <1>4, <1>5, <1>6, <1>7, <1>8 DEF Next, ServerNext

LEMMA Inductive == Spec => []IInv
BY InitInv, NextInv, PTL DEF Spec

\* The variables of epoll_server.c keep their types.
THEOREM TypeCorrect == Spec => []TypeOK
<1>1. IInv => TypeOK
  BY DEF IInv
<1> QED
  BY <1>1, Inductive, PTL

\* The kernel's interest list is what the slots say: the descriptors of the live
\* slots, each with its own slot and with the interest of its buffer.
THEOREM InterestCorrect == Spec => []InterestMatchesBuffer
<1>1. IInv => InterestMatchesBuffer
  BY DEF IInv
<1> QED
  BY <1>1, Inductive, PTL

\* No event of a batch points to a slot that an accept or a close served before it
\* has freed or given away.
THEOREM BatchCorrect == Spec => []BatchIsCurrent
<1>1. IInv => BatchIsCurrent
  BY DEF IInv, BatchInv
<1> QED
  BY <1>1, Inductive, PTL

----------------------------------------------------------------------------
(* Connections that are closed, and bytes. *)

\* What was echoed, what is buffered and what is not read yet make up the stream.
Whole(i) == echoed[Client(i)] \o Unsent(i) \o inq[Client(i)] = Stream(Client(i))

StreamInv == IInv /\ Placed /\ \A i \in Live : Whole(i)

\* Two slots never serve one peer.
LEMMA OneSlotPerClient ==
    ASSUME IInv, Placed, NEW i \in Live, NEW j \in Live, Client(i) = Client(j)
    PROVE  i = j
<1>1. conns[i].fd \in OpenFds /\ conns[j].fd \in OpenFds
  BY LiveSlot
<1>2. conns[i].fd = conns[j].fd
  BY <1>1 DEF Placed, Client
<1> QED
  BY <1>2, Distinct

LEMMA SameWhole ==
    ASSUME NEW i \in Slots, Whole(i), conns'[i] = conns[i],
           fdtab'[conns[i].fd] = fdtab[conns[i].fd],
           echoed'[Client(i)] = echoed[Client(i)],
           inq'[Client(i)] = inq[Client(i)],
           sent'[Client(i)] = sent[Client(i)]
    PROVE  Whole(i)'
BY DEF Whole, Unsent, Client, Used, Stream

\* The slots whose bytes and whose descriptor a step leaves alone.
LEMMA QuietStream ==
    ASSUME StreamInv, UNCHANGED <<inq, echoed, sent>>,
           \A j \in Live' : /\ j \in Live /\ conns'[j] = conns[j]
                           /\ fdtab'[conns[j].fd] = fdtab[conns[j].fd]
    PROVE  \A j \in Live' : Whole(j)'
<1> TAKE j \in Live'
<1>1. j \in Live /\ j \in Slots /\ Whole(j)
  BY LiveSlot DEF StreamInv
<1> QED
  BY <1>1, SameWhole

\* The other slots when bytes move between slot i and its peer.
LEMMA OthersWhole ==
    ASSUME StreamInv, NEW i \in Live, NEW j \in Live, j # i,
           conns'[j] = conns[j], UNCHANGED <<fdtab, sent>>,
           \A d \in Clients \ {Client(i)} : inq'[d] = inq[d] /\ echoed'[d] = echoed[d]
    PROVE  Whole(j)'
<1>1. Client(j) \in Clients \ {Client(i)} /\ j \in Slots /\ Whole(j)
  BY LiveSlot, OneSlotPerClient DEF StreamInv
<1> QED
  BY <1>1, SameWhole

\* A new connection: nothing echoed, nothing buffered, all of it unread.
LEMMA AcceptAddStream ==
    ASSUME StreamInv, AcceptAdd
    PROVE  Placed' /\ \A j \in Live' : Whole(j)'
<1> PICK fd \in Fds, i \in Slots : SysAccept(fd) /\ allocate_connection(i, fd)
  BY DEF AcceptAdd
<1>1. /\ Placed'
      /\ fdtab'[fd] \in Untouched'
      /\ \A gd \in OpenFds : fdtab'[gd] = fdtab[gd]
  BY AcceptPlaced DEF StreamInv, IInv, TypeOK
<1>2. /\ UNCHANGED <<inq, echoed, sent>>
      /\ conns'[i].fd = fd /\ conns'[i].buf = <<>> /\ conns'[i].sent = 0
      /\ \A j \in Slots \ {i} : conns'[j] = conns[j]
  BY DEF SysAccept, allocate_connection, StreamInv, IInv, TypeOK
<1>3. ASSUME NEW j \in Live', j # i
      PROVE  Whole(j)'
  <2>1. j \in Live /\ j \in Slots /\ conns'[j] = conns[j]
    BY <1>2, <1>3 DEF Live
  <2>2. conns[j].fd \in OpenFds /\ Whole(j)
    BY <2>1, LiveSlot DEF StreamInv
  <2> QED
    BY <1>1, <1>2, <2>1, <2>2, SameWhole
<1>4. Whole(i)'
  <2> PICK c \in Clients : c = fdtab'[fd]
    BY <1>1 DEF Untouched
  <2>1. /\ echoed'[c] = <<>>
        /\ inq'[c] = Stream(c)'
        /\ Client(i)' = c
    BY <1>1, <1>2 DEF Untouched, Client
  <2>2. inq'[c] \in Seq(Byte)
    BY <1>2 DEF StreamInv, IInv, TypeOK, NetTypeOK
  <2>3. Unsent(i)' = <<>>
    <3>1. Used(i)' = 0
      BY <1>2, EmptySeq DEF Used
    <3> QED
      BY <1>2, <3>1, SubSeqEmpty DEF Unsent
  <2>4. <<>> \o <<>> \o inq'[c] = inq'[c]
    BY <2>2, ConcatEmptySeq, EmptySeq
  <2> QED
    BY <2>1, <2>3, <2>4 DEF Whole
<1> QED
  BY <1>1, <1>3, <1>4

\* A slot that closes takes its peer's bytes with it and touches no other slot.
LEMMA HandleCloseStream ==
    ASSUME StreamInv, NEW e \in batch, HandleGone(e) \/ HandleEnd(e)
    PROVE  Placed' /\ \A j \in Live' : Whole(j)'
<1>1. Current(e) /\ close_connection(e.slot)
  BY DEF HandleGone, HandleEnd
<1> PICK i \in Live : i = e.slot
  BY <1>1, CurrentIsLive DEF StreamInv
<1>2. /\ Live' = Live \ {i}
      /\ \A j \in Slots \ {i} : conns'[j] = conns[j]
      /\ \A fd \in OpenFds \ {conns[i].fd} : fdtab'[fd] = fdtab[fd]
  BY <1>1, CloseSlot DEF StreamInv
<1>3. SysClose(conns[i].fd) /\ conns[i].fd \in OpenFds
  BY <1>1, LiveSlot DEF close_connection, StreamInv
<1>4. Placed'
  BY <1>3, ClosePlaced DEF StreamInv, IInv, TypeOK
<1>5. UNCHANGED <<inq, echoed, sent>>
  BY <1>3 DEF SysClose
<1>6. \A j \in Live' : /\ j \in Live /\ conns'[j] = conns[j]
                      /\ fdtab'[conns[j].fd] = fdtab[conns[j].fd]
  <2> TAKE j \in Live'
  <2>1. j \in Live /\ j # i /\ j \in Slots
    BY <1>2, LiveSlot DEF StreamInv
  <2>2. conns[j].fd \in OpenFds /\ conns[j].fd # conns[i].fd
    BY <2>1, LiveSlot, Distinct DEF StreamInv
  <2> QED
    BY <1>2, <2>1, <2>2
<1> QED
  BY <1>4, <1>5, <1>6, QuietStream

\* A read moves bytes from the front of the input to the (empty) buffer.
LEMMA HandleReadStream ==
    ASSUME StreamInv, NEW e \in batch, HandleRead(e)
    PROVE  Placed' /\ \A j \in Live' : Whole(j)'
<1> PICK i \in Live, c \in Clients : \E n \in 0 .. Len(inq[c]) :
        /\ c = Client(i) /\ conns[i].sent = Used(i)
        /\ SysRead(c, n)
        /\ conns'[i].buf = SubSeq(inq[c], 1, n) /\ conns'[i].sent = 0
        /\ conns'[i].fd = conns[i].fd
        /\ \A j \in Slots \ {i} : conns'[j] = conns[j]
  BY HandleReadInv DEF StreamInv
<1> PICK n \in 0 .. Len(inq[c]) :
        /\ c = Client(i) /\ conns[i].sent = Used(i)
        /\ SysRead(c, n)
        /\ conns'[i].buf = SubSeq(inq[c], 1, n) /\ conns'[i].sent = 0
        /\ conns'[i].fd = conns[i].fd
        /\ \A j \in Slots \ {i} : conns'[j] = conns[j]
  OBVIOUS
<1> PICK q \in Seq(Byte) : q = inq[c]
  BY DEF StreamInv, IInv, TypeOK, NetTypeOK
<1> PICK d \in Seq(Byte) : d = echoed[c]
  BY DEF StreamInv, IInv, TypeOK, NetTypeOK
<1>1. i \in Slots /\ conns[i].fd \in OpenFds /\ conns[i].buf \in Seq(Byte)
        /\ Used(i) \in Nat
  BY LiveSlot DEF StreamInv
<1>2. /\ inq'[c] = SubSeq(q, n + 1, Len(q))
      /\ \A b \in Clients \ {c} : inq'[b] = inq[b]
      /\ UNCHANGED <<peer, backlog, fdtab, sent, echoed>>
  BY DEF SysRead, StreamInv, IInv, TypeOK, NetTypeOK
<1>3. Placed'
  BY <1>1, <1>2, DataPlaced DEF Client, StreamInv, IInv, TypeOK
<1>4. Live' = Live
  BY <1>1 DEF Live
<1>5. d \o q = Stream(c)
  <2>1. Unsent(i) = <<>>
    BY <1>1, SubSeqEmpty DEF Unsent
  <2>2. d \o <<>> = d
    BY ConcatEmptySeq
  <2> QED
    BY <2>1, <2>2 DEF Whole, StreamInv
<1>6. PICK b \in Seq(Byte) : b = SubSeq(q, 1, n)
  BY SplitType
<1>7. d \o b \o SubSeq(q, n + 1, Len(q)) = d \o q
  <2>1. n \in 0 .. Len(q)
    OBVIOUS
  <2>2. FrontMoves(d, q, n)
    BY <2>1, FrontBytes
  <2> QED
    BY <1>6, <2>2 DEF FrontMoves
<1>8. Unsent(i)' = b
  <2>1. SubSeq(b, 0 + 1, Len(b)) = b
    BY SubSeqFull
  <2> QED
    BY <1>6, <2>1 DEF Unsent, Used
<1>9. Client(i)' = c /\ Stream(c)' = Stream(c)
  BY <1>2 DEF Client, Stream
<1>10. Whole(i)'
  BY <1>2, <1>5, <1>7, <1>8, <1>9 DEF Whole
<1>11. ASSUME NEW j \in Live', j # i
       PROVE  Whole(j)'
  <2>1. j \in Live /\ j \in Slots
    BY <1>4, LiveSlot DEF StreamInv
  <2> QED
    BY <1>2, <1>11, <2>1, OthersWhole
<1> QED
  BY <1>3, <1>10, <1>11

\* A write is an echo, and leaves the rest of the buffer to be written.
LEMMA HandleWriteStream ==
    ASSUME StreamInv, NEW e \in batch, HandleWrite(e)
    PROVE  /\ Placed' /\ \A j \in Live' : Whole(j)'
           /\ Unclosed => Refines /\ Unclosed'
<1> PICK i \in Live, c \in Clients : \E to \in conns[i].sent + 1 .. Used(i) :
        /\ c = Client(i)
        /\ SysWrite(c, SubSeq(conns[i].buf, conns[i].sent + 1, to))
        /\ Unsent(i)' = SubSeq(conns[i].buf, to + 1, Used(i))
        /\ conns'[i].fd = conns[i].fd
        /\ \A j \in Slots \ {i} : conns'[j] = conns[j]
  BY HandleWriteInv DEF StreamInv
<1> PICK b \in Seq(Byte) : b = conns[i].buf
  BY LiveSlot DEF StreamInv
<1> PICK s \in Nat : s = conns[i].sent
  BY LiveSlot DEF StreamInv
<1>1. Used(i) = Len(b)
  BY DEF Used
<1> PICK to \in s + 1 .. Len(b) :
        /\ c = Client(i)
        /\ SysWrite(c, SubSeq(b, s + 1, to))
        /\ Unsent(i)' = SubSeq(b, to + 1, Len(b))
        /\ conns'[i].fd = conns[i].fd
        /\ \A j \in Slots \ {i} : conns'[j] = conns[j]
  BY <1>1
<1> PICK q \in Seq(Byte) : q = inq[c]
  BY DEF StreamInv, IInv, TypeOK, NetTypeOK
<1> PICK d \in Seq(Byte) : d = echoed[c]
  BY DEF StreamInv, IInv, TypeOK, NetTypeOK
<1>2. /\ SubSeq(b, s + 1, to) \in Seq(Byte)
      /\ SubSeq(b, s + 1, to) # <<>>
      /\ SubSeq(b, to + 1, Len(b)) \in Seq(Byte)
      /\ (d \o SubSeq(b, s + 1, to)) \o SubSeq(b, to + 1, Len(b)) \o q
            = d \o SubSeq(b, s + 1, Len(b)) \o q
  <2>1. NextMoves(d, b, q, s, to)
    BY MoveNext
  <2> QED
    BY <2>1 DEF NextMoves
<1> PICK out \in Seq(Byte) : out = SubSeq(b, s + 1, to)
  BY <1>2
<1> PICK rest \in Seq(Byte) : rest = SubSeq(b, to + 1, Len(b))
  BY <1>2
<1>3. i \in Slots /\ conns[i].fd \in OpenFds
  BY LiveSlot DEF StreamInv
<1>4. (d \o out) \o rest \o q = Stream(c)
  <2>1. Whole(i) /\ Unsent(i) = SubSeq(b, s + 1, Len(b))
    BY <1>1 DEF StreamInv, Unsent
  <2> QED
    BY <1>2, <2>1 DEF Whole
<1>5. /\ echoed'[c] = d \o out
      /\ \A a \in Clients \ {c} : echoed'[a] = echoed[a]
      /\ UNCHANGED <<peer, backlog, fdtab, sent, inq>>
  BY DEF SysWrite, StreamInv, IInv, TypeOK, NetTypeOK
<1>6. Placed'
  BY <1>3, <1>5, DataPlaced DEF Client, StreamInv, IInv, TypeOK
<1>7. Live' = Live
  BY <1>3 DEF Live
<1>8. Client(i)' = c /\ Stream(c)' = Stream(c)
  BY <1>5 DEF Client, Stream
<1>9. Whole(i)'
  BY <1>4, <1>5, <1>8 DEF Whole
<1>10. ASSUME NEW j \in Live', j # i
       PROVE  Whole(j)'
  <2>1. j \in Live /\ j \in Slots
    BY <1>7, LiveSlot DEF StreamInv
  <2> QED
    BY <1>5, <1>10, <2>1, OthersWhole
<1>11. ASSUME Unclosed
       PROVE  Refines /\ Unclosed'
  <2>1. (d \o out) \o (rest \o q) = Stream(c) /\ rest \o q \in Seq(Byte)
    <3>1. d \o out \in Seq(Byte) /\ rest \o q \in Seq(Byte)
      BY Concat, Zenon
    <3> PICK x \in Seq(Byte) : x = d \o out
      BY <3>1
    <3>2. Grouped(x, rest, q)
      BY Associative
    <3> QED
      BY <1>4, <3>1, <3>2 DEF Grouped
  <2>2. NetTypeOK /\ NetTypeOK'
    <3>1. IInv'
      BY HandleWriteInv DEF StreamInv
    <3> QED
      BY <3>1 DEF StreamInv, IInv, TypeOK
  <2>3. c = fdtab[conns[i].fd] /\ out # <<>> /\ SysWrite(c, out)
    BY <1>2 DEF Client
  <2>4. Placed
    BY DEF StreamInv
  <2> QED
    BY <1>3, <1>5, <1>11, <2>1, <2>2, <2>3, <2>4, WriteAbstract
<1> QED
  BY <1>6, <1>9, <1>10, <1>11

\* What peers send goes to the end of their input, in use or not.
LEMMA PeerStreamWhole ==
    ASSUME StreamInv, PeerNext, UNCHANGED <<pc, watch, batch, conns>>
    PROVE  Placed' /\ \A j \in Live' : Whole(j)'
<1>1. Placed'
  BY PeerPlaced DEF StreamInv, IInv, TypeOK
<1>2. UNCHANGED <<fdtab, echoed>>
  BY PeerStep DEF StreamInv, IInv, TypeOK
<1>3. ASSUME NEW i \in Live
      PROVE  Whole(i)'
  <2> PICK c \in Clients : c = Client(i)
    BY LiveSlot DEF StreamInv
  <2>1. Unsent(i) \in Seq(Byte) /\ Whole(i)
    BY LiveSlot, UnsentType DEF StreamInv, Unsent, Used
  <2> PICK b \in Seq(Byte) : b = echoed[c] \o Unsent(i)
    BY <2>1, ConcatProperties DEF StreamInv, IInv, TypeOK, NetTypeOK
  <2> PICK q \in Seq(Byte) : q = inq[c]
    BY DEF StreamInv, IInv, TypeOK, NetTypeOK
  <2>2. /\ b \o q = Stream(c)
        /\ Client(i)' = c /\ echoed'[c] \o Unsent(i)' = b
    BY <1>2, <2>1 DEF Whole, Client, Unsent, Used
  <2>3. CASE inq'[c] = inq[c] /\ Stream(c)' = Stream(c)
    BY <2>2, <2>3 DEF Whole
  <2>4. ASSUME NEW x \in Byte,
               inq'[c] = Append(inq[c], x),
               Stream(c)' = Append(Stream(c), x)
        PROVE  Whole(i)'
    <3>1. b \o Append(q, x) = Append(b \o q, x)
      BY <2>4, LastByte, Zenon
    <3> QED
      BY <2>2, <2>4, <3>1 DEF Whole
  <2> QED
    BY <2>3, <2>4, PeerStream DEF StreamInv, IInv, TypeOK
<1>4. Live' = Live
  BY DEF Live
<1> QED
  BY <1>1, <1>3, <1>4

\* Every step keeps every connection in one place and every byte in its stream.
LEMMA NextStream == StreamInv /\ [Next]_vars => StreamInv'
<1> SUFFICES ASSUME StreamInv, [Next]_vars
             PROVE  Placed' /\ \A j \in Live' : Whole(j)'
  BY NextInv DEF StreamInv
<1>1. CASE \/ epoll_wait \/ HandleListen \/ AcceptFails \/ BatchDone \/ UNCHANGED vars
           \/ \E e \in batch : HandleNothing(e)
  <2>1. UNCHANGED <<netVars, conns>>
    BY <1>1 DEF epoll_wait, HandleListen, AcceptFails, BatchDone, HandleNothing, vars
  <2>2. Placed'
    BY <2>1 DEF netVars, StreamInv, Placed, Untouched, OpenFds, Stream
  <2>3. Live' = Live
    BY <2>1 DEF Live
  <2> QED
    BY <2>1, <2>2, <2>3, QuietStream DEF netVars
<1>2. CASE AcceptAddFails \/ AcceptReject
  <2>1. SysAcceptClose /\ UNCHANGED conns
    BY <1>2 DEF AcceptAddFails, AcceptReject
  <2>2. Placed' /\ Live' = Live /\ UNCHANGED <<fdtab, inq, echoed, sent>>
    BY <2>1, AcceptClosePlaced DEF StreamInv, IInv, TypeOK, SysAcceptClose, Live
  <2> QED
    BY <2>1, <2>2, QuietStream
<1>3. CASE AcceptAdd
  BY <1>3, AcceptAddStream
<1>4. ASSUME NEW e \in batch, HandleGone(e) \/ HandleEnd(e)
      PROVE  Placed' /\ \A j \in Live' : Whole(j)'
  BY <1>4, HandleCloseStream
<1>5. ASSUME NEW e \in batch, HandleRead(e)
      PROVE  Placed' /\ \A j \in Live' : Whole(j)'
  BY <1>5, HandleReadStream
<1>6. ASSUME NEW e \in batch, HandleWrite(e)
      PROVE  Placed' /\ \A j \in Live' : Whole(j)'
  BY <1>6, HandleWriteStream
<1>7. CASE PeerNext /\ UNCHANGED <<pc, watch, batch, conns>>
  BY <1>7, PeerStreamWhole
<1> QED
  BY <1>1, <1>2, <1>3, <1>4, <1>5, <1>6, <1>7 DEF Next, ServerNext

LEMMA InitStream == Init => StreamInv
BY InitInv, PlacedInit DEF Init, StreamInv, Live

----------------------------------------------------------------------------
(* Closed for a reason; an echo service. *)

\* The server closes the connection of an event that says, or of a call that finds,
\* that its peer has ended; or one it never had a slot for.
LEMMA NextCloses ==
    ASSUME StreamInv, [Next]_vars, NEW i \in Live, Client(i) \in closed' \ closed
    PROVE  peer[Client(i)] # "open"
<1> PICK c \in Clients : c = Client(i)
  BY LiveSlot DEF StreamInv
<1>1. CASE UNCHANGED closed
  BY <1>1
<1>2. CASE SysAcceptClose
  <2>1. backlog # <<>> /\ c = Head(backlog)
    BY <1>2 DEF SysAcceptClose
  <2>2. /\ NetTypeOK /\ Placed /\ backlog' = Tail(backlog)
        /\ UNCHANGED <<peer, sent, inq, echoed>>
    BY <1>2 DEF StreamInv, IInv, TypeOK, SysAcceptClose
  <2>3. \A fd \in OpenFds : fdtab[fd] # Head(backlog)
    BY <2>1, <2>2, TakePlaced
  <2> QED
    BY <2>1, <2>3, LiveSlot DEF StreamInv, Client
<1>3. ASSUME NEW e \in batch, HandleGone(e) \/ HandleEnd(e)
      PROVE  peer[c] # "open"
  <2>1. Current(e) /\ SysClose(conns[e.slot].fd)
    BY <1>3 DEF HandleGone, HandleEnd, close_connection
  <2>2. Client(e.slot) = e.src /\ e.slot # 0
    BY <2>1, CurrentIsLive DEF StreamInv, Current
  <2>3. c = Client(e.slot)
    BY <2>1 DEF SysClose, Client
  <2>4. CASE HandleGone(e)
    <3>1. peer[e.src] \in {"fin", "reset"}
      BY <2>2, <2>4 DEF HandleGone, StreamInv, IInv, BatchInv, GoneIsGone
    <3> QED
      BY <2>2, <2>3, <3>1
  <2>5. CASE HandleEnd(e)
    BY <2>3, <2>5 DEF HandleEnd, AtEnd, WriteFails
  <2> QED
    BY <1>3, <2>4, <2>5
<1>4. CASE PeerNext
  BY <1>1, <1>4, PeerStep DEF StreamInv, IInv, TypeOK
<1>5. CASE \/ epoll_wait \/ HandleListen \/ AcceptAdd \/ AcceptFails \/ BatchDone
           \/ UNCHANGED vars
           \/ \E e \in batch : HandleRead(e) \/ HandleWrite(e) \/ HandleNothing(e)
  <2>1. UNCHANGED closed
    BY <1>5 DEF epoll_wait, HandleListen, AcceptAdd, AcceptFails, BatchDone, HandleRead,
                HandleWrite, HandleNothing, SysAccept, SysRead, SysWrite, netVars, vars
  <2> QED
    BY <1>1, <2>1
<1>6. CASE AcceptAddFails \/ AcceptReject
  BY <1>2, <1>6 DEF AcceptAddFails, AcceptReject
<1> QED
  BY <1>3, <1>4, <1>5, <1>6 DEF Next, ServerNext

\* The server never closes a registered connection whose peer has neither finished
\* nor reset it.
THEOREM CloseCorrect == Spec => CloseOnlyOnPeerEnd
<1>1. StreamInv /\ [Next]_vars
        => [\A i \in Live : Client(i) \in closed' \ closed => peer[Client(i)] # "open"]_vars
  BY NextCloses
<1> QED
  BY <1>1, InitStream, NextStream, PTL DEF Spec, CloseOnlyOnPeerEnd

LEMMA NextAbstract ==
    StreamInv /\ Unclosed /\ [Next]_vars => Refines /\ Unclosed'
<1> SUFFICES ASSUME StreamInv, Unclosed, [Next]_vars
             PROVE  Refines /\ Unclosed'
  OBVIOUS
<1>1. NetTypeOK /\ Placed
  BY DEF StreamInv, IInv, TypeOK
<1>2. ASSUME UNCHANGED <<peer, backlog, fdtab, closed, sent, echoed>>
      PROVE  Refines /\ Unclosed'
  BY <1>2, AbstractStutter DEF Unclosed, OpenFds
<1>3. CASE \/ epoll_wait \/ HandleListen \/ AcceptFails \/ BatchDone \/ UNCHANGED vars
           \/ \E e \in batch : HandleRead(e) \/ HandleNothing(e)
  <2>1. UNCHANGED <<peer, backlog, fdtab, closed, sent, echoed>>
    BY <1>3 DEF epoll_wait, HandleListen, AcceptFails, BatchDone, HandleRead,
                HandleNothing, SysRead, netVars, vars
  <2> QED
    BY <1>2, <2>1
<1>4. CASE AcceptAdd
  BY <1>1, <1>4, AcceptAbstract DEF AcceptAdd
<1>5. CASE AcceptAddFails \/ AcceptReject
  BY <1>1, <1>5, AcceptCloseAbstract DEF AcceptAddFails, AcceptReject
<1>6. ASSUME NEW e \in batch, HandleGone(e) \/ HandleEnd(e)
      PROVE  Refines /\ Unclosed'
  <2>1. Current(e) /\ SysClose(conns[e.slot].fd)
    BY <1>6 DEF HandleGone, HandleEnd, close_connection
  <2>2. conns[e.slot].fd \in OpenFds
    BY <2>1, CurrentIsLive, LiveSlot DEF StreamInv
  <2> QED
    BY <1>1, <2>1, <2>2, CloseAbstract
<1>7. ASSUME NEW e \in batch, HandleWrite(e)
      PROVE  Refines /\ Unclosed'
  BY <1>7, HandleWriteStream
<1>8. CASE PeerNext
  BY <1>1, <1>8, PeerAbstract
<1> QED
  BY <1>3, <1>4, <1>5, <1>6, <1>7, <1>8 DEF Next, ServerNext

\* The epoll server implements the echo service: epoll_wait(), accept() and read()
\* are no step of it, write() is an echo of what was sent next, close() a close.
THEOREM ImplementsEcho == Spec => EchoesPrefix
<1>1. Init => StreamInv /\ Unclosed /\ Abstract!Init
  BY InitStream, AbstractInit DEF Init
<1>2. StreamInv /\ Unclosed /\ [Next]_vars
        => StreamInv' /\ Unclosed' /\ [Abstract!Next]_(Abstract!vars)
  BY NextStream, NextAbstract DEF Refines
<1> QED
  BY <1>1, <1>2, PTL DEF Spec, EchoesPrefix, Abstract!Spec
=============================================================================
