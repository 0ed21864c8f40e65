---------------------------- MODULE EpollServer ----------------------------
(***************************************************************************)
(* partB/src/epoll_server.c: one thread that takes a batch of events from  *)
(* epoll_wait() and serves them one by one.  An event carries a pointer to *)
(* a connection slot; the slot may have changed since the event was        *)
(* queued.                                                                 *)
(*                                                                         *)
(* One action is one system call of the loop with the code that follows it *)
(* up to the next one.  The order of a batch is the kernel's choice, so a  *)
(* batch is a set.  A slot's buffer is the sequence of its valid bytes:    *)
(* conn->used is Len(buf).                                                 *)
(***************************************************************************)
EXTENDS Sockets

CONSTANTS
    MaxClients, \* --max-clients
    BufSize     \* sizeof conn->buffer

ASSUME EpollAssumption ==
    /\ MaxClients \in Nat \ {0}
    /\ BufSize \in Nat \ {0}

VARIABLES
    pc,         \* where the loop is: wait, events, accept; or dead
    watch,      \* epoll's interest list: descriptor to slot (0: none) and events
    batch,      \* events taken and not served yet; slot 0 is the listener
    conns       \* conns[i]: fd, buf (its first used bytes), sent

vars == <<netVars, pc, watch, batch, conns>>

Slots     == 1 .. MaxClients
Unwatched == [slot |-> 0, events |-> {}]

\* src is history: the peer whose connection raised the event.
TypeOK ==
    /\ NetTypeOK
    /\ pc \in {"wait", "events", "accept", "dead"}
    /\ watch \in [Fds -> [slot : {0} \cup Slots, events : SUBSET Event]]
    /\ batch \subseteq [slot : {0} \cup Slots, revents : SUBSET Event,
                        src : Clients \cup {NoClient}]
    /\ conns \in [Slots -> [fd : Fds \cup {NoFd}, buf : Seq(Byte), sent : Nat]]

Init ==
    /\ NetInit
    /\ pc = "wait"
    /\ watch = [fd \in Fds |-> Unwatched]
    /\ batch = {}
    /\ conns = [i \in Slots |-> [fd |-> NoFd, buf |-> <<>>, sent |-> 0]]

Client(i) == fdtab[conns[i].fd]
Used(i)   == Len(conns[i].buf)

----------------------------------------------------------------------------
(* epoll_wait().  EINTR goes back to the call and is a stuttering step. *)

Watched == {fd \in Fds : watch[fd].slot # 0}

ListenEvent == [slot |-> 0, revents |-> {"IN"}, src |-> NoClient]

epoll_wait ==
    /\ pc = "wait"
    /\ \E rev \in [Watched -> UNION {Reported(fdtab[fd], watch[fd].events) :
                                        fd \in Watched}] :
          /\ \A fd \in Watched : rev[fd] \in Reported(fdtab[fd], watch[fd].events)
          /\ batch' = {[slot |-> watch[fd].slot, revents |-> rev[fd], src |-> fdtab[fd]] :
                          fd \in {w \in Watched : rev[w] # {}}}
                      \cup (IF backlog # <<>> THEN {ListenEvent} ELSE {})
    /\ batch' # {}
    /\ pc' = "events"
    /\ UNCHANGED <<netVars, watch, conns>>

----------------------------------------------------------------------------
(* The accept loop: until accept() says EAGAIN. *)

FreeSlots == {i \in Slots : conns[i].fd = NoFd}

\* Mutant: a slot in use is taken for free.
allocate_connection_any(i, fd) ==
    /\ FreeSlots # {}
    /\ IsLowest(i, Slots)
    /\ conns' = [conns EXCEPT ![i] = [fd |-> fd, buf |-> <<>>, sent |-> 0]]

allocate_connection(i, fd) ==
    /\ IsLowest(i, FreeSlots)
    /\ conns' = [conns EXCEPT ![i] = [fd |-> fd, buf |-> <<>>, sent |-> 0]]

HandleListen ==
    /\ pc = "events"
    /\ ListenEvent \in batch
    /\ batch' = batch \ {ListenEvent}
    /\ pc' = "accept"
    /\ UNCHANGED <<netVars, watch, conns>>

AcceptAdd ==
    /\ pc = "accept"
    /\ \E fd \in Fds, i \in Slots :
          /\ SysAccept(fd)
          /\ allocate_connection(i, fd)
          /\ watch' = [watch EXCEPT ![fd] = [slot |-> i, events |-> {"IN", "RDHUP"}]]
    /\ UNCHANGED <<pc, batch>>

\* EPOLL_CTL_ADD fails (ENOMEM, ENOSPC): close_connection undoes the allocation.
AcceptAddFails ==
    /\ pc = "accept"
    /\ FreeSlots # {}
    /\ SysAcceptClose
    /\ UNCHANGED <<pc, watch, batch, conns>>

\* allocate_connection found no slot: the new connection is closed at once.
AcceptReject ==
    /\ pc = "accept"
    /\ FreeSlots = {}
    /\ SysAcceptClose
    /\ UNCHANGED <<pc, watch, batch, conns>>

\* EAGAIN ends the loop.  EMFILE is none of the errors it tolerates:
\* die_errno("accept") ends the server.
AcceptFails ==
    /\ pc = "accept"
    /\ FreeFds = {} \/ backlog = <<>>
    /\ pc' = IF FreeFds = {} THEN "dead" ELSE "events"
    /\ UNCHANGED <<netVars, watch, batch, conns>>

----------------------------------------------------------------------------
(* A connection's event. *)

close_connection(i) ==
    /\ SysClose(conns[i].fd)
    /\ watch' = [watch EXCEPT ![conns[i].fd] = Unwatched]
    /\ conns' = [conns EXCEPT ![i] = [fd |-> NoFd, buf |-> <<>>, sent |-> 0]]

\* EPOLL_CTL_MOD; it fails for a descriptor that is not in the list, and then
\* die_errno("epoll_ctl mod").
arm_connection(i, events) ==
    LET fd == conns[i].fd
    IN  IF watch[fd].slot = 0
        THEN pc' = "dead" /\ UNCHANGED watch
        ELSE UNCHANGED pc /\ watch' = [watch EXCEPT ![fd] = [slot |-> i, events |-> events]]

Current(e) == pc = "events" /\ e.slot # 0

Gone(e)    == e.revents \cap {"HUP", "RDHUP"} # {}
Reading(e) == ~Gone(e) /\ "IN" \in e.revents /\ Used(e.slot) = conns[e.slot].sent
Writing(e) == /\ ~Gone(e) /\ ~Reading(e)
              /\ "OUT" \in e.revents /\ conns[e.slot].sent < Used(e.slot)

\* EPOLLERR, EPOLLHUP or EPOLLRDHUP, before anything else: bytes that have
\* arrived and not been read are dropped.
HandleGone(e) ==
    /\ Current(e)
    /\ Gone(e)
    /\ close_connection(e.slot)
    /\ batch' = batch \ {e}
    /\ UNCHANGED pc

\* Mutant: EAGAIN from write() counts as an error.
WriteFails_again(c) == ~CanWrite(c)
WriteFails(c) == peer[c] = "reset"

\* read() fails or finds the end of the stream, write() fails.
HandleEnd(e) ==
    /\ Current(e)
    /\ \/ Reading(e) /\ AtEnd(Client(e.slot))
       \/ Writing(e) /\ WriteFails(Client(e.slot))
    /\ close_connection(e.slot)
    /\ batch' = batch \ {e}
    /\ UNCHANGED pc

\* The interest once the buffer is full, and once it is empty again.  Mutants: it
\* stays as it was.
ToWrite_not == {"IN", "RDHUP"}
ToRead_not  == {"OUT", "RDHUP"}
ToWrite == {"OUT", "RDHUP"}
ToRead  == {"IN", "RDHUP"}

\* The bytes of one read() fill the buffer and turn the interest to EPOLLOUT.
\* EPOLLOUT among the same revents would be served next; it never is, since
\* the two are never asked for together (InterestMatchesBuffer).
HandleRead(e) ==
    /\ Current(e)
    /\ Reading(e)
    /\ LET i == e.slot
           c == Client(i)
           n == Smaller(BufSize, Len(inq[c]))
       IN  /\ HasInput(c)
           /\ SysRead(c, n)
           /\ conns' = [conns EXCEPT ![i].buf = SubSeq(inq[c], 1, n), ![i].sent = 0]
           /\ arm_connection(i, ToWrite)
    /\ batch' = batch \ {e}

\* Mutant: a short write does not advance conn->sent.
SentAfter_stuck(i, to) == conns[i].sent
SentAfter(i, to) == to

\* write() takes what there is room for.  When the last byte has gone the
\* buffer is empty again and the interest turns back to EPOLLIN.
HandleWrite(e) ==
    /\ Current(e)
    /\ Writing(e)
    /\ LET i  == e.slot
           c  == Client(i)
           to == conns[i].sent + Smaller(Room(c), Used(i) - conns[i].sent)
       IN  /\ CanWrite(c)
           /\ SysWrite(c, SubSeq(conns[i].buf, conns[i].sent + 1, to))
           /\ IF to = Used(i)
              THEN /\ conns' = [conns EXCEPT ![i].buf = <<>>, ![i].sent = 0]
                   /\ arm_connection(i, ToRead)
              ELSE /\ conns' = [conns EXCEPT ![i].sent = SentAfter(i, to)]
                   /\ UNCHANGED <<pc, watch>>
    /\ batch' = batch \ {e}

\* EAGAIN from read() or write(), or revents neither branch is for.
HandleNothing(e) ==
    /\ Current(e)
    /\ ~Gone(e)
    /\ Reading(e) => ~HasInput(Client(e.slot)) /\ ~AtEnd(Client(e.slot))
    /\ Writing(e) => ~WriteFails(Client(e.slot)) /\ ~CanWrite(Client(e.slot))
    /\ batch' = batch \ {e}
    /\ UNCHANGED <<netVars, pc, watch, conns>>

BatchDone ==
    /\ pc = "events"
    /\ batch = {}
    /\ pc' = "wait"
    /\ UNCHANGED <<netVars, watch, batch, conns>>

ServerNext ==
    \/ epoll_wait
    \/ HandleListen \/ AcceptAdd \/ AcceptAddFails \/ AcceptReject \/ AcceptFails
    \/ \E e \in batch : \/ HandleGone(e) \/ HandleEnd(e)
                        \/ HandleRead(e) \/ HandleWrite(e) \/ HandleNothing(e)
    \/ BatchDone

Next ==
    \/ ServerNext
    \/ PeerNext /\ UNCHANGED <<pc, watch, batch, conns>>

Spec == Init /\ [][Next]_vars

\* The loop never stops by itself, and a peer reads what it is sent.
Reads(c) == RecvByte(c) /\ UNCHANGED <<pc, watch, batch, conns>>

FairSpec ==
    /\ Spec
    /\ WF_vars(ServerNext)
    /\ \A c \in Clients : WF_vars(Reads(c))

----------------------------------------------------------------------------
(* Properties. *)

Live == {i \in Slots : conns[i].fd # NoFd}

\* epoll watches exactly the descriptors of the live slots, each with a pointer
\* to its own slot, for EPOLLOUT exactly while the slot has bytes to write and
\* for EPOLLIN exactly while it has none.
InterestMatchesBuffer ==
    /\ Watched = {conns[i].fd : i \in Live}
    /\ OpenFds = Watched
    /\ \A i \in Live :
          watch[conns[i].fd] =
              [slot |-> i,
               events |-> {IF conns[i].sent < Used(i) THEN "OUT" ELSE "IN", "RDHUP"}]

\* An event that waits in the batch points to the connection that raised it:
\* no slot is freed, or freed and given to a new connection, by an accept or a
\* close served before it in the same batch.
BatchIsCurrent ==
    \A e \in batch : e.slot # 0 => e.slot \in Live /\ Client(e.slot) = e.src

\* A registered connection whose peer has neither finished nor reset it is
\* never closed by the server.
CloseOnlyOnPeerEnd ==
    [][\A i \in Live : Client(i) \in closed' \ closed => peer[Client(i)] # "open"]_vars

\* A registered connection that its peer has not reset is closed only when
\* everything the peer sent has been written back.
CloseOnlyWhenDrained ==
    [][\A i \in Live :
          LET c == Client(i)
          IN  c \in closed' \ closed /\ peer[c] # "reset"
                => Len(echoed[c]) = sent[c]]_vars

\* Every connection is accepted or turned away, and whatever a registered peer
\* sends is echoed in full unless its connection is closed.
Served ==
    \A c \in Clients :
        peer[c] # "idle" ~> c \in closed \/ (Len(echoed[c]) = sent[c]
                                               /\ \E fd \in OpenFds : fdtab[fd] = c)
============================================================================
