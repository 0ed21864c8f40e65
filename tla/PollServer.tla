----------------------------- MODULE PollServer -----------------------------
(***************************************************************************)
(* partB/src/poll_server.c: one thread that waits in poll() on the         *)
(* listener and on every connection slot, accepts until the backlog is     *)
(* empty, then serves the slots poll() reported in increasing order.       *)
(*                                                                         *)
(* One action is one system call of the loop with the code that follows it *)
(* up to the next one, so peers act between a readiness report and its use.*)
(* Two details of the data are abstracted.  A slot's buffer is the         *)
(* sequence of its valid bytes: conns[i].used is Len(buf).  The revents of *)
(* a slot the scan has passed are dead (poll() rewrites them) and are      *)
(* cleared; the scan index is thus the lowest slot with revents left.      *)
(***************************************************************************)
EXTENDS Sockets

CONSTANTS
    Requested,  \* --max-clients
    BufSize     \* sizeof conns[i].buffer

\* The clamp against RLIMIT_NOFILE before the listener is created; a limit of
\* 2 or less stops the server there.
MaxClients == IF Requested + 1 >= FdLimit THEN FdLimit - 2 ELSE Requested

ASSUME PollAssumption ==
    /\ Requested \in Nat \ {0}
    /\ BufSize \in Nat \ {0}
    /\ FdLimit > 2

VARIABLES
    pc,         \* where the loop is: poll, accept, scan; or dead
    pfds,       \* pfds[i] of a connection slot: fd, events, revents
    conns       \* conns[i]: fd, buf (its first used bytes), sent

vars == <<netVars, pc, pfds, conns>>

Slots == 1 .. MaxClients

TypeOK ==
    /\ NetTypeOK
    /\ pc \in {"poll", "accept", "scan", "dead"}
    /\ pfds \in [Slots -> [fd : Fds \cup {NoFd},
                           events : SUBSET Event, revents : SUBSET Event]]
    /\ conns \in [Slots -> [fd : Fds \cup {NoFd}, buf : Seq(Byte), sent : Nat]]

Init ==
    /\ NetInit
    /\ pc = "poll"
    /\ pfds = [i \in Slots |-> [fd |-> NoFd, events |-> {}, revents |-> {}]]
    /\ conns = [i \in Slots |-> [fd |-> NoFd, buf |-> <<>>, sent |-> 0]]

----------------------------------------------------------------------------
(* poll().  EINTR goes back to the call and is a stuttering step. *)

Client(i) == fdtab[conns[i].fd]

Report(i) ==
    IF pfds[i].fd = NoFd THEN {{}} ELSE Reported(fdtab[pfds[i].fd], pfds[i].events)

Poll ==
    /\ pc = "poll"
    /\ \E rev \in [Slots -> UNION {Report(i) : i \in Slots}] :
          /\ \A i \in Slots : rev[i] \in Report(i)
          /\ backlog # <<>> \/ \E i \in Slots : rev[i] # {}
          /\ pfds' = [i \in Slots |-> [pfds[i] EXCEPT !.revents = rev[i]]]
    /\ pc' = IF backlog # <<>> THEN "accept" ELSE "scan"
    /\ UNCHANGED <<netVars, conns>>

----------------------------------------------------------------------------
(* The accept loop: until accept() says EAGAIN. *)

FreeSlots == {i \in Slots : conns[i].fd = NoFd}

add_connection(i, fd) ==
    /\ IsLowest(i, FreeSlots)
    /\ conns' = [conns EXCEPT ![i] = [fd |-> fd, buf |-> <<>>, sent |-> 0]]
    /\ pfds' = [pfds EXCEPT ![i] = [fd |-> fd, events |-> {"IN"}, revents |-> {}]]

AcceptAdd ==
    /\ pc = "accept"
    /\ \E fd \in Fds, i \in Slots : SysAccept(fd) /\ add_connection(i, fd)
    /\ UNCHANGED pc

\* Mutant: the connection nobody has a slot for is not closed.
AcceptReject_leak ==
    /\ pc = "accept"
    /\ FreeSlots = {}
    /\ \E fd \in Fds : SysAccept(fd)
    /\ UNCHANGED <<pc, pfds, conns>>

\* add_connection found no slot: the new connection is closed at once.
AcceptReject ==
    /\ pc = "accept"
    /\ FreeSlots = {}
    /\ SysAcceptClose
    /\ UNCHANGED <<pc, pfds, conns>>

\* EAGAIN ends the loop.  EMFILE is none of the errors it tolerates:
\* die_errno("accept") ends the server.
AcceptFails ==
    /\ pc = "accept"
    /\ FreeFds = {} \/ backlog = <<>>
    /\ pc' = IF FreeFds = {} THEN "dead" ELSE "scan"
    /\ UNCHANGED <<netVars, pfds, conns>>

----------------------------------------------------------------------------
(* The scan over the slots. *)

Pending == {i \in Slots : conns[i].fd # NoFd /\ pfds[i].revents # {}}

Used(i) == Len(conns[i].buf)

close_connection(i) ==
    /\ SysClose(conns[i].fd)
    /\ pfds' = [pfds EXCEPT ![i] = [fd |-> NoFd, events |-> {}, revents |-> {}]]
    /\ conns' = [conns EXCEPT ![i] = [fd |-> NoFd, buf |-> <<>>, sent |-> 0]]

Current(i) == pc = "scan" /\ IsLowest(i, Pending)

Hup(i)     == "HUP" \in pfds[i].revents
Reading(i) == ~Hup(i) /\ "IN" \in pfds[i].revents /\ Used(i) = conns[i].sent
Writing(i) ==
    ~Hup(i) /\ ~Reading(i) /\ "OUT" \in pfds[i].revents /\ conns[i].sent < Used(i)

\* POLLERR, POLLHUP or POLLNVAL, before anything else.
HandleHup(i) ==
    /\ Current(i)
    /\ Hup(i)
    /\ close_connection(i)
    /\ UNCHANGED pc

\* Mutant: EAGAIN from write() counts as an error.
WriteFails_again(c) == ~CanWrite(c)
WriteFails(c) == peer[c] = "reset"

\* read() fails or finds the end of the stream, write() fails.
HandleEnd(i) ==
    /\ Current(i)
    /\ \/ Reading(i) /\ AtEnd(Client(i))
       \/ Writing(i) /\ WriteFails(Client(i))
    /\ close_connection(i)
    /\ UNCHANGED pc

\* The interest once the buffer is full, and once it is empty again.  Mutants: it
\* stays as it was.
ToWrite_not == {"IN"}
ToRead_not  == {"OUT"}
ToWrite == {"OUT"}
ToRead  == {"IN"}

\* The bytes of one read() fill the buffer and turn the interest to POLLOUT.
\* POLLOUT among the same revents would be served next.
HandleRead(i) ==
    /\ Current(i)
    /\ Reading(i)
    /\ HasInput(Client(i))
    /\ LET c == Client(i)
           n == Smaller(BufSize, Len(inq[c]))
       IN  /\ SysRead(c, n)
           /\ conns' = [conns EXCEPT ![i].buf = SubSeq(inq[c], 1, n), ![i].sent = 0]
    /\ pfds' = [pfds EXCEPT ![i].events = ToWrite, ![i].revents = @ \cap {"OUT"}]
    /\ UNCHANGED pc

\* Where in the buffer a write starts.  Mutant: always at its first byte.
From_first(i) == 1
From(i) == conns[i].sent + 1

\* conn->sent after a short write.  Mutant: it does not advance.
SentAfter_stuck(i, to) == conns[i].sent
SentAfter(i, to) == to

\* write() takes what there is room for.  When the last byte has gone the
\* buffer is empty again and the interest turns back to POLLIN.
HandleWrite(i) ==
    /\ Current(i)
    /\ Writing(i)
    /\ CanWrite(Client(i))
    /\ LET c  == Client(i)
           to == conns[i].sent + Smaller(Room(c), Used(i) - conns[i].sent)
       IN  /\ SysWrite(c, SubSeq(conns[i].buf, From(i), to))
           /\ IF to = Used(i)
              THEN /\ conns' = [conns EXCEPT ![i].buf = <<>>, ![i].sent = 0]
                   /\ pfds' = [pfds EXCEPT ![i].events = ToRead, ![i].revents = {}]
              ELSE /\ conns' = [conns EXCEPT ![i].sent = SentAfter(i, to)]
                   /\ pfds' = [pfds EXCEPT ![i].revents = {}]
    /\ UNCHANGED pc

\* EAGAIN from read() or write(), or revents neither branch is for.
HandleNothing(i) ==
    /\ Current(i)
    /\ ~Hup(i)
    /\ Reading(i) => ~HasInput(Client(i)) /\ ~AtEnd(Client(i))
    /\ Writing(i) => ~WriteFails(Client(i)) /\ ~CanWrite(Client(i))
    /\ pfds' = [pfds EXCEPT ![i].revents = {}]
    /\ UNCHANGED <<netVars, pc, conns>>

ScanDone ==
    /\ pc = "scan"
    /\ Pending = {}
    /\ pc' = "poll"
    /\ UNCHANGED <<netVars, pfds, conns>>

ServerNext ==
    \/ Poll
    \/ AcceptAdd \/ AcceptReject \/ AcceptFails
    \/ \E i \in Slots : \/ HandleHup(i) \/ HandleEnd(i)
                        \/ HandleRead(i) \/ HandleWrite(i) \/ HandleNothing(i)
    \/ ScanDone

Next ==
    \/ ServerNext
    \/ PeerNext /\ UNCHANGED <<pc, pfds, conns>>

Spec == Init /\ [][Next]_vars

\* The loop never stops by itself, and a peer reads what it is sent.
Reads(c) == RecvByte(c) /\ UNCHANGED <<pc, pfds, conns>>

FairSpec ==
    /\ Spec
    /\ WF_vars(ServerNext)
    /\ \A c \in Clients : WF_vars(Reads(c))

----------------------------------------------------------------------------
(* Properties. *)

Live == {i \in Slots : conns[i].fd # NoFd}

\* Every byte a registered peer has sent is in exactly one place, in order:
\* written back, in the slot's buffer past conns[i].sent, or not read yet.  No
\* sequence of short reads, short writes and slot reuse loses, repeats,
\* reorders or misdirects one.
StreamIntact ==
    \A i \in Live :
        LET c == Client(i)
        IN  echoed[c] \o SubSeq(conns[i].buf, conns[i].sent + 1, Used(i)) \o inq[c]
              = Stream(c)

\* poll() is asked for POLLOUT exactly while the slot has bytes to write and for
\* POLLIN exactly while it has none: a slot is never deaf to its peer, and poll()
\* never returns at once, again and again, for an event no branch handles.
InterestMatchesBuffer ==
    \A i \in Live :
        pfds[i].events = IF conns[i].sent < Used(i) THEN {"OUT"} ELSE {"IN"}

\* The two arrays agree, no two slots hold one descriptor, and the connections
\* open in the kernel are exactly those in slots: none is leaked by a rejection
\* or a close, none is closed behind a slot's back.
FdOwnership ==
    /\ \A i \in Slots : pfds[i].fd = conns[i].fd
    /\ \A i, j \in Live : conns[i].fd = conns[j].fd => i = j
    /\ OpenFds = {conns[i].fd : i \in Live}

\* The server never exits because accept() has no descriptor left.
NoFdExhaustion == pc # "dead"

\* A registered connection that its peer has not reset is closed only when
\* everything the peer sent has been written back, a half-closed one included.
CloseOnlyWhenDrained ==
    [][\A i \in Live :
          LET c == Client(i)
          IN  c \in closed' \ closed /\ peer[c] # "reset"
                => Len(echoed[c]) = sent[c]]_vars

\* Every connection is accepted or turned away, and whatever a registered peer
\* sends is echoed in full unless its connection is closed: neither the accept
\* loop nor the scan starves a slot.
Served ==
    \A c \in Clients :
        peer[c] # "idle" ~> c \in closed \/ (Len(echoed[c]) = sent[c]
                                               /\ \E fd \in OpenFds : fdtab[fd] = c)
============================================================================
