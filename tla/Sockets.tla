------------------------------ MODULE Sockets ------------------------------
(***************************************************************************)
(* What the four echo servers of partB/src see of the kernel's TCP sockets *)
(* and of the peers at the other end.  Nothing here is code of the         *)
(* repository: it is modelled from how the servers use accept(), read(),   *)
(* write(), close(), poll()/epoll and from Linux's documented behaviour.   *)
(*                                                                         *)
(* A peer opens at most one connection.  It sends the bytes <<c, 1>>,      *)
(* <<c, 2>>, ..., so a byte says whose it is and where it stands in its    *)
(* stream: an echo that loses, repeats, reorders or misdirects a byte is   *)
(* visible in the data.                                                    *)
(***************************************************************************)
EXTENDS Integers, Sequences, FiniteSets

CONSTANTS
    Clients,    \* the peers
    NoClient,   \* what a free file descriptor refers to
    Quota,      \* bound: how many bytes each peer sends over its connection
    Leavers,    \* bound: the peers that may finish or reset their connection
    SndCap,     \* bytes the kernel takes on a connection before the peer reads
    FirstFd,    \* descriptors below this one are open for good (std*, listener, ...)
    FdLimit     \* RLIMIT_NOFILE: descriptors are 0 .. FdLimit - 1

ASSUME SocketsAssumption ==
    /\ NoClient \notin Clients
    /\ Quota \in [Clients -> Nat]
    /\ Leavers \subseteq Clients
    /\ SndCap \in Nat \ {0}
    /\ FirstFd \in Nat
    /\ FdLimit \in Nat

VARIABLES
    peer,       \* the peer's end: not connected, open, sent a FIN, or reset
    backlog,    \* connections established and not accepted yet, oldest first
    fdtab,      \* the descriptor table of the server process
    closed,     \* peers whose connection the server has closed
    sent,       \* number of bytes each peer has sent
    inq,        \* bytes received from a peer and not read by the server yet
    echoed,     \* every byte the server has written to a peer
    rcvd        \* number of those the peer has read

netVars == <<peer, backlog, fdtab, closed, sent, inq, echoed, rcvd>>

Fds   == FirstFd .. (FdLimit - 1)
NoFd  == -1
Byte  == Clients \X (Nat \ {0})
Event == {"IN", "OUT", "RDHUP", "HUP"}

NetTypeOK ==
    /\ peer \in [Clients -> {"idle", "open", "fin", "reset"}]
    /\ backlog \in Seq(Clients)
    /\ fdtab \in [Fds -> Clients \cup {NoClient}]
    /\ closed \in SUBSET Clients
    /\ sent \in [Clients -> Nat]
    /\ inq \in [Clients -> Seq(Byte)]
    /\ echoed \in [Clients -> Seq(Byte)]
    /\ rcvd \in [Clients -> Nat]

NetInit ==
    /\ peer = [c \in Clients |-> "idle"]
    /\ backlog = <<>>
    /\ fdtab = [fd \in Fds |-> NoClient]
    /\ closed = {}
    /\ sent = [c \in Clients |-> 0]
    /\ inq = [c \in Clients |-> <<>>]
    /\ echoed = [c \in Clients |-> <<>>]
    /\ rcvd = [c \in Clients |-> 0]

----------------------------------------------------------------------------
(* The peers. *)

\* The handshake completes in the kernel, before the server accepts.
Connect(c) ==
    /\ peer[c] = "idle"
    /\ peer' = [peer EXCEPT ![c] = "open"]
    /\ backlog' = Append(backlog, c)
    /\ UNCHANGED <<fdtab, closed, sent, inq, echoed, rcvd>>

SendByte(c) ==
    /\ peer[c] = "open"
    /\ c \notin closed
    /\ sent[c] < Quota[c]
    /\ sent' = [sent EXCEPT ![c] = @ + 1]
    /\ inq' = [inq EXCEPT ![c] = Append(@, <<c, sent[c] + 1>>)]
    /\ UNCHANGED <<peer, backlog, fdtab, closed, echoed, rcvd>>

RecvByte(c) ==
    /\ peer[c] \in {"open", "fin"}
    /\ rcvd[c] < Len(echoed[c])
    /\ rcvd' = [rcvd EXCEPT ![c] = @ + 1]
    /\ UNCHANGED <<peer, backlog, fdtab, closed, sent, inq, echoed>>

\* shutdown(SHUT_WR), or close() with nothing left to read: the server sees a
\* FIN.  A peer that has really closed answers the next write with a reset.
SendFin(c) ==
    /\ c \in Leavers
    /\ peer[c] = "open"
    /\ c \notin closed
    /\ peer' = [peer EXCEPT ![c] = "fin"]
    /\ UNCHANGED <<backlog, fdtab, closed, sent, inq, echoed, rcvd>>

\* The peer dies, closes with data unread, or refuses data after its close().
SendReset(c) ==
    /\ c \in Leavers
    /\ peer[c] \in {"open", "fin"}
    /\ c \notin closed
    /\ peer' = [peer EXCEPT ![c] = "reset"]
    /\ UNCHANGED <<backlog, fdtab, closed, sent, inq, echoed, rcvd>>

PeerNext ==
    \E c \in Clients :
        Connect(c) \/ SendByte(c) \/ RecvByte(c) \/ SendFin(c) \/ SendReset(c)

----------------------------------------------------------------------------
(* The system calls. *)

FreeFds == {fd \in Fds : fdtab[fd] = NoClient}
OpenFds == {fd \in Fds : fdtab[fd] # NoClient}

IsLowest(x, S) == x \in S /\ \A y \in S : x <= y

Smaller(m, n) == IF m <= n THEN m ELSE n

\* accept() takes the lowest free descriptor before it looks at the backlog:
\* without one it fails with EMFILE whether or not a connection is waiting.
SysAccept(fd) ==
    /\ IsLowest(fd, FreeFds)
    /\ backlog # <<>>
    /\ fdtab' = [fdtab EXCEPT ![fd] = Head(backlog)]
    /\ backlog' = Tail(backlog)
    /\ UNCHANGED <<peer, closed, sent, inq, echoed, rcvd>>

\* accept() and, at once, close() of what it returned.
SysAcceptClose ==
    /\ FreeFds # {}
    /\ backlog # <<>>
    /\ backlog' = Tail(backlog)
    /\ closed' = closed \cup {Head(backlog)}
    /\ UNCHANGED <<peer, fdtab, sent, inq, echoed, rcvd>>

SysClose(fd) ==
    /\ fdtab' = [fdtab EXCEPT ![fd] = NoClient]
    /\ closed' = closed \cup {fdtab[fd]}
    /\ UNCHANGED <<peer, backlog, sent, inq, echoed, rcvd>>

\* read() takes the n oldest bytes that have arrived; SysWrite appends to the stream.
SysRead(c, n) ==
    /\ inq' = [inq EXCEPT ![c] = SubSeq(@, n + 1, Len(@))]
    /\ UNCHANGED <<peer, backlog, fdtab, closed, sent, echoed, rcvd>>

SysWrite(c, bytes) ==
    /\ echoed' = [echoed EXCEPT ![c] = @ \o bytes]
    /\ UNCHANGED <<peer, backlog, fdtab, closed, sent, inq, rcvd>>

Room(c) == SndCap - (Len(echoed[c]) - rcvd[c])

\* What read() and write() find.  A FIN or a reset is only met when the bytes
\* that came before it have been read.
HasInput(c)  == inq[c] # <<>>
AtEnd(c)     == inq[c] = <<>> /\ peer[c] \in {"fin", "reset"}
CanWrite(c)  == peer[c] # "reset" /\ Room(c) > 0

\* Level-triggered readiness, as poll() and epoll report it (ERR comes with HUP).
Ready(c) ==
    (IF HasInput(c) \/ AtEnd(c) THEN {"IN"} ELSE {})
        \cup (IF peer[c] = "reset" \/ Room(c) > 0 THEN {"OUT"} ELSE {})
        \cup (IF peer[c] \in {"fin", "reset"} THEN {"RDHUP"} ELSE {})
        \cup (IF peer[c] = "reset" THEN {"HUP"} ELSE {})

\* A wait reports what is ready of the events asked for, HUP always, and may
\* report one of the events asked for in error (select(2), BUGS).
Reported(c, interest) ==
    LET due == Ready(c) \cap (interest \cup {"HUP"})
    IN  {r \in SUBSET (due \cup (interest \cap {"IN", "OUT"})) : due \subseteq r}

\* The bytes a peer has sent, in order.
Stream(c) == [i \in 1 .. sent[c] |-> <<c, i>>]

----------------------------------------------------------------------------
(* What a server makes of them. *)

\* The promise of an echo service, with a connection open from the handshake until
\* the server closes it: what a server writes on a connection is, at any moment, a
\* prefix of what its peer has sent there, and it writes nothing after the close.
Abstract == INSTANCE EchoService WITH
    status <- [c \in Clients |-> IF c \in closed THEN "closed"
                                 ELSE IF peer[c] = "idle" THEN "idle" ELSE "open"]

EchoesPrefix == Abstract!Spec
============================================================================
