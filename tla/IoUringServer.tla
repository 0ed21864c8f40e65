--------------------------- MODULE IoUringServer ---------------------------
(***************************************************************************)
(* partB/src/io_uring_server.c: one thread that submits ACCEPT, RECV and   *)
(* SEND requests and handles their completions.  There is no table of      *)
(* connections: a connection_t lives on the heap and is reached only       *)
(* through the request that is outstanding for it.                         *)
(*                                                                         *)
(* The kernel runs concurrently with the loop: it completes requests in    *)
(* any order, writes received bytes into conn->buffer by itself and posts  *)
(* completions in the ring, or in its overflow list when the ring is full. *)
(* One action of the server is one iteration of the inner loop.  The two   *)
(* loops need no program counter: an iteration runs while head differs     *)
(* from the tail, and head equals *ring.cq_head whenever the outer loop    *)
(* reads it.                                                               *)
(*                                                                         *)
(* Abstracted: a submit is one step (submit_request leaves the submission  *)
(* ring empty, because io_uring_enter() takes the entry at once); a heap   *)
(* block is a number, the lowest one free; die_errno() for an              *)
(* io_uring_enter() or a calloc() of a request that fails is left out.     *)
(***************************************************************************)
EXTENDS Sockets

CONSTANTS
    BufSize,    \* sizeof conn->buffer
    CqEntries,  \* entries of the completion ring
    IndexMod    \* ring indices are unsigned: they wrap at this number (2^32)

ASSUME IoUringAssumption ==
    /\ BufSize \in Nat \ {0}
    /\ CqEntries \in Nat \ {0}
    /\ IndexMod \in Nat
    /\ IndexMod > CqEntries /\ IndexMod % CqEntries = 0
    /\ IsFiniteSet(Clients)

VARIABLES
    head,       \* the loop's local copy of the ring's head
    cqHead,     \* *ring.cq_head, as the kernel sees it
    cqTail,     \* *ring.cq_tail
    cqes,       \* the completion ring: request and result
    overflow,   \* completions the kernel keeps back while the ring is full
    reqs,       \* request_t blocks
    inflight,   \* requests the kernel works on
    conns       \* connection_t blocks

ringVars == <<head, cqHead, cqTail, cqes, overflow>>
vars     == <<netVars, ringVars, reqs, inflight, conns>>

\* Enough blocks: each peer has one connection, each connection one request.
ConnIds == 1 .. Cardinality(Clients)
ReqIds  == 0 .. Cardinality(Clients)
NoConn  == 0
Free    == [type |-> "FREE", fd |-> NoFd, conn |-> NoConn, len |-> 0]
NoCqe   == [id |-> 0, res |-> 0]
NoBlock == [live |-> FALSE, fd |-> NoFd, buf |-> <<>>, length |-> 0]

TypeOK ==
    /\ NetTypeOK
    /\ {head, cqHead, cqTail} \subseteq 0 .. (IndexMod - 1)
    /\ cqes \in [0 .. (CqEntries - 1) -> [id : ReqIds, res : Int]]
    /\ overflow \in Seq([id : ReqIds, res : Int])
    /\ reqs \in [ReqIds -> [type : {"FREE", "ACCEPT", "RECV", "SEND"},
                            fd : Fds \cup {NoFd}, conn : ConnIds \cup {NoConn},
                            len : 0 .. BufSize]]
    /\ inflight \subseteq ReqIds
    /\ conns \in [ConnIds -> [live : BOOLEAN, fd : Fds \cup {NoFd},
                              buf : Seq(Byte), length : 0 .. BufSize]]

\* submit_request() of the first ACCEPT precedes the loop.
Init ==
    /\ NetInit
    /\ head = 0 /\ cqHead = 0 /\ cqTail = 0
    /\ cqes = [s \in 0 .. (CqEntries - 1) |-> NoCqe]
    /\ overflow = <<>>
    /\ reqs = [id \in ReqIds |-> IF id = 0 THEN [Free EXCEPT !.type = "ACCEPT"] ELSE Free]
    /\ inflight = {0}
    /\ conns = [k \in ConnIds |-> NoBlock]

----------------------------------------------------------------------------
(* The kernel's side of the rings. *)

\* How far one ring index is behind another: the head from the tail of completions.
Span(from, to) == (to - from) % IndexMod

Succ(index) == (index + 1) % IndexMod

Post(id, res) ==
    /\ IF overflow = <<>> /\ Span(cqHead, cqTail) < CqEntries
       THEN /\ cqes' = [cqes EXCEPT ![cqTail % CqEntries] = [id |-> id, res |-> res]]
            /\ cqTail' = Succ(cqTail)
            /\ UNCHANGED overflow
       ELSE /\ overflow' = Append(overflow, [id |-> id, res |-> res])
            /\ UNCHANGED <<cqes, cqTail>>
    /\ inflight' = inflight \ {id}
    /\ UNCHANGED <<head, cqHead, reqs>>

\* accept() asks for a descriptor first: EMFILE whether or not a peer waits.
CompleteAccept(id) ==
    /\ id \in inflight
    /\ reqs[id].type = "ACCEPT"
    /\ \/ \E fd \in Fds : SysAccept(fd) /\ Post(id, fd)
       \/ FreeFds = {} /\ Post(id, -1) /\ UNCHANGED netVars
    /\ UNCHANGED conns

\* The bytes go to the front of the buffer of the request's connection.
CompleteRecv(id) ==
    /\ id \in inflight
    /\ reqs[id].type = "RECV"
    /\ LET k == reqs[id].conn
           c == fdtab[reqs[id].fd]
           n == Smaller(BufSize, Len(inq[c]))
       IN  \/ /\ HasInput(c)
              /\ SysRead(c, n)
              /\ conns' = [conns EXCEPT ![k].buf =
                              SubSeq(inq[c], 1, n) \o SubSeq(@, n + 1, Len(@))]
              /\ Post(id, n)
           \/ /\ AtEnd(c)
              /\ Post(id, IF peer[c] = "reset" THEN -1 ELSE 0)
              /\ UNCHANGED <<netVars, conns>>

\* Without MSG_WAITALL a SEND completes with what there was room for.
CompleteSend(id) ==
    /\ id \in inflight
    /\ reqs[id].type = "SEND"
    /\ LET c == fdtab[reqs[id].fd]
           n == Smaller(Room(c), reqs[id].len)
       IN  \/ /\ CanWrite(c)
              /\ SysWrite(c, SubSeq(conns[reqs[id].conn].buf, 1, n))
              /\ Post(id, n)
           \/ /\ peer[c] = "reset"
              /\ Post(id, -1)
              /\ UNCHANGED netVars
    /\ UNCHANGED conns

KernelNext ==
    \E id \in ReqIds : CompleteAccept(id) \/ CompleteRecv(id) \/ CompleteSend(id)

----------------------------------------------------------------------------
(* The server. *)

\* Nothing is left to handle and the head is published: io_uring_enter(GETEVENTS)
\* returns when the ring has a completion, and moves to it what the kernel kept
\* back.
Enter ==
    /\ head = cqTail /\ head = cqHead
    /\ overflow # <<>>
    /\ LET n == Smaller(CqEntries, Len(overflow))
           place(s) == 1 + ((s - cqTail) % CqEntries)
       IN  /\ cqes' = [s \in DOMAIN cqes |->
                          IF place(s) <= n THEN overflow[place(s)] ELSE cqes[s]]
           /\ cqTail' = (cqTail + n) % IndexMod
           /\ overflow' = SubSeq(overflow, n + 1, Len(overflow))
    /\ UNCHANGED <<netVars, head, cqHead, reqs, inflight, conns>>

Cqe     == cqes[head % CqEntries]
Current == reqs[Cqe.id]

\* An iteration of the inner loop on a completion of this type.
Iterate(type) ==
    /\ head # cqTail
    /\ Current.type = type
    /\ head' = Succ(head)
    /\ UNCHANGED <<cqHead, cqTail, cqes, overflow>>

\* The blocks that can be allocated, once the request being handled is freed.
FreeReqs  == {id \in ReqIds : reqs[id].type = "FREE"}
FreeConns == {k \in ConnIds : ~conns[k].live}

ACCEPT       == [Free EXCEPT !.type = "ACCEPT"]
RECV(k, fd)  == [type |-> "RECV", fd |-> fd, conn |-> k, len |-> BufSize]
SEND(k, n)   == [type |-> "SEND", fd |-> conns[k].fd, conn |-> k, len |-> n]

\* make_request() and submit_request() of a successor, free(req) of the request.
Resubmit(req) ==
    /\ reqs' = [reqs EXCEPT ![Cqe.id] = req]
    /\ inflight' = inflight \cup {Cqe.id}

\* close_connection(), free(conn) and free(req): the connection ends.
CloseAndFree(k) ==
    /\ SysClose(conns[k].fd)
    /\ conns' = [conns EXCEPT ![k] = NoBlock]
    /\ reqs' = [reqs EXCEPT ![Cqe.id] = Free]
    /\ UNCHANGED inflight

\* Mutant: an ACCEPT that failed is not submitted again.
HandleAcceptError_stop ==
    /\ Iterate("ACCEPT")
    /\ Cqe.res < 0
    /\ reqs' = [reqs EXCEPT ![Cqe.id] = Free]
    /\ UNCHANGED <<netVars, inflight, conns>>

\* The accept failed: it is only submitted again.
HandleAcceptError ==
    /\ Iterate("ACCEPT")
    /\ Cqe.res < 0
    /\ Resubmit(ACCEPT)
    /\ UNCHANGED <<netVars, conns>>

\* The next ACCEPT and the first RECV of the connection.
HandleAccept ==
    /\ Iterate("ACCEPT")
    /\ Cqe.res >= 0
    /\ \E k \in FreeConns, id \in FreeReqs :
          /\ IsLowest(k, FreeConns) /\ IsLowest(id, FreeReqs)
          /\ conns' = [conns EXCEPT ![k] =
                          [live |-> TRUE, fd |-> Cqe.res, buf |-> <<>>, length |-> 0]]
          /\ reqs' = [reqs EXCEPT ![Cqe.id] = ACCEPT, ![id] = RECV(k, Cqe.res)]
          /\ inflight' = inflight \cup {Cqe.id, id}
    /\ UNCHANGED netVars

\* Mutant: the descriptor is not closed when calloc() fails.
HandleAcceptNoMemory_leak ==
    /\ Iterate("ACCEPT")
    /\ Cqe.res >= 0
    /\ Resubmit(ACCEPT)
    /\ UNCHANGED <<netVars, conns>>

\* calloc() of the connection fails: the next ACCEPT is submitted, then result is
\* closed.  No step of the kernel comes in between here, so that ACCEPT does not
\* meet the descriptor still in use.
HandleAcceptNoMemory ==
    /\ Iterate("ACCEPT")
    /\ Cqe.res >= 0
    /\ Resubmit(ACCEPT)
    /\ SysClose(Cqe.res)
    /\ UNCHANGED conns

\* Mutant: a connection ends with the last byte.
Over_one(res) == res <= 1
Over(res) == res <= 0

\* The received bytes are sent back, or the connection ends.
HandleRecv ==
    /\ Iterate("RECV")
    /\ LET k == Current.conn
       IN  IF Over(Cqe.res)
           THEN CloseAndFree(k)
           ELSE /\ conns' = [conns EXCEPT ![k].length = Cqe.res]
                /\ Resubmit(SEND(k, Cqe.res))
                /\ UNCHANGED netVars

\* Mutant: the next RECV is submitted for a connection that has ended.
HandleSend_dangling ==
    /\ Iterate("SEND")
    /\ LET k == Current.conn
       IN  /\ Resubmit(RECV(k, conns[k].fd))
           /\ IF Cqe.res <= 0
              THEN /\ SysClose(conns[k].fd)
                   /\ conns' = [conns EXCEPT ![k] = NoBlock]
              ELSE UNCHANGED <<netVars, conns>>

\* Mutant: the buffer is sent again.
AfterSend_again(k) == SEND(k, conns[k].length)
AfterSend(k) == RECV(k, conns[k].fd)

\* What a short SEND has left is forgotten.
HandleSend ==
    /\ Iterate("SEND")
    /\ LET k == Current.conn
       IN  IF Over(Cqe.res)
           THEN CloseAndFree(k)
           ELSE /\ Resubmit(AfterSend(k))
                /\ UNCHANGED <<netVars, conns>>

\* Mutant: *ring.cq_head is not advanced, and read again by the outer loop.
Publish_forgotten ==
    /\ head = cqTail
    /\ head # cqHead
    /\ head' = cqHead
    /\ UNCHANGED <<netVars, cqHead, cqTail, cqes, overflow, reqs, inflight, conns>>

\* *ring.cq_head = head, once for the whole batch.  The entries go back to the
\* kernel; what they hold is dead and is cleared.
Publish ==
    /\ head = cqTail
    /\ head # cqHead
    /\ cqHead' = head
    /\ cqes' = [s \in DOMAIN cqes |-> NoCqe]
    /\ UNCHANGED <<netVars, head, cqTail, overflow, reqs, inflight, conns>>

ServerNext ==
    \/ Enter
    \/ HandleAcceptError \/ HandleAccept \/ HandleAcceptNoMemory
    \/ HandleRecv \/ HandleSend
    \/ Publish

serverVars == <<ringVars, reqs, inflight, conns>>

Next ==
    \/ ServerNext
    \/ KernelNext
    \/ PeerNext /\ UNCHANGED serverVars

Spec == Init /\ [][Next]_vars

\* The loop never stops by itself, the kernel completes what it can, and a peer
\* reads what it is sent.
Reads(c)     == RecvByte(c) /\ UNCHANGED serverVars
Completes(id) == CompleteAccept(id) \/ CompleteRecv(id) \/ CompleteSend(id)

FairSpec ==
    /\ Spec
    /\ WF_vars(ServerNext)
    /\ \A id \in ReqIds : WF_vars(Completes(id))
    /\ \A c \in Clients : WF_vars(Reads(c))

----------------------------------------------------------------------------
(* Properties. *)

\* The completions the loop has not handled, oldest first.
Unhandled ==
    [n \in 1 .. Span(head, cqTail) |-> cqes[(head + (n - 1)) % CqEntries]] \o overflow

Outstanding == {id \in ReqIds : reqs[id].type # "FREE"}
LiveConns   == {k \in ConnIds : conns[k].live}

\* Every request is in exactly one place: with the kernel, or in one completion
\* the loop has yet to handle.  No completion is overwritten, handled twice or
\* lost, although the loop publishes its head once per batch.
EachRequestOnce ==
    /\ \A i, j \in 1 .. Len(Unhandled) : Unhandled[i].id = Unhandled[j].id => i = j
    /\ inflight \cap {Unhandled[i].id : i \in 1 .. Len(Unhandled)} = {}
    /\ inflight \cup {Unhandled[i].id : i \in 1 .. Len(Unhandled)} = Outstanding

\* Exactly one ACCEPT is outstanding, and exactly one RECV or SEND for each
\* connection: none is stranded, none is freed or closed while the kernel holds
\* a pointer to its buffer, and no descriptor is used after it was given to
\* another connection.
OneRequestPerConnection ==
    /\ Cardinality({id \in Outstanding : reqs[id].type = "ACCEPT"}) = 1
    /\ \A k \in LiveConns : Cardinality({id \in Outstanding : reqs[id].conn = k}) = 1
    /\ \A id \in Outstanding :
          reqs[id].type # "ACCEPT" => /\ reqs[id].conn \in LiveConns
                                      /\ reqs[id].fd = conns[reqs[id].conn].fd

\* The descriptors of connections accepted and not known to the loop yet.
Accepted ==
    {fd \in Fds : \E i \in 1 .. Len(Unhandled) :
        reqs[Unhandled[i].id].type = "ACCEPT" /\ Unhandled[i].res = fd}

\* The connections open in the kernel are those of live blocks and those whose
\* ACCEPT completion waits: neither an error nor a failed allocation leaks one.
FdOwnership ==
    /\ \A j, k \in LiveConns : conns[j].fd = conns[k].fd => j = k
    /\ OpenFds = {conns[k].fd : k \in LiveConns} \cup Accepted

\* A registered connection that its peer has not reset is closed only when
\* everything the peer sent has been written back.  (One that got no connection_t
\* for want of memory is closed unread.)
CloseOnlyWhenDrained ==
    [][\A k \in LiveConns :
          LET c == fdtab[conns[k].fd]
          IN  c \in closed' \ closed /\ peer[c] # "reset"
                => Len(echoed[c]) = sent[c]]_vars

\* What a connected peer sends is echoed in full unless its connection is
\* closed, and a peer that connects is accepted: it waits in the backlog only
\* while the server is out of descriptors, however many ACCEPTs that makes fail.
Served ==
    \A c \in Clients :
        peer[c] # "idle" ~> \/ c \in closed
                            \/ Len(echoed[c]) = sent[c] /\ \E fd \in OpenFds : fdtab[fd] = c
                            \/ FreeFds = {} /\ \A fd \in OpenFds : fdtab[fd] # c
============================================================================
