--------------------------- MODULE SocketsProofs ---------------------------
(***************************************************************************)
(* Lemmas about the operations of Sockets, for the proofs about the        *)
(* servers that use them: what each system call does to the types of the   *)
(* network's state and to the descriptor table.                            *)
(***************************************************************************)
EXTENDS Sockets, SequenceTheorems, TLAPS

\* The first n of a sequence's elements and the rest are sequences of the same
\* kind, of lengths n and Len(s) - n: read() and write() split data this way.
LEMMA SplitType ==
    ASSUME NEW S, NEW s \in Seq(S), NEW n \in 0 .. Len(s)
    PROVE  /\ SubSeq(s, 1, n) \in Seq(S)
           /\ SubSeq(s, n + 1, Len(s)) \in Seq(S)
           /\ Len(SubSeq(s, 1, n)) = n
           /\ Len(SubSeq(s, n + 1, Len(s))) = Len(s) - n
<1>1. Len(s) \in Nat /\ n \in Nat /\ n <= Len(s)
  BY LenProperties
<1>2. \A i \in 1 .. Len(s) : s[i] \in S
  BY ElementOfSeq
<1>3. /\ SubSeq(s, 1, n) \in Seq(S)
      /\ Len(SubSeq(s, 1, n)) = n
  <2>1. \A i \in 1 .. n : s[i] \in S
    BY <1>1, <1>2
  <2>2. /\ SubSeq(s, 1, n) \in Seq(S)
        /\ Len(SubSeq(s, 1, n)) = IF 1 <= n THEN n - 1 + 1 ELSE 0
    BY <1>1, <2>1, SubSeqProperties
  <2> QED
    BY <1>1, <2>2
<1>4. /\ SubSeq(s, n + 1, Len(s)) \in Seq(S)
      /\ Len(SubSeq(s, n + 1, Len(s))) = Len(s) - n
  <2>1. \A i \in n + 1 .. Len(s) : s[i] \in S
    BY <1>1, <1>2
  <2>2. /\ SubSeq(s, n + 1, Len(s)) \in Seq(S)
        /\ Len(SubSeq(s, n + 1, Len(s)))
             = IF n + 1 <= Len(s) THEN Len(s) - (n + 1) + 1 ELSE 0
    <3>1. n + 1 \in Int /\ Len(s) \in Int
      BY <1>1
    <3> QED
      BY <2>1, <3>1, SubSeqProperties
  <2> QED
    BY <1>1, <2>2
<1> QED
  BY <1>3, <1>4

\* The network starts well typed, with no descriptor handed out.
LEMMA NetInitType ==
    ASSUME NetInit
    PROVE  NetTypeOK /\ OpenFds = {}
<1>1. <<>> \in Seq(Clients) /\ <<>> \in Seq(Byte)
  BY EmptySeq
<1> QED
  BY <1>1 DEF NetInit, NetTypeOK, OpenFds

\* Whatever a peer does keeps the types and touches no descriptor of the server.
LEMMA PeerStep ==
    ASSUME NetTypeOK, PeerNext
    PROVE  NetTypeOK' /\ UNCHANGED <<fdtab, closed, echoed>>
<1> PICK c \in Clients : \/ Connect(c) \/ SendByte(c) \/ RecvByte(c)
                         \/ SendFin(c) \/ SendReset(c)
  BY DEF PeerNext
<1>1. CASE Connect(c)
  <2>1. Append(backlog, c) \in Seq(Clients)
    BY AppendProperties DEF NetTypeOK
  <2> QED
    BY <1>1, <2>1 DEF Connect, NetTypeOK
<1>2. CASE SendByte(c)
  <2>1. sent[c] + 1 \in Nat \ {0}
    BY DEF NetTypeOK
  <2>2. <<c, sent[c] + 1>> \in Byte
    BY <2>1 DEF Byte
  <2>3. Append(inq[c], <<c, sent[c] + 1>>) \in Seq(Byte)
    BY <2>2, AppendProperties DEF NetTypeOK
  <2> QED
    BY <1>2, <2>1, <2>3 DEF SendByte, NetTypeOK
<1>3. CASE RecvByte(c)
  BY <1>3 DEF RecvByte, NetTypeOK
<1>4. CASE SendFin(c) \/ SendReset(c)
  BY <1>4 DEF SendFin, SendReset, NetTypeOK
<1> QED
  BY <1>1, <1>2, <1>3, <1>4

\* accept() opens the descriptor it returns, on a peer, and no other.
LEMMA AcceptStep ==
    ASSUME NetTypeOK, NEW fd \in Fds, SysAccept(fd)
    PROVE  /\ NetTypeOK'
           /\ fd \notin OpenFds
           /\ OpenFds' = OpenFds \cup {fd}
<1>1. Head(backlog) \in Clients /\ Tail(backlog) \in Seq(Clients)
  BY HeadTailProperties DEF SysAccept, NetTypeOK
<1>2. fd \in FreeFds
  BY DEF SysAccept, IsLowest
<1>3. Head(backlog) # NoClient
  BY <1>1, SocketsAssumption
<1> QED
  BY <1>1, <1>2, <1>3 DEF SysAccept, NetTypeOK, FreeFds, OpenFds

\* A connection that is accepted and closed at once leaves no descriptor open.
LEMMA AcceptCloseStep ==
    ASSUME NetTypeOK, SysAcceptClose
    PROVE  NetTypeOK' /\ OpenFds' = OpenFds
<1>1. Head(backlog) \in Clients /\ Tail(backlog) \in Seq(Clients)
  BY HeadTailProperties DEF SysAcceptClose, NetTypeOK
<1> QED
  BY <1>1 DEF SysAcceptClose, NetTypeOK, OpenFds

\* close() of an open descriptor frees that one and no other.
LEMMA CloseStep ==
    ASSUME NetTypeOK, NEW fd \in OpenFds, SysClose(fd)
    PROVE  NetTypeOK' /\ OpenFds' = OpenFds \ {fd}
<1>1. fd \in Fds /\ fdtab[fd] \in Clients
  BY DEF OpenFds, NetTypeOK
<1> QED
  BY <1>1 DEF SysClose, NetTypeOK, OpenFds

\* read() removes the bytes it returns from the front of the input.
LEMMA ReadStep ==
    ASSUME NetTypeOK, NEW c \in Clients, NEW n \in 0 .. Len(inq[c]), SysRead(c, n)
    PROVE  NetTypeOK' /\ UNCHANGED <<fdtab, closed>>
<1>1. SubSeq(inq[c], n + 1, Len(inq[c])) \in Seq(Byte)
  BY SplitType DEF NetTypeOK
<1> QED
  BY <1>1 DEF SysRead, NetTypeOK

\* write() appends bytes to the peer's stream.
LEMMA WriteStep ==
    ASSUME NetTypeOK, NEW c \in Clients, NEW bytes \in Seq(Byte), SysWrite(c, bytes)
    PROVE  NetTypeOK' /\ UNCHANGED <<fdtab, closed>>
<1>1. echoed[c] \o bytes \in Seq(Byte)
  BY ConcatProperties DEF NetTypeOK
<1> QED
  BY <1>1 DEF SysWrite, NetTypeOK

----------------------------------------------------------------------------
(* Where a connection is, and its stream. *)

\* How three sequences are put together makes no difference.
Grouped(x, y, z) == (x \o y) \o z = x \o (y \o z)

LEMMA Regroup ==
    ASSUME NEW S, NEW x \in Seq(S), NEW y \in Seq(S), NEW z \in Seq(S)
    PROVE  Grouped(x, y, z)
<1>1. (x \o y) \o z = x \o (y \o z)
  BY ConcatAssociative, SMTT(30)
<1> QED
  BY <1>1 DEF Grouped

\* A sequence taken apart at n and put together again behind another one.
LEMMA MoveFront ==
    ASSUME NEW S, NEW e \in Seq(S), NEW q \in Seq(S), NEW n \in 0 .. Len(q)
    PROVE  e \o SubSeq(q, 1, n) \o SubSeq(q, n + 1, Len(q)) = e \o q
<1>1. Len(q) \in Nat /\ 1 \in 1 .. Len(q) + 1 /\ n \in 1 - 1 .. Len(q)
      /\ Len(q) \in n .. Len(q)
  BY LenProperties
<1>2. SubSeq(q, 1, n) \o SubSeq(q, n + 1, Len(q)) = SubSeq(q, 1, Len(q))
  BY <1>1, ConcatAdjacentSubSeq
<1>3. SubSeq(q, 1, n) \in Seq(S) /\ SubSeq(q, n + 1, Len(q)) \in Seq(S)
  BY SplitType
<1>4. e \o SubSeq(q, 1, n) \o SubSeq(q, n + 1, Len(q))
        = e \o (SubSeq(q, 1, n) \o SubSeq(q, n + 1, Len(q)))
  <2> PICK t \in Seq(S), u \in Seq(S) : t = SubSeq(q, 1, n) /\ u = SubSeq(q, n + 1, Len(q))
    BY <1>3
  <2>1. Grouped(e, t, u)
    BY Regroup
  <2> QED
    BY <2>1 DEF Grouped
<1> QED
  BY <1>2, <1>4, SubSeqFull

\* Appending to the last of two sequences appends to the whole.
LEMMA AppendLast ==
    ASSUME NEW S, NEW e \in Seq(S), NEW q \in Seq(S), NEW x \in S
    PROVE  e \o Append(q, x) = Append(e \o q, x)
<1>1. <<x>> \in Seq(S)
  <2>1. <<>> \in Seq(S) /\ Append(<<>>, x) = <<>> \o <<x>>
    BY EmptySeq, AppendIsConcat
  <2>2. Append(<<>>, x) = <<x>>
    OBVIOUS
  <2> QED
    BY <2>1, <2>2, AppendProperties
<1>2. Append(q, x) = q \o <<x>> /\ Append(e \o q, x) = (e \o q) \o <<x>>
  BY AppendIsConcat, ConcatProperties
<1> QED
  BY <1>1, <1>2, ConcatAssociative

\* What a peer has sent is a sequence of bytes, and grows at its end.
LEMMA StreamType ==
    ASSUME NetTypeOK, NEW c \in Clients
    PROVE  Stream(c) \in Seq(Byte) /\ Len(Stream(c)) = sent[c]
<1>1. sent[c] \in Nat
  BY DEF NetTypeOK
<1>2. \A i \in 1 .. sent[c] : <<c, i>> \in Byte
  BY <1>1 DEF Byte
<1>3. Stream(c) \in [1 .. sent[c] -> Byte]
  BY <1>2 DEF Stream
<1> QED
  BY <1>1, <1>3, SeqDef, LenProperties DEF Stream

\* One more byte sent extends the stream by that byte.
LEMMA StreamGrows ==
    ASSUME NetTypeOK, NetTypeOK', NEW c \in Clients, sent'[c] = sent[c] + 1
    PROVE  Stream(c)' = Append(Stream(c), <<c, sent[c] + 1>>)
<1> DEFINE b == <<c, sent[c] + 1>>
<1>1. sent[c] \in Nat /\ b \in Byte
  BY DEF NetTypeOK, Byte
<1>2. /\ Stream(c) \in Seq(Byte)
      /\ Len(Stream(c)) = sent[c]
  BY StreamType
<1>3. /\ Stream(c)' \in Seq(Byte)
      /\ Len(Stream(c)') = sent[c] + 1
  <2>1. Stream(c)' \in Seq(Byte) /\ Len(Stream(c)') = sent'[c]
    <3>1. sent'[c] \in Nat
      BY DEF NetTypeOK
    <3>2. Stream(c)' = [i \in 1 .. sent'[c] |-> <<c, i>>]
      BY DEF Stream
    <3>3. \A i \in 1 .. sent'[c] : <<c, i>> \in Byte
      BY <3>1 DEF Byte
    <3>4. Stream(c)' \in [1 .. sent'[c] -> Byte]
      BY <3>2, <3>3
    <3> QED
      BY <3>1, <3>2, <3>4, SeqDef, LenProperties
  <2> QED
    BY <2>1
<1>4. \A i \in 1 .. sent[c] + 1 : Stream(c)'[i] = Append(Stream(c), b)[i]
  <2>1. ASSUME NEW i \in 1 .. sent[c]
        PROVE  Stream(c)'[i] = <<c, i>> /\ Append(Stream(c), b)[i] = <<c, i>>
    <3>1. Stream(c)[i] = <<c, i>> /\ i \in 1 .. sent[c] + 1
      BY <1>1 DEF Stream
    <3>2. Append(Stream(c), b)[i] = Stream(c)[i]
      BY <1>1, <1>2, AppendProperties
    <3> QED
      BY <3>1, <3>2 DEF Stream
  <2>2. /\ Stream(c)'[sent[c] + 1] = b
        /\ Append(Stream(c), b)[sent[c] + 1] = b
    BY <1>1, <1>2, AppendProperties DEF Stream
  <2>3. \A i \in 1 .. sent[c] + 1 : i \in 1 .. sent[c] \/ i = sent[c] + 1
    BY <1>1
  <2> TAKE i \in 1 .. sent[c] + 1
  <2>4. CASE i \in 1 .. sent[c]
    <3>1. Stream(c)'[i] = <<c, i>> /\ Append(Stream(c), b)[i] = <<c, i>>
      BY <2>1, <2>4
    <3> QED
      BY <3>1
  <2>5. CASE i = sent[c] + 1
    <3>1. Stream(c)'[i] = b /\ Append(Stream(c), b)[i] = b
      BY <2>2, <2>5
    <3> QED
      BY <3>1
  <2> QED
    BY <2>3, <2>4, <2>5
<1>5. Append(Stream(c), b) \in Seq(Byte) /\ Len(Append(Stream(c), b)) = sent[c] + 1
  BY <1>1, <1>2, AppendProperties
<1> QED
  BY <1>3, <1>4, <1>5, SeqEqual

\* Before it is accepted a connection has no byte written to it, and its input is
\* all its peer has sent.
Untouched == {c \in Clients : echoed[c] = <<>> /\ inq[c] = Stream(c)}

\* A connection is in one place: one position of the backlog or one descriptor.
Placed ==
    /\ \A m, n \in 1 .. Len(backlog) : backlog[m] = backlog[n] => m = n
    /\ \A m \in 1 .. Len(backlog) :
          /\ peer[backlog[m]] # "idle"
          /\ backlog[m] \in Untouched
          /\ \A fd \in OpenFds : fdtab[fd] # backlog[m]
    /\ \A fd, gd \in OpenFds : fdtab[fd] = fdtab[gd] => fd = gd
    /\ \A fd \in OpenFds : peer[fdtab[fd]] # "idle"
    /\ \A c \in Clients : peer[c] = "idle" => c \in Untouched

\* At first there is no connection and no byte.
LEMMA PlacedInit ==
    ASSUME NetInit
    PROVE  Placed
<1>1. OpenFds = {} /\ Len(backlog) = 0
  BY NetInitType, EmptySeq DEF NetInit
<1>2. \A c \in Clients : c \in Untouched
  <2> TAKE c \in Clients
  <2>1. NetTypeOK /\ sent[c] = 0 /\ inq[c] = <<>> /\ echoed[c] = <<>>
    BY NetInitType DEF NetInit
  <2>2. Stream(c) \in Seq(Byte) /\ Len(Stream(c)) = 0
    BY <2>1, StreamType
  <2> QED
    BY <2>1, <2>2, EmptySeq DEF Untouched
<1> QED
  BY <1>1, <1>2 DEF Placed

\* What a peer sends goes to the end of its stream and of its input, and to no
\* other peer's; nothing else a peer does changes what was sent or received.
LEMMA PeerStream ==
    ASSUME NetTypeOK, PeerNext, NEW c \in Clients
    PROVE  \/ inq'[c] = inq[c] /\ Stream(c)' = Stream(c)
           \/ \E x \in Byte : /\ peer[c] # "idle"
                              /\ inq'[c] = Append(inq[c], x)
                              /\ Stream(c)' = Append(Stream(c), x)
<1> PICK d \in Clients : \/ Connect(d) \/ SendByte(d) \/ RecvByte(d)
                         \/ SendFin(d) \/ SendReset(d)
  BY DEF PeerNext
<1>1. CASE SendByte(d) /\ d = c
  <2> DEFINE x == <<c, sent[c] + 1>>
  <2>1. sent[c] \in Nat /\ x \in Byte
    BY DEF NetTypeOK, Byte
  <2>2. sent'[c] = sent[c] + 1 /\ inq'[c] = Append(inq[c], x) /\ peer[c] # "idle"
    BY <1>1, <2>1 DEF SendByte, NetTypeOK
  <2>3. Stream(c)' = Append(Stream(c), x)
    BY <2>2, PeerStep, StreamGrows
  <2> QED
    BY <2>1, <2>2, <2>3
<1>2. CASE ~(SendByte(d) /\ d = c)
  <2>1. sent'[c] = sent[c] /\ inq'[c] = inq[c]
    BY <1>2 DEF Connect, SendByte, RecvByte, SendFin, SendReset, NetTypeOK
  <2> QED
    BY <2>1 DEF Stream
<1> QED
  BY <1>1, <1>2

\* Peers connect once, at the end of the backlog.
LEMMA PeerPlaced ==
    ASSUME NetTypeOK, Placed, PeerNext
    PROVE  Placed'
<1>1. OpenFds' = OpenFds /\ UNCHANGED <<fdtab, echoed>> /\ NetTypeOK'
  BY PeerStep DEF OpenFds
<1>2. ASSUME NEW c \in Clients, c \in Untouched
      PROVE  c \in Untouched'
  BY <1>1, <1>2, PeerStream DEF Untouched
<1>3. \A c \in Clients : peer[c] # "idle" => peer'[c] # "idle"
  BY DEF PeerNext, Connect, SendByte, RecvByte, SendFin, SendReset, NetTypeOK
<1>4. /\ \A fd \in OpenFds : fdtab[fd] \in Clients
      /\ \A m \in 1 .. Len(backlog) : backlog[m] \in Clients
  BY ElementOfSeq DEF OpenFds, NetTypeOK
<1>5. CASE UNCHANGED backlog
  BY <1>1, <1>2, <1>3, <1>4, <1>5 DEF Placed
<1>6. ASSUME NEW c \in Clients, Connect(c)
      PROVE  Placed'
  <2>1. /\ backlog' = Append(backlog, c)
        /\ peer[c] = "idle" /\ peer'[c] # "idle"
    BY <1>6 DEF Connect, NetTypeOK
  <2>2. /\ Len(backlog) \in Nat
        /\ Len(backlog') = Len(backlog) + 1
        /\ \A m \in 1 .. Len(backlog) : backlog'[m] = backlog[m]
        /\ backlog'[Len(backlog) + 1] = c
    BY <2>1, AppendProperties, LenProperties DEF NetTypeOK
  <2>3. /\ \A m \in 1 .. Len(backlog) : backlog[m] # c
        /\ \A fd \in OpenFds : fdtab[fd] # c
        /\ c \in Untouched'
    BY <1>2, <2>1 DEF Placed
  <2>4. \A m, n \in 1 .. Len(backlog') : backlog'[m] = backlog'[n] => m = n
    BY <2>2, <2>3 DEF Placed
  <2>5. \A m \in 1 .. Len(backlog') :
            /\ peer'[backlog'[m]] # "idle"
            /\ backlog'[m] \in Untouched'
            /\ \A fd \in OpenFds : fdtab[fd] # backlog'[m]
    <3> TAKE m \in 1 .. Len(backlog')
    <3>1. CASE m = Len(backlog) + 1
      BY <2>1, <2>2, <2>3, <3>1
    <3>2. CASE m # Len(backlog) + 1
      <4>1. m \in 1 .. Len(backlog) /\ backlog'[m] = backlog[m] /\ backlog[m] \in Clients
        BY <1>4, <2>2, <3>2
      <4> QED
        BY <1>2, <1>3, <4>1 DEF Placed
    <3> QED
      BY <3>1, <3>2
  <2> QED
    BY <1>1, <1>2, <1>3, <1>4, <2>4, <2>5 DEF Placed
<1> QED
  BY <1>5, <1>6 DEF PeerNext, SendByte, RecvByte, SendFin, SendReset

\* What is left of the backlog when its oldest connection is taken.
LEMMA BacklogTail ==
    ASSUME NetTypeOK, backlog # <<>>
    PROVE  /\ 1 \in 1 .. Len(backlog)
           /\ Head(backlog) = backlog[1]
           /\ Len(Tail(backlog)) \in Nat
           /\ \A m \in 1 .. Len(Tail(backlog)) :
                 /\ m + 1 \in 1 .. Len(backlog)
                 /\ Tail(backlog)[m] = backlog[m + 1]
<1>1. backlog \in Seq(Clients) /\ Len(backlog) \in Nat \ {0}
  BY EmptySeq DEF NetTypeOK
<1>2. /\ Len(Tail(backlog)) = Len(backlog) - 1
      /\ \A m \in 1 .. Len(Tail(backlog)) : Tail(backlog)[m] = backlog[m + 1]
  BY <1>1, HeadTailProperties
<1>3. Head(backlog) = backlog[1]
  BY <1>1
<1> QED
  BY <1>1, <1>2, <1>3

\* A connection that leaves the backlog keeps the others where they are: what is
\* left satisfies Placed, and no position of it holds the connection taken.
LEMMA TakePlaced ==
    ASSUME NetTypeOK, Placed, backlog # <<>>, backlog' = Tail(backlog),
           UNCHANGED <<peer, sent, inq, echoed>>
    PROVE  /\ \A m, n \in 1 .. Len(backlog') : backlog'[m] = backlog'[n] => m = n
           /\ \A m \in 1 .. Len(backlog') :
                 /\ peer'[backlog'[m]] # "idle"
                 /\ backlog'[m] \in Untouched'
                 /\ backlog'[m] # Head(backlog)
                 /\ \A fd \in OpenFds : fdtab[fd] # backlog'[m]
           /\ peer[Head(backlog)] # "idle"
           /\ Head(backlog) \in Untouched
           /\ \A fd \in OpenFds : fdtab[fd] # Head(backlog)
           /\ Untouched' = Untouched
<1>1. /\ 1 \in 1 .. Len(backlog)
      /\ Head(backlog) = backlog[1]
      /\ Len(backlog') \in Nat
      /\ \A m \in 1 .. Len(backlog') : /\ m + 1 \in 1 .. Len(backlog)
                                       /\ backlog'[m] = backlog[m + 1]
  BY BacklogTail
<1>2. Untouched' = Untouched
  BY DEF Untouched, Stream
<1>3. \A m, n \in 1 .. Len(backlog') : backlog'[m] = backlog'[n] => m = n
  <2> TAKE m, n \in 1 .. Len(backlog')
  <2> HAVE backlog'[m] = backlog'[n]
  <2>1. m + 1 = n + 1
    BY <1>1 DEF Placed
  <2> QED
    BY <1>1, <2>1
<1>4. \A m \in 1 .. Len(backlog') :
                 /\ peer'[backlog'[m]] # "idle"
                 /\ backlog'[m] \in Untouched'
                 /\ backlog'[m] # Head(backlog)
                 /\ \A fd \in OpenFds : fdtab[fd] # backlog'[m]
  <2> TAKE m \in 1 .. Len(backlog')
  <2>1. /\ m + 1 \in 1 .. Len(backlog)
        /\ backlog'[m] = backlog[m + 1]
        /\ m + 1 # 1
    BY <1>1
  <2> QED
    BY <1>1, <1>2, <2>1 DEF Placed
<1> QED
  BY <1>1, <1>2, <1>3, <1>4 DEF Placed

\* accept() moves a connection from the backlog to one descriptor, untouched.
LEMMA AcceptPlaced ==
    ASSUME NetTypeOK, Placed, NEW fd \in Fds, SysAccept(fd)
    PROVE  /\ Placed'
           /\ fdtab'[fd] \in Untouched'
           /\ \A gd \in OpenFds : fdtab'[gd] = fdtab[gd]
           /\ Untouched' = Untouched
<1>1. /\ OpenFds' = OpenFds \cup {fd}
      /\ fd \notin OpenFds
  BY AcceptStep
<1>2. /\ fdtab'[fd] = Head(backlog)
      /\ \A gd \in OpenFds : fdtab'[gd] = fdtab[gd]
      /\ backlog # <<>>
      /\ backlog' = Tail(backlog)
      /\ UNCHANGED <<peer, sent, inq, echoed>>
  BY <1>1 DEF SysAccept, NetTypeOK, OpenFds
<1>3. /\ \A m, n \in 1 .. Len(backlog') : backlog'[m] = backlog'[n] => m = n
      /\ \A m \in 1 .. Len(backlog') :
            /\ peer'[backlog'[m]] # "idle"
            /\ backlog'[m] \in Untouched'
            /\ backlog'[m] # Head(backlog)
            /\ \A gd \in OpenFds : fdtab[gd] # backlog'[m]
      /\ peer[Head(backlog)] # "idle"
      /\ Head(backlog) \in Untouched
      /\ \A gd \in OpenFds : fdtab[gd] # Head(backlog)
      /\ Untouched' = Untouched
  BY <1>2, TakePlaced
<1>4. \A gd, hd \in OpenFds' : fdtab'[gd] = fdtab'[hd] => gd = hd
  BY <1>1, <1>2, <1>3 DEF Placed
<1> QED
  BY <1>1, <1>2, <1>3, <1>4 DEF Placed

\* Turned away, the connection is nowhere.
LEMMA AcceptClosePlaced ==
    ASSUME NetTypeOK, Placed, SysAcceptClose
    PROVE  Placed'
<1>1. /\ OpenFds' = OpenFds
      /\ backlog # <<>>
      /\ backlog' = Tail(backlog)
      /\ UNCHANGED <<peer, sent, inq, echoed, fdtab>>
  BY AcceptCloseStep DEF SysAcceptClose
<1>2. /\ \A m, n \in 1 .. Len(backlog') : backlog'[m] = backlog'[n] => m = n
      /\ \A m \in 1 .. Len(backlog') :
            /\ peer'[backlog'[m]] # "idle"
            /\ backlog'[m] \in Untouched'
            /\ \A gd \in OpenFds : fdtab[gd] # backlog'[m]
      /\ Untouched' = Untouched
  BY <1>1, TakePlaced
<1> QED
  BY <1>1, <1>2 DEF Placed

\* close() takes a connection out of the table.
LEMMA ClosePlaced ==
    ASSUME NetTypeOK, Placed, NEW fd \in OpenFds, SysClose(fd)
    PROVE  /\ Placed'
           /\ \A gd \in OpenFds \ {fd} : fdtab'[gd] = fdtab[gd]
<1>1. OpenFds' = OpenFds \ {fd}
  BY CloseStep
<1>2. /\ \A gd \in OpenFds \ {fd} : fdtab'[gd] = fdtab[gd]
      /\ UNCHANGED <<peer, backlog, sent, inq, echoed>>
  BY DEF SysClose, NetTypeOK, OpenFds
<1>3. Untouched' = Untouched
  BY <1>2 DEF Untouched, Stream
<1> QED
  BY <1>1, <1>2, <1>3 DEF Placed

\* read() and write() on a connection that has a descriptor concern no other.
LEMMA DataPlaced ==
    ASSUME NetTypeOK, Placed, NEW fd \in OpenFds,
           UNCHANGED <<peer, backlog, fdtab, sent>>,
           \A c \in Clients \ {fdtab[fd]} : inq'[c] = inq[c] /\ echoed'[c] = echoed[c]
    PROVE  Placed'
<1>1. OpenFds' = OpenFds /\ fdtab[fd] \in Clients
  BY DEF OpenFds, NetTypeOK
<1>2. \A c \in Clients \ {fdtab[fd]} : c \in Untouched => c \in Untouched'
  BY DEF Untouched, Stream
<1>3. \A m \in 1 .. Len(backlog) : backlog[m] \in Untouched'
  <2> TAKE m \in 1 .. Len(backlog)
  <2>1. backlog[m] \in Clients
    BY ElementOfSeq DEF NetTypeOK
  <2> QED
    BY <1>2, <2>1 DEF Placed
<1>4. \A c \in Clients : peer[c] = "idle" => c \in Untouched'
  BY <1>2 DEF Placed
<1> QED
  BY <1>1, <1>3, <1>4 DEF Placed

----------------------------------------------------------------------------
(* Bytes in a server's buffer. *)

LEMMA Associative == \A x, y, z \in Seq(Byte) : Grouped(x, y, z)
BY Regroup

FrontMoves(d, q, n) == d \o SubSeq(q, 1, n) \o SubSeq(q, n + 1, Len(q)) = d \o q

LEMMA FrontBytes == \A d, q \in Seq(Byte) : \A n \in 0 .. Len(q) : FrontMoves(d, q, n)
BY MoveFront DEF FrontMoves

LEMMA Concat == \A x, y \in Seq(Byte) : x \o y \in Seq(Byte)
BY ConcatProperties

LEMMA LastByte ==
    \A e, q \in Seq(Byte) : \A x \in Byte : e \o Append(q, x) = Append(e \o q, x)
BY AppendLast

LEMMA UnsentType ==
    ASSUME NEW b \in Seq(Byte), NEW n \in Nat
    PROVE  SubSeq(b, n + 1, Len(b)) \in Seq(Byte)
<1>1. \A m \in n + 1 .. Len(b) : b[m] \in Byte
  BY LenProperties, ElementOfSeq
<1>2. n + 1 \in Int /\ Len(b) \in Int
  BY LenProperties
<1> QED
  BY <1>1, <1>2, SubSeqProperties

\* What a write() takes leads from s to at most u.
LEMMA Advance ==
    ASSUME NEW s \in Nat, NEW u \in Nat, s < u, NEW r \in Int, r > 0
    PROVE  /\ s + Smaller(r, u - s) \in s + 1 .. u
           /\ s + Smaller(r, u - s) \in Nat
BY DEF Smaller

\* The next bytes of a buffer leave it for the end of the echo.
NextMoves(d, b, q, s, to) ==
    /\ SubSeq(b, s + 1, to) \in Seq(Byte)
    /\ SubSeq(b, s + 1, to) # <<>>
    /\ SubSeq(b, to + 1, Len(b)) \in Seq(Byte)
    /\ (d \o SubSeq(b, s + 1, to)) \o SubSeq(b, to + 1, Len(b)) \o q
          = d \o SubSeq(b, s + 1, Len(b)) \o q

LEMMA MoveNext ==
    ASSUME NEW d \in Seq(Byte), NEW b \in Seq(Byte), NEW q \in Seq(Byte),
           NEW s \in Nat, NEW to \in s + 1 .. Len(b)
    PROVE  NextMoves(d, b, q, s, to)
<1>1. /\ Len(b) \in Nat /\ to \in Nat
      /\ s + 1 \in 1 .. Len(b) + 1
      /\ to \in (s + 1) - 1 .. Len(b)
      /\ Len(b) \in to .. Len(b)
  BY LenProperties
<1> PICK out : out = SubSeq(b, s + 1, to)
  OBVIOUS
<1>2. out \in Seq(Byte) /\ out # <<>>
  <2>1. \A m \in s + 1 .. to : b[m] \in Byte
    BY <1>1, ElementOfSeq
  <2>2. s + 1 \in Int /\ to \in Int /\ s + 1 <= to
    BY <1>1
  <2>3. out \in Seq(Byte) /\ Len(out) = to - (s + 1) + 1
    BY <2>1, <2>2, SubSeqProperties
  <2>4. Len(out) # 0
    BY <2>2, <2>3
  <2> QED
    BY <2>3, <2>4, EmptySeq
<1> PICK rest \in Seq(Byte) : rest = SubSeq(b, to + 1, Len(b))
  BY <1>1, UnsentType
<1>3. out \o rest = SubSeq(b, s + 1, Len(b))
  BY <1>1, ConcatAdjacentSubSeq
<1>4. (d \o out) \o rest = d \o (out \o rest)
  <2>1. Grouped(d, out, rest)
    BY <1>2, Associative
  <2> QED
    BY <2>1 DEF Grouped
<1> QED
  BY <1>2, <1>3, <1>4 DEF NextMoves

----------------------------------------------------------------------------
(* What each call is to the abstract service. *)

\* The service has closed no connection that waits, is registered, or is not there.
Unclosed ==
    /\ \A m \in 1 .. Len(backlog) : backlog[m] \notin closed
    /\ \A fd \in OpenFds : fdtab[fd] \notin closed
    /\ \A c \in Clients : peer[c] = "idle" => c \notin closed

Refines == [Abstract!Next]_(Abstract!vars)

LEMMA AbstractInit == ASSUME NetInit PROVE Abstract!Init /\ Unclosed
<1>1. Len(backlog) = 0 /\ OpenFds = {} BY NetInitType, EmptySeq DEF NetInit
<1> QED BY <1>1 DEF NetInit, Abstract!Init, Unclosed

\* A step that changes nothing the service promises about.
LEMMA AbstractStutter ==
    ASSUME UNCHANGED <<sent, echoed, closed>>,
           \A c \in Clients : peer'[c] = "idle" <=> peer[c] = "idle"
    PROVE  Refines
BY DEF Refines, Abstract!vars

\* A peer connects, sends, or does what the service does not see.
LEMMA PeerAbstract ==
    ASSUME NetTypeOK, Unclosed, PeerNext
    PROVE  Refines /\ Unclosed'
<1>1. UNCHANGED <<fdtab, closed, echoed>> /\ OpenFds' = OpenFds
  BY PeerStep DEF OpenFds
<1> PICK c \in Clients : \/ Connect(c) \/ SendByte(c) \/ RecvByte(c)
                         \/ SendFin(c) \/ SendReset(c)
  BY DEF PeerNext
<1>2. CASE Connect(c)
  <2>1. c \notin closed /\ peer' = [peer EXCEPT ![c] = "open"] /\ peer[c] = "idle"
          /\ backlog' = Append(backlog, c) /\ UNCHANGED sent
    BY <1>2 DEF Connect, Unclosed
  <2>2. Abstract!Open(c) BY <1>1, <2>1 DEF Abstract!Open, NetTypeOK
  <2>3. \A m \in 1 .. Len(backlog') : backlog'[m] \notin closed
    <3>1. /\ Len(backlog) \in Nat /\ Len(backlog') = Len(backlog) + 1
          /\ \A m \in 1 .. Len(backlog) : backlog'[m] = backlog[m]
          /\ backlog'[Len(backlog) + 1] = c
      BY <2>1, AppendProperties, LenProperties DEF NetTypeOK
    <3> TAKE m \in 1 .. Len(backlog')
    <3>2. m \in 1 .. Len(backlog) \/ m = Len(backlog) + 1 BY <3>1
    <3> QED BY <2>1, <3>1, <3>2 DEF Unclosed
  <2>4. Unclosed' BY <1>1, <2>1, <2>3 DEF Unclosed, NetTypeOK
  <2> QED BY <2>2, <2>4 DEF Refines, Abstract!Next
<1>3. CASE SendByte(c)
  <2>1. Abstract!Arrive(c) BY <1>1, <1>3 DEF SendByte, Abstract!Arrive, NetTypeOK
  <2>2. Unclosed' BY <1>1, <1>3 DEF SendByte, Unclosed
  <2> QED BY <2>1, <2>2 DEF Refines, Abstract!Next
<1>4. CASE RecvByte(c) \/ SendFin(c) \/ SendReset(c)
  <2>1. UNCHANGED <<sent, backlog>> /\ \A d \in Clients : peer'[d] = "idle" <=> peer[d] = "idle"
    BY <1>4 DEF RecvByte, SendFin, SendReset, NetTypeOK
  <2> QED BY <1>1, <2>1, AbstractStutter DEF Unclosed
<1> QED BY <1>2, <1>3, <1>4

\* accept() is nothing to the service: the connection is open already.
LEMMA AcceptAbstract ==
    ASSUME NetTypeOK, Unclosed, NEW fd \in Fds, SysAccept(fd)
    PROVE  Refines /\ Unclosed'
<1>1. /\ backlog # <<>> /\ backlog' = Tail(backlog)
      /\ UNCHANGED <<peer, closed, sent, echoed>>
      /\ OpenFds' = OpenFds \cup {fd} /\ fdtab'[fd] = Head(backlog)
      /\ \A gd \in OpenFds : fdtab'[gd] = fdtab[gd]
  BY AcceptStep DEF SysAccept, NetTypeOK, OpenFds
<1>2. Head(backlog) \notin closed /\ \A m \in 1 .. Len(backlog') : backlog'[m] \notin closed
  BY <1>1, BacklogTail DEF Unclosed
<1>3. Unclosed' BY <1>1, <1>2 DEF Unclosed
<1> QED BY <1>1, <1>3, AbstractStutter

LEMMA AcceptCloseAbstract ==
    ASSUME NetTypeOK, Placed, Unclosed, SysAcceptClose
    PROVE  Refines /\ Unclosed'
<1> PICK c : c = Head(backlog) OBVIOUS
<1>1. /\ backlog # <<>> /\ backlog' = Tail(backlog) /\ closed' = closed \cup {c}
      /\ UNCHANGED <<peer, fdtab, sent, echoed, inq>> /\ OpenFds' = OpenFds
  BY DEF SysAcceptClose, OpenFds
<1>2. /\ peer[c] # "idle" /\ c \in Clients
      /\ \A m \in 1 .. Len(backlog') : backlog'[m] # c
      /\ \A fd \in OpenFds : fdtab[fd] # c
  BY <1>1, TakePlaced, HeadTailProperties DEF NetTypeOK
<1>3. c \notin closed /\ \A m \in 1 .. Len(backlog') : backlog'[m] \notin closed
  BY <1>1, BacklogTail DEF Unclosed
<1>4. Abstract!Close(c) BY <1>1, <1>2, <1>3 DEF Abstract!Close
<1>5. Unclosed' BY <1>1, <1>2, <1>3 DEF Unclosed
<1> QED BY <1>2, <1>4, <1>5 DEF Refines, Abstract!Next

LEMMA CloseAbstract ==
    ASSUME NetTypeOK, Placed, Unclosed, NEW fd \in OpenFds, SysClose(fd)
    PROVE  Refines /\ Unclosed'
<1> PICK c : c = fdtab[fd] OBVIOUS
<1>1. /\ closed' = closed \cup {c} /\ UNCHANGED <<peer, backlog, sent, echoed>>
      /\ OpenFds' = OpenFds \ {fd} /\ \A gd \in OpenFds \ {fd} : fdtab'[gd] = fdtab[gd]
  BY CloseStep, ClosePlaced DEF SysClose
<1>2. /\ c \in Clients /\ peer[c] # "idle" /\ c \notin closed
      /\ \A m \in 1 .. Len(backlog) : backlog[m] # c
      /\ \A gd \in OpenFds \ {fd} : fdtab[gd] # c
  BY DEF NetTypeOK, OpenFds, Placed, Unclosed
<1>3. Abstract!Close(c) BY <1>1, <1>2 DEF Abstract!Close
<1>4. Unclosed' BY <1>1, <1>2 DEF Unclosed
<1> QED BY <1>2, <1>3, <1>4 DEF Refines, Abstract!Next

\* A write is an echo when the stream is whole after it: what has been written is
\* followed by what is still to be written.
LEMMA WriteAbstract ==
    ASSUME NetTypeOK, NetTypeOK', Placed, Unclosed, NEW fd \in OpenFds,
           NEW out \in Seq(Byte), out # <<>>, SysWrite(fdtab[fd], out),
           NEW rest \in Seq(Byte), echoed'[fdtab[fd]] \o rest = Stream(fdtab[fd])
    PROVE  Refines /\ Unclosed'
<1> PICK c \in Clients : c = fdtab[fd] BY DEF OpenFds, NetTypeOK
<1>1. /\ echoed' = [echoed EXCEPT ![c] = @ \o out]
      /\ UNCHANGED <<peer, backlog, fdtab, closed, sent>>
  BY DEF SysWrite
<1>2. peer[c] # "idle" /\ c \notin closed BY DEF Placed, Unclosed
<1>3. PICK e \in Seq(Byte) : e = echoed[c] BY DEF NetTypeOK
<1>4. PICK f \in Seq(Byte) : f = e \o out BY ConcatProperties
<1>5. /\ Len(f) = Len(e) + Len(out) /\ Len(e) \in Nat /\ Len(out) \in Nat \ {0}
      /\ Len(rest) \in Nat
  BY <1>4, ConcatProperties, LenProperties, EmptySeq
<1>6. echoed'[c] = f BY <1>1, <1>3, <1>4 DEF NetTypeOK
<1>7. f \o rest = Stream(c) /\ Len(Stream(c)) = sent[c] BY <1>6, StreamType
<1>8. Len(f) + Len(rest) = sent[c] BY <1>7, ConcatProperties
<1>9. \A m \in 1 .. Len(f) : f[m] = <<c, m>>
  <2> TAKE m \in 1 .. Len(f)
  <2>1. (f \o rest)[m] = f[m] BY <1>5, ConcatProperties
  <2>2. m \in 1 .. sent[c] BY <1>5, <1>8
  <2> QED BY <1>7, <2>1, <2>2 DEF Stream
<1>10. f = Abstract!Prefix(c, Len(f))
  <2>1. f = [m \in 1 .. Len(f) |-> f[m]] BY SeqDef, LenProperties
  <2> QED BY <1>9, <2>1 DEF Abstract!Prefix
<1>11. Len(f) \in (Len(e) + 1) .. sent[c] BY <1>5, <1>8
<1>12. Abstract!Echo(c)
  <2>1. echoed' = [echoed EXCEPT ![c] = Abstract!Prefix(c, Len(f))]
    BY <1>1, <1>3, <1>4, <1>10
  <2> QED BY <1>1, <1>2, <1>3, <1>11, <2>1 DEF Abstract!Echo
<1>13. Unclosed' BY <1>1 DEF Unclosed, OpenFds
<1> QED BY <1>12, <1>13 DEF Refines, Abstract!Next
=============================================================================
