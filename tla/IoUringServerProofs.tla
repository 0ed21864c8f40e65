------------------------ MODULE IoUringServerProofs ------------------------
(***************************************************************************)
(* The rings and the requests of the io_uring server, for any number of    *)
(* peers and any sizes of the buffer, the ring and its indices: the        *)
(* completions not handled yet are a queue, every request is in one place, *)
(* every connection has one request, and no descriptor leaks.  When no     *)
(* SEND can be short, the server implements the echo service.              *)
(***************************************************************************)
EXTENDS IoUringServer, SocketsProofs, FiniteSetTheorems

----------------------------------------------------------------------------
(* Indices that wrap. *)

LEMMA Params ==
    /\ CqEntries \in Nat \ {0} /\ IndexMod \in Nat \ {0} /\ CqEntries < IndexMod
    /\ IndexMod % CqEntries = 0 /\ BufSize \in Nat \ {0}
    /\ Cardinality(Clients) \in Nat
    /\ 0 \in ReqIds /\ 0 \notin ConnIds /\ ConnIds \subseteq ReqIds
    /\ NoFd \notin Fds /\ Fds \subseteq Nat
<1>1. Cardinality(Clients) \in Nat
  BY IoUringAssumption, FS_CardinalityType
<1>2. NoFd \notin Fds /\ Fds \subseteq Nat
  BY SocketsAssumption DEF NoFd, Fds
<1> QED
  BY <1>1, <1>2, IoUringAssumption DEF ReqIds, ConnIds

LEMMA Remainder ==
    ASSUME NEW d \in Nat \ {0}, NEW q \in Int, NEW r \in 0 .. d - 1
    PROVE  (d * q + r) % d = r
OBVIOUS

LEMMA Division ==
    ASSUME NEW d \in Nat \ {0}, NEW x \in Int
    PROVE  \E q \in Int, r \in 0 .. d - 1 : x = d * q + r /\ r = x % d
<1>1. x % d \in 0 .. d - 1
  OBVIOUS
<1>2. x \div d \in Int /\ x = d * (x \div d) + (x % d)
  OBVIOUS
<1> QED
  BY <1>1, <1>2

\* Two indices less than a ring apart are in different slots.
LEMMA SlotsDiffer ==
    ASSUME NEW d \in Nat \ {0}, NEW a \in Nat, NEW n \in 1 .. d - 1
    PROVE  (a + n) % d # a % d
<1>1. PICK q \in Int, r \in 0 .. d - 1 : a = d * q + r /\ r = a % d
  <2>1. a \in Int
    OBVIOUS
  <2> QED
    BY <2>1, Division
<1>2. CASE r + n < d
  <2>1. a + n = d * q + (r + n) /\ r + n \in 0 .. d - 1
    BY <1>1, <1>2
  <2>2. (a + n) % d = r + n
    BY <2>1, Remainder
  <2> QED
    BY <1>1, <2>2
<1>3. CASE r + n >= d
  <2>1. a + n = d * (q + 1) + (r + n - d)
    BY <1>1
  <2>2. r + n - d \in 0 .. d - 1 /\ q + 1 \in Int
    BY <1>3
  <2>3. (a + n) % d = r + n - d
    BY <2>1, <2>2, Remainder
  <2> QED
    BY <1>1, <2>3
<1> QED
  BY <1>2, <1>3

\* Where an index wraps makes no difference to its slot: this is what needs
\* the number of indices to be a multiple of the ring's size.
LEMMA SlotWraps ==
    ASSUME NEW x \in Nat, NEW y \in Nat
    PROVE  ((x % IndexMod) + y) % CqEntries = (x + y) % CqEntries
<1> PICK C \in Nat \ {0}, M \in Nat \ {0} : C = CqEntries /\ M = IndexMod /\ M % C = 0
  BY Params
<1>1. PICK k \in Int : M = C * k
  <2>1. M \div C \in Int /\ M = C * (M \div C) + (M % C)
    OBVIOUS
  <2> QED
    BY <2>1
<1>2. PICK q \in Int, r \in 0 .. M - 1 : x = M * q + r /\ r = x % M
  <2>1. x \in Int
    OBVIOUS
  <2> QED
    BY <2>1, Division
<1>3. PICK p \in Int, s \in 0 .. C - 1 : r + y = C * p + s /\ s = (r + y) % C
  <2>1. r + y \in Int
    OBVIOUS
  <2> QED
    BY <2>1, Division
<1>4. x + y = C * (k * q + p) + s
  <2>1. x + y = (C * k) * q + (C * p + s)
    BY <1>1, <1>2, <1>3
  <2>2. (C * k) * q + (C * p + s) = C * (k * q + p) + s
    OBVIOUS
  <2> QED
    BY <2>1, <2>2
<1>5. k * q + p \in Int
  OBVIOUS
<1>6. (C * (k * q + p) + s) % C = s
  BY <1>5, Remainder
<1> QED
  BY <1>2, <1>3, <1>4, <1>6

\* How far a slot is from the tail's.
LEMMA SlotDistance ==
    ASSUME NEW t \in Nat, NEW j \in 0 .. CqEntries - 1
    PROVE  (((t + j) % CqEntries) - t) % CqEntries = j
<1> PICK C \in Nat \ {0} : C = CqEntries
  BY Params
<1>1. PICK q \in Int, r \in 0 .. C - 1 : t + j = C * q + r /\ r = (t + j) % C
  <2>1. t + j \in Int
    OBVIOUS
  <2> QED
    BY <2>1, Division
<1>2. r - t = C * (-q) + j
  <2>1. C * q \in Int /\ t + j = C * q + r
    BY <1>1
  <2>2. r - t = j - C * q
    BY <2>1
  <2>3. C * (-q) = -(C * q)
    OBVIOUS
  <2> QED
    BY <2>1, <2>2, <2>3
<1>3. -q \in Int
  OBVIOUS
<1>4. (C * (-q) + j) % C = j
  BY <1>3, Remainder
<1> QED
  BY <1>1, <1>2, <1>4

\* Index(i): i is a value the ring's indices can have.
Index == 0 .. IndexMod - 1

LEMMA SpanIs ==
    ASSUME NEW i \in Index, NEW j \in Index
    PROVE  Span(i, j) = IF j >= i THEN j - i ELSE j - i + IndexMod
BY Params DEF Span, Index

LEMMA Forward ==
    ASSUME NEW i \in Index, NEW n \in 0 .. IndexMod - 1
    PROVE  (i + n) % IndexMod = IF i + n < IndexMod THEN i + n ELSE i + n - IndexMod
BY Params DEF Index

\* Moving one end of a span.
Ahead(i, n) == (i + n) % IndexMod

LEMMA SpanFacts ==
    ASSUME NEW i \in Index, NEW j \in Index
    PROVE  /\ Span(i, j) \in 0 .. IndexMod - 1
           /\ Span(i, i) = 0
           /\ i # j => Span(i, j) > 0
           /\ \A n \in 0 .. IndexMod - 1 :
                 /\ Ahead(j, n) \in Index
                 /\ Span(i, j) + n < IndexMod => Span(i, Ahead(j, n)) = Span(i, j) + n
                 /\ n <= Span(i, j) => Span(Ahead(i, n), j) = Span(i, j) - n
<1> PICK M \in Nat \ {0} : M = IndexMod
  BY Params
<1>1. \A a, b \in Index : Span(a, b) = IF b >= a THEN b - a ELSE b - a + M
  BY SpanIs
<1>2. \A a \in Index : \A n \in 0 .. M - 1 :
          Ahead(a, n) = IF a + n < M THEN a + n ELSE a + n - M
  BY Forward DEF Ahead
<1>3. \A a \in Index : \A n \in 0 .. M - 1 : Ahead(a, n) \in Index
  BY <1>2 DEF Index
<1>4. Index = 0 .. M - 1
  BY DEF Index
<1>5. Span(i, j) \in 0 .. M - 1 /\ Span(i, i) = 0 /\ (i # j => Span(i, j) > 0)
  <2>1. i \in 0 .. M - 1 /\ j \in 0 .. M - 1
    BY <1>4
  <2>2. Span(i, j) = IF j >= i THEN j - i ELSE j - i + M
    BY <1>1
  <2>3. Span(i, i) = IF i >= i THEN i - i ELSE i - i + M
    BY <1>1
  <2> QED
    BY <2>1, <2>2, <2>3
<1>6. ASSUME NEW n \in 0 .. M - 1
      PROVE  /\ Span(i, j) + n < M => Span(i, Ahead(j, n)) = Span(i, j) + n
             /\ n <= Span(i, j) => Span(Ahead(i, n), j) = Span(i, j) - n
  <2> PICK u \in Index, v \in Index : u = Ahead(i, n) /\ v = Ahead(j, n)
    BY <1>3
  <2>1. /\ u = IF i + n < M THEN i + n ELSE i + n - M
        /\ v = IF j + n < M THEN j + n ELSE j + n - M
    BY <1>2
  <2>2. /\ Span(i, j) = IF j >= i THEN j - i ELSE j - i + M
        /\ Span(i, v) = IF v >= i THEN v - i ELSE v - i + M
        /\ Span(u, j) = IF j >= u THEN j - u ELSE j - u + M
    BY <1>1
  <2>3. i \in 0 .. M - 1 /\ j \in 0 .. M - 1
    BY <1>4
  <2> PICK s, sv, su : s = Span(i, j) /\ sv = Span(i, v) /\ su = Span(u, j)
    OBVIOUS
  <2>4. /\ s = IF j >= i THEN j - i ELSE j - i + M
        /\ sv = IF v >= i THEN v - i ELSE v - i + M
        /\ su = IF j >= u THEN j - u ELSE j - u + M
    BY <2>2
  <2>5. /\ s + n < M => sv = s + n
        /\ n <= s => su = s - n
    BY <2>1, <2>3, <2>4
  <2> QED
    BY <2>5
<1> QED
  BY <1>3, <1>5, <1>6

----------------------------------------------------------------------------
(* The completions not handled yet, as a queue. *)

\* w entries of the ring from index h on, and what the kernel keeps back.
Queue(h, w, q, ov) == [n \in 1 .. w |-> q[(h + (n - 1)) % CqEntries]] \o ov

QueueIs(u, E, h, w, q, ov) ==
    /\ u \in Seq(E) /\ Len(ov) \in Nat /\ Len(u) = w + Len(ov)
    /\ \A i \in 1 .. w : u[i] = q[(h + (i - 1)) % CqEntries]
    /\ \A i \in 1 .. Len(ov) : u[w + i] = ov[i]

LEMMA QueueAt ==
    ASSUME NEW E, NEW h \in Nat, NEW w \in Nat, NEW q \in [0 .. CqEntries - 1 -> E],
           NEW ov \in Seq(E)
    PROVE  QueueIs(Queue(h, w, q, ov), E, h, w, q, ov)
<1> PICK r : r = [n \in 1 .. w |-> q[(h + (n - 1)) % CqEntries]]
  OBVIOUS
<1>1. \A n \in 1 .. w : (h + (n - 1)) % CqEntries \in 0 .. CqEntries - 1
  BY Params
<1>2. r \in [1 .. w -> E]
  BY <1>1
<1>3. r \in Seq(E) /\ Len(r) = w
  BY <1>2, IsASeq, LenProperties
<1>4. Len(ov) \in Nat
  BY LenProperties
<1>5. /\ r \o ov \in Seq(E) /\ Len(r \o ov) = w + Len(ov)
      /\ \A i \in 1 .. Len(r) + Len(ov) :
            (r \o ov)[i] = IF i <= Len(r) THEN r[i] ELSE ov[i - Len(r)]
  BY <1>3, ConcatProperties
<1>6. \A i \in 1 .. w : (r \o ov)[i] = r[i]
  BY <1>3, <1>4, <1>5
<1>7. ASSUME NEW i \in 1 .. Len(ov)
      PROVE  (r \o ov)[w + i] = ov[i]
  <2>1. w + i \in 1 .. w + Len(ov) /\ ~(w + i <= w) /\ (w + i) - w = i
    BY <1>4
  <2> QED
    BY <1>3, <1>5, <2>1
<1> QED
  BY <1>4, <1>5, <1>6, <1>7 DEF Queue, QueueIs

\* One more completion at the end; one less at the front; the same ones.
Extended(u, v, e) ==
    /\ Len(u) \in Nat /\ Len(v) = Len(u) + 1 /\ v[Len(u) + 1] = e
    /\ \A i \in 1 .. Len(u) : v[i] = u[i]

Shortened(u, v) ==
    /\ Len(v) \in Nat /\ Len(u) = Len(v) + 1
    /\ \A i \in 1 .. Len(v) : v[i] = u[i + 1]

Same(u, v) ==
    /\ Len(u) \in Nat /\ Len(v) = Len(u)
    /\ \A i \in 1 .. Len(u) : v[i] = u[i]

\* A completion goes to the slot after the last one, which is free as long as the
\* ring is not full.
Put(q, s, e) == [q EXCEPT ![s] = e]

LEMMA PostRing ==
    ASSUME NEW E, NEW h \in Nat, NEW w \in Nat, w < CqEntries,
           NEW q \in [0 .. CqEntries - 1 -> E], NEW e \in E
    PROVE  Extended(Queue(h, w, q, <<>>),
                    Queue(h, w + 1, Put(q, (h + w) % CqEntries, e), <<>>), e)
<1> PICK x : x = (h + w) % CqEntries
  OBVIOUS
<1> PICK p : p = Put(q, x, e)
  OBVIOUS
<1>1. /\ x \in 0 .. CqEntries - 1 /\ p \in [0 .. CqEntries - 1 -> E] /\ p[x] = e
      /\ \A s \in 0 .. CqEntries - 1 : s # x => p[s] = q[s]
  BY Params DEF Put
<1>2. <<>> \in Seq(E) /\ Len(<<>>) = 0
  BY EmptySeq
<1> PICK u, v : u = Queue(h, w, q, <<>>) /\ v = Queue(h, w + 1, p, <<>>)
  OBVIOUS
<1>3. QueueIs(u, E, h, w, q, <<>>) /\ QueueIs(v, E, h, w + 1, p, <<>>)
  <2>1. w + 1 \in Nat
    OBVIOUS
  <2> QED
    BY <1>1, <1>2, <2>1, QueueAt
<1>4. ASSUME NEW i \in 1 .. w
      PROVE  v[i] = u[i]
  <2>1. h + (i - 1) \in Nat /\ w - (i - 1) \in 1 .. CqEntries - 1
        /\ h + w = (h + (i - 1)) + (w - (i - 1)) /\ i \in 1 .. w + 1
    BY Params
  <2> PICK a \in Nat, n \in 1 .. CqEntries - 1 : a = h + (i - 1) /\ n = w - (i - 1)
    BY <2>1
  <2>2. a % CqEntries # x
    BY <2>1, SlotsDiffer, Params
  <2>3. a % CqEntries \in 0 .. CqEntries - 1
    BY Params
  <2> QED
    BY <1>1, <1>3, <2>1, <2>2, <2>3 DEF QueueIs
<1>5. v[w + 1] = e
  <2>1. w + 1 \in 1 .. w + 1 /\ h + ((w + 1) - 1) = h + w
    OBVIOUS
  <2> QED
    BY <1>1, <1>3, <2>1 DEF QueueIs
<1>6. Len(u) = w /\ Len(v) = w + 1
  BY <1>2, <1>3 DEF QueueIs
<1> QED
  BY <1>4, <1>5, <1>6 DEF Extended

\* Or to the end of what is kept back.
LEMMA PostOverflow ==
    ASSUME NEW E, NEW h \in Nat, NEW w \in Nat, NEW q \in [0 .. CqEntries - 1 -> E],
           NEW ov \in Seq(E), NEW e \in E
    PROVE  Extended(Queue(h, w, q, ov), Queue(h, w, q, Append(ov, e)), e)
<1> PICK u, v, ow : /\ ow = Append(ov, e)
                    /\ u = Queue(h, w, q, ov) /\ v = Queue(h, w, q, ow)
  OBVIOUS
<1>1. /\ ow \in Seq(E) /\ Len(ow) = Len(ov) + 1 /\ ow[Len(ov) + 1] = e
      /\ \A i \in 1 .. Len(ov) : ow[i] = ov[i]
  BY AppendProperties
<1>2. QueueIs(u, E, h, w, q, ov) /\ QueueIs(v, E, h, w, q, ow)
  BY <1>1, QueueAt
<1>3. Len(ov) \in Nat /\ Len(u) = w + Len(ov) /\ Len(v) = w + (Len(ov) + 1)
  BY <1>1, <1>2 DEF QueueIs
<1>4. v[w + (Len(ov) + 1)] = e
  BY <1>1, <1>2, <1>3 DEF QueueIs
<1>5. ASSUME NEW i \in 1 .. Len(u)
      PROVE  v[i] = u[i]
  <2>1. CASE i <= w
    BY <1>2, <1>3, <2>1 DEF QueueIs
  <2>2. CASE ~(i <= w)
    <3>1. PICK j \in 1 .. Len(ov) : i = w + j
      <4>1. i - w \in 1 .. Len(ov) /\ i = w + (i - w)
        BY <1>3, <2>2
      <4> QED
        BY <4>1
    <3>2. j \in 1 .. Len(ow)
      BY <1>1, <1>3
    <3> QED
      BY <1>1, <1>2, <3>1, <3>2 DEF QueueIs
  <2> QED
    BY <2>1, <2>2
<1> QED
  BY <1>3, <1>4, <1>5 DEF Extended

\* The loop takes the completion at its head.
TakenFrom(h, w, q, ov) ==
    /\ Shortened(Queue(h, w, q, ov), Queue(Ahead(h, 1), w - 1, q, ov))
    /\ Queue(h, w, q, ov)[1] = q[h % CqEntries]

LEMMA TakeRing ==
    ASSUME NEW E, NEW h \in Index, NEW w \in Nat \ {0}, NEW q \in [0 .. CqEntries - 1 -> E],
           NEW ov \in Seq(E)
    PROVE  TakenFrom(h, w, q, ov)
<1> PICK g \in Nat, m \in Nat : g = Ahead(h, 1) /\ m = w - 1 /\ g = (h + 1) % IndexMod
  BY Params DEF Index, Ahead
<1> PICK u, v : u = Queue(h, w, q, ov) /\ v = Queue(g, m, q, ov)
  OBVIOUS
<1>1. h \in Nat
  BY DEF Index
<1>2. QueueIs(u, E, h, w, q, ov) /\ QueueIs(v, E, g, m, q, ov)
  BY <1>1, QueueAt
<1>3. Len(ov) \in Nat /\ Len(u) = w + Len(ov) /\ Len(v) = m + Len(ov)
  BY <1>2 DEF QueueIs
<1>4. ASSUME NEW i \in 1 .. Len(v)
      PROVE  v[i] = u[i + 1]
  <2>1. CASE i <= m
    <3>1. i \in 1 .. m /\ i + 1 \in 1 .. w /\ h + ((i + 1) - 1) = (h + 1) + (i - 1)
          /\ i - 1 \in Nat /\ h + 1 \in Nat
      BY <1>1, <1>3, <2>1
    <3>2. (g + (i - 1)) % CqEntries = ((h + 1) + (i - 1)) % CqEntries
      <4> PICK x \in Nat, y \in Nat : x = h + 1 /\ y = i - 1
        BY <3>1
      <4>1. ((x % IndexMod) + y) % CqEntries = (x + y) % CqEntries
        BY SlotWraps
      <4> QED
        BY <4>1
    <3>3. v[i] = q[(g + (i - 1)) % CqEntries]
      BY <1>2, <3>1 DEF QueueIs
    <3>4. u[i + 1] = q[(h + ((i + 1) - 1)) % CqEntries]
      BY <1>2, <3>1 DEF QueueIs
    <3> QED
      BY <3>1, <3>2, <3>3, <3>4
  <2>2. CASE ~(i <= m)
    <3>1. PICK j \in 1 .. Len(ov) : i = m + j
      <4>1. i - m \in 1 .. Len(ov) /\ i = m + (i - m)
        BY <1>3, <2>2
      <4> QED
        BY <4>1
    <3>2. i + 1 = w + j
      BY <3>1
    <3> QED
      BY <1>2, <3>1, <3>2 DEF QueueIs
  <2> QED
    BY <2>1, <2>2
<1>5. u[1] = q[h % CqEntries]
  <2>1. 1 \in 1 .. w /\ h + (1 - 1) = h
    BY <1>1
  <2> QED
    BY <1>2, <2>1 DEF QueueIs
<1> QED
  BY <1>3, <1>4, <1>5 DEF Shortened, TakenFrom

\* What io_uring_enter() moves into an empty ring keeps its order.
Place(s, t) == 1 + ((s - t) % CqEntries)

Refill(t, q, ov, n) ==
    [s \in 0 .. CqEntries - 1 |-> IF Place(s, t) <= n THEN ov[Place(s, t)] ELSE q[s]]

Refilled(E, t, q, ov, n) ==
    /\ Refill(t, q, ov, n) \in [0 .. CqEntries - 1 -> E]
    /\ SubSeq(ov, n + 1, Len(ov)) \in Seq(E)
    /\ Same(Queue(t, 0, q, ov), Queue(t, n, Refill(t, q, ov, n), SubSeq(ov, n + 1, Len(ov))))

LEMMA RefillRing ==
    ASSUME NEW E, NEW t \in Nat, NEW q \in [0 .. CqEntries - 1 -> E],
           NEW ov \in Seq(E), NEW n \in 0 .. CqEntries, n <= Len(ov)
    PROVE  Refilled(E, t, q, ov, n)
<1> PICK p : p = Refill(t, q, ov, n)
             /\ p = [s \in 0 .. CqEntries - 1 |->
                        IF Place(s, t) <= n THEN ov[Place(s, t)] ELSE q[s]]
  BY DEF Refill
<1> PICK C \in Nat \ {0} : C = CqEntries
  BY Params
<1>1. Len(ov) \in Nat /\ n \in Nat /\ n \in 0 .. Len(ov)
      /\ \A i \in 1 .. Len(ov) : ov[i] \in E
  BY LenProperties, ElementOfSeq
<1> PICK rest : rest = SubSeq(ov, n + 1, Len(ov))
  OBVIOUS
<1>2. /\ rest \in Seq(E) /\ Len(rest) = Len(ov) - n
      /\ \A i \in 1 .. Len(ov) - n : rest[i] = ov[n + i]
  <2>1. rest \in Seq(E) /\ Len(rest) = Len(ov) - n
    BY <1>1, SplitType
  <2>2. n + 1 \in Int /\ \A i \in n + 1 .. Len(ov) : ov[i] \in E
    BY <1>1
  <2>3. \A i \in 1 .. Len(ov) - n : rest[i] = ov[n + i]
    <3>1. rest = [i \in 1 .. Len(ov) - n |-> ov[n + i]]
      BY <1>1
    <3> QED
      BY <3>1
  <2> QED
    BY <2>1, <2>3
<1>3. \A s \in 0 .. C - 1 : Place(s, t) \in 1 .. C
  BY DEF Place
<1>4. p \in [0 .. CqEntries - 1 -> E]
  <2>1. ASSUME NEW s \in 0 .. CqEntries - 1
        PROVE  p[s] \in E
    <3>1. CASE Place(s, t) <= n
      <4>1. Place(s, t) \in 1 .. Len(ov)
        BY <1>1, <1>3, <3>1
      <4> QED
        BY <1>1, <3>1, <4>1
    <3>2. CASE ~(Place(s, t) <= n)
      BY <3>2
    <3> QED
      BY <3>1, <3>2
  <2> QED
    BY <2>1
<1> PICK u, v : u = Queue(t, 0, q, ov) /\ v = Queue(t, n, p, rest)
  OBVIOUS
<1>5. QueueIs(u, E, t, 0, q, ov) /\ QueueIs(v, E, t, n, p, rest)
  <2>1. 0 \in Nat
    OBVIOUS
  <2> QED
    BY <1>1, <1>2, <1>4, <2>1, QueueAt
<1>6. Len(u) = Len(ov) /\ Len(v) = Len(ov)
  BY <1>1, <1>2, <1>5 DEF QueueIs
<1>7. ASSUME NEW i \in 1 .. Len(ov)
      PROVE  v[i] = ov[i]
  <2>1. CASE i <= n
    <3> PICK j \in 0 .. C - 1, s \in 0 .. C - 1 : j = i - 1 /\ s = (t + j) % C
      <4>1. i - 1 \in 0 .. C - 1
        BY <1>1, <2>1
      <4>2. (t + (i - 1)) % C \in 0 .. C - 1
        BY <1>1
      <4> QED
        BY <4>1, <4>2
    <3>1. (s - t) % CqEntries = j
      BY SlotDistance
    <3>2. Place(s, t) = i
      BY <1>1, <3>1 DEF Place
    <3>3. p[s] = ov[i]
      BY <2>1, <3>2
    <3>4. v[i] = p[s]
      <4>1. i \in 1 .. n /\ (t + (i - 1)) % CqEntries = s
        BY <1>1, <2>1
      <4> QED
        BY <1>5, <4>1 DEF QueueIs
    <3> QED
      BY <3>3, <3>4
  <2>2. CASE ~(i <= n)
    <3>1. PICK j \in 1 .. Len(ov) - n : i = n + j
      <4>1. i - n \in 1 .. Len(ov) - n /\ i = n + (i - n)
        BY <1>1, <2>2
      <4> QED
        BY <4>1
    <3> QED
      BY <1>2, <1>5, <3>1 DEF QueueIs
  <2> QED
    BY <2>1, <2>2
<1>8. \A i \in 1 .. Len(ov) : u[i] = ov[i]
  BY <1>1, <1>5 DEF QueueIs
<1> QED
  BY <1>1, <1>2, <1>4, <1>6, <1>7, <1>8 DEF Same, Refilled

\* No two completions of a queue are of the same request.
Distinct(u) == \A i, j \in 1 .. Len(u) : u[i].id = u[j].id => i = j
Elements(u) == {u[i] : i \in 1 .. Len(u)}

LEMMA ExtendedSet ==
    ASSUME NEW u, NEW v, NEW e, Extended(u, v, e), Distinct(u),
           \A x \in Elements(u) : x.id # e.id
    PROVE  Distinct(v) /\ Elements(v) = Elements(u) \cup {e}
<1> PICK n \in Nat : n = Len(u) /\ Len(v) = n + 1
  BY DEF Extended
<1>1. \A i \in 1 .. n : v[i] = u[i] /\ v[i] \in Elements(u)
  BY DEF Extended, Elements
<1>2. v[n + 1] = e
  BY DEF Extended
<1>3. Distinct(v)
  <2> SUFFICES ASSUME NEW i \in 1 .. n + 1, NEW j \in 1 .. n + 1, v[i].id = v[j].id
               PROVE  i = j
    BY DEF Distinct
  <2>1. CASE i \in 1 .. n /\ j \in 1 .. n
    BY <1>1, <2>1 DEF Distinct
  <2>2. CASE i = n + 1 \/ j = n + 1
    BY <1>1, <1>2, <2>2
  <2> QED
    BY <2>1, <2>2
<1>4. Elements(v) = {v[i] : i \in 1 .. n + 1} /\ Elements(u) = {u[i] : i \in 1 .. n}
  BY DEF Elements
<1>5. \A x \in Elements(v) : x \in Elements(u) \cup {e}
  BY <1>1, <1>2, <1>4
<1>6. \A x \in Elements(u) \cup {e} : x \in Elements(v)
  BY <1>1, <1>2, <1>4
<1> QED
  BY <1>3, <1>5, <1>6

LEMMA ShortenedSet ==
    ASSUME NEW u, NEW v, Shortened(u, v), Distinct(u)
    PROVE  /\ Distinct(v) /\ u[1] \in Elements(u)
           /\ Elements(v) = Elements(u) \ {u[1]}
           /\ \A x \in Elements(v) : x.id # u[1].id
<1> PICK n \in Nat : n = Len(v) /\ Len(u) = n + 1
  BY DEF Shortened
<1>1. \A i \in 1 .. n : v[i] = u[i + 1] /\ i + 1 \in 1 .. n + 1 /\ i + 1 # 1
  BY DEF Shortened
<1>2. 1 \in 1 .. n + 1
  OBVIOUS
<1>3. Elements(u) = {u[i] : i \in 1 .. n + 1} /\ Elements(v) = {v[i] : i \in 1 .. n}
  BY DEF Elements
<1>4. Distinct(v)
  <2> SUFFICES ASSUME NEW i \in 1 .. n, NEW j \in 1 .. n, v[i].id = v[j].id
               PROVE  i = j
    BY DEF Distinct
  <2>1. i + 1 = j + 1
    BY <1>1 DEF Distinct
  <2> QED
    BY <2>1
<1>5. \A x \in Elements(v) : x \in Elements(u) /\ x.id # u[1].id
  BY <1>1, <1>2, <1>3 DEF Distinct
<1>6. ASSUME NEW x \in Elements(u), x # u[1]
      PROVE  x \in Elements(v)
  <2>1. PICK i \in 1 .. n + 1 : x = u[i]
    BY <1>3
  <2>2. i - 1 \in 1 .. n /\ (i - 1) + 1 = i
    BY <1>6, <2>1
  <2>3. v[i - 1] = x
    BY <1>1, <2>1, <2>2
  <2> QED
    BY <1>3, <2>2, <2>3
<1> QED
  BY <1>2, <1>3, <1>4, <1>5, <1>6

LEMMA SameSet ==
    ASSUME NEW u, NEW v, Same(u, v), Distinct(u)
    PROVE  Distinct(v) /\ Elements(v) = Elements(u)
BY DEF Same, Distinct, Elements

----------------------------------------------------------------------------
(* The inductive invariant. *)

RingTypes ==
    /\ {head, cqHead, cqTail} \subseteq Index
    /\ cqes \in [0 .. (CqEntries - 1) -> [id : ReqIds, res : Int]]
    /\ overflow \in Seq([id : ReqIds, res : Int])

BlockTypes ==
    /\ reqs \in [ReqIds -> [type : {"FREE", "ACCEPT", "RECV", "SEND"},
                            fd : Fds \cup {NoFd}, conn : ConnIds \cup {NoConn},
                            len : 0 .. BufSize]]
    /\ inflight \subseteq ReqIds
    /\ conns \in [ConnIds -> [live : BOOLEAN, fd : Fds \cup {NoFd},
                              buf : Seq(Byte), length : 0 .. BufSize]]

\* What is published, handled and not handled yet shares the ring.
Window ==
    /\ Span(cqHead, head) + Span(head, cqTail) <= CqEntries
    /\ Span(cqHead, cqTail) = Span(cqHead, head) + Span(head, cqTail)

Completions == Elements(Unhandled)

\* A request is free, with the kernel, or in one completion.
Once ==
    /\ Distinct(Unhandled)
    /\ \A e \in Completions : e.id \notin inflight /\ e.id \in ReqIds
    /\ \A id \in ReqIds :
          id \in Outstanding <=> id \in inflight \/ \E e \in Completions : e.id = id

\* The ACCEPT has the first block for good; each other request has a connection,
\* and each connection a request.
Roles ==
    /\ \A id \in ReqIds : reqs[id].type = "ACCEPT" <=> id = 0
    /\ reqs[0].conn = NoConn
    /\ \A id \in Outstanding \ {0} : /\ reqs[id].conn \in LiveConns
                                     /\ reqs[id].fd = conns[reqs[id].conn].fd
    /\ \A id, jd \in Outstanding \ {0} : reqs[id].conn = reqs[jd].conn => id = jd
    /\ \A k \in LiveConns : \E id \in Outstanding \ {0} : reqs[id].conn = k

\* What was received is in the buffer when it is sent back.
Results ==
    /\ \A e \in Completions : reqs[e.id].type = "RECV" =>
          e.res <= BufSize /\ e.res <= Len(conns[reqs[e.id].conn].buf)
    /\ \A id \in ReqIds : reqs[id].type = "SEND" =>
          reqs[id].len <= Len(conns[reqs[id].conn].buf)

\* An open descriptor is a connection's, or in the completion of the ACCEPT.
Waiting(fd) == \E e \in Completions : e.id = 0 /\ e.res = fd

Owned ==
    /\ \A k \in LiveConns : conns[k].fd \in Fds /\ ~Waiting(conns[k].fd)
    /\ \A j, k \in LiveConns : conns[j].fd = conns[k].fd => j = k
    /\ \A e \in Completions : e.id = 0 /\ e.res >= 0 => e.res \in Fds
    /\ \A fd \in Fds :
          fd \in OpenFds <=> Waiting(fd) \/ \E k \in LiveConns : conns[k].fd = fd

IInv == /\ NetTypeOK /\ RingTypes /\ BlockTypes
        /\ Window /\ Once /\ Roles /\ Results /\ Owned

Pending == Span(head, cqTail)

LEMMA RingFacts ==
    ASSUME RingTypes, Window
    PROVE  /\ head \in Index /\ cqHead \in Index /\ cqTail \in Index
           /\ head \in Nat /\ cqHead \in Nat /\ cqTail \in Nat
           /\ Pending \in 0 .. CqEntries
           /\ Span(cqHead, head) \in 0 .. CqEntries
           /\ Span(cqHead, head) + Pending <= CqEntries
           /\ Span(cqHead, cqTail) = Span(cqHead, head) + Pending
           /\ Unhandled = Queue(head, Pending, cqes, overflow)
<1>1. head \in Index /\ cqHead \in Index /\ cqTail \in Index
  BY DEF RingTypes
<1>2. head \in Nat /\ cqHead \in Nat /\ cqTail \in Nat
  BY <1>1 DEF Index
<1> PICK w, a \in Nat : w = Pending /\ a = Span(cqHead, head) /\ w \in Nat
  BY <1>1, SpanFacts, Params DEF Pending
<1>3. w \in 0 .. CqEntries /\ a \in 0 .. CqEntries /\ a + w <= CqEntries
      /\ Span(cqHead, cqTail) = a + w
  BY Params DEF Window, Pending
<1> QED
  BY <1>1, <1>2, <1>3 DEF Unhandled, Queue, Pending

\* The slot of the tail.
LEMMA TailSlot ==
    ASSUME RingTypes, Window
    PROVE  cqTail % CqEntries = (head + Pending) % CqEntries
<1> PICK w \in Nat, h \in Nat, t \in Index :
        w = Pending /\ h = head /\ t = cqTail /\ h \in Index /\ w < IndexMod
  BY RingFacts, Params
<1>1. t = (h + w) % IndexMod
  <2>1. w = IF t >= h THEN t - h ELSE t - h + IndexMod
    BY SpanIs DEF Pending
  <2>2. (h + w) % IndexMod = IF h + w < IndexMod THEN h + w ELSE h + w - IndexMod
    <3>1. w \in 0 .. IndexMod - 1
      BY Params
    <3> QED
      BY <3>1, Forward
  <2> QED
    BY <2>1, <2>2, Params DEF Index
<1>2. (((h + w) % IndexMod) + 0) % CqEntries = ((h + w) + 0) % CqEntries
  <2>1. h + w \in Nat /\ 0 \in Nat
    OBVIOUS
  <2> QED
    BY <2>1, SlotWraps
<1> QED
  BY <1>1, <1>2, Params DEF Index

LEMMA UnhandledQueue == Unhandled' = Queue(head', Pending', cqes', overflow')
BY DEF Unhandled, Queue, Pending

\* What a step makes of the completions: one more, one less, or none.
Posted(e) ==
    /\ RingTypes' /\ Window' /\ Distinct(Unhandled)'
    /\ Completions' = Completions \cup {e}

Taken(e) ==
    /\ RingTypes' /\ Window' /\ Distinct(Unhandled)'
    /\ e \in Completions
    /\ Completions' = Completions \ {e}
    /\ \A x \in Completions' : x.id # e.id

Kept ==
    /\ RingTypes' /\ Window' /\ Distinct(Unhandled)'
    /\ Completions' = Completions

\* The kernel posts a completion, in the ring or behind it.
LEMMA PostStep ==
    ASSUME RingTypes, Window, Once, NEW id \in ReqIds, id \in inflight,
           NEW res \in Int, Post(id, res), NEW e, e = [id |-> id, res |-> res]
    PROVE  /\ Posted(e) /\ e.id = id /\ e.res = res
           /\ inflight' = inflight \ {id} /\ reqs' = reqs
<1> PICK E : E = [id : ReqIds, res : Int]
  OBVIOUS
<1>1. e \in E /\ e.id = id /\ e.res = res
  OBVIOUS
<1>2. /\ cqes \in [0 .. CqEntries - 1 -> E] /\ overflow \in Seq(E)
      /\ head' = head /\ cqHead' = cqHead
  BY DEF RingTypes, Post
<1> PICK w \in Nat, a \in Nat : w = Pending /\ a = Span(cqHead, head)
  BY RingFacts
<1>3. /\ head \in Index /\ cqHead \in Index /\ cqTail \in Index /\ head \in Nat
      /\ w <= CqEntries /\ a + w <= CqEntries /\ Span(cqHead, cqTail) = a + w
      /\ Unhandled = Queue(head, w, cqes, overflow)
  BY RingFacts
<1>4. RingTypes' /\ Window' /\ Extended(Unhandled, Unhandled', e)
  <2>1. CASE overflow = <<>> /\ Span(cqHead, cqTail) < CqEntries
    <3>1. /\ cqes' = [cqes EXCEPT ![cqTail % CqEntries] = e]
          /\ cqTail' = Ahead(cqTail, 1) /\ overflow' = <<>>
      BY <2>1 DEF Post, Succ, Ahead
    <3>2. /\ cqTail' \in Index
          /\ Span(head, cqTail') = w + 1 /\ Span(cqHead, cqTail') = (a + w) + 1
      <4>1. 1 \in 0 .. IndexMod - 1 /\ w + 1 < IndexMod /\ (a + w) + 1 < IndexMod
        BY <1>3, <2>1, Params
      <4> QED
        BY <1>3, <3>1, <4>1, SpanFacts DEF Pending
    <3>3. RingTypes'
      <4>1. cqTail % CqEntries \in 0 .. CqEntries - 1
        BY <1>3, Params DEF Index
      <4>2. cqes' \in [0 .. CqEntries - 1 -> E]
        BY <1>1, <1>2, <3>1, <4>1
      <4> QED
        BY <1>2, <1>3, <2>1, <3>1, <3>2, <4>2 DEF RingTypes
    <3>4. Window'
      <4>1. a + w < CqEntries
        BY <1>3, <2>1
      <4>2. a + (w + 1) <= CqEntries /\ (a + w) + 1 = a + (w + 1)
        BY <4>1, Params
      <4> QED
        BY <1>2, <3>2, <4>2 DEF Window
    <3>5. Extended(Unhandled, Unhandled', e)
      <4>1. w < CqEntries
        BY <1>3, <2>1, Params
      <4>2. Pending' = w + 1
        BY <1>2, <3>2 DEF Pending
      <4>3. Unhandled' = Queue(head, w + 1, Put(cqes, (head + w) % CqEntries, e), <<>>)
        BY <1>2, <3>1, <4>2, TailSlot, UnhandledQueue DEF Put
      <4>4. Unhandled = Queue(head, w, cqes, <<>>)
        BY <1>3, <2>1
      <4>5. Extended(Queue(head, w, cqes, <<>>),
                     Queue(head, w + 1, Put(cqes, (head + w) % CqEntries, e), <<>>), e)
        BY <1>1, <1>2, <1>3, <4>1, PostRing
      <4> QED
        BY <4>3, <4>4, <4>5
    <3> QED
      BY <3>3, <3>4, <3>5
  <2>2. CASE ~(overflow = <<>> /\ Span(cqHead, cqTail) < CqEntries)
    <3>1. overflow' = Append(overflow, e) /\ cqes' = cqes /\ cqTail' = cqTail
      BY <2>2 DEF Post
    <3>2. Append(overflow, e) \in Seq(E)
      BY <1>1, <1>2, AppendProperties
    <3>3. RingTypes' /\ Window'
      BY <1>2, <3>1, <3>2 DEF RingTypes, Window
    <3>4. Pending' = w
      BY <1>2, <3>1 DEF Pending
    <3>5. Unhandled' = Queue(head, w, cqes, Append(overflow, e))
      BY <1>2, <3>1, <3>4, UnhandledQueue
    <3>6. Extended(Queue(head, w, cqes, overflow),
                   Queue(head, w, cqes, Append(overflow, e)), e)
      BY <1>1, <1>2, <1>3, PostOverflow
    <3> QED
      BY <1>3, <3>3, <3>5, <3>6
  <2> QED
    BY <2>1, <2>2
<1>5. Distinct(Unhandled) /\ \A x \in Elements(Unhandled) : x.id # e.id
  BY <1>1 DEF Once, Completions
<1>6. Distinct(Unhandled') /\ Elements(Unhandled') = Elements(Unhandled) \cup {e}
  <2> PICK u, v : u = Unhandled /\ v = Unhandled'
    OBVIOUS
  <2>1. Distinct(v) /\ Elements(v) = Elements(u) \cup {e}
    BY <1>4, <1>5, ExtendedSet
  <2> QED
    BY <2>1
<1>7. Distinct(Unhandled)'
  BY <1>6 DEF Distinct
<1>8. Completions' = Completions \cup {e}
  BY <1>6 DEF Completions, Elements
<1> QED
  BY <1>1, <1>4, <1>7, <1>8 DEF Posted, Post

\* The loop takes the completion its head is at.
LEMMA IterateStep ==
    ASSUME RingTypes, Window, Once, NEW type, Iterate(type)
    PROVE  Taken(Cqe)
<1> PICK E : E = [id : ReqIds, res : Int]
  OBVIOUS
<1>1. /\ cqes \in [0 .. CqEntries - 1 -> E] /\ overflow \in Seq(E)
      /\ head # cqTail /\ head' = Ahead(head, 1)
      /\ UNCHANGED <<cqHead, cqTail, cqes, overflow>>
  BY DEF RingTypes, Iterate, Succ, Ahead
<1> PICK w \in Nat, a \in Nat : w = Pending /\ a = Span(cqHead, head)
  BY RingFacts
<1>2. /\ head \in Index /\ cqHead \in Index /\ cqTail \in Index
      /\ w <= CqEntries /\ a + w <= CqEntries /\ Span(cqHead, cqTail) = a + w
      /\ Unhandled = Queue(head, w, cqes, overflow)
  BY RingFacts
<1>3. w \in Nat \ {0}
  <2>1. w > 0
    BY <1>1, <1>2, SpanFacts DEF Pending
  <2> QED
    BY <2>1
<1>4. /\ head' \in Index /\ Span(head', cqTail) = w - 1 /\ Span(cqHead, head') = a + 1
  <2>1. 1 \in 0 .. IndexMod - 1 /\ 1 <= w /\ a + 1 < IndexMod
    BY <1>2, <1>3, Params
  <2>2. Span(head, cqTail) = w
    BY DEF Pending
  <2>3. Ahead(head, 1) \in Index
    BY <1>2, <2>1, SpanFacts
  <2>4. Span(Ahead(head, 1), cqTail) = w - 1
    <3>1. 1 <= Span(head, cqTail)
      BY <2>1, <2>2
    <3>2. Span(Ahead(head, 1), cqTail) = Span(head, cqTail) - 1
      BY <1>2, <2>1, <3>1, SpanFacts
    <3> QED
      BY <2>2, <3>2
  <2>5. Span(cqHead, Ahead(head, 1)) = a + 1
    BY <1>2, <2>1, SpanFacts
  <2> QED
    BY <1>1, <2>3, <2>4, <2>5
<1>5. RingTypes'
  BY <1>1, <1>2, <1>4 DEF RingTypes
<1>6. Window'
  <2>1. (a + 1) + (w - 1) = a + w
    OBVIOUS
  <2> QED
    BY <1>1, <1>2, <1>4, <2>1 DEF Window
<1>7. Unhandled' = Queue(Ahead(head, 1), w - 1, cqes, overflow)
  <2>1. Pending' = w - 1
    BY <1>1, <1>4 DEF Pending
  <2> QED
    BY <1>1, <2>1, UnhandledQueue
<1> PICK u, v : u = Unhandled /\ v = Unhandled'
  OBVIOUS
<1>8. Shortened(u, v) /\ u[1] = Cqe
  <2>1. TakenFrom(head, w, cqes, overflow)
    BY <1>1, <1>2, <1>3, TakeRing
  <2> QED
    BY <1>2, <1>7, <2>1 DEF Cqe, TakenFrom
<1>9. Distinct(u)
  BY DEF Once
<1>10. /\ Distinct(v) /\ Cqe \in Elements(u) /\ Elements(v) = Elements(u) \ {Cqe}
       /\ \A x \in Elements(v) : x.id # Cqe.id
  BY <1>8, <1>9, ShortenedSet
<1>11. Distinct(Unhandled)' /\ Completions' = Elements(v) /\ Completions = Elements(u)
  BY <1>10 DEF Distinct, Completions, Elements
<1> QED
  BY <1>5, <1>6, <1>10, <1>11 DEF Taken

\* The kernel moves into the empty ring what it has kept back.
LEMMA EnterStep ==
    ASSUME RingTypes, Window, Distinct(Unhandled), Enter
    PROVE  Kept
<1> PICK E : E = [id : ReqIds, res : Int]
  OBVIOUS
<1> PICK n : n = Smaller(CqEntries, Len(overflow))
  OBVIOUS
<1>1. /\ cqes \in [0 .. CqEntries - 1 -> E] /\ overflow \in Seq(E)
      /\ head = cqTail /\ head = cqHead /\ UNCHANGED <<head, cqHead>>
      /\ cqTail' = Ahead(head, n)
      /\ overflow' = SubSeq(overflow, n + 1, Len(overflow))
  BY DEF RingTypes, Enter, Ahead
<1>2. Len(overflow) \in Nat
  BY <1>1, LenProperties
<1>3. n \in 0 .. CqEntries /\ n <= Len(overflow) /\ n \in 0 .. IndexMod - 1
  BY <1>2, Params DEF Smaller
<1>4. cqes' = [s \in 0 .. CqEntries - 1 |->
                  IF Place(s, head) <= n THEN overflow[Place(s, head)] ELSE cqes[s]]
  BY <1>1 DEF Enter, Place
<1>5. /\ head \in Index /\ head \in Nat /\ Pending = 0
      /\ Unhandled = Queue(head, 0, cqes, overflow)
  BY <1>1, RingFacts, SpanFacts DEF Pending
<1>6. /\ cqes' \in [0 .. CqEntries - 1 -> E] /\ overflow' \in Seq(E)
      /\ Same(Queue(head, 0, cqes, overflow), Queue(head, n, cqes', overflow'))
  <2>1. Refilled(E, head, cqes, overflow, n)
    BY <1>1, <1>3, <1>5, RefillRing
  <2>2. cqes' = Refill(head, cqes, overflow, n)
    BY <1>4 DEF Refill
  <2> QED
    BY <1>1, <2>1, <2>2 DEF Refilled
<1>7. cqTail' \in Index /\ Span(head, cqTail') = n
  <2>1. Span(head, head) = 0 /\ 0 + n < IndexMod
    BY <1>3, <1>5, SpanFacts, Params
  <2>2. Ahead(head, n) \in Index
    BY <1>3, <1>5, SpanFacts
  <2>3. Span(head, Ahead(head, n)) = Span(head, head) + n
    BY <1>3, <1>5, <2>1, SpanFacts
  <2> QED
    BY <1>1, <1>3, <2>1, <2>2, <2>3
<1>8. RingTypes'
  BY <1>1, <1>5, <1>6, <1>7 DEF RingTypes
<1>9. Window'
  <2>1. Span(head, head) = 0
    BY <1>5, SpanFacts
  <2> QED
    BY <1>1, <1>3, <1>7, <2>1, Params DEF Window
<1> PICK u, v : u = Unhandled /\ v = Unhandled'
  OBVIOUS
<1>10. Same(u, v)
  <2>1. Pending' = n
    BY <1>1, <1>7 DEF Pending
  <2> QED
    BY <1>1, <1>5, <1>6, <2>1, UnhandledQueue
<1>11. Distinct(v) /\ Elements(v) = Elements(u)
  BY <1>10, SameSet
<1>12. Distinct(Unhandled)' /\ Completions' = Elements(v) /\ Completions = Elements(u)
  BY <1>11 DEF Distinct, Completions, Elements
<1> QED
  BY <1>8, <1>9, <1>11, <1>12 DEF Kept

\* Publishing the head gives the kernel entries that have all been handled.
LEMMA PublishStep ==
    ASSUME RingTypes, Window, Distinct(Unhandled), Publish
    PROVE  Kept
<1> PICK E : E = [id : ReqIds, res : Int]
  OBVIOUS
<1>1. /\ cqes \in [0 .. CqEntries - 1 -> E] /\ overflow \in Seq(E)
      /\ head = cqTail /\ cqHead' = head /\ UNCHANGED <<head, cqTail, overflow>>
      /\ cqes' = [s \in 0 .. CqEntries - 1 |-> NoCqe]
  BY DEF RingTypes, Publish
<1>2. /\ head \in Index /\ head \in Nat /\ Pending = 0 /\ Span(head, head) = 0
      /\ Unhandled = Queue(head, 0, cqes, overflow)
  BY <1>1, RingFacts, SpanFacts DEF Pending
<1>3. cqes' \in [0 .. CqEntries - 1 -> E]
  <2>1. NoCqe \in E
    BY Params DEF NoCqe
  <2> QED
    BY <1>1, <2>1
<1>4. RingTypes'
  BY <1>1, <1>2, <1>3 DEF RingTypes
<1>5. Window'
  BY <1>1, <1>2, Params DEF Window
<1> PICK u, v : u = Unhandled /\ v = Unhandled'
  OBVIOUS
<1>6. v = Queue(head, 0, cqes', overflow)
  <2>1. Pending' = 0
    BY <1>1, <1>2 DEF Pending
  <2> QED
    BY <1>1, <2>1, UnhandledQueue
<1>7. QueueIs(u, E, head, 0, cqes, overflow) /\ QueueIs(v, E, head, 0, cqes', overflow)
  <2>1. 0 \in Nat
    OBVIOUS
  <2>2. QueueIs(Queue(head, 0, cqes, overflow), E, head, 0, cqes, overflow)
    BY <1>1, <1>2, <2>1, QueueAt
  <2>3. QueueIs(Queue(head, 0, cqes', overflow), E, head, 0, cqes', overflow)
    BY <1>1, <1>2, <1>3, <2>1, QueueAt
  <2> QED
    BY <1>2, <1>6, <2>2, <2>3
<1>8. Same(u, v)
  BY <1>7 DEF QueueIs, Same
<1>9. Distinct(v) /\ Elements(v) = Elements(u)
  BY <1>8, SameSet
<1>10. Distinct(Unhandled)' /\ Completions' = Elements(v) /\ Completions = Elements(u)
  BY <1>9 DEF Distinct, Completions, Elements
<1> QED
  BY <1>4, <1>5, <1>9, <1>10 DEF Kept

\* Whoever does not touch the rings keeps the completions.
LEMMA RingFrame ==
    ASSUME RingTypes, Window, Distinct(Unhandled), UNCHANGED ringVars
    PROVE  Kept
<1>1. UNCHANGED <<head, cqHead, cqTail, cqes, overflow>>
  BY DEF ringVars
<1>2. Unhandled' = Unhandled
  BY <1>1 DEF Unhandled
<1>3. Distinct(Unhandled)' /\ Completions' = Completions
  BY <1>2 DEF Distinct, Completions, Elements
<1> QED
  BY <1>1, <1>3 DEF Kept, RingTypes, Window

----------------------------------------------------------------------------
(* The kernel's steps. *)

\* Who a request is for.
LEMMA Owner ==
    ASSUME IInv, NEW id \in ReqIds, reqs[id].type \in {"RECV", "SEND"}
    PROVE  /\ id \in Outstanding \ {0}
           /\ reqs[id].conn \in LiveConns /\ reqs[id].conn \in ConnIds
           /\ reqs[id].fd = conns[reqs[id].conn].fd
           /\ reqs[id].fd \in OpenFds /\ reqs[id].fd \in Fds
           /\ fdtab[reqs[id].fd] \in Clients
<1>1. id \in Outstanding \ {0}
  BY DEF IInv, Roles, Outstanding
<1>2. /\ reqs[id].conn \in LiveConns /\ reqs[id].conn \in ConnIds
      /\ reqs[id].fd = conns[reqs[id].conn].fd
  BY <1>1 DEF IInv, Roles, LiveConns
<1>3. reqs[id].fd \in Fds /\ reqs[id].fd \in OpenFds
  BY <1>2 DEF IInv, Owned
<1>4. fdtab[reqs[id].fd] \in Clients
  BY <1>3 DEF OpenFds, IInv, NetTypeOK
<1> QED
  BY <1>1, <1>2, <1>3, <1>4

\* Steps that neither complete nor handle anything.
LEMMA KeptInv ==
    ASSUME IInv, Kept, NetTypeOK', UNCHANGED <<reqs, inflight, conns, fdtab>>
    PROVE  IInv'
<1>1. /\ Completions' = Completions /\ RingTypes' /\ Window' /\ Distinct(Unhandled)'
      /\ Outstanding' = Outstanding /\ LiveConns' = LiveConns /\ OpenFds' = OpenFds
  BY DEF Kept, Outstanding, LiveConns, OpenFds
<1>2. BlockTypes'
  BY DEF IInv, BlockTypes
<1>3. Once'
  BY <1>1 DEF IInv, Once
<1>4. Roles'
  BY <1>1 DEF IInv, Roles
<1>5. Results'
  BY <1>1 DEF IInv, Results
<1>6. \A fd : Waiting(fd)' <=> Waiting(fd)
  BY <1>1 DEF Waiting
<1>7. Owned'
  BY <1>1, <1>6 DEF IInv, Owned
<1> QED
  BY <1>1, <1>2, <1>3, <1>4, <1>5, <1>7 DEF IInv

\* A request moves from the kernel to a completion.
LEMMA PostOnce ==
    ASSUME Once, inflight \subseteq ReqIds, NEW id \in inflight, NEW e, e.id = id, Posted(e),
           inflight' = inflight \ {id}, reqs' = reqs
    PROVE  Once'
<1>1. /\ Completions' = Completions \cup {e} /\ Distinct(Unhandled)'
      /\ Outstanding' = Outstanding
  BY DEF Posted, Outstanding
<1>2. \A x \in Completions' : x.id \notin inflight' /\ x.id \in ReqIds
  BY <1>1 DEF Once
<1>3. ASSUME NEW i \in ReqIds
      PROVE  i \in Outstanding' <=> i \in inflight' \/ \E x \in Completions' : x.id = i
  <2>1. CASE i = id
    <3>1. i \in Outstanding /\ e \in Completions' /\ e.id = i
      BY <1>1, <2>1 DEF Once
    <3> QED
      BY <1>1, <3>1
  <2>2. CASE i # id
    <3>1. i \in inflight' <=> i \in inflight
      BY <2>2
    <3>2. (\E x \in Completions' : x.id = i) <=> \E x \in Completions : x.id = i
      BY <1>1, <2>2
    <3> QED
      BY <1>1, <3>1, <3>2 DEF Once
  <2> QED
    BY <2>1, <2>2
<1> QED
  BY <1>1, <1>2, <1>3 DEF Once

\* The completion of a RECV or a SEND.
LEMMA PostInv ==
    ASSUME IInv, NEW id \in inflight, reqs[id].type \in {"RECV", "SEND"},
           NEW e, e.id = id, Posted(e), inflight' = inflight \ {id}, reqs' = reqs,
           NetTypeOK', fdtab' = fdtab, BlockTypes',
           \A k \in ConnIds : /\ conns'[k].live = conns[k].live
                              /\ conns'[k].fd = conns[k].fd
                              /\ k # reqs[id].conn => conns'[k].buf = conns[k].buf,
           reqs[id].type = "RECV" => /\ e.res <= BufSize
                                     /\ e.res <= Len(conns'[reqs[id].conn].buf),
           reqs[id].type = "SEND" => conns' = conns
    PROVE  IInv'
<1>1. /\ Completions' = Completions \cup {e} /\ RingTypes' /\ Window'
      /\ Outstanding' = Outstanding /\ LiveConns' = LiveConns /\ OpenFds' = OpenFds
  BY DEF Posted, Outstanding, LiveConns, OpenFds
<1>2. inflight \subseteq ReqIds /\ id \in ReqIds
  BY DEF IInv, BlockTypes
<1>3. Once'
  BY <1>2, PostOnce DEF IInv
<1>4. id \in Outstanding \ {0} /\ id # 0
  BY <1>2, Owner
<1>5. ASSUME NEW jd \in ReqIds, jd # id, reqs[jd].type \in {"RECV", "SEND"}
      PROVE  conns'[reqs[jd].conn].buf = conns[reqs[jd].conn].buf
  <2>1. jd \in Outstanding \ {0} /\ reqs[jd].conn \in ConnIds
    BY <1>5, Owner
  <2>2. reqs[jd].conn # reqs[id].conn
    BY <1>4, <1>5, <2>1 DEF IInv, Roles
  <2> QED
    BY <2>1, <2>2
<1>6. Roles'
  <2>1. \A k \in LiveConns : k \in ConnIds
    BY DEF LiveConns
  <2> QED
    BY <1>1, <2>1 DEF IInv, Roles
<1>7. Results'
  <2>1. ASSUME NEW x \in Completions', reqs'[x.id].type = "RECV"
        PROVE  x.res <= BufSize /\ x.res <= Len(conns'[reqs'[x.id].conn].buf)
    <3>1. CASE x = e
      BY <2>1, <3>1
    <3>2. CASE x # e
      <4>1. x \in Completions /\ x.id # id /\ x.id \in ReqIds
        BY <1>1, <3>2 DEF IInv, Once
      <4>2. conns'[reqs[x.id].conn].buf = conns[reqs[x.id].conn].buf
        BY <1>5, <2>1, <4>1
      <4> QED
        BY <2>1, <4>1, <4>2 DEF IInv, Results
    <3> QED
      BY <3>1, <3>2
  <2>2. ASSUME NEW jd \in ReqIds, reqs'[jd].type = "SEND"
        PROVE  reqs'[jd].len <= Len(conns'[reqs'[jd].conn].buf)
    <3>1. CASE jd = id
      BY <2>2, <3>1 DEF IInv, Results
    <3>2. CASE jd # id
      BY <1>5, <2>2, <3>2 DEF IInv, Results
    <3> QED
      BY <3>1, <3>2
  <2> QED
    BY <2>1, <2>2 DEF Results
<1>8. Owned'
  <2>1. \A fd : Waiting(fd)' <=> Waiting(fd)
    BY <1>1, <1>4 DEF Waiting
  <2>2. \A k \in LiveConns : conns'[k].fd = conns[k].fd
    BY DEF LiveConns
  <2>3. \A x \in Completions' : x.id = 0 => x \in Completions
    BY <1>1, <1>4
  <2> QED
    BY <1>1, <2>1, <2>2, <2>3 DEF IInv, Owned
<1> QED
  BY <1>1, <1>3, <1>6, <1>7, <1>8 DEF IInv

\* The completion of the ACCEPT holds a new descriptor, or an error.
LEMMA AcceptInv ==
    ASSUME IInv, NEW id \in ReqIds, CompleteAccept(id)
    PROVE  IInv'
<1>1. id = 0 /\ id \in inflight /\ conns' = conns /\ reqs[0].type = "ACCEPT"
  BY DEF CompleteAccept, IInv, Roles
<1> PICK res \in Int : /\ Post(id, res)
                       /\ \/ res \in Fds /\ SysAccept(res)
                          \/ res = -1 /\ UNCHANGED netVars
  <2>1. CASE FreeFds = {} /\ Post(id, -1) /\ UNCHANGED netVars
    <3>1. -1 \in Int
      OBVIOUS
    <3> QED
      BY <2>1, <3>1
  <2>2. ASSUME NEW fd \in Fds, SysAccept(fd), Post(id, fd)
        PROVE  \E res \in Int : /\ Post(id, res)
                                /\ \/ res \in Fds /\ SysAccept(res)
                                   \/ res = -1 /\ UNCHANGED netVars
    <3>1. fd \in Int
      BY Params
    <3> QED
      BY <2>2, <3>1
  <2> QED
    BY <2>1, <2>2 DEF CompleteAccept
<1> PICK e : e = [id |-> id, res |-> res]
  OBVIOUS
<1>2. /\ Posted(e) /\ e.id = 0 /\ e.res = res
      /\ inflight' = inflight \ {id} /\ reqs' = reqs
  BY <1>1, PostStep DEF IInv
<1>3. /\ Completions' = Completions \cup {e} /\ RingTypes' /\ Window'
      /\ Outstanding' = Outstanding /\ LiveConns' = LiveConns
  BY <1>1, <1>2 DEF Posted, Outstanding, LiveConns
<1>4. BlockTypes'
  BY <1>1, <1>2 DEF IInv, BlockTypes
<1>5. Once'
  BY <1>1, <1>2, PostOnce DEF IInv, BlockTypes
<1>6. Roles'
  BY <1>1, <1>2, <1>3 DEF IInv, Roles
<1>7. Results'
  BY <1>1, <1>2, <1>3 DEF IInv, Results
<1>8. \A x \in Completions : x.id # 0
  BY <1>1 DEF IInv, Once
<1>9. \A fd : Waiting(fd)' <=> fd = res
  BY <1>2, <1>3, <1>8 DEF Waiting
<1>10. \A k \in LiveConns : conns'[k].fd = conns[k].fd /\ conns[k].fd \in Fds
  BY <1>1 DEF IInv, Owned
<1>11. \A fd : ~Waiting(fd)
  BY <1>8 DEF Waiting
<1>12. NetTypeOK' /\ Owned'
  <2>1. CASE res \in Fds /\ SysAccept(res)
    <3>1. NetTypeOK' /\ res \notin OpenFds /\ OpenFds' = OpenFds \cup {res}
      BY <2>1, AcceptStep DEF IInv
    <3>2. \A k \in LiveConns : conns[k].fd \in OpenFds
      BY <1>10 DEF IInv, Owned
    <3>3. \A k \in LiveConns' : conns'[k].fd \in Fds /\ ~(Waiting(conns[k].fd)')
      BY <1>3, <1>9, <1>10, <3>1, <3>2
    <3>4. \A fd \in Fds : fd \in OpenFds' <=>
             Waiting(fd)' \/ \E k \in LiveConns' : conns'[k].fd = fd
      BY <1>1, <1>3, <1>9, <1>11, <3>1 DEF IInv, Owned
    <3>5. \A x \in Completions' : x.id = 0 /\ x.res >= 0 => x.res \in Fds
      BY <1>2, <1>3, <1>8, <2>1
    <3> QED
      BY <1>1, <1>3, <3>1, <3>3, <3>4, <3>5 DEF IInv, Owned
  <2>2. CASE res = -1 /\ UNCHANGED netVars
    <3>1. UNCHANGED <<peer, backlog, fdtab, closed, sent, inq, echoed, rcvd>>
      BY <2>2 DEF netVars
    <3>2. NetTypeOK' /\ OpenFds' = OpenFds
      BY <3>1 DEF IInv, NetTypeOK, OpenFds
    <3>3. \A fd \in Fds : ~(Waiting(fd)')
      BY <1>9, <2>2, Params DEF NoFd
    <3>4. \A x \in Completions' : x.id = 0 /\ x.res >= 0 => x.res \in Fds
      BY <1>2, <1>3, <1>8, <2>2
    <3>5. \A fd \in Fds : fd \in OpenFds' <=>
             Waiting(fd)' \/ \E k \in LiveConns' : conns'[k].fd = fd
      BY <1>1, <1>3, <1>11, <3>2, <3>3 DEF IInv, Owned
    <3> QED
      BY <1>1, <1>3, <1>10, <3>2, <3>3, <3>4, <3>5 DEF IInv, Owned
  <2> QED
    BY <2>1, <2>2
<1> QED
  BY <1>3, <1>4, <1>5, <1>6, <1>7, <1>12 DEF IInv

\* The received bytes replace the first ones of the buffer.
Filled(b, q, n) == SubSeq(q, 1, n) \o SubSeq(b, n + 1, Len(b))

LEMMA FilledType ==
    ASSUME NEW b \in Seq(Byte), NEW q \in Seq(Byte), NEW n \in 0 .. Len(q)
    PROVE  Filled(b, q, n) \in Seq(Byte) /\ n <= Len(Filled(b, q, n))
<1>1. Len(q) \in Nat /\ n \in Nat
  BY LenProperties
<1>0. PICK x, y, z : x = SubSeq(q, 1, n) /\ y = SubSeq(b, n + 1, Len(b)) /\ z = x \o y
  OBVIOUS
<1>2. x \in Seq(Byte) /\ Len(x) = n
  BY <1>0, SplitType
<1>3. y \in Seq(Byte)
  BY <1>0, <1>1, UnsentType
<1>4. Len(y) \in Nat
  BY <1>3, LenProperties
<1>5. z \in Seq(Byte) /\ Len(z) = Len(x) + Len(y)
  BY <1>0, <1>2, <1>3, ConcatProperties
<1>6. Filled(b, q, n) = z
  BY <1>0 DEF Filled
<1>7. n <= Len(z)
  BY <1>1, <1>2, <1>4, <1>5
<1> QED
  BY <1>5, <1>6, <1>7

\* The completion of a RECV: the bytes are in the buffer, or the peer has ended.
LEMMA RecvInv ==
    ASSUME IInv, NEW id \in ReqIds, CompleteRecv(id)
    PROVE  IInv'
<1> PICK k, c : k = reqs[id].conn /\ c = fdtab[reqs[id].fd]
  OBVIOUS
<1>1. id \in inflight /\ reqs[id].type = "RECV"
  BY DEF CompleteRecv
<1>2. k \in LiveConns /\ k \in ConnIds /\ c \in Clients
  BY <1>1, Owner
<1>3. inq[c] \in Seq(Byte) /\ conns[k].buf \in Seq(Byte)
  BY <1>2 DEF IInv, NetTypeOK, BlockTypes
<1>4. Len(inq[c]) \in Nat /\ Len(conns[k].buf) \in Nat
  BY <1>3, LenProperties
<1> PICK n : n = Smaller(BufSize, Len(inq[c]))
  OBVIOUS
<1>5. n \in 0 .. Len(inq[c]) /\ n \in Int /\ n <= BufSize
  BY <1>4, Params DEF Smaller
<1>6. CASE SysRead(c, n) /\ Post(id, n)
           /\ conns' = [conns EXCEPT ![k].buf =
                           SubSeq(inq[c], 1, n) \o SubSeq(@, n + 1, Len(@))]
  <2> PICK e : e = [id |-> id, res |-> n]
    OBVIOUS
  <2>1. /\ Posted(e) /\ e.id = id /\ e.res = n
        /\ inflight' = inflight \ {id} /\ reqs' = reqs
    BY <1>1, <1>5, <1>6, PostStep DEF IInv
  <2> PICK b : b = Filled(conns[k].buf, inq[c], n)
    OBVIOUS
  <2>2. b \in Seq(Byte) /\ n <= Len(b)
    BY <1>3, <1>5, FilledType
  <2>3. PICK x : x = [conns[k] EXCEPT !.buf = b]
    OBVIOUS
  <2>4. conns \in [ConnIds -> [live : BOOLEAN, fd : Fds \cup {NoFd},
                               buf : Seq(Byte), length : 0 .. BufSize]]
    BY DEF IInv, BlockTypes
  <2>5. /\ x.live = conns[k].live /\ x.fd = conns[k].fd /\ x.buf = b
        /\ x \in [live : BOOLEAN, fd : Fds \cup {NoFd}, buf : Seq(Byte), length : 0 .. BufSize]
    BY <1>2, <2>2, <2>3, <2>4
  <2>6. conns' = [conns EXCEPT ![k] = x]
    BY <1>6, <2>3 DEF Filled
  <2>7. conns'[k] = x /\ \A j \in ConnIds : j # k => conns'[j] = conns[j]
    BY <1>2, <2>4, <2>6
  <2>8. \A j \in ConnIds : /\ conns'[j].live = conns[j].live
                           /\ conns'[j].fd = conns[j].fd
                           /\ j # k => conns'[j].buf = conns[j].buf
    BY <2>5, <2>7
  <2>9. BlockTypes'
    <3>1. conns' \in [ConnIds -> [live : BOOLEAN, fd : Fds \cup {NoFd},
                                  buf : Seq(Byte), length : 0 .. BufSize]]
      BY <2>4, <2>5, <2>6
    <3> QED
      BY <2>1, <3>1 DEF IInv, BlockTypes
  <2>10. n <= BufSize /\ n <= Len(conns'[k].buf)
    BY <1>5, <2>2, <2>5, <2>7
  <2>11. NetTypeOK' /\ fdtab' = fdtab
    BY <1>2, <1>5, <1>6, ReadStep DEF IInv
  <2> QED
    BY <1>1, <2>1, <2>8, <2>9, <2>10, <2>11, PostInv
<1>7. CASE /\ UNCHANGED <<netVars, conns>>
           /\ Post(id, IF peer[c] = "reset" THEN -1 ELSE 0)
  <2> PICK res \in Int : Post(id, res) /\ res <= 0
    <3>1. -1 \in Int /\ 0 \in Int /\ -1 <= 0 /\ 0 <= 0
      OBVIOUS
    <3> QED
      BY <1>7, <3>1
  <2> PICK e : e = [id |-> id, res |-> res]
    OBVIOUS
  <2>1. /\ Posted(e) /\ e.id = id /\ e.res = res
        /\ inflight' = inflight \ {id} /\ reqs' = reqs
    BY <1>1, PostStep DEF IInv
  <2>2. UNCHANGED <<peer, backlog, fdtab, closed, sent, inq, echoed, rcvd>> /\ conns' = conns
    BY <1>7 DEF netVars
  <2>3. NetTypeOK' /\ BlockTypes'
    BY <2>1, <2>2 DEF IInv, NetTypeOK, BlockTypes
  <2>4. res <= BufSize /\ res <= Len(conns'[k].buf)
    BY <1>4, <2>2, Params
  <2> QED
    BY <1>1, <2>1, <2>2, <2>3, <2>4, PostInv
<1> QED
  BY <1>6, <1>7 DEF CompleteRecv

\* The completion of a SEND: the first bytes of the buffer are on their way.
LEMMA SendInv ==
    ASSUME IInv, NEW id \in ReqIds, CompleteSend(id)
    PROVE  IInv'
<1> PICK k, c : k = reqs[id].conn /\ c = fdtab[reqs[id].fd]
  OBVIOUS
<1>1. id \in inflight /\ reqs[id].type = "SEND" /\ conns' = conns
  BY DEF CompleteSend
<1>2. k \in LiveConns /\ k \in ConnIds /\ c \in Clients
  BY <1>1, Owner
<1>3. conns[k].buf \in Seq(Byte) /\ reqs[id].len \in Nat /\ reqs[id].len <= Len(conns[k].buf)
  BY <1>1, <1>2, Params DEF IInv, BlockTypes, Results
<1>4. Len(conns[k].buf) \in Nat
  BY <1>3, LenProperties
<1> PICK res \in Int, n \in Int :
        /\ Post(id, res)
        /\ \/ /\ UNCHANGED netVars
           \/ /\ n \in 0 .. Len(conns[k].buf)
              /\ SysWrite(c, SubSeq(conns[k].buf, 1, n))
  <2>1. CASE CanWrite(c)
             /\ SysWrite(c, SubSeq(conns[k].buf, 1, Smaller(Room(c), reqs[id].len)))
             /\ Post(id, Smaller(Room(c), reqs[id].len))
    <3>1. Room(c) \in Int /\ Room(c) > 0
      <4>1. rcvd[c] \in Nat /\ echoed[c] \in Seq(Byte)
        BY <1>2 DEF IInv, NetTypeOK
      <4>2. Len(echoed[c]) \in Nat
        BY <4>1, LenProperties
      <4> QED
        BY <2>1, <4>1, <4>2, SocketsAssumption DEF Room, CanWrite
    <3> PICK n : n = Smaller(Room(c), reqs[id].len)
      OBVIOUS
    <3>2. n \in Int /\ n \in 0 .. Len(conns[k].buf)
      BY <1>3, <1>4, <3>1 DEF Smaller
    <3> QED
      BY <2>1, <3>2
  <2>2. CASE Post(id, -1) /\ UNCHANGED netVars
    <3>1. -1 \in Int
      OBVIOUS
    <3> QED
      BY <2>2, <3>1
  <2> QED
    BY <2>1, <2>2 DEF CompleteSend
<1> PICK e : e = [id |-> id, res |-> res]
  OBVIOUS
<1>5. /\ Posted(e) /\ e.id = id
      /\ inflight' = inflight \ {id} /\ reqs' = reqs
  BY <1>1, PostStep DEF IInv
<1>6. BlockTypes'
  BY <1>1, <1>5 DEF IInv, BlockTypes
<1>7. NetTypeOK' /\ fdtab' = fdtab
  <2>1. CASE UNCHANGED netVars
    BY <2>1 DEF netVars, IInv, NetTypeOK
  <2>2. CASE n \in 0 .. Len(conns[k].buf) /\ SysWrite(c, SubSeq(conns[k].buf, 1, n))
    <3>1. SubSeq(conns[k].buf, 1, n) \in Seq(Byte)
      BY <1>3, <2>2, SplitType
    <3> QED
      BY <1>2, <2>2, <3>1, WriteStep DEF IInv
  <2> QED
    BY <2>1, <2>2
<1> QED
  BY <1>1, <1>5, <1>6, <1>7, PostInv
----------------------------------------------------------------------------
(* The server's steps. *)

\* The completion an iteration handles, and its request.
LEMMA CqeFacts ==
    ASSUME IInv, NEW type, Iterate(type)
    PROVE  /\ Taken(Cqe) /\ reqs[Cqe.id].type = type
           /\ Cqe \in Completions /\ Cqe.id \in ReqIds /\ Cqe.res \in Int
           /\ \A x \in Completions : x.id = Cqe.id => x = Cqe
<1>1. Taken(Cqe)
  BY IterateStep DEF IInv
<1>2. reqs[Cqe.id].type = type
  BY DEF Iterate, Current
<1>3. Cqe \in Completions /\ Cqe.id \in ReqIds
  BY <1>1 DEF Taken, IInv, Once
<1>4. Cqe.res \in Int
  <2>1. head \in Nat
    BY RingFacts DEF IInv
  <2>2. head % CqEntries \in 0 .. (CqEntries - 1)
    BY <2>1, Params
  <2> QED
    BY <2>2 DEF Cqe, IInv, RingTypes
<1>5. \A x \in Completions : x.id = Cqe.id => x = Cqe
  BY <1>1 DEF Taken
<1> QED
  BY <1>1, <1>2, <1>3, <1>4, <1>5

\* The request of the completion leaves, and those of S are submitted.
LEMMA HandledOnce ==
    ASSUME Once, NEW e, Taken(e), NEW S \in SUBSET ReqIds,
           inflight' = inflight \cup S,
           Outstanding' = (Outstanding \ {e.id}) \cup S,
           \A id \in S : id \in Outstanding => id = e.id
    PROVE  Once'
<1>1. /\ e \in Completions /\ Completions' = Completions \ {e}
      /\ \A x \in Completions' : x \in Completions /\ x.id # e.id
  BY DEF Taken
<1>2. e.id \notin inflight
  BY <1>1 DEF Once
<1>3. \A x \in Completions' : x.id \notin inflight' /\ x.id \in ReqIds
  BY <1>1 DEF Once
<1>4. ASSUME NEW id \in ReqIds
      PROVE  id \in Outstanding' <=> id \in inflight' \/ \E x \in Completions' : x.id = id
  <2>1. id \in Outstanding <=> id \in inflight \/ \E x \in Completions : x.id = id
    BY DEF Once
  <2>2. CASE id \in S
    BY <2>2
  <2>3. CASE id \notin S /\ id = e.id
    BY <1>1, <1>2, <2>3
  <2>4. CASE id \notin S /\ id # e.id
    <3>1. (\E x \in Completions' : x.id = id) <=> \E x \in Completions : x.id = id
      BY <1>1, <2>4
    <3> QED
      BY <2>1, <2>4, <3>1
  <2> QED
    BY <2>2, <2>3, <2>4
<1> QED
  BY <1>3, <1>4 DEF Once, Taken

\* The connection goes on with another request, in the same block.
LEMMA ResubmitInv ==
    ASSUME IInv, Taken(Cqe), NEW k, k = reqs[Cqe.id].conn,
           reqs[Cqe.id].type \in {"RECV", "SEND"},
           NEW r, r.type \in {"RECV", "SEND"}, r.conn = k, r.fd = conns[k].fd,
           Resubmit(r), BlockTypes', UNCHANGED netVars,
           \A j \in ConnIds : /\ conns'[j].live = conns[j].live
                              /\ conns'[j].fd = conns[j].fd
                              /\ conns'[j].buf = conns[j].buf,
           r.type = "SEND" => r.len <= Len(conns[k].buf)
    PROVE  IInv'
<1> PICK i : i = Cqe.id
  OBVIOUS
<1>1. /\ Cqe \in Completions /\ Completions' = Completions \ {Cqe} /\ RingTypes' /\ Window'
      /\ \A x \in Completions' : x \in Completions /\ x.id # i
  BY DEF Taken
<1>2. i \in ReqIds
  BY <1>1 DEF IInv, Once
<1>3. /\ i \in Outstanding \ {0} /\ k \in LiveConns /\ k \in ConnIds
      /\ reqs[i].fd = conns[k].fd
  BY <1>2, Owner
<1>4. /\ reqs'[i] = r /\ inflight' = inflight \cup {i}
      /\ \A id \in ReqIds : id # i => reqs'[id] = reqs[id]
  BY <1>2 DEF Resubmit, IInv, BlockTypes
<1>5. \A id \in ReqIds : /\ reqs'[id].conn = reqs[id].conn
                         /\ id \in Outstanding \ {0} => reqs'[id].fd = reqs[id].fd
                         /\ reqs'[id].type = "ACCEPT" <=> reqs[id].type = "ACCEPT"
                         /\ reqs'[id].type = "FREE" <=> reqs[id].type = "FREE"
  BY <1>3, <1>4
<1>6. Outstanding' = Outstanding /\ LiveConns' = LiveConns
  BY <1>5 DEF Outstanding, LiveConns
<1>7. NetTypeOK' /\ OpenFds' = OpenFds
  BY DEF netVars, IInv, NetTypeOK, OpenFds
<1>8. Once'
  <2>1. PICK e, S : e = Cqe /\ S = {i}
    OBVIOUS
  <2>2. /\ S \in SUBSET ReqIds /\ inflight' = inflight \cup S
        /\ Outstanding' = (Outstanding \ {e.id}) \cup S
        /\ \A id \in S : id \in Outstanding => id = e.id
    BY <1>2, <1>3, <1>4, <1>6, <2>1
  <2>3. Once /\ Taken(e)
    BY <2>1 DEF Taken, IInv
  <2> QED
    BY <2>2, <2>3, HandledOnce
<1>9. Roles'
  <2>1. 0 \in ReqIds
    BY Params
  <2>2. \A id \in Outstanding : id \in ReqIds
    BY DEF Outstanding
  <2>3. \A j \in LiveConns : j \in ConnIds
    BY DEF LiveConns
  <2> QED
    BY <1>5, <1>6, <2>1, <2>2, <2>3 DEF IInv, Roles
<1>10. Results'
  <2>1. ASSUME NEW x \in Completions', reqs'[x.id].type = "RECV"
        PROVE  x.res <= BufSize /\ x.res <= Len(conns'[reqs'[x.id].conn].buf)
    <3>1. x \in Completions /\ x.id # i /\ x.id \in ReqIds
      BY <1>1 DEF IInv, Once
    <3>2. reqs'[x.id] = reqs[x.id]
      BY <1>4, <3>1
    <3>3. reqs[x.id].conn \in ConnIds
      BY <2>1, <3>1, <3>2, Owner
    <3> QED
      BY <2>1, <3>1, <3>2, <3>3 DEF IInv, Results
  <2>2. ASSUME NEW id \in ReqIds, reqs'[id].type = "SEND"
        PROVE  reqs'[id].len <= Len(conns'[reqs'[id].conn].buf)
    <3>1. CASE id = i
      BY <1>3, <1>4, <2>2, <3>1
    <3>2. CASE id # i
      <4>1. reqs'[id] = reqs[id]
        BY <1>4, <3>2
      <4>2. reqs[id].conn \in ConnIds
        BY <2>2, <4>1, Owner
      <4> QED
        BY <2>2, <4>1, <4>2 DEF IInv, Results
    <3> QED
      BY <3>1, <3>2
  <2> QED
    BY <2>1, <2>2 DEF Results
<1>11. Owned'
  <2>1. \A fd : Waiting(fd)' <=> Waiting(fd)
    BY <1>1, <1>3 DEF Waiting
  <2>2. \A j \in LiveConns : conns'[j].fd = conns[j].fd
    BY DEF LiveConns
  <2> QED
    BY <1>1, <1>6, <1>7, <2>1, <2>2 DEF IInv, Owned
<1> QED
  BY <1>1, <1>6, <1>7, <1>8, <1>9, <1>10, <1>11 DEF IInv

\* The connection ends: its descriptor is closed and both blocks are freed.
LEMMA CloseInv ==
    ASSUME IInv, Taken(Cqe), NEW k, k = reqs[Cqe.id].conn,
           reqs[Cqe.id].type \in {"RECV", "SEND"}, CloseAndFree(k)
    PROVE  IInv'
<1> PICK i : i = Cqe.id
  OBVIOUS
<1>1. /\ Cqe \in Completions /\ Completions' = Completions \ {Cqe} /\ RingTypes' /\ Window'
      /\ \A x \in Completions' : x \in Completions /\ x.id # i
  BY DEF Taken
<1>2. i \in ReqIds
  BY <1>1 DEF IInv, Once
<1>3. /\ i \in Outstanding \ {0} /\ k \in LiveConns /\ k \in ConnIds
      /\ conns[k].fd \in OpenFds /\ conns[k].fd \in Fds
  BY <1>2, Owner
<1>4. /\ reqs'[i] = Free /\ inflight' = inflight
      /\ \A id \in ReqIds : id # i => reqs'[id] = reqs[id]
      /\ conns'[k] = NoBlock
      /\ \A j \in ConnIds : j # k => conns'[j] = conns[j]
  BY <1>2, <1>3 DEF CloseAndFree, IInv, BlockTypes
<1>5. Outstanding' = Outstanding \ {i} /\ LiveConns' = LiveConns \ {k}
  BY <1>4 DEF Outstanding, LiveConns, Free, NoBlock
<1>6. NetTypeOK' /\ OpenFds' = OpenFds \ {conns[k].fd}
  BY <1>3, CloseStep DEF CloseAndFree, IInv
<1>7. BlockTypes'
  <2>1. reqs' \in [ReqIds -> [type : {"FREE", "ACCEPT", "RECV", "SEND"},
                              fd : Fds \cup {NoFd}, conn : ConnIds \cup {NoConn},
                              len : 0 .. BufSize]]
    <3>1. Free \in [type : {"FREE", "ACCEPT", "RECV", "SEND"},
                    fd : Fds \cup {NoFd}, conn : ConnIds \cup {NoConn}, len : 0 .. BufSize]
      BY Params DEF Free
    <3> QED
      BY <3>1 DEF CloseAndFree, IInv, BlockTypes
  <2>2. conns' \in [ConnIds -> [live : BOOLEAN, fd : Fds \cup {NoFd},
                                buf : Seq(Byte), length : 0 .. BufSize]]
    <3>1. <<>> \in Seq(Byte) /\ 0 \in 0 .. BufSize
      BY EmptySeq, Params
    <3>2. NoBlock \in [live : BOOLEAN, fd : Fds \cup {NoFd},
                       buf : Seq(Byte), length : 0 .. BufSize]
      BY <3>1 DEF NoBlock
    <3> QED
      BY <3>2 DEF CloseAndFree, IInv, BlockTypes
  <2> QED
    BY <1>4, <2>1, <2>2 DEF IInv, BlockTypes
<1>8. Once'
  <2>1. PICK e, S : e = Cqe /\ S = {}
    OBVIOUS
  <2>2. /\ S \in SUBSET ReqIds /\ inflight' = inflight \cup S
        /\ Outstanding' = (Outstanding \ {e.id}) \cup S
        /\ \A id \in S : id \in Outstanding => id = e.id
    BY <1>4, <1>5, <2>1
  <2>3. Once /\ Taken(e)
    BY <2>1 DEF Taken, IInv
  <2> QED
    BY <2>2, <2>3, HandledOnce
\* The requests of other connections.
<1>9. ASSUME NEW id \in ReqIds, id # i, id \in Outstanding \ {0}
      PROVE  /\ reqs'[id] = reqs[id] /\ reqs[id].conn # k /\ reqs[id].conn \in ConnIds
             /\ reqs[id].conn \in LiveConns /\ reqs[id].fd = conns[reqs[id].conn].fd
             /\ conns'[reqs[id].conn] = conns[reqs[id].conn]
  <2>1. reqs[id].conn # k /\ reqs[id].conn \in LiveConns
        /\ reqs[id].fd = conns[reqs[id].conn].fd
    BY <1>3, <1>9 DEF IInv, Roles
  <2>2. reqs[id].conn \in ConnIds
    BY <2>1 DEF LiveConns
  <2> QED
    BY <1>4, <1>9, <2>1, <2>2
<1>10. Roles'
  <2>1. 0 \in ReqIds /\ 0 # i
    BY <1>3, Params
  <2>2. \A id \in ReqIds : reqs'[id].type = "ACCEPT" <=> id = 0
    BY <1>3, <1>4 DEF IInv, Roles, Free
  <2>3. reqs'[0].conn = NoConn
    BY <1>4, <2>1 DEF IInv, Roles
  <2>4. \A id \in Outstanding' \ {0} : id \in ReqIds /\ id # i /\ id \in Outstanding \ {0}
    BY <1>5 DEF Outstanding
  <2>5. \A id \in Outstanding' \ {0} : /\ reqs'[id].conn \in LiveConns'
                                       /\ reqs'[id].fd = conns'[reqs'[id].conn].fd
    BY <1>5, <1>9, <2>4
  <2>6. \A id, jd \in Outstanding' \ {0} : reqs'[id].conn = reqs'[jd].conn => id = jd
    BY <1>9, <2>4 DEF IInv, Roles
  <2>7. ASSUME NEW j \in LiveConns'
        PROVE  \E id \in Outstanding' \ {0} : reqs'[id].conn = j
    <3>1. j \in LiveConns /\ j # k
      BY <1>5
    <3>2. PICK id \in Outstanding \ {0} : reqs[id].conn = j
      BY <3>1 DEF IInv, Roles
    <3>3. id \in ReqIds /\ id # i
      BY <3>1, <3>2 DEF Outstanding
    <3> QED
      BY <1>5, <1>9, <3>2, <3>3
  <2> QED
    BY <2>2, <2>3, <2>5, <2>6, <2>7 DEF Roles
<1>11. Results'
  <2>1. ASSUME NEW x \in Completions', reqs'[x.id].type = "RECV"
        PROVE  x.res <= BufSize /\ x.res <= Len(conns'[reqs'[x.id].conn].buf)
    <3>1. x \in Completions /\ x.id # i /\ x.id \in ReqIds
      BY <1>1 DEF IInv, Once
    <3>2. reqs[x.id].type = "RECV"
      BY <1>4, <2>1, <3>1
    <3>3. x.id \in Outstanding \ {0}
      BY <3>1, <3>2, Owner
    <3> QED
      BY <1>9, <3>1, <3>2, <3>3 DEF IInv, Results
  <2>2. ASSUME NEW id \in ReqIds, reqs'[id].type = "SEND"
        PROVE  reqs'[id].len <= Len(conns'[reqs'[id].conn].buf)
    <3>1. id # i
      BY <1>4, <2>2 DEF Free
    <3>2. reqs[id].type = "SEND"
      BY <1>4, <2>2, <3>1
    <3>3. id \in Outstanding \ {0}
      BY <3>2, Owner
    <3> QED
      BY <1>9, <3>1, <3>2, <3>3 DEF IInv, Results
  <2> QED
    BY <2>1, <2>2 DEF Results
<1>12. Owned'
  <2>1. \A fd : Waiting(fd)' <=> Waiting(fd)
    BY <1>1, <1>3 DEF Waiting
  <2>2. \A j \in LiveConns' : j \in LiveConns /\ j # k /\ conns'[j].fd = conns[j].fd
    BY <1>4, <1>5 DEF LiveConns
  <2>3. \A j \in LiveConns' : /\ conns'[j].fd \in Fds
                               /\ \A x \in Completions' : x.id = 0 => x.res # conns'[j].fd
    <3>1. \A j \in LiveConns : /\ conns[j].fd \in Fds
                               /\ \A x \in Completions : x.id = 0 => x.res # conns[j].fd
      BY DEF IInv, Owned, Waiting
    <3> QED
      BY <1>1, <2>2, <3>1
  <2>4. ASSUME NEW fd \in Fds
        PROVE  fd \in OpenFds' <=> Waiting(fd)' \/ \E j \in LiveConns' : conns'[j].fd = fd
    <3>1. fd \in OpenFds <=> Waiting(fd) \/ \E j \in LiveConns : conns[j].fd = fd
      BY DEF IInv, Owned
    <3>2. CASE fd = conns[k].fd
      <4>1. ~Waiting(fd) /\ \A j \in LiveConns : j # k => conns[j].fd # fd
        BY <1>3, <3>2 DEF IInv, Owned
      <4> QED
        BY <1>6, <2>1, <2>2, <3>2, <4>1
    <3>3. CASE fd # conns[k].fd
      <4>1. (\E j \in LiveConns : conns[j].fd = fd) <=> \E j \in LiveConns' : conns'[j].fd = fd
        BY <1>5, <2>2, <3>3
      <4> QED
        BY <1>6, <2>1, <3>1, <3>3, <4>1
    <3> QED
      BY <3>2, <3>3
  <2>5. \A j, l \in LiveConns' : conns'[j].fd = conns'[l].fd => j = l
    BY <2>2 DEF IInv, Owned
  <2>6. \A x \in Completions' : x.id = 0 /\ x.res >= 0 => x.res \in Fds
    BY <1>1 DEF IInv, Owned
  <2> QED
    BY <2>3, <2>4, <2>5, <2>6 DEF Owned, Waiting
<1> QED
  BY <1>1, <1>6, <1>7, <1>8, <1>10, <1>11, <1>12 DEF IInv
\* The ACCEPT is submitted again; a descriptor it returned has been closed.
LEMMA AcceptAgain ==
    ASSUME IInv, Iterate("ACCEPT"), Resubmit(ACCEPT), conns' = conns, NetTypeOK',
           OpenFds' = OpenFds \ {Cqe.res}
    PROVE  IInv'
<1>1. /\ Cqe.id = 0 /\ 0 \in ReqIds /\ Taken(Cqe) /\ Cqe \in Completions
      /\ \A x \in Completions : x.id = 0 => x = Cqe
  BY CqeFacts, Params DEF IInv, Roles
<1>2. /\ Completions' = Completions \ {Cqe} /\ RingTypes' /\ Window'
      /\ \A x \in Completions' : x \in Completions /\ x.id # 0
  BY <1>1 DEF Taken
<1>3. /\ ACCEPT.type = "ACCEPT" /\ ACCEPT.conn = NoConn
      /\ ACCEPT \in [type : {"FREE", "ACCEPT", "RECV", "SEND"},
                     fd : Fds \cup {NoFd}, conn : ConnIds \cup {NoConn}, len : 0 .. BufSize]
  BY Params DEF ACCEPT, Free
<1>4. /\ reqs' = [reqs EXCEPT ![0] = ACCEPT] /\ inflight' = inflight \cup {0}
      /\ reqs'[0] = ACCEPT /\ reqs[0].type = "ACCEPT"
      /\ \A id \in ReqIds : id # 0 => reqs'[id] = reqs[id]
  BY <1>1 DEF Resubmit, IInv, BlockTypes, Roles
<1>5. Outstanding' = Outstanding /\ LiveConns' = LiveConns /\ 0 \in Outstanding
  BY <1>1, <1>3, <1>4 DEF Outstanding, LiveConns
<1>6. BlockTypes'
  BY <1>1, <1>3, <1>4 DEF IInv, BlockTypes
<1>7. Once'
  <2>1. PICK e, S : e = Cqe /\ S = {0}
    OBVIOUS
  <2>2. /\ S \in SUBSET ReqIds /\ inflight' = inflight \cup S
        /\ Outstanding' = (Outstanding \ {e.id}) \cup S
        /\ \A id \in S : id \in Outstanding => id = e.id
    BY <1>1, <1>4, <1>5, <2>1
  <2>3. Once /\ Taken(e)
    BY <1>1, <2>1 DEF Taken, IInv
  <2> QED
    BY <2>2, <2>3, HandledOnce
<1>8. Roles'
  <2>1. \A id \in Outstanding \ {0} : id \in ReqIds /\ reqs'[id] = reqs[id]
    BY <1>4 DEF Outstanding
  <2>2. (\A id \in ReqIds : reqs'[id].type = "ACCEPT" <=> id = 0) /\ reqs'[0].conn = NoConn
    BY <1>3, <1>4 DEF IInv, Roles
  <2> QED
    BY <1>5, <2>1, <2>2 DEF IInv, Roles
<1>9. Results'
  <2>1. \A x \in Completions' : x \in Completions /\ x.id \in ReqIds /\ reqs'[x.id] = reqs[x.id]
    BY <1>2, <1>4 DEF IInv, Once
  <2>2. \A id \in ReqIds : reqs'[id].type = "SEND" => reqs'[id] = reqs[id]
    BY <1>3, <1>4
  <2> QED
    BY <2>1, <2>2 DEF IInv, Results
<1>10. Owned'
  <2>1. \A fd : ~(Waiting(fd)')
    BY <1>2 DEF Waiting
  <2>2. \A fd : Waiting(fd) <=> fd = Cqe.res
    BY <1>1 DEF Waiting
  <2>3. \A fd \in Fds : fd \in OpenFds' <=> \E k \in LiveConns : conns[k].fd = fd
    BY <2>2 DEF IInv, Owned
  <2> QED
    BY <1>2, <1>5, <2>1, <2>3 DEF IInv, Owned
<1> QED
  BY <1>2, <1>6, <1>7, <1>8, <1>9, <1>10 DEF IInv

\* A connection gets a block and its first RECV.
LEMMA AcceptedInv ==
    ASSUME IInv, HandleAccept
    PROVE  IInv'
<1> PICK fd : fd = Cqe.res
  OBVIOUS
<1>1. PICK k \in FreeConns, i \in FreeReqs :
          /\ conns' = [conns EXCEPT ![k] =
                          [live |-> TRUE, fd |-> fd, buf |-> <<>>, length |-> 0]]
          /\ reqs' = [reqs EXCEPT ![Cqe.id] = ACCEPT, ![i] = RECV(k, fd)]
          /\ inflight' = inflight \cup {Cqe.id, i}
  BY DEF HandleAccept
<1>2. Iterate("ACCEPT") /\ fd >= 0 /\ UNCHANGED netVars
  BY DEF HandleAccept
<1>3. /\ Cqe.id = 0 /\ 0 \in ReqIds /\ Taken(Cqe) /\ Cqe \in Completions
      /\ \A x \in Completions : x.id = 0 => x = Cqe
  BY <1>2, CqeFacts, Params DEF IInv, Roles
<1>4. /\ Completions' = Completions \ {Cqe} /\ RingTypes' /\ Window'
      /\ \A x \in Completions' : x \in Completions /\ x.id # 0
  BY <1>3 DEF Taken
<1>5. fd \in Fds /\ Waiting(fd) /\ \A d : Waiting(d) <=> d = fd
  BY <1>2, <1>3 DEF IInv, Owned, Waiting
<1>6. /\ k \in ConnIds /\ k \notin LiveConns /\ i \in ReqIds /\ i \notin Outstanding /\ i # 0
      /\ 0 \in Outstanding /\ reqs[0].type = "ACCEPT"
  BY <1>3 DEF FreeConns, LiveConns, FreeReqs, Outstanding, IInv, Roles
<1>7. /\ ACCEPT.type = "ACCEPT" /\ ACCEPT.conn = NoConn
      /\ RECV(k, fd).type = "RECV" /\ RECV(k, fd).conn = k /\ RECV(k, fd).fd = fd
      /\ {ACCEPT, RECV(k, fd)} \subseteq
            [type : {"FREE", "ACCEPT", "RECV", "SEND"},
             fd : Fds \cup {NoFd}, conn : ConnIds \cup {NoConn}, len : 0 .. BufSize]
  BY <1>5, <1>6, Params DEF ACCEPT, RECV, Free
<1> PICK c : c = [live |-> TRUE, fd |-> fd, buf |-> <<>>, length |-> 0]
  OBVIOUS
<1>8. /\ c.live = TRUE /\ c.fd = fd
      /\ c \in [live : BOOLEAN, fd : Fds \cup {NoFd}, buf : Seq(Byte), length : 0 .. BufSize]
  <2>1. <<>> \in Seq(Byte) /\ 0 \in 0 .. BufSize
    BY EmptySeq, Params
  <2> QED
    BY <1>5, <2>1
<1>9. /\ reqs'[0] = ACCEPT /\ reqs'[i] = RECV(k, fd) /\ inflight' = inflight \cup {0, i}
      /\ \A id \in ReqIds : id # 0 /\ id # i => reqs'[id] = reqs[id]
      /\ conns'[k] = c
      /\ \A j \in ConnIds : j # k => conns'[j] = conns[j]
  BY <1>1, <1>3, <1>6 DEF IInv, BlockTypes
<1>10. BlockTypes'
  <2>1. reqs' \in [ReqIds -> [type : {"FREE", "ACCEPT", "RECV", "SEND"},
                              fd : Fds \cup {NoFd}, conn : ConnIds \cup {NoConn},
                              len : 0 .. BufSize]]
    BY <1>1, <1>3, <1>6, <1>7 DEF IInv, BlockTypes
  <2>2. conns' \in [ConnIds -> [live : BOOLEAN, fd : Fds \cup {NoFd},
                                buf : Seq(Byte), length : 0 .. BufSize]]
    BY <1>1, <1>6, <1>8 DEF IInv, BlockTypes
  <2> QED
    BY <1>3, <1>6, <1>9, <2>1, <2>2 DEF IInv, BlockTypes
<1>11. Outstanding' = Outstanding \cup {i} /\ LiveConns' = LiveConns \cup {k}
  BY <1>6, <1>7, <1>8, <1>9 DEF Outstanding, LiveConns
<1>12. NetTypeOK' /\ OpenFds' = OpenFds
  BY <1>2 DEF netVars, IInv, NetTypeOK, OpenFds
<1>13. Once'
  <2>1. PICK e, S : e = Cqe /\ S = {0, i}
    OBVIOUS
  <2>2. /\ S \in SUBSET ReqIds /\ inflight' = inflight \cup S
        /\ Outstanding' = (Outstanding \ {e.id}) \cup S
        /\ \A id \in S : id \in Outstanding => id = e.id
    BY <1>3, <1>6, <1>9, <1>11, <2>1
  <2>3. Once /\ Taken(e)
    BY <1>3, <2>1 DEF Taken, IInv
  <2> QED
    BY <2>2, <2>3, HandledOnce
\* The other requests and connections are as they were.
<1>14. /\ \A id \in Outstanding \ {0} :
              /\ id \in ReqIds /\ id # i /\ reqs'[id] = reqs[id]
              /\ reqs[id].conn \in LiveConns /\ reqs[id].conn # k
              /\ reqs[id].fd = conns[reqs[id].conn].fd
       /\ \A j \in LiveConns : conns'[j] = conns[j] /\ j # k /\ j \in ConnIds
  BY <1>6, <1>9 DEF Outstanding, LiveConns, IInv, Roles
<1>15. Roles'
  <2>1. (\A id \in ReqIds : reqs'[id].type = "ACCEPT" <=> id = 0) /\ reqs'[0].conn = NoConn
    BY <1>6, <1>7, <1>9 DEF IInv, Roles
  <2>2. \A id \in Outstanding' \ {0} : id = i \/ id \in Outstanding \ {0}
    BY <1>11
  <2>3. \A id \in Outstanding' \ {0} : /\ reqs'[id].conn \in LiveConns'
                                       /\ reqs'[id].fd = conns'[reqs'[id].conn].fd
    BY <1>7, <1>8, <1>9, <1>11, <1>14, <2>2
  <2>4. \A id, jd \in Outstanding' \ {0} : reqs'[id].conn = reqs'[jd].conn => id = jd
    BY <1>7, <1>9, <1>14, <2>2 DEF IInv, Roles
  <2>5. \A j \in LiveConns' : \E id \in Outstanding' \ {0} : reqs'[id].conn = j
    <3>1. i \in Outstanding' \ {0} /\ reqs'[i].conn = k
      BY <1>6, <1>7, <1>9, <1>11
    <3>2. \A j \in LiveConns : \E id \in Outstanding \ {0} : reqs'[id].conn = j
      BY <1>14 DEF IInv, Roles
    <3> QED
      BY <1>11, <3>1, <3>2
  <2> QED
    BY <2>1, <2>3, <2>4, <2>5 DEF Roles
<1>16. Results'
  <2>1. ASSUME NEW x \in Completions', reqs'[x.id].type = "RECV"
        PROVE  x.res <= BufSize /\ x.res <= Len(conns'[reqs'[x.id].conn].buf)
    <3>1. x \in Completions /\ x.id \in Outstanding \ {0}
      BY <1>4 DEF IInv, Once
    <3> QED
      BY <1>14, <2>1, <3>1 DEF IInv, Results
  <2>2. ASSUME NEW id \in ReqIds, reqs'[id].type = "SEND"
        PROVE  reqs'[id].len <= Len(conns'[reqs'[id].conn].buf)
    <3>1. id # 0 /\ id # i /\ reqs[id].type = "SEND"
      BY <1>7, <1>9, <2>2
    <3>2. id \in Outstanding \ {0}
      BY <3>1, Owner
    <3> QED
      BY <1>14, <3>1, <3>2 DEF IInv, Results
  <2> QED
    BY <2>1, <2>2 DEF Results
<1>17. Owned'
  <2>1. \A d : ~(Waiting(d)')
    BY <1>4 DEF Waiting
  <2>2. \A x \in Completions' : x.id # 0
    BY <1>4
  <2>3. \A j \in LiveConns : conns'[j].fd = conns[j].fd /\ conns[j].fd \in Fds /\ conns[j].fd # fd
    BY <1>5, <1>14 DEF IInv, Owned
  <2>4. \A j \in LiveConns' : conns'[j].fd \in Fds
    BY <1>5, <1>8, <1>9, <1>11, <2>3
  <2>5. \A j, l \in LiveConns' : conns'[j].fd = conns'[l].fd => j = l
    BY <1>8, <1>9, <1>11, <2>3 DEF IInv, Owned
  <2>6. ASSUME NEW d \in Fds
        PROVE  d \in OpenFds' <=> \E j \in LiveConns' : conns'[j].fd = d
    <3>1. d \in OpenFds <=> d = fd \/ \E j \in LiveConns : conns[j].fd = d
      BY <1>5 DEF IInv, Owned
    <3>2. (\E j \in LiveConns' : conns'[j].fd = d)
             <=> d = fd \/ \E j \in LiveConns : conns[j].fd = d
      BY <1>8, <1>9, <1>11, <2>3
    <3> QED
      BY <1>12, <3>1, <3>2
  <2> QED
    BY <2>1, <2>2, <2>4, <2>5, <2>6 DEF Owned, Waiting
<1> QED
  BY <1>4, <1>10, <1>12, <1>13, <1>15, <1>16, <1>17 DEF IInv
\* The bytes received go back as a SEND, or the connection ends.
LEMMA HandleRecvInv ==
    ASSUME IInv, HandleRecv
    PROVE  IInv'
<1> PICK k, res : k = Current.conn /\ res = Cqe.res
  OBVIOUS
<1>1. Iterate("RECV") /\ k = reqs[Cqe.id].conn
  BY DEF HandleRecv, Current
<1>2. /\ Taken(Cqe) /\ reqs[Cqe.id].type = "RECV" /\ Cqe \in Completions /\ Cqe.id \in ReqIds
      /\ res \in Int
  BY <1>1, CqeFacts
<1>3. k \in LiveConns /\ k \in ConnIds /\ conns[k].fd \in Fds
  BY <1>1, <1>2, Owner
<1>4. res <= BufSize /\ res <= Len(conns[k].buf)
  BY <1>1, <1>2 DEF IInv, Results
<1>5. CASE Over(res)
  <2>1. CloseAndFree(k)
    BY <1>5 DEF HandleRecv
  <2> QED
    BY <1>1, <1>2, <2>1, CloseInv
<1>6. CASE ~Over(res)
  <2>1. /\ conns' = [conns EXCEPT ![k].length = res] /\ UNCHANGED netVars
        /\ Resubmit(SEND(k, res))
    BY <1>6 DEF HandleRecv
  <2>2. res \in 0 .. BufSize
    BY <1>2, <1>4, <1>6, Params DEF Over
  <2>3. PICK r : r = SEND(k, res)
    OBVIOUS
  <2>4. /\ r.type = "SEND" /\ r.conn = k /\ r.fd = conns[k].fd /\ r.len = res
        /\ r \in [type : {"FREE", "ACCEPT", "RECV", "SEND"},
                  fd : Fds \cup {NoFd}, conn : ConnIds \cup {NoConn}, len : 0 .. BufSize]
    BY <1>3, <2>2, <2>3 DEF SEND
  <2>5. Resubmit(r)
    BY <2>1, <2>3 DEF Resubmit
  <2>6. \A j \in ConnIds : /\ conns'[j].live = conns[j].live
                           /\ conns'[j].fd = conns[j].fd
                           /\ conns'[j].buf = conns[j].buf
    BY <1>3, <2>1 DEF IInv, BlockTypes
  <2>7. BlockTypes'
    <3>1. conns \in [ConnIds -> [live : BOOLEAN, fd : Fds \cup {NoFd},
                                 buf : Seq(Byte), length : 0 .. BufSize]]
      BY DEF IInv, BlockTypes
    <3>2. [conns[k] EXCEPT !.length = res] \in [live : BOOLEAN, fd : Fds \cup {NoFd},
                                                buf : Seq(Byte), length : 0 .. BufSize]
      BY <1>3, <2>2, <3>1
    <3>3. conns' \in [ConnIds -> [live : BOOLEAN, fd : Fds \cup {NoFd},
                                  buf : Seq(Byte), length : 0 .. BufSize]]
      BY <2>1, <3>1, <3>2
    <3>4. reqs' \in [ReqIds -> [type : {"FREE", "ACCEPT", "RECV", "SEND"},
                                fd : Fds \cup {NoFd}, conn : ConnIds \cup {NoConn},
                                len : 0 .. BufSize]]
      BY <2>4, <2>5 DEF Resubmit, IInv, BlockTypes
    <3>5. inflight' \subseteq ReqIds
      BY <1>2, <2>5 DEF Resubmit, IInv, BlockTypes
    <3> QED
      BY <3>3, <3>4, <3>5 DEF BlockTypes
  <2>8. r.type = "SEND" => r.len <= Len(conns[k].buf)
    BY <1>4, <2>4
  <2>9. r.type \in {"RECV", "SEND"} /\ r.conn = k /\ r.fd = conns[k].fd /\ UNCHANGED netVars
    BY <2>1, <2>4
  <2>10. Taken(Cqe) /\ k = reqs[Cqe.id].conn /\ reqs[Cqe.id].type \in {"RECV", "SEND"}
    BY <1>1, <1>2
  <2> QED
    BY <2>5, <2>6, <2>7, <2>8, <2>9, <2>10, ResubmitInv
<1> QED
  BY <1>5, <1>6

\* The next RECV follows a SEND, or the connection ends.
LEMMA HandleSendInv ==
    ASSUME IInv, HandleSend
    PROVE  IInv'
<1> PICK k, res : k = Current.conn /\ res = Cqe.res
  OBVIOUS
<1>1. Iterate("SEND") /\ k = reqs[Cqe.id].conn
  BY DEF HandleSend, Current
<1>2. /\ Taken(Cqe) /\ reqs[Cqe.id].type = "SEND" /\ Cqe.id \in ReqIds
  BY <1>1, CqeFacts
<1>3. k \in LiveConns /\ k \in ConnIds /\ conns[k].fd \in Fds
  BY <1>1, <1>2, Owner
<1>4. CASE Over(res)
  <2>1. CloseAndFree(k)
    BY <1>4 DEF HandleSend
  <2> QED
    BY <1>1, <1>2, <2>1, CloseInv
<1>5. CASE ~Over(res)
  <2>1. UNCHANGED <<netVars, conns>> /\ Resubmit(AfterSend(k))
    BY <1>5 DEF HandleSend
  <2>2. PICK r : r = AfterSend(k)
    OBVIOUS
  <2>3. /\ r.type = "RECV" /\ r.conn = k /\ r.fd = conns[k].fd
        /\ r \in [type : {"FREE", "ACCEPT", "RECV", "SEND"},
                  fd : Fds \cup {NoFd}, conn : ConnIds \cup {NoConn}, len : 0 .. BufSize]
    BY <1>3, <2>2, Params DEF AfterSend, RECV
  <2>4. Resubmit(r)
    BY <2>1, <2>2 DEF Resubmit
  <2>5. BlockTypes'
    BY <1>2, <2>1, <2>3, <2>4 DEF Resubmit, IInv, BlockTypes
  <2> QED
    BY <1>1, <1>2, <2>1, <2>3, <2>4, <2>5, ResubmitInv
<1> QED
  BY <1>4, <1>5

\* The ACCEPT that failed, and the one whose connection found no memory.
LEMMA HandleAcceptErrorInv ==
    ASSUME IInv, HandleAcceptError
    PROVE  IInv'
<1>1. /\ Iterate("ACCEPT") /\ Cqe.res < 0 /\ Resubmit(ACCEPT) /\ conns' = conns
      /\ UNCHANGED <<peer, backlog, fdtab, closed, sent, inq, echoed, rcvd>>
  BY DEF HandleAcceptError, netVars
<1>2. NetTypeOK' /\ OpenFds' = OpenFds
  BY <1>1 DEF IInv, NetTypeOK, OpenFds
<1>3. Cqe.res \notin OpenFds
  <2>1. \A fd \in Fds : ~(fd < 0)
    BY Params
  <2>2. Cqe.res \notin Fds
    BY <1>1, <2>1
  <2> QED
    BY <2>2 DEF OpenFds
<1> QED
  BY <1>1, <1>2, <1>3, AcceptAgain

LEMMA HandleAcceptNoMemoryInv ==
    ASSUME IInv, HandleAcceptNoMemory
    PROVE  IInv'
<1>1. /\ Iterate("ACCEPT") /\ Cqe.res >= 0 /\ Resubmit(ACCEPT) /\ conns' = conns
      /\ SysClose(Cqe.res)
  BY DEF HandleAcceptNoMemory
<1>2. Cqe.id = 0 /\ Cqe \in Completions
  BY <1>1, CqeFacts DEF IInv, Roles
<1>3. Cqe.res \in Fds /\ Cqe.res \in OpenFds
  BY <1>1, <1>2 DEF IInv, Owned, Waiting
<1> PICK fd : fd = Cqe.res
  OBVIOUS
<1>4. fd \in OpenFds /\ SysClose(fd)
  BY <1>1, <1>3 DEF SysClose
<1>5. NetTypeOK' /\ OpenFds' = OpenFds \ {fd}
  BY <1>4, CloseStep DEF IInv
<1> QED
  BY <1>1, <1>5, AcceptAgain

----------------------------------------------------------------------------
(* The theorems. *)

LEMMA InitInv == Init => IInv
<1> SUFFICES ASSUME Init
             PROVE  IInv
  OBVIOUS
<1>1. NetTypeOK /\ OpenFds = {}
  BY NetInitType DEF Init
<1>2. 0 \in Index /\ 0 \in ReqIds /\ Span(0, 0) = 0 /\ 0 % CqEntries = 0
  <2>1. 0 \in Index
    BY Params DEF Index
  <2> QED
    BY <2>1, SpanFacts, Params
<1>3. RingTypes
  <2>1. <<>> \in Seq([id : ReqIds, res : Int])
    BY EmptySeq
  <2>2. NoCqe \in [id : ReqIds, res : Int]
    BY <1>2 DEF NoCqe
  <2> QED
    BY <1>2, <2>1, <2>2 DEF Init, RingTypes
<1>4. Window
  BY <1>2, Params DEF Init, Window
<1>5. Unhandled = Queue(0, 0, cqes, <<>>)
  BY <1>2 DEF Init, Unhandled, Queue
<1>6. Len(Unhandled) = 0
  <2> PICK E : E = [id : ReqIds, res : Int]
    OBVIOUS
  <2>1. cqes \in [0 .. CqEntries - 1 -> E] /\ overflow = <<>> /\ overflow \in Seq(E)
    BY <1>3 DEF RingTypes, Init
  <2>2. QueueIs(Queue(0, 0, cqes, overflow), E, 0, 0, cqes, overflow)
    <3>1. 0 \in Nat
      OBVIOUS
    <3> QED
      BY <2>1, <3>1, QueueAt
  <2>3. Len(<<>>) = 0
    BY EmptySeq
  <2> QED
    BY <1>5, <2>1, <2>2, <2>3 DEF QueueIs
<1>7. Distinct(Unhandled) /\ Completions = {}
  BY <1>6 DEF Distinct, Completions, Elements
<1>8. /\ reqs = [id \in ReqIds |-> IF id = 0 THEN [Free EXCEPT !.type = "ACCEPT"] ELSE Free]
      /\ inflight = {0} /\ conns = [k \in ConnIds |-> NoBlock]
  BY DEF Init
<1>9. BlockTypes
  <2>1. <<>> \in Seq(Byte) /\ 0 \in 0 .. BufSize
    BY EmptySeq, Params
  <2> QED
    BY <1>2, <1>8, <2>1 DEF BlockTypes, Free, NoBlock
<1>10. /\ reqs[0].type = "ACCEPT" /\ reqs[0].conn = NoConn
       /\ \A id \in ReqIds : id # 0 => reqs[id].type = "FREE"
  BY <1>2, <1>8 DEF Free
<1>11. Outstanding = {0} /\ LiveConns = {}
  <2>1. \A k \in ConnIds : ~conns[k].live
    BY <1>8 DEF NoBlock
  <2> QED
    BY <1>2, <1>10, <2>1 DEF Outstanding, LiveConns
<1>12. Once
  BY <1>7, <1>8, <1>11 DEF Once
<1>13. Roles
  BY <1>10, <1>11 DEF Roles
<1>14. Results
  BY <1>2, <1>7, <1>10 DEF Results
<1>15. Owned
  BY <1>1, <1>7, <1>11 DEF Owned, Waiting
<1> QED
  BY <1>1, <1>3, <1>4, <1>9, <1>12, <1>13, <1>14, <1>15 DEF IInv

LEMMA NextInv == IInv /\ [Next]_vars => IInv'
<1> SUFFICES ASSUME IInv, [Next]_vars
             PROVE  IInv'
  OBVIOUS
<1>1. CASE Enter
  <2>1. Kept /\ UNCHANGED netVars /\ UNCHANGED <<reqs, inflight, conns>>
    BY <1>1, EnterStep DEF Enter, IInv, Once
  <2>2. UNCHANGED <<peer, backlog, fdtab, closed, sent, inq, echoed, rcvd>>
    BY <2>1 DEF netVars
  <2>3. NetTypeOK'
    BY <2>2 DEF IInv, NetTypeOK
  <2> QED
    BY <2>1, <2>2, <2>3, KeptInv
<1>2. CASE Publish
  <2>1. Kept /\ UNCHANGED netVars /\ UNCHANGED <<reqs, inflight, conns>>
    BY <1>2, PublishStep DEF Publish, IInv, Once
  <2>2. UNCHANGED <<peer, backlog, fdtab, closed, sent, inq, echoed, rcvd>>
    BY <2>1 DEF netVars
  <2>3. NetTypeOK'
    BY <2>2 DEF IInv, NetTypeOK
  <2> QED
    BY <2>1, <2>2, <2>3, KeptInv
<1>3. CASE HandleAcceptError
  BY <1>3, HandleAcceptErrorInv
<1>4. CASE HandleAccept
  BY <1>4, AcceptedInv
<1>5. CASE HandleAcceptNoMemory
  BY <1>5, HandleAcceptNoMemoryInv
<1>6. CASE HandleRecv
  BY <1>6, HandleRecvInv
<1>7. CASE HandleSend
  BY <1>7, HandleSendInv
<1>8. CASE KernelNext
  BY <1>8, AcceptInv, RecvInv, SendInv DEF KernelNext
<1>9. CASE PeerNext /\ UNCHANGED serverVars
  <2>1. UNCHANGED ringVars /\ UNCHANGED <<reqs, inflight, conns>>
    BY <1>9 DEF serverVars
  <2>2. NetTypeOK' /\ UNCHANGED fdtab
    BY <1>9, PeerStep DEF IInv
  <2>3. Kept
    BY <2>1, RingFrame DEF IInv, Once
  <2> QED
    BY <2>1, <2>2, <2>3, KeptInv
<1>10. CASE UNCHANGED vars
  <2>1. UNCHANGED netVars /\ UNCHANGED ringVars /\ UNCHANGED <<reqs, inflight, conns>>
    BY <1>10 DEF vars
  <2>2. UNCHANGED <<peer, backlog, fdtab, closed, sent, inq, echoed, rcvd>>
    BY <2>1 DEF netVars
  <2>3. NetTypeOK'
    BY <2>2 DEF IInv, NetTypeOK
  <2>4. Kept
    BY <2>1, RingFrame DEF IInv, Once
  <2> QED
    BY <2>1, <2>2, <2>3, <2>4, KeptInv
<1> QED
  BY <1>1, <1>2, <1>3, <1>4, <1>5, <1>6, <1>7, <1>8, <1>9, <1>10 DEF Next, ServerNext

LEMMA Invariance == Spec => []IInv
BY InitInv, NextInv, PTL DEF Spec

\* Every variable keeps its type: the indices stay below the number they wrap at,
\* and a completion holds a request of the server's.
THEOREM TypeCorrect == Spec => []TypeOK
<1>1. IInv => TypeOK
  BY DEF IInv, RingTypes, BlockTypes, TypeOK, Index
<1> QED
  BY <1>1, Invariance, PTL

\* Each request is with the kernel or in exactly one completion that the loop has
\* not handled, however the indices wrap and however full the ring gets: the head
\* that is published once per batch never lets the kernel overwrite one.
THEOREM RequestsOnce == Spec => []EachRequestOnce
<1>1. IInv => EachRequestOnce
  <2> SUFFICES ASSUME IInv
               PROVE  EachRequestOnce
    OBVIOUS
  <2> PICK u : u = Unhandled
    OBVIOUS
  <2>1. Distinct(u) /\ Completions = Elements(u)
    BY DEF IInv, Once, Completions
  <2>2. \A i, j \in 1 .. Len(u) : u[i].id = u[j].id => i = j
    BY <2>1 DEF Distinct
  <2> PICK S : S = {u[i].id : i \in 1 .. Len(u)}
    OBVIOUS
  <2>3. \A id : id \in S <=> \E e \in Completions : e.id = id
    BY <2>1 DEF Elements
  <2>4. inflight \cap S = {}
    BY <2>3 DEF IInv, Once
  <2>5. inflight \cup S = Outstanding
    <3>1. \A id \in inflight \cup S : id \in ReqIds
      <4>1. \A id \in inflight : id \in ReqIds
        BY DEF IInv, BlockTypes
      <4>2. \A e \in Completions : e.id \in ReqIds
        BY DEF IInv, Once
      <4> QED
        BY <2>3, <4>1, <4>2
    <3>2. \A id \in Outstanding : id \in ReqIds
      BY DEF Outstanding
    <3> QED
      BY <2>3, <3>1, <3>2 DEF IInv, Once
  <2> QED
    BY <2>2, <2>4, <2>5 DEF EachRequestOnce
<1> QED
  BY <1>1, Invariance, PTL

\* One ACCEPT is outstanding, and one RECV or SEND for each connection: none is
\* stranded, and none is freed or closed while the kernel may write to its buffer.
THEOREM OneRequest == Spec => []OneRequestPerConnection
<1>1. IInv => OneRequestPerConnection
  <2> SUFFICES ASSUME IInv
               PROVE  OneRequestPerConnection
    OBVIOUS
  <2>1. /\ Roles /\ 0 \in ReqIds /\ 0 \notin ConnIds
        /\ \A id \in Outstanding : id \in ReqIds
        /\ \A k \in LiveConns : k \in ConnIds
    BY Params DEF IInv, Outstanding, LiveConns
  <2>2. {id \in Outstanding : reqs[id].type = "ACCEPT"} = {0}
    BY <2>1 DEF Roles, Outstanding
  <2>3. Cardinality({id \in Outstanding : reqs[id].type = "ACCEPT"}) = 1
    BY <2>2, FS_Singleton
  <2>4. ASSUME NEW k \in LiveConns
        PROVE  Cardinality({id \in Outstanding : reqs[id].conn = k}) = 1
    <3>1. PICK i \in Outstanding \ {0} : reqs[i].conn = k
      BY <2>1 DEF Roles
    <3>2. reqs[0].conn # k
      BY <2>1 DEF Roles, NoConn
    <3>3. {id \in Outstanding : reqs[id].conn = k} = {i}
      BY <2>1, <3>1, <3>2 DEF Roles
    <3> QED
      BY <3>3, FS_Singleton
  <2>5. \A id \in Outstanding :
           reqs[id].type # "ACCEPT" => /\ reqs[id].conn \in LiveConns
                                       /\ reqs[id].fd = conns[reqs[id].conn].fd
    BY <2>1 DEF Roles
  <2> QED
    BY <2>3, <2>4, <2>5 DEF OneRequestPerConnection
<1> QED
  BY <1>1, Invariance, PTL

\* The descriptors that are open are those of the connections and the one the loop
\* has not heard of yet: none leaks, and no two connections share one.
THEOREM DescriptorsOwned == Spec => []FdOwnership
<1>1. IInv => FdOwnership
  <2> SUFFICES ASSUME IInv
               PROVE  FdOwnership
    OBVIOUS
  <2>1. Owned /\ Roles /\ \A e \in Completions : e.id \in ReqIds
    BY DEF IInv, Once
  <2>2. \A fd \in Fds : fd \in Accepted <=> Waiting(fd)
    <3>1. \A fd \in Fds : fd \in Accepted <=>
             \E e \in Completions : reqs[e.id].type = "ACCEPT" /\ e.res = fd
      BY DEF Accepted, Completions, Elements
    <3>2. \A e \in Completions : reqs[e.id].type = "ACCEPT" <=> e.id = 0
      BY <2>1 DEF Roles
    <3> QED
      BY <3>1, <3>2 DEF Waiting
  <2>3. \A fd \in OpenFds \cup Accepted : fd \in Fds
    BY DEF OpenFds, Accepted
  <2>4. OpenFds = {conns[k].fd : k \in LiveConns} \cup Accepted
    BY <2>1, <2>2, <2>3 DEF Owned
  <2> QED
    BY <2>1, <2>4 DEF FdOwnership, Owned
<1> QED
  BY <1>1, Invariance, PTL

----------------------------------------------------------------------------
(* Bytes, when no SEND is short. *)

\* The kernel takes every SEND whole: a buffer of one byte, or a socket buffer for
\* all that a peer sends.
NeverShort == BufSize = 1 \/ \A c \in Clients : Quota[c] <= SndCap

\* What was echoed, what a request carries and what is not received yet.
Whole(c, carried) == echoed[c] \o carried \o inq[c] = Stream(c)

Client(id)   == fdtab[reqs[id].fd]
Front(id, n) == SubSeq(conns[reqs[id].conn].buf, 1, n)

\* A request with the kernel carries nothing if it is a RECV, and what was received
\* last if it is a SEND.
Flies(id) ==
    /\ reqs[id].type = "RECV" => Whole(Client(id), <<>>)
    /\ reqs[id].type = "SEND" => /\ reqs[id].len > 0
                                 /\ Whole(Client(id), Front(id, reqs[id].len))

Drained(c) == inq[c] = <<>> /\ echoed[c] = Stream(c) /\ peer[c] \in {"fin", "reset"}

\* A completion says what its request has come to.
Came(id, res) ==
    /\ reqs[id].type = "RECV" /\ res > 0 => Whole(Client(id), Front(id, res))
    /\ reqs[id].type = "RECV" /\ ~(res > 0) => Drained(Client(id))
    /\ reqs[id].type = "SEND" /\ res > 0 => Whole(Client(id), <<>>)
    /\ reqs[id].type = "SEND" /\ ~(res > 0) => peer[Client(id)] = "reset"

\* Every byte a peer has sent is echoed, carried by the request of its connection or
\* not received yet; a connection the loop has not heard of is as it was accepted.
StreamInv ==
    /\ IInv /\ Placed
    /\ \A c \in Clients : sent[c] <= Quota[c]
    /\ \A fd \in Fds : Waiting(fd) => fdtab[fd] \in Untouched
    /\ \A id \in inflight : Flies(id)
    /\ \A e \in Completions : Came(e.id, e.res)

LEMMA StreamTypes ==
    ASSUME StreamInv
    PROVE  /\ IInv /\ NetTypeOK /\ Placed
           /\ \A c \in Clients : /\ echoed[c] \in Seq(Byte) /\ inq[c] \in Seq(Byte)
                                 /\ Len(echoed[c]) \in Nat /\ Len(inq[c]) \in Nat
                                 /\ sent[c] \in Nat /\ rcvd[c] \in Nat
           /\ \A k \in ConnIds : conns[k].buf \in Seq(Byte) /\ Len(conns[k].buf) \in Nat
           /\ inflight \subseteq ReqIds
           /\ \A e \in Completions : e.id \in ReqIds
           /\ \A id \in ReqIds : reqs[id].len \in Nat
<1>1. IInv /\ NetTypeOK /\ Placed
  BY DEF StreamInv, IInv
<1>2. \A c \in Clients : /\ echoed[c] \in Seq(Byte) /\ inq[c] \in Seq(Byte)
                         /\ sent[c] \in Nat /\ rcvd[c] \in Nat
  BY <1>1 DEF NetTypeOK
<1>3. \A k \in ConnIds : conns[k].buf \in Seq(Byte)
  BY <1>1 DEF IInv, BlockTypes
<1>4. inflight \subseteq ReqIds /\ \A e \in Completions : e.id \in ReqIds
  BY <1>1 DEF IInv, BlockTypes, Once
<1>5. \A id \in ReqIds : reqs[id].len \in Nat
  BY <1>1, Params DEF IInv, BlockTypes
<1> QED
  BY <1>1, <1>2, <1>3, <1>4, <1>5, LenProperties

\* Two requests are for two connections of two peers.
LEMMA Apart ==
    ASSUME IInv, Placed, NEW id \in ReqIds, NEW jd \in ReqIds, id # jd,
           reqs[id].type \in {"RECV", "SEND"}, reqs[jd].type \in {"RECV", "SEND"}
    PROVE  /\ reqs[id].conn # reqs[jd].conn
           /\ reqs[id].fd # reqs[jd].fd
           /\ Client(id) # Client(jd)
<1>1. /\ id \in Outstanding \ {0} /\ jd \in Outstanding \ {0}
      /\ reqs[id].conn \in LiveConns /\ reqs[jd].conn \in LiveConns
      /\ reqs[id].fd = conns[reqs[id].conn].fd /\ reqs[jd].fd = conns[reqs[jd].conn].fd
      /\ reqs[id].fd \in OpenFds /\ reqs[jd].fd \in OpenFds
  BY Owner
<1>2. reqs[id].conn # reqs[jd].conn
  BY <1>1 DEF IInv, Roles
<1>3. reqs[id].fd # reqs[jd].fd
  BY <1>1, <1>2 DEF IInv, Owned
<1> QED
  BY <1>1, <1>2, <1>3 DEF Placed, Client

\* No request is for a connection the loop has not heard of.
LEMMA Unheard ==
    ASSUME IInv, Placed, NEW id \in ReqIds, reqs[id].type \in {"RECV", "SEND"},
           NEW fd \in Fds, Waiting(fd)
    PROVE  fd \in OpenFds /\ fd # reqs[id].fd /\ fdtab[fd] # Client(id)
<1>1. /\ reqs[id].conn \in LiveConns /\ reqs[id].fd = conns[reqs[id].conn].fd
      /\ reqs[id].fd \in OpenFds
  BY Owner
<1>2. fd \in OpenFds /\ fd # reqs[id].fd
  BY <1>1 DEF IInv, Owned
<1> QED
  BY <1>1, <1>2 DEF Placed, Client

\* A step that leaves alone all that the bytes of a request depend on.
Undisturbed(id) ==
    /\ reqs'[id] = reqs[id]
    /\ conns'[reqs[id].conn].buf = conns[reqs[id].conn].buf
    /\ fdtab'[reqs[id].fd] = fdtab[reqs[id].fd]
    /\ echoed'[Client(id)] = echoed[Client(id)]
    /\ inq'[Client(id)] = inq[Client(id)]
    /\ sent'[Client(id)] = sent[Client(id)]
    /\ peer'[Client(id)] = peer[Client(id)]

LEMMA Carry ==
    ASSUME NEW id \in ReqIds, Undisturbed(id)
    PROVE  /\ Flies(id) => Flies(id)'
           /\ \A res : Came(id, res) => Came(id, res)'
<1> PICK c : c = Client(id)
  OBVIOUS
<1>1. /\ Client(id)' = c /\ Stream(c)' = Stream(c)
      /\ echoed'[c] = echoed[c] /\ inq'[c] = inq[c] /\ peer'[c] = peer[c]
      /\ reqs'[id] = reqs[id]
      /\ \A n : Front(id, n)' = Front(id, n)
  BY DEF Undisturbed, Client, Stream, Front
<1> QED
  BY <1>1 DEF Flies, Came, Whole, Drained

\* A step that concerns one request, and perhaps the ACCEPT.
LEMMA OneRequestStream ==
    ASSUME StreamInv, IInv', Placed', \A c \in Clients : sent'[c] <= Quota[c],
           \A fd \in Fds : Waiting(fd)' => fdtab'[fd] \in Untouched',
           NEW i \in ReqIds, inflight' \subseteq inflight \cup {0, i},
           \A e \in Completions' : e \in Completions \/ e.id \in {0, i},
           i \in inflight' => Flies(i)',
           \A e \in Completions' : e.id = i => Came(i, e.res)',
           \A id \in ReqIds \ {0, i} :
               reqs'[id].type \in {"RECV", "SEND"} => Undisturbed(id)
    PROVE  StreamInv'
<1>1. inflight' \subseteq ReqIds /\ reqs'[0].type = "ACCEPT"
  BY Params DEF IInv, BlockTypes, Roles
<1>2. \A e \in Completions' : e.id \in ReqIds
  BY DEF IInv, Once
<1>3. Flies(0)' /\ \A res : Came(0, res)'
  BY <1>1 DEF Flies, Came
<1>4. ASSUME NEW id \in ReqIds \ {0, i}
      PROVE  /\ Flies(id) => Flies(id)'
             /\ \A res : Came(id, res) => Came(id, res)'
  <2>1. CASE reqs'[id].type \in {"RECV", "SEND"}
    BY <2>1, Carry
  <2>2. CASE reqs'[id].type \notin {"RECV", "SEND"}
    BY <2>2 DEF Flies, Came
  <2> QED
    BY <2>1, <2>2
<1>5. ASSUME NEW id \in inflight'
      PROVE  Flies(id)'
  BY <1>1, <1>3, <1>4 DEF StreamInv
<1>6. ASSUME NEW e \in Completions'
      PROVE  Came(e.id, e.res)'
  <2>1. CASE e.id = i
    BY <2>1
  <2>2. CASE e.id = 0
    <3> PICK res : res = e.res
      OBVIOUS
    <3>1. Came(0, res)'
      BY <1>3
    <3> QED
      BY <2>2, <3>1
  <2>3. CASE e.id \notin {0, i}
    <3> PICK id \in ReqIds : id = e.id
      BY <1>2
    <3> PICK res : res = e.res
      OBVIOUS
    <3>1. Came(id, res)
      BY <2>3 DEF StreamInv
    <3>2. Came(id, res)'
      BY <1>4, <2>3, <3>1
    <3> QED
      BY <3>2
  <2> QED
    BY <2>1, <2>2, <2>3
<1>7. \A e \in Completions' : Came(e.id, e.res)'
  BY <1>6
<1> QED
  BY <1>5, <1>7 DEF StreamInv

LEMMA NetStays ==
    ASSUME StreamInv, UNCHANGED netVars
    PROVE  /\ Placed' /\ Untouched' = Untouched
           /\ UNCHANGED <<peer, backlog, fdtab, closed, sent, inq, echoed, rcvd>>
           /\ \A c \in Clients : sent'[c] <= Quota[c]
<1>1. UNCHANGED <<peer, backlog, fdtab, closed, sent, inq, echoed, rcvd>>
  BY DEF netVars
<1>2. Untouched' = Untouched
  BY <1>1 DEF Untouched, Stream
<1>3. Placed'
  BY <1>1, <1>2 DEF StreamInv, Placed, OpenFds
<1> QED
  BY <1>1, <1>2, <1>3 DEF StreamInv

\* A step that neither moves a byte nor concerns a connection.
LEMMA QuietStream ==
    ASSUME StreamInv, IInv', UNCHANGED netVars, conns' = conns,
           \A id \in ReqIds \ {0} : reqs'[id] = reqs[id],
           inflight' \subseteq inflight \cup {0}, Completions' \subseteq Completions
    PROVE  StreamInv'
<1>1. /\ Placed' /\ Untouched' = Untouched
      /\ UNCHANGED <<peer, backlog, fdtab, closed, sent, inq, echoed, rcvd>>
      /\ \A c \in Clients : sent'[c] <= Quota[c]
  BY NetStays
<1>2. \A fd \in Fds : Waiting(fd)' => fdtab'[fd] \in Untouched'
  <2>1. \A fd : Waiting(fd)' => Waiting(fd)
    BY DEF Waiting
  <2> QED
    BY <1>1, <2>1 DEF StreamInv
<1>3. \A id \in ReqIds \ {0} : Undisturbed(id)
  BY <1>1 DEF Undisturbed
<1>4. 0 \in ReqIds /\ reqs'[0].type = "ACCEPT"
  BY Params DEF IInv, Roles
<1>5. Flies(0)' /\ \A res : Came(0, res)'
  BY <1>4 DEF Flies, Came
<1>6. \A e \in Completions' : e.id = 0 => Came(0, e.res)'
  <2> TAKE e \in Completions'
  <2> PICK res : res = e.res
    OBVIOUS
  <2>1. Came(0, res)'
    BY <1>5
  <2> QED
    BY <2>1
<1>7. /\ inflight' \subseteq inflight \cup {0, 0}
      /\ \A e \in Completions' : e \in Completions \/ e.id \in {0, 0}
      /\ \A id \in ReqIds \ {0, 0} : reqs'[id].type \in {"RECV", "SEND"} => Undisturbed(id)
  BY <1>3
<1> QED
  BY <1>1, <1>2, <1>4, <1>5, <1>6, <1>7, OneRequestStream

\* What is accepted waits, untouched, for the loop to hear of it.
LEMMA AcceptStream ==
    ASSUME StreamInv, NEW id \in ReqIds, CompleteAccept(id)
    PROVE  StreamInv'
<1>1. IInv' /\ IInv /\ id = 0 /\ id \in inflight /\ conns' = conns
  BY AcceptInv, StreamTypes DEF CompleteAccept, IInv, Roles
<1> PICK res \in Int : /\ Post(id, res)
                       /\ \/ res \in Fds /\ SysAccept(res)
                          \/ res = -1 /\ UNCHANGED netVars
  <2>1. CASE FreeFds = {} /\ Post(id, -1) /\ UNCHANGED netVars
    <3>1. -1 \in Int
      OBVIOUS
    <3> QED
      BY <2>1, <3>1
  <2>2. ASSUME NEW fd \in Fds, SysAccept(fd), Post(id, fd)
        PROVE  \E res \in Int : /\ Post(id, res)
                                /\ \/ res \in Fds /\ SysAccept(res)
                                   \/ res = -1 /\ UNCHANGED netVars
    <3>1. fd \in Int
      BY Params
    <3> QED
      BY <2>2, <3>1
  <2> QED
    BY <2>1, <2>2 DEF CompleteAccept
<1> PICK e : e = [id |-> id, res |-> res]
  OBVIOUS
<1>2. /\ Posted(e) /\ e.id = 0 /\ e.res = res
      /\ inflight' = inflight \ {id} /\ reqs' = reqs
  BY <1>1, PostStep DEF IInv
<1>3. Completions' = Completions \cup {e} /\ \A x \in Completions : x.id # 0
  BY <1>1, <1>2 DEF Posted, IInv, Once
<1>4. \A fd : Waiting(fd)' => fd = res
  BY <1>2, <1>3 DEF Waiting
<1>5. 0 \in ReqIds /\ reqs[0].type = "ACCEPT"
  BY <1>1, Params DEF IInv, Roles
<1>6. Flies(0)' /\ \A r : Came(0, r)'
  BY <1>2, <1>5 DEF Flies, Came
<1>7. \A x \in Completions' : x.id = 0 => Came(0, x.res)'
  <2> TAKE x \in Completions'
  <2> PICK r : r = x.res
    OBVIOUS
  <2>1. Came(0, r)'
    BY <1>6
  <2> QED
    BY <2>1
<1>8. /\ inflight' \subseteq inflight \cup {0, 0}
      /\ \A x \in Completions' : x \in Completions \/ x.id \in {0, 0}
  BY <1>2, <1>3
<1>9. CASE res \in Fds /\ SysAccept(res)
  <2>1. /\ Placed' /\ fdtab'[res] \in Untouched'
        /\ \A gd \in OpenFds : fdtab'[gd] = fdtab[gd]
        /\ UNCHANGED <<peer, sent, inq, echoed>>
    BY <1>9, StreamTypes, AcceptPlaced DEF SysAccept
  <2>2. \A jd \in ReqIds \ {0, 0} : reqs'[jd].type \in {"RECV", "SEND"} => Undisturbed(jd)
    BY <1>1, <1>2, <2>1, Owner DEF Undisturbed
  <2>3. \A c \in Clients : sent'[c] <= Quota[c]
    BY <2>1 DEF StreamInv
  <2>4. \A fd \in Fds : Waiting(fd)' => fdtab'[fd] \in Untouched'
    BY <1>4, <2>1
  <2> QED
    BY <1>1, <1>5, <1>6, <1>7, <1>8, <2>1, <2>2, <2>3, <2>4, OneRequestStream
<1>10. CASE res = -1 /\ UNCHANGED netVars
  <2>1. /\ Placed' /\ UNCHANGED <<peer, backlog, fdtab, sent, inq, echoed>>
        /\ \A c \in Clients : sent'[c] <= Quota[c]
    BY <1>10, NetStays
  <2>2. \A jd \in ReqIds \ {0, 0} : reqs'[jd].type \in {"RECV", "SEND"} => Undisturbed(jd)
    BY <1>1, <1>2, <2>1 DEF Undisturbed
  <2>3. \A fd \in Fds : ~(Waiting(fd)')
    BY <1>4, <1>10, Params DEF NoFd
  <2> QED
    BY <1>1, <1>5, <1>6, <1>7, <1>8, <2>1, <2>2, <2>3, OneRequestStream
<1> QED
  BY <1>9, <1>10

\* The first RECV of a connection finds it as it was accepted.
LEMMA AcceptedStream ==
    ASSUME StreamInv, HandleAccept
    PROVE  StreamInv'
<1> PICK fd : fd = Cqe.res
  OBVIOUS
<1>1. PICK k \in FreeConns, i \in FreeReqs :
          /\ conns' = [conns EXCEPT ![k] =
                          [live |-> TRUE, fd |-> fd, buf |-> <<>>, length |-> 0]]
          /\ reqs' = [reqs EXCEPT ![Cqe.id] = ACCEPT, ![i] = RECV(k, fd)]
          /\ inflight' = inflight \cup {Cqe.id, i}
  BY DEF HandleAccept
<1>2. Iterate("ACCEPT") /\ fd >= 0 /\ UNCHANGED netVars /\ IInv /\ IInv'
  BY AcceptedInv, StreamTypes DEF HandleAccept
<1>3. /\ Cqe.id = 0 /\ 0 \in ReqIds /\ Taken(Cqe) /\ Cqe \in Completions
  BY <1>2, CqeFacts, Params DEF IInv, Roles
<1>4. /\ Completions' = Completions \ {Cqe}
      /\ \A x \in Completions' : x \in Completions /\ x.id # 0
  BY <1>3 DEF Taken
<1>5. fd \in Fds /\ Waiting(fd)
  BY <1>2, <1>3 DEF IInv, Owned, Waiting
<1>6. /\ k \in ConnIds /\ k \notin LiveConns /\ i \in ReqIds /\ i \notin Outstanding /\ i # 0
      /\ \A e \in Completions : e.id # i
  BY <1>2, <1>3 DEF FreeConns, LiveConns, FreeReqs, Outstanding, IInv, Roles, Once
<1>7. /\ reqs'[i] = RECV(k, fd)
      /\ \A id \in ReqIds \ {0, i} : reqs'[id] = reqs[id]
      /\ \A j \in ConnIds : j # k => conns'[j] = conns[j]
  BY <1>1, <1>2, <1>3, <1>6 DEF IInv, BlockTypes
<1>8. /\ Placed' /\ Untouched' = Untouched
      /\ UNCHANGED <<peer, backlog, fdtab, closed, sent, inq, echoed, rcvd>>
      /\ \A c \in Clients : sent'[c] <= Quota[c]
  BY <1>2, NetStays
<1>9. \A d \in Fds : ~(Waiting(d)')
  BY <1>4 DEF Waiting
<1>10. Flies(i)'
  <2>1. reqs'[i].type = "RECV" /\ Client(i)' = fdtab[fd]
    BY <1>7, <1>8 DEF RECV, Client
  <2> PICK c : c = fdtab[fd]
    OBVIOUS
  <2>2. c \in Clients /\ echoed[c] = <<>> /\ inq[c] = Stream(c) /\ inq[c] \in Seq(Byte)
    BY <1>5, StreamTypes DEF StreamInv, Untouched
  <2>3. <<>> \o <<>> \o inq[c] = inq[c]
    BY <2>2, ConcatEmptySeq, EmptySeq
  <2>4. Whole(c, <<>>)'
    BY <1>8, <2>2, <2>3 DEF Whole, Stream
  <2> QED
    BY <2>1, <2>4 DEF Flies
<1>11. \A id \in ReqIds \ {0, i} : reqs'[id].type \in {"RECV", "SEND"} => Undisturbed(id)
  <2>1. ASSUME NEW id \in ReqIds \ {0, i}, reqs'[id].type \in {"RECV", "SEND"}
        PROVE  conns'[reqs[id].conn] = conns[reqs[id].conn]
    BY <1>2, <1>6, <1>7, <2>1, Owner
  <2> QED
    BY <1>7, <1>8, <2>1 DEF Undisturbed
<1>12. /\ inflight' \subseteq inflight \cup {0, i}
       /\ \A e \in Completions' : e \in Completions \/ e.id \in {0, i}
       /\ \A e \in Completions' : e.id = i => Came(i, e.res)'
  BY <1>1, <1>3, <1>4, <1>6
<1> QED
  BY <1>2, <1>6, <1>8, <1>9, <1>10, <1>11, <1>12, OneRequestStream

\* A connection without memory is closed before the loop has heard of its bytes.
LEMMA NoMemoryStream ==
    ASSUME StreamInv, HandleAcceptNoMemory
    PROVE  StreamInv'
<1> PICK fd : fd = Cqe.res
  OBVIOUS
<1>1. /\ Iterate("ACCEPT") /\ fd >= 0 /\ Resubmit(ACCEPT) /\ conns' = conns
      /\ SysClose(fd) /\ IInv /\ IInv'
  BY HandleAcceptNoMemoryInv, StreamTypes DEF HandleAcceptNoMemory, SysClose
<1>2. Cqe.id = 0 /\ 0 \in ReqIds /\ Taken(Cqe) /\ Cqe \in Completions
  BY <1>1, CqeFacts, Params DEF IInv, Roles
<1>3. \A x \in Completions' : x \in Completions /\ x.id # 0
  BY <1>2 DEF Taken
<1>4. fd \in Fds /\ Waiting(fd) /\ fd \in OpenFds
  BY <1>1, <1>2 DEF IInv, Owned, Waiting
<1>5. /\ Placed' /\ \A gd \in OpenFds \ {fd} : fdtab'[gd] = fdtab[gd]
      /\ UNCHANGED <<peer, sent, inq, echoed>>
  BY <1>1, <1>4, StreamTypes, ClosePlaced DEF SysClose
<1>6. \A id \in ReqIds \ {0} : reqs'[id] = reqs[id]
  BY <1>1, <1>2 DEF Resubmit, IInv, BlockTypes
<1>7. \A id \in ReqIds \ {0, 0} : reqs'[id].type \in {"RECV", "SEND"} => Undisturbed(id)
  <2>1. ASSUME NEW id \in ReqIds \ {0}, reqs'[id].type \in {"RECV", "SEND"}
        PROVE  fdtab'[reqs[id].fd] = fdtab[reqs[id].fd]
    <3>1. reqs[id].type \in {"RECV", "SEND"}
      BY <1>6, <2>1
    <3>2. reqs[id].fd # fd /\ reqs[id].fd \in OpenFds
      BY <1>1, <1>4, <3>1, Owner, Unheard, StreamTypes
    <3> QED
      BY <1>5, <3>2
  <2> QED
    BY <1>1, <1>5, <1>6, <2>1 DEF Undisturbed
<1>8. \A d \in Fds : ~(Waiting(d)')
  BY <1>3 DEF Waiting
<1>9. /\ inflight' \subseteq inflight \cup {0, 0}
      /\ \A e \in Completions' : e \in Completions \/ e.id \in {0, 0}
      /\ \A e \in Completions' : e.id = 0 => Came(0, e.res)'
      /\ \A c \in Clients : sent'[c] <= Quota[c]
  BY <1>1, <1>2, <1>3, <1>5 DEF Resubmit, StreamInv
<1>10. Flies(0)'
  <2>1. reqs'[0].type = "ACCEPT"
    BY <1>1, <1>2 DEF IInv, Roles
  <2> QED
    BY <2>1 DEF Flies
<1> QED
  BY <1>1, <1>2, <1>5, <1>7, <1>8, <1>9, <1>10, OneRequestStream

\* What a RECV has put into the buffer is what was first in the input.
FrontIs(b, q, n) == SubSeq(Filled(b, q, n), 1, n) = SubSeq(q, 1, n)

LEMMA FilledFront ==
    ASSUME NEW b \in Seq(Byte), NEW q \in Seq(Byte), NEW n \in 1 .. Len(q)
    PROVE  FrontIs(b, q, n)
<1>1. Len(q) \in Nat /\ n \in Nat /\ n \in 0 .. Len(q)
  BY LenProperties
<1>2. PICK x, y : x = SubSeq(q, 1, n) /\ y = SubSeq(b, n + 1, Len(b))
  OBVIOUS
<1>3. x \in Seq(Byte) /\ Len(x) = n
  BY <1>1, <1>2, SplitType
<1>4. y \in Seq(Byte)
  BY <1>1, <1>2, UnsentType
<1>5. SubSeq(x \o y, 1, n) = SubSeq(x, 1, n)
  <2>1. 1 \in 1 .. Len(x) /\ n \in 1 .. Len(x)
    BY <1>3
  <2> QED
    BY <1>3, <1>4, <2>1, SubSeqOfConcat1
<1>6. SubSeq(x, 1, n) = x
  BY <1>3, SubSeqFull
<1> QED
  BY <1>2, <1>5, <1>6 DEF Filled, FrontIs

\* A completion of a connection's request is posted.
Answered(id, res) ==
    /\ reqs' = reqs /\ inflight' = inflight \ {id}
    /\ \A e \in Completions' : e \in Completions \/ (e.id = id /\ e.res = res)
    /\ \A e \in Completions' : e.id = id => e.res = res
    /\ \A fd : Waiting(fd)' => Waiting(fd)

LEMMA PostAnswer ==
    ASSUME IInv, NEW id \in ReqIds \ {0}, id \in inflight, NEW res \in Int, Post(id, res)
    PROVE  Answered(id, res)
<1> PICK e : e = [id |-> id, res |-> res]
  OBVIOUS
<1>1. /\ Posted(e) /\ e.id = id /\ e.res = res
      /\ inflight' = inflight \ {id} /\ reqs' = reqs
  BY PostStep DEF IInv
<1>2. Completions' = Completions \cup {e} /\ \A x \in Completions : x.id # id
  BY <1>1 DEF Posted, IInv, Once
<1>3. \A fd : Waiting(fd)' => Waiting(fd)
  BY <1>1, <1>2 DEF Waiting
<1> QED
  BY <1>1, <1>2, <1>3 DEF Answered

\* The completion of a RECV changes the bytes of its own connection only.
LEMMA RecvStream ==
    ASSUME StreamInv, NEW id \in ReqIds, CompleteRecv(id)
    PROVE  StreamInv'
<1> PICK k, c : k = reqs[id].conn /\ c = fdtab[reqs[id].fd]
  OBVIOUS
<1>1. id \in inflight /\ reqs[id].type = "RECV" /\ IInv /\ IInv'
  BY RecvInv, StreamTypes DEF CompleteRecv
<1>2. /\ k \in ConnIds /\ c \in Clients /\ c = Client(id) /\ id # 0
      /\ reqs[id].fd \in OpenFds
  BY <1>1, Owner DEF Client
<1> PICK q \in Seq(Byte) : q = inq[c]
  BY <1>2, StreamTypes
<1> PICK b \in Seq(Byte) : b = conns[k].buf
  BY <1>2, StreamTypes
<1> PICK d \in Seq(Byte) : d = echoed[c]
  BY <1>2, StreamTypes
<1> PICK n : n = Smaller(BufSize, Len(q))
  OBVIOUS
<1>3. Len(q) \in Nat /\ n \in 0 .. Len(q) /\ n \in Int
  BY LenProperties, Params DEF Smaller
<1>4. d \o q = Stream(c)
  <2>1. d \o <<>> = d
    BY ConcatEmptySeq
  <2>2. Flies(id)
    BY <1>1 DEF StreamInv
  <2> QED
    BY <1>1, <1>2, <2>1, <2>2 DEF Flies, Whole
<1>5. ASSUME NEW res \in Int, Post(id, res)
      PROVE  Answered(id, res)
  BY <1>1, <1>2, <1>5, PostAnswer
<1>6. CASE q # <<>> /\ SysRead(c, n) /\ Post(id, n)
           /\ conns' = [conns EXCEPT ![k].buf = SubSeq(q, 1, n) \o SubSeq(@, n + 1, Len(@))]
  <2>1. n \in 1 .. Len(q) /\ n > 0
    <3>1. Len(q) # 0
      BY <1>6, EmptySeq
    <3> QED
      BY <1>3, <3>1, Params DEF Smaller
  <2>2. /\ inq'[c] = SubSeq(q, n + 1, Len(q))
        /\ \A a \in Clients \ {c} : inq'[a] = inq[a]
        /\ UNCHANGED <<peer, backlog, fdtab, closed, sent, echoed>>
    BY <1>2, <1>6, StreamTypes DEF SysRead, NetTypeOK
  <2>3. /\ conns'[k].buf = Filled(b, q, n)
        /\ \A j \in ConnIds \ {k} : conns'[j] = conns[j]
    <3>1. conns \in [ConnIds -> [live : BOOLEAN, fd : Fds \cup {NoFd},
                                 buf : Seq(Byte), length : 0 .. BufSize]]
      BY <1>1 DEF IInv, BlockTypes
    <3> PICK y : y = [conns[k] EXCEPT !.buf = Filled(b, q, n)]
      OBVIOUS
    <3>2. y.buf = Filled(b, q, n)
      BY <1>2, <3>1
    <3>3. conns' = [conns EXCEPT ![k] = y]
      BY <1>6 DEF Filled
    <3> QED
      BY <1>2, <3>1, <3>2, <3>3
  <2>4. PICK x \in Seq(Byte) : x = SubSeq(q, 1, n)
    BY <1>3, SplitType
  <2>5. Client(id)' = c /\ Stream(c)' = Stream(c) /\ Front(id, n)' = x
    <3>1. FrontIs(b, q, n)
      BY <2>1, FilledFront, Zenon
    <3> QED
      BY <1>2, <1>3, <1>5, <1>6, <2>2, <2>3, <2>4, <3>1 DEF Client, Stream, Front, FrontIs, Answered
  <2>6. Whole(c, x)'
    <3>1. FrontMoves(d, q, n)
      BY <1>3, FrontBytes
    <3> QED
      BY <1>4, <2>2, <2>4, <2>5, <3>1 DEF Whole, FrontMoves
  <2>7. Came(id, n)'
    BY <1>1, <1>3, <1>5, <1>6, <2>1, <2>5, <2>6 DEF Came, Answered
  <2>8. Placed'
    BY <1>2, <2>2, StreamTypes, DataPlaced DEF Client
  <2>9. \A fd \in Fds : Waiting(fd)' => fdtab'[fd] \in Untouched'
    <3> TAKE fd \in Fds
    <3> HAVE Waiting(fd)'
    <3>1. Waiting(fd)
      BY <1>3, <1>5, <1>6 DEF Answered
    <3>2. fdtab[fd] \in Untouched /\ fdtab[fd] # c
      BY <1>1, <1>2, <3>1, Unheard, StreamTypes DEF StreamInv
    <3> QED
      BY <2>2, <3>2 DEF Untouched, Stream
  <2>10. \A jd \in ReqIds \ {0, id} : reqs'[jd].type \in {"RECV", "SEND"} => Undisturbed(jd)
    <3> TAKE jd \in ReqIds \ {0, id}
    <3> HAVE reqs'[jd].type \in {"RECV", "SEND"}
    <3>1. reqs' = reqs /\ reqs[jd].type \in {"RECV", "SEND"}
      BY <1>3, <1>5, <1>6 DEF Answered
    <3>2. /\ reqs[jd].conn # k /\ reqs[jd].conn \in ConnIds
          /\ Client(jd) # c /\ Client(jd) \in Clients
      BY <1>1, <1>2, <3>1, Apart, Owner, StreamTypes DEF Client
    <3> QED
      BY <2>2, <2>3, <3>1, <3>2 DEF Undisturbed
  <2>11. \A a \in Clients : sent'[a] <= Quota[a]
    BY <2>2 DEF StreamInv
  <2> QED
    BY <1>1, <1>3, <1>5, <1>6, <2>7, <2>8, <2>9, <2>10, <2>11, OneRequestStream DEF Answered
<1>7. CASE /\ AtEnd(c) /\ UNCHANGED <<netVars, conns>>
           /\ Post(id, IF peer[c] = "reset" THEN -1 ELSE 0)
  <2> PICK res \in Int : Post(id, res) /\ ~(res > 0)
    <3>1. -1 \in Int /\ 0 \in Int /\ ~(-1 > 0) /\ ~(0 > 0)
      OBVIOUS
    <3> QED
      BY <1>7, <3>1
  <2>1. /\ Placed' /\ Untouched' = Untouched
        /\ UNCHANGED <<peer, backlog, fdtab, closed, sent, inq, echoed, rcvd>>
        /\ \A a \in Clients : sent'[a] <= Quota[a]
    BY <1>7, NetStays
  <2>2. Drained(c)'
    <3>1. d \o <<>> = d
      BY ConcatEmptySeq
    <3>2. q = <<>> /\ peer[c] \in {"fin", "reset"}
      BY <1>7 DEF AtEnd
    <3>3. inq'[c] = <<>> /\ echoed'[c] = Stream(c) /\ Stream(c)' = Stream(c)
      BY <1>4, <2>1, <3>1, <3>2 DEF Stream
    <3> QED
      BY <2>1, <3>2, <3>3 DEF Drained
  <2>3. Came(id, res)'
    BY <1>1, <1>2, <1>5, <2>1, <2>2 DEF Came, Client, Answered
  <2>4. \A fd \in Fds : Waiting(fd)' => fdtab'[fd] \in Untouched'
    BY <1>5, <2>1 DEF StreamInv, Answered
  <2>5. \A jd \in ReqIds \ {0, id} : reqs'[jd].type \in {"RECV", "SEND"} => Undisturbed(jd)
    BY <1>5, <1>7, <2>1 DEF Undisturbed, Answered
  <2> QED
    BY <1>1, <1>5, <2>1, <2>3, <2>4, <2>5, OneRequestStream DEF Answered
<1> QED
  BY <1>6, <1>7 DEF CompleteRecv, HasInput

LengthsAdd(x, y, z) ==
    /\ Len(x \o y \o z) = Len(x) + Len(y) + Len(z)
    /\ Len(x) \in Nat /\ Len(y) \in Nat /\ Len(z) \in Nat

LEMMA Lengths == \A x, y, z \in Seq(Byte) : LengthsAdd(x, y, z)
<1> TAKE x, y, z \in Seq(Byte)
<1>1. x \o y \in Seq(Byte) /\ Len(x \o y) = Len(x) + Len(y)
  BY ConcatProperties
<1>2. Len((x \o y) \o z) = Len(x \o y) + Len(z)
  BY <1>1, ConcatProperties
<1> QED
  BY <1>1, <1>2, LenProperties DEF LengthsAdd

\* With the condition on the constants a SEND finds room for all it carries.
LEMMA SendWhole ==
    ASSUME StreamInv, NeverShort, NEW id \in ReqIds, reqs[id].type = "SEND",
           Flies(id), CanWrite(Client(id))
    PROVE  Smaller(Room(Client(id)), reqs[id].len) = reqs[id].len
<1> PICK k, c : k = reqs[id].conn /\ c = Client(id)
  OBVIOUS
<1>1. k \in ConnIds /\ c \in Clients
  BY Owner, StreamTypes DEF Client
<1> PICK q \in Seq(Byte) : q = inq[c]
  BY <1>1, StreamTypes
<1> PICK b \in Seq(Byte) : b = conns[k].buf
  BY <1>1, StreamTypes
<1> PICK d \in Seq(Byte) : d = echoed[c]
  BY <1>1, StreamTypes
<1> PICK len \in Nat : len = reqs[id].len
  BY StreamTypes
<1>2. len <= BufSize /\ len > 0 /\ len <= Len(b) /\ Len(b) \in Nat
  BY LenProperties, Params, StreamTypes DEF Flies, IInv, Results, BlockTypes
<1>3. len \in 0 .. Len(b)
  BY <1>2
<1>4. PICK f : f = SubSeq(b, 1, len)
  OBVIOUS
<1>5. f \in Seq(Byte) /\ Len(f) = len
  BY <1>3, <1>4, SplitType
<1>6. d \o f \o q = Stream(c)
  BY <1>4 DEF Flies, Whole, Front
<1>7. PICK l, m \in Nat : l = Len(d) /\ m = Len(q) /\ l + len + m = sent[c]
  <2>1. /\ Len(d \o f \o q) = Len(d) + Len(f) + Len(q)
        /\ Len(d) \in Nat /\ Len(q) \in Nat
    <3>1. LengthsAdd(d, f, q)
      BY <1>5, Lengths
    <3> QED
      BY <3>1 DEF LengthsAdd
  <2>2. Len(Stream(c)) = sent[c]
    BY <1>1, StreamTypes, StreamType
  <2> QED
    BY <1>5, <1>6, <2>1, <2>2
<1>8. PICK s, r, t \in Nat : s = sent[c] /\ r = rcvd[c] /\ t = Quota[c] /\ s <= t
  BY <1>1, StreamTypes, SocketsAssumption DEF StreamInv
<1>9. PICK room \in Int : room = Room(c) /\ room = SndCap - (l - r) /\ room > 0
  <2>1. SndCap - (l - r) \in Int
    BY <1>7, <1>8, SocketsAssumption
  <2> QED
    BY <1>7, <1>8, <2>1 DEF Room, CanWrite
<1>10. len <= room
  <2>1. CASE BufSize = 1
    <3>1. len = 1
      BY <1>2, <2>1
    <3>2. 1 <= room
      BY <1>9
    <3> QED
      BY <3>1, <3>2
  <2>2. CASE \A a \in Clients : Quota[a] <= SndCap
    <3>1. PICK u \in Nat : u = SndCap /\ t <= u
      BY <1>1, <1>8, <2>2, SocketsAssumption
    <3>2. l + len + m = s /\ s <= t /\ room = u - (l - r)
      BY <1>7, <1>8, <1>9, <3>1
    <3> QED
      BY <3>1, <3>2
  <2> QED
    BY <2>1, <2>2 DEF NeverShort
<1>11. Smaller(room, len) = len
  BY <1>10 DEF Smaller
<1> QED
  BY <1>9, <1>11

\* The completion of a SEND echoes all that its request carries, or finds that the
\* peer has reset the connection.
LEMMA SendStream ==
    ASSUME StreamInv, NeverShort, NEW id \in ReqIds, CompleteSend(id)
    PROVE  /\ StreamInv'
           /\ Unclosed => Refines /\ Unclosed'
<1> PICK k, c : k = reqs[id].conn /\ c = fdtab[reqs[id].fd]
  OBVIOUS
<1>1. id \in inflight /\ reqs[id].type = "SEND" /\ conns' = conns /\ IInv /\ IInv'
  BY SendInv, StreamTypes DEF CompleteSend
<1>2. /\ k \in ConnIds /\ c \in Clients /\ c = Client(id) /\ id \in ReqIds \ {0}
      /\ reqs[id].fd \in OpenFds
  BY <1>1, Owner DEF Client
<1>3. PICK len \in Nat : len = reqs[id].len
  BY StreamTypes
<1> PICK q \in Seq(Byte) : q = inq[c]
  BY <1>2, StreamTypes
<1> PICK b \in Seq(Byte) : b = conns[k].buf
  BY <1>2, StreamTypes
<1> PICK d \in Seq(Byte) : d = echoed[c]
  BY <1>2, StreamTypes
<1>4. Flies(id) /\ len > 0 /\ len \in 0 .. Len(b)
  <2>1. Flies(id)
    BY <1>1 DEF StreamInv
  <2>2. len > 0 /\ len <= Len(b)
    BY <1>1, <1>3, <2>1 DEF Flies, IInv, Results
  <2> QED
    BY <1>3, <2>1, <2>2, LenProperties
<1>5. PICK f : f = SubSeq(b, 1, len)
  OBVIOUS
<1>6. f \in Seq(Byte) /\ Len(f) = len
  BY <1>4, <1>5, SplitType
<1>7. d \o f \o q = Stream(c)
  BY <1>1, <1>2, <1>3, <1>4, <1>5 DEF Flies, Whole, Front
<1>8. CASE CanWrite(c) /\ SysWrite(c, f) /\ Post(id, len)
  <2>1. Answered(id, len)
    BY <1>1, <1>2, <1>3, <1>8, PostAnswer
  <2>2. /\ echoed'[c] = d \o f
        /\ \A a \in Clients \ {c} : echoed'[a] = echoed[a]
        /\ UNCHANGED <<peer, backlog, fdtab, closed, sent, inq>>
    BY <1>2, <1>8, StreamTypes DEF SysWrite, NetTypeOK
  <2>3. Client(id)' = c /\ Stream(c)' = Stream(c)
    BY <1>2, <2>1, <2>2 DEF Client, Stream, Answered
  <2>4. Whole(c, <<>>)'
    <3>1. d \o f \in Seq(Byte)
      BY <1>6, Concat
    <3> PICK x \in Seq(Byte) : x = d \o f
      BY <3>1
    <3>2. x \o <<>> = x
      BY ConcatEmptySeq
    <3> QED
      BY <1>7, <2>2, <2>3, <3>2 DEF Whole
  <2>5. Came(id, len)'
    BY <1>1, <1>4, <2>1, <2>3, <2>4 DEF Came, Answered
  <2>6. Placed'
    BY <1>2, <2>2, StreamTypes, DataPlaced DEF Client
  <2>7. \A fd \in Fds : Waiting(fd)' => fdtab'[fd] \in Untouched'
    <3> TAKE fd \in Fds
    <3> HAVE Waiting(fd)'
    <3>1. Waiting(fd)
      BY <2>1 DEF Answered
    <3>2. fdtab[fd] \in Untouched /\ fdtab[fd] # c
      BY <1>1, <1>2, <3>1, Unheard, StreamTypes DEF StreamInv
    <3> QED
      BY <2>2, <3>2 DEF Untouched, Stream
  <2>8. \A jd \in ReqIds \ {0, id} : reqs'[jd].type \in {"RECV", "SEND"} => Undisturbed(jd)
    <3> TAKE jd \in ReqIds \ {0, id}
    <3> HAVE reqs'[jd].type \in {"RECV", "SEND"}
    <3>1. reqs' = reqs /\ reqs[jd].type \in {"RECV", "SEND"}
      BY <2>1 DEF Answered
    <3>2. Client(jd) # c /\ Client(jd) \in Clients
      BY <1>1, <1>2, <3>1, Apart, Owner, StreamTypes DEF Client
    <3> QED
      BY <1>1, <2>2, <3>1, <3>2 DEF Undisturbed
  <2>9. \A a \in Clients : sent'[a] <= Quota[a]
    BY <2>2 DEF StreamInv
  <2>10. StreamInv'
    BY <1>1, <1>2, <2>1, <2>5, <2>6, <2>7, <2>8, <2>9, OneRequestStream DEF Answered
  <2>11. ASSUME Unclosed
         PROVE  Refines /\ Unclosed'
    <3>1. f # <<>>
      BY <1>4, <1>6, EmptySeq
    <3>2. echoed'[c] \o q = Stream(c)
      BY <1>7, <2>2
    <3>3. NetTypeOK /\ NetTypeOK' /\ Placed
      BY <1>1, StreamTypes DEF IInv
    <3> QED
      BY <1>2, <1>6, <1>8, <2>11, <3>1, <3>2, <3>3, WriteAbstract
  <2> QED
    BY <2>10, <2>11
<1>9. CASE peer[c] = "reset" /\ Post(id, -1) /\ UNCHANGED netVars
  <2>1. Answered(id, -1) /\ ~(-1 > 0)
    <3>1. -1 \in Int /\ ~(-1 > 0)
      OBVIOUS
    <3> QED
      BY <1>1, <1>2, <1>9, <3>1, PostAnswer
  <2>2. /\ Placed' /\ Untouched' = Untouched
        /\ UNCHANGED <<peer, backlog, fdtab, closed, sent, inq, echoed, rcvd>>
        /\ \A a \in Clients : sent'[a] <= Quota[a]
    BY <1>9, NetStays
  <2>3. Came(id, -1)'
    BY <1>1, <1>2, <1>9, <2>1, <2>2 DEF Came, Client, Answered
  <2>4. \A fd \in Fds : Waiting(fd)' => fdtab'[fd] \in Untouched'
    BY <2>1, <2>2 DEF StreamInv, Answered
  <2>5. \A jd \in ReqIds \ {0, id} : reqs'[jd].type \in {"RECV", "SEND"} => Undisturbed(jd)
    BY <1>1, <2>1, <2>2 DEF Undisturbed, Answered
  <2>6. StreamInv'
    BY <1>1, <2>1, <2>2, <2>3, <2>4, <2>5, OneRequestStream DEF Answered
  <2>7. Unclosed => Refines /\ Unclosed'
    BY <2>2, AbstractStutter DEF Unclosed, OpenFds
  <2> QED
    BY <2>6, <2>7
<1>10. CanWrite(c) => Smaller(Room(c), reqs[id].len) = len
  BY <1>1, <1>2, <1>3, <1>4, SendWhole
<1> QED
  BY <1>3, <1>5, <1>8, <1>9, <1>10 DEF CompleteSend

\* The next request of a connection carries what the last one has come to.
LEMMA ResubmitStream ==
    ASSUME StreamInv, IInv', Taken(Cqe), NEW i \in ReqIds \ {0}, i = Cqe.id,
           UNCHANGED netVars, inflight' = inflight \cup {i},
           \A id \in ReqIds \ {i} : reqs'[id] = reqs[id],
           \A j \in ConnIds : conns'[j].buf = conns[j].buf,
           Flies(i)'
    PROVE  StreamInv'
<1>1. \A x \in Completions' : x \in Completions /\ x.id # i
  BY DEF Taken
<1>2. /\ Placed' /\ Untouched' = Untouched
      /\ UNCHANGED <<peer, backlog, fdtab, closed, sent, inq, echoed, rcvd>>
      /\ \A c \in Clients : sent'[c] <= Quota[c]
  BY NetStays
<1>3. \A fd \in Fds : Waiting(fd)' => fdtab'[fd] \in Untouched'
  <2>1. \A fd : Waiting(fd)' => Waiting(fd)
    BY <1>1 DEF Waiting
  <2> QED
    BY <1>2, <2>1 DEF StreamInv
<1>4. \A id \in ReqIds \ {0, i} : reqs'[id].type \in {"RECV", "SEND"} => Undisturbed(id)
  <2> TAKE id \in ReqIds \ {0, i}
  <2> HAVE reqs'[id].type \in {"RECV", "SEND"}
  <2>1. reqs'[id] = reqs[id]
    OBVIOUS
  <2>2. reqs[id].conn \in ConnIds
    BY <2>1, Owner, StreamTypes
  <2> QED
    BY <1>2, <2>1, <2>2 DEF Undisturbed
<1> QED
  BY <1>1, <1>2, <1>3, <1>4, OneRequestStream

\* The bytes received are carried by the SEND.
LEMMA HandleRecvStream ==
    ASSUME StreamInv, HandleRecv, ~Over(Cqe.res)
    PROVE  StreamInv'
<1> PICK k, i, res : k = Current.conn /\ i = Cqe.id /\ res = Cqe.res
  OBVIOUS
<1>1. Iterate("RECV") /\ k = reqs[i].conn /\ IInv /\ IInv'
  BY HandleRecvInv, StreamTypes DEF HandleRecv, Current
<1>2. /\ Taken(Cqe) /\ reqs[i].type = "RECV" /\ Cqe \in Completions /\ i \in ReqIds
      /\ res \in Int
  BY <1>1, CqeFacts
<1>3. i \in ReqIds \ {0} /\ k \in ConnIds /\ reqs[i].fd = conns[k].fd
  BY <1>1, <1>2, Owner
<1>4. /\ conns' = [conns EXCEPT ![k].length = res] /\ UNCHANGED netVars
      /\ reqs' = [reqs EXCEPT ![i] = SEND(k, res)] /\ inflight' = inflight \cup {i}
  BY DEF HandleRecv, Resubmit
<1>5. \A j \in ConnIds : conns'[j].buf = conns[j].buf
  BY <1>1, <1>3, <1>4 DEF IInv, BlockTypes
<1>6. reqs'[i] = SEND(k, res) /\ \A id \in ReqIds \ {i} : reqs'[id] = reqs[id]
  BY <1>1, <1>2, <1>4 DEF IInv, BlockTypes
<1>7. /\ SEND(k, res).type = "SEND" /\ SEND(k, res).len = res
      /\ SEND(k, res).conn = k /\ SEND(k, res).fd = reqs[i].fd
  BY <1>3 DEF SEND
<1>8. res > 0 /\ Whole(Client(i), Front(i, res))
  <2>1. res > 0
    BY <1>2 DEF Over
  <2>2. Came(i, res)
    BY <1>2 DEF StreamInv
  <2> QED
    BY <1>2, <2>1, <2>2 DEF Came
<1> PICK c : c = Client(i)
  OBVIOUS
<1>9. Client(i)' = c /\ Front(i, res)' = Front(i, res) /\ Stream(c)' = Stream(c)
      /\ echoed'[c] = echoed[c] /\ inq'[c] = inq[c]
  <2>1. UNCHANGED <<peer, backlog, fdtab, closed, sent, inq, echoed, rcvd>>
    BY <1>4 DEF netVars
  <2> QED
    BY <1>1, <1>3, <1>5, <1>6, <1>7, <2>1 DEF Client, Front, Stream
<1>10. Flies(i)'
  BY <1>6, <1>7, <1>8, <1>9 DEF Flies, Whole
<1> QED
  BY <1>1, <1>2, <1>3, <1>4, <1>5, <1>6, <1>10, ResubmitStream

\* After a SEND there is nothing to carry.
LEMMA HandleSendStream ==
    ASSUME StreamInv, HandleSend, ~Over(Cqe.res)
    PROVE  StreamInv'
<1> PICK k, i, res : k = Current.conn /\ i = Cqe.id /\ res = Cqe.res
  OBVIOUS
<1>1. Iterate("SEND") /\ k = reqs[i].conn /\ IInv /\ IInv'
  BY HandleSendInv, StreamTypes DEF HandleSend, Current
<1>2. /\ Taken(Cqe) /\ reqs[i].type = "SEND" /\ Cqe \in Completions /\ i \in ReqIds
      /\ res \in Int
  BY <1>1, CqeFacts
<1>3. i \in ReqIds \ {0} /\ k \in ConnIds /\ reqs[i].fd = conns[k].fd
  BY <1>1, <1>2, Owner
<1>4. /\ UNCHANGED <<netVars, conns>>
      /\ reqs' = [reqs EXCEPT ![i] = RECV(k, reqs[i].fd)] /\ inflight' = inflight \cup {i}
  BY <1>3 DEF HandleSend, Resubmit, AfterSend
<1>5. /\ reqs'[i] = RECV(k, reqs[i].fd)
      /\ \A id \in ReqIds \ {i} : reqs'[id] = reqs[id]
  BY <1>1, <1>2, <1>4 DEF IInv, BlockTypes
<1>6. RECV(k, reqs[i].fd).type = "RECV" /\ RECV(k, reqs[i].fd).fd = reqs[i].fd
  BY DEF RECV
<1>7. Whole(Client(i), <<>>)
  <2>1. res > 0
    BY <1>2 DEF Over
  <2>2. Came(i, res)
    BY <1>2 DEF StreamInv
  <2> QED
    BY <1>2, <2>1, <2>2 DEF Came
<1> PICK c : c = Client(i)
  OBVIOUS
<1>8. Client(i)' = c /\ Stream(c)' = Stream(c)
      /\ echoed'[c] = echoed[c] /\ inq'[c] = inq[c]
  <2>1. UNCHANGED <<peer, backlog, fdtab, closed, sent, inq, echoed, rcvd>>
    BY <1>4 DEF netVars
  <2> QED
    BY <1>5, <1>6, <2>1 DEF Client, Stream
<1>9. Flies(i)'
  BY <1>5, <1>6, <1>7, <1>8 DEF Flies, Whole
<1> QED
  BY <1>1, <1>2, <1>3, <1>4, <1>5, <1>9, ResubmitStream

\* A connection that ends takes its own bytes with it and no others.
LEMMA CloseStream ==
    ASSUME StreamInv, Taken(Cqe), NEW k, k = reqs[Cqe.id].conn,
           reqs[Cqe.id].type \in {"RECV", "SEND"}, CloseAndFree(k)
    PROVE  StreamInv'
<1> PICK i : i = Cqe.id
  OBVIOUS
<1>1. IInv /\ IInv'
  BY CloseInv, StreamTypes
<1>2. /\ \A x \in Completions' : x \in Completions /\ x.id # i
      /\ i \in ReqIds
  BY <1>1 DEF Taken, IInv, Once
<1>3. i # 0 /\ k \in ConnIds /\ reqs[i].fd = conns[k].fd /\ conns[k].fd \in OpenFds
  BY <1>1, <1>2, Owner
<1>4. /\ reqs'[i] = Free /\ inflight' = inflight
      /\ \A id \in ReqIds : id # i => reqs'[id] = reqs[id]
      /\ \A j \in ConnIds : j # k => conns'[j] = conns[j]
  BY <1>1, <1>2, <1>3 DEF CloseAndFree, IInv, BlockTypes
<1>5. PICK fd \in OpenFds : fd = conns[k].fd
  BY <1>3
<1>6. /\ Placed' /\ \A gd \in OpenFds \ {fd} : fdtab'[gd] = fdtab[gd]
      /\ UNCHANGED <<peer, sent, inq, echoed>>
  <2>1. SysClose(fd)
    BY <1>5 DEF CloseAndFree, SysClose
  <2> QED
    BY <2>1, StreamTypes, ClosePlaced DEF SysClose
<1>7. \A id \in ReqIds \ {0, i} : reqs'[id].type \in {"RECV", "SEND"} => Undisturbed(id)
  <2> TAKE id \in ReqIds \ {0, i}
  <2> HAVE reqs'[id].type \in {"RECV", "SEND"}
  <2>1. reqs'[id] = reqs[id]
    BY <1>4
  <2>2. /\ reqs[id].conn # k /\ reqs[id].conn \in ConnIds
        /\ reqs[id].fd # fd /\ reqs[id].fd \in OpenFds
    BY <1>1, <1>2, <1>3, <1>5, <2>1, Apart, Owner, StreamTypes
  <2> QED
    BY <1>4, <1>6, <2>1, <2>2 DEF Undisturbed
<1>8. \A d \in Fds : Waiting(d)' => fdtab'[d] \in Untouched'
  <2> TAKE d \in Fds
  <2> HAVE Waiting(d)'
  <2>1. Waiting(d)
    BY <1>2 DEF Waiting
  <2>2. d # fd /\ d \in OpenFds /\ fdtab[d] \in Untouched
    BY <1>1, <1>2, <1>3, <1>5, <2>1, Unheard, StreamTypes DEF StreamInv
  <2> QED
    BY <1>6, <2>2 DEF Untouched, Stream
<1>9. Flies(i)'
  BY <1>4 DEF Flies, Free
<1>10. /\ inflight' \subseteq inflight \cup {0, i}
       /\ \A e \in Completions' : e \in Completions \/ e.id \in {0, i}
       /\ \A e \in Completions' : e.id = i => Came(i, e.res)'
       /\ \A c \in Clients : sent'[c] <= Quota[c]
  BY <1>2, <1>4, <1>6 DEF StreamInv
<1> QED
  BY <1>1, <1>2, <1>6, <1>7, <1>8, <1>9, <1>10, OneRequestStream
\* A byte that a peer sends goes to the end of its input and of its stream.
LEMMA PeerWhole ==
    ASSUME NetTypeOK, PeerNext, NEW c \in Clients, NEW f \in Seq(Byte), Whole(c, f)
    PROVE  Whole(c, f)'
<1>1. UNCHANGED echoed
  BY PeerStep
<1> PICK d \in Seq(Byte) : d = echoed[c]
  BY DEF NetTypeOK
<1> PICK q \in Seq(Byte) : q = inq[c]
  BY DEF NetTypeOK
<1>2. d \o f \in Seq(Byte)
  BY Concat, Zenon
<1>3. PICK b \in Seq(Byte) : b = d \o f
  BY <1>2
<1>4. b \o q = Stream(c)
  BY <1>3 DEF Whole
<1>5. CASE inq'[c] = inq[c] /\ Stream(c)' = Stream(c)
  BY <1>1, <1>3, <1>4, <1>5 DEF Whole
<1>6. ASSUME NEW x \in Byte,
             inq'[c] = Append(inq[c], x),
             Stream(c)' = Append(Stream(c), x)
      PROVE  Whole(c, f)'
  <2>1. b \o Append(q, x) = Append(b \o q, x)
    BY <1>6, LastByte, Zenon
  <2> QED
    BY <1>1, <1>3, <1>4, <1>6, <2>1 DEF Whole
<1> QED
  BY <1>5, <1>6, PeerStream

\* A peer that has finished sends nothing more, and a reset is final.
LEMMA PeerEnded ==
    ASSUME NetTypeOK, PeerNext, NEW c \in Clients, peer[c] \in {"fin", "reset"}
    PROVE  /\ inq'[c] = inq[c] /\ sent'[c] = sent[c] /\ echoed'[c] = echoed[c]
           /\ peer'[c] \in {"fin", "reset"}
           /\ peer[c] = "reset" => peer'[c] = "reset"
<1> PICK d \in Clients : \/ Connect(d) \/ SendByte(d) \/ RecvByte(d)
                         \/ SendFin(d) \/ SendReset(d)
  BY DEF PeerNext
<1>1. CASE Connect(d)
  BY <1>1 DEF Connect, NetTypeOK
<1>2. CASE SendByte(d)
  BY <1>2 DEF SendByte, NetTypeOK
<1>3. CASE RecvByte(d)
  BY <1>3 DEF RecvByte
<1>4. CASE SendFin(d)
  BY <1>4 DEF SendFin, NetTypeOK
<1>5. CASE SendReset(d)
  BY <1>5 DEF SendReset, NetTypeOK
<1> QED
  BY <1>1, <1>2, <1>3, <1>4, <1>5

\* No peer sends more than it has to.
LEMMA PeerQuota ==
    ASSUME NetTypeOK, PeerNext, NEW c \in Clients, sent[c] <= Quota[c]
    PROVE  sent'[c] <= Quota[c]
<1> PICK d \in Clients : \/ Connect(d) \/ SendByte(d) \/ RecvByte(d)
                         \/ SendFin(d) \/ SendReset(d)
  BY DEF PeerNext
<1>1. CASE sent' = sent
  BY <1>1
<1>2. CASE SendByte(d)
  <2> PICK s, t \in Nat : s = sent[c] /\ t = Quota[c]
    BY SocketsAssumption DEF NetTypeOK
  <2>1. CASE c = d
    <3>1. sent'[c] = s + 1 /\ s < t
      BY <1>2, <2>1 DEF SendByte, NetTypeOK
    <3> QED
      BY <3>1
  <2>2. CASE c # d
    BY <1>2, <2>2 DEF SendByte, NetTypeOK
  <2> QED
    BY <2>1, <2>2
<1> QED
  BY <1>1, <1>2 DEF Connect, RecvByte, SendFin, SendReset

\* What a completion reports is a number.
LEMMA ResultType ==
    ASSUME RingTypes, Window
    PROVE  \A e \in Completions : e.res \in Int
<1> PICK E : E = [id : ReqIds, res : Int]
  OBVIOUS
<1> PICK u : u = Unhandled
  OBVIOUS
<1> PICK w \in Nat : w = Pending
  BY RingFacts
<1>1. cqes \in [0 .. CqEntries - 1 -> E] /\ overflow \in Seq(E) /\ head \in Nat
  BY RingFacts DEF RingTypes
<1>2. QueueIs(Queue(head, w, cqes, overflow), E, head, w, cqes, overflow)
  BY <1>1, QueueAt
<1>3. u \in Seq(E)
  BY <1>2, RingFacts DEF QueueIs
<1>4. \A i \in 1 .. Len(u) : u[i] \in E
  BY <1>3, ElementOfSeq
<1> QED
  BY <1>4 DEF Completions, Elements

\* The peers add to their input only, wherever their connection is.
LEMMA PeerStreamInv ==
    ASSUME StreamInv, PeerNext, UNCHANGED serverVars
    PROVE  StreamInv'
<1>1. UNCHANGED ringVars /\ UNCHANGED <<reqs, inflight, conns>>
  BY DEF serverVars
<1>2. /\ Placed' /\ NetTypeOK' /\ UNCHANGED <<fdtab, closed, echoed>>
      /\ NetTypeOK /\ IInv
  BY StreamTypes, PeerPlaced, PeerStep
<1>3. Kept
  BY <1>1, <1>2, RingFrame DEF IInv, Once
<1>4. IInv' /\ Completions' = Completions
  BY <1>1, <1>2, <1>3, KeptInv DEF Kept
<1>5. \A c \in Clients : sent'[c] <= Quota[c]
  BY <1>2, PeerQuota DEF StreamInv
<1>6. \A fd \in Fds : Waiting(fd)' => fdtab'[fd] \in Untouched'
  <2> TAKE fd \in Fds
  <2> HAVE Waiting(fd)'
  <2>1. fdtab[fd] \in Untouched
    BY <1>4 DEF Waiting, StreamInv
  <2> PICK c : c = fdtab[fd]
    OBVIOUS
  <2>2. c \in Clients
    BY <2>1 DEF Untouched
  <2>3. echoed'[c] = <<>> /\ inq[c] = Stream(c)
    BY <1>2, <2>1 DEF Untouched
  <2>4. inq'[c] = Stream(c)'
    BY <1>2, <2>2, <2>3, PeerStream
  <2> QED
    BY <1>2, <2>2, <2>3, <2>4 DEF Untouched
<1>7. ASSUME NEW id \in inflight
      PROVE  Flies(id)'
  <2>1. id \in ReqIds /\ Flies(id) /\ reqs' = reqs
    BY <1>1, StreamTypes DEF StreamInv
  <2>2. CASE reqs[id].type = "RECV"
    <3> PICK c \in Clients : c = Client(id)
      BY <1>2, <2>1, <2>2, Owner DEF Client
    <3>1. Whole(c, <<>>) /\ <<>> \in Seq(Byte)
      BY <2>1, <2>2, EmptySeq DEF Flies
    <3>2. Whole(c, <<>>)'
      BY <1>2, <3>1, PeerWhole
    <3>3. Client(id)' = c
      BY <1>1, <1>2 DEF Client
    <3> QED
      BY <2>1, <2>2, <3>2, <3>3 DEF Flies
  <2>3. CASE reqs[id].type = "SEND"
    <3> PICK c \in Clients : c = Client(id)
      BY <1>2, <2>1, <2>3, Owner DEF Client
    <3>1. reqs[id].len \in 0 .. Len(conns[reqs[id].conn].buf)
          /\ reqs[id].conn \in ConnIds
      BY <1>2, <2>1, <2>3, Owner, StreamTypes DEF IInv, Results
    <3>2. Front(id, reqs[id].len) \in Seq(Byte)
      BY <3>1, StreamTypes, SplitType DEF Front
    <3> PICK f \in Seq(Byte) : f = Front(id, reqs[id].len)
      BY <3>2
    <3>3. Whole(c, f)'
      BY <1>2, <2>1, <2>3, PeerWhole DEF Flies
    <3>4. Client(id)' = c /\ Front(id, reqs[id].len)' = f
      BY <1>1, <1>2 DEF Client, Front
    <3> QED
      BY <2>1, <2>3, <3>3, <3>4 DEF Flies
  <2> QED
    BY <2>1, <2>2, <2>3 DEF Flies
<1>8. ASSUME NEW e \in Completions
      PROVE  Came(e.id, e.res)'
  <2>1. PICK id \in ReqIds : id = e.id
    BY StreamTypes
  <2>2. PICK res : res = e.res
    OBVIOUS
  <2>3. Came(id, res) /\ reqs' = reqs
    BY <1>1, <2>1, <2>2 DEF StreamInv
  <2>4. CASE reqs[id].type \notin {"RECV", "SEND"}
    BY <2>1, <2>2, <2>3, <2>4 DEF Came
  <2>5. CASE reqs[id].type \in {"RECV", "SEND"}
    <3> PICK c \in Clients : c = Client(id)
      BY <1>2, <2>5, Owner DEF Client
    <3>1. Client(id)' = c
      BY <1>1, <1>2 DEF Client
    <3>2. ASSUME reqs[id].type = "RECV", res > 0
          PROVE  Whole(c, Front(id, res))'
      <4>1. /\ res \in Int /\ res <= Len(conns[reqs[id].conn].buf)
            /\ reqs[id].conn \in ConnIds
        BY <1>2, <2>1, <2>2, <3>2, Owner, ResultType DEF IInv, Results
      <4>2. res \in 0 .. Len(conns[reqs[id].conn].buf)
        BY <3>2, <4>1, StreamTypes
      <4>3. Front(id, res) \in Seq(Byte)
        BY <4>1, <4>2, StreamTypes, SplitType DEF Front
      <4> PICK f \in Seq(Byte) : f = Front(id, res)
        BY <4>3
      <4>4. Whole(c, f)'
        BY <1>2, <2>3, <3>2, PeerWhole DEF Came
      <4>5. Front(id, res)' = f
        BY <1>1 DEF Front
      <4> QED
        BY <4>4, <4>5 DEF Whole
    <3>3. ASSUME reqs[id].type = "RECV", ~(res > 0)
          PROVE  Drained(c)'
      <4>1. Drained(c)
        BY <2>3, <3>3 DEF Came
      <4>2. /\ inq'[c] = inq[c] /\ sent'[c] = sent[c] /\ echoed'[c] = echoed[c]
            /\ peer'[c] \in {"fin", "reset"}
        BY <1>2, <4>1, PeerEnded DEF Drained
      <4>3. Stream(c)' = Stream(c)
        BY <4>2 DEF Stream
      <4> QED
        BY <4>1, <4>2, <4>3 DEF Drained
    <3>4. ASSUME reqs[id].type = "SEND", res > 0
          PROVE  Whole(c, <<>>)'
      BY <1>2, <2>3, <3>4, EmptySeq, PeerWhole DEF Came
    <3>5. ASSUME reqs[id].type = "SEND", ~(res > 0)
          PROVE  peer'[c] = "reset"
      BY <1>2, <2>3, <3>5, PeerEnded DEF Came
    <3>6. Came(id, res)'
      BY <2>3, <3>1, <3>2, <3>3, <3>4, <3>5 DEF Came
    <3> QED
      BY <2>1, <2>2, <3>6
  <2> QED
    BY <2>4, <2>5
<1> QED
  BY <1>1, <1>2, <1>4, <1>5, <1>6, <1>7, <1>8 DEF StreamInv
LEMMA InitStream == Init => StreamInv
<1> SUFFICES ASSUME Init
             PROVE  StreamInv
  OBVIOUS
<1>1. IInv /\ Placed
  BY InitInv, PlacedInit DEF Init
<1>2. /\ reqs = [id \in ReqIds |-> IF id = 0 THEN [Free EXCEPT !.type = "ACCEPT"] ELSE Free]
      /\ inflight = {0} /\ 0 \in ReqIds
  BY Params DEF Init
<1>3. Flies(0)
  BY <1>2 DEF Flies, Free
<1>4. Completions = {}
  <2> SUFFICES ASSUME NEW e \in Completions
               PROVE  FALSE
    OBVIOUS
  <2>1. e.id \in ReqIds /\ e.id \notin inflight /\ e.id \in Outstanding
    BY <1>1 DEF IInv, Once
  <2>2. e.id = 0
    BY <1>2, <2>1 DEF Outstanding, Free
  <2> QED
    BY <1>2, <2>1, <2>2
<1>5. \A c \in Clients : sent[c] <= Quota[c]
  <2> TAKE c \in Clients
  <2> PICK t \in Nat : t = Quota[c]
    BY SocketsAssumption
  <2>1. sent[c] = 0
    BY DEF Init, NetInit
  <2> QED
    BY <2>1
<1> QED
  BY <1>1, <1>2, <1>3, <1>4, <1>5 DEF StreamInv, Waiting

\* Every step keeps every connection in one place and every byte in its stream, as
\* long as the kernel takes every SEND whole.
LEMMA NextStream == NeverShort /\ StreamInv /\ [Next]_vars => StreamInv'
<1> SUFFICES ASSUME NeverShort, StreamInv, [Next]_vars
             PROVE  StreamInv'
  OBVIOUS
<1>1. IInv /\ IInv'
  BY StreamTypes, NextInv
<1>2. CASE Enter
  <2>1. Kept /\ UNCHANGED netVars /\ UNCHANGED <<reqs, inflight, conns>>
    BY <1>1, <1>2, EnterStep DEF Enter, IInv, Once
  <2> QED
    BY <1>1, <2>1, QuietStream DEF Kept
<1>3. CASE Publish
  <2>1. Kept /\ UNCHANGED netVars /\ UNCHANGED <<reqs, inflight, conns>>
    BY <1>1, <1>3, PublishStep DEF Publish, IInv, Once
  <2> QED
    BY <1>1, <2>1, QuietStream DEF Kept
<1>4. CASE HandleAcceptError
  <2>1. /\ Iterate("ACCEPT") /\ Resubmit(ACCEPT) /\ UNCHANGED netVars /\ conns' = conns
    BY <1>4 DEF HandleAcceptError
  <2>2. Taken(Cqe) /\ Cqe.id = 0
    BY <1>1, <2>1, CqeFacts DEF IInv, Roles
  <2>3. /\ \A id \in ReqIds \ {0} : reqs'[id] = reqs[id]
        /\ inflight' \subseteq inflight \cup {0}
        /\ Completions' \subseteq Completions
    BY <1>1, <2>1, <2>2 DEF Resubmit, Taken, IInv, BlockTypes
  <2> QED
    BY <1>1, <2>1, <2>3, QuietStream
<1>5. CASE HandleAccept
  BY <1>5, AcceptedStream
<1>6. CASE HandleAcceptNoMemory
  BY <1>6, NoMemoryStream
<1>7. CASE HandleRecv
  <2>1. CASE Over(Cqe.res)
    <3>1. /\ Iterate("RECV") /\ CloseAndFree(Current.conn)
      BY <1>7, <2>1 DEF HandleRecv
    <3>2. Taken(Cqe) /\ reqs[Cqe.id].type = "RECV" /\ Current.conn = reqs[Cqe.id].conn
      BY <1>1, <3>1, CqeFacts DEF Current
    <3> QED
      BY <3>1, <3>2, CloseStream
  <2> QED
    BY <1>7, <2>1, HandleRecvStream
<1>8. CASE HandleSend
  <2>1. CASE Over(Cqe.res)
    <3>1. /\ Iterate("SEND") /\ CloseAndFree(Current.conn)
      BY <1>8, <2>1 DEF HandleSend
    <3>2. Taken(Cqe) /\ reqs[Cqe.id].type = "SEND" /\ Current.conn = reqs[Cqe.id].conn
      BY <1>1, <3>1, CqeFacts DEF Current
    <3> QED
      BY <3>1, <3>2, CloseStream
  <2> QED
    BY <1>8, <2>1, HandleSendStream
<1>9. CASE KernelNext
  BY <1>9, AcceptStream, RecvStream, SendStream DEF KernelNext
<1>10. CASE PeerNext /\ UNCHANGED serverVars
  BY <1>10, PeerStreamInv
<1>11. CASE UNCHANGED vars
  <2>1. UNCHANGED netVars /\ UNCHANGED ringVars /\ UNCHANGED <<reqs, inflight, conns>>
    BY <1>11 DEF vars
  <2>2. Kept
    BY <1>1, <2>1, RingFrame DEF IInv, Once
  <2> QED
    BY <1>1, <2>1, <2>2, QuietStream DEF Kept
<1> QED
  BY <1>2, <1>3, <1>4, <1>5, <1>6, <1>7, <1>8, <1>9, <1>10, <1>11 DEF Next, ServerNext
----------------------------------------------------------------------------
(* Closed when drained; an echo service. *)

\* The loop ends a connection at the end of the stream, with nothing left to send,
\* or when the peer has reset it.
LEMMA CloseDrained ==
    ASSUME StreamInv, NEW type \in {"RECV", "SEND"}, Iterate(type), Over(Cqe.res),
           CloseAndFree(Current.conn), NEW c, c \in closed' \ closed, peer[c] # "reset"
    PROVE  Len(echoed[c]) = sent[c]
<1> PICK i, res : i = Cqe.id /\ res = Cqe.res
  OBVIOUS
<1>1. /\ Cqe \in Completions /\ i \in ReqIds /\ reqs[i].type = type
      /\ ~(res > 0) /\ IInv
  BY CqeFacts, StreamTypes DEF Over
<1>2. c = Client(i) /\ c \in Clients
  <2>1. reqs[i].fd = conns[Current.conn].fd /\ fdtab[reqs[i].fd] \in Clients
    BY <1>1, Owner DEF Current
  <2> QED
    BY <2>1 DEF CloseAndFree, SysClose, Client
<1>3. Came(i, res)
  BY <1>1 DEF StreamInv
<1>4. Drained(c)
  BY <1>1, <1>2, <1>3 DEF Came
<1> QED
  BY <1>2, <1>4, StreamTypes, StreamType DEF Drained

LEMMA NextDrained ==
    ASSUME StreamInv, [Next]_vars, NEW k \in LiveConns,
           fdtab[conns[k].fd] \in closed' \ closed, peer[fdtab[conns[k].fd]] # "reset"
    PROVE  Len(echoed[fdtab[conns[k].fd]]) = sent[fdtab[conns[k].fd]]
<1> PICK c : c = fdtab[conns[k].fd]
  OBVIOUS
<1>1. CASE UNCHANGED closed
  BY <1>1
<1>2. IInv /\ NetTypeOK /\ Placed
  BY StreamTypes
<1>3. CASE HandleAcceptNoMemory
  <2> PICK fd : fd = Cqe.res
    OBVIOUS
  <2>1. Iterate("ACCEPT") /\ fd >= 0 /\ closed' = closed \cup {fdtab[fd]}
    BY <1>3 DEF HandleAcceptNoMemory, SysClose
  <2>2. Cqe.id = 0 /\ Cqe \in Completions
    BY <1>2, <2>1, CqeFacts DEF IInv, Roles
  <2>3. fd \in Fds /\ Waiting(fd)
    BY <1>2, <2>1, <2>2 DEF IInv, Owned, Waiting
  <2>4. fd \in OpenFds /\ conns[k].fd \in OpenFds /\ conns[k].fd # fd
    BY <1>2, <2>3 DEF IInv, Owned
  <2> QED
    BY <1>2, <2>1, <2>4 DEF Placed
<1>4. CASE HandleRecv
  <2>1. CASE Over(Cqe.res)
    BY <1>4, <2>1, CloseDrained DEF HandleRecv
  <2>2. CASE ~Over(Cqe.res)
    BY <1>1, <1>4, <2>2 DEF HandleRecv, netVars
  <2> QED
    BY <2>1, <2>2
<1>5. CASE HandleSend
  <2>1. CASE Over(Cqe.res)
    BY <1>5, <2>1, CloseDrained DEF HandleSend
  <2>2. CASE ~Over(Cqe.res)
    BY <1>1, <1>5, <2>2 DEF HandleSend, netVars
  <2> QED
    BY <2>1, <2>2
<1>6. CASE PeerNext
  BY <1>1, <1>2, <1>6, PeerStep
<1>7. CASE KernelNext
  <2>1. UNCHANGED closed
    BY <1>7 DEF KernelNext, CompleteAccept, CompleteRecv, CompleteSend,
                SysAccept, SysRead, SysWrite, netVars
  <2> QED
    BY <1>1, <2>1
<1>8. CASE Enter \/ Publish \/ HandleAcceptError \/ HandleAccept \/ UNCHANGED vars
  <2>1. UNCHANGED closed
    BY <1>8 DEF Enter, Publish, HandleAcceptError, HandleAccept, netVars, vars
  <2> QED
    BY <1>1, <2>1
<1> QED
  BY <1>3, <1>4, <1>5, <1>6, <1>7, <1>8 DEF Next, ServerNext

\* When the kernel takes every SEND whole, a connection the loop knows and its peer
\* has not reset is closed only when everything the peer sent has been written back.
\* Without the condition it need not hold: HandleSend forgets what a short SEND left.
THEOREM DrainCorrect == NeverShort => (Spec => CloseOnlyWhenDrained)
<1> SUFFICES ASSUME NeverShort
             PROVE  Spec => CloseOnlyWhenDrained
  OBVIOUS
<1>1. Init => StreamInv
  BY InitStream
<1>2. StreamInv /\ [Next]_vars => StreamInv'
  BY NextStream
<1>3. StreamInv /\ [Next]_vars
        => [\A k \in LiveConns :
               LET c == fdtab[conns[k].fd]
               IN  c \in closed' \ closed /\ peer[c] # "reset"
                     => Len(echoed[c]) = sent[c]]_vars
  BY NextDrained
<1> QED
  BY <1>1, <1>2, <1>3, PTL DEF Spec, CloseOnlyWhenDrained

LEMMA NextAbstract ==
    NeverShort /\ StreamInv /\ Unclosed /\ [Next]_vars => Refines /\ Unclosed'
<1> SUFFICES ASSUME NeverShort, StreamInv, Unclosed, [Next]_vars
             PROVE  Refines /\ Unclosed'
  OBVIOUS
<1>1. IInv /\ NetTypeOK /\ Placed
  BY StreamTypes
<1>2. ASSUME UNCHANGED <<peer, backlog, fdtab, closed, sent, echoed>>
      PROVE  Refines /\ Unclosed'
  BY <1>2, AbstractStutter DEF Unclosed, OpenFds
<1>3. CASE UNCHANGED vars \/ Enter \/ Publish \/ HandleAcceptError \/ HandleAccept
  <2>1. UNCHANGED <<peer, backlog, fdtab, closed, sent, echoed>>
    BY <1>3 DEF Enter, Publish, HandleAcceptError, HandleAccept, netVars, vars
  <2> QED
    BY <1>2, <2>1
<1>4. CASE HandleAcceptNoMemory
  <2>1. Iterate("ACCEPT") /\ Cqe.res >= 0 /\ SysClose(Cqe.res)
    BY <1>4 DEF HandleAcceptNoMemory, SysClose
  <2>2. Cqe.id = 0 /\ Cqe \in Completions
    BY <1>1, <2>1, CqeFacts DEF IInv, Roles
  <2>3. Cqe.res \in OpenFds
    BY <1>1, <2>1, <2>2 DEF IInv, Owned, Waiting
  <2> QED
    BY <1>1, <2>1, <2>3, CloseAbstract
<1>5. ASSUME NEW type \in {"RECV", "SEND"}, Iterate(type), CloseAndFree(Current.conn)
      PROVE  Refines /\ Unclosed'
  <2> PICK fd : fd = conns[Current.conn].fd
    OBVIOUS
  <2>1. fd \in OpenFds
    BY <1>1, <1>5, CqeFacts, Owner DEF Current
  <2>2. SysClose(fd)
    BY <1>5 DEF CloseAndFree, SysClose
  <2> QED
    BY <1>1, <2>1, <2>2, CloseAbstract
<1>6. CASE HandleRecv \/ HandleSend
  <2>1. CASE Over(Cqe.res)
    BY <1>5, <1>6, <2>1 DEF HandleRecv, HandleSend
  <2>2. CASE ~Over(Cqe.res)
    <3>1. UNCHANGED <<peer, backlog, fdtab, closed, sent, echoed>>
      BY <1>6, <2>2 DEF HandleRecv, HandleSend, netVars
    <3> QED
      BY <1>2, <3>1
  <2> QED
    BY <2>1, <2>2
<1>7. ASSUME NEW id \in ReqIds, CompleteAccept(id)
      PROVE  Refines /\ Unclosed'
  <2>1. CASE UNCHANGED netVars
    <3>1. UNCHANGED <<peer, backlog, fdtab, closed, sent, echoed>>
      BY <2>1 DEF netVars
    <3> QED
      BY <1>2, <3>1
  <2>2. ASSUME NEW fd \in Fds, SysAccept(fd)
        PROVE  Refines /\ Unclosed'
    BY <1>1, <2>2, AcceptAbstract
  <2> QED
    BY <1>7, <2>1, <2>2 DEF CompleteAccept
<1>8. ASSUME NEW id \in ReqIds, CompleteRecv(id)
      PROVE  Refines /\ Unclosed'
  <2>1. UNCHANGED <<peer, backlog, fdtab, closed, sent, echoed>>
    BY <1>8 DEF CompleteRecv, SysRead, netVars
  <2> QED
    BY <1>2, <2>1
<1>9. ASSUME NEW id \in ReqIds, CompleteSend(id)
      PROVE  Refines /\ Unclosed'
  BY <1>9, SendStream
<1>10. CASE PeerNext
  BY <1>1, <1>10, PeerAbstract
<1> QED
  BY <1>3, <1>4, <1>6, <1>7, <1>8, <1>9, <1>10 DEF Next, ServerNext, KernelNext

\* When the kernel takes every SEND whole, the server implements the echo service:
\* the completion of a SEND is an echo of what was sent next, the close() of the loop
\* a close, and the rings are no step of the service.
THEOREM ImplementsEcho == NeverShort => (Spec => EchoesPrefix)
<1> SUFFICES ASSUME NeverShort
             PROVE  Spec => EchoesPrefix
  OBVIOUS
<1>1. Init => StreamInv /\ Unclosed /\ Abstract!Init
  BY InitStream, AbstractInit DEF Init
<1>2. StreamInv /\ Unclosed /\ [Next]_vars
        => StreamInv' /\ Unclosed' /\ [Abstract!Next]_(Abstract!vars)
  BY NextStream, NextAbstract DEF Refines
<1> QED
  BY <1>1, <1>2, PTL DEF Spec, EchoesPrefix, Abstract!Spec

=============================================================================
