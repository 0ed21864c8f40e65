--------------------------- MODULE MeasureProofs ---------------------------
(***************************************************************************)
(* What the measurements of partB rest on.                                 *)
(*                                                                         *)
(* load_client: the numbers it computes with, for every command line,      *)
(* every width of an int and every number of threads; and its latency      *)
(* array: each thread fills a range of its own, the ranges follow one      *)
(* another without a gap, and together they are the array.                 *)
(*                                                                         *)
(* run_benchmarks.sh: its processes and its summary, for any number of     *)
(* invocations.                                                            *)
(***************************************************************************)
EXTENDS LoadClient, RunBenchmarks, TLAPS

----------------------------------------------------------------------------
(* load_client. *)


Sane == 1 <= arg.threads /\ arg.threads <= arg.connections /\ 0 <= arg.requests

\* No thread before the allocations, and none without numbers that make sense.
SaneInv ==
    /\ arg \in [connections : Int, requests : Int, threads : Int, payload : Nat]
    /\ mpc \in {"parse", "alloc"} => \A t \in Tids : tpc[t] = "idle"
    /\ mpc = "alloc" => arg.threads <= arg.connections
    /\ mpc \in {"spawn", "join", "done"} => Sane
    /\ StartedSane

LEMMA ToIntType == ASSUME NEW n \in Int PROVE ToInt(n) \in Int
BY LoadClientAssumption DEF LoadClientAssumption, ToInt

LEMMA ProductSign ==
    ASSUME NEW c \in Int, NEW r \in Int, 1 <= c, 0 <= c * r
    PROVE  0 <= r
<1>1. CASE r <= -1
  <2>1. c * (0 - r) >= 0 - r BY <1>1
  <2>2. c * (0 - r) = 0 - c * r OBVIOUS
  <2> QED BY <1>1, <2>1, <2>2
<1> QED BY <1>1

LEMMA SaneInit == Init => SaneInv
BY LoadClientAssumption
   DEF LoadClientAssumption, Init, SaneInv, StartedSane

LEMMA SaneStep == SaneInv /\ [Next]_vars => SaneInv'
<1> SUFFICES ASSUME SaneInv, [Next]_vars PROVE SaneInv'
  OBVIOUS
<1>1. CASE Parse
  <2>1. CASE arg' = arg /\ mpc' = "dead"
    BY <1>1, <2>1 DEF Parse, SaneInv, StartedSane, workerVars, Sane
  <2>2. CASE /\ mpc' = "alloc"
             /\ arg' = [arg EXCEPT !.connections = ToInt(@), !.requests = ToInt(@),
                           !.threads = Least(ToInt(@), ToInt(arg.connections))]
    <3>1. ToInt(arg.connections) \in Int /\ ToInt(arg.requests) \in Int
            /\ ToInt(arg.threads) \in Int
      BY ToIntType DEF SaneInv
    <3>2. Least(ToInt(arg.threads), ToInt(arg.connections)) \in Int
            /\ Least(ToInt(arg.threads), ToInt(arg.connections)) <= ToInt(arg.connections)
      BY <3>1 DEF Least
    <3> HIDE DEF ToInt, Least
    <3>3. /\ arg' \in [connections : Int, requests : Int, threads : Int, payload : Nat]
          /\ arg'.threads <= arg'.connections
      BY <2>2, <3>1, <3>2 DEF SaneInv
    <3> QED BY <1>1, <2>2, <3>3 DEF Parse, SaneInv, StartedSane, workerVars
  <2> QED BY <1>1, <2>1, <2>2 DEF Parse
<1>2. CASE Alloc
  <2>1. CASE mpc' \in {"undefined", "dead"}
    BY <1>2, <2>1 DEF Alloc, SaneInv, StartedSane, Sane
  <2>2. CASE mpc' = "spawn" /\ ~TooLarge(TotalRequests) /\ ~TooLarge(arg.threads)
               /\ arg.threads # 0
    <3>1. Sane
      BY <1>2, <2>2, ProductSign DEF Alloc, SaneInv, Sane, TooLarge, TotalRequests
    <3> QED BY <1>2, <2>2, <3>1 DEF Alloc, SaneInv, StartedSane, Sane
  <2> QED BY <1>2, <2>1, <2>2 DEF Alloc
<1>3. CASE Spawn \/ AllSpawned \/ Join \/ AllJoined
  BY <1>3 DEF Spawn, AllSpawned, Join, AllJoined, SaneInv, StartedSane, Sane, workerVars
<1>4. ASSUME NEW t \in Tids, WorkerNext(t) PROVE SaneInv'
  <2>1. mpc \in {"spawn", "join"} /\ arg' = arg /\ mpc' \in {mpc, "dead"}
    BY <1>4 DEF WorkerNext, Running, Connect, ConnectFails, WorkerReturns, Write, Read,
                Complete, Die, mainVars
  <2> QED BY <2>1 DEF SaneInv, Sane, StartedSane
<1>5. ASSUME NEW t \in Tids, ServerEchoes(t) \/ ServerCloses(t) PROVE SaneInv'
  BY <1>5 DEF ServerEchoes, ServerCloses, mainVars, SaneInv, Sane, StartedSane
<1>6. CASE UNCHANGED vars
  BY <1>6 DEF vars, mainVars, workerVars, SaneInv, Sane, StartedSane
<1> QED BY <1>1, <1>2, <1>3, <1>4, <1>5, <1>6 DEF Next, MainNext

\* Whatever parse_int() (common.c, lines 125-133) makes of a number out of the range
\* of int, a thread of load_client starts only with a number of connections, of
\* threads and of requests that make sense.
THEOREM StartedSaneCorrect == Spec => []StartedSane
<1>1. SaneInv => StartedSane BY DEF SaneInv
<1> QED BY <1>1, SaneInit, SaneStep, PTL DEF Spec

----------------------------------------------------------------------------

LEMMA RankBounds ==
    ASSUME NEW n \in Int, n > 0, IsInt(n * 99)
    PROVE  /\ Percentile(n) \in 0 .. n - 1
           /\ 99 * n < 100 * (Percentile(n) + 1)
           /\ 100 * Percentile(n) <= 99 * n
<1>1. PICK m \in Int : m = n * 99 OBVIOUS
<1>2. Percentile(n) = m \div 100
  <2>1. ToInt(n * 99) = m BY <1>1 DEF IsInt
  <2> HIDE DEF ToInt
  <2> QED BY <1>1, <2>1 DEF Percentile
<1> QED BY <1>1, <1>2

\* The index main has computed.
RankInv == mpc = "done" => TotalRequests \in Int /\ p99 = Percentile(TotalRequests)

LEMMA RankStep == SaneInv /\ RankInv /\ [Next]_vars => RankInv'
<1> SUFFICES ASSUME SaneInv, RankInv, [Next]_vars PROVE RankInv'
  OBVIOUS
<1>1. CASE AllJoined
  <2>1. TotalRequests \in Int /\ TotalRequests' = TotalRequests
    BY <1>1 DEF AllJoined, SaneInv, TotalRequests
  <2> HIDE DEF TotalRequests, Percentile
  <2> QED BY <1>1, <2>1 DEF AllJoined, RankInv
<1>2. CASE Parse \/ Alloc \/ Spawn \/ AllSpawned \/ Join
  BY <1>2 DEF Parse, Alloc, Spawn, AllSpawned, Join, RankInv
<1>3. ASSUME NEW t \in Tids, WorkerNext(t) PROVE RankInv'
  <2>1. mpc' # "done"
    BY <1>3 DEF WorkerNext, Running, Connect, ConnectFails, WorkerReturns, Write, Read,
                Complete, Die, mainVars
  <2> QED BY <2>1 DEF RankInv
<1>4. ASSUME NEW t \in Tids, ServerEchoes(t) \/ ServerCloses(t) PROVE RankInv'
  BY <1>4 DEF ServerEchoes, ServerCloses, mainVars, RankInv, TotalRequests
<1>5. CASE UNCHANGED vars BY <1>5 DEF vars, mainVars, RankInv, TotalRequests
<1> QED BY <1>1, <1>2, <1>3, <1>4, <1>5 DEF Next, MainNext

\* Where load_client prints its result, total_requests * 99 / 100 (line 159) is an
\* index of the array and the first one that more than 99 of 100 requests do not
\* exceed, for every number of requests whose product with 99 is an int.
THEOREM PercentileCorrect == Spec => []PercentileRank
<1>1. Init => RankInv BY DEF Init, RankInv
<1>2. RankInv => PercentileRank
  <2> HIDE DEF TotalRequests, Percentile, IsInt
  <2> QED BY RankBounds DEF RankInv, PercentileRank
<1> QED BY <1>1, <1>2, SaneInit, SaneStep, RankStep, PTL DEF Spec

----------------------------------------------------------------------------
(* The latency array. *)

\* The connections of the threads before t, and where t's range starts.
Off(t) == t * (arg.connections \div arg.threads) + Least(t, arg.connections % arg.threads)
Pos(t) == Off(t) * arg.requests

ArgType == arg \in [connections : Int, requests : Int, threads : Int, payload : Nat]

\* The division of the connections, as Spawn makes it, ends with all of them.
LEMMA OffFacts ==
    ASSUME ArgType, Sane
    PROVE  /\ Off(0) = 0 /\ Off(arg.threads) = arg.connections
           /\ \A t \in Nat : Off(t) \in Nat /\ ConnCount(t) \in Nat
           /\ \A t \in Nat : Off(t + 1) = Off(t) + ConnCount(t)
           /\ \A t, u \in Nat : t < u => Off(t + 1) <= Off(u)
<1>1. PICK n \in Nat \ {0} : n = arg.threads BY DEF ArgType, Sane
<1>2. PICK c \in Nat : c = arg.connections BY DEF ArgType, Sane
<1>3. PICK b \in Nat : b = c \div n
  <2>1. c \div n \in Nat OBVIOUS
  <2> QED BY <2>1
<1>4. PICK e \in 0 .. n - 1 : e = c % n
  <2>1. c % n \in 0 .. n - 1 OBVIOUS
  <2> QED BY <2>1
<1>5. c = n * b + e BY <1>3, <1>4
<1>6. \A t : Off(t) = t * b + Least(t, e) BY <1>1, <1>2, <1>3, <1>4 DEF Off
<1>7. \A t : ConnCount(t) = b + (IF t < e THEN 1 ELSE 0)
  BY <1>1, <1>2, <1>3, <1>4 DEF ConnCount
<1>8. Off(0) = 0 /\ Off(arg.threads) = arg.connections
  BY <1>1, <1>2, <1>5, <1>6 DEF Least
<1>9. \A t \in Nat : Off(t) \in Nat /\ ConnCount(t) \in Nat BY <1>6, <1>7 DEF Least
<1>10. \A t \in Nat : Off(t + 1) = Off(t) + ConnCount(t)
  <2> SUFFICES ASSUME NEW t \in Nat PROVE Off(t + 1) = Off(t) + ConnCount(t)
    OBVIOUS
  <2>1. (t + 1) * b = t * b + b OBVIOUS
  <2>2. t * b \in Nat OBVIOUS
  <2>3. Least(t + 1, e) = Least(t, e) + (IF t < e THEN 1 ELSE 0) BY DEF Least
  <2>4. Least(t, e) \in Nat BY DEF Least
  <2> QED BY <1>6, <1>7, <2>1, <2>2, <2>3, <2>4
<1>11. \A t, u \in Nat : t < u => Off(t + 1) <= Off(u)
  <2> SUFFICES ASSUME NEW t \in Nat, NEW u \in Nat, t < u PROVE Off(t + 1) <= Off(u)
    OBVIOUS
  <2>1. PICK d \in Nat : u = t + 1 + d
    <3>1. u - (t + 1) \in Nat /\ u = t + 1 + (u - (t + 1)) OBVIOUS
    <3> QED BY <3>1
  <2>2. u * b = (t + 1) * b + d * b BY <2>1
  <2>3. (t + 1) * b \in Nat /\ d * b \in Nat OBVIOUS
  <2>4. Least(t + 1, e) <= Least(u, e) /\ Least(t + 1, e) \in Nat /\ Least(u, e) \in Nat
    BY DEF Least
  <2> QED BY <1>6, <2>2, <2>3, <2>4
<1> QED BY <1>8, <1>9, <1>10, <1>11

LEMMA PosFacts ==
    ASSUME ArgType, Sane
    PROVE  /\ Pos(0) = 0 /\ Pos(arg.threads) = TotalRequests /\ TotalRequests \in Nat
           /\ \A t \in Nat : Pos(t) \in Nat /\ ConnCount(t) \in Nat
           /\ \A t \in Nat : ConnCount(t) * arg.requests \in Nat
           /\ \A t \in Nat : Pos(t + 1) = Pos(t) + ConnCount(t) * arg.requests
           /\ \A t, u \in Nat : t < u => Pos(t + 1) <= Pos(u)
<1>1. PICK r \in Nat : r = arg.requests BY DEF ArgType, Sane
<1> USE OffFacts
<1>2. Pos(0) = 0 /\ Pos(arg.threads) = TotalRequests /\ TotalRequests \in Nat
  BY <1>1 DEF Pos, TotalRequests, ArgType, Sane
<1>3. \A t \in Nat : Pos(t) \in Nat /\ ConnCount(t) \in Nat BY <1>1 DEF Pos
<1>4. \A t \in Nat : ConnCount(t) * arg.requests \in Nat BY <1>1
<1>5. \A t \in Nat : Pos(t + 1) = Pos(t) + ConnCount(t) * arg.requests
  <2> SUFFICES ASSUME NEW t \in Nat
               PROVE  Pos(t + 1) = Pos(t) + ConnCount(t) * arg.requests
    OBVIOUS
  <2>1. PICK x \in Nat : x = Off(t) OBVIOUS
  <2>2. PICK y \in Nat : y = ConnCount(t) OBVIOUS
  <2>3. (x + y) * r = x * r + y * r OBVIOUS
  <2> QED BY <1>1, <2>1, <2>2, <2>3 DEF Pos
<1>6. \A t, u \in Nat : t < u => Pos(t + 1) <= Pos(u)
  <2> SUFFICES ASSUME NEW t \in Nat, NEW u \in Nat, t < u PROVE Pos(t + 1) <= Pos(u)
    OBVIOUS
  <2>1. PICK x \in Nat : x = Off(t + 1) OBVIOUS
  <2>2. PICK y \in Nat : y = Off(u) OBVIOUS
  <2>3. PICK d \in Nat : y = x + d
    <3>1. x <= y BY <2>1, <2>2
    <3>2. y - x \in Nat /\ y = x + (y - x) BY <3>1
    <3> QED BY <3>2
  <2>4. y * r = (x + d) * r BY <2>3
  <2>5. (x + d) * r = x * r + d * r BY SMTT(30)
  <2>6. d * r \in Nat /\ x * r \in Nat BY SMTT(30)
  <2>7. y * r \in Nat /\ x * r <= y * r BY <2>4, <2>5, <2>6
  <2> QED BY <1>1, <2>1, <2>2, <2>4, <2>5, <2>6, <2>7 DEF Pos
<1> QED BY <1>2, <1>3, <1>4, <1>5, <1>6

----------------------------------------------------------------------------
(* The inductive invariant. *)

Live == mpc \in {"spawn", "join", "done"}

\* The threads main has created, and how many requests t has completed.
Started(t) == t < arg.threads /\ (mpc = "spawn" => t < i)
Done(t) ==
    conn_index[t] * arg.requests + (IF tpc[t] \in {"write", "read"} THEN req[t] ELSE 0)

LatTypes ==
    /\ args \in [Tids -> [connections : Nat, latency_offset : Nat, bytes : Nat]]
    /\ tpc \in [Tids -> {"idle", "connect", "write", "read", "exit"}]
    /\ conn_index \in [Tids -> Nat] /\ req \in [Tids -> Nat]
    /\ i \in Nat /\ offset \in Nat /\ total \in Nat

\* Before the first thread: nothing has happened, and the threads fit the bound.
Before ==
    /\ mpc = "parse" => arg \in CommandLines
    /\ mpc \in {"alloc", "spawn", "join", "done"} => arg.threads <= MaxThreads
    /\ mpc \in {"parse", "alloc"} =>
         i = 0 /\ offset = 0 /\ total = 0 /\ \A t \in Tids : conn_index[t] = 0

\* What a thread was given, and how far its loops are.
Thread(t) ==
    /\ args[t].connections = ConnCount(t) /\ args[t].latency_offset = Pos(t)
    /\ args[t].bytes = (2 * arg.payload) * Done(t)
    /\ tpc[t] # "idle" /\ conn_index[t] <= ConnCount(t)
    /\ tpc[t] \in {"write", "read"} =>
         req[t] < arg.requests /\ conn_index[t] < ConnCount(t)
    /\ tpc[t] = "exit" => conn_index[t] = ConnCount(t)

ThreadsInv ==
    Live => \A t \in Tids :
                IF Started(t) THEN Thread(t) ELSE tpc[t] = "idle" /\ conn_index[t] = 0

\* The slots stored are the first Done(t) of each thread's range, once each.
Stored(s) == \E t \in Tids : Started(t) /\ Pos(t) <= s /\ s < Pos(t) + Done(t)
SlotsInv ==
    Live => /\ DOMAIN latencies = 0 .. 2 * TotalRequests
            /\ \A s \in 0 .. 2 * TotalRequests : latencies[s] = (IF Stored(s) THEN 1 ELSE 0)

\* Every slot below the next range is in the range of a thread.
Covered(n) ==
    \A s \in Nat : s < Pos(n) =>
        \E t \in Tids : Started(t) /\ Pos(t) <= s /\ s < Pos(t + 1)

MainInv ==
    /\ mpc = "spawn" => i <= arg.threads /\ offset = Off(i) /\ total = 0 /\ Covered(i)
    /\ mpc \in {"join", "done"} =>
         /\ i <= arg.threads /\ Covered(arg.threads)
         /\ total = (2 * arg.payload) * Pos(i)
         /\ \A t \in Tids : t < i => tpc[t] = "exit"
    /\ mpc = "done" => i = arg.threads

LatInv == LatTypes /\ Before /\ ThreadsInv /\ SlotsInv /\ MainInv

LEMMA ArgFrame ==
    ASSUME arg' = arg
    PROVE  /\ \A t : Pos(t)' = Pos(t) /\ Off(t)' = Off(t) /\ ConnCount(t)' = ConnCount(t)
           /\ TotalRequests' = TotalRequests
BY DEF Pos, Off, ConnCount, TotalRequests

\* A thread's completed requests stay within its range, and short of its end while
\* it has a request under way.
LEMMA DoneBounds ==
    ASSUME ArgType, Sane, LatTypes, NEW t \in Tids, Thread(t)
    PROVE  /\ Done(t) \in Nat
           /\ Done(t) <= ConnCount(t) * arg.requests
           /\ tpc[t] \in {"write", "read"} => Done(t) < ConnCount(t) * arg.requests
           /\ tpc[t] = "exit" => Done(t) = ConnCount(t) * arg.requests
<1>1. PICK r \in Nat : r = arg.requests BY DEF ArgType, Sane
<1>2. PICK k \in Nat : k = conn_index[t] BY DEF LatTypes
<1>3. t \in Nat BY LoadClientAssumption DEF LoadClientAssumption, Tids
<1>4. PICK c \in Nat : c = ConnCount(t) BY <1>3, PosFacts
<1>5. k <= c BY <1>2, <1>4 DEF Thread
<1>6. PICK d \in Nat : c = k + d
  <2>1. c - k \in Nat /\ c = k + (c - k) BY <1>5
  <2> QED BY <2>1
<1>7. c * r = k * r + d * r /\ k * r \in Nat /\ d * r \in Nat BY <1>6
<1>8. CASE tpc[t] \in {"write", "read"}
  <2>1. req[t] \in Nat /\ req[t] < r /\ k < c BY <1>1, <1>2, <1>4, <1>8 DEF Thread, LatTypes
  <2>2. PICK q \in Nat : q = req[t] BY <2>1
  <2>3. Done(t) = k * r + q BY <1>1, <1>2, <1>8, <2>2 DEF Done
  <2>4. d * r >= r
    <3>1. PICK f \in Nat : d = f + 1
      <4>1. d - 1 \in Nat /\ d = (d - 1) + 1 BY <2>1, <1>6
      <4> QED BY <4>1
    <3>2. d * r = f * r + r /\ f * r \in Nat BY <3>1
    <3> QED BY <3>2
  <2> QED BY <1>1, <1>4, <1>7, <1>8, <2>1, <2>2, <2>3, <2>4
<1>9. CASE tpc[t] \notin {"write", "read"}
  <2>1. Done(t) = k * r
    <3>1. Done(t) = k * r + 0 BY <1>1, <1>2, <1>9 DEF Done
    <3> QED BY <3>1, <1>7
  <2>2. tpc[t] = "exit" => k = c BY <1>2, <1>4 DEF Thread
  <2> QED BY <1>1, <1>4, <1>7, <1>9, <2>1, <2>2
<1> QED BY <1>8, <1>9

LEMMA LatInit == Init => LatInv
BY LoadClientAssumption
   DEF LoadClientAssumption, Init, LatInv, LatTypes, Before, ThreadsInv, SlotsInv, MainInv,
       Live

LEMMA ParseStep == ASSUME SaneInv, LatInv, Parse PROVE LatInv'
<1> USE DEF LatInv
<1>1. mpc = "parse" /\ mpc' \in {"alloc", "dead"} BY DEF Parse
<1>2. LatTypes' BY DEF Parse, LatTypes, workerVars
<1>3. ThreadsInv' /\ SlotsInv' /\ MainInv' BY <1>1 DEF ThreadsInv, SlotsInv, MainInv, Live
<1>4. Before'
  <2>1. CASE mpc' = "dead" BY <2>1 DEF Before
  <2>2. CASE mpc' = "alloc"
    <3>1. arg' = [arg EXCEPT !.connections = ToInt(@), !.requests = ToInt(@),
                     !.threads = Least(ToInt(@), ToInt(arg.connections))]
      BY <2>2 DEF Parse
    <3> HIDE DEF ToInt, Least
    <3>2. arg'.threads = Least(ToInt(arg.threads), ToInt(arg.connections))
      BY <3>1 DEF SaneInv
    <3>3. arg'.threads <= MaxThreads
      BY <1>1, <3>2, MaxThreadsAssumption DEF Before
    <3> QED BY <1>1, <2>2, <3>3 DEF Before, Parse, workerVars
  <2> QED BY <1>1, <2>1, <2>2
<1> QED BY <1>2, <1>3, <1>4

LEMMA AllocStep == ASSUME SaneInv, SaneInv', LatInv, Alloc PROVE LatInv'
<1> USE DEF LatInv
<1>1. mpc = "alloc" /\ mpc' \in {"undefined", "dead", "spawn"} /\ arg' = arg BY DEF Alloc
<1>2. LatTypes' BY DEF Alloc, LatTypes
<1>3. Before' BY <1>1 DEF Alloc, Before
<1>4. CASE mpc' # "spawn"
  BY <1>1, <1>2, <1>3, <1>4 DEF ThreadsInv, SlotsInv, MainInv, Live
<1>5. CASE mpc' = "spawn"
  <2>1. latencies' = [s \in 0 .. 2 * TotalRequests |-> 0] BY <1>1, <1>5 DEF Alloc
  <2>2. ArgType /\ Sane BY <1>1, <1>5 DEF SaneInv, ArgType, Sane
  <2>3. i' = 0 /\ offset' = 0 /\ total' = 0 /\ TotalRequests' = TotalRequests
    BY <1>1, ArgFrame DEF Alloc, Before
  <2>4. \A t \in Tids : t \in Nat BY LoadClientAssumption DEF LoadClientAssumption, Tids
  <2>5. \A t \in Tids : ~Started(t)' BY <1>5, <2>3, <2>4 DEF Started
  <2>6. ThreadsInv'
    <3>1. \A t \in Tids : tpc'[t] = "idle" /\ conn_index'[t] = 0
      BY <1>1 DEF Alloc, SaneInv, Before
    <3> QED BY <2>5, <3>1 DEF ThreadsInv
  <2>7. \A s : ~Stored(s)' BY <2>5 DEF Stored
  <2> HIDE DEF TotalRequests
  <2>8. SlotsInv' BY <2>1, <2>3, <2>7 DEF SlotsInv
  <2>9. Pos(0)' = 0 /\ Off(0)' = 0 BY <1>1, <2>2, ArgFrame, PosFacts, OffFacts
  <2>10. MainInv'
    <3>1. i' <= arg'.threads BY <1>1, <2>2, <2>3 DEF ArgType, Sane
    <3>2. \A s \in Nat : ~(s < Pos(i)')
      BY <2>3, <2>9 DEF Pos, Off
    <3>3. offset' = Off(i)' BY <2>3, <2>9 DEF Off
    <3> QED BY <1>5, <2>3, <3>1, <3>2, <3>3 DEF MainInv, Covered
  <2> QED BY <1>2, <1>3, <2>6, <2>8, <2>10
<1> QED BY <1>4, <1>5

LEMMA SpawnStep == ASSUME SaneInv, LatInv, Spawn PROVE LatInv'
<1> USE DEF LatInv
<1>0. PICK k \in Nat : k = i BY DEF LatTypes
<1>1. mpc = "spawn" /\ mpc' = "spawn" /\ arg' = arg /\ k < arg.threads /\ i' = k + 1
        /\ total' = total /\ latencies' = latencies /\ conn_index' = conn_index /\ req' = req
        /\ tpc' = [tpc EXCEPT ![k] = "connect"] /\ offset' = offset + ConnCount(k)
  BY <1>0 DEF Spawn
<1>2. ArgType /\ Sane /\ offset = Off(k) /\ total = 0 /\ Covered(k)
  BY <1>0, <1>1 DEF SaneInv, ArgType, LatTypes, MainInv
<1>3. k \in Tids /\ \A t \in Tids : t \in Nat
  BY <1>1, <1>2, LoadClientAssumption DEF LoadClientAssumption, Tids, Before, ArgType
<1>4. PICK r \in Nat : r = arg.requests BY <1>2 DEF ArgType, Sane
<1>5. Pos(k) \in Nat /\ ConnCount(k) \in Nat /\ Off(k) \in Nat
        /\ Off(k + 1) = Off(k) + ConnCount(k)
  BY <1>2, PosFacts, OffFacts
<1>6. args' = [args EXCEPT ![k] = [connections |-> ConnCount(k), latency_offset |-> Pos(k),
                                   bytes |-> 0]]
  BY <1>0, <1>2 DEF Spawn, Pos, latency_offset
<1> HIDE DEF ConnCount, Pos, Off
<1>7. LatTypes' BY <1>1, <1>2, <1>3, <1>5, <1>6 DEF LatTypes
<1>8. Before' BY <1>1 DEF Before
<1>10. \A t \in Tids : t # k => (Started(t)' <=> Started(t))
  BY <1>0, <1>1, <1>2, <1>3 DEF Started
<1>11. Started(k)' /\ ~Started(k) BY <1>0, <1>1, <1>2 DEF Started
<1>12. tpc[k] = "idle" /\ conn_index[k] = 0
  BY <1>1, <1>3, <1>11 DEF ThreadsInv, Live
<1>13. Done(k) = 0
  <2>1. Done(k) = 0 * r + 0 BY <1>4, <1>12 DEF Done
  <2> QED BY <2>1
<1>9. \A t \in Tids : Done(t)' = Done(t)
  <2> SUFFICES ASSUME NEW t \in Tids PROVE Done(t)' = Done(t)
    OBVIOUS
  <2>1. CASE t = k BY <1>1, <1>3, <1>12, <2>1 DEF Done, LatTypes
  <2>2. CASE t # k BY <1>1, <2>2 DEF Done, LatTypes
  <2> QED BY <2>1, <2>2
<1>14. ThreadsInv'
  <2> SUFFICES ASSUME NEW t \in Tids
               PROVE  IF Started(t)' THEN Thread(t)' ELSE tpc'[t] = "idle" /\ conn_index'[t] = 0
    BY DEF ThreadsInv
  <2>1. CASE t = k
    <3>1. args'[k].connections = ConnCount(k) /\ args'[k].latency_offset = Pos(k)
            /\ args'[k].bytes = 0
      BY <1>1, <1>3, <1>6 DEF LatTypes
    <3>2. tpc'[k] = "connect" /\ conn_index'[k] = 0 BY <1>1, <1>3, <1>12 DEF LatTypes
    <3>3. Pos(k)' = Pos(k) /\ ConnCount(k)' = ConnCount(k) BY <1>1, ArgFrame
    <3>4. Done(k)' = 0 BY <1>3, <1>9, <1>13
    <3>5. (2 * arg.payload) * 0 = 0 BY <1>2 DEF ArgType
    <3>6. Thread(k)'
      BY <1>1, <1>5, <3>1, <3>2, <3>3, <3>4, <3>5 DEF Thread
    <3> QED BY <1>11, <2>1, <3>6
  <2>2. CASE t # k
    <3>1. args'[t] = args[t] /\ tpc'[t] = tpc[t] /\ conn_index'[t] = conn_index[t]
            /\ req'[t] = req[t]
      BY <1>1, <1>6, <2>2 DEF LatTypes
    <3>2. Thread(t) => Thread(t)'
      BY <1>1, <1>9, <3>1, ArgFrame DEF Thread
    <3> QED BY <1>1, <1>10, <2>2, <3>1, <3>2 DEF ThreadsInv, Live
  <2> QED BY <2>1, <2>2
<1>15. \A t \in Tids : Pos(t)' = Pos(t) /\ Pos(t + 1)' = Pos(t + 1)
  BY <1>1, ArgFrame
<1>16. \A s \in Int : Stored(s)' <=> Stored(s)
  <2> SUFFICES ASSUME NEW s \in Int, NEW t \in Tids
               PROVE  (Started(t)' /\ Pos(t)' <= s /\ s < Pos(t)' + Done(t)')
                        <=> (Started(t) /\ Pos(t) <= s /\ s < Pos(t) + Done(t))
    BY DEF Stored
  <2>1. CASE t = k
    <3>1. Pos(k)' = Pos(k) /\ Done(k)' = 0 BY <1>3, <1>9, <1>13, <1>15
    <3>2. ~(Pos(k) <= s /\ s < Pos(k) + 0) BY <1>5
    <3> QED BY <1>11, <2>1, <3>1, <3>2
  <2>2. CASE t # k BY <1>9, <1>10, <1>15, <2>2
  <2> QED BY <2>1, <2>2
<1>17. SlotsInv'
  <2>1. TotalRequests' = TotalRequests BY <1>1, ArgFrame
  <2>2. TotalRequests \in Nat BY <1>2, PosFacts
  <2> HIDE DEF TotalRequests
  <2> QED BY <1>1, <1>16, <2>1, <2>2 DEF SlotsInv, Live
<1>18. MainInv'
  <2>1. offset' = Off(k + 1) /\ Off(k + 1)' = Off(k + 1) /\ Pos(k + 1)' = Pos(k + 1)
    BY <1>1, <1>2, <1>5, ArgFrame
  <2>2. \A s \in Nat : s < Pos(k + 1) =>
          \E t \in Tids : Started(t)' /\ Pos(t)' <= s /\ s < Pos(t + 1)'
    <3> SUFFICES ASSUME NEW s \in Nat, s < Pos(k + 1)
                 PROVE  \E t \in Tids : Started(t)' /\ Pos(t)' <= s /\ s < Pos(t + 1)'
      OBVIOUS
    <3>1. CASE s < Pos(k)
      <4>1. PICK t \in Tids : Started(t) /\ Pos(t) <= s /\ s < Pos(t + 1)
        BY <1>2, <3>1 DEF Covered
      <4>2. t # k BY <4>1, <1>11
      <4> QED BY <1>10, <1>15, <4>1, <4>2
    <3>2. CASE ~(s < Pos(k))
      <4>1. Pos(k) <= s BY <1>5, <3>2
      <4> QED BY <1>3, <1>11, <1>15, <4>1
    <3> QED BY <3>1, <3>2
  <2>3. Covered(k + 1)' BY <2>1, <2>2 DEF Covered
  <2>4. Covered(i)' /\ offset' = Off(i)'
    BY <1>1, <2>1, <2>3 DEF Covered, Pos, Off
  <2>5. i' <= arg'.threads BY <1>1, <1>2 DEF ArgType
  <2> QED BY <1>1, <1>2, <2>4, <2>5 DEF MainInv
<1> QED BY <1>7, <1>8, <1>14, <1>17, <1>18

\* No range moves when main goes on and no thread does anything.
LEMMA StoredFrame ==
    ASSUME arg' = arg, conn_index' = conn_index, tpc' = tpc, req' = req,
           \A t \in Tids : Started(t)' <=> Started(t)
    PROVE  /\ \A t : Done(t)' = Done(t)
           /\ \A s : Stored(s)' <=> Stored(s)
           /\ \A n : Covered(n) => Covered(n)'
<1>1. \A t : Done(t)' = Done(t) BY DEF Done
<1>2. \A t : Pos(t)' = Pos(t) BY ArgFrame
<1> QED BY <1>1, <1>2 DEF Stored, Covered

LEMMA AllSpawnedStep == ASSUME SaneInv, LatInv, AllSpawned PROVE LatInv'
<1> USE DEF LatInv
<1>1. mpc = "spawn" /\ mpc' = "join" /\ i = arg.threads /\ i' = 0
        /\ UNCHANGED <<arg, offset, total, args, tpc, conn_index, req, latencies>>
  BY DEF AllSpawned, workerVars
<1>2. ArgType /\ Sane BY <1>1 DEF SaneInv, ArgType
<1>3. \A t \in Tids : t \in Nat BY LoadClientAssumption DEF LoadClientAssumption, Tids
<1>4. \A t \in Tids : Started(t)' <=> Started(t) BY <1>1 DEF Started
<1>5. LatTypes' BY <1>1 DEF LatTypes
<1>6. Before' BY <1>1 DEF Before
<1>7. \A t \in Tids : Thread(t) => Thread(t)' BY <1>1, <1>4, ArgFrame, StoredFrame DEF Thread
<1>8. ThreadsInv' BY <1>1, <1>4, <1>7 DEF ThreadsInv, Live
<1>9. TotalRequests' = TotalRequests BY <1>1, ArgFrame
<1>10. \A s : Stored(s)' <=> Stored(s) BY <1>1, <1>4, StoredFrame
<1>11. SlotsInv'
  <2> HIDE DEF TotalRequests
  <2> QED BY <1>1, <1>9, <1>10 DEF SlotsInv, Live
<1>12. MainInv'
  <2>1. PICK n \in Nat : n = arg.threads BY <1>2 DEF ArgType, Sane
  <2>2. Covered(n)' BY <1>1, <1>4, <2>1, StoredFrame DEF MainInv
  <2>3. Covered(arg.threads)' BY <1>1, <2>1, <2>2 DEF Covered, Pos, Off
  <2>4. Pos(0)' = 0 BY <1>1, <1>2, PosFacts, ArgFrame
  <2>5. Pos(i)' = 0 BY <1>1, <2>4 DEF Pos, Off
  <2>6. (2 * arg.payload) * 0 = 0 BY <1>2 DEF ArgType
  <2>7. total' = (2 * arg'.payload) * Pos(i)' BY <1>1, <2>5, <2>6 DEF MainInv
  <2> QED BY <1>1, <1>3, <2>1, <2>3, <2>7 DEF MainInv
<1> QED BY <1>5, <1>6, <1>8, <1>11, <1>12

LEMMA JoinStep == ASSUME SaneInv, LatInv, Join PROVE LatInv'
<1> USE DEF LatInv
<1>1. PICK k \in Nat : k = i BY DEF LatTypes
<1>2. mpc = "join" /\ mpc' = "join" /\ k < arg.threads /\ i' = k + 1 /\ tpc[k] = "exit"
        /\ total' = total + args[k].bytes
        /\ UNCHANGED <<arg, offset, args, tpc, conn_index, req, latencies>>
  BY <1>1 DEF Join, Returned, workerVars
<1>3. ArgType /\ Sane BY <1>2 DEF SaneInv, ArgType
<1>4. k \in Tids /\ \A t \in Tids : t \in Nat
  BY <1>2, <1>3, LoadClientAssumption DEF LoadClientAssumption, Tids, Before, ArgType
<1>5. \A t \in Tids : Started(t)' <=> Started(t) BY <1>2 DEF Started
<1>6. LatTypes' BY <1>2, <1>4 DEF LatTypes
<1>7. Before' BY <1>2 DEF Before
<1>8. \A t \in Tids : Thread(t) => Thread(t)' BY <1>2, <1>5, ArgFrame, StoredFrame DEF Thread
<1>9. ThreadsInv' BY <1>2, <1>5, <1>8 DEF ThreadsInv, Live
<1>10. TotalRequests' = TotalRequests BY <1>2, ArgFrame
<1>11. \A s : Stored(s)' <=> Stored(s) BY <1>2, <1>5, StoredFrame
<1>12. SlotsInv'
  <2> HIDE DEF TotalRequests
  <2> QED BY <1>2, <1>10, <1>11 DEF SlotsInv, Live
<1>13. total' = (2 * arg.payload) * Pos(k + 1)
  <2>1. Thread(k) BY <1>2, <1>4 DEF ThreadsInv, Live, Started
  <2>2. PICK d \in Nat : d = ConnCount(k) * arg.requests BY <1>3, PosFacts
  <2>3. PICK x \in Nat : x = Pos(k) BY <1>3, PosFacts
  <2>4. PICK m \in Nat : m = 2 * arg.payload BY <1>3 DEF ArgType
  <2>5. Done(k) = d BY <1>2, <1>3, <1>4, <2>1, <2>2, DoneBounds
  <2>6. args[k].bytes = m * d BY <2>1, <2>4, <2>5 DEF Thread
  <2>7. total = m * x BY <1>1, <1>2, <2>3, <2>4 DEF MainInv
  <2>8. Pos(k + 1) = x + d BY <1>3, <2>2, <2>3, PosFacts
  <2>9. m * (x + d) = m * x + m * d OBVIOUS
  <2> QED BY <1>2, <2>4, <2>6, <2>7, <2>8, <2>9
<1>14. MainInv'
  <2>1. PICK n \in Nat : n = arg.threads BY <1>3 DEF ArgType, Sane
  <2>2. Covered(n)' BY <1>2, <1>5, <2>1, StoredFrame DEF MainInv
  <2>3. Covered(arg.threads)' BY <1>2, <2>1, <2>2 DEF Covered, Pos, Off
  <2>4. Pos(k + 1)' = Pos(k + 1) BY <1>2, ArgFrame
  <2>5. Pos(i)' = Pos(k + 1) BY <1>2, <2>4 DEF Pos, Off
  <2>6. total' = (2 * arg'.payload) * Pos(i)' BY <1>2, <1>13, <2>5
  <2>7. \A t \in Tids : t < k + 1 => tpc'[t] = "exit"
    <3>1. \A t \in Tids : t < k + 1 => t < k \/ t = k BY <1>4
    <3> QED BY <1>1, <1>2, <3>1 DEF MainInv
  <2>8. i' <= arg'.threads BY <1>2, <2>1
  <2> QED BY <1>2, <2>3, <2>6, <2>7, <2>8 DEF MainInv
<1> QED BY <1>6, <1>7, <1>9, <1>12, <1>14

LEMMA AllJoinedStep == ASSUME SaneInv, LatInv, AllJoined PROVE LatInv'
<1> USE DEF LatInv
<1>1. mpc = "join" /\ mpc' \in {"done", "dead"} /\ i = arg.threads
        /\ UNCHANGED <<arg, i, offset, total, args, tpc, conn_index, req, latencies>>
  BY DEF AllJoined, workerVars
<1>2. LatTypes' /\ Before' BY <1>1 DEF LatTypes, Before
<1>3. CASE mpc' = "dead"
  BY <1>2, <1>3 DEF ThreadsInv, SlotsInv, MainInv, Live
<1>4. CASE mpc' = "done"
  <2>1. \A t \in Tids : Started(t)' <=> Started(t) BY <1>1, <1>4 DEF Started
  <2>2. \A t \in Tids : Thread(t) => Thread(t)' BY <1>1, <2>1, ArgFrame, StoredFrame DEF Thread
  <2>3. ThreadsInv' BY <1>1, <2>1, <2>2 DEF ThreadsInv, Live
  <2>4. TotalRequests' = TotalRequests BY <1>1, ArgFrame
  <2>5. \A s : Stored(s)' <=> Stored(s) BY <1>1, <2>1, StoredFrame
  <2>6. SlotsInv'
    <3> HIDE DEF TotalRequests
    <3> QED BY <1>1, <2>4, <2>5 DEF SlotsInv, Live
  <2>7. Covered(arg.threads)'
    <3>1. \A n : Covered(n) => Covered(n)' BY <1>1, <2>1, StoredFrame
    <3>2. PICK n : n = arg.threads OBVIOUS
    <3>3. Covered(n)' BY <1>1, <3>1, <3>2 DEF MainInv
    <3> QED BY <1>1, <3>2, <3>3 DEF Covered, Pos, Off
  <2>8. Pos(i)' = Pos(i) BY <1>1 DEF Pos, Off
  <2> QED BY <1>1, <1>2, <1>4, <2>3, <2>6, <2>7, <2>8 DEF MainInv
<1> QED BY <1>1, <1>3, <1>4

\* What main and the other threads keep while thread t runs.
LEMMA WorkerFrame ==
    ASSUME SaneInv, LatInv, Running, mainVars' = mainVars, NEW t \in Tids,
           tpc[t] \notin {"idle", "exit"}, LatTypes',
           \A u \in Tids : u # t => /\ args'[u] = args[u] /\ tpc'[u] = tpc[u]
                                    /\ conn_index'[u] = conn_index[u] /\ req'[u] = req[u]
    PROVE  /\ ArgType /\ Sane /\ arg' = arg /\ Before' /\ MainInv'
           /\ Started(t) /\ Thread(t)
           /\ \A u \in Tids : Started(u)' <=> Started(u)
           /\ \A u \in Tids : u # t => Done(u)' = Done(u)
           /\ Thread(t)' => ThreadsInv'
<1> USE DEF LatInv
<1>1. UNCHANGED <<arg, mpc, i, offset, total>> /\ mpc \in {"spawn", "join"}
  BY DEF mainVars, Running
<1>2. ArgType /\ Sane BY <1>1 DEF SaneInv, ArgType
<1>3. Started(t) /\ Thread(t) BY <1>1 DEF ThreadsInv, Live
<1>4. \A u \in Tids : Started(u)' <=> Started(u) BY <1>1 DEF Started
<1>5. \A u \in Tids : u # t => Done(u)' = Done(u) BY <1>1 DEF Done
<1>6. Thread(t)' => ThreadsInv'
  <2> SUFFICES ASSUME Thread(t)', NEW u \in Tids
               PROVE  IF Started(u)' THEN Thread(u)' ELSE tpc'[u] = "idle" /\ conn_index'[u] = 0
    BY DEF ThreadsInv
  <2>1. CASE u = t BY <1>3, <1>4, <2>1
  <2>2. CASE u # t
    <3>1. Thread(u) => Thread(u)' BY <1>1, <1>5, <2>2, ArgFrame DEF Thread
    <3> QED BY <1>1, <1>4, <2>2, <3>1 DEF ThreadsInv, Live
  <2> QED BY <2>1, <2>2
<1>7. Before'
  <2>1. mpc' \in {"spawn", "join"} BY <1>1
  <2> QED BY <1>1, <2>1 DEF Before
<1>8. \A n : Covered(n) => Covered(n)'
  <2>1. \A u : Pos(u)' = Pos(u) BY <1>1, ArgFrame
  <2> QED BY <1>4, <2>1 DEF Covered
<1>9. MainInv'
  <2>1. PICK k, n : k = i /\ n = arg.threads OBVIOUS
  <2>2. Covered(i)' <=> Covered(k)' BY <1>1, <2>1 DEF Covered, Pos, Off
  <2>3. Covered(arg.threads)' <=> Covered(n)' BY <1>1, <2>1 DEF Covered, Pos, Off
  <2>4. Off(i)' = Off(i) /\ Pos(i)' = Pos(i) BY <1>1 DEF Off, Pos
  <2>5. CASE mpc = "spawn" BY <1>1, <1>8, <2>1, <2>2, <2>4, <2>5 DEF MainInv
  <2>6. CASE mpc = "join"
    <3>1. Covered(arg.threads)' BY <1>8, <2>1, <2>3, <2>6 DEF MainInv
    <3>2. ~(t < i) BY <2>6 DEF MainInv
    <3>3. \A u \in Tids : u < i => tpc'[u] = "exit" BY <2>6, <3>2 DEF MainInv
    <3> QED BY <1>1, <2>4, <2>6, <3>1, <3>3 DEF MainInv
  <2> QED BY <1>1, <2>5, <2>6
<1> QED BY <1>1, <1>2, <1>3, <1>4, <1>5, <1>6, <1>7, <1>9

\* A step of thread t that completes no request.
LEMMA QuietStep ==
    ASSUME SaneInv, LatInv, Running, mainVars' = mainVars, args' = args,
           latencies' = latencies, NEW t \in Tids, tpc[t] \notin {"idle", "exit"}, LatTypes',
           \A u \in Tids : u # t => /\ tpc'[u] = tpc[u] /\ conn_index'[u] = conn_index[u]
                                    /\ req'[u] = req[u],
           Thread(t)', Done(t)' = Done(t)
    PROVE  LatInv'
<1>1. ArgType /\ Sane /\ arg' = arg /\ Before' /\ MainInv' /\ ThreadsInv'
        /\ (\A u \in Tids : Started(u)' <=> Started(u))
        /\ (\A u \in Tids : u # t => Done(u)' = Done(u))
  BY WorkerFrame
<1>2. \A u : Pos(u)' = Pos(u) BY <1>1, ArgFrame
<1>3. \A s : Stored(s)' <=> Stored(s) BY <1>1, <1>2 DEF Stored
<1>4. SlotsInv'
  <2>1. TotalRequests' = TotalRequests /\ Live BY <1>1, ArgFrame DEF Live, Running
  <2> HIDE DEF TotalRequests
  <2> QED BY <1>3, <2>1 DEF SlotsInv, LatInv
<1> QED BY <1>1, <1>4 DEF LatInv

LEMMA ConnectStep == ASSUME SaneInv, LatInv, NEW t \in Tids, Connect(t) PROVE LatInv'
<1> USE DEF LatInv
<1>1. Running /\ mainVars' = mainVars /\ args' = args /\ latencies' = latencies
        /\ tpc[t] = "connect" /\ conn_index[t] < args[t].connections
        /\ req' = [req EXCEPT ![t] = 0] /\ arg' = arg
  BY DEF Connect, mainVars
<1>2. \/ arg.requests > 0 /\ tpc' = [tpc EXCEPT ![t] = "write"] /\ conn_index' = conn_index
      \/ /\ ~(arg.requests > 0) /\ conn_index' = [conn_index EXCEPT ![t] = @ + 1]
         /\ tpc' = tpc
  BY DEF Connect
<1>3. LatTypes'
  <2>1. tpc' \in [Tids -> {"idle", "connect", "write", "read", "exit"}]
    BY <1>2 DEF LatTypes
  <2>2. conn_index' \in [Tids -> Nat] BY <1>2 DEF LatTypes
  <2>3. req' \in [Tids -> Nat] BY <1>1 DEF LatTypes
  <2> QED BY <1>1, <2>1, <2>2, <2>3 DEF LatTypes, mainVars
<1>4. \A u \in Tids : u # t => /\ args'[u] = args[u] /\ tpc'[u] = tpc[u]
                               /\ conn_index'[u] = conn_index[u] /\ req'[u] = req[u]
  BY <1>1, <1>2 DEF LatTypes
<1>5. ArgType /\ Sane /\ Thread(t) BY <1>1, <1>3, <1>4, WorkerFrame
<1>6. PICK r \in Nat : r = arg.requests BY <1>5 DEF ArgType, Sane
<1>7. PICK k \in Nat : k = conn_index[t] BY DEF LatTypes
<1>8. t \in Nat BY LoadClientAssumption DEF LoadClientAssumption, Tids
<1>9. PICK c \in Nat : c = ConnCount(t) BY <1>5, <1>8, PosFacts
<1>10. k < c /\ ConnCount(t)' = c /\ Pos(t)' = Pos(t)
  BY <1>1, <1>5, <1>7, <1>9, ArgFrame DEF Thread
<1>11. Done(t) = k * r + 0 BY <1>1, <1>6, <1>7 DEF Done
<1>12. CASE arg.requests > 0 /\ tpc' = [tpc EXCEPT ![t] = "write"] /\ conn_index' = conn_index
  <2>1. tpc'[t] = "write" /\ req'[t] = 0 /\ conn_index'[t] = k /\ args'[t] = args[t]
    BY <1>1, <1>7, <1>12 DEF LatTypes
  <2>2. Done(t)' = k * r + 0 BY <1>1, <1>6, <2>1 DEF Done
  <2>3. Done(t)' = Done(t) BY <1>11, <2>2
  <2>4. Thread(t)' BY <1>1, <1>5, <1>9, <1>10, <1>12, <2>1, <2>3 DEF Thread
  <2> QED BY <1>1, <1>3, <1>4, <2>3, <2>4, QuietStep
<1>13. CASE /\ ~(arg.requests > 0) /\ conn_index' = [conn_index EXCEPT ![t] = @ + 1]
            /\ tpc' = tpc
  <2>1. tpc'[t] = "connect" /\ conn_index'[t] = k + 1 /\ args'[t] = args[t]
    BY <1>1, <1>7, <1>13 DEF LatTypes
  <2>2. r = 0 BY <1>6, <1>13
  <2>3. Done(t)' = (k + 1) * r + 0 BY <1>1, <1>6, <2>1 DEF Done
  <2>4. (k + 1) * 0 = 0 /\ k * 0 = 0 OBVIOUS
  <2>5. Done(t)' = Done(t) BY <1>11, <2>2, <2>3, <2>4
  <2>6. Thread(t)' BY <1>1, <1>5, <1>9, <1>10, <2>1, <2>5 DEF Thread
  <2> QED BY <1>1, <1>3, <1>4, <2>5, <2>6, QuietStep
<1> QED BY <1>2, <1>12, <1>13

LEMMA ReturnsStep == ASSUME SaneInv, LatInv, NEW t \in Tids, WorkerReturns(t) PROVE LatInv'
<1> USE DEF LatInv
<1>1. Running /\ mainVars' = mainVars /\ args' = args /\ latencies' = latencies
        /\ tpc[t] = "connect" /\ conn_index[t] = args[t].connections
        /\ tpc' = [tpc EXCEPT ![t] = "exit"] /\ arg' = arg
        /\ conn_index' = conn_index /\ req' = req
  BY DEF WorkerReturns, mainVars
<1>2. LatTypes' BY <1>1 DEF LatTypes, mainVars
<1>3. \A u \in Tids : u # t => /\ args'[u] = args[u] /\ tpc'[u] = tpc[u]
                               /\ conn_index'[u] = conn_index[u] /\ req'[u] = req[u]
  BY <1>1 DEF LatTypes
<1>4. ArgType /\ Thread(t) BY <1>1, <1>2, <1>3, WorkerFrame
<1>5. tpc'[t] = "exit" BY <1>1 DEF LatTypes
<1>6. Done(t)' = Done(t) BY <1>1, <1>5 DEF Done
<1>7. ConnCount(t)' = ConnCount(t) /\ Pos(t)' = Pos(t) BY <1>1, ArgFrame
<1>8. Thread(t)' BY <1>1, <1>4, <1>5, <1>6, <1>7 DEF Thread
<1> QED BY <1>1, <1>2, <1>3, <1>6, <1>8, QuietStep

LEMMA WriteReadStep ==
    ASSUME SaneInv, LatInv, NEW t \in Tids, Write(t) \/ Read(t) PROVE LatInv'
<1> USE DEF LatInv
<1>1. Running /\ mainVars' = mainVars /\ args' = args /\ latencies' = latencies
        /\ tpc[t] \in {"write", "read"} /\ arg' = arg
        /\ conn_index' = conn_index /\ req' = req
        /\ (tpc' = tpc \/ tpc' = [tpc EXCEPT ![t] = "read"])
  BY DEF Write, Read, mainVars
<1>2. LatTypes' BY <1>1 DEF LatTypes, mainVars
<1>3. \A u \in Tids : u # t => /\ args'[u] = args[u] /\ tpc'[u] = tpc[u]
                               /\ conn_index'[u] = conn_index[u] /\ req'[u] = req[u]
  BY <1>1 DEF LatTypes
<1>4. ArgType /\ Thread(t) BY <1>1, <1>2, <1>3, WorkerFrame
<1>5. tpc'[t] \in {"write", "read"} BY <1>1 DEF LatTypes
<1>6. Done(t)' = Done(t) BY <1>1, <1>5 DEF Done
<1>7. ConnCount(t)' = ConnCount(t) /\ Pos(t)' = Pos(t) BY <1>1, ArgFrame
<1>8. Thread(t)' BY <1>1, <1>4, <1>5, <1>6, <1>7 DEF Thread
<1> QED BY <1>1, <1>2, <1>3, <1>6, <1>8, QuietStep

\* No two threads have a slot in common.
LEMMA Disjoint ==
    ASSUME ArgType, Sane, LatTypes, NEW t \in Tids, NEW u \in Tids, Thread(t), Thread(u),
           NEW s \in Int, Pos(t) <= s, s < Pos(t + 1), Pos(u) <= s, s < Pos(u) + Done(u)
    PROVE  t = u
<1>1. t \in Nat /\ u \in Nat BY LoadClientAssumption DEF LoadClientAssumption, Tids
<1>2. Pos(t) \in Nat /\ Pos(u) \in Nat /\ Pos(t + 1) \in Nat /\ Pos(u + 1) \in Nat
  BY <1>1, PosFacts
<1>3. PICK d \in Nat : d = ConnCount(u) * arg.requests BY <1>1, PosFacts
<1>4. Done(u) \in Nat /\ Done(u) <= d BY <1>3, DoneBounds
<1>5. Pos(u + 1) = Pos(u) + d BY <1>1, <1>3, PosFacts
<1>6. s < Pos(u + 1) BY <1>2, <1>4, <1>5
<1>7. ~(t < u)
  <2>1. t < u => Pos(t + 1) <= Pos(u) BY <1>1, PosFacts
  <2> QED BY <1>2, <2>1
<1>8. ~(u < t)
  <2>1. u < t => Pos(u + 1) <= Pos(t) BY <1>1, PosFacts
  <2> QED BY <1>2, <1>6, <2>1
<1> QED BY <1>1, <1>7, <1>8

\* A thread's range ends within the array.
LEMMA RangeInArray ==
    ASSUME ArgType, Sane, NEW t \in Tids, Started(t)
    PROVE  Pos(t + 1) <= TotalRequests
<1>1. t \in Nat BY LoadClientAssumption DEF LoadClientAssumption, Tids
<1>2. PICK n \in Nat : n = arg.threads BY DEF ArgType, Sane
<1>3. t < n BY <1>2 DEF Started
<1>4. Pos(t + 1) <= Pos(n) BY <1>1, <1>3, PosFacts
<1>5. Pos(n) = TotalRequests BY <1>2, PosFacts
<1> QED BY <1>4, <1>5

LEMMA CompleteStep == ASSUME SaneInv, LatInv, NEW t \in Tids, Complete(t) PROVE LatInv'
<1> USE DEF LatInv
<1>1. Running /\ mainVars' = mainVars /\ tpc[t] = "read" /\ arg' = arg
        /\ latencies' = [latencies EXCEPT ![Slot(t)] = @ + 1]
        /\ args' = [args EXCEPT ![t].bytes = @ + 2 * arg.payload]
        /\ req' = [req EXCEPT ![t] = @ + 1]
  BY DEF Complete, mainVars
<1>2. \/ /\ req[t] + 1 < arg.requests /\ tpc' = [tpc EXCEPT ![t] = "write"]
         /\ conn_index' = conn_index
      \/ /\ ~(req[t] + 1 < arg.requests) /\ tpc' = [tpc EXCEPT ![t] = "connect"]
         /\ conn_index' = [conn_index EXCEPT ![t] = @ + 1]
  BY DEF Complete
<1>3. 2 * arg.payload \in Nat BY <1>1 DEF SaneInv
<1>4. LatTypes'
  <2>1. args' \in [Tids -> [connections : Nat, latency_offset : Nat, bytes : Nat]]
    BY <1>1, <1>3 DEF LatTypes
  <2>2. tpc' \in [Tids -> {"idle", "connect", "write", "read", "exit"}]
    BY <1>2 DEF LatTypes
  <2>3. conn_index' \in [Tids -> Nat] BY <1>2 DEF LatTypes
  <2>4. req' \in [Tids -> Nat] BY <1>1 DEF LatTypes
  <2> QED BY <1>1, <2>1, <2>2, <2>3, <2>4 DEF LatTypes, mainVars
<1>5. \A u \in Tids : u # t => /\ args'[u] = args[u] /\ tpc'[u] = tpc[u]
                               /\ conn_index'[u] = conn_index[u] /\ req'[u] = req[u]
  BY <1>1, <1>2 DEF LatTypes
<1>6. /\ ArgType /\ Sane /\ Before' /\ MainInv' /\ Started(t) /\ Thread(t)
      /\ (\A u \in Tids : Started(u)' <=> Started(u))
      /\ (\A u \in Tids : u # t => Done(u)' = Done(u))
      /\ (Thread(t)' => ThreadsInv')
  BY <1>1, <1>4, <1>5, WorkerFrame
<1>7. t \in Nat BY LoadClientAssumption DEF LoadClientAssumption, Tids
<1>8. PICK r \in Nat : r = arg.requests BY <1>6 DEF ArgType, Sane
<1>9. PICK k \in Nat : k = conn_index[t] BY DEF LatTypes
<1>10. PICK q \in Nat : q = req[t] BY DEF LatTypes
<1>11. PICK c \in Nat : c = ConnCount(t) BY <1>6, <1>7, PosFacts
<1>12. q < r /\ k < c BY <1>1, <1>6, <1>8, <1>9, <1>10, <1>11 DEF Thread
<1>13. Done(t) = k * r + q /\ k * r \in Nat
  <2>1. k * r \in Nat OBVIOUS
  <2> QED BY <1>1, <1>8, <1>9, <1>10, <2>1 DEF Done
<1>14. PICK n \in Nat : n = Done(t) BY <1>13
<1>15. Done(t)' = n + 1
  <2>1. CASE /\ q + 1 < r /\ tpc' = [tpc EXCEPT ![t] = "write"] /\ conn_index' = conn_index
    <3>1. tpc'[t] = "write" /\ conn_index'[t] = k /\ req'[t] = q + 1
      BY <1>1, <1>9, <1>10, <2>1 DEF LatTypes
    <3>2. Done(t)' = k * r + (q + 1) BY <1>1, <1>8, <3>1 DEF Done
    <3> QED BY <1>13, <1>14, <3>2
  <2>2. CASE /\ ~(q + 1 < r) /\ tpc' = [tpc EXCEPT ![t] = "connect"]
             /\ conn_index' = [conn_index EXCEPT ![t] = @ + 1]
    <3>1. tpc'[t] = "connect" /\ conn_index'[t] = k + 1 BY <1>9, <2>2 DEF LatTypes
    <3>2. Done(t)' = (k + 1) * r + 0 BY <1>1, <1>8, <3>1 DEF Done
    <3>3. (k + 1) * r = k * r + r OBVIOUS
    <3>4. r = q + 1 BY <1>12, <2>2
    <3> QED BY <1>13, <1>14, <3>2, <3>3, <3>4
  <2> QED BY <1>2, <1>8, <1>10, <2>1, <2>2
<1>16. Thread(t)'
  <2>1. PICK m \in Nat : m = 2 * arg.payload BY <1>3
  <2>2. args'[t].bytes = args[t].bytes + m /\ args'[t].connections = args[t].connections
          /\ args'[t].latency_offset = args[t].latency_offset
    BY <1>1, <2>1 DEF LatTypes
  <2>3. args[t].bytes = m * n BY <1>6, <1>14, <2>1 DEF Thread
  <2>4. m * (n + 1) = m * n + m OBVIOUS
  <2>5. args'[t].bytes = (2 * arg'.payload) * Done(t)'
    BY <1>1, <1>15, <2>1, <2>2, <2>3, <2>4
  <2>6. ConnCount(t)' = c /\ Pos(t)' = Pos(t) BY <1>1, <1>11, ArgFrame
  <2>7. \/ tpc'[t] = "write" /\ req'[t] = q + 1 /\ q + 1 < r /\ conn_index'[t] = k
        \/ tpc'[t] = "connect" /\ conn_index'[t] = k + 1
    BY <1>1, <1>2, <1>8, <1>9, <1>10 DEF LatTypes
  <2>8. args'[t].connections = ConnCount(t)' /\ args'[t].latency_offset = Pos(t)'
    BY <1>6, <1>11, <2>2, <2>6 DEF Thread
  <2> QED BY <1>1, <1>8, <1>12, <2>5, <2>6, <2>7, <2>8 DEF Thread
<1>17. Pos(t) \in Nat /\ TotalRequests \in Nat /\ ConnCount(t) * arg.requests \in Nat
         /\ Pos(t + 1) = Pos(t) + ConnCount(t) * arg.requests
  BY <1>6, <1>7, PosFacts
<1>18. PICK s0 \in Nat : s0 = Pos(t) + n BY <1>17
<1>19. Slot(t) = s0
  <2>1. args[t].latency_offset = Pos(t) BY <1>6 DEF Thread
  <2>2. Slot(t) = (Pos(t) + k * r) + q BY <1>8, <1>9, <1>10, <2>1 DEF Slot
  <2> QED BY <1>13, <1>14, <1>17, <1>18, <2>2
<1>20. s0 < Pos(t + 1) /\ s0 \in 0 .. 2 * TotalRequests
  <2>1. n < ConnCount(t) * arg.requests BY <1>1, <1>6, <1>14, DoneBounds
  <2>2. s0 < Pos(t + 1) BY <1>17, <1>18, <2>1
  <2>3. Pos(t + 1) <= TotalRequests BY <1>6, RangeInArray
  <2>4. Pos(t + 1) \in Nat BY <1>17
  <2> HIDE DEF TotalRequests
  <2> QED BY <1>17, <2>2, <2>3, <2>4
<1>21. ~Stored(s0)
  <2> SUFFICES ASSUME NEW u \in Tids, Started(u), Pos(u) <= s0, s0 < Pos(u) + Done(u)
               PROVE  FALSE
    BY DEF Stored
  <2>1. Thread(u) BY <1>1 DEF Running, ThreadsInv, Live
  <2>2. Pos(t) <= s0 BY <1>17, <1>18
  <2>3. t = u BY <1>6, <1>20, <2>1, <2>2, Disjoint
  <2> QED BY <1>14, <1>17, <1>18, <2>3
<1>22. \A u : Pos(u)' = Pos(u) BY <1>1, ArgFrame
<1>23. \A s \in Int : Stored(s)' <=> Stored(s) \/ s = s0
  <2> SUFFICES ASSUME NEW s \in Int PROVE Stored(s)' <=> Stored(s) \/ s = s0
    OBVIOUS
  <2>1. (Pos(t) <= s /\ s < Pos(t) + (n + 1)) <=> (Pos(t) <= s /\ s < Pos(t) + n) \/ s = s0
    BY <1>17, <1>18
  <2>2. (Pos(t)' <= s /\ s < Pos(t)' + Done(t)')
          <=> (Pos(t) <= s /\ s < Pos(t) + Done(t)) \/ s = s0
    BY <1>14, <1>15, <1>22, <2>1
  <2>3. \A u \in Tids : u # t => (Started(u)' /\ Pos(u)' <= s /\ s < Pos(u)' + Done(u)'
                                   <=> Started(u) /\ Pos(u) <= s /\ s < Pos(u) + Done(u))
    BY <1>6, <1>22
  <2> HIDE DEF Started, Done, Pos
  <2> QED BY <1>6, <2>2, <2>3 DEF Stored
<1>24. SlotsInv'
  <2>1. TotalRequests' = TotalRequests /\ Live BY <1>1, ArgFrame DEF Live, Running
  <2>2. \A s \in 0 .. 2 * TotalRequests : s \in Int BY <1>17
  <2> HIDE DEF TotalRequests
  <2>3. latencies[s0] = 0 BY <1>20, <1>21, <2>1 DEF SlotsInv
  <2>4. DOMAIN latencies = 0 .. 2 * TotalRequests BY <2>1 DEF SlotsInv
  <2>5. DOMAIN latencies' = 0 .. 2 * TotalRequests BY <1>1, <2>4
  <2>6. latencies'[s0] = 1 BY <1>1, <1>19, <1>20, <2>3, <2>4
  <2>7. \A s \in 0 .. 2 * TotalRequests : s # s0 => latencies'[s] = latencies[s]
    BY <1>1, <1>19, <2>4
  <2> QED BY <1>20, <1>23, <2>1, <2>2, <2>5, <2>6, <2>7 DEF SlotsInv
<1> QED BY <1>4, <1>6, <1>16, <1>24

LEMMA LatStep == SaneInv /\ SaneInv' /\ LatInv /\ [Next]_vars => LatInv'
<1> SUFFICES ASSUME SaneInv, SaneInv', LatInv, [Next]_vars PROVE LatInv'
  OBVIOUS
<1>1. CASE MainNext
  BY <1>1, ParseStep, AllocStep, SpawnStep, AllSpawnedStep, JoinStep, AllJoinedStep
     DEF MainNext
<1>2. ASSUME NEW t \in Tids, WorkerNext(t) PROVE LatInv'
  <2>1. CASE ConnectFails(t) \/ Die(t)
    <3>1. mpc' = "dead" /\ UNCHANGED <<args, tpc, conn_index, req, i, offset, total>>
      BY <2>1 DEF ConnectFails, Die, workerVars
    <3>2. LatTypes' BY <3>1 DEF LatInv, LatTypes
    <3> QED BY <3>1, <3>2 DEF LatInv, Before, ThreadsInv, SlotsInv, MainInv, Live
  <2> QED BY <1>2, <2>1, ConnectStep, ReturnsStep, WriteReadStep, CompleteStep DEF WorkerNext
<1>3. ASSUME UNCHANGED <<mainVars, args, tpc, conn_index, req, latencies>> PROVE LatInv'
  <2>1. UNCHANGED <<arg, mpc, i, offset, total>> BY <1>3 DEF mainVars
  <2>2. \A t \in Tids : Started(t)' <=> Started(t) BY <2>1 DEF Started
  <2>3. \A t \in Tids : Thread(t) <=> Thread(t)'
    BY <1>3, <2>1, <2>2, ArgFrame, StoredFrame DEF Thread
  <2>4. \A s : Stored(s)' <=> Stored(s) BY <1>3, <2>1, <2>2, StoredFrame
  <2>5. TotalRequests' = TotalRequests BY <2>1, ArgFrame
  <2>6. LatTypes' /\ Before' BY <1>3, <2>1 DEF LatInv, LatTypes, Before
  <2>7. ThreadsInv' BY <1>3, <2>1, <2>2, <2>3 DEF LatInv, ThreadsInv, Live
  <2>8. SlotsInv'
    <3> HIDE DEF TotalRequests
    <3> QED BY <1>3, <2>1, <2>4, <2>5 DEF LatInv, SlotsInv, Live
  <2>9. MainInv'
    <3>1. \A t : Pos(t)' = Pos(t) BY <2>1, ArgFrame
    <3>2. PICK n : n = arg.threads OBVIOUS
    <3>3. \A m : Covered(m) => Covered(m)' BY <1>3, <2>1, <2>2, StoredFrame
    <3>4. PICK k : k = i OBVIOUS
    <3>5. (Covered(k)' => Covered(i)') /\ (Covered(n)' => Covered(arg.threads)')
      BY <2>1, <3>2, <3>4 DEF Covered, Pos, Off
    <3>6. Off(i)' = Off(i) /\ Pos(i)' = Pos(i) BY <2>1 DEF Pos, Off
    <3>7. (Covered(i) => Covered(i)') /\ (Covered(arg.threads) => Covered(arg.threads)')
      BY <3>2, <3>3, <3>4, <3>5
    <3> HIDE DEF Covered, Pos, Off
    <3> QED BY <1>3, <2>1, <3>6, <3>7 DEF LatInv, MainInv
  <2> QED BY <2>6, <2>7, <2>8, <2>9 DEF LatInv
<1>4. ASSUME NEW t \in Tids, ServerEchoes(t) \/ ServerCloses(t) PROVE LatInv'
  BY <1>3, <1>4 DEF ServerEchoes, ServerCloses
<1>5. CASE UNCHANGED vars BY <1>3, <1>5 DEF vars, workerVars
<1> QED BY <1>1, <1>2, <1>4, <1>5 DEF Next

LEMMA LatResult == SaneInv /\ LatInv => ResultComplete
<1> SUFFICES ASSUME SaneInv, LatInv, mpc = "done"
             PROVE  /\ \A s \in DOMAIN latencies :
                         latencies[s] = (IF s < TotalRequests THEN 1 ELSE 0)
                    /\ total = 2 * arg.payload * TotalRequests
  BY DEF ResultComplete
<1> USE DEF LatInv
<1>1. ArgType /\ Sane BY DEF SaneInv, ArgType
<1>2. i = arg.threads /\ Covered(arg.threads) /\ total = (2 * arg.payload) * Pos(i)
        /\ \A t \in Tids : t < arg.threads => tpc[t] = "exit"
  BY DEF MainInv
<1>3. Pos(arg.threads) = TotalRequests /\ TotalRequests \in Nat BY <1>1, PosFacts
<1>4. total = 2 * arg.payload * TotalRequests BY <1>2, <1>3
<1>5. DOMAIN latencies = 0 .. 2 * TotalRequests
        /\ \A s \in 0 .. 2 * TotalRequests : latencies[s] = (IF Stored(s) THEN 1 ELSE 0)
  BY DEF SlotsInv, Live
<1>6. \A t \in Tids : Started(t) => Thread(t) /\ tpc[t] = "exit"
  BY <1>2 DEF ThreadsInv, Live, Started
<1>7. \A t \in Tids : Started(t) => Pos(t) + Done(t) = Pos(t + 1)
  <2> SUFFICES ASSUME NEW t \in Tids, Started(t) PROVE Pos(t) + Done(t) = Pos(t + 1)
    OBVIOUS
  <2>1. t \in Nat BY LoadClientAssumption DEF LoadClientAssumption, Tids
  <2>2. Done(t) = ConnCount(t) * arg.requests BY <1>1, <1>6, DoneBounds
  <2> QED BY <1>1, <2>1, <2>2, PosFacts
<1>8. \A s \in Nat : Stored(s) <=> s < TotalRequests
  <2> SUFFICES ASSUME NEW s \in Nat PROVE Stored(s) <=> s < TotalRequests
    OBVIOUS
  <2>1. ASSUME s < TotalRequests PROVE Stored(s)
    BY <1>2, <1>3, <1>7, <2>1 DEF Covered, Stored
  <2>2. ASSUME NEW t \in Tids, Started(t), s < Pos(t) + Done(t) PROVE s < TotalRequests
    <3>1. t \in Nat BY LoadClientAssumption DEF LoadClientAssumption, Tids
    <3>2. Pos(t + 1) \in Nat /\ Pos(t + 1) <= TotalRequests BY <1>1, <2>2, <3>1, PosFacts, RangeInArray
    <3>3. s < Pos(t + 1) BY <1>7, <2>2
    <3> HIDE DEF TotalRequests
    <3> QED BY <1>3, <3>2, <3>3
  <2> QED BY <2>1, <2>2 DEF Stored
<1>9. \A s \in 0 .. 2 * TotalRequests : latencies[s] = (IF s < TotalRequests THEN 1 ELSE 0)
  <2> HIDE DEF TotalRequests
  <2> QED BY <1>3, <1>5, <1>8
<1> QED BY <1>4, <1>5, <1>9

\* The numbers load_client evaluates (load_client.c, lines 147-165): each worker has
\* stored into its own slots only, every slot once, and total_bytes is the sum of all
\* requests, however connections, threads and requests divide and however the
\* workers interleave.
THEOREM ResultCompleteCorrect == Spec => []ResultComplete
<1>1. Init => SaneInv /\ LatInv BY SaneInit, LatInit
<1>2. SaneInv /\ LatInv /\ [Next]_vars => SaneInv' /\ LatInv' BY SaneStep, LatStep
<1> QED BY <1>1, <1>2, LatResult, PTL DEF Spec

----------------------------------------------------------------------------
(* The bytes of a request. *)

Fits     == arg.payload <= CapUp + SrvBuf + CapDown
InNet(t) == net[t].down + net[t].srv + net[t].up

FlowTypes ==
    /\ arg.payload \in Nat \ {0}
    /\ tpc \in [Tids -> {"idle", "connect", "write", "read", "exit"}]
    /\ moved \in [Tids -> Nat]
    /\ net \in [Tids -> [up : 0 .. CapUp, srv : 0 .. SrvBuf, down : 0 .. CapDown,
                         open : BOOLEAN]]

\* While a worker writes, what it has written is under way; when it reads, what it
\* has not read is, and all of it has been at once.
Flow(t) ==
    /\ tpc[t] \notin {"write", "read"} => moved[t] = 0
    /\ tpc[t] = "write" => InNet(t) = moved[t] /\ moved[t] < arg.payload
    /\ tpc[t] = "read" => moved[t] + InNet(t) = arg.payload /\ Fits

StoredFits == \A s \in DOMAIN latencies : latencies[s] # 0 => Fits

FlowInv == FlowTypes /\ (\A t \in Tids : Flow(t)) /\ StoredFits

LEMMA FlowInit == Init => FlowInv
BY LoadClientAssumption
   DEF LoadClientAssumption, Init, FlowInv, FlowTypes, Flow, StoredFits, NoNet

\* What is in the network are three counts within their bounds.
LEMMA NetCounts ==
    ASSUME FlowTypes, NEW t \in Tids
    PROVE  /\ net[t].up \in 0 .. CapUp /\ net[t].srv \in 0 .. SrvBuf
           /\ net[t].down \in 0 .. CapDown /\ net[t].open \in BOOLEAN
           /\ moved[t] \in Nat /\ arg.payload \in Nat \ {0}
           /\ CapUp \in Nat \ {0} /\ SrvBuf \in Nat \ {0} /\ CapDown \in Nat \ {0}
BY LoadClientAssumption DEF FlowTypes, LoadClientAssumption

\* A step of thread t's worker or of the server at the other end that stores nothing.
LEMMA OneFlow ==
    ASSUME FlowInv, arg' = arg, latencies' = latencies, NEW t \in Tids, FlowTypes',
           \A u \in Tids : u # t => /\ tpc'[u] = tpc[u] /\ moved'[u] = moved[u]
                                    /\ net'[u] = net[u],
           Flow(t)'
    PROVE  FlowInv'
<1>1. \A u \in Tids : u # t => (Flow(u) => Flow(u)')
  BY DEF Flow, InNet, Fits
<1>2. \A u \in Tids : Flow(u)' BY <1>1 DEF FlowInv
<1>3. StoredFits' BY DEF FlowInv, StoredFits, Fits
<1> QED BY <1>2, <1>3 DEF FlowInv

LEMMA MainFlow ==
    ASSUME SaneInv, LatInv, FlowInv, MainNext
    PROVE  FlowInv'
<1>1. arg'.payload = arg.payload
  BY DEF MainNext, Parse, Alloc, Spawn, AllSpawned, Join, AllJoined, SaneInv
<1>2. UNCHANGED <<moved, net>>
  BY DEF MainNext, Parse, Alloc, Spawn, AllSpawned, Join, AllJoined, workerVars
<1>3. StoredFits'
  <2>1. CASE Alloc
    BY <1>1, <2>1 DEF Alloc, FlowInv, StoredFits, Fits
  <2>2. CASE ~Alloc
    <3>1. latencies' = latencies
      BY <2>2 DEF MainNext, Parse, Spawn, AllSpawned, Join, AllJoined, workerVars
    <3> QED BY <1>1, <3>1 DEF FlowInv, StoredFits, Fits
  <2> QED BY <2>1, <2>2
<1>4. CASE Spawn
  <2>1. i \in Tids /\ tpc[i] = "idle"
    <3>1. mpc = "spawn" /\ i < arg.threads /\ i \in Nat /\ arg.threads <= MaxThreads
      BY <1>4 DEF Spawn, LatInv, LatTypes, Before
    <3>2. i \in Tids
      BY <3>1, LoadClientAssumption DEF Tids, LoadClientAssumption, SaneInv
    <3>3. ~Started(i) BY <3>1 DEF Started
    <3> QED BY <3>1, <3>2, <3>3 DEF LatInv, ThreadsInv, Live
  <2>2. tpc' = [tpc EXCEPT ![i] = "connect"] BY <1>4 DEF Spawn
  <2>3. \A t \in Tids : Flow(t)'
    BY <1>1, <1>2, <2>1, <2>2 DEF FlowInv, FlowTypes, Flow, InNet, Fits
  <2>4. FlowTypes' BY <1>1, <1>2, <2>1, <2>2 DEF FlowInv, FlowTypes
  <2> QED BY <1>3, <2>3, <2>4 DEF FlowInv
<1>5. CASE ~Spawn
  <2>1. tpc' = tpc
    BY <1>5 DEF MainNext, Parse, Alloc, AllSpawned, Join, AllJoined, workerVars
  <2>2. \A t \in Tids : Flow(t)'
    BY <1>1, <1>2, <2>1 DEF FlowInv, Flow, InNet, Fits
  <2>3. FlowTypes' BY <1>1, <1>2, <2>1 DEF FlowInv, FlowTypes
  <2> QED BY <1>3, <2>2, <2>3 DEF FlowInv
<1> QED BY <1>4, <1>5

\* A connection starts empty, and a worker that returns has none.
LEMMA ConnectFlow ==
    ASSUME FlowInv, NEW t \in Tids, Connect(t) \/ WorkerReturns(t)
    PROVE  FlowInv'
<1>1. arg' = arg /\ UNCHANGED <<moved, latencies>> /\ tpc[t] = "connect"
  BY DEF Connect, WorkerReturns, mainVars
<1>2. moved[t] = 0 BY <1>1 DEF FlowInv, Flow
<1>3. CASE /\ tpc' = [tpc EXCEPT ![t] = "write"]
           /\ net' = [net EXCEPT ![t] = [NoNet EXCEPT !.open = TRUE]]
  <2> PICK r : r = [NoNet EXCEPT !.open = TRUE] OBVIOUS
  <2>1. r.up = 0 /\ r.srv = 0 /\ r.down = 0
          /\ r \in [up : {0}, srv : {0}, down : {0}, open : BOOLEAN]
    BY DEF NoNet
  <2>2. FlowTypes'
    <3>1. r \in [up : 0 .. CapUp, srv : 0 .. SrvBuf, down : 0 .. CapDown, open : BOOLEAN]
      BY <2>1, LoadClientAssumption DEF LoadClientAssumption
    <3> QED BY <1>1, <1>3, <3>1 DEF FlowInv, FlowTypes
  <2>3. InNet(t)' = 0 /\ tpc'[t] = "write"
    <3>1. net'[t] = r /\ tpc'[t] = "write" BY <1>3 DEF FlowInv, FlowTypes
    <3> QED BY <2>1, <3>1 DEF InNet
  <2>4. Flow(t)' BY <1>1, <1>2, <2>3 DEF Flow, FlowInv, FlowTypes
  <2>5. \A u \in Tids : u # t => tpc'[u] = tpc[u] /\ net'[u] = net[u]
    BY <1>3 DEF FlowInv, FlowTypes
  <2> QED BY <1>1, <2>2, <2>4, <2>5, OneFlow
<1>4. CASE net' = net /\ (tpc' = tpc \/ tpc' = [tpc EXCEPT ![t] = "exit"])
  <2>1. FlowTypes' BY <1>1, <1>4 DEF FlowInv, FlowTypes
  <2>2. tpc'[t] \in {"connect", "exit"} /\ \A u \in Tids : u # t => tpc'[u] = tpc[u]
    BY <1>1, <1>4 DEF FlowInv, FlowTypes
  <2>3. Flow(t)' BY <1>1, <1>2, <2>2 DEF Flow
  <2> QED BY <1>1, <1>4, <2>1, <2>2, <2>3, OneFlow
<1> QED BY <1>3, <1>4 DEF Connect, WorkerReturns

\* What write() takes is under way.  After the last one all of the payload is.
LEMMA WriteFlow ==
    ASSUME FlowInv, NEW t \in Tids, Write(t)
    PROVE  FlowInv'
<1>1. FlowTypes /\ Flow(t) BY DEF FlowInv
<1> PICK up, srv, down, m, p : /\ up = net[t].up /\ srv = net[t].srv /\ down = net[t].down
                               /\ m = moved[t] /\ p = arg.payload
  OBVIOUS
<1> PICK n : n = Least(CapUp - up, p - m) OBVIOUS
<1>2. /\ up \in 0 .. CapUp /\ srv \in 0 .. SrvBuf /\ down \in 0 .. CapDown
      /\ m \in Nat /\ p \in Nat \ {0}
      /\ CapUp \in Nat \ {0} /\ SrvBuf \in Nat \ {0} /\ CapDown \in Nat \ {0}
  BY <1>1, NetCounts
<1>3. /\ tpc[t] = "write" /\ up < CapUp /\ arg' = arg /\ UNCHANGED latencies
      /\ net' = [net EXCEPT ![t].up = up + n]
      /\ IF Full(m + n)
         THEN tpc' = [tpc EXCEPT ![t] = "read"] /\ moved' = [moved EXCEPT ![t] = 0]
         ELSE tpc' = tpc /\ moved' = [moved EXCEPT ![t] = m + n]
  BY DEF Write, mainVars
<1>4. down + srv + up = m /\ m < p BY <1>1, <1>3 DEF Flow, InNet
<1>5. n \in Nat /\ up + n \in 0 .. CapUp /\ m + n <= p BY <1>2, <1>3, <1>4 DEF Least
<1>6. net'[t].up = up + n /\ net'[t].srv = srv /\ net'[t].down = down
      /\ \A u \in Tids : u # t => net'[u] = net[u]
  BY <1>1, <1>3 DEF FlowTypes
<1>7. net' \in [Tids -> [up : 0 .. CapUp, srv : 0 .. SrvBuf, down : 0 .. CapDown,
                         open : BOOLEAN]]
  BY <1>1, <1>3, <1>5 DEF FlowTypes
<1>8. InNet(t)' = m + n BY <1>2, <1>4, <1>5, <1>6 DEF InNet
<1>9. CASE Full(m + n)
  <2>1. m + n = p BY <1>2, <1>5, <1>9 DEF Full
  <2>2. tpc'[t] = "read" /\ moved'[t] = 0 /\ FlowTypes'
    BY <1>1, <1>3, <1>7, <1>9 DEF FlowTypes
  <2>3. p <= CapUp + SrvBuf + CapDown BY <1>2, <1>4, <1>5, <2>1
  <2>4. Flow(t)' BY <1>2, <1>3, <1>8, <2>1, <2>2, <2>3 DEF Flow, Fits
  <2>5. \A u \in Tids : u # t => tpc'[u] = tpc[u] /\ moved'[u] = moved[u]
    BY <1>1, <1>3, <1>9 DEF FlowTypes
  <2> QED BY <1>3, <1>6, <2>2, <2>4, <2>5, OneFlow
<1>10. CASE ~Full(m + n)
  <2>1. m + n < p /\ m + n \in Nat BY <1>2, <1>5, <1>10 DEF Full
  <2>2. tpc'[t] = "write" /\ moved'[t] = m + n /\ FlowTypes'
    BY <1>1, <1>3, <1>7, <1>10, <2>1 DEF FlowTypes
  <2>3. Flow(t)' BY <1>3, <1>8, <2>1, <2>2 DEF Flow
  <2>4. \A u \in Tids : u # t => tpc'[u] = tpc[u] /\ moved'[u] = moved[u]
    BY <1>1, <1>3, <1>10 DEF FlowTypes
  <2> QED BY <1>3, <1>6, <2>2, <2>3, <2>4, OneFlow
<1> QED BY <1>9, <1>10

\* What read() takes is no longer under way.
LEMMA ReadFlow ==
    ASSUME FlowInv, NEW t \in Tids, Read(t)
    PROVE  FlowInv'
<1>1. FlowTypes /\ Flow(t) BY DEF FlowInv
<1> PICK up, srv, down, m, p : /\ up = net[t].up /\ srv = net[t].srv /\ down = net[t].down
                               /\ m = moved[t] /\ p = arg.payload
  OBVIOUS
<1>2. /\ up \in 0 .. CapUp /\ srv \in 0 .. SrvBuf /\ down \in 0 .. CapDown
      /\ m \in Nat /\ CapDown \in Nat
  BY <1>1, NetCounts
<1>3. /\ tpc[t] = "read" /\ arg' = arg /\ UNCHANGED <<latencies, tpc>>
      /\ net' = [net EXCEPT ![t].down = 0] /\ moved' = [moved EXCEPT ![t] = m + down]
  BY DEF Read, mainVars
<1>4. m + (down + srv + up) = p /\ Fits BY <1>1, <1>3 DEF Flow, InNet
<1>5. m + down \in Nat /\ 0 \in 0 .. CapDown BY <1>2
<1>6. FlowTypes' BY <1>1, <1>3, <1>5 DEF FlowTypes
<1>7. /\ net'[t].up = up /\ net'[t].srv = srv /\ net'[t].down = 0 /\ moved'[t] = m + down
      /\ \A u \in Tids : u # t => net'[u] = net[u] /\ moved'[u] = moved[u]
  BY <1>1, <1>3 DEF FlowTypes
<1>8. moved'[t] + InNet(t)' = p BY <1>2, <1>4, <1>7 DEF InNet
<1>9. Flow(t)' BY <1>3, <1>4, <1>8 DEF Flow, Fits
<1> QED BY <1>3, <1>6, <1>7, <1>9, OneFlow

\* With the last byte of an answer nothing of its request is left.
LEMMA CompleteFlow ==
    ASSUME FlowInv, NEW t \in Tids, Complete(t)
    PROVE  FlowInv'
<1>1. FlowTypes /\ Flow(t) BY DEF FlowInv
<1> PICK up, srv, down, m, p : /\ up = net[t].up /\ srv = net[t].srv /\ down = net[t].down
                               /\ m = moved[t] /\ p = arg.payload
  OBVIOUS
<1>2. /\ up \in 0 .. CapUp /\ srv \in 0 .. SrvBuf /\ down \in 0 .. CapDown
      /\ m \in Nat /\ p \in Nat \ {0} /\ CapDown \in Nat /\ CapUp \in Nat /\ SrvBuf \in Nat
  BY <1>1, NetCounts
<1>3. /\ tpc[t] = "read" /\ arg' = arg /\ Full(m + down)
      /\ moved' = [moved EXCEPT ![t] = 0]
      /\ latencies' = [latencies EXCEPT ![Slot(t)] = @ + 1]
      /\ \/ /\ tpc' = [tpc EXCEPT ![t] = "write"]
            /\ net' = [net EXCEPT ![t].down = down - (p - m)]
         \/ /\ tpc' = [tpc EXCEPT ![t] = "connect"]
            /\ net' = [net EXCEPT ![t] = NoNet]
  BY DEF Complete, mainVars
<1>4. m + (down + srv + up) = p /\ Fits BY <1>1, <1>3 DEF Flow, InNet
<1>5. down - (p - m) = 0 /\ srv = 0 /\ up = 0 BY <1>2, <1>3, <1>4 DEF Full
<1>6. StoredFits'
  <2>1. DOMAIN latencies' = DOMAIN latencies BY <1>3
  <2> QED BY <1>3, <1>4, <2>1 DEF StoredFits, Fits
<1>7. moved'[t] = 0 /\ moved' \in [Tids -> Nat] BY <1>1, <1>3 DEF FlowTypes
<1>8. \A u \in Tids : u # t => tpc'[u] = tpc[u] /\ moved'[u] = moved[u] /\ net'[u] = net[u]
  BY <1>1, <1>3 DEF FlowTypes
<1>9. \A u \in Tids : u # t => Flow(u)' BY <1>3, <1>8 DEF FlowInv, Flow, InNet, Fits
<1>10. CASE /\ tpc' = [tpc EXCEPT ![t] = "write"]
            /\ net' = [net EXCEPT ![t].down = down - (p - m)]
  <2> PICK z : z = down - (p - m) OBVIOUS
  <2>1. net' = [net EXCEPT ![t].down = z] /\ z = 0 /\ z \in 0 .. CapDown
    BY <1>2, <1>5, <1>10
  <2>2. FlowTypes' BY <1>1, <1>3, <1>7, <1>10, <2>1 DEF FlowTypes
  <2>3. net'[t].up = 0 /\ net'[t].srv = 0 /\ net'[t].down = 0 /\ tpc'[t] = "write"
    <3>1. net'[t].up = up /\ net'[t].srv = srv /\ net'[t].down = z /\ tpc'[t] = "write"
      BY <1>1, <1>10, <2>1 DEF FlowTypes
    <3> QED BY <1>5, <2>1, <3>1
  <2>4. Flow(t)' BY <1>2, <1>3, <1>7, <2>3 DEF Flow, InNet
  <2> QED BY <1>6, <1>9, <2>2, <2>4 DEF FlowInv
<1>11. CASE /\ tpc' = [tpc EXCEPT ![t] = "connect"]
            /\ net' = [net EXCEPT ![t] = NoNet]
  <2>1. NoNet \in [up : 0 .. CapUp, srv : 0 .. SrvBuf, down : 0 .. CapDown, open : BOOLEAN]
    BY <1>2 DEF NoNet
  <2>2. FlowTypes' BY <1>1, <1>3, <1>7, <1>11, <2>1 DEF FlowTypes
  <2>3. tpc'[t] = "connect" BY <1>1, <1>11 DEF FlowTypes
  <2>4. Flow(t)' BY <1>7, <2>3 DEF Flow
  <2> QED BY <1>6, <1>9, <2>2, <2>4 DEF FlowInv
<1> QED BY <1>3, <1>10, <1>11

\* Setting one field of one thread's connection.
Nets(U, V, W) == [Tids -> [up : U, srv : V, down : W, open : BOOLEAN]]

LEMMA NetTypes ==
    ASSUME NEW U, NEW V, NEW W, NEW f \in Nets(U, V, W), NEW t \in Tids
    PROVE  /\ \A n \in U : [f EXCEPT ![t].up = n] \in Nets(U, V, W)
           /\ \A n \in V : [f EXCEPT ![t].srv = n] \in Nets(U, V, W)
           /\ \A n \in W : [f EXCEPT ![t].down = n] \in Nets(U, V, W)
BY DEF Nets

\* The server moves bytes and makes none.
LEMMA ServerFlow ==
    ASSUME FlowInv, NEW t \in Tids, ServerEchoes(t) \/ ServerCloses(t)
    PROVE  FlowInv'
<1>1. FlowTypes /\ Flow(t) BY DEF FlowInv
<1>2. arg' = arg /\ UNCHANGED <<tpc, moved, latencies>>
  BY DEF ServerEchoes, ServerCloses, mainVars
<1> PICK up, srv, down : up = net[t].up /\ srv = net[t].srv /\ down = net[t].down
  OBVIOUS
<1>3. /\ up \in 0 .. CapUp /\ srv \in 0 .. SrvBuf /\ down \in 0 .. CapDown
      /\ CapDown \in Nat /\ CapUp \in Nat /\ SrvBuf \in Nat \ {0}
  BY <1>1, NetCounts
<1> DEFINE Moved == /\ net' \in [Tids -> [up : 0 .. CapUp, srv : 0 .. SrvBuf,
                                           down : 0 .. CapDown, open : BOOLEAN]]
                    /\ \A u \in Tids : u # t => net'[u] = net[u]
                    /\ net'[t].down + net'[t].srv + net'[t].up = down + srv + up
<1>4. Moved
  <2>1. CASE ServerCloses(t)
    <3>1. net' = [net EXCEPT ![t].open = FALSE] BY <2>1 DEF ServerCloses
    <3> QED BY <1>1, <3>1 DEF FlowTypes
  <2>2. ASSUME srv = 0, NEW n, n = Least(SrvBuf, up), NEW rest, rest = up - n,
               net' = [net EXCEPT ![t].up = rest, ![t].srv = n]
        PROVE  Moved
    <3>1. rest \in 0 .. CapUp /\ n \in 0 .. SrvBuf /\ down + n + rest = down + srv + up
      BY <1>3, <2>2 DEF Least
    <3>2. net'[t].up = rest /\ net'[t].srv = n /\ net'[t].down = down
      BY <1>1, <2>2 DEF FlowTypes
    <3> PICK f : f = [net EXCEPT ![t].up = rest] OBVIOUS
    <3>3. f \in [Tids -> [up : 0 .. CapUp, srv : 0 .. SrvBuf, down : 0 .. CapDown,
                              open : BOOLEAN]]
      BY <1>1, <3>1 DEF FlowTypes
    <3>4. net' = [f EXCEPT ![t].srv = n] BY <2>2
    <3>5. net' \in [Tids -> [up : 0 .. CapUp, srv : 0 .. SrvBuf, down : 0 .. CapDown,
                              open : BOOLEAN]]
      BY <3>1, <3>3, <3>4, NetTypes DEF Nets
    <3>6. \A u \in Tids : u # t => net'[u] = net[u] BY <1>1, <2>2 DEF FlowTypes
    <3> QED BY <3>1, <3>2, <3>5, <3>6
  <2>3. ASSUME NEW n, n = Least(srv, CapDown - down), NEW rest, rest = srv - n,
               NEW more, more = down + n,
               net' = [net EXCEPT ![t].srv = rest, ![t].down = more]
        PROVE  Moved
    <3>1. rest \in 0 .. SrvBuf /\ more \in 0 .. CapDown /\ more + rest + up = down + srv + up
      BY <1>3, <2>3 DEF Least
    <3>2. net'[t].up = up /\ net'[t].srv = rest /\ net'[t].down = more
      BY <1>1, <2>3 DEF FlowTypes
    <3> PICK f : f = [net EXCEPT ![t].srv = rest] OBVIOUS
    <3>3. f \in [Tids -> [up : 0 .. CapUp, srv : 0 .. SrvBuf, down : 0 .. CapDown,
                              open : BOOLEAN]]
      BY <1>1, <3>1 DEF FlowTypes
    <3>4. net' = [f EXCEPT ![t].down = more] BY <2>3
    <3>5. net' \in [Tids -> [up : 0 .. CapUp, srv : 0 .. SrvBuf, down : 0 .. CapDown,
                              open : BOOLEAN]]
      BY <3>1, <3>3, <3>4, NetTypes DEF Nets
    <3>6. \A u \in Tids : u # t => net'[u] = net[u] BY <1>1, <2>3 DEF FlowTypes
    <3> QED BY <3>1, <3>2, <3>5, <3>6
  <2> QED BY <2>1, <2>2, <2>3 DEF ServerEchoes
<1>5. FlowTypes' BY <1>1, <1>2, <1>4 DEF FlowTypes
<1>6. InNet(t)' = InNet(t) BY <1>4 DEF InNet
<1>7. Flow(t)' BY <1>1, <1>2, <1>6 DEF Flow, Fits
<1> QED BY <1>2, <1>4, <1>5, <1>7, OneFlow

LEMMA FlowStep == SaneInv /\ LatInv /\ FlowInv /\ [Next]_vars => FlowInv'
<1> SUFFICES ASSUME SaneInv, LatInv, FlowInv, [Next]_vars PROVE FlowInv'
  OBVIOUS
<1>1. ASSUME UNCHANGED <<arg, tpc, moved, net, latencies>> PROVE FlowInv'
  BY <1>1 DEF FlowInv, FlowTypes, Flow, InNet, Fits, StoredFits
<1>2. CASE UNCHANGED vars BY <1>1, <1>2 DEF vars, mainVars, workerVars
<1>3. ASSUME NEW t \in Tids, WorkerNext(t) PROVE FlowInv'
  <2>1. CASE ConnectFails(t) \/ Die(t)
    BY <1>1, <2>1 DEF ConnectFails, Die, workerVars
  <2> QED BY <1>3, <2>1, ConnectFlow, WriteFlow, ReadFlow, CompleteFlow DEF WorkerNext
<1> QED BY <1>2, <1>3, MainFlow, ServerFlow DEF Next

\* A worker waits for what it has sent and for nothing else: no request starts, and
\* no connection ends, with a byte of an earlier answer under way.
THEOREM ClosedLoopCorrect == Spec => []ClosedLoop
<1>1. FlowInv => ClosedLoop
  <2> SUFFICES ASSUME FlowInv, NEW t \in Tids
               PROVE  /\ tpc[t] = "write" => net[t].down + net[t].srv + net[t].up = moved[t]
                      /\ tpc[t] = "read" => moved[t] + net[t].down + net[t].srv + net[t].up
                                              = arg.payload
    BY DEF ClosedLoop
  <2>1. Flow(t) /\ FlowTypes BY DEF FlowInv
  <2> QED BY <2>1, NetCounts DEF Flow, InNet
<1>2. Init => SaneInv /\ LatInv /\ FlowInv BY SaneInit, LatInit, FlowInit
<1>3. SaneInv /\ LatInv /\ FlowInv /\ [Next]_vars => SaneInv' /\ LatInv' /\ FlowInv'
  BY SaneStep, LatStep, FlowStep
<1> QED BY <1>1, <1>2, <1>3, PTL DEF Spec

\* A client that finishes has had a whole payload under way at once: a payload that
\* the kernels and the server cannot hold is never echoed.
THEOREM PayloadFitsCorrect == Spec => []PayloadFits
<1>1. SaneInv /\ LatInv /\ RankInv /\ FlowInv => PayloadFits
  <2> SUFFICES ASSUME SaneInv, LatInv, RankInv, FlowInv, mpc = "done", TotalRequests > 0
               PROVE  Fits
    BY DEF PayloadFits, Fits
  <2>1. TotalRequests \in Nat \ {0}
    <3> HIDE DEF TotalRequests
    <3> QED BY DEF RankInv
  <2>2. DOMAIN latencies = 0 .. 2 * TotalRequests BY DEF LatInv, SlotsInv, Live
  <2>3. latencies[0] = 1
    <3>1. ResultComplete BY LatResult
    <3> HIDE DEF TotalRequests
    <3> QED BY <2>1, <2>2, <3>1 DEF ResultComplete
  <2>4. 0 \in DOMAIN latencies
    <3> HIDE DEF TotalRequests
    <3> QED BY <2>1, <2>2
  <2> QED BY <2>3, <2>4 DEF FlowInv, StoredFits
<1>2. Init => SaneInv /\ LatInv /\ RankInv /\ FlowInv
  BY SaneInit, LatInit, FlowInit DEF Init, RankInv
<1>3. SaneInv /\ LatInv /\ RankInv /\ FlowInv /\ [Next]_vars
        => SaneInv' /\ LatInv' /\ RankInv' /\ FlowInv'
  BY SaneStep, LatStep, RankStep, FlowStep
<1> QED BY <1>1, <1>2, <1>3, PTL DEF Spec

----------------------------------------------------------------------------
(* run_benchmarks.sh. *)


\* Where run_one() has got to: the servers before the current one are measured in
\* this invocation, the current one as soon as its client has succeeded.
Loop == {"start", "sleep", "client", "stop", "check"}

Current(n) == log[n].run = run /\ log[n].by # 0

Measured ==
    /\ pc \in Loop => turn <= Len(Names) /\ \A m \in 1 .. turn - 1 : Current(Names[m])
    /\ pc \in {"stop", "check"} /\ status = 0 => Current(name)
    /\ pc \in {"summary", "done"} => \A n \in Name : Current(n)

\* The rows written so far.
Cells == [m \in DOMAIN Metrics |-> extract_metric(Metrics[m])]

RowType == [server : Name, log : [run : 0 .. MaxRuns, by : 0 .. MaxRuns],
            metrics : {Cells}]

RowsCurrent ==
    \A n \in 1 .. Len(summary) :
        summary[n].server = Names[n] /\ summary[n].log.run = run /\ summary[n].log.by # 0

Written ==
    /\ pc \in {"summary", "done"} => summary \in Seq(RowType) /\ RowsCurrent
    /\ pc = "summary" => Len(summary) = turn - 1
    /\ pc = "done" => Len(summary) = Len(Names)

ProcInv == ScriptTypeOK /\ (pc \in Loop => turn <= Len(Names)) /\ NoServerLeft

LEMMA NamesFacts ==
    /\ Len(Names) = 4 /\ DOMAIN Names = 1 .. 4
    /\ \A m \in 1 .. 4 : Names[m] \in Name
    /\ \A m, n \in 1 .. 4 : Names[m] = Names[n] => m = n
BY DEF Names, Name

\* Types and processes: what each step does to them.
LEMMA ProcInit == ScriptInit => ProcInv
BY RunBenchmarksAssumption, NamesFacts
   DEF RunBenchmarksAssumption, ScriptInit, ProcInv, ScriptTypeOK, NoServerLeft, Loop, Ended,
       NoLog, Process

\* What a client leaves in its log.
LEMMA LogType ==
    ASSUME ScriptTypeOK, NEW n \in Name, NEW r \in 0 .. MaxRuns
    PROVE  [log EXCEPT ![n] = [run |-> run, by |-> r]]
              \in [Name -> [run : 0 .. MaxRuns, by : 0 .. MaxRuns]]
<1>1. [run |-> run, by |-> r] \in [run : 0 .. MaxRuns, by : 0 .. MaxRuns]
  BY RunBenchmarksAssumption DEF RunBenchmarksAssumption, ScriptTypeOK
<1> QED BY <1>1 DEF ScriptTypeOK

\* What a process becomes, the others stay.
LEMMA ServerType ==
    ASSUME ScriptTypeOK, NEW n \in Name, NEW r \in 1 .. MaxRuns, NEW p \in Process
    PROVE  /\ [server EXCEPT ![n][r] = p] \in [Name -> [1 .. MaxRuns -> Process]]
           /\ \A m \in Name, q \in 1 .. MaxRuns :
                 [server EXCEPT ![n][r] = p][m][q] = IF m = n /\ q = r THEN p ELSE server[m][q]
BY DEF ScriptTypeOK

LEMMA ProcStep == ProcInv /\ [ScriptNext]_scriptVars => ProcInv'
<1> SUFFICES ASSUME ProcInv, [ScriptNext]_scriptVars PROVE ProcInv' OBVIOUS
<1>0. /\ MaxRuns \in Nat \ {0} /\ Len(Names) = 4
      /\ run \in 1 .. MaxRuns /\ turn \in 1 .. 5 /\ pc \in Loop \cup {"summary"} \cup Ended
      /\ pc \in Loop => turn <= 4 /\ name \in Name
      /\ Ended = {"done", "failed", "interrupted"}
      /\ Loop = {"start", "sleep", "client", "stop", "check"}
  BY RunBenchmarksAssumption, NamesFacts
     DEF RunBenchmarksAssumption, ProcInv, ScriptTypeOK, Loop, Ended, name
\* What is left to show when only the script's own variables change.
<1>a. ASSUME UNCHANGED <<server, log>>,
             /\ pc' \in Loop \cup {"summary"} \cup Ended
             /\ run' \in 1 .. MaxRuns /\ run <= run'
             /\ turn' \in 1 .. 5
             /\ pc' \in Loop => turn' <= 4,
             status' \in {0, 1}, cut' \subseteq 1 .. run'
      PROVE  ScriptTypeOK' /\ (pc' \in Loop => turn' <= Len(Names))
  <2>1. pc' \in Loop => turn' <= Len(Names) BY <1>0, <1>a
  <2>2. pc' \in {"start", "sleep", "client", "stop", "check", "summary"} \cup Ended
    BY <1>0, <1>a
  <2>3. turn' \in 1 .. Len(Names) + 1 BY <1>0, <1>a
  <2>4. /\ server' \in [Name -> [1 .. MaxRuns -> Process]]
        /\ log' \in [Name -> [run : 0 .. MaxRuns, by : 0 .. MaxRuns]]
    BY <1>a DEF ProcInv, ScriptTypeOK
  <2> QED BY <1>a, <2>1, <2>2, <2>3, <2>4 DEF ScriptTypeOK
<1>1. CASE StartServer
  <2>1. name \in Name /\ name' = name /\ pc = "start" /\ pc' = "sleep" /\ run' = run
          /\ server' = [server EXCEPT ![name][run] = "starting"]
          /\ UNCHANGED <<turn, status, log, cut>>
    BY <1>0, <1>1 DEF StartServer, name
  <2>2. /\ server' \in [Name -> [1 .. MaxRuns -> Process]]
        /\ \A n \in Name, r \in 1 .. MaxRuns :
              ~(n = name /\ r = run) => server'[n][r] = server[n][r]
    BY <1>0, <2>1, ServerType DEF ProcInv, ScriptTypeOK, Process
  <2>3. ScriptTypeOK' BY <2>1, <2>2 DEF ProcInv, ScriptTypeOK
  <2>4. NoServerLeft'
    BY <2>1, <2>2 DEF ProcInv, NoServerLeft
  <2> QED BY <1>0, <2>1, <2>3, <2>4 DEF ProcInv
<1>2. CASE Sleep
  <2>1. pc = "sleep" /\ pc' = "client" /\ name' = name
          /\ UNCHANGED <<run, turn, server, status, log, cut>>
    BY <1>2 DEF Sleep, name
  <2>2. NoServerLeft' BY <2>1 DEF ProcInv, NoServerLeft
  <2> QED BY <1>0, <1>a, <2>1, <2>2 DEF ProcInv, ScriptTypeOK
<1>3. CASE Client
  <2>1. /\ pc = "client" /\ pc' = "stop" /\ name \in Name /\ name' = name
        /\ UNCHANGED <<run, turn, server, cut>>
    BY <1>0, <1>3 DEF Client, name
  <2>2. PICK r \in 0 .. MaxRuns : log' = [log EXCEPT ![name] = [run |-> run, by |-> r]]
    BY <1>0, <1>3 DEF Client, Listening
  <2>3. log' \in [Name -> [run : 0 .. MaxRuns, by : 0 .. MaxRuns]]
    BY <2>1, <2>2, LogType DEF ProcInv
  <2>4. status' \in {0, 1} BY <1>3 DEF Client
  <2>5. ScriptTypeOK' BY <2>1, <2>3, <2>4 DEF ProcInv, ScriptTypeOK
  <2>6. NoServerLeft' BY <2>1 DEF ProcInv, NoServerLeft
  <2> QED BY <1>0, <2>1, <2>5, <2>6 DEF ProcInv
<1>4. CASE Stop
  <2>1. /\ pc = "stop" /\ pc' = "check" /\ name \in Name /\ name' = name
        /\ server' = [server EXCEPT ![name][run] = "none"]
        /\ UNCHANGED <<run, turn, status, log, cut>>
    BY <1>0, <1>4 DEF Stop, Stopped, name
  <2>2. /\ server' \in [Name -> [1 .. MaxRuns -> Process]]
        /\ \A n \in Name, r \in 1 .. MaxRuns :
              ~(n = name /\ r = run) => server'[n][r] = server[n][r]
        /\ server'[name][run] = "none"
    BY <1>0, <2>1, ServerType DEF ProcInv, ScriptTypeOK, Process
  <2>3. ScriptTypeOK' BY <2>1, <2>2 DEF ProcInv, ScriptTypeOK
  <2>4. NoServerLeft' BY <2>1, <2>2 DEF ProcInv, NoServerLeft
  <2> QED BY <1>0, <2>1, <2>3, <2>4 DEF ProcInv
<1>5. CASE Check
  <2>1. /\ pc = "check" /\ pc' \in {"failed", "start", "summary"} /\ turn' \in 1 .. 5
        /\ pc' = "start" => turn' <= 4
        /\ UNCHANGED <<run, server, status, log, cut>>
    BY <1>0, <1>5 DEF Check
  <2>2. NoServerLeft' BY <2>1 DEF ProcInv, NoServerLeft
  <2> QED BY <1>0, <1>a, <2>1, <2>2 DEF ProcInv, ScriptTypeOK
<1>6. CASE SummaryRow
  <2>1. /\ pc = "summary" /\ turn <= 4 /\ turn' = turn + 1
        /\ UNCHANGED <<pc, run, server, status, log, cut>>
    BY <1>0, <1>6 DEF SummaryRow
  <2>2. NoServerLeft' BY <2>1 DEF ProcInv, NoServerLeft
  <2>3. turn' \in 1 .. 5 BY <1>0, <2>1
  <2> QED BY <1>0, <1>a, <2>1, <2>2, <2>3 DEF ProcInv, ScriptTypeOK
<1>7. CASE SummaryDone
  <2>1. /\ pc = "summary" /\ pc' = "done" /\ UNCHANGED <<run, turn, server, status, log, cut>>
    BY <1>7 DEF SummaryDone
  <2>2. NoServerLeft' BY <2>1 DEF ProcInv, NoServerLeft
  <2> QED BY <1>0, <1>a, <2>1, <2>2 DEF ProcInv, ScriptTypeOK
<1>8. CASE Interrupt
  <2>1. log' \in [Name -> [run : 0 .. MaxRuns, by : 0 .. MaxRuns]]
    <3>1. CASE UNCHANGED log BY <3>1 DEF ProcInv, ScriptTypeOK
    <3>2. CASE pc = "client" /\ log' = [log EXCEPT ![name] = [run |-> run, by |-> 0]]
      BY <1>0, <3>2, LogType DEF ProcInv
    <3> QED BY <1>8, <3>1, <3>2 DEF Interrupt
  <2>2. /\ pc' = "interrupted" /\ cut' = cut \cup {run}
        /\ UNCHANGED <<run, turn, server, status>>
    BY <1>8 DEF Interrupt
  <2>3. cut' \subseteq 1 .. run' BY <1>0, <2>2 DEF ProcInv, ScriptTypeOK
  <2>4. ScriptTypeOK' BY <1>0, <2>1, <2>2, <2>3 DEF ProcInv, ScriptTypeOK
  <2>5. NoServerLeft' BY <2>2 DEF ProcInv, NoServerLeft
  <2> QED BY <1>0, <2>2, <2>4, <2>5 DEF ProcInv
<1>9. CASE Invoke
  <2>1. /\ pc \in Ended /\ run < MaxRuns /\ pc' = "start" /\ run' = run + 1 /\ turn' = 1
        /\ UNCHANGED <<server, status, log, cut>>
    BY <1>9 DEF Invoke
  <2>2. pc \notin {"sleep", "client", "stop"} BY <1>0, <2>1
  <2>3. NoServerLeft' BY <2>1, <2>2 DEF ProcInv, NoServerLeft
  <2>4. run' \in 1 .. MaxRuns /\ run <= run' /\ cut \subseteq 1 .. run'
    BY <1>0, <2>1 DEF ProcInv, ScriptTypeOK
  <2> QED BY <1>0, <1>a, <2>1, <2>3, <2>4 DEF ProcInv, ScriptTypeOK
<1>b. ASSUME NEW n \in Name, NEW r \in 1 .. MaxRuns, NEW p \in Process,
             server[n][r] # "none", server' = [server EXCEPT ![n][r] = p],
             UNCHANGED <<pc, run, turn, status, log, cut>>
      PROVE  ProcInv'
  <2>1. /\ server' \in [Name -> [1 .. MaxRuns -> Process]]
        /\ \A m \in Name, q \in 1 .. MaxRuns : ~(m = n /\ q = r) => server'[m][q] = server[m][q]
    BY <1>b, ServerType DEF ProcInv, ScriptTypeOK
  <2>2. ScriptTypeOK' BY <1>b, <2>1 DEF ProcInv, ScriptTypeOK
  <2>3. name' = name BY <1>b DEF name
  <2>4. \A m \in Name, q \in 1 .. MaxRuns : server'[m][q] # "none" => server[m][q] # "none"
    BY <1>b, <2>1
  <2>5. NoServerLeft' BY <1>b, <2>3, <2>4 DEF ProcInv, NoServerLeft
  <2> QED BY <1>b, <2>2, <2>5 DEF ProcInv
<1>10. ASSUME NEW n \in Name, NEW r \in 1 .. MaxRuns, Bind(n, r) PROVE ProcInv'
  <2>1. server[n][r] # "none" BY <1>10 DEF Bind
  <2> QED BY <1>10, <1>b, <2>1 DEF Bind, Process
<1>11. ASSUME NEW n \in Name, NEW r \in 1 .. MaxRuns, ServerDies(n, r) PROVE ProcInv'
  BY <1>11, <1>b DEF ServerDies, Process
<1>12. CASE UNCHANGED scriptVars
  <2>1. UNCHANGED <<pc, run, turn, server, status, log, cut>> /\ name' = name
    BY <1>12 DEF scriptVars, name
  <2>2. NoServerLeft' BY <2>1 DEF ProcInv, NoServerLeft
  <2> QED BY <2>1, <2>2 DEF ProcInv, ScriptTypeOK
<1> QED
  BY <1>1, <1>2, <1>3, <1>4, <1>5, <1>6, <1>7, <1>8, <1>9, <1>10, <1>11, <1>12 DEF ScriptNext

\* A script that ends by itself leaves no server behind (run_one(), lines 49-50),
\* however many invocations before it were interrupted.
THEOREM NoServerLeftCorrect == ScriptSpec => []NoServerLeft
<1>1. ProcInv => NoServerLeft BY DEF ProcInv
<1> QED BY <1>1, ProcInit, ProcStep, PTL DEF ScriptSpec

----------------------------------------------------------------------------

LEMMA MeasuresStep == ProcInv /\ MeasuresItsServer /\ [ScriptNext]_scriptVars => MeasuresItsServer'
<1> SUFFICES ASSUME ProcInv, MeasuresItsServer, [ScriptNext]_scriptVars PROVE MeasuresItsServer'
  OBVIOUS
<1> USE RunBenchmarksAssumption, NamesFacts DEF RunBenchmarksAssumption, MeasuresItsServer
<1>1. CASE Client
  <2>1. name \in Name BY <1>1 DEF Client, ProcInv, ScriptTypeOK, Loop, name
  <2>2. CASE log' = [log EXCEPT ![name] = [run |-> run, by |-> 0]]
    BY <1>1, <2>1, <2>2 DEF Client, ProcInv, ScriptTypeOK
  <2>3. ASSUME NEW r \in Listening(name), log' = [log EXCEPT ![name] = [run |-> run, by |-> r]]
        PROVE MeasuresItsServer'
    <3>1. r \in 1 .. MaxRuns /\ (r \in cut \/ r = run)
      BY <2>1, <2>3 DEF Listening, ProcInv, NoServerLeft
    <3> QED BY <1>1, <2>1, <2>3, <3>1 DEF Client, ProcInv, ScriptTypeOK
  <2> QED BY <1>1, <2>2, <2>3 DEF Client
<1>2. CASE Interrupt
  <2>1. CASE UNCHANGED log BY <1>2, <2>1 DEF Interrupt
  <2>2. CASE pc = "client" /\ log' = [log EXCEPT ![name] = [run |-> run, by |-> 0]]
    BY <1>2, <2>2 DEF Interrupt, ProcInv, ScriptTypeOK, Loop, name
  <2> QED BY <1>2, <2>1, <2>2 DEF Interrupt
<1>3. CASE UNCHANGED <<log, cut>>
  BY <1>3
<1> QED
  BY <1>1, <1>2, <1>3
     DEF ScriptNext, scriptVars, StartServer, Sleep, Stop, Check, SummaryRow, SummaryDone, Invoke,
         Bind, ServerDies

\* A client log is of the server its own run_one() has started, unless an
\* interrupted invocation has left one on the port (lines 32-47).
THEOREM MeasuresItsServerCorrect == ScriptSpec => []MeasuresItsServer
<1>1. ScriptInit => MeasuresItsServer BY DEF ScriptInit, MeasuresItsServer, NoLog
<1> QED BY <1>1, ProcInit, ProcStep, MeasuresStep, PTL DEF ScriptSpec

----------------------------------------------------------------------------

LEMMA MeasuredStep == ProcInv /\ Measured /\ [ScriptNext]_scriptVars => Measured'
<1> SUFFICES ASSUME ProcInv, Measured, [ScriptNext]_scriptVars PROVE Measured'
  OBVIOUS
<1>0. /\ MaxRuns \in Nat \ {0} /\ Len(Names) = 4 /\ turn \in 1 .. 5 /\ run \in 1 .. MaxRuns
      /\ pc \in Loop => turn \in 1 .. 4 /\ name \in Name
      /\ name = Names[turn]
  BY RunBenchmarksAssumption, NamesFacts DEF RunBenchmarksAssumption, ProcInv, ScriptTypeOK, name
<1>1. CASE StartServer BY <1>1 DEF StartServer, Measured, Loop, Current, name
<1>2. CASE Sleep BY <1>2 DEF Sleep, Measured, Loop, Current, name
<1>3. CASE Client
  <2>1. /\ turn \in 1 .. 4 /\ name \in Name /\ name = Names[turn] /\ name' = name
        /\ pc = "client" /\ pc' = "stop" /\ UNCHANGED <<run, turn>>
    BY <1>0, <1>3 DEF Client, Loop, name
  <2>2. PICK r \in 0 .. MaxRuns :
            /\ log' = [log EXCEPT ![name] = [run |-> run, by |-> r]]
            /\ status' = 0 => r # 0
    <3>1. CASE status' = 1 /\ log' = [log EXCEPT ![name] = [run |-> run, by |-> 0]]
      <4>1. 0 \in 0 .. MaxRuns BY <1>0
      <4>2. WITNESS 0 \in 0 .. MaxRuns
      <4> QED BY <3>1
    <3>2. ASSUME NEW r \in Listening(name),
                 log' = [log EXCEPT ![name] = [run |-> run, by |-> r]]
          PROVE  \E r0 \in 0 .. MaxRuns :
                    /\ log' = [log EXCEPT ![name] = [run |-> run, by |-> r0]]
                    /\ status' = 0 => r0 # 0
      <4>1. r \in 0 .. MaxRuns /\ r # 0 BY <1>0 DEF Listening
      <4> QED BY <3>2, <4>1
    <3> QED BY <1>3, <3>1, <3>2 DEF Client
  <2>3. log'[name].run = run /\ log'[name].by = r
    BY <2>1, <2>2 DEF ProcInv, ScriptTypeOK
  <2>4. \A m \in 1 .. turn - 1 : log'[Names[m]] = log[Names[m]]
    <3>1. \A n \in Name : n # name => log'[n] = log[n]
      BY <2>1, <2>2 DEF ProcInv, ScriptTypeOK
    <3>2. \A m \in 1 .. turn - 1 : Names[m] \in Name /\ Names[m] # name
      BY <2>1, NamesFacts
    <3> QED BY <3>1, <3>2
  <2>5. \A m \in 1 .. turn - 1 : Current(Names[m])'
    BY <2>1, <2>4 DEF Measured, Loop, Current
  <2>6. status' = 0 => Current(name)'
    BY <2>1, <2>2, <2>3 DEF Current
  <2> QED BY <1>0, <2>1, <2>5, <2>6 DEF Measured, Loop
<1>4. CASE Stop BY <1>4 DEF Stop, Measured, Loop, Current, name
<1>5. CASE Check
  <2>1. turn \in 1 .. 4 /\ pc = "check" /\ UNCHANGED <<run, log>>
    BY <1>0, <1>5 DEF Check, Loop
  <2>2. CASE Failed BY <1>5, <2>2 DEF Check, Measured, Loop
  <2>3. CASE ~Failed
    <3>1. \A m \in 1 .. turn : Current(Names[m])'
      <4>1. status = 0 BY <2>3 DEF Failed
      <4>2. \A m \in 1 .. turn - 1 : Current(Names[m]) BY <2>1 DEF Measured, Loop
      <4>3. Current(Names[turn]) BY <1>0, <2>1, <4>1 DEF Measured
      <4> QED BY <2>1, <4>2, <4>3 DEF Current
    <3>2. CASE turn < 4 BY <1>0, <1>5, <2>1, <2>3, <3>1, <3>2 DEF Check, Measured, Loop
    <3>3. CASE turn = 4
      <4>1. \A n \in Name : Current(n)' BY <3>1, <3>3, NamesFacts DEF Name
      <4> QED BY <1>0, <1>5, <2>1, <2>3, <3>3, <4>1 DEF Check, Measured, Loop
    <3> QED BY <2>1, <3>2, <3>3
  <2> QED BY <2>2, <2>3
<1>6. CASE SummaryRow BY <1>6 DEF SummaryRow, Measured, Loop, Current
<1>7. CASE SummaryDone BY <1>7 DEF SummaryDone, Measured, Loop, Current
<1>8. CASE Interrupt BY <1>8 DEF Interrupt, Measured, Loop, Ended
<1>9. CASE Invoke BY <1>0, <1>9 DEF Invoke, Measured, Loop
<1>10. ASSUME NEW n \in Name, NEW r \in 1 .. MaxRuns, Bind(n, r) PROVE Measured'
  BY <1>10 DEF Bind, Measured, Loop, Current, name
<1>11. ASSUME NEW n \in Name, NEW r \in 1 .. MaxRuns, ServerDies(n, r) PROVE Measured'
  BY <1>11 DEF ServerDies, Measured, Loop, Current, name
<1>12. CASE UNCHANGED scriptVars BY <1>12 DEF scriptVars, Measured, Loop, Current, name
<1> QED
  BY <1>1, <1>2, <1>3, <1>4, <1>5, <1>6, <1>7, <1>8, <1>9, <1>10, <1>11, <1>12 DEF ScriptNext

\* Every client log is there when the summary is written, so every server has a row.
LEMMA WrittenStep == ProcInv /\ Measured /\ Written /\ [ScriptNext]_scriptVars => Written'
<1> SUFFICES ASSUME ProcInv, Measured, Written, [ScriptNext]_scriptVars PROVE Written'
  OBVIOUS
<1> USE NamesFacts
<1>1. CASE SummaryRow
  <2>1. turn \in 1 .. 4 /\ name = Names[turn] /\ name \in Name /\ pc = "summary"
    BY <1>1 DEF SummaryRow, ProcInv, ScriptTypeOK, name
  <2>2. log[name].run = run /\ log[name].by # 0
    BY <2>1 DEF Measured, Current
  <2>3. log[name] # NoLog BY <2>2 DEF NoLog
  <2>4. Row \in RowType /\ Row.server = Names[turn] /\ Row.log = log[name]
    BY <2>1 DEF Row, RowType, Cells, ProcInv, ScriptTypeOK
  <2>5. summary' = Append(summary, Row) BY <1>1, <2>3 DEF SummaryRow
  <2>6. summary \in Seq(RowType) /\ Len(summary) = turn - 1 /\ RowsCurrent
    BY <2>1 DEF Written
  <2>7. summary' \in Seq(RowType) /\ Len(summary') = turn
    BY <2>1, <2>4, <2>5, <2>6
  <2>8. \A n \in 1 .. turn :
            /\ summary'[n].server = Names[n]
            /\ summary'[n].log.run = run /\ summary'[n].log.by # 0
    <3>1. \A n \in 1 .. turn - 1 : summary'[n] = summary[n] BY <2>5, <2>6
    <3>2. summary'[turn] = Row BY <2>1, <2>5, <2>6
    <3> HIDE DEF Row
    <3> QED BY <2>1, <2>2, <2>4, <2>6, <3>1, <3>2 DEF RowsCurrent
  <2> QED BY <1>1, <2>1, <2>7, <2>8 DEF SummaryRow, Written, RowsCurrent
<1>2. CASE SummaryDone
  <2>1. turn = 5 BY <1>2 DEF SummaryDone, ProcInv, ScriptTypeOK
  <2> QED BY <1>2, <2>1 DEF SummaryDone, Written, RowsCurrent
<1>3. CASE Check
  <2>1. CASE pc' = "summary"
    <3>1. summary' = << >> /\ turn' = 1 BY <1>3, <2>1 DEF Check
    <3> QED BY <2>1, <3>1 DEF Written, RowsCurrent
  <2>2. CASE pc' # "summary" BY <1>3, <2>2 DEF Check, Written
  <2> QED BY <2>1, <2>2
<1>4. CASE StartServer \/ Sleep \/ Client \/ Stop \/ Interrupt \/ Invoke
  BY <1>4 DEF StartServer, Sleep, Client, Stop, Interrupt, Invoke, Written
<1>5. CASE UNCHANGED <<pc, run, turn, summary>> BY <1>5 DEF Written, RowsCurrent
<1> QED
  BY <1>1, <1>2, <1>3, <1>4, <1>5 DEF ScriptNext, scriptVars, Bind, ServerDies

\* A script that finishes leaves a summary of its own four successful clients
\* (write_summary(), lines 74-96), whatever earlier invocations left in its files.
THEOREM SummaryIsCurrentCorrect == ScriptSpec => []SummaryIsCurrent
<1>1. ScriptInit => Measured /\ Written
  BY NamesFacts DEF ScriptInit, Measured, Written, Loop
<1>2. Measured /\ Written => SummaryIsCurrent
  <2> SUFFICES ASSUME Written, pc = "done" PROVE SummaryIsCurrent
    BY DEF SummaryIsCurrent
  <2>1. summary \in Seq(RowType) /\ Len(summary) = Len(Names) /\ RowsCurrent
    BY DEF Written
  <2>2. DOMAIN summary = 1 .. Len(summary) BY <2>1
  <2> QED BY <2>1, <2>2 DEF SummaryIsCurrent, RowsCurrent
<1> QED BY <1>1, <1>2, ProcInit, ProcStep, MeasuredStep, WrittenStep, PTL DEF ScriptSpec
============================================================================
