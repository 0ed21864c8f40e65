----------------------------- MODULE LoadClient -----------------------------
(***************************************************************************)
(* partB/src/load_client.c: a main thread that divides the connections     *)
(* among worker threads, joins them and evaluates the latency array they   *)
(* have filled.  Each worker opens its connections one after the other and *)
(* sends its requests in a closed loop: write_full() of the whole payload, *)
(* then read_full() of the whole payload, both blocking.                   *)
(*                                                                         *)
(* The other end is an echo server as the four of partB are: it reads up   *)
(* to SrvBuf bytes and reads again only when it has written them back, or  *)
(* closes the connection at any time.  Every byte is an 'A', so a          *)
(* connection is three byte counts; a latency is only whether, and how     *)
(* often, its slot was stored.                                             *)
(*                                                                         *)
(* An int has IntSize values, around 0.                                    *)
(***************************************************************************)
EXTENDS Integers, FiniteSets

CONSTANTS
    CommandLines,   \* the numbers given for each option, of any size (longs)
    MaxThreads,     \* bound: the threads there can be
    IntSize,        \* 2^32
    CapUp, CapDown, \* bytes the kernels hold in either direction
    SrvBuf          \* bytes the server holds

ASSUME LoadClientAssumption ==
    /\ CommandLines \subseteq [connections : Int, requests : Int, threads : Int,
                               payload : Nat \ {0}]
    /\ IntSize \in Nat \ {0} /\ IntSize % 2 = 0
    /\ {CapUp, CapDown, SrvBuf, MaxThreads} \subseteq Nat \ {0}

VARIABLES
    arg,        \* the command line, from parse on as ints
    mpc,        \* main: parse, alloc, spawn, join, done; or the process has died,
                \* or its behaviour is undefined
    i,          \* main's loop variable
    offset,     \* main's running sum of connections handed out
    total,      \* main's total_bytes
    p99,        \* the index of p99_latency_ms in the sorted array
    args,       \* args[t]: connections, latency_offset, bytes_completed
    tpc,        \* a worker: idle, connect, write, read, exit
    conn_index, req, \* its loop variables
    moved,      \* bytes of the current write_full() or read_full()
    net,        \* its connection: bytes up, in the server, down; still open
    latencies   \* how often each slot was stored

mainVars   == <<arg, mpc, i, offset, total, p99>>
workerVars == <<tpc, conn_index, req, moved, net, latencies>>
vars       == <<mainVars, args, workerVars>>

Least(a, b) == IF a <= b THEN a ELSE b

Tids == 0 .. MaxThreads - 1

\* The conversion to int, and whether a result of int arithmetic is defined.
ToInt(n) == ((n + IntSize \div 2) % IntSize) - IntSize \div 2
IsInt(n) == ToInt(n) = n

\* There are as many thread variables as threads can be started.
ASSUME MaxThreadsAssumption ==
    \A c \in CommandLines : Least(ToInt(c.threads), ToInt(c.connections)) <= MaxThreads

TotalRequests == arg.connections * arg.requests

NoNet == [up |-> 0, srv |-> 0, down |-> 0, open |-> FALSE]

TypeOK ==
    /\ arg \in [connections : Int, requests : Int, threads : Int, payload : Nat]
    /\ mpc \in {"parse", "alloc", "spawn", "join", "done", "dead", "undefined"}
    /\ i \in Nat
    /\ offset \in Nat /\ total \in Nat /\ p99 \in Int
    /\ args \in [Tids -> [connections : Nat, latency_offset : Nat, bytes : Nat]]
    /\ tpc \in [Tids -> {"idle", "connect", "write", "read", "exit"}]
    /\ conn_index \in [Tids -> Nat] /\ req \in [Tids -> Nat]
    /\ moved \in [Tids -> 0 .. arg.payload]
    /\ net \in [Tids -> [up : 0 .. CapUp, srv : 0 .. SrvBuf, down : 0 .. CapDown,
                         open : BOOLEAN]]
    /\ latencies = << >> \/ latencies \in [0 .. 2 * TotalRequests -> Nat]

Init ==
    /\ arg \in CommandLines
    /\ mpc = "parse" /\ i = 0 /\ offset = 0 /\ total = 0 /\ p99 = 0
    /\ args = [t \in Tids |-> [connections |-> 0, latency_offset |-> 0, bytes |-> 0]]
    /\ tpc = [t \in Tids |-> "idle"]
    /\ conn_index = [t \in Tids |-> 0]
    /\ req = [t \in Tids |-> 0]
    /\ moved = [t \in Tids |-> 0]
    /\ net = [t \in Tids |-> NoNet]
    /\ latencies = << >>

----------------------------------------------------------------------------
(* The main thread. *)

\* parse_int() compares the long with 1 and converts it afterwards; then
\* if (connections < threads) threads = connections.
Parse ==
    /\ mpc = "parse"
    /\ IF 1 <= arg.connections /\ 1 <= arg.requests /\ 1 <= arg.threads
       THEN /\ mpc' = "alloc"
            /\ arg' = [arg EXCEPT !.connections = ToInt(@), !.requests = ToInt(@),
                          !.threads = Least(ToInt(@), ToInt(arg.connections))]
       ELSE mpc' = "dead" /\ UNCHANGED arg
    /\ UNCHANGED <<i, offset, total, p99, args, workerVars>>

\* Mutant: a negative count would do for an allocation.
TooLarge_no(n) == FALSE
\* calloc() never has the memory for a negative number converted to size_t.
TooLarge(n) == n < 0

\* total_requests, the arrays, and connections / threads.  The array is followed
\* by as much memory that is not its own.
Alloc ==
    /\ mpc = "alloc"
    /\ IF ~IsInt(TotalRequests)
       THEN mpc' = "undefined" /\ UNCHANGED latencies
       ELSE IF TooLarge(TotalRequests) \/ TooLarge(arg.threads) \/ arg.threads = 0
       THEN mpc' = "dead" /\ UNCHANGED latencies
       ELSE mpc' = "spawn" /\ latencies' = [s \in 0 .. 2 * TotalRequests |-> 0]
    /\ UNCHANGED <<arg, i, offset, total, p99, args, tpc, conn_index, req, moved, net>>

ConnCount(t) ==
    arg.connections \div arg.threads
        + (IF t < arg.connections % arg.threads THEN 1 ELSE 0)

\* Mutant: the offset counts connections, not requests.
latency_offset_conn == offset
latency_offset == offset * arg.requests

\* pthread_create() of worker i; those before it run already.
Spawn ==
    /\ mpc = "spawn"
    /\ i < arg.threads
    /\ args' = [args EXCEPT ![i] = [connections |-> ConnCount(i),
                                    latency_offset |-> latency_offset, bytes |-> 0]]
    /\ offset' = offset + ConnCount(i)
    /\ tpc' = [tpc EXCEPT ![i] = "connect"]
    /\ i' = i + 1
    /\ UNCHANGED <<arg, mpc, total, p99, conn_index, req, moved, net, latencies>>

AllSpawned ==
    /\ mpc = "spawn"
    /\ i = arg.threads
    /\ mpc' = "join" /\ i' = 0
    /\ UNCHANGED <<arg, offset, total, p99, args, workerVars>>

\* Mutant: bytes_completed is read before the thread has ended.
Returned_early(t) == tpc[t] # "idle"
Returned(t) == tpc[t] = "exit"

\* pthread_join(), then the thread's share of total_bytes.
Join ==
    /\ mpc = "join"
    /\ i < arg.threads
    /\ Returned(i)
    /\ total' = total + args[i].bytes
    /\ i' = i + 1
    /\ UNCHANGED <<arg, mpc, offset, p99, args, workerVars>>

\* Mutant: one rank lower where 100 divides the number of requests.
Percentile_below(n) == (n * 99 - 1) \div 100
\* The product is computed in int, where it wraps around, and the quotient is
\* rounded towards zero.
Percentile(n) ==
    LET product == ToInt(n * 99)
    IN  IF product >= 0 THEN product \div 100 ELSE -((-product) \div 100)

\* The evaluation of the array.  To read an element it does not have gives some
\* number, or is a segmentation fault.
AllJoined ==
    /\ mpc = "join"
    /\ i = arg.threads
    /\ p99' = Percentile(TotalRequests)
    /\ mpc' \in IF p99' \in 0 .. TotalRequests - 1 THEN {"done"} ELSE {"done", "dead"}
    /\ UNCHANGED <<arg, i, offset, total, args, workerVars>>

----------------------------------------------------------------------------
(* A worker. *)

Running == mpc \in {"spawn", "join"}

\* The head of the connection loop; without requests the connection is closed
\* again at once.
Connect(t) ==
    /\ Running /\ tpc[t] = "connect"
    /\ conn_index[t] < args[t].connections
    /\ req' = [req EXCEPT ![t] = 0]
    /\ IF arg.requests > 0
       THEN /\ tpc' = [tpc EXCEPT ![t] = "write"]
            /\ net' = [net EXCEPT ![t] = [NoNet EXCEPT !.open = TRUE]]
            /\ UNCHANGED conn_index
       ELSE /\ conn_index' = [conn_index EXCEPT ![t] = @ + 1]
            /\ UNCHANGED <<tpc, net>>
    /\ UNCHANGED <<mainVars, args, moved, latencies>>

\* connect_to_server() has tried every address.
ConnectFails(t) ==
    /\ Running /\ tpc[t] = "connect"
    /\ conn_index[t] < args[t].connections
    /\ mpc' = "dead"
    /\ UNCHANGED <<arg, i, offset, total, p99, args, workerVars>>

WorkerReturns(t) ==
    /\ Running /\ tpc[t] = "connect"
    /\ conn_index[t] = args[t].connections
    /\ tpc' = [tpc EXCEPT ![t] = "exit"]
    /\ UNCHANGED <<mainVars, args, conn_index, req, moved, net, latencies>>

\* Mutants: one write(), one read() is enough; they wait for a byte too much.
Full_once(n) == TRUE
Full_more(n) == n > arg.payload
\* write_full() and read_full() return when the whole payload is done.
Full(n) == n >= arg.payload

\* An iteration of write_full(); after the last one the worker reads.
Write(t) ==
    /\ Running /\ tpc[t] = "write"
    /\ net[t].open /\ net[t].up < CapUp
    /\ LET n == Least(CapUp - net[t].up, arg.payload - moved[t])
       IN  /\ net' = [net EXCEPT ![t].up = @ + n]
           /\ IF Full(moved[t] + n)
              THEN tpc' = [tpc EXCEPT ![t] = "read"] /\ moved' = [moved EXCEPT ![t] = 0]
              ELSE UNCHANGED tpc /\ moved' = [moved EXCEPT ![t] = @ + n]
    /\ UNCHANGED <<mainVars, args, conn_index, req, latencies>>

\* An iteration of read_full() that is not the last one.
Read(t) ==
    /\ Running /\ tpc[t] = "read"
    /\ net[t].down > 0
    /\ ~Full(moved[t] + net[t].down)
    /\ moved' = [moved EXCEPT ![t] = @ + net[t].down]
    /\ net' = [net EXCEPT ![t].down = 0]
    /\ UNCHANGED <<mainVars, args, tpc, conn_index, req, latencies>>

Slot(t) == args[t].latency_offset + conn_index[t] * arg.requests + req[t]

\* The last one: the request is done, and after the last request the connection.
Complete(t) ==
    /\ Running /\ tpc[t] = "read"
    /\ net[t].down > 0
    /\ Full(moved[t] + net[t].down)
    /\ latencies' = [latencies EXCEPT ![Slot(t)] = @ + 1]
    /\ args' = [args EXCEPT ![t].bytes = @ + 2 * arg.payload]
    /\ moved' = [moved EXCEPT ![t] = 0]
    /\ req' = [req EXCEPT ![t] = @ + 1]
    /\ IF req[t] + 1 < arg.requests
       THEN /\ tpc' = [tpc EXCEPT ![t] = "write"]
            /\ net' = [net EXCEPT ![t].down = @ - (arg.payload - moved[t])]
            /\ UNCHANGED conn_index
       ELSE /\ tpc' = [tpc EXCEPT ![t] = "connect"]
            /\ net' = [net EXCEPT ![t] = NoNet]
            /\ conn_index' = [conn_index EXCEPT ![t] = @ + 1]
    /\ UNCHANGED mainVars

\* Mutant: the worker returns, the process goes on.
Die_return(t) ==
    /\ Running /\ tpc[t] \in {"write", "read"}
    /\ ~net[t].open
    /\ tpc[t] = "read" => net[t].down = 0
    /\ tpc' = [tpc EXCEPT ![t] = "exit"]
    /\ UNCHANGED <<mainVars, args, conn_index, req, moved, net, latencies>>

\* The connection is closed on the worker: write_full() or read_full() comes
\* back short and the whole process ends (without ignore_sigpipe(), write()
\* itself ends it).
Die(t) ==
    /\ Running /\ tpc[t] \in {"write", "read"}
    /\ ~net[t].open
    /\ tpc[t] = "read" => net[t].down = 0
    /\ mpc' = "dead"
    /\ UNCHANGED <<arg, i, offset, total, p99, args, workerVars>>

WorkerNext(t) ==
    \/ Connect(t) \/ ConnectFails(t) \/ WorkerReturns(t)
    \/ Write(t) \/ Read(t) \/ Complete(t) \/ Die(t)

----------------------------------------------------------------------------
(* The server at the other end of worker t's connection. *)

ServerEchoes(t) ==
    /\ net[t].open
    /\ \/ /\ net[t].srv = 0 /\ net[t].up > 0
          /\ LET n == Least(SrvBuf, net[t].up)
             IN  net' = [net EXCEPT ![t].up = @ - n, ![t].srv = n]
       \/ /\ net[t].srv > 0 /\ net[t].down < CapDown
          /\ LET n == Least(net[t].srv, CapDown - net[t].down)
             IN  net' = [net EXCEPT ![t].srv = @ - n, ![t].down = @ + n]
    /\ UNCHANGED <<mainVars, args, tpc, conn_index, req, moved, latencies>>

\* A server at its limit of connections closes one as soon as it is accepted.
ServerCloses(t) ==
    /\ net[t].open
    /\ net' = [net EXCEPT ![t].open = FALSE]
    /\ UNCHANGED <<mainVars, args, tpc, conn_index, req, moved, latencies>>

MainNext == Parse \/ Alloc \/ Spawn \/ AllSpawned \/ Join \/ AllJoined

Next == MainNext \/ \E t \in Tids : WorkerNext(t) \/ ServerEchoes(t) \/ ServerCloses(t)

Spec == Init /\ [][Next]_vars

\* Every thread is scheduled, and the server echoes what it has room to echo.
FairSpec ==
    /\ Spec
    /\ WF_vars(MainNext)
    /\ \A t \in Tids : WF_vars(WorkerNext(t)) /\ WF_vars(ServerEchoes(t))

----------------------------------------------------------------------------
(* Properties. *)

\* parse_int() lets numbers through that are zero or negative as ints.  None of
\* them comes as far as a worker: the allocations or the division end the process
\* first.  Only the requests per connection may be zero.
StartedSane ==
    (\E t \in Tids : tpc[t] # "idle") =>
        1 <= arg.threads /\ arg.threads <= arg.connections /\ 0 <= arg.requests

\* What main evaluates is complete: no two threads have stored into one slot and
\* none outside the array, every slot was stored, and the bytes are those of all
\* requests, in both directions.
ResultComplete ==
    mpc = "done" =>
        /\ \A s \in DOMAIN latencies : latencies[s] = (IF s < TotalRequests THEN 1 ELSE 0)
        /\ total = 2 * arg.payload * TotalRequests

\* p99_latency_ms is an element of the array, and the first one that more than 99 of
\* 100 requests do not exceed, as long as there are requests and 99 times their
\* number is an int.  Where 100 divides their number that is one element further up
\* than the nearest rank, which 99 of 100 requests do not exceed.
PercentileRank ==
    mpc = "done" /\ TotalRequests > 0 /\ IsInt(TotalRequests * 99) =>
        /\ p99 \in 0 .. TotalRequests - 1
        /\ 99 * TotalRequests < 100 * (p99 + 1)
        /\ 100 * p99 <= 99 * TotalRequests

\* A connection is closed, and a request is started, only when everything that
\* was sent has come back: an answer is never taken for that of another request.
ClosedLoop ==
    \A t \in Tids :
        /\ tpc[t] = "write" => net[t].down + net[t].srv + net[t].up = moved[t]
        /\ tpc[t] = "read" => moved[t] + net[t].down + net[t].srv + net[t].up = arg.payload

\* The client writes all before it reads anything: a payload beyond what the two
\* kernels and the server hold together can never be echoed, and the client
\* never finishes, unless it has no request to make.
PayloadFits ==
    mpc = "done" /\ TotalRequests > 0 => arg.payload <= CapUp + SrvBuf + CapDown

\* A payload the kernels hold, with one byte at the server, is always echoed: the
\* client comes to its end, whatever the workers' order and however little moves.
Finishes ==
    arg.payload <= CapUp + CapDown + 1 => <>(mpc \in {"done", "dead", "undefined"})
============================================================================
