--------------------------- MODULE RunBenchmarks ---------------------------
(***************************************************************************)
(* partB/run_benchmarks.sh: for each of the four servers, run_one() starts *)
(* the server in the background, sleeps, runs load_client against its port *)
(* and stops the server; write_summary() then reads the metrics from the   *)
(* four client logs.  Every server has a port of its own.                  *)
(*                                                                         *)
(* The script may be interrupted and invoked again.  A server it has       *)
(* started survives that (the shell lets background jobs ignore SIGINT),   *)
(* and keeps its port.                                                     *)
(***************************************************************************)
EXTENDS Integers, Sequences

CONSTANTS MaxRuns           \* bound: how often the script is invoked

ASSUME RunBenchmarksAssumption == MaxRuns \in Nat \ {0}

Names == <<"poll", "epoll", "threadpool", "io_uring">>
Name  == {Names[n] : n \in DOMAIN Names}
Metrics == <<"throughput_mib_per_sec", "requests_per_sec",
             "avg_latency_ms", "p99_latency_ms">>

\* What load_client prints: the keys of the key=value words of each line.
Output == << <<"connections", "requests_per_connection", "payload_size">>,
             <<"duration_sec", "total_requests", "total_bytes">>,
             <<"throughput_mib_per_sec", "requests_per_sec">>,
             <<"avg_latency_ms", "p99_latency_ms">> >>

VARIABLES
    pc,         \* run_one: start, sleep, client, stop, check; summary, done,
                \* failed; interrupted
    run,        \* which invocation this is
    turn,       \* which of Names
    server,     \* server[name][run]: the process run_one() started
    status,     \* client_status
    log,        \* log[name]: the client log: whose, of which server's run
    summary,    \* the rows of summary.csv
    cut         \* the invocations that were interrupted (history)

scriptVars == <<pc, run, turn, server, status, log, summary, cut>>

Process == {"none", "starting", "listening"}
NoLog   == [run |-> 0, by |-> 0]

ScriptInit ==
    /\ pc = "start" /\ run = 1 /\ turn = 1
    /\ server = [n \in Name |-> [r \in 1 .. MaxRuns |-> "none"]]
    /\ status = 0
    /\ log = [n \in Name |-> NoLog]
    /\ summary = << >>
    /\ cut = {}

name == Names[turn]

----------------------------------------------------------------------------
(* The servers. *)

Listening(n) == {r \in 1 .. MaxRuns : server[n][r] = "listening"}

\* create_listen_socket(), or its die() when the port is taken.
Bind(n, r) ==
    /\ server[n][r] = "starting"
    /\ server' = [server EXCEPT ![n][r] = IF Listening(n) = {} THEN "listening" ELSE "none"]
    /\ UNCHANGED <<pc, run, turn, status, log, summary, cut>>

\* A server that cannot start (no io_uring), or dies while it serves.
ServerDies(n, r) ==
    /\ server[n][r] # "none"
    /\ server' = [server EXCEPT ![n][r] = "none"]
    /\ UNCHANGED <<pc, run, turn, status, log, summary, cut>>

----------------------------------------------------------------------------
(* run_one(). *)

StartServer ==
    /\ pc = "start"
    /\ server' = [server EXCEPT ![name][run] = "starting"]
    /\ pc' = "sleep"
    /\ UNCHANGED <<run, turn, status, log, summary, cut>>

\* A second passes; whether the server listens by then is open.
Sleep ==
    /\ pc = "sleep"
    /\ pc' = "client"
    /\ UNCHANGED <<run, turn, server, status, log, summary, cut>>

\* load_client against whoever listens on the port.
Client ==
    /\ pc = "client"
    /\ \/ /\ status' = 1 /\ log' = [log EXCEPT ![name] = [run |-> run, by |-> 0]]
       \/ \E r \in Listening(name) :
             status' = 0 /\ log' = [log EXCEPT ![name] = [run |-> run, by |-> r]]
    /\ pc' = "stop"
    /\ UNCHANGED <<run, turn, server, summary, cut>>

\* Mutant: the server is left when the client has failed.
Stopped_onSuccess == IF status = 0 THEN "none" ELSE server[name][run]
\* kill and wait: the process is gone, if it was there.
Stopped == "none"

Stop ==
    /\ pc = "stop"
    /\ server' = [server EXCEPT ![name][run] = Stopped]
    /\ pc' = "check"
    /\ UNCHANGED <<run, turn, status, log, summary, cut>>

\* Mutant: the client's exit status is not looked at.
Failed_never == FALSE
\* run_one() returns the client's status, which set -e makes the script's own.
Failed == status # 0

Check ==
    /\ pc = "check"
    /\ IF Failed THEN pc' = "failed" /\ UNCHANGED <<turn, summary>>
       ELSE IF turn < Len(Names) THEN pc' = "start" /\ turn' = turn + 1 /\ UNCHANGED summary
       ELSE pc' = "summary" /\ turn' = 1 /\ summary' = << >>
    /\ UNCHANGED <<run, server, status, log, cut>>

----------------------------------------------------------------------------
(* write_summary(). *)

\* A line split at its '=' signs: between two of them stand a value and, after
\* a space, the next key.
Fields(line) ==
    [f \in 1 .. Len(line) + 1 |->
        (IF f = 1 THEN << >> ELSE << <<"value", line[f - 1]>> >>)
            \o (IF f > Len(line) THEN << >> ELSE << <<"key", line[f]>> >>)]

\* The first word after the first field that is the key, or nothing.
extract_metric(key) ==
    LET Found == {l \in DOMAIN Output : \E f \in 1 .. Len(Output[l]) :
                      Fields(Output[l])[f] = << <<"key", key>> >>}
        line  == Fields(Output[CHOOSE l \in Found : \A m \in Found : l <= m])
    IN  IF Found = {} THEN << >>
        ELSE line[1 + CHOOSE f \in DOMAIN line : line[f] = << <<"key", key>> >>][1]

Row == [server |-> name, log |-> log[name],
        metrics |-> [m \in DOMAIN Metrics |-> extract_metric(Metrics[m])]]

\* A server without a client log has no row.
SummaryRow ==
    /\ pc = "summary" /\ turn <= Len(Names)
    /\ summary' = IF log[name] = NoLog THEN summary ELSE Append(summary, Row)
    /\ turn' = turn + 1
    /\ UNCHANGED <<pc, run, server, status, log, cut>>

SummaryDone ==
    /\ pc = "summary" /\ turn > Len(Names)
    /\ pc' = "done"
    /\ UNCHANGED <<run, turn, server, status, log, summary, cut>>

----------------------------------------------------------------------------
(* The user. *)

Ended == {"done", "failed", "interrupted"}

\* A client that is interrupted has emptied its log already.
Interrupt ==
    /\ pc \notin Ended
    /\ pc' = "interrupted" /\ cut' = cut \cup {run}
    /\ \/ UNCHANGED log
       \/ pc = "client" /\ log' = [log EXCEPT ![name] = [run |-> run, by |-> 0]]
    /\ UNCHANGED <<run, turn, server, status, summary>>

Invoke ==
    /\ pc \in Ended /\ run < MaxRuns
    /\ pc' = "start" /\ run' = run + 1 /\ turn' = 1
    /\ UNCHANGED <<server, status, log, summary, cut>>

ScriptNext ==
    \/ StartServer \/ Sleep \/ Client \/ Stop \/ Check \/ SummaryRow \/ SummaryDone
    \/ Interrupt \/ Invoke
    \/ \E n \in Name, r \in 1 .. MaxRuns : Bind(n, r) \/ ServerDies(n, r)

ScriptSpec == ScriptInit /\ [][ScriptNext]_scriptVars

----------------------------------------------------------------------------
(* Properties. *)

ScriptTypeOK ==
    /\ pc \in {"start", "sleep", "client", "stop", "check", "summary"} \cup Ended
    /\ run \in 1 .. MaxRuns /\ turn \in 1 .. Len(Names) + 1
    /\ server \in [Name -> [1 .. MaxRuns -> Process]]
    /\ status \in {0, 1}
    /\ log \in [Name -> [run : 0 .. MaxRuns, by : 0 .. MaxRuns]]
    /\ cut \subseteq 1 .. run

\* A script that ends by itself, successfully or not, leaves no server behind:
\* one is alive only while its run_one() is between start and stop, or when its
\* script was interrupted.
NoServerLeft ==
    \A n \in Name, r \in 1 .. MaxRuns :
        server[n][r] # "none" =>
            r \in cut \/ (r = run /\ pc \in {"sleep", "client", "stop"} /\ n = name)

\* A measurement is of the server that the same run_one() has started, except
\* when an interrupted invocation has left one behind on the port.
MeasuresItsServer ==
    \A n \in Name : log[n].by \notin {0, log[n].run} => log[n].by \in cut

\* A finished script leaves a summary of its own four clients, all successful,
\* and none of an earlier invocation, although its files are still there.
SummaryIsCurrent ==
    pc = "done" =>
        /\ Len(summary) = Len(Names)
        /\ \A n \in DOMAIN summary :
              summary[n].server = Names[n] /\ summary[n].log.run = run /\ summary[n].log.by # 0

\* The summary has throughput and latency metrics of every server.
MetricsFilled ==
    \A n \in DOMAIN summary, m \in DOMAIN Metrics :
        summary[n].metrics[m] = <<"value", Metrics[m]>>
============================================================================
