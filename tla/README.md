# Verification of sys_lab1

The repository holds two parts. `partB` is a TCP echo service written four
times, once per I/O model (`poll`, `epoll`, `io_uring`, a thread pool), with a
load generator and a script that measures them. `partA` is a file-reading
benchmark with a hand-written buffered reader. The modules here model the
programs of `partB/src`, the script that runs them and the benchmark of `partA`,
model-check them with TLC on small instances and prove the most important
results with TLAPS for every instance.

Every definition that stands for code is listed with its lines in
`PROJECT.json` under `map`; the hazards the properties are aimed at are listed
there too, each at the line where it bites.

## 1. Inventory

| part | state | operations | what is hard | what makes it correct |
|---|---|---|---|---|
| `poll_server.c` | two parallel arrays, `pfds[]` (fd, events, revents) and `conns[]` (fd, buffer, used, sent) | `poll()`, the accept loop, the scan over the slots | peers go on between a readiness report and its use; slots and descriptor numbers are reused; short reads and writes; the two arrays and the kernel's table are three copies of one fact; the process's descriptor limit | no byte lost, repeated, reordered or misdirected; arrays and kernel agree; interest fits the buffer; nothing closed before it is drained; nobody starved; no exit for want of descriptors |
| `epoll_server.c` | slot table, epoll's interest list | `epoll_wait()`, accept loop, one handler per event, `EPOLL_CTL_ADD/MOD/DEL` | a batch of events holds pointers to slots that earlier events of the batch may free or refill; `epoll_ctl` may fail half-way | as above; every waiting event is about the connection that raised it |
| `io_uring_server.c` | requests and connections on the heap, completion ring shared with the kernel | submit ACCEPT/RECV/SEND, handle a completion, publish the head | the kernel runs concurrently, completes in any order, writes into `conn->buffer`; the ring overflows and its indices wrap; `free()` against requests in flight; short SENDs; ACCEPT that fails and is submitted again | every completion is handled once; a connection has one request; no block or descriptor leaks |
| `threadpool_server.c` | linked list, mutex, condition variable; one connection per worker | `queue_push`, `queue_pop`, `worker_main`, accept loop | lost wake-ups, spurious wake-ups, a third thread taking the mutex between signal and wake-up, freed nodes, descriptor numbers used again by another thread | the list is a FIFO queue, no sleeper while work waits, a connection belongs to one thread |
| `load_client.c` | per-thread arguments, one shared latency array, `int` counters | parse, allocate, divide, create, join; per thread connect, `write_full`, `read_full`, store | a `long` cut to an `int` after its check, products of ints, division with a remainder, unlocked stores into one array, results read across threads, a closed loop over finite buffers, `die` in one thread ends all | no senseless count reaches a thread; every slot is stored once, totals exact, the percentile an element of the array and of the rank it is meant to have; an answer is not taken for another's; it ends when the payload fits |
| `common.c` | none | `write_full`, `read_full`, parsers, set-up of sockets | short and interrupted transfers; conversions between `long` and `int` | full transfer or an error; a parsed value is the one given |
| `partA/main.c` | `config_t`, reader's buffer with begin and end, totals, temporary files, the CSV file and its stream | `parse_args`, `my_fopen_fd`, `my_fread_bytes`, the seven benchmark loops | `--quick` before or after the values it must not override; boundaries between buffer, request and file; short reads and writes; an error or a kill with a temporary file on disk or rows in a buffer; writes of the CSV file that nobody looks at | the bytes delivered are the file's, in order; the planned rows with exact totals; an explicit value wins; no temporary file stays |
| `run_benchmarks.sh` | child processes, log and CSV files | `run_one`, `extract_metric`, `write_summary` | a server that starts late, cannot start or dies, a client that fails, an interrupt that leaves a server on its port or a half-written log, files of an earlier run | no server is left behind; a log is of the server it names; a summary is of its own run; every metric is in its column |
| `plot_results.py`, Makefiles, papers, recorded results | - | - | - | read as statements about the programs, not modelled |

How they interact: a server and its peers share TCP connections, that is the
state of `Sockets`: the backlog, the descriptor table, and per connection the
bytes that have arrived and the bytes written back. Server and peers step
independently. The thread pool's main thread and workers share the queue. The
load client's threads share one array and the process; `run_benchmarks.sh`
starts one server and one client after the other.

## 2. Modules

| module | models | extends / uses |
|---|---|---|
| `Sockets` | the kernel's sockets and the peers, as the four servers use them (external); also how they map to the echo service (`EchoesPrefix`), once for all servers | `EchoService` |
| `EchoService` | what an echo service promises: the bytes echoed are a prefix of those sent on that connection, and none after the close | - |
| `PollServer` | `poll_server.c` | `Sockets`, implements `EchoService` |
| `EpollServer` | `epoll_server.c` | `Sockets`, implements `EchoService` |
| `IoUringServer` | `io_uring_server.c` | `Sockets`, implements `EchoService` |
| `FdQueue` | what `queue_push`/`queue_pop` promise | - |
| `WorkQueue` | the queue itself: list, mutex, condition variable, heap blocks | implements `FdQueue` |
| `ThreadPoolServer` | main thread and workers over the abstract queue | `Sockets`, `FdQueue`, implements `EchoService` |
| `LoadClient` | `load_client.c` with its int arithmetic and blocking transfers | - |
| `Benchmark` | `partA/main.c` | - |
| `RunBenchmarks` | `run_benchmarks.sh` with the processes it starts | - |
| `SocketsProofs`, `PollServerProofs`, `EpollServerProofs`, `IoUringServerProofs`, `ThreadPoolProofs`, `WorkQueueProofs`, `BenchmarkProofs` | the theorems | the module they are about, `TLAPS` |
| `MeasureProofs` | the theorems about the two programs that measure | `LoadClient`, `RunBenchmarks`, `TLAPS` |
| `MC...` | instances for TLC | the module they instantiate |

### How state and actions correspond to the code

**Sockets.** A peer sends the bytes `<<c, 1>>, <<c, 2>>, ...`, so a byte
carries its owner and its place and every wrong echo is visible. `accept()`
takes the lowest free descriptor, therefore numbers are reused at once. `Room`
is what the kernel still takes before the peer reads, which makes short writes
and `EAGAIN`. A FIN or a reset is met only after the bytes that came before it.
`Reported` is level-triggered readiness and includes spurious reports of an
event that was asked for.

**PollServer.** One action is one system call with the code up to the next
one, so peers act between `poll()` and the scan. `pc` is the place in the loop.
`Poll` fills the `revents`; `AcceptAdd`, `AcceptReject` and `AcceptFails` are
the accept loop (slot found, no slot, `EAGAIN` or `EMFILE`); `HandleHup`,
`HandleEnd`, `HandleRead`, `HandleWrite` and `HandleNothing` are the outcomes of
one slot of the scan. `conns[i].used` is `Len(buf)`.

**EpollServer.** `epoll_wait` takes a batch; the order within it is the kernel's, so
the batch is a set. The field `src` of an event is history: which peer raised
it. `AcceptAddFails` is a failing `EPOLL_CTL_ADD` after the slot was taken.

**IoUringServer.** An iteration of the completion loop is one of
`HandleAccept`, `HandleAcceptError`, `HandleAcceptNoMemory`, `HandleRecv`,
`HandleSend`, with the submissions it makes. After a failed `calloc()` the code submits the next
ACCEPT and then closes the descriptor; `HandleAcceptNoMemory` does both at once.
`Publish` stores the local head in
the ring after the batch; `Enter` is `io_uring_enter()` flushing completions
the kernel kept back. `CompleteAccept/Recv/Send` are the kernel.

**WorkQueue.** One action per step between two points where another thread can
interfere: lock, test and wait, relock, take, unlock, free, serve; allocate,
lock, link, signal, unlock. Connections are numbered in the order of `accept()`.

**ThreadPoolServer.** One action per system call of a thread. `write_full()`'s
loop is `WorkerWrite` repeated. It uses `FdQueue`, which `WorkQueue` is shown to
implement, so the two runs compose.

**LoadClient.** The numbers of the command line are of any size; `Parse` tests
them as longs and cuts them to ints of `IntSize` values, as `parse_int()` does.
A number of requests that is no int leads to `mpc = "undefined"`, where nothing
more is claimed: the array would be smaller than what is stored into it. The
percentile's product is computed with the wrap-around the build has, and an index
that is none of the array's gives some number or ends the process (`AllJoined`). A
failing `calloc()`, a division by zero or a `die()` leads to `"dead"`.
Because every byte sent is an `'A'`, a connection is three byte counts: on the
way up, in the server, on the way down. A latency is how often its slot was
stored; the array is followed by as much memory that is not its own, so a store
beyond the end is seen. The iterations of `write_full()` and `read_full()` are
actions of their own.

**Benchmark.** `parse_args()` is an action per argument (`ArgSizes`, `ArgQuick`,
...) and `ArgsDone`, which applies `--quick`. A value is the sequence of its
numbers, 0 a text that `parse_size()` refuses. Then `Open`, the calls of the
current method and `Finish` (the CSV row) are repeated for each of `Phases` and
each size. Byte p of the file is the number p, so what a buffer holds says
where it was read; `Refill` and `Copy` are the two halves of `my_fread_bytes()`,
`Return` its end, and the `malloc()`ed buffer keeps what an earlier, longer read
left in it. `read()` and `write()` return anything from 1 to what was asked
for. Every call whose result the program looks at may fail (`CallFails`), with the
clean-up of its error path. The CSV file is a stdio stream: `write_result` puts a row
into its buffer or, when that is full, writes the buffer first, and so do `fclose()`
and `exit()` at the end; such a write may fail at any row, which loses the rest of
the buffer (`FlushFailed`) and which the program does not look at. The process may be
killed at any point and started again (`Kill`, `Rerun`); the temporary files stay,
the rows in the buffer do not.

**RunBenchmarks.** `server[name][run]` is the process that invocation `run`
started for `name`: it binds its port (`Bind`) at any time after its start, or
exits if the port is taken, and it may die at any time. `Client` talks to
whoever listens. A log is whose it is and which server's run answered. An
interrupt ends the script anywhere; its server stays, since the shell lets
background jobs ignore the signal, and a client cut off has emptied its log.
`Fields` is `awk`'s split of a line at `=`, so `extract_metric` finds what the
script finds. Its definitions are called `ScriptInit`, `ScriptNext`, `ScriptSpec`,
so that it can stand beside `LoadClient` in `MeasureProofs`.

## 3. Runs

| run | instance | shows |
|---|---|---|
| `poll` | 3 peers, 2 slots, 3 descriptors, buffer of 2, socket buffer of 1 | `StreamIntact`, `InterestMatchesBuffer`, `FdOwnership`, `CloseOnlyWhenDrained`, `Served`, and that the server implements `EchoService` (`EchoesPrefix`) |
| `epoll` | 3 peers, 2 slots, 3 descriptors | `InterestMatchesBuffer`, `BatchIsCurrent` (no stale pointer in a batch), closes only when the peer ends (`CloseOnlyOnPeerEnd`), `Served`, `EchoesPrefix` |
| `io_uring` | 3 peers, 2 descriptors, ring of 2 entries, indices modulo 4 | every completion handled once through overflow and wrap-around (`EachRequestOnce`), `OneRequestPerConnection`, `FdOwnership`, `CloseOnlyWhenDrained`, `Served`, `EchoesPrefix` |
| `work_queue` | 3 workers, 4 connections, 3 blocks | the list's shape, mutual exclusion, no lost wake-up, every connection handed over (`Handed`), and that it implements `FdQueue` (`IsFifo`) |
| `threadpool` | 2 workers, 3 peers, 3 descriptors | `FdOwnership`, `CloseOnlyWhenDrained`, `Served`, `EchoesPrefix` |
| `load_client` | 1 or 3 connections, 1 or 2 threads, 1 or 2 requests, payloads 1, 3, 4, 5 against 4 bytes of buffers, 100 and 101 requests; 15 more command lines at and beyond the ends of ints of 15 bits | `StartedSane`, `ResultComplete`, `PercentileRank`, `ClosedLoop`, which payloads can finish (`PayloadFits`), and that the others do (`Finishes`) |
| `benchmark` | files of 0 and 5 bytes, chunks 1 to 4, reader's buffers of 2 to 4, 14 command lines, 2 starts, 4 rows to a buffer of the CSV stream | `RowsAsPlanned`, `FreadInOrder`, `TempFilesDeleted`, `ExplicitWins`, `Finishes` |
| `run_benchmarks` | 4 servers, 3 invocations | `NoServerLeft`, `MeasuresItsServer`, `SummaryIsCurrent` |
| `poll_limit` | limit 6, 4 descriptors in use, 5 clients asked for | finding 1 below |
| `epoll_half_close` | the `epoll` instance | finding 2 |
| `io_uring_short_send` | the `io_uring` instance with 3 bytes and a buffer of 2 | finding 3 |
| `run_benchmarks_summary` | one invocation | finding 4 |

**Bounds, and why they are enough.** `Quota` is the number of bytes a peer
sends: two are enough for a read and a write to be cut in the middle
(`SndCap = 1`, `BufSize = 2`), and for a second read to follow a first. `Leavers`
names the peers that may finish or reset; the one that stays shows that nobody is
closed without reason and that a slot may be held for ever. Three peers on two
slots make rejection, slot reuse and reuse of a descriptor number happen. In
`io_uring` two ring entries and indices modulo 4 make overflow and wrap-around
happen with three outstanding requests. `MaxPush = 4` on three blocks makes the
heap reuse a node; three workers allow a thread to take the mutex between a
signal and the wake-up it was for. In `load_client`, three connections on two
threads leave a remainder, and one connection on two threads clamps their
number. With 32768 values an int is wide enough for `total_requests * 99` of the
ordinary instances, of 100 requests, where the percentile's index is one above the
nearest rank, and of 101, where it is the nearest rank; and it is narrow enough that
single options, `total_requests` and the percentile's product leave it. `MaxThreads` is the size of the thread
functions, and `MaxThreadsAssumption` says that no command line asks for more.
In `benchmark`, a file of five bytes is read with buffers and chunks that divide
it and that do not, in both orders of size; `CsvRows = 4` is less than the rows of a run, so that rows
are in the file, in the buffer and still to come at once, and a failing write cuts
the buffer anywhere; the real buffer of 4096 bytes holds some 50 rows whose lengths
differ by a few digits, and a row of which only the beginning is in the file
does not count as there; `MaxRuns = 2` is a killed run and
the one after it. In `run_benchmarks`, `MaxRuns = 3` lets two abandoned servers
compete for a port. The configurations use no symmetry, since liveness is
checked and the peers differ. The type invariants document the variables; they
are not run as properties of their own, the proofs use them as lemmas.

`CHECK_DEADLOCK FALSE` is set because the programs may really stop: all peers
done and the server blocked in its wait, the load client, the benchmark or the
script finished.

**Fairness.** The single-threaded servers get `WF_vars(ServerNext)`: the loop is
never left, a system call that can return does. A peer reads what it is sent
(weak fairness on `RecvByte`), or a server could not write for ever. The kernel
completes what it can complete (`IoUringServer`). In `WorkQueue` each thread is
scheduled; nothing is assumed of the fairness of the mutex or of spurious
wake-ups, and nothing is needed. `ThreadPoolServer` also assumes that a peer
ends its connection some day, as `load_client` does: a worker serves nobody else
before, and with as many silent peers as workers the others do wait for ever. No
peer is assumed to connect or to send. `LoadClient` schedules main and every
worker and lets the server echo what it has room for. `Benchmark` keeps running:
weak fairness on the steps of the program, none on failing calls, kills and new
starts; the file does not grow and `EINTR` is not returned for ever.
`RunBenchmarks` has safety properties only.

### Findings

1. `poll_limit`: the clamp `max_clients = rlim_cur - 2` forgets the standard
   streams and the listener. With that many connections `accept()` fails with
   `EMFILE`, which is not among the tolerated errors, and the server exits.
2. `epoll_half_close`: `EPOLLRDHUP` is acted on before `EPOLLIN`; a peer that
   sends and then shuts down its sending side gets no echo of what was not read.
   `poll_server` and `threadpool_server` echo it.
3. `io_uring_short_send`: a SEND that completes short is taken for complete; the
   rest of the buffer is never sent.
4. `run_benchmarks_summary`: `load_client` prints two `key=value` words per line;
   split at `=`, the second key shares a field with the first value, so the
   columns `requests_per_sec` and `p99_latency_ms` of `summary.csv` stay empty.

### Conditions the code does not ensure

Some properties hold under a condition that is in their statement, because the code
does nothing for the other case, which the model has as well:

* `PercentileRank`: 99 times the number of requests is an int. With 32 bits the
  product overflows from 21691755 requests on; the index wraps to a negative number,
  and what is printed as the 99th percentile is no latency, or the process crashes
  (line 159 of `load_client.c`).
* `RowsAsPlanned`: no write of the CSV file has failed. Neither `fprintf()` (line
  351 of `main.c`) nor `fclose()` (line 687) is checked. When a write fails, rows are
  missing from the file that the program names in its last message, and its exit
  status is 0.
* `NoServerLeft`, `MeasuresItsServer`: no invocation was interrupted. The server that
  an interrupted one has left keeps its port, the next invocation's server cannot
  bind, which the script does not notice, and its summary is of the old one. The
  properties say that nothing else leads there.

## 4. Proofs

All proofs are checked by TLAPS with SMT, Zenon and LS4. They assume only the
named assumptions on the constants: `SocketsAssumption`, `PollAssumption`, `EpollAssumption`,
`IoUringAssumption` (finitely many clients; index numbers that are a multiple of the ring's entries),
`ThreadPoolAssumption`, `WorkQueueAssumption`, `LoadClientAssumption`, `MaxThreadsAssumption`,
`BenchmarkAssumption` and `RunBenchmarksAssumption`.

* `PollServerProofs`: `TypeCorrect`, `OwnershipCorrect`, `InterestCorrect`.
  `TypeOK` is not inductive by itself: closing a slot adds a client to `closed`
  only if the slot's descriptor is open. So `IInv == TypeOK /\ FdOwnership` is
  the inductive invariant, one lemma per action; the interest follows from it,
  because a slot's `sent` is below `used` whenever it is written from.
* The same module on bytes: `StreamCorrect` (`Spec => []StreamIntact`). A new
  connection must start with nothing echoed and no two slots may serve one peer,
  which is `Placed` of `SocketsProofs`: a connection is at one position of the
  backlog or at one descriptor, and untouched until it is accepted.
  `StreamInv == IInv /\ Placed /\ StreamIntact` is inductive; `HandleRead` and
  `HandleWrite` are the lemmas on moving bytes (`MoveFront`,
  `ConcatAdjacentSubSeq`). `DrainCorrect` (`Spec => CloseOnlyWhenDrained`) adds
  `HupIsReset`: although revents may be out of date in the scan, a POLLHUP among
  them is never wrong, since a reset is for good. `ImplementsEcho`
  (`Spec => EchoesPrefix`) is the step simulation of `EchoService`: what each
  system call is to the service is said once in `SocketsProofs` (`Refines`), with
  `Unclosed`, that no connection in the backlog or the table has been closed;
  `HandleWriteAbstract` then shows that a `write()` from any offset of a slot's
  buffer extends the prefix, since `echoed`, the unsent part (`Unsent`) and the
  input queue make up the stream before and after it.
* `EpollServerProofs`: `TypeCorrect`, `InterestCorrect`, `BatchCorrect`,
  `CloseCorrect`, `ImplementsEcho`. What epoll watches and what waits in a batch
  depend on one another: an event's pointer is good because its slot has not been
  closed, and a slot is closed once only because its event was the only one of
  the batch (`OnePerSlot`). `IInv == TypeOK /\ InterestMatchesBuffer /\ BatchInv`
  is inductive; that two slots never share a descriptor follows from it, because
  epoll keeps one pointer for each (`Distinct`). `BatchShrinks` is the one
  argument for every handler: an event is served and gone, and the slots of the
  others are as they were. `GoneIsGone` says that an end of the peer seen in an
  event is never out of date, which with `Placed` gives `CloseOnlyOnPeerEnd`.
  The stream part repeats that of the poll server over epoll's variables.
* `IoUringServerProofs`: `TypeCorrect`, `RequestsOnce`
  (`Spec => []EachRequestOnce`), `OneRequest` and `DescriptorsOwned`, for rings of
  every size and indices that wrap at every multiple of it. The arithmetic comes
  first: how far two wrapped indices are apart (`SpanFacts`) and that entries less
  than a ring apart are in different slots (`SlotDistance`), which needs
  `IndexMod % CqEntries = 0` (`SlotWraps`): with another modulus the slots
  would jump when the index wraps. On it stands the view of ring and overflow list
  as one queue: a post appends (`PostRing`, `PostOverflow`), an iteration takes the
  head (`TakeRing`), `Enter` changes nothing in it (`RefillRing`). The inductive
  invariant `IInv` says that what is published, handled and pending shares the ring
  (`Window`), that every request is once with the kernel or in the queue (`Once`),
  which block a request belongs to and that there is one ACCEPT (`Roles`), what a
  result can be, given its request (`Results`: a completed RECV of n bytes has n
  bytes in the buffer), and who has which descriptor (`Owned`). None of the properties
  is inductive alone: that a completion is not overwritten needs `Window`, that a
  closed connection has no other request needs `Roles`, and that the descriptor
  closed is its own needs `Results`. The lemmas follow the code's calls
  (`PostInv`, `ResubmitInv`, `CloseInv`, `AcceptedInv`), from which one lemma per
  handler is put together.
* The same module on bytes: `DrainCorrect` and `ImplementsEcho`, both under
  `NeverShort`, a condition on the constants alone: a buffer of one byte, or a
  socket buffer for all that each peer sends. The `io_uring` run satisfies it; the
  code does not ensure it, and without it both can be violated (finding 3), so a theorem
  without it is not to be had. `StreamInv` adds to `IInv` and `Placed` what each
  request carries: nothing while a RECV is with the kernel, the front of its
  connection's buffer while a SEND is (`Flies`), and what a completion that waits
  has come to (`Came`): bytes received and not sent, a drained stream
  (`Drained`), bytes sent, or a reset. So what is echoed, carried and unread is
  the stream, at every moment between the kernel's step and the loop's. `SendWhole`
  is where the condition is needed, and `Apart` (two requests are for two peers)
  and `Undisturbed` say that a step for one request leaves the bytes of all others
  alone (`OneRequestStream`).
* `ThreadPoolProofs`: `TypeCorrect`, `OwnershipCorrect`, `DrainCorrect`,
  `ImplementsEcho`. `FdOwnership` compares numbers; what is inductive is `Own`,
  that no two places (positions of the queue, busy workers) hold one descriptor
  and that the places hold the open ones. `Counted` derives the numbers from it.
  `StreamInv` adds to `Placed` that a queued connection is still as it was
  accepted and that an idle worker has no unwritten byte, so that the bytes of
  the worker's last connection cannot reach its next one (`TakeStream`); a step
  of one worker then leaves the streams of all others alone (`OneStream`).
* `WorkQueueProofs`: `MutualExclusionCorrect`, from the types of the mutex and of
  the two program counters; `ListCorrect`, `NoLostWakeupCorrect` and
  `FifoCorrect` (`Spec => IsFifo`) from `ListInv`. The properties follow the
  links with a recursive function, which says nothing about one step; `ListInv`
  names the sequence of nodes that are linked (`Chain`), which a push extends at
  its end and a pop shortens at its head. `Held` says that these nodes are
  live and belong to nobody else, `Places` what each program counter implies,
  `Woken` that the threads awake are enough for that many nodes. What the
  recursive function visits is then that sequence (`HopsFacts`); the induction
  along the links is `Induct`, which rests on a finite set having no injection
  into itself that misses an element. The refinement maps the linking of a node to
  `Push`, the taking of the head to `Pop`, the end of a connection to `Done`, and
  all else, allocating and freeing included, to a stutter.
* `SocketsProofs`: what each system call does to types, descriptor table and
  placement; written once for all servers.
* `MeasureProofs`: `StartedSaneCorrect` for every width of an int and every
  command line. `SaneInv` follows the numbers from `Parse` through `Alloc`: what
  survives a negative allocation and the division is positive, because a product
  of a positive and a negative number is negative (`ProductSign`).
  `PercentileCorrect` is the arithmetic of the rank (`RankBounds`) and `RankInv`: the
  index is the first that more than 99 of 100 requests do not exceed, if 99 times
  their number is an int. That is the nearest rank except where 100 divides the number,
  as it does for the default counts: there it is one further up.
* The same module on the latency array: `ResultCompleteCorrect`
  (`Spec => []ResultComplete`). `Off(t)` is the closed form of main's running
  sum, `Pos(t)` where t's slots begin;
  `OffFacts` and `PosFacts` show that the ranges follow one another and end with
  the array, for every quotient and remainder. `LatInv` says what each thread was
  given and how far it is (`Thread`), that the slots stored are exactly the first
  `Done(t)` of each range (`SlotsInv`), that every slot below the next range has
  an owner (`Covered`, which grows with each thread created and saves an
  induction over threads), and that `total` is the sum over the threads joined
  (`MainInv`). `Complete` then stores into a slot nobody has stored (`Disjoint`).
* The same module on the bytes of a request: `ClosedLoopCorrect` and
  `PayloadFitsCorrect` from `FlowInv`. What a worker has written is on its way
  while it writes, and all of the payload is when it turns to reading; so the
  payload fits into the buffers (`Fits`), and a slot that has been stored says
  that this happened (`StoredFits`), which is what is left to know at the end.
* `BenchmarkProofs`: `TempFilesCorrect` from `TempInv`: a temporary file that
  exists, left by whatever run, is one this run is still to write and unlink
  (`Ahead`), because every run of a command line uses the same names.
  `FreadCorrect` from `FreadInv`, which adds to `FreadInOrder` where the unread
  part of the buffer comes from (`Enclosed`).
  `ExplicitWinsCorrect` follows a command line of any length: `ParseInv` says that
  `config` is what the arguments read so far say (`Heard`), an overridden setting
  being the value of its last occurrence (`Latest`), so that at the end the choice
  in `Value` has one candidate. `RowsAsPlannedCorrect` follows the CSV file through
  every failure, kill and restart, as long as no write of the file itself has failed:
  the rows in the file and behind them those in the buffer (`Rows`) are what
  precedes the current phase in the plan, and then the rows of its first `k - 1`
  sizes (`Reached`, `RowsInv`); a flush moves the border between the two
  (`RowsWrite`, `RowsFlush`), a kill drops what is behind it (`FilePrefix`), and a
  failed write is not forgotten before the next start (`FailedStays`). A total is
  exact when its row is written because it is the file offset, or never exceeds
  the workload (`TotalInv`). The plan is a recursive function over the sizes and a
  fold over the phases; the lemmas before the theorem derive that both exist, what
  type they have and that they grow by appending.
* `MeasureProofs` on the script: `NoServerLeftCorrect` and `MeasuresItsServerCorrect`
  from `ProcInv`, and `SummaryIsCurrentCorrect` from `Measured` (the servers
  before the current one have a log of this invocation) and `Written` (the rows
  so far are made from these logs).

Only model-checked: every liveness property (`Served`, `Handed`, `Finishes`),
since fairness and ENABLED are beyond the prover. Of io_uring, that the run's
`CloseOnlyWhenDrained` and `EchoesPrefix` hold is proved for the constants that
satisfy `NeverShort`; for the others run `io_uring_short_send` shows the violation.

The proofs about the thread pool take `FdQueue` for its queue, and
`FifoCorrect` proves that the linked list implements it. That the server over the
list is the server over the queue is the usual argument on compositions and is
not itself a theorem here: the two modules have no state in common but the
queue and what each worker holds.

## 5. Not modelled

* Failures of system calls that only print and exit (`die_errno` for `poll`,
  `epoll_wait`, `io_uring_enter`, `socket`, `bind`), and argument errors of the
  servers.
* What happens after the number of requests of `load_client` has overflowed (line
  113): a heap overrun when the wrapped product is positive.
* Lines of the CSV file that are cut in the middle by a failed write or a kill, and
  failing writes of the script's logs and of its summary.
* The order in which `io_uring_server` submits the next ACCEPT and closes a
  descriptor it has no memory for; `HandleAcceptNoMemory` does both in one step, so
  that ACCEPT never fails for want of the descriptor about to be closed.
* `EINTR`: a retry is a stuttering step; no server installs a handler.
* The memory order of the ring indices shared with the kernel, and the
  submission ring, which is filled and emptied within one call.
* `parse_port()` and `parse_size()` of `common.c`, which return the number read,
  and `strtoull()` beyond the range of `size_t`.
* Two benchmarks of part A at once in one directory, which would share the names
  of their temporary files.
* The settings `run_benchmarks.sh` takes from the environment.
* Timing: latencies, throughput and what the script reports of them.
* `plot_results.py` (formatting of a CSV file), build files, papers and recorded
  results.

## 6. Plan

Done: the modules of section 2, the runs of section 3, the proofs of section 4.
What would add most next:

1. `IoUringServer`: the submission ring's indices and the fatal errors.
