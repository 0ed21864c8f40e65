----------------------------- MODULE Benchmark -----------------------------
(***************************************************************************)
(* partA/main.c: parse_args(), then seven kinds of benchmark one after the *)
(* other, each over all buffer sizes, and one CSV row for each of them.    *)
(*                                                                         *)
(* A value on the command line is the sequence of the numbers in it; 0     *)
(* stands for a text parse_size() refuses, the empty sequence for a value  *)
(* that is missing.  Byte p of the input file is the number p, so what a   *)
(* buffer holds says where it was read.  read() and write() may be short.  *)
(* EINTR makes their callers repeat the call: a step that changes nothing. *)
(* Times are left out.  The CSV file is a stdio stream: a row is in the    *)
(* file when its last byte is, before that in the stream's buffer or lost. *)
(* The process may be killed and started again with the same command line; *)
(* what is in --write-dir stays.                                           *)
(***************************************************************************)
EXTENDS Integers, Sequences, SequencesExt

CONSTANTS
    Argvs,                          \* the command lines
    FileSizes,                      \* st_size of the input file
    DefaultSizes, QuickSizes,       \* k_default_sizes, k_quick_sizes
    DefaultBuffer, QuickBuffer,     \* 8192 and 4096
    DefaultTotal, QuickTotal,       \* k_default_, k_quick_write_total_bytes
    MinWriteChunk,                  \* 32: smaller chunks are not written
    CsvRows,                        \* rows the buffer of the CSV stream holds
    MaxRuns                         \* bound: times the program is started

Options == {"--input", "--output", "--write-dir", "--sizes", "--myfread-buffer",
            "--write-total-bytes", "--quick", "--help", "unknown"}
Valueless == {"--quick", "--help", "unknown"}

ASSUME BenchmarkAssumption ==
    /\ Argvs \subseteq Seq([opt : Options, val : Seq(Nat)])
    /\ FileSizes \subseteq Nat
    /\ {DefaultSizes, QuickSizes} \subseteq Seq(Nat \ {0}) \ {<< >>}
    /\ {DefaultBuffer, QuickBuffer, DefaultTotal, QuickTotal} \subseteq Nat \ {0}
    /\ {MinWriteChunk, CsvRows, MaxRuns} \subseteq Nat

VARIABLES
    argv, i,    \* the command line; where parse_args() is
    config,     \* config_t
    size,       \* the size of the input file
    pc,         \* parse, open, run, unlink; exit, help, failed, killed
    phase, k,   \* the benchmark: which of Phases, which of its sizes
    total,      \* its total, or written_total
    pos,        \* the file offset of its descriptor
    myf, dest,  \* my_file_t; what my_fread_bytes() has copied out so far
    temp,       \* the temporary files that exist, by name
    csv,        \* the CSV file and its stream
    runs        \* how often the program was started

parseVars == <<argv, i, config, size>>
loopVars  == <<phase, k, csv, runs>>
readVars  == <<pos, myf, dest>>
vars      == <<parseVars, loopVars, readVars, pc, total, temp>>

Least(a, b) == IF a <= b THEN a ELSE b

Phases == <<"read", "getc", "fgetc", "fread", "my_fread", "nosync", "osync">>

Config ==
    [sizes : Seq(Nat), sizes_overridden : BOOLEAN,
     myfread_buffer_size : Nat, myfread_buffer_overridden : BOOLEAN,
     write_total_bytes : Nat, write_total_overridden : BOOLEAN,
     quick_mode : BOOLEAN, input : BOOLEAN]

\* myfread_buffer_size and write_total_bytes in main: 0 means not given.
Capacity   == IF config.myfread_buffer_size = 0 THEN DefaultBuffer
                                                ELSE config.myfread_buffer_size
WriteTotal == IF config.write_total_bytes = 0 THEN DefaultTotal
                                              ELSE config.write_total_bytes

NoFile == [buffer |-> << >>, begin |-> 0, end |-> 0]

\* The rows in the file, those in the buffer, and whether a write() of them has
\* failed: ferror(csv), which no line of the program looks at.
Csv(file, buffer, failed) == [file |-> file, buffer |-> buffer, failed |-> failed]
NewCsv == Csv(<< >>, << >>, FALSE)

Init ==
    /\ argv \in Argvs /\ i = 1
    /\ config = [sizes |-> DefaultSizes, sizes_overridden |-> FALSE,
                 myfread_buffer_size |-> 0, myfread_buffer_overridden |-> FALSE,
                 write_total_bytes |-> 0, write_total_overridden |-> FALSE,
                 quick_mode |-> FALSE, input |-> FALSE]
    /\ size \in FileSizes
    /\ pc = "parse" /\ phase = 1 /\ k = 1 /\ total = 0
    /\ pos = 0 /\ myf = NoFile /\ dest = << >>
    /\ temp = {}
    /\ csv = NewCsv /\ runs = 1

----------------------------------------------------------------------------
(* parse_args(). *)

Has(opt) == pc = "parse" /\ i <= Len(argv) /\ argv[i].opt = opt

\* A value is there, and parse_size() takes every number in it.
GoodValue == argv[i].val # << >> /\ \A n \in DOMAIN argv[i].val : argv[i].val[n] > 0

Accept(c) ==
    /\ config' = c /\ i' = i + 1
    /\ UNCHANGED <<argv, size, pc, total, loopVars, readVars, temp>>

Die == /\ pc' = "failed"
       /\ UNCHANGED <<parseVars, loopVars, readVars, total, temp>>

ArgSizes ==
    /\ Has("--sizes") /\ GoodValue
    /\ Accept([config EXCEPT !.sizes = argv[i].val, !.sizes_overridden = TRUE])

ArgBuffer ==
    /\ Has("--myfread-buffer") /\ GoodValue
    /\ Accept([config EXCEPT !.myfread_buffer_size = argv[i].val[1],
                             !.myfread_buffer_overridden = TRUE])

ArgTotal ==
    /\ Has("--write-total-bytes") /\ GoodValue
    /\ Accept([config EXCEPT !.write_total_bytes = argv[i].val[1],
                             !.write_total_overridden = TRUE])

\* Mutant: --quick takes effect where it stands on the command line.
ArgQuick_now ==
    /\ Has("--quick")
    /\ Accept([config EXCEPT !.quick_mode = TRUE, !.sizes = QuickSizes])

ArgQuick == Has("--quick") /\ Accept([config EXCEPT !.quick_mode = TRUE])

\* --input, --output and --write-dir take any text; only the first is required.
ArgPath ==
    \/ Has("--input") /\ argv[i].val # << >> /\ Accept([config EXCEPT !.input = TRUE])
    \/ \E opt \in {"--output", "--write-dir"} :
          Has(opt) /\ argv[i].val # << >> /\ Accept(config)

ArgHelp == /\ Has("--help")
           /\ pc' = "help"
           /\ UNCHANGED <<parseVars, loopVars, readVars, total, temp>>

\* An unknown argument, a missing value, or one that parse_size() refuses.
ArgBad ==
    /\ \/ Has("unknown")
       \/ \E opt \in Options \ Valueless : Has(opt) /\ argv[i].val = << >>
       \/ \E opt \in {"--sizes", "--myfread-buffer", "--write-total-bytes"} :
             Has(opt) /\ ~GoodValue
    /\ Die

\* The defaults of --quick, where nothing was given; argv is not read again.
ArgsDone ==
    /\ pc = "parse" /\ i > Len(argv) /\ config.input
    /\ config' = IF config.quick_mode
                 THEN [config EXCEPT
                         !.sizes = IF config.sizes_overridden THEN @ ELSE QuickSizes,
                         !.myfread_buffer_size =
                             IF config.myfread_buffer_overridden THEN @ ELSE QuickBuffer,
                         !.write_total_bytes =
                             IF config.write_total_overridden THEN @ ELSE QuickTotal]
                 ELSE config
    /\ pc' = "open" /\ argv' = << >> /\ i' = 1
    /\ UNCHANGED <<size, total, loopVars, readVars, temp>>

ArgsNoInput == pc = "parse" /\ i > Len(argv) /\ ~config.input /\ Die

Parse == \/ ArgSizes \/ ArgBuffer \/ ArgTotal \/ ArgQuick \/ ArgPath
         \/ ArgHelp \/ ArgBad \/ ArgsDone \/ ArgsNoInput

----------------------------------------------------------------------------
(* main(): the loops over the sizes, one benchmark function per method.    *)

Method  == Phases[phase]
Reads   == Method \in {"read", "getc", "fgetc", "fread", "my_fread"}
Sizes   == IF Method \in {"getc", "fgetc"} THEN <<1>> ELSE config.sizes
chunk   == Sizes[k]
Skipped == ~Reads /\ chunk < MinWriteChunk
path    == <<Method, chunk>>        \* template_path

Row(n) == [method |-> Method, chunk |-> chunk, total |-> n]

\* stdio writes the buffer to the file; when write() fails on the way, it drops
\* what is left of it.
Flushed     == Csv(csv.file \o csv.buffer, << >>, csv.failed)
FlushFailed == {Csv(csv.file \o SubSeq(csv.buffer, 1, n), << >>, TRUE) :
                    n \in 0 .. Len(csv.buffer)}

\* fprintf() of a row, whose outcome write_result() does not look at.  It meets a
\* full buffer in the middle of the row: the rest of it is buffered, or lost too.
write_result(row) ==
    \/ /\ Len(csv.buffer) < CsvRows
       /\ csv' = Csv(csv.file, Append(csv.buffer, row), csv.failed)
    \/ /\ Len(csv.buffer) >= CsvRows
       /\ csv' \in {Csv(csv.file \o csv.buffer, <<row>>, csv.failed)} \cup FlushFailed

\* A benchmark has returned its total: its row, and on to the next size.
Finish(n) ==
    /\ write_result(Row(n))
    /\ pc' = "open" /\ k' = k + 1
    /\ UNCHANGED <<phase, runs>>

\* die_perror() and die_usage() call exit(), which flushes the stream.
Fail ==
    /\ pc' = "failed"
    /\ csv' \in {Flushed} \cup FlushFailed
    /\ UNCHANGED <<parseVars, phase, k, runs, readVars, total>>

\* After the last benchmark main() ends with fclose(csv) and 0, whatever that returned.
NextPhase ==
    /\ pc = "open" /\ k > Len(Sizes)
    /\ \/ /\ phase < Len(Phases)
          /\ phase' = phase + 1 /\ k' = 1
          /\ UNCHANGED <<pc, csv>>
       \/ /\ phase = Len(Phases)
          /\ pc' = "exit" /\ csv' \in {Flushed} \cup FlushFailed
          /\ UNCHANGED <<phase, k>>
    /\ UNCHANGED <<parseVars, runs, readVars, total, temp>>

Skip ==
    /\ pc = "open" /\ k <= Len(Sizes) /\ Skipped
    /\ k' = k + 1
    /\ UNCHANGED <<parseVars, pc, phase, csv, runs, readVars, total, temp>>

\* open() or fopen(), my_fopen_fd(); a malloc()ed buffer holds anything, here 0.
Open ==
    /\ pc = "open" /\ k <= Len(Sizes) /\ ~Skipped
    /\ pc' = "run" /\ total' = 0 /\ pos' = 0 /\ dest' = << >>
    /\ myf' = IF Method = "my_fread"
              THEN [NoFile EXCEPT !.buffer = [b \in 1 .. Capacity |-> 0]]
              ELSE NoFile
    /\ temp' = IF Reads THEN temp ELSE temp \cup {path}
    /\ UNCHANGED <<parseVars, loopVars>>

\* open(), fopen() or malloc() fails.
OpenFails ==
    /\ pc = "open" /\ k <= Len(Sizes) /\ ~Skipped
    /\ Fail /\ UNCHANGED temp

Running(methods) == pc = "run" /\ Method \in methods

available == myf.end - myf.begin

\* read() or a stdio call reports an error; my_fread_bytes() calls read() only
\* when its buffer is empty.
ReadFails ==
    /\ pc = "run" /\ Reads
    /\ Method = "my_fread" => available = 0 /\ Len(dest) < chunk
    /\ Fail /\ UNCHANGED temp

\* benchmark_read_syscall()
Read ==
    /\ Running({"read"}) /\ pos < size
    /\ \E n \in 1 .. Least(chunk, size - pos) : total' = total + n /\ pos' = pos + n
    /\ UNCHANGED <<parseVars, loopVars, pc, myf, dest, temp>>

ReadEnd ==
    /\ Running({"read"}) /\ pos = size
    /\ Finish(total)
    /\ UNCHANGED <<parseVars, readVars, total, temp>>

\* benchmark_getc_like(): one character at a time, until EOF.
Getc ==
    /\ Running({"getc", "fgetc"}) /\ pos < size
    /\ total' = total + 1 /\ pos' = pos + 1
    /\ UNCHANGED <<parseVars, loopVars, pc, myf, dest, temp>>

GetcEnd ==
    /\ Running({"getc", "fgetc"}) /\ pos = size
    /\ Finish(total)
    /\ UNCHANGED <<parseVars, readVars, total, temp>>

\* Mutant: the test for an error that read() has, on fread()'s unsigned count.
Short_never(n) == n < 0
\* A count below the one asked for ends the loop.
Short(n) == n < chunk

\* benchmark_fread_stdio(): fread() is short only at the end (or with an error).
Fread ==
    /\ Running({"fread"})
    /\ LET n == Least(chunk, size - pos)
       IN  /\ total' = total + n /\ pos' = pos + n
           /\ IF Short(n) THEN Finish(total + n) ELSE UNCHANGED <<pc, loopVars>>
    /\ UNCHANGED <<parseVars, myf, dest, temp>>

----------------------------------------------------------------------------
(* benchmark_my_fread() and my_fread_bytes().                              *)

ToCopy    == Least(chunk - Len(dest), available)

\* read() into the empty buffer, as much as it likes to return.  What the
\* buffer held beyond that stays in it.
Refill ==
    /\ Running({"my_fread"}) /\ Len(dest) < chunk
    /\ available = 0 /\ pos < size
    /\ \E n \in 1 .. Least(Capacity, size - pos) :
          /\ myf' = [buffer |-> [b \in 1 .. Capacity |->
                                    IF b <= n THEN pos + b ELSE myf.buffer[b]],
                     begin |-> 0, end |-> n]
          /\ pos' = pos + n
    /\ UNCHANGED <<parseVars, loopVars, pc, total, dest, temp>>

\* Mutant: begin is set, not advanced.
Advance_set(n) == n
Advance(n) == myf.begin + n

\* memcpy() of what is there, at most what is still wanted.
Copy ==
    /\ Running({"my_fread"}) /\ Len(dest) < chunk
    /\ available > 0
    /\ dest' = dest \o SubSeq(myf.buffer, myf.begin + 1, myf.begin + ToCopy)
    /\ myf' = [myf EXCEPT !.begin = Advance(ToCopy)]
    /\ UNCHANGED <<parseVars, loopVars, pc, total, pos, temp>>

\* my_fread_bytes() returns: dest is full, or the file is at its end.
Return ==
    /\ Running({"my_fread"})
    /\ Len(dest) = chunk \/ (available = 0 /\ pos = size)
    /\ total' = total + Len(dest) /\ dest' = << >>
    /\ IF Short(Len(dest)) THEN Finish(total + Len(dest)) ELSE UNCHANGED <<pc, loopVars>>
    /\ UNCHANGED <<parseVars, pos, myf, temp>>

----------------------------------------------------------------------------
(* benchmark_write_syscall().                                              *)

\* Mutant: the last chunk is written whole.
this_chunk_full == chunk
this_chunk == Least(WriteTotal - total, chunk)

Write ==
    /\ Running({"nosync", "osync"}) /\ total < WriteTotal
    /\ \E n \in 1 .. this_chunk : total' = total + n
    /\ UNCHANGED <<parseVars, loopVars, readVars, pc, temp>>

\* The error paths unlink the file, and do not look whether that worked.
Unlinked == temp' \in {temp \ {path}, temp}

\* write() returns an error, or 0.
WriteFails ==
    /\ Running({"nosync", "osync"}) /\ total < WriteTotal
    /\ Fail /\ Unlinked

Close ==
    /\ Running({"nosync", "osync"}) /\ total >= WriteTotal
    /\ pc' = "unlink"
    /\ UNCHANGED <<parseVars, loopVars, readVars, total, temp>>

CloseFails ==
    /\ Running({"nosync", "osync"}) /\ total >= WriteTotal
    /\ Fail /\ Unlinked

\* Mutant: unlink() was forgotten.
AfterUnlink_not(p) == temp
AfterUnlink(p) == temp \ {p}

Unlink ==
    /\ pc = "unlink"
    /\ temp' = AfterUnlink(path)
    /\ Finish(total)
    /\ UNCHANGED <<parseVars, readVars, total>>

\* timer_end() or unlink() fails.
UnlinkFails == pc = "unlink" /\ Fail /\ UNCHANGED temp

Run == \/ NextPhase \/ Skip \/ Open \/ Read \/ ReadEnd \/ Getc \/ GetcEnd
       \/ Fread \/ Refill \/ Copy \/ Return \/ Write \/ Close \/ Unlink

CallFails == OpenFails \/ ReadFails \/ WriteFails \/ CloseFails \/ UnlinkFails

----------------------------------------------------------------------------
(* The user: the process is interrupted, and started again as before.      *)

\* What is in the stream's buffer is gone with the process.
Kill ==
    /\ pc \in {"open", "run", "unlink"}
    /\ pc' = "killed"
    /\ csv' = Csv(csv.file, << >>, csv.failed)
    /\ UNCHANGED <<parseVars, phase, k, runs, readVars, total, temp>>

\* parse_args() comes to the same config; fopen("w") empties the CSV file.
Rerun ==
    /\ pc \in {"killed", "failed"} /\ argv = << >> /\ config.input /\ runs < MaxRuns
    /\ runs' = runs + 1 /\ pc' = "open" /\ phase' = 1 /\ k' = 1 /\ csv' = NewCsv
    /\ UNCHANGED <<parseVars, readVars, total, temp>>

Next == Parse \/ Run \/ CallFails \/ Kill \/ Rerun

Spec == Init /\ [][Next]_vars

\* The program runs on; EINTR does not come back for ever, and no file grows.
\* No call needs to fail for that.
FairSpec == Spec /\ WF_vars(Parse \/ Run)

----------------------------------------------------------------------------
(* Properties. *)

TypeOK ==
    /\ argv \in Argvs \cup {<< >>} /\ i \in 1 .. Len(argv) + 1
    /\ config \in Config
    /\ size \in FileSizes
    /\ pc \in {"parse", "open", "run", "unlink", "exit", "help", "failed", "killed"}
    /\ phase \in DOMAIN Phases /\ k \in Nat \ {0}
    /\ total \in Nat /\ pos \in 0 .. size
    /\ myf \in [buffer : Seq(Nat), begin : Nat, end : Nat]
    /\ dest \in Seq(Nat)
    /\ LET RowSet == [method : {Phases[p] : p \in DOMAIN Phases}, chunk : Nat, total : Nat]
       IN  csv \in [file : Seq(RowSet), buffer : Seq(RowSet), failed : BOOLEAN]
    /\ runs \in Nat

\* What was given on the command line, the last time if several times.
Given(opt) == {n \in DOMAIN argv : argv[n].opt = opt}
Value(opt, default) ==
    IF Given(opt) = {} THEN default
    ELSE argv[CHOOSE n \in Given(opt) : \A m \in Given(opt) : m <= n].val

Default(quick, normal) == IF Given("--quick") # {} THEN quick ELSE normal

\* An explicit value wins over --quick, --quick over the ordinary default, and it
\* makes no difference where on the command line --quick stands.
ExplicitWins ==
    [][pc = "parse" /\ pc' = "open" =>
          /\ config'.sizes = Value("--sizes", Default(QuickSizes, DefaultSizes))
          /\ Capacity' = Value("--myfread-buffer",
                               <<Default(QuickBuffer, DefaultBuffer)>>)[1]
          /\ WriteTotal' = Value("--write-total-bytes",
                                 <<Default(QuickTotal, DefaultTotal)>>)[1]]_vars

\* The rows of a method for the first n of some sizes, without the chunks too small
\* to write.
Writes(m) == m \in {"nosync", "osync"}
RowsOf(m, sizes, amount) ==
    LET upTo[n \in 0 .. Len(sizes)] ==
            IF n = 0 THEN << >>
            ELSE IF Writes(m) /\ sizes[n] < MinWriteChunk THEN upTo[n - 1]
            ELSE Append(upTo[n - 1], [method |-> m, chunk |-> sizes[n], total |-> amount])
    IN  upTo

\* Every size once, with the whole file read or the whole workload written.
SizesOf(m) == IF m \in {"getc", "fgetc"} THEN <<1>> ELSE config.sizes
Amount(m)  == IF Writes(m) THEN WriteTotal ELSE size
PlanOf(m)  == RowsOf(m, SizesOf(m), Amount(m))[Len(SizesOf(m))]
Plan       == FlattenSeq([p \in DOMAIN Phases |-> PlanOf(Phases[p])])

\* Unless a write of the CSV file itself has failed, it holds the planned rows in
\* their order, each with the exact total, whatever other calls fail or return short
\* and whenever the program is killed; and all of them when the program ends well.
\* (A failing write, of a full disk for one, goes unnoticed by the program.)
RowsAsPlanned ==
    pc \notin {"parse", "help"} /\ argv = << >> /\ ~csv.failed =>
        IsPrefix(csv.file, Plan) /\ (pc = "exit" => csv.file = Plan)

\* my_fread_bytes() hands out the file in order and without a gap: dest holds the
\* bytes after the ones of the earlier calls, and what it has not copied yet lies
\* between begin and end.
FreadInOrder ==
    pc = "run" /\ Method = "my_fread" =>
        /\ \A n \in DOMAIN dest : dest[n] = total + n
        /\ 0 <= available /\ myf.end <= Capacity
        /\ pos = total + Len(dest) + available

\* A program that ends well has deleted the temporary files of all its write
\* benchmarks, those an interrupted run before it had left included.
TempFilesDeleted == pc = "exit" => temp = {}

\* Every run comes to its end.
Finishes == <>[](pc \in {"exit", "help", "failed", "killed"})
============================================================================
