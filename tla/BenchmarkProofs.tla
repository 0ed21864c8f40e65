-------------------------- MODULE BenchmarkProofs --------------------------
(***************************************************************************)
(* The temporary files, the buffered reader, the options and the rows of   *)
(* partA's benchmark, for every command line, every size of file, chunk    *)
(* and buffer, every short read or write, and every call that fails.       *)
(***************************************************************************)
EXTENDS Benchmark, FiniteSetTheorems, SequenceTheorems, TLAPS

Active == {"open", "run", "unlink"}
Ended  == {"exit", "help", "failed", "killed"}

\* Types, and that a benchmark that runs is one of its loop.
Base ==
    /\ argv \in Seq([opt : Options, val : Seq(Nat)]) /\ i \in Nat \ {0}
    /\ config \in Config /\ size \in Nat
    /\ pc \in {"parse"} \cup Active \cup Ended
    /\ phase \in 1 .. 7 /\ k \in Nat \ {0}
    /\ pc \in {"run", "unlink"} => k <= Len(Sizes) /\ ~Skipped
    /\ pc = "unlink" => ~Reads

LEMMA PhasesFacts ==
    /\ Len(Phases) = 7 /\ DOMAIN Phases = 1 .. 7
    /\ \A n \in 1 .. 7 :
          (Phases[n] \in {"read", "getc", "fgetc", "fread", "my_fread"}) <=> n <= 5
    /\ \A n \in 1 .. 7 : Phases[n] \in {"getc", "fgetc"} => n <= 5
    /\ \A n \in 1 .. 7 : Phases[n] \in {"nosync", "osync"} => n > 5
BY DEF Phases

LEMMA SizesType ==
    ASSUME Base
    PROVE  Sizes \in Seq(Nat) /\ (phase > 5 => Sizes = config.sizes)
<1>1. config.sizes \in Seq(Nat) BY DEF Base, Config
<1>2. <<1>> \in Seq(Nat) OBVIOUS
<1>3. phase > 5 => Phases[phase] \notin {"getc", "fgetc"} BY PhasesFacts DEF Base
<1> QED BY <1>1, <1>2, <1>3 DEF Sizes, Method

\* The chunk of a benchmark is one of its sizes.
LEMMA ChunkType ==
    ASSUME Base, k <= Len(Sizes)
    PROVE  k \in 1 .. Len(Sizes) /\ chunk \in Nat /\ MinWriteChunk \in Nat
<1>1. Sizes \in Seq(Nat) BY SizesType
<1>2. k \in Nat \ {0} BY DEF Base
<1>3. k \in 1 .. Len(Sizes) BY <1>1, <1>2
<1> HIDE DEF Sizes
<1>4. Sizes[k] \in Nat BY <1>1, <1>3
<1>5. MinWriteChunk \in Nat BY BenchmarkAssumption DEF BenchmarkAssumption
<1> QED BY <1>3, <1>4, <1>5 DEF chunk

LEMMA BaseInit == Init => Base
<1> SUFFICES ASSUME Init PROVE Base
  OBVIOUS
<1>1. DefaultSizes \in Seq(Nat) BY BenchmarkAssumption DEF BenchmarkAssumption
<1>2. config \in Config BY <1>1 DEF Init, Config
<1>3. argv \in Seq([opt : Options, val : Seq(Nat)]) /\ size \in Nat
  BY BenchmarkAssumption DEF BenchmarkAssumption, Init
<1> QED BY <1>2, <1>3 DEF Init, Base

\* parse_args() takes only positive numbers into the configuration.
LEMMA BaseParse == Base /\ Parse => Base'
<1> SUFFICES ASSUME Base, Parse PROVE Base'
  OBVIOUS
<1>1. ASSUME NEW c \in Config, Accept(c), pc = "parse" PROVE Base'
  BY <1>1 DEF Accept, Base, loopVars, Active, Ended
<1>2. ASSUME pc' \in {"failed", "help"}, UNCHANGED <<parseVars, loopVars>> PROVE Base'
  BY <1>2 DEF Base, parseVars, loopVars, Active, Ended
<1>3. ASSUME pc = "parse", i <= Len(argv)
      PROVE  argv[i].val \in Seq(Nat) /\ (argv[i].val # << >> => argv[i].val[1] \in Nat)
  <2>1. argv \in Seq([opt : Options, val : Seq(Nat)]) /\ i \in 1 .. Len(argv)
    BY <1>3 DEF Base
  <2>2. argv[i] \in [opt : Options, val : Seq(Nat)]
    <3> DEFINE Arg == [opt : Options, val : Seq(Nat)]
    <3> argv \in Seq(Arg) BY <2>1
    <3> HIDE DEF Arg
    <3>1. argv[i] \in Arg BY <2>1
    <3> QED BY <3>1 DEF Arg
  <2> QED BY <2>2
<1>4. CASE ArgSizes
  <2>1. [config EXCEPT !.sizes = argv[i].val, !.sizes_overridden = TRUE] \in Config
    BY <1>3, <1>4 DEF ArgSizes, Has, Base, Config
  <2> QED BY <1>1, <1>4, <2>1 DEF ArgSizes, Has
<1>5. CASE ArgBuffer
  <2>1. [config EXCEPT !.myfread_buffer_size = argv[i].val[1],
                       !.myfread_buffer_overridden = TRUE] \in Config
    BY <1>3, <1>5 DEF ArgBuffer, Has, GoodValue, Base, Config
  <2> QED BY <1>1, <1>5, <2>1 DEF ArgBuffer, Has
<1>6. CASE ArgTotal
  <2>1. [config EXCEPT !.write_total_bytes = argv[i].val[1],
                       !.write_total_overridden = TRUE] \in Config
    BY <1>3, <1>6 DEF ArgTotal, Has, GoodValue, Base, Config
  <2> QED BY <1>1, <1>6, <2>1 DEF ArgTotal, Has
<1>7. CASE ArgQuick
  <2>1. [config EXCEPT !.quick_mode = TRUE] \in Config BY DEF Base, Config
  <2> QED BY <1>1, <1>7, <2>1 DEF ArgQuick, Has
<1>8. CASE ArgPath
  <2>1. config \in Config /\ [config EXCEPT !.input = TRUE] \in Config
    BY DEF Base, Config
  <2> QED BY <1>1, <1>8, <2>1 DEF ArgPath, Has
<1>9. CASE ArgHelp \/ ArgBad \/ ArgsNoInput
  BY <1>2, <1>9 DEF ArgHelp, ArgBad, ArgsNoInput, Die
<1>10. CASE ArgsDone
  <2>1. config' \in Config
    <3>1. /\ QuickSizes \in Seq(Nat) /\ QuickBuffer \in Nat /\ QuickTotal \in Nat
          /\ config \in Config
      BY BenchmarkAssumption DEF BenchmarkAssumption, Base
    <3>2. PICK s \in Seq(Nat), b \in Nat, t \in Nat :
              config' \in {config, [config EXCEPT !.sizes = s, !.myfread_buffer_size = b,
                                                 !.write_total_bytes = t]}
      <4> DEFINE s == IF config.sizes_overridden THEN config.sizes ELSE QuickSizes
                 b == IF config.myfread_buffer_overridden THEN config.myfread_buffer_size
                                                          ELSE QuickBuffer
                 t == IF config.write_total_overridden THEN config.write_total_bytes
                                                       ELSE QuickTotal
      <4>1. s \in Seq(Nat) /\ b \in Nat /\ t \in Nat BY <3>1 DEF Config
      <4>2. config' \in {config, [config EXCEPT !.sizes = s, !.myfread_buffer_size = b,
                                                !.write_total_bytes = t]}
        BY <1>10 DEF ArgsDone
      <4> HIDE DEF s, b, t
      <4> QED BY <4>1, <4>2
    <3> QED BY <3>1, <3>2 DEF Config
  <2>2. << >> \in Seq([opt : Options, val : Seq(Nat)]) OBVIOUS
  <2> QED BY <1>10, <2>1, <2>2 DEF ArgsDone, Base, loopVars, Active, Ended
<1> QED BY <1>4, <1>5, <1>6, <1>7, <1>8, <1>9, <1>10 DEF Parse

\* What leaves the benchmark where it is, ends it, or goes on to the next size.
LEMMA BaseMoves ==
    ASSUME Base, UNCHANGED parseVars
    PROVE  /\ UNCHANGED <<pc, loopVars>> => Base'
           /\ pc' \in Ended /\ UNCHANGED <<phase, k>> => Base'
           /\ pc' = "open" /\ phase' \in 1 .. 7 /\ k' \in Nat \ {0} => Base'
<1>1. ASSUME UNCHANGED <<pc, loopVars>> PROVE Base'
  <2>1. UNCHANGED <<argv, i, config, size, pc, phase, k>>
    BY <1>1 DEF loopVars, parseVars
  <2>2. UNCHANGED <<Sizes, Skipped, Reads>>
    BY <2>1 DEF Sizes, Skipped, Reads, Method, chunk
  <2> QED BY <2>1, <2>2 DEF Base
<1>2. pc' \in Ended /\ UNCHANGED <<phase, k>> => Base'
  BY DEF Base, parseVars, Ended, Active
<1>3. pc' = "open" /\ phase' \in 1 .. 7 /\ k' \in Nat \ {0} => Base'
  BY DEF Base, parseVars, Active
<1> QED BY <1>1, <1>2, <1>3

LEMMA BaseStep == Base /\ [Next]_vars => Base'
<1> SUFFICES ASSUME Base, [Next]_vars PROVE Base'
  OBVIOUS
<1>1. CASE Parse BY <1>1, BaseParse
<1>2. CASE NextPhase \/ Skip \/ Rerun
  <2>1. phase' \in 1 .. 7 /\ k' \in Nat \ {0} /\ UNCHANGED parseVars
    <3>1. phase \in 1 .. 7 /\ k \in Nat \ {0} /\ Len(Phases) = 7
      BY PhasesFacts DEF Base
    <3>2. CASE NextPhase BY <3>1, <3>2 DEF NextPhase
    <3>3. CASE Skip BY <3>1, <3>3 DEF Skip
    <3>4. CASE Rerun BY <3>4 DEF Rerun
    <3> QED BY <1>2, <3>2, <3>3, <3>4
  <2>2. pc' = "open" \/ (pc' = "exit" /\ UNCHANGED <<phase, k>>)
    BY <1>2 DEF NextPhase, Skip, Rerun
  <2> QED BY <2>1, <2>2, BaseMoves DEF Ended
<1>3. CASE Open
  BY <1>3 DEF Open, Base, loopVars, parseVars, Active, Sizes, Skipped, Reads, Method, chunk
<1>4. ASSUME NEW n, Finish(n), UNCHANGED parseVars PROVE Base'
  BY <1>4, BaseMoves DEF Finish, Base
<1>5. CASE ReadEnd \/ GetcEnd \/ Unlink
  BY <1>4, <1>5 DEF ReadEnd, GetcEnd, Unlink
<1>6. CASE Fread \/ Return
  BY <1>4, <1>6, BaseMoves DEF Fread, Return
<1>7. CASE Read \/ Getc \/ Refill \/ Copy \/ Write
  BY <1>7, BaseMoves DEF Read, Getc, Refill, Copy, Write
<1>8. CASE CallFails \/ Kill
  BY <1>8, BaseMoves
     DEF CallFails, OpenFails, ReadFails, WriteFails, CloseFails, UnlinkFails, Kill, Fail, Ended
<1>9. CASE Close
  <2>1. ~Reads
    BY <1>9, PhasesFacts DEF Close, Running, Reads
  <2> QED
    BY <1>9, <2>1 DEF Close, Running, Base, loopVars, parseVars, Active, Sizes, Skipped, Reads,
                      Method, chunk
<1>10. CASE UNCHANGED vars BY <1>10, BaseMoves DEF vars
<1> QED BY <1>1, <1>2, <1>3, <1>5, <1>6, <1>7, <1>8, <1>9, <1>10 DEF Next, Run

----------------------------------------------------------------------------
(* The temporary files. *)

\* The name a write benchmark of phase n gives its file for the size at m.
TempName(f, n, m) ==
    /\ n > 5 /\ f = <<Phases[n], config.sizes[m]>>
    /\ config.sizes[m] >= MinWriteChunk

Planned(f) == \E n \in 1 .. 7, m \in DOMAIN config.sizes : TempName(f, n, m)

\* A benchmark of this run that has not unlinked its file yet uses the name.
Ahead(f) ==
    \E n \in 1 .. 7, m \in DOMAIN config.sizes :
        TempName(f, n, m) /\ (phase < n \/ (phase = n /\ k <= m))

\* Whatever an earlier run has left, this one is still going to write, and unlinks.
TempInv ==
    /\ pc \in {"parse", "help", "exit"} => temp = {}
    /\ pc \in Active => \A f \in temp : Ahead(f)
    /\ pc \in {"failed", "killed"} => \A f \in temp : Planned(f)

\* An error or an interrupt leaves files behind, but none that is not planned.
LEMMA TempEnds ==
    ASSUME Base, TempInv, pc \in Active, temp' \subseteq temp, UNCHANGED config,
           pc' \in {"failed", "killed"}
    PROVE  TempInv'
<1>1. \A f \in temp : Planned(f) BY DEF TempInv, Ahead, Planned
<1> QED BY <1>1 DEF TempInv, Planned, TempName, Active

LEMMA TempStays ==
    ASSUME TempInv, UNCHANGED <<pc, temp, config, phase, k>>
    PROVE  TempInv'
BY DEF TempInv, Planned, Ahead, TempName, Active

\* On to the next size, with every file gone that only the current one uses.
LEMMA TempFinish ==
    ASSUME Base, TempInv, pc \in Active, UNCHANGED <<config, phase>>, pc' = "open",
           k' = k + 1, temp' \subseteq temp,
           \A f \in temp' : ~TempName(f, phase, k)
    PROVE  TempInv'
<1> SUFFICES ASSUME NEW f \in temp' PROVE Ahead(f)'
  BY DEF TempInv, Active
<1>1. PICK n \in 1 .. 7, m \in DOMAIN config.sizes :
          TempName(f, n, m) /\ (phase < n \/ (phase = n /\ k <= m))
  BY DEF TempInv, Ahead
<1>2. ~(n = phase /\ m = k) BY <1>1
<1>3. phase < n \/ (phase = n /\ k + 1 <= m)
  BY <1>1, <1>2 DEF Base, Config
<1>4. TempName(f, n, m)' BY <1>1 DEF TempName
<1> QED BY <1>1, <1>3, <1>4 DEF Ahead

LEMMA TempRead ==
    ASSUME Base, TempInv, pc \in Active, Reads, NEW n, Finish(n), UNCHANGED <<config, temp>>
    PROVE  TempInv'
<1>1. phase <= 5 BY PhasesFacts DEF Reads, Method, Base
<1>2. \A f \in temp' : ~TempName(f, phase, k) BY <1>1 DEF Base, TempName
<1> QED BY <1>2, TempFinish DEF Finish

LEMMA TempStep == Base /\ TempInv /\ [Next]_vars => TempInv'
<1> SUFFICES ASSUME Base, TempInv, [Next]_vars PROVE TempInv'
  OBVIOUS
<1>1. CASE Parse
  <2>1. temp = {} /\ temp' = {}
    BY <1>1 DEF Parse, ArgSizes, ArgBuffer, ArgTotal, ArgQuick, ArgPath, ArgHelp, ArgBad,
                ArgsDone, ArgsNoInput, Has, Accept, Die, TempInv
  <2> QED BY <2>1 DEF TempInv
<1>2. CASE NextPhase
  <2>1. CASE phase < 7
    <3>1. pc = "open" /\ pc' = "open" /\ UNCHANGED <<config, temp>> /\ phase' = phase + 1
            /\ k' = 1 /\ k > Len(Sizes)
      BY <1>2, <2>1, PhasesFacts DEF NextPhase, parseVars
    <3>2. SUFFICES ASSUME NEW f \in temp PROVE Ahead(f)'
      BY <3>1 DEF TempInv, Active
    <3>3. PICK n \in 1 .. 7, m \in DOMAIN config.sizes :
              TempName(f, n, m) /\ (phase < n \/ (phase = n /\ k <= m))
      BY <3>1 DEF TempInv, Ahead, Active
    <3>4. m \in 1 .. Len(config.sizes) BY DEF Base, Config
    <3>5. phase < n BY <3>1, <3>3, <3>4, SizesType DEF TempName, Base
    <3>6. TempName(f, n, m)' BY <3>1, <3>3 DEF TempName
    <3> QED BY <3>1, <3>4, <3>5, <3>6 DEF Ahead, Base
  <2>2. CASE phase = 7
    <3>1. pc = "open" /\ pc' = "exit" /\ UNCHANGED temp /\ k > Len(Sizes)
      BY <1>2, <2>2, PhasesFacts DEF NextPhase
    <3>2. \A f : ~Ahead(f)
      <4> SUFFICES ASSUME NEW f, Ahead(f) PROVE FALSE
        OBVIOUS
      <4>1. PICK n \in 1 .. 7, m \in DOMAIN config.sizes : phase < n \/ (phase = n /\ k <= m)
        BY DEF Ahead
      <4>2. m \in 1 .. Len(config.sizes) BY DEF Base, Config
      <4> QED BY <2>2, <3>1, <4>1, <4>2, SizesType DEF Base
    <3> QED BY <3>1, <3>2 DEF TempInv, Active
  <2> QED BY <2>1, <2>2 DEF Base
<1>3. CASE Skip
  <2>1. ~Reads /\ chunk < MinWriteChunk /\ pc = "open" BY <1>3 DEF Skip, Skipped
  <2>2. phase > 5 BY <2>1, PhasesFacts DEF Reads, Method, Base
  <2>3. chunk = config.sizes[k] BY <2>2, SizesType DEF chunk
  <2>4. chunk \in Nat /\ MinWriteChunk \in Nat BY <1>3, ChunkType DEF Skip
  <2>5. \A f \in temp' : ~TempName(f, phase, k)
    BY <2>1, <2>3, <2>4 DEF TempName
  <2> QED BY <1>3, <2>5, TempFinish DEF Skip, Active, parseVars
<1>4. CASE Open
  <2>1. pc = "open" /\ pc' = "run" /\ UNCHANGED <<config, phase, k>>
    BY <1>4 DEF Open, parseVars, loopVars
  <2>2. \A f \in temp : Ahead(f) BY <2>1 DEF TempInv, Active
  <2>3. ~Reads => Ahead(path)
    <3> SUFFICES ASSUME ~Reads PROVE Ahead(path)
      OBVIOUS
    <3>1. phase > 5 /\ phase \in 1 .. 7 BY PhasesFacts DEF Reads, Method, Base
    <3>2. k \in DOMAIN config.sizes
      BY <1>4, <3>1, SizesType DEF Open, Base, Config
    <3>3. config.sizes[k] = chunk BY <3>1, SizesType DEF chunk
    <3>4. chunk >= MinWriteChunk
      <4>1. chunk \in Nat /\ MinWriteChunk \in Nat BY <1>4, ChunkType DEF Open
      <4>2. ~(chunk < MinWriteChunk) BY <1>4 DEF Open, Skipped
      <4> QED BY <4>1, <4>2
    <3>5. TempName(path, phase, k) BY <3>1, <3>3, <3>4 DEF TempName, path, Method
    <3> QED BY <3>1, <3>2, <3>5 DEF Ahead, Base
  <2>4. \A f \in temp' : Ahead(f) BY <1>4, <2>2, <2>3 DEF Open
  <2> QED BY <2>1, <2>4 DEF TempInv, Ahead, TempName, Active
<1>5. CASE ReadEnd \/ GetcEnd
  BY <1>5, TempRead DEF ReadEnd, GetcEnd, Running, Reads, Active, parseVars
<1>6. CASE Fread \/ Return
  <2>1. Reads /\ pc \in Active /\ UNCHANGED <<config, temp>>
    BY <1>6 DEF Fread, Return, Running, Reads, Active, parseVars
  <2> QED BY <1>6, <2>1, TempRead, TempStays DEF Fread, Return, loopVars
<1>7. CASE Read \/ Getc \/ Refill \/ Copy \/ Write
  BY <1>7, TempStays DEF Read, Getc, Refill, Copy, Write, loopVars, parseVars
<1>8. CASE CallFails \/ Kill
  <2>1. pc \in Active /\ pc' \in {"failed", "killed"} /\ UNCHANGED config
    BY <1>8 DEF CallFails, OpenFails, ReadFails, WriteFails, CloseFails, UnlinkFails, Kill, Fail,
                Running, Active, parseVars
  <2>2. temp' \subseteq temp
    BY <1>8 DEF CallFails, OpenFails, ReadFails, WriteFails, CloseFails, UnlinkFails, Kill,
                Unlinked
  <2> QED BY <2>1, <2>2, TempEnds
<1>9. CASE Close
  BY <1>9 DEF Close, Running, TempInv, Ahead, TempName, Active, loopVars, parseVars
<1>10. CASE Unlink
  <2>1. ~Reads /\ pc = "unlink" /\ temp' = temp \ {path}
    BY <1>10 DEF Unlink, AfterUnlink, Base
  <2>2. phase > 5 BY <2>1, PhasesFacts DEF Reads, Method, Base
  <2>3. \A f : TempName(f, phase, k) => f = path
    BY <2>2, SizesType DEF TempName, path, Method, chunk
  <2> QED BY <1>10, <2>1, <2>3, TempFinish DEF Unlink, Finish, Active, parseVars
<1>11. CASE Rerun
  <2>1. \A f \in temp : Planned(f) BY <1>11 DEF Rerun, TempInv
  <2>2. phase' = 1 /\ k' = 1 /\ pc' = "open" /\ UNCHANGED <<config, temp>>
    BY <1>11 DEF Rerun, parseVars
  <2>3. \A f \in temp : Ahead(f)'
    <3> SUFFICES ASSUME NEW f \in temp PROVE Ahead(f)'
      OBVIOUS
    <3>1. PICK n \in 1 .. 7, m \in DOMAIN config.sizes : TempName(f, n, m)
      BY <2>1 DEF Planned
    <3>2. TempName(f, n, m)' /\ phase' < n BY <2>2, <3>1 DEF TempName
    <3> QED BY <2>2, <3>1, <3>2 DEF Ahead
  <2> QED BY <2>2, <2>3 DEF TempInv, Active
<1>12. CASE UNCHANGED vars BY <1>12, TempStays DEF vars, loopVars, parseVars
<1> QED
  BY <1>1, <1>2, <1>3, <1>4, <1>5, <1>6, <1>7, <1>8, <1>9, <1>10, <1>11, <1>12 DEF Next, Run

\* A run that ends well has deleted every temporary file (lines 543-581), those that
\* interrupted and failed runs before it had left included.
THEOREM TempFilesCorrect == Spec => []TempFilesDeleted
<1>1. Init => TempInv BY DEF Init, TempInv, Active
<1>2. TempInv => TempFilesDeleted BY DEF TempInv, TempFilesDeleted
<1> QED BY <1>1, <1>2, BaseInit, BaseStep, TempStep, PTL DEF Spec

----------------------------------------------------------------------------
(* The buffered reader. *)

Freading == pc = "run" /\ Method = "my_fread"

FreadType ==
    /\ total \in Nat /\ pos \in Nat /\ dest \in Seq(Nat)
    /\ myf \in [buffer : [1 .. Capacity -> Nat], begin : Nat, end : Nat]
    /\ myf.begin <= myf.end

\* What begin and end enclose are the bytes before the file offset.
Enclosed ==
    \A b \in 1 .. Capacity :
        myf.begin < b /\ b <= myf.end => myf.buffer[b] = pos - myf.end + b

FreadInv == Freading => FreadType /\ Enclosed /\ FreadInOrder

LEMMA CapacityType == Base => Capacity \in Nat \ {0}
BY BenchmarkAssumption DEF BenchmarkAssumption, Base, Config, Capacity

\* A part of a sequence, and two sequences one after the other.
LEMMA PartOfSeq ==
    ASSUME NEW q \in Seq(Nat), NEW b \in Nat, NEW n \in Nat, b + n <= Len(q)
    PROVE  /\ SubSeq(q, b + 1, b + n) \in Seq(Nat)
           /\ Len(SubSeq(q, b + 1, b + n)) = n
           /\ \A m \in 1 .. n : SubSeq(q, b + 1, b + n)[m] = q[b + m]
OBVIOUS

LEMMA Joined ==
    ASSUME NEW q \in Seq(Nat), NEW r \in Seq(Nat)
    PROVE  /\ q \o r \in Seq(Nat) /\ Len(q \o r) = Len(q) + Len(r)
           /\ \A m \in 1 .. Len(q) : (q \o r)[m] = q[m]
           /\ \A m \in Len(q) + 1 .. Len(q) + Len(r) : (q \o r)[m] = r[m - Len(q)]
OBVIOUS

LEMMA FreadOpen == Base /\ FreadInv /\ Open => FreadInv'
<1> SUFFICES ASSUME Base, Open, Freading' PROVE (FreadType /\ Enclosed /\ FreadInOrder)'
  BY DEF FreadInv
<1>1. Capacity \in Nat /\ Capacity' = Capacity
  BY CapacityType DEF Open, Capacity, parseVars
<1>2. myf' = [NoFile EXCEPT !.buffer = [b \in 1 .. Capacity |-> 0]]
  BY DEF Open, Freading, Method, loopVars
<1>3. total' = 0 /\ pos' = 0 /\ dest' = << >> BY DEF Open
<1>4. myf'.begin = 0 /\ myf'.end = 0 /\ myf'.buffer = [b \in 1 .. Capacity |-> 0]
  BY <1>2 DEF NoFile
<1>5. myf' \in [buffer : [1 .. Capacity -> Nat], begin : Nat, end : Nat]
  BY <1>1, <1>2 DEF NoFile
<1> QED BY <1>1, <1>3, <1>4, <1>5 DEF FreadType, Enclosed, FreadInOrder, available

LEMMA FreadRefill == Base /\ FreadInv /\ Refill => FreadInv'
<1> SUFFICES ASSUME Base, FreadInv, Refill PROVE (FreadType /\ Enclosed /\ FreadInOrder)'
  BY DEF FreadInv
<1>1. Freading /\ Capacity \in Nat /\ Capacity' = Capacity /\ size \in Nat
  BY CapacityType DEF Refill, Running, Freading, Capacity, parseVars, Base
<1>2. FreadType /\ Enclosed /\ FreadInOrder BY <1>1 DEF FreadInv
<1>3. PICK n \in 1 .. Least(Capacity, size - pos) :
          /\ myf' = [buffer |-> [b \in 1 .. Capacity |->
                                    IF b <= n THEN pos + b ELSE myf.buffer[b]],
                     begin |-> 0, end |-> n]
          /\ pos' = pos + n
  BY DEF Refill
<1>4. n \in Nat /\ n >= 1 /\ n <= Capacity BY <1>1, <1>2, <1>3 DEF Least, FreadType
<1>5. myf'.begin = 0 /\ myf'.end = n
        /\ myf'.buffer = [b \in 1 .. Capacity |-> IF b <= n THEN pos + b ELSE myf.buffer[b]]
  BY <1>3
<1>6. \A b \in 1 .. Capacity : (IF b <= n THEN pos + b ELSE myf.buffer[b]) \in Nat
  BY <1>1, <1>2, <1>4 DEF FreadType
<1>7. myf' \in [buffer : [1 .. Capacity -> Nat], begin : Nat, end : Nat]
  BY <1>3, <1>4, <1>6
<1>8. FreadType'
  BY <1>1, <1>2, <1>3, <1>4, <1>5, <1>7 DEF FreadType, Refill
<1>9. Enclosed' BY <1>1, <1>2, <1>3, <1>4, <1>5 DEF Enclosed, FreadType
<1>10. FreadInOrder'
  <2>1. pos = total + Len(dest) BY <1>1, <1>2 DEF FreadInOrder, Freading, Refill, FreadType
  <2>2. available' = n BY <1>4, <1>5 DEF available
  <2>3. \A m \in DOMAIN dest : dest[m] = total + m
    BY <1>1, <1>2 DEF FreadInOrder, Freading
  <2>4. UNCHANGED <<total, dest>> BY DEF Refill
  <2> QED BY <1>1, <1>2, <1>3, <1>4, <1>5, <2>1, <2>2, <2>3, <2>4 DEF FreadInOrder, FreadType
<1> QED BY <1>8, <1>9, <1>10

LEMMA FreadCopy == Base /\ FreadInv /\ Copy => FreadInv'
<1> SUFFICES ASSUME Base, FreadInv, Copy PROVE (FreadType /\ Enclosed /\ FreadInOrder)'
  BY DEF FreadInv
<1>1. Freading /\ Capacity \in Nat /\ Capacity' = Capacity /\ chunk \in Nat
  <2>1. chunk \in Nat BY ChunkType DEF Copy, Running, Base
  <2> QED BY <2>1, CapacityType DEF Copy, Running, Freading, Capacity, parseVars
<1>2. FreadType /\ Enclosed /\ FreadInOrder BY <1>1 DEF FreadInv
<1>3. PICK n \in Nat : n = ToCopy /\ n >= 1 /\ n <= available
  <2>1. available \in Nat /\ available > 0 /\ Len(dest) < chunk /\ Len(dest) \in Nat
    BY <1>2 DEF Copy, FreadType, available
  <2> QED BY <1>1, <2>1 DEF ToCopy, Least
<1>4. PICK s : s = SubSeq(myf.buffer, myf.begin + 1, myf.begin + n)
  OBVIOUS
<1>5. myf.buffer \in Seq(Nat) /\ Len(myf.buffer) = Capacity
  BY <1>1, <1>2 DEF FreadType
<1>6. myf.begin \in Nat /\ myf.end \in Nat /\ myf.begin + n <= myf.end /\ myf.end <= Capacity
  BY <1>1, <1>2, <1>3 DEF FreadType, available, FreadInOrder, Freading
<1>7. s \in Seq(Nat) /\ Len(s) = n /\ \A m \in 1 .. n : s[m] = myf.buffer[myf.begin + m]
  <2>1. myf.begin + n <= Len(myf.buffer) BY <1>1, <1>3, <1>5, <1>6
  <2>2. /\ SubSeq(myf.buffer, myf.begin + 1, myf.begin + n) \in Seq(Nat)
        /\ Len(SubSeq(myf.buffer, myf.begin + 1, myf.begin + n)) = n
        /\ \A m \in 1 .. n : SubSeq(myf.buffer, myf.begin + 1, myf.begin + n)[m]
                                = myf.buffer[myf.begin + m]
    <3> DEFINE q == myf.buffer
               b == myf.begin
    <3>1. q \in Seq(Nat) /\ b \in Nat /\ n \in Nat /\ b + n <= Len(q)
      BY <1>3, <1>5, <1>6, <2>1
    <3> HIDE DEF q, b
    <3>2. /\ SubSeq(q, b + 1, b + n) \in Seq(Nat) /\ Len(SubSeq(q, b + 1, b + n)) = n
          /\ \A m \in 1 .. n : SubSeq(q, b + 1, b + n)[m] = q[b + m]
      BY <3>1, PartOfSeq
    <3> QED BY <3>2 DEF q, b
  <2> QED BY <1>4, <2>2
<1>8. dest' = dest \o s /\ myf' = [myf EXCEPT !.begin = myf.begin + n]
        /\ UNCHANGED <<total, pos>>
  BY <1>3, <1>4 DEF Copy, Advance
<1>9. /\ total \in Nat /\ pos \in Nat /\ dest \in Seq(Nat)
      /\ pos = total + Len(dest) + (myf.end - myf.begin)
      /\ \A m \in 1 .. Len(dest) : dest[m] = total + m
  BY <1>1, <1>2 DEF FreadType, FreadInOrder, Freading, available
<1>10. \A m \in 1 .. n : s[m] = total + Len(dest) + m
  <2> SUFFICES ASSUME NEW m \in 1 .. n PROVE s[m] = total + Len(dest) + m
    OBVIOUS
  <2>1. myf.begin + m \in 1 .. Capacity /\ myf.begin < myf.begin + m /\ myf.begin + m <= myf.end
    BY <1>3, <1>6, <1>1
  <2>2. myf.buffer[myf.begin + m] = pos - myf.end + (myf.begin + m)
    BY <1>2, <2>1 DEF Enclosed
  <2>3. Len(dest) \in Nat BY <1>9
  <2>4. s[m] = pos - myf.end + (myf.begin + m) BY <1>7, <2>2
  <2>5. /\ pos \in Int /\ total \in Int /\ myf.begin \in Int /\ myf.end \in Int /\ m \in Int
        /\ pos = total + Len(dest) + (myf.end - myf.begin)
    BY <1>6, <1>9, <1>2 DEF FreadType
  <2> QED BY <2>3, <2>4, <2>5
<1>11. dest' \in Seq(Nat) /\ Len(dest') = Len(dest) + n
         /\ \A m \in 1 .. Len(dest') : dest'[m] = total + m
  <2>1. dest' \in Seq(Nat) /\ Len(dest') = Len(dest) + n BY <1>7, <1>8, <1>9, Joined
  <2>2. \A m \in 1 .. Len(dest) : dest'[m] = dest[m] BY <1>7, <1>8, <1>9, Joined
  <2>3. \A m \in Len(dest) + 1 .. Len(dest) + n : dest'[m] = s[m - Len(dest)]
    BY <1>3, <1>7, <1>8, <1>9, Joined
  <2>4. Len(dest) \in Nat BY <1>9
  <2>5. ASSUME NEW m \in 1 .. Len(dest') PROVE dest'[m] = total + m
    <3>1. CASE m <= Len(dest) BY <1>9, <2>2, <2>4, <3>1
    <3>2. CASE m > Len(dest)
      <4>1. m - Len(dest) \in 1 .. n BY <1>3, <2>1, <2>4, <3>2
      <4>2. s[m - Len(dest)] = total + Len(dest) + (m - Len(dest)) BY <1>10, <4>1
      <4>3. dest'[m] = s[m - Len(dest)] BY <1>3, <2>1, <2>3, <2>4, <3>2
      <4> QED BY <1>9, <2>4, <4>2, <4>3
    <3> QED BY <2>4, <3>1, <3>2
  <2> QED BY <2>1, <2>5
<1>12. myf'.begin = myf.begin + n /\ myf'.end = myf.end /\ myf'.buffer = myf.buffer
  BY <1>2, <1>8 DEF FreadType
<1>13. myf' \in [buffer : [1 .. Capacity -> Nat], begin : Nat, end : Nat]
  <2>1. myf.begin + n \in Nat BY <1>3, <1>6
  <2>2. [myf EXCEPT !.begin = myf.begin + n]
          \in [buffer : [1 .. Capacity -> Nat], begin : Nat, end : Nat]
    BY <1>2, <2>1 DEF FreadType
  <2> QED BY <1>8, <2>2
<1>14. FreadType'
  <2>1. n \in Nat /\ myf.begin + n <= myf.end BY <1>3, <1>6
  <2> QED BY <1>1, <1>2, <1>8, <1>9, <1>11, <1>12, <1>13, <2>1 DEF FreadType
<1>15. Enclosed' BY <1>1, <1>2, <1>3, <1>6, <1>8, <1>12 DEF Enclosed
<1>16. FreadInOrder'
  <2>1. available' = (myf.end - myf.begin) - n BY <1>3, <1>6, <1>12 DEF available
  <2>2. Len(dest) \in Nat BY <1>9
  <2>3. DOMAIN dest' = 1 .. Len(dest') BY <1>11
  <2>4. pos' = total' + Len(dest') + available'
    <3>1. pos' = pos /\ total' = total /\ Len(dest') = Len(dest) + n
      BY <1>8, <1>11
    <3>2. /\ pos \in Int /\ total \in Int /\ n \in Int
          /\ myf.begin \in Int /\ myf.end \in Int
          /\ pos = total + Len(dest) + (myf.end - myf.begin)
      BY <1>3, <1>6, <1>9
    <3> QED BY <2>1, <2>2, <3>1, <3>2
  <2>5. 0 <= available' /\ myf'.end <= Capacity'
    BY <1>1, <1>3, <1>6, <1>12, <2>1
  <2>6. \A m \in DOMAIN dest' : dest'[m] = total' + m BY <1>8, <1>11, <2>3
  <2> QED BY <2>4, <2>5, <2>6 DEF FreadInOrder
<1> QED BY <1>14, <1>15, <1>16

LEMMA FreadReturn == Base /\ FreadInv /\ Return => FreadInv'
<1> SUFFICES ASSUME Base, FreadInv, Return, Freading'
             PROVE  (FreadType /\ Enclosed /\ FreadInOrder)'
  BY DEF FreadInv
<1>1. Freading /\ Capacity' = Capacity
  BY DEF Return, Running, Freading, Capacity, parseVars
<1>2. FreadType /\ Enclosed /\ FreadInOrder BY <1>1 DEF FreadInv
<1>3. total' = total + Len(dest) /\ dest' = << >> /\ UNCHANGED <<pos, myf>>
  BY DEF Return
<1>4. /\ total \in Nat /\ Len(dest) \in Nat
      /\ pos = total + Len(dest) + available /\ 0 <= available /\ myf.end <= Capacity
  BY <1>1, <1>2 DEF FreadType, FreadInOrder, Freading
<1>5. available' = available /\ available \in Int BY <1>2, <1>3 DEF available, FreadType
<1>6. FreadInOrder'
  <2>1. Len(<< >>) = 0 /\ DOMAIN << >> = {} OBVIOUS
  <2> QED BY <1>1, <1>3, <1>4, <1>5, <2>1 DEF FreadInOrder
<1>7. FreadType' BY <1>1, <1>2, <1>3, <1>4 DEF FreadType
<1>8. Enclosed' BY <1>1, <1>2, <1>3 DEF Enclosed
<1> QED BY <1>6, <1>7, <1>8

LEMMA FreadStep == Base /\ FreadInv /\ [Next]_vars => FreadInv'
<1> SUFFICES ASSUME Base, FreadInv, [Next]_vars PROVE FreadInv'
  OBVIOUS
<1>1. CASE Open \/ Refill \/ Copy \/ Return
  BY <1>1, FreadOpen, FreadRefill, FreadCopy, FreadReturn
<1>2. CASE Parse
  <2>1. pc' # "run"
    BY <1>2 DEF Parse, ArgSizes, ArgBuffer, ArgTotal, ArgQuick, ArgPath, ArgHelp, ArgBad,
                ArgsDone, ArgsNoInput, Has, Accept, Die
  <2> QED BY <2>1 DEF FreadInv, Freading
<1>3. CASE NextPhase \/ Skip \/ ReadEnd \/ GetcEnd \/ Close \/ Unlink \/ Rerun
  <2>1. pc' # "run"
    BY <1>3 DEF NextPhase, Skip, ReadEnd, GetcEnd, Close, Unlink, Rerun, Finish
  <2> QED BY <2>1 DEF FreadInv, Freading
<1>4. CASE CallFails \/ Kill
  <2>1. pc' # "run"
    BY <1>4 DEF CallFails, OpenFails, ReadFails, WriteFails, CloseFails, UnlinkFails, Kill, Fail
  <2> QED BY <2>1 DEF FreadInv, Freading
<1>5. CASE Read \/ Getc \/ Fread \/ Write
  <2>1. Method # "my_fread" BY <1>5 DEF Read, Getc, Fread, Write, Running
  <2>2. pc' = "open" \/ phase' = phase BY <1>5 DEF Read, Getc, Fread, Write, Finish, loopVars
  <2> QED BY <2>1, <2>2 DEF FreadInv, Freading, Method
<1>6. CASE UNCHANGED vars
  <2>1. UNCHANGED <<pc, phase, k, config, total, pos, dest, myf>>
    BY <1>6 DEF vars, loopVars, parseVars, readVars
  <2> QED
    BY <2>1 DEF FreadInv, Freading, FreadType, Enclosed, FreadInOrder, Capacity, Method, available
<1> QED BY <1>1, <1>2, <1>3, <1>4, <1>5, <1>6 DEF Next, Run

\* my_fread_bytes() (lines 302-334) delivers the file in order, without a gap and
\* without a byte twice, whatever the sizes of chunk, buffer and short reads.
THEOREM FreadCorrect == Spec => []FreadInOrder
<1>1. Init => FreadInv BY DEF Init, FreadInv, Freading
<1>2. FreadInv => FreadInOrder BY DEF FreadInv, Freading, FreadInOrder
<1> QED BY <1>1, <1>2, BaseInit, BaseStep, FreadStep, PTL DEF Spec

----------------------------------------------------------------------------
(* The command line. *)

\* Where the first j - 1 arguments of a command line have this option, and which
\* of the places is the last.
Seen(a, j, opt) == {n \in 1 .. j - 1 : a[n].opt = opt}
Latest(a, j, opt, n) == n \in Seen(a, j, opt) /\ \A m \in Seen(a, j, opt) : m <= n

\* What the configuration takes from an argument: --sizes all of its value.
Piece(opt, val) == IF opt = "--sizes" THEN val ELSE val[1]

\* The option was not met yet, or value is that of its last occurrence.
Says(a, j, opt, given, value, default) ==
    /\ ~given => Seen(a, j, opt) = {} /\ value = default
    /\ given => \E n \in 1 .. j - 1 :
                   /\ Latest(a, j, opt, n) /\ value = Piece(opt, a[n].val)
                   /\ opt # "--sizes" => value > 0

\* The configuration is what the arguments read so far say.
Heard(a, j, c) ==
    /\ c.quick_mode = (Seen(a, j, "--quick") # {})
    /\ Says(a, j, "--sizes", c.sizes_overridden, c.sizes, DefaultSizes)
    /\ Says(a, j, "--myfread-buffer", c.myfread_buffer_overridden, c.myfread_buffer_size, 0)
    /\ Says(a, j, "--write-total-bytes", c.write_total_overridden, c.write_total_bytes, 0)

ParseInv == pc = "parse" => i <= Len(argv) + 1 /\ Heard(argv, i, config)

\* One more argument: the last of its own option, nothing new for the others.
LEMMA SeenNext ==
    ASSUME NEW a, NEW j \in Nat \ {0}, NEW opt
    PROVE  /\ a[j].opt = opt => Latest(a, j + 1, opt, j)
           /\ a[j].opt # opt => Seen(a, j + 1, opt) = Seen(a, j, opt)
BY DEF Seen, Latest

LEMMA SaysOther ==
    ASSUME NEW a, NEW j \in Nat \ {0}, NEW opt, a[j].opt # opt,
           NEW given, NEW value, NEW default, Says(a, j, opt, given, value, default)
    PROVE  Says(a, j + 1, opt, given, value, default)
<1>1. Seen(a, j + 1, opt) = Seen(a, j, opt) BY SeenNext
<1>2. \A n \in 1 .. j - 1 : n \in 1 .. (j + 1) - 1 OBVIOUS
<1> QED BY <1>1, <1>2 DEF Says, Latest

LEMMA SaysOwn ==
    ASSUME NEW a, NEW j \in Nat \ {0}, NEW opt, a[j].opt = opt, NEW default, NEW value,
           value = Piece(opt, a[j].val), opt # "--sizes" => value > 0
    PROVE  Says(a, j + 1, opt, TRUE, value, default)
<1>1. Latest(a, j + 1, opt, j) BY SeenNext
<1>2. j \in 1 .. (j + 1) - 1 OBVIOUS
<1> QED BY <1>1, <1>2 DEF Says

\* An argument that is not one of these four options.
LEMMA HeardOther ==
    ASSUME NEW a, NEW j \in Nat \ {0}, NEW c, NEW d, Heard(a, j, c),
           a[j].opt \notin {"--quick", "--sizes", "--myfread-buffer", "--write-total-bytes"},
           d.quick_mode = c.quick_mode,
           d.sizes_overridden = c.sizes_overridden, d.sizes = c.sizes,
           d.myfread_buffer_overridden = c.myfread_buffer_overridden,
           d.myfread_buffer_size = c.myfread_buffer_size,
           d.write_total_overridden = c.write_total_overridden,
           d.write_total_bytes = c.write_total_bytes
    PROVE  Heard(a, j + 1, d)
<1>1. Seen(a, j + 1, "--quick") = Seen(a, j, "--quick") BY SeenNext
<1> QED BY <1>1, SaysOther DEF Heard

\* The current argument, and what a good value gives.
LEMMA ArgFacts ==
    ASSUME Base, NEW opt, Has(opt)
    PROVE  /\ i \in Nat \ {0} /\ i \in 1 .. Len(argv) /\ argv[i].opt = opt
           /\ GoodValue => argv[i].val[1] > 0
<1>1. argv \in Seq([opt : Options, val : Seq(Nat)]) /\ i \in Nat \ {0} /\ i <= Len(argv)
      /\ argv[i].opt = opt
  BY DEF Base, Has
<1>2. argv[i].val \in Seq(Nat)
  <2> DEFINE Arg == [opt : Options, val : Seq(Nat)]
  <2>1. argv \in Seq(Arg) BY <1>1
  <2> HIDE DEF Arg
  <2>2. argv[i] \in Arg BY <1>1, <2>1
  <2> QED BY <2>2 DEF Arg
<1>3. ASSUME GoodValue PROVE argv[i].val[1] > 0
  <2>1. 1 \in DOMAIN argv[i].val BY <1>2, <1>3 DEF GoodValue
  <2> QED BY <1>3, <2>1 DEF GoodValue
<1>4. Len(argv) \in Nat /\ i \in 1 .. Len(argv) BY <1>1
<1> QED BY <1>1, <1>3, <1>4

LEMMA ParseKeeps ==
    ASSUME Base, ParseInv, pc = "parse", i <= Len(argv), NEW c, Accept(c), Heard(argv, i + 1, c)
    PROVE  ParseInv'
BY DEF Accept, ParseInv, Base

LEMMA ParseArgs ==
    ASSUME Base, ParseInv, ArgSizes \/ ArgBuffer \/ ArgTotal \/ ArgQuick \/ ArgPath
    PROVE  ParseInv'
<1>1. pc = "parse" /\ i \in Nat \ {0} /\ Heard(argv, i, config) /\ config \in Config
  BY DEF ArgSizes, ArgBuffer, ArgTotal, ArgQuick, ArgPath, Has, ParseInv, Base
<1>2. CASE ArgSizes
  <2> DEFINE c == [config EXCEPT !.sizes = argv[i].val, !.sizes_overridden = TRUE]
  <2>1. Has("--sizes") /\ Accept(c) BY <1>2 DEF ArgSizes
  <2>2. i <= Len(argv) /\ argv[i].opt = "--sizes" BY <2>1, ArgFacts
  <2>3. /\ c.sizes_overridden = TRUE /\ c.sizes = argv[i].val
        /\ c.quick_mode = config.quick_mode
        /\ c.myfread_buffer_overridden = config.myfread_buffer_overridden
        /\ c.myfread_buffer_size = config.myfread_buffer_size
        /\ c.write_total_overridden = config.write_total_overridden
        /\ c.write_total_bytes = config.write_total_bytes
    BY <1>1 DEF Config
  <2> HIDE DEF c
  <2>4. Says(argv, i + 1, "--sizes", TRUE, c.sizes, DefaultSizes)
    BY <1>1, <2>2, <2>3, SaysOwn DEF Piece
  <2>5. /\ Says(argv, i + 1, "--myfread-buffer", c.myfread_buffer_overridden,
                c.myfread_buffer_size, 0)
        /\ Says(argv, i + 1, "--write-total-bytes", c.write_total_overridden,
                c.write_total_bytes, 0)
        /\ Seen(argv, i + 1, "--quick") = Seen(argv, i, "--quick")
    BY <1>1, <2>2, <2>3, SaysOther, SeenNext DEF Heard
  <2>6. Heard(argv, i + 1, c) BY <1>1, <2>3, <2>4, <2>5 DEF Heard
  <2> QED BY <1>1, <2>1, <2>2, <2>6, ParseKeeps
<1>3. CASE ArgBuffer
  <2> DEFINE c == [config EXCEPT !.myfread_buffer_size = argv[i].val[1],
                                 !.myfread_buffer_overridden = TRUE]
  <2>1. Has("--myfread-buffer") /\ GoodValue /\ Accept(c) BY <1>3 DEF ArgBuffer
  <2>2. i <= Len(argv) /\ argv[i].opt = "--myfread-buffer" /\ argv[i].val[1] > 0
    BY <2>1, ArgFacts
  <2>3. /\ c.myfread_buffer_overridden = TRUE /\ c.myfread_buffer_size = argv[i].val[1]
        /\ c.quick_mode = config.quick_mode
        /\ c.sizes_overridden = config.sizes_overridden /\ c.sizes = config.sizes
        /\ c.write_total_overridden = config.write_total_overridden
        /\ c.write_total_bytes = config.write_total_bytes
    BY <1>1 DEF Config
  <2> HIDE DEF c
  <2>4. Says(argv, i + 1, "--myfread-buffer", TRUE, c.myfread_buffer_size, 0)
    BY <1>1, <2>2, <2>3, SaysOwn DEF Piece
  <2>5. /\ Says(argv, i + 1, "--sizes", c.sizes_overridden, c.sizes, DefaultSizes)
        /\ Says(argv, i + 1, "--write-total-bytes", c.write_total_overridden,
                c.write_total_bytes, 0)
        /\ Seen(argv, i + 1, "--quick") = Seen(argv, i, "--quick")
    BY <1>1, <2>2, <2>3, SaysOther, SeenNext DEF Heard
  <2>6. Heard(argv, i + 1, c) BY <1>1, <2>3, <2>4, <2>5 DEF Heard
  <2> QED BY <1>1, <2>1, <2>2, <2>6, ParseKeeps
<1>4. CASE ArgTotal
  <2> DEFINE c == [config EXCEPT !.write_total_bytes = argv[i].val[1],
                                 !.write_total_overridden = TRUE]
  <2>1. Has("--write-total-bytes") /\ GoodValue /\ Accept(c) BY <1>4 DEF ArgTotal
  <2>2. i <= Len(argv) /\ argv[i].opt = "--write-total-bytes" /\ argv[i].val[1] > 0
    BY <2>1, ArgFacts
  <2>3. /\ c.write_total_overridden = TRUE /\ c.write_total_bytes = argv[i].val[1]
        /\ c.quick_mode = config.quick_mode
        /\ c.sizes_overridden = config.sizes_overridden /\ c.sizes = config.sizes
        /\ c.myfread_buffer_overridden = config.myfread_buffer_overridden
        /\ c.myfread_buffer_size = config.myfread_buffer_size
    BY <1>1 DEF Config
  <2> HIDE DEF c
  <2>4. Says(argv, i + 1, "--write-total-bytes", TRUE, c.write_total_bytes, 0)
    BY <1>1, <2>2, <2>3, SaysOwn DEF Piece
  <2>5. /\ Says(argv, i + 1, "--sizes", c.sizes_overridden, c.sizes, DefaultSizes)
        /\ Says(argv, i + 1, "--myfread-buffer", c.myfread_buffer_overridden,
                c.myfread_buffer_size, 0)
        /\ Seen(argv, i + 1, "--quick") = Seen(argv, i, "--quick")
    BY <1>1, <2>2, <2>3, SaysOther, SeenNext DEF Heard
  <2>6. Heard(argv, i + 1, c) BY <1>1, <2>3, <2>4, <2>5 DEF Heard
  <2> QED BY <1>1, <2>1, <2>2, <2>6, ParseKeeps
<1>5. CASE ArgQuick
  <2> DEFINE c == [config EXCEPT !.quick_mode = TRUE]
  <2>1. Has("--quick") /\ Accept(c) BY <1>5 DEF ArgQuick
  <2>2. i <= Len(argv) /\ argv[i].opt = "--quick" BY <2>1, ArgFacts
  <2>3. /\ c.quick_mode = TRUE
        /\ c.sizes_overridden = config.sizes_overridden /\ c.sizes = config.sizes
        /\ c.myfread_buffer_overridden = config.myfread_buffer_overridden
        /\ c.myfread_buffer_size = config.myfread_buffer_size
        /\ c.write_total_overridden = config.write_total_overridden
        /\ c.write_total_bytes = config.write_total_bytes
    BY <1>1 DEF Config
  <2> HIDE DEF c
  <2>4. Seen(argv, i + 1, "--quick") # {}
    BY <1>1, <2>2, SeenNext DEF Latest
  <2>5. /\ Says(argv, i + 1, "--sizes", c.sizes_overridden, c.sizes, DefaultSizes)
        /\ Says(argv, i + 1, "--myfread-buffer", c.myfread_buffer_overridden,
                c.myfread_buffer_size, 0)
        /\ Says(argv, i + 1, "--write-total-bytes", c.write_total_overridden,
                c.write_total_bytes, 0)
    BY <1>1, <2>2, <2>3, SaysOther DEF Heard
  <2>6. Heard(argv, i + 1, c) BY <2>3, <2>4, <2>5 DEF Heard
  <2> QED BY <1>1, <2>1, <2>2, <2>6, ParseKeeps
<1>6. CASE ArgPath
  <2>1. PICK opt \in {"--input", "--output", "--write-dir"} :
            Has(opt) /\ (Accept([config EXCEPT !.input = TRUE]) \/ Accept(config))
    BY <1>6 DEF ArgPath
  <2>2. i <= Len(argv)
        /\ argv[i].opt \notin {"--quick", "--sizes", "--myfread-buffer", "--write-total-bytes"}
    BY <2>1, ArgFacts
  <2>3. Heard(argv, i + 1, config) BY <1>1, <2>2, HeardOther
  <2>4. Heard(argv, i + 1, [config EXCEPT !.input = TRUE])
    <3> DEFINE c == [config EXCEPT !.input = TRUE]
    <3>1. /\ c.quick_mode = config.quick_mode
          /\ c.sizes_overridden = config.sizes_overridden /\ c.sizes = config.sizes
          /\ c.myfread_buffer_overridden = config.myfread_buffer_overridden
          /\ c.myfread_buffer_size = config.myfread_buffer_size
          /\ c.write_total_overridden = config.write_total_overridden
          /\ c.write_total_bytes = config.write_total_bytes
      BY <1>1 DEF Config
    <3> HIDE DEF c
    <3>2. Heard(argv, i + 1, c) BY <1>1, <2>2, <3>1, HeardOther
    <3> QED BY <3>2 DEF c
  <2> QED BY <1>1, <2>1, <2>2, <2>3, <2>4, ParseKeeps
<1> QED BY <1>2, <1>3, <1>4, <1>5, <1>6

LEMMA ParseStep == Base /\ ParseInv /\ [Next]_vars => ParseInv'
<1> SUFFICES ASSUME Base, ParseInv, [Next]_vars PROVE ParseInv'
  OBVIOUS
<1>1. CASE ArgSizes \/ ArgBuffer \/ ArgTotal \/ ArgQuick \/ ArgPath BY <1>1, ParseArgs
<1>2. CASE ArgHelp \/ ArgBad \/ ArgsDone \/ ArgsNoInput
  <2>1. pc' # "parse" BY <1>2 DEF ArgHelp, ArgBad, ArgsDone, ArgsNoInput, Die
  <2> QED BY <2>1 DEF ParseInv
<1>3. CASE Run \/ CallFails \/ Kill \/ Rerun
  <2>1. pc # "parse" /\ pc' # "parse"
    BY <1>3 DEF Run, NextPhase, Skip, Open, Read, ReadEnd, Getc, GetcEnd, Fread, Refill, Copy,
                Return, Write, Close, Unlink, Running, Finish, CallFails, OpenFails, ReadFails,
                WriteFails, CloseFails, UnlinkFails, Fail, Kill, Rerun
  <2> QED BY <2>1 DEF ParseInv
<1>4. CASE UNCHANGED vars BY <1>4 DEF vars, parseVars, ParseInv
<1> QED BY <1>1, <1>2, <1>3, <1>4 DEF Next, Parse

LEMMA ParseInit == Init => ParseInv
<1> SUFFICES ASSUME Init PROVE ParseInv
  OBVIOUS
<1>1. i = 1 /\ Len(argv) \in Nat BY BaseInit DEF Init, Base
<1>2. \A opt : Seen(argv, 1, opt) = {} BY DEF Seen
<1>3. Heard(argv, 1, config) BY <1>2 DEF Init, Heard, Says
<1> QED BY <1>1, <1>3 DEF ParseInv

\* What a property reads off the whole command line.
LEMMA ValueIs ==
    ASSUME argv \in Seq([opt : Options, val : Seq(Nat)]), NEW j, j = Len(argv) + 1,
           NEW opt, NEW default
    PROVE  /\ Given(opt) = Seen(argv, j, opt)
           /\ Given(opt) = {} => Value(opt, default) = default
           /\ \A n \in 1 .. j - 1 : Latest(argv, j, opt, n) => /\ Given(opt) # {}
                                                /\ Value(opt, default) = argv[n].val
<1>1. DOMAIN argv = 1 .. j - 1 OBVIOUS
<1>2. Given(opt) = Seen(argv, j, opt) BY <1>1 DEF Given, Seen
<1>3. ASSUME NEW n \in 1 .. j - 1, Latest(argv, j, opt, n)
      PROVE  Given(opt) # {} /\ Value(opt, default) = argv[n].val
  <2>1. n \in Given(opt) /\ \A m \in Given(opt) : m <= n BY <1>2, <1>3 DEF Latest
  <2>2. PICK l : l = CHOOSE q \in Given(opt) : \A m \in Given(opt) : m <= q OBVIOUS
  <2>3. l \in Given(opt) /\ \A m \in Given(opt) : m <= l BY <2>1, <2>2
  <2>4. l <= n /\ n <= l BY <2>1, <2>3
  <2>5. l \in Int /\ n \in Int BY <1>2, <2>3 DEF Seen
  <2>6. l = n BY <2>4, <2>5
  <2> QED BY <2>1, <2>2, <2>6 DEF Value
<1> QED BY <1>2, <1>3 DEF Value

\* parse_args() (lines 206-275) is left with what the last occurrence of an option
\* gave; what was not given has the value of --quick, if that occurred anywhere, and
\* the ordinary default otherwise.
LEMMA DoneStep == Base /\ ParseInv /\ ArgsDone =>
          /\ config'.sizes = Value("--sizes", Default(QuickSizes, DefaultSizes))
          /\ Capacity' = Value("--myfread-buffer",
                               <<Default(QuickBuffer, DefaultBuffer)>>)[1]
          /\ WriteTotal' = Value("--write-total-bytes",
                                 <<Default(QuickTotal, DefaultTotal)>>)[1]
<1> SUFFICES ASSUME Base, ParseInv, ArgsDone
             PROVE  /\ config'.sizes = Value("--sizes", Default(QuickSizes, DefaultSizes))
                    /\ Capacity' = Value("--myfread-buffer",
                                         <<Default(QuickBuffer, DefaultBuffer)>>)[1]
                    /\ WriteTotal' = Value("--write-total-bytes",
                                           <<Default(QuickTotal, DefaultTotal)>>)[1]
  OBVIOUS
<1>1. argv \in Seq([opt : Options, val : Seq(Nat)]) /\ i = Len(argv) + 1
      /\ Heard(argv, i, config) /\ config \in Config
  <2>1. i \in Nat /\ Len(argv) \in Nat BY DEF Base
  <2> QED BY <2>1 DEF Base, ParseInv, ArgsDone
<1>2. config.quick_mode = (Given("--quick") # {})
  BY <1>1, ValueIs DEF Heard
<1>3. /\ QuickBuffer \in Nat \ {0} /\ DefaultBuffer \in Nat \ {0}
      /\ QuickTotal \in Nat \ {0} /\ DefaultTotal \in Nat \ {0}
  BY BenchmarkAssumption DEF BenchmarkAssumption
<1>4. /\ config'.sizes = IF config.quick_mode /\ ~config.sizes_overridden THEN QuickSizes
                                                                      ELSE config.sizes
      /\ config'.myfread_buffer_size =
            IF config.quick_mode /\ ~config.myfread_buffer_overridden THEN QuickBuffer
                                                        ELSE config.myfread_buffer_size
      /\ config'.write_total_bytes =
            IF config.quick_mode /\ ~config.write_total_overridden THEN QuickTotal
                                                        ELSE config.write_total_bytes
  BY <1>1 DEF ArgsDone, Config
<1>5. config'.sizes = Value("--sizes", Default(QuickSizes, DefaultSizes))
  <2>1. Says(argv, i, "--sizes", config.sizes_overridden, config.sizes, DefaultSizes)
    BY <1>1 DEF Heard
  <2>2. CASE config.sizes_overridden
    <3>1. PICK n \in 1 .. i - 1 : /\ Latest(argv, i, "--sizes", n)
                                  /\ config.sizes = argv[n].val
      BY <2>1, <2>2 DEF Says, Piece
    <3> QED BY <1>1, <1>4, <2>2, <3>1, ValueIs
  <2>3. CASE ~config.sizes_overridden
    <3>1. Given("--sizes") = {} /\ config.sizes = DefaultSizes
      BY <1>1, <2>1, <2>3, ValueIs DEF Says
    <3>2. Value("--sizes", Default(QuickSizes, DefaultSizes))
             = Default(QuickSizes, DefaultSizes)
      BY <3>1 DEF Value
    <3> QED BY <1>2, <1>4, <2>3, <3>1, <3>2 DEF Default
  <2> QED BY <2>2, <2>3
<1>6. Capacity' = Value("--myfread-buffer", <<Default(QuickBuffer, DefaultBuffer)>>)[1]
  <2>1. Says(argv, i, "--myfread-buffer", config.myfread_buffer_overridden,
             config.myfread_buffer_size, 0)
    BY <1>1 DEF Heard
  <2>2. CASE config.myfread_buffer_overridden
    <3>1. PICK n \in 1 .. i - 1 : /\ Latest(argv, i, "--myfread-buffer", n)
                                  /\ config.myfread_buffer_size = argv[n].val[1]
                                  /\ config.myfread_buffer_size > 0
      BY <2>1, <2>2 DEF Says, Piece
    <3>2. config'.myfread_buffer_size = argv[n].val[1]
          /\ ~(config'.myfread_buffer_size = 0)
      BY <1>4, <2>2, <3>1
    <3>3. Value("--myfread-buffer", <<Default(QuickBuffer, DefaultBuffer)>>) = argv[n].val
      BY <1>1, <3>1, ValueIs
    <3> QED BY <3>2, <3>3 DEF Capacity
  <2>3. CASE ~config.myfread_buffer_overridden
    <3>1. Given("--myfread-buffer") = {} /\ config.myfread_buffer_size = 0
      BY <1>1, <2>1, <2>3, ValueIs DEF Says
    <3>2. Value("--myfread-buffer", <<Default(QuickBuffer, DefaultBuffer)>>)
             = <<Default(QuickBuffer, DefaultBuffer)>>
      BY <3>1 DEF Value
    <3>3. Capacity' = Default(QuickBuffer, DefaultBuffer)
      BY <1>2, <1>3, <1>4, <2>3, <3>1 DEF Default, Capacity
    <3> QED BY <3>2, <3>3
  <2> QED BY <2>2, <2>3
<1>7. WriteTotal' = Value("--write-total-bytes", <<Default(QuickTotal, DefaultTotal)>>)[1]
  <2>1. Says(argv, i, "--write-total-bytes", config.write_total_overridden,
             config.write_total_bytes, 0)
    BY <1>1 DEF Heard
  <2>2. CASE config.write_total_overridden
    <3>1. PICK n \in 1 .. i - 1 : /\ Latest(argv, i, "--write-total-bytes", n)
                                  /\ config.write_total_bytes = argv[n].val[1]
                                  /\ config.write_total_bytes > 0
      BY <2>1, <2>2 DEF Says, Piece
    <3>2. config'.write_total_bytes = argv[n].val[1]
          /\ ~(config'.write_total_bytes = 0)
      BY <1>4, <2>2, <3>1
    <3>3. Value("--write-total-bytes", <<Default(QuickTotal, DefaultTotal)>>) = argv[n].val
      BY <1>1, <3>1, ValueIs
    <3> QED BY <3>2, <3>3 DEF WriteTotal
  <2>3. CASE ~config.write_total_overridden
    <3>1. Given("--write-total-bytes") = {} /\ config.write_total_bytes = 0
      BY <1>1, <2>1, <2>3, ValueIs DEF Says
    <3>2. Value("--write-total-bytes", <<Default(QuickTotal, DefaultTotal)>>)
             = <<Default(QuickTotal, DefaultTotal)>>
      BY <3>1 DEF Value
    <3>3. WriteTotal' = Default(QuickTotal, DefaultTotal)
      BY <1>2, <1>3, <1>4, <2>3, <3>1 DEF Default, WriteTotal
    <3> QED BY <3>2, <3>3
  <2> QED BY <2>2, <2>3
<1> QED BY <1>5, <1>6, <1>7

\* The benchmarks run with the values given on the command line, the last one of
\* each option, wherever --quick stands (lines 206-275 and 607-608).
THEOREM ExplicitWinsCorrect == Spec => ExplicitWins
<1>1. Base /\ ParseInv /\ [Next]_vars =>
        [pc = "parse" /\ pc' = "open" =>
          /\ config'.sizes = Value("--sizes", Default(QuickSizes, DefaultSizes))
          /\ Capacity' = Value("--myfread-buffer",
                               <<Default(QuickBuffer, DefaultBuffer)>>)[1]
          /\ WriteTotal' = Value("--write-total-bytes",
                                 <<Default(QuickTotal, DefaultTotal)>>)[1]]_vars
  <2> SUFFICES ASSUME Base, ParseInv, [Next]_vars, pc = "parse", pc' = "open" PROVE ArgsDone
    BY DoneStep
  <2> QED
    BY DEF Next, Parse, ArgSizes, ArgBuffer, ArgTotal, ArgQuick, ArgPath, ArgHelp, ArgBad,
           ArgsNoInput, Accept, Die, Run, NextPhase, Skip, Open, Read, ReadEnd, Getc, GetcEnd,
           Fread, Refill, Copy, Return, Write, Close, Unlink, Running, CallFails, OpenFails,
           ReadFails, WriteFails, CloseFails, UnlinkFails, Fail, Kill, Rerun, vars
<1> QED BY <1>1, BaseInit, BaseStep, ParseInit, ParseStep, PTL DEF Spec, ExplicitWins

----------------------------------------------------------------------------
(* The plan.  Its parts are built up by recursive functions; what they are is *)
(* proved by the following induction.                                         *)

\* Induction up to n, from the fact that no finite set has an injection into
\* itself that misses an element: adding one would be such an injection.
LEMMA Induct ==
    ASSUME NEW n \in Nat, NEW S, 0 \in S, \A j \in 0 .. n - 1 : j \in S => j + 1 \in S
    PROVE  \A j \in 0 .. n : j \in S
<1> SUFFICES ASSUME NEW m \in 0 .. n, m \notin S PROVE FALSE
  OBVIOUS
<1> DEFINE T == S \cap (0 .. m)
           f == [j \in T |-> j + 1]
<1>1. \A j \in T : j + 1 \in T OBVIOUS
<1>2. f \in [T -> T] BY <1>1
<1>3. \A j, l \in T : f[j] = f[l] => j = l OBVIOUS
<1>4. IsFiniteSet(T)
  <2>1. IsFiniteSet(0 .. m) BY FS_Interval
  <2>2. T \in SUBSET (0 .. m) OBVIOUS
  <2> HIDE DEF T
  <2> QED BY <2>1, <2>2, FS_Subset
<1>5. f \in Injection(T, T) BY <1>2, <1>3 DEF Injection, IsInjective
<1>6. f \in Surjection(T, T)
  <2> HIDE DEF T, f
  <2> QED BY <1>4, <1>5, FS_Injection
<1>7. 0 \in T OBVIOUS
<1>8. PICK j \in T : f[j] = 0 BY <1>6, <1>7 DEF Surjection
<1> QED BY <1>8

\* f[n] are the elements of r up to n, but for those at a place in D.
Collects(f, n, r, D) ==
    \A j \in 0 .. n : f[j] = IF j = 0 THEN << >>
                             ELSE IF j \in D THEN f[j - 1] ELSE Append(f[j - 1], r[j])

LEMMA CollectNext ==
    ASSUME NEW R, NEW n \in Nat, NEW r, r[n + 1] \in R, NEW D,
           NEW f \in [0 .. n -> Seq(R)], Collects(f, n, r, D)
    PROVE  \E g \in [0 .. n + 1 -> Seq(R)] : Collects(g, n + 1, r, D)
<1> DEFINE last == IF n + 1 \in D THEN f[n] ELSE Append(f[n], r[n + 1])
           g == [j \in 0 .. n + 1 |-> IF j = n + 1 THEN last ELSE f[j]]
<1>1. f[n] \in Seq(R) OBVIOUS
<1>2. last \in Seq(R) BY <1>1
<1>3. g[n + 1] = last /\ \A j \in 0 .. n : g[j] = f[j] OBVIOUS
<1>4. g \in [0 .. n + 1 -> Seq(R)]
  <2> HIDE DEF last
  <2> QED BY <1>2
<1>5. \A j \in 0 .. n : j # 0 => j - 1 \in 0 .. n OBVIOUS
<1>6. n \in 0 .. n /\ (n + 1) - 1 = n OBVIOUS
<1> HIDE DEF g
<1>7. Collects(g, n + 1, r, D)
  <2> SUFFICES ASSUME NEW j \in 0 .. n + 1
               PROVE  g[j] = IF j = 0 THEN << >>
                             ELSE IF j \in D THEN g[j - 1] ELSE Append(g[j - 1], r[j])
    BY DEF Collects
  <2>1. CASE j = n + 1
    <3>1. j # 0 /\ g[j - 1] = f[n] BY <1>3, <1>6, <2>1
    <3> QED BY <1>3, <2>1, <3>1
  <2>2. CASE j # n + 1
    <3>1. j \in 0 .. n BY <2>2
    <3> HIDE DEF last
    <3> QED BY <1>3, <1>5, <3>1 DEF Collects
  <2> QED BY <2>1, <2>2
<1> QED BY <1>4, <1>7

LEMMA CollectExists ==
    ASSUME NEW R, NEW N \in Nat, NEW r \in [1 .. N -> R], NEW D
    PROVE  \E f \in [0 .. N -> Seq(R)] : Collects(f, N, r, D)
<1> DEFINE S == {n \in 0 .. N : \E f \in [0 .. n -> Seq(R)] : Collects(f, n, r, D)}
<1>1. 0 \in S
  <2> DEFINE f == [j \in 0 .. 0 |-> << >>]
  <2>1. << >> \in Seq(R) OBVIOUS
  <2>2. f \in [0 .. 0 -> Seq(R)] BY <2>1
  <2>3. \A j \in 0 .. 0 : j = 0 /\ f[j] = << >> OBVIOUS
  <2> HIDE DEF f
  <2>4. Collects(f, 0, r, D) BY <2>3 DEF Collects
  <2> QED BY <2>2, <2>4
<1>2. \A n \in 0 .. N - 1 : n \in S => n + 1 \in S
  <2> SUFFICES ASSUME NEW n \in 0 .. N - 1, n \in S PROVE n + 1 \in S
    OBVIOUS
  <2>1. PICK f \in [0 .. n -> Seq(R)] : Collects(f, n, r, D) OBVIOUS
  <2>2. n \in Nat /\ n + 1 \in 0 .. N /\ r[n + 1] \in R OBVIOUS
  <2>3. \E g \in [0 .. n + 1 -> Seq(R)] : Collects(g, n + 1, r, D)
    BY <2>1, <2>2, CollectNext
  <2> QED BY <2>2, <2>3
<1>3. N \in S
  <2> HIDE DEF S
  <2>1. \A n \in 0 .. N : n \in S BY <1>1, <1>2, Induct
  <2> QED BY <2>1
<1> QED BY <1>3

RowSet == [method : {Phases[p] : p \in DOMAIN Phases}, chunk : Nat, total : Nat]
IsMethod(m) == m \in {Phases[p] : p \in DOMAIN Phases}

\* The places of the sizes that are too small to be written.
Dropped(m, sizes) == {n \in 1 .. Len(sizes) : Writes(m) /\ sizes[n] < MinWriteChunk}
RowFor(m, c, amount) == [method |-> m, chunk |-> c, total |-> amount]

\* What the recursion adds with the n-th size.
WithRow(s, m, sizes, amount, n) ==
    IF Writes(m) /\ sizes[n] < MinWriteChunk THEN s ELSE Append(s, RowFor(m, sizes[n], amount))

\* The recursive function of the plan exists and obeys its recursion.
LEMMA RowsFacts ==
    ASSUME NEW m, IsMethod(m), NEW sizes \in Seq(Nat), NEW amount \in Nat
    PROVE  /\ RowsOf(m, sizes, amount) \in [0 .. Len(sizes) -> Seq(RowSet)]
           /\ RowsOf(m, sizes, amount)[0] = << >>
           /\ \A n \in 1 .. Len(sizes) :
                 RowsOf(m, sizes, amount)[n]
                    = WithRow(RowsOf(m, sizes, amount)[n - 1], m, sizes, amount, n)
<1> DEFINE N == Len(sizes)
           F == RowsOf(m, sizes, amount)
           r == [n \in 1 .. N |-> RowFor(m, sizes[n], amount)]
<1>1. N \in Nat OBVIOUS
<1>2. \A n \in 1 .. N : RowFor(m, sizes[n], amount) \in RowSet
  BY DEF RowFor, RowSet, IsMethod
<1>3. r \in [1 .. N -> RowSet] BY <1>2
<1>4. PICK f \in [0 .. N -> Seq(RowSet)] : Collects(f, N, r, Dropped(m, sizes))
  <2> HIDE DEF N, r
  <2> QED BY <1>1, <1>3, CollectExists
<1>5. ASSUME NEW n \in 0 .. N, n # 0
      PROVE  /\ (n \in Dropped(m, sizes)) = (Writes(m) /\ sizes[n] < MinWriteChunk)
             /\ r[n] = RowFor(m, sizes[n], amount)
  BY <1>1, <1>5 DEF Dropped
<1>6. f = [n \in 0 .. N |->
              IF n = 0 THEN << >>
              ELSE IF Writes(m) /\ sizes[n] < MinWriteChunk THEN f[n - 1]
              ELSE Append(f[n - 1], [method |-> m, chunk |-> sizes[n], total |-> amount])]
  <2> SUFFICES ASSUME NEW n \in 0 .. N
               PROVE  f[n] = IF n = 0 THEN << >>
                             ELSE IF Writes(m) /\ sizes[n] < MinWriteChunk THEN f[n - 1]
                             ELSE Append(f[n - 1], RowFor(m, sizes[n], amount))
    BY DEF RowFor
  <2> HIDE DEF N, r
  <2> QED BY <1>4, <1>5 DEF Collects
<1>7. F = [n \in 0 .. N |->
              IF n = 0 THEN << >>
              ELSE IF Writes(m) /\ sizes[n] < MinWriteChunk THEN F[n - 1]
              ELSE Append(F[n - 1], [method |-> m, chunk |-> sizes[n], total |-> amount])]
  BY <1>6 DEF RowsOf
<1> HIDE DEF F, N
<1>8. F[0] = << >> BY <1>1, <1>7
<1>9. ASSUME NEW n \in 1 .. N PROVE F[n] = WithRow(F[n - 1], m, sizes, amount, n)
  <2>1. n \in 0 .. N /\ n # 0 BY <1>1
  <2> QED BY <1>7, <2>1 DEF WithRow, RowFor
<1> DEFINE S == {n \in 0 .. N : F[n] \in Seq(RowSet)}
<1>10. 0 \in S
  <2>1. << >> \in Seq(RowSet) /\ 0 \in 0 .. N BY <1>1
  <2> QED BY <1>8, <2>1
<1>11. \A n \in 0 .. N - 1 : n \in S => n + 1 \in S
  <2> SUFFICES ASSUME NEW n \in 0 .. N - 1, F[n] \in Seq(RowSet)
               PROVE  n + 1 \in 0 .. N /\ F[n + 1] \in Seq(RowSet)
    OBVIOUS
  <2>1. n + 1 \in 1 .. N /\ n + 1 \in 0 .. N /\ (n + 1) - 1 = n BY <1>1
  <2>2. RowFor(m, sizes[n + 1], amount) \in RowSet BY <1>2, <2>1 DEF N
  <2>3. PICK e \in RowSet : F[n + 1] = F[n] \/ F[n + 1] = Append(F[n], e)
    BY <1>9, <2>1, <2>2 DEF WithRow
  <2>4. \A s \in Seq(RowSet) : Append(s, e) \in Seq(RowSet) OBVIOUS
  <2> QED BY <2>1, <2>3, <2>4
<1>12. \A n \in 0 .. N : F[n] \in Seq(RowSet)
  <2> HIDE DEF S
  <2>1. \A n \in 0 .. N : n \in S BY <1>1, <1>10, <1>11, Induct
  <2> QED BY <2>1 DEF S
<1>13. F \in [0 .. N -> Seq(RowSet)] BY <1>7, <1>12
<1> QED BY <1>8, <1>9, <1>13 DEF F, N

\* s is where t begins.
LEMMA PrefixIs ==
    ASSUME NEW R, NEW s \in Seq(R), NEW t \in Seq(R)
    PROVE  IsPrefix(s, t) <=> Len(s) <= Len(t) /\ \A j \in 1 .. Len(s) : s[j] = t[j]
<1> DEFINE n == Len(s)
<1>1. n \in Nat /\ SubSeq(s, 1, n) = s OBVIOUS
<1>2. ASSUME n <= Len(t)
      PROVE  /\ SubSeq(t, 1, n) \in Seq(R) /\ Len(SubSeq(t, 1, n)) = n
             /\ \A j \in 1 .. n : SubSeq(t, 1, n)[j] = t[j]
  BY <1>2
<1>3. ASSUME n <= Len(t), \A j \in 1 .. n : s[j] = t[j] PROVE s = SubSeq(t, 1, n)
  <2> PICK u \in Seq(R) : u = SubSeq(t, 1, n) BY <1>2, <1>3
  <2>1. Len(u) = n /\ \A j \in 1 .. n : u[j] = t[j] BY <1>2, <1>3
  <2>2. s = u BY <1>3, <2>1
  <2> QED BY <2>2
<1>4. ASSUME n <= Len(t), s = SubSeq(t, 1, n) PROVE \A j \in 1 .. n : s[j] = t[j]
  BY <1>2, <1>4
<1> QED BY <1>1, <1>3, <1>4 DEF IsPrefix

LEMMA PrefixSelf == ASSUME NEW R, NEW s \in Seq(R) PROVE IsPrefix(s, s)
BY PrefixIs

LEMMA PrefixTrans ==
    ASSUME NEW R, NEW s \in Seq(R), NEW t \in Seq(R), NEW u \in Seq(R),
           IsPrefix(s, t), IsPrefix(t, u)
    PROVE  IsPrefix(s, u)
<1>1. Len(s) <= Len(t) /\ \A j \in 1 .. Len(s) : s[j] = t[j] BY PrefixIs
<1>2. Len(t) <= Len(u) /\ \A j \in 1 .. Len(t) : t[j] = u[j] BY PrefixIs
<1>3. Len(s) \in Nat /\ Len(t) \in Nat /\ Len(u) \in Nat OBVIOUS
<1>4. Len(s) <= Len(u) /\ \A j \in 1 .. Len(s) : s[j] = u[j] BY <1>1, <1>2, <1>3
<1> QED BY <1>4, PrefixIs

LEMMA PrefixAppend ==
    ASSUME NEW R, NEW s \in Seq(R), NEW e \in R
    PROVE  Append(s, e) \in Seq(R) /\ IsPrefix(s, Append(s, e))
<1>1. /\ Append(s, e) \in Seq(R) /\ Len(Append(s, e)) = Len(s) + 1 /\ Len(s) \in Nat
      /\ \A j \in 1 .. Len(s) : Append(s, e)[j] = s[j]
  OBVIOUS
<1>2. PICK t : t = Append(s, e) OBVIOUS
<1>3. t \in Seq(R) /\ Len(s) <= Len(t) /\ \A j \in 1 .. Len(s) : s[j] = t[j]
  BY <1>1, <1>2
<1>4. IsPrefix(s, t) BY <1>3, PrefixIs
<1> QED BY <1>2, <1>3, <1>4

LEMMA JoinedTo ==
    ASSUME NEW R, NEW q \in Seq(R), NEW r \in Seq(R)
    PROVE  /\ q \o r \in Seq(R) /\ Len(q \o r) = Len(q) + Len(r)
           /\ \A m \in 1 .. Len(q) : (q \o r)[m] = q[m]
           /\ \A m \in Len(q) + 1 .. Len(q) + Len(r) : (q \o r)[m] = r[m - Len(q)]
OBVIOUS

LEMMA PrefixJoin ==
    ASSUME NEW R, NEW b \in Seq(R), NEW s \in Seq(R), NEW t \in Seq(R), IsPrefix(s, t)
    PROVE  /\ b \o s \in Seq(R) /\ b \o t \in Seq(R)
           /\ IsPrefix(b, b \o s) /\ IsPrefix(b \o s, b \o t)
<1>1. Len(s) <= Len(t) /\ \A j \in 1 .. Len(s) : s[j] = t[j] BY PrefixIs
<1>0. PICK u, v : u = b \o s /\ v = b \o t OBVIOUS
<1>2. /\ u \in Seq(R) /\ Len(u) = Len(b) + Len(s)
      /\ \A m \in 1 .. Len(b) : u[m] = b[m]
      /\ \A m \in Len(b) + 1 .. Len(b) + Len(s) : u[m] = s[m - Len(b)]
  BY <1>0, JoinedTo
<1>3. /\ v \in Seq(R) /\ Len(v) = Len(b) + Len(t)
      /\ \A m \in 1 .. Len(b) : v[m] = b[m]
      /\ \A m \in Len(b) + 1 .. Len(b) + Len(t) : v[m] = t[m - Len(b)]
  BY <1>0, JoinedTo
<1>4. Len(b) \in Nat /\ Len(s) \in Nat /\ Len(t) \in Nat OBVIOUS
<1>5. IsPrefix(b, u)
  <2>1. Len(b) <= Len(u) /\ \A m \in 1 .. Len(b) : b[m] = u[m] BY <1>2, <1>4
  <2> QED BY <1>2, <2>1, PrefixIs
<1>6. Len(u) <= Len(v) BY <1>1, <1>2, <1>3, <1>4
<1>7. ASSUME NEW j \in 1 .. Len(u) PROVE u[j] = v[j]
  <2>1. CASE j <= Len(b)
    <3>1. j \in 1 .. Len(b) BY <1>2, <1>4, <1>7, <2>1
    <3> QED BY <1>2, <1>3, <3>1
  <2>2. CASE j > Len(b)
    <3>1. j - Len(b) \in 1 .. Len(s) BY <1>2, <1>4, <1>7, <2>2
    <3>2. j \in Len(b) + 1 .. Len(b) + Len(s) /\ j \in Len(b) + 1 .. Len(b) + Len(t)
      BY <1>1, <1>2, <1>4, <1>7, <2>2
    <3>3. u[j] = s[j - Len(b)] /\ v[j] = t[j - Len(b)] BY <1>2, <1>3, <3>2
    <3> QED BY <1>1, <3>1, <3>3
  <2> QED BY <1>2, <1>4, <1>7, <2>1, <2>2
<1>8. IsPrefix(u, v) BY <1>2, <1>3, <1>6, <1>7, PrefixIs
<1> QED BY <1>0, <1>2, <1>3, <1>5, <1>8

\* The rows of the first sizes are where those of all begin.
LEMMA RowsPrefix ==
    ASSUME NEW m, IsMethod(m), NEW sizes \in Seq(Nat), NEW amount \in Nat,
           NEW j \in 0 .. Len(sizes)
    PROVE  IsPrefix(RowsOf(m, sizes, amount)[j], RowsOf(m, sizes, amount)[Len(sizes)])
<1> DEFINE N == Len(sizes)
           F == RowsOf(m, sizes, amount)
           S == {d \in 0 .. N - j : IsPrefix(F[j], F[j + d])}
<1>1. N \in Nat /\ j \in 0 .. N /\ N - j \in Nat OBVIOUS
<1>2. F \in [0 .. N -> Seq(RowSet)]
      /\ \A n \in 1 .. N : F[n] = WithRow(F[n - 1], m, sizes, amount, n)
  BY RowsFacts
<1>3. \A n \in 1 .. N : RowFor(m, sizes[n], amount) \in RowSet
  BY DEF RowFor, RowSet, IsMethod
<1> HIDE DEF F
<1>4. 0 \in S
  <2>1. j + 0 = j /\ F[j] \in Seq(RowSet) BY <1>1, <1>2
  <2>2. IsPrefix(F[j], F[j]) BY <2>1, PrefixSelf
  <2> QED BY <1>1, <2>1, <2>2
<1> HIDE DEF N
<1>5. \A d \in 0 .. (N - j) - 1 : d \in S => d + 1 \in S
  <2> SUFFICES ASSUME NEW d \in 0 .. (N - j) - 1, IsPrefix(F[j], F[j + d])
               PROVE  d + 1 \in 0 .. N - j /\ IsPrefix(F[j], F[j + (d + 1)])
    OBVIOUS
  <2>1. PICK n \in 1 .. N : n = j + (d + 1) /\ n - 1 = j + d /\ n - 1 \in 0 .. N /\ n \in 0 .. N
    BY <1>1
  <2>2. F[j] \in Seq(RowSet) /\ F[n - 1] \in Seq(RowSet) /\ F[n] \in Seq(RowSet)
    BY <1>1, <1>2, <2>1
  <2>3. IsPrefix(F[n - 1], F[n])
    <3>1. PICK e \in RowSet : F[n] = F[n - 1] \/ F[n] = Append(F[n - 1], e)
      BY <1>2, <1>3, <2>1 DEF WithRow
    <3>2. PICK t : t = Append(F[n - 1], e) OBVIOUS
    <3>3. IsPrefix(F[n - 1], t) /\ IsPrefix(F[n - 1], F[n - 1])
      BY <2>2, <3>2, PrefixSelf, PrefixAppend
    <3> QED BY <3>1, <3>2, <3>3
  <2>4. IsPrefix(F[j], F[n - 1]) BY <2>1
  <2>5. IsPrefix(F[j], F[n]) BY <2>2, <2>3, <2>4, PrefixTrans
  <2>6. d + 1 \in 0 .. N - j BY <1>1
  <2> QED BY <2>1, <2>5, <2>6
<1>6. N - j \in S
  <2> HIDE DEF S
  <2>1. \A d \in 0 .. N - j : d \in S BY <1>1, <1>4, <1>5, Induct
  <2> QED BY <1>1, <2>1
<1>7. j + (N - j) = N BY <1>1
<1> QED BY <1>6, <1>7 DEF F, N

\* f[n] are the first n parts of s, one after the other.
Joins(f, n, s) ==
    \A p \in 1 .. n : f[p] = IF p = 1 THEN s[p] ELSE f[p - 1] \o s[p]

LEMMA JoinNext ==
    ASSUME NEW R, NEW n \in Nat \ {0}, NEW s, s[n + 1] \in Seq(R),
           NEW f \in [1 .. n -> Seq(R)], Joins(f, n, s)
    PROVE  \E g \in [1 .. n + 1 -> Seq(R)] : Joins(g, n + 1, s)
<1> DEFINE last == f[n] \o s[n + 1]
           g == [p \in 1 .. n + 1 |-> IF p = n + 1 THEN last ELSE f[p]]
<1>1. f[n] \in Seq(R) OBVIOUS
<1>2. last \in Seq(R) BY <1>1, JoinedTo
<1>3. g[n + 1] = last /\ \A p \in 1 .. n : g[p] = f[p]
  <2> HIDE DEF last
  <2>1. n + 1 \in 1 .. n + 1 /\ \A p \in 1 .. n : p \in 1 .. n + 1 /\ p # n + 1 OBVIOUS
  <2> QED BY <2>1
<1>4. g \in [1 .. n + 1 -> Seq(R)]
  <2> HIDE DEF last
  <2> QED BY <1>2
<1>5. \A p \in 1 .. n : p # 1 => p - 1 \in 1 .. n OBVIOUS
<1>6. n \in 1 .. n /\ (n + 1) - 1 = n /\ n + 1 # 1 OBVIOUS
<1> HIDE DEF g
<1>7. Joins(g, n + 1, s)
  <2> SUFFICES ASSUME NEW p \in 1 .. n + 1
               PROVE  g[p] = IF p = 1 THEN s[p] ELSE g[p - 1] \o s[p]
    BY DEF Joins
  <2>1. CASE p = n + 1
    <3>1. p # 1 /\ g[p - 1] = f[n] BY <1>3, <1>6, <2>1
    <3> QED BY <1>3, <2>1, <3>1
  <2>2. CASE p # n + 1
    <3>1. p \in 1 .. n BY <2>2
    <3> HIDE DEF last
    <3> QED BY <1>3, <1>5, <3>1 DEF Joins
  <2> QED BY <2>1, <2>2
<1> QED BY <1>4, <1>7

LEMMA JoinExists ==
    ASSUME NEW R, NEW K \in Nat \ {0}, NEW s \in [1 .. K -> Seq(R)]
    PROVE  \E f \in [1 .. K -> Seq(R)] : Joins(f, K, s)
<1> DEFINE S == {n \in 0 .. K : n = 0 \/ \E f \in [1 .. n -> Seq(R)] : Joins(f, n, s)}
<1>1. 0 \in S OBVIOUS
<1>2. \A n \in 0 .. K - 1 : n \in S => n + 1 \in S
  <2> SUFFICES ASSUME NEW n \in 0 .. K - 1, n \in S PROVE n + 1 \in S
    OBVIOUS
  <2>1. n + 1 \in 0 .. K /\ s[n + 1] \in Seq(R) OBVIOUS
  <2>2. CASE n = 0
    <3> DEFINE f == [p \in 1 .. 1 |-> s[1]]
    <3>1. s[1] \in Seq(R) BY <2>2, <2>1
    <3>2. f \in [1 .. 1 -> Seq(R)] BY <3>1
    <3>3. \A p \in 1 .. 1 : p = 1 /\ f[p] = s[1] OBVIOUS
    <3> HIDE DEF f
    <3>4. Joins(f, 1, s) BY <3>3 DEF Joins
    <3>5. n + 1 = 1 BY <2>2
    <3> QED BY <2>1, <3>2, <3>4, <3>5
  <2>3. CASE n # 0
    <3>1. PICK f \in [1 .. n -> Seq(R)] : Joins(f, n, s) BY <2>3
    <3>2. n \in Nat \ {0} BY <2>3
    <3>3. \E g \in [1 .. n + 1 -> Seq(R)] : Joins(g, n + 1, s)
      BY <2>1, <3>1, <3>2, JoinNext
    <3> QED BY <2>1, <3>3
  <2> QED BY <2>2, <2>3
<1>3. K \in S
  <2> HIDE DEF S
  <2>1. \A n \in 0 .. K : n \in S BY <1>1, <1>2, Induct
  <2> QED BY <2>1
<1> QED BY <1>3

\* b[p] is what precedes part p of the K parts of s.
Starts(b, s, K) ==
    /\ b \in [1 .. K + 1 -> Seq(RowSet)] /\ b[1] = << >>
    /\ \A p \in 1 .. K : b[p + 1] = b[p] \o s[p]
    /\ b[K + 1] = FlattenSeq(s)

Before(s) == CHOOSE b : Starts(b, s, Len(s))

LEMMA JoinEmpty ==
    ASSUME NEW R, NEW s \in Seq(R)
    PROVE  << >> \o s = s /\ s \o << >> = s
OBVIOUS

LEMMA StartsFacts ==
    ASSUME NEW K \in Nat \ {0}, NEW s \in [1 .. K -> Seq(RowSet)]
    PROVE  Starts(Before(s), s, K)
<1>1. Len(s) = K OBVIOUS
<1> SUFFICES \E b : Starts(b, s, K)
  BY <1>1 DEF Before
<1> DEFINE F == CHOOSE f : f = [p \in 1 .. K |-> IF p = 1 THEN s[p] ELSE f[p - 1] \o s[p]]
<1>2. PICK g \in [1 .. K -> Seq(RowSet)] : Joins(g, K, s) BY JoinExists
<1>3. g = [p \in 1 .. K |-> IF p = 1 THEN s[p] ELSE g[p - 1] \o s[p]]
  BY <1>2 DEF Joins
<1>4. F = [p \in 1 .. K |-> IF p = 1 THEN s[p] ELSE F[p - 1] \o s[p]]
  BY <1>3
<1>5. FlattenSeq(s) = F[K]
  BY <1>1 DEF FlattenSeq
<1> HIDE DEF F
<1>6. \A p \in 1 .. K : F[p] = IF p = 1 THEN s[p] ELSE F[p - 1] \o s[p] BY <1>4
<1> DEFINE S == {n \in 0 .. K : n = 0 \/ F[n] \in Seq(RowSet)}
<1>7. 0 \in S OBVIOUS
<1>8. \A n \in 0 .. K - 1 : n \in S => n + 1 \in S
  <2> SUFFICES ASSUME NEW n \in 0 .. K - 1, n = 0 \/ F[n] \in Seq(RowSet)
               PROVE  n + 1 \in 0 .. K /\ F[n + 1] \in Seq(RowSet)
    OBVIOUS
  <2>1. PICK p \in 1 .. K : p = n + 1 /\ p - 1 = n /\ p \in 0 .. K OBVIOUS
  <2>2. s[p] \in Seq(RowSet) OBVIOUS
  <2>3. CASE p = 1 BY <1>6, <2>1, <2>2, <2>3
  <2>4. CASE p # 1
    <3>1. F[p - 1] \in Seq(RowSet) BY <2>1, <2>4
    <3>2. F[p - 1] \o s[p] \in Seq(RowSet) BY <2>2, <3>1, JoinedTo
    <3> QED BY <1>6, <2>1, <2>4, <3>2
  <2> QED BY <2>3, <2>4
<1>9. \A p \in 1 .. K : F[p] \in Seq(RowSet)
  <2> HIDE DEF S
  <2>1. \A n \in 0 .. K : n \in S BY <1>7, <1>8, Induct
  <2> QED BY <2>1 DEF S
<1> DEFINE b == [p \in 1 .. K + 1 |-> IF p = 1 THEN << >> ELSE F[p - 1]]
<1>10. << >> \in Seq(RowSet) OBVIOUS
<1>11. b \in [1 .. K + 1 -> Seq(RowSet)]
  <2>1. \A p \in 1 .. K + 1 : p # 1 => p - 1 \in 1 .. K OBVIOUS
  <2> QED BY <1>9, <1>10, <2>1
<1>12. b[1] = << >> /\ \A p \in 1 .. K : b[p + 1] = F[p] OBVIOUS
<1>13. \A p \in 1 .. K : p # 1 => b[p] = F[p - 1] OBVIOUS
<1> HIDE DEF b
<1>14. ASSUME NEW p \in 1 .. K PROVE b[p + 1] = b[p] \o s[p]
  <2>1. b[p + 1] = F[p] BY <1>12
  <2>2. CASE p = 1
    <3>1. << >> \o s[1] = s[1]
      <4>1. s[1] \in Seq(RowSet) OBVIOUS
      <4> QED BY <4>1, JoinEmpty
    <3>2. F[p] = s[1] BY <1>6, <2>2
    <3> QED BY <1>12, <2>1, <2>2, <3>1, <3>2
  <2>3. CASE p # 1 BY <1>6, <1>13, <2>1, <2>3
  <2> QED BY <2>2, <2>3
<1>15. b[K + 1] = F[K] BY <1>12
<1> QED BY <1>5, <1>11, <1>12, <1>14, <1>15 DEF Starts

\* Each part with what precedes it is where the whole begins.
LEMMA StartsPrefix ==
    ASSUME NEW K \in Nat \ {0}, NEW s \in [1 .. K -> Seq(RowSet)], NEW p \in 1 .. K
    PROVE  /\ Before(s)[p] \in Seq(RowSet) /\ FlattenSeq(s) \in Seq(RowSet)
           /\ Before(s)[p] \o s[p] \in Seq(RowSet)
           /\ IsPrefix(Before(s)[p] \o s[p], FlattenSeq(s))
<1>1. PICK b : b = Before(s) OBVIOUS
<1>2. Starts(b, s, K) BY <1>1, StartsFacts
<1>3. b \in [1 .. K + 1 -> Seq(RowSet)] /\ b[K + 1] = FlattenSeq(s)
      /\ \A n \in 1 .. K : b[n + 1] = b[n] \o s[n]
  BY <1>2 DEF Starts
<1>4. ASSUME NEW n \in 1 .. K
      PROVE  b[n] \in Seq(RowSet) /\ b[n + 1] \in Seq(RowSet) /\ IsPrefix(b[n], b[n + 1])
  <2>1. n \in 1 .. K + 1 /\ n + 1 \in 1 .. K + 1 OBVIOUS
  <2>2. b[n] \in Seq(RowSet) /\ b[n + 1] \in Seq(RowSet) /\ s[n] \in Seq(RowSet)
    BY <1>3, <2>1
  <2>3. IsPrefix(b[n], b[n] \o s[n]) BY <2>2, PrefixSelf, PrefixJoin
  <2> QED BY <1>3, <2>2, <2>3
<1> DEFINE S == {d \in 0 .. K - p : IsPrefix(b[(K + 1) - d], b[K + 1])}
<1>5. b[K + 1] \in Seq(RowSet)
  <2>1. K + 1 \in 1 .. K + 1 OBVIOUS
  <2> QED BY <1>3, <2>1
<1>6. 0 \in S
  <2>1. (K + 1) - 0 = K + 1 /\ 0 \in 0 .. K - p OBVIOUS
  <2> QED BY <1>5, <2>1, PrefixSelf
<1>7. \A d \in 0 .. (K - p) - 1 : d \in S => d + 1 \in S
  <2> SUFFICES ASSUME NEW d \in 0 .. (K - p) - 1, IsPrefix(b[(K + 1) - d], b[K + 1])
               PROVE  d + 1 \in 0 .. K - p /\ IsPrefix(b[(K + 1) - (d + 1)], b[K + 1])
    OBVIOUS
  <2>1. PICK n \in 1 .. K : n = (K + 1) - (d + 1) /\ n + 1 = (K + 1) - d
    OBVIOUS
  <2>2. IsPrefix(b[n + 1], b[K + 1]) BY <2>1
  <2>3. IsPrefix(b[n], b[K + 1]) BY <1>4, <1>5, <2>2, PrefixTrans
  <2>4. d + 1 \in 0 .. K - p OBVIOUS
  <2> QED BY <2>1, <2>3, <2>4
<1>8. IsPrefix(b[p + 1], b[K + 1])
  <2>1. K - p \in Nat /\ (K + 1) - (K - p) = p + 1 OBVIOUS
  <2> HIDE DEF S
  <2>2. \A d \in 0 .. K - p : d \in S BY <1>6, <1>7, <2>1, Induct
  <2>3. K - p \in S BY <2>1, <2>2
  <2> QED BY <2>1, <2>3 DEF S
<1>9. b[p + 1] = b[p] \o s[p] /\ b[p + 1] \in Seq(RowSet) /\ b[p] \in Seq(RowSet)
  BY <1>3, <1>4
<1> QED BY <1>1, <1>3, <1>5, <1>8, <1>9

----------------------------------------------------------------------------
(* The totals, and the rows made of them. *)

\* A read benchmark has counted what it has read, a write benchmark no more than
\* the workload.
TotalInv ==
    /\ pc = "run" /\ Reads =>
          /\ total \in Nat /\ pos \in Nat /\ pos <= size
          /\ Method # "my_fread" => pos = total
    /\ pc = "run" /\ ~Reads => total \in Nat /\ total <= WriteTotal
    /\ pc = "unlink" => total = WriteTotal

LEMMA WriteTotalType == Base => WriteTotal \in Nat /\ size \in Nat
BY BenchmarkAssumption DEF BenchmarkAssumption, Base, Config, WriteTotal

LEMMA LeastIs ==
    ASSUME NEW a \in Nat, NEW b \in Nat
    PROVE  Least(a, b) \in Nat /\ Least(a, b) <= a /\ Least(a, b) <= b
           /\ (Least(a, b) = a \/ Least(a, b) = b)
BY DEF Least

LEMMA TotalStays ==
    ASSUME TotalInv, UNCHANGED <<pc, phase, config, size, total, pos>>
    PROVE  TotalInv'
BY DEF TotalInv, Reads, Method, WriteTotal

LEMMA TotalStep == Base /\ FreadInv /\ TotalInv /\ [Next]_vars => TotalInv'
<1> SUFFICES ASSUME Base, FreadInv, TotalInv, [Next]_vars PROVE TotalInv'
  OBVIOUS
<1>1. CASE Open
  <2>1. /\ pc' = "run" /\ total' = 0 /\ pos' = 0 /\ UNCHANGED <<phase, config, size>>
    BY <1>1 DEF Open, loopVars, parseVars
  <2>2. WriteTotal \in Nat /\ size \in Nat BY WriteTotalType
  <2> QED BY <2>1, <2>2 DEF TotalInv, Reads, Method, WriteTotal
<1>2. CASE Read \/ Getc \/ Fread
  <2>1. /\ Reads /\ Method # "my_fread" /\ pc = "run" /\ UNCHANGED <<config, size, phase>>
    BY <1>2 DEF Read, Getc, Fread, Running, Reads, loopVars, parseVars, Finish
  <2>2. total \in Nat /\ pos = total /\ pos <= size /\ size \in Nat
    BY <2>1, WriteTotalType DEF TotalInv
  <2>3. chunk \in Nat BY <2>1, ChunkType DEF Base
  <2>4. PICK n \in Nat : total' = total + n /\ pos' = pos + n /\ n <= size - pos
    <3> HIDE DEF chunk
    <3>1. size - pos \in Nat BY <2>2
    <3>2. CASE Read
      <4>1. Least(chunk, size - pos) \in Nat /\ Least(chunk, size - pos) <= size - pos
        BY <2>3, <3>1, LeastIs
      <4>2. PICK n \in 1 .. Least(chunk, size - pos) : total' = total + n /\ pos' = pos + n
        BY <3>2 DEF Read
      <4>3. n \in Nat /\ n <= size - pos BY <3>1, <4>1, <4>2
      <4> QED BY <4>2, <4>3
    <3>3. CASE Getc
      <4>1. total' = total + 1 /\ pos' = pos + 1 /\ pos < size BY <3>3 DEF Getc
      <4>2. 1 \in Nat /\ 1 <= size - pos BY <2>2, <4>1
      <4> QED BY <4>1, <4>2
    <3>4. CASE Fread BY <2>3, <3>1, <3>4, LeastIs DEF Fread
    <3> QED BY <1>2, <3>2, <3>3, <3>4
  <2>5. total' \in Nat /\ pos' = total' /\ pos' <= size BY <2>2, <2>4
  <2>6. pc' \in {"run", "open"} BY <1>2, <2>1 DEF Read, Getc, Fread, Finish
  <2>7. Reads' /\ Method' = Method BY <2>1 DEF Reads, Method
  <2> QED BY <2>1, <2>5, <2>6, <2>7 DEF TotalInv
<1>3. CASE Refill \/ Copy \/ Return
  <2>1. /\ Reads /\ Method = "my_fread" /\ pc = "run" /\ UNCHANGED <<config, size, phase>>
        /\ pc' \in {"run", "open"}
    BY <1>3 DEF Refill, Copy, Return, Running, Reads, loopVars, parseVars, Finish
  <2>2. total \in Nat /\ pos \in Nat /\ pos <= size /\ size \in Nat
    BY <2>1, WriteTotalType DEF TotalInv
  <2>3. total' \in Nat
    <3>1. dest \in Seq(Nat) BY <2>1 DEF FreadInv, Freading, FreadType
    <3>2. total' = total \/ total' = total + Len(dest)
      BY <1>3 DEF Refill, Copy, Return
    <3>3. Len(dest) \in Nat BY <3>1
    <3> QED BY <2>2, <3>2, <3>3
  <2>4. pos' \in Nat /\ pos' <= size
    <3>1. CASE Refill
      <4>1. Capacity \in Nat /\ size - pos \in Nat BY <2>2, CapacityType
      <4>2. PICK l : l = Least(Capacity, size - pos) OBVIOUS
      <4>3. l \in Nat /\ l <= size - pos BY <4>1, <4>2, LeastIs
      <4>4. PICK n \in 1 .. l : pos' = pos + n BY <3>1, <4>2 DEF Refill
      <4> QED BY <2>2, <4>3, <4>4
    <3>2. CASE Copy \/ Return BY <2>2, <3>2 DEF Copy, Return
    <3> QED BY <1>3, <3>1, <3>2
  <2>5. Reads' /\ Method' = Method BY <2>1 DEF Reads, Method
  <2> QED BY <2>1, <2>3, <2>4, <2>5 DEF TotalInv
<1>4. CASE Write
  <2>1. /\ ~Reads /\ pc = "run" /\ pc' = "run" /\ UNCHANGED <<config, size, phase>>
        /\ total < WriteTotal
    BY <1>4, PhasesFacts DEF Write, Running, Reads, loopVars, parseVars
  <2>2. total \in Nat /\ WriteTotal \in Nat /\ chunk \in Nat
    BY <2>1, WriteTotalType, ChunkType DEF TotalInv, Base
  <2>3. PICK l : l = this_chunk OBVIOUS
  <2>4. l \in Nat /\ l <= WriteTotal - total
    <3>1. WriteTotal - total \in Nat BY <2>1, <2>2
    <3> QED BY <2>2, <2>3, <3>1, LeastIs DEF this_chunk
  <2>5. PICK n \in 1 .. l : total' = total + n BY <1>4, <2>3 DEF Write
  <2>6. total' \in Nat /\ total' <= WriteTotal BY <2>2, <2>4, <2>5
  <2>7. ~Reads' /\ WriteTotal' = WriteTotal BY <2>1 DEF Reads, Method, WriteTotal
  <2> QED BY <2>1, <2>6, <2>7 DEF TotalInv
<1>5. CASE Close
  <2>1. /\ ~Reads /\ pc = "run" /\ pc' = "unlink" /\ UNCHANGED <<config, total>>
        /\ total >= WriteTotal
    BY <1>5, PhasesFacts DEF Close, Running, Reads, loopVars, parseVars
  <2>2. total \in Nat /\ WriteTotal \in Nat /\ total <= WriteTotal
    BY <2>1, WriteTotalType DEF TotalInv
  <2>3. total = WriteTotal BY <2>1, <2>2
  <2>4. WriteTotal' = WriteTotal BY <2>1 DEF WriteTotal
  <2> QED BY <2>1, <2>3, <2>4 DEF TotalInv
<1>6. CASE Parse \/ NextPhase \/ Skip \/ ReadEnd \/ GetcEnd \/ Unlink \/ CallFails \/ Kill
             \/ Rerun
  <2>1. pc' \notin {"run", "unlink"}
    BY <1>6 DEF Parse, ArgSizes, ArgBuffer, ArgTotal, ArgQuick, ArgPath, ArgHelp, ArgBad,
                ArgsDone, ArgsNoInput, Has, Accept, Die, NextPhase, Skip, ReadEnd, GetcEnd,
                Unlink, Finish, CallFails, OpenFails, ReadFails, WriteFails, CloseFails,
                UnlinkFails, Fail, Kill, Rerun
  <2> QED BY <2>1 DEF TotalInv
<1>7. CASE UNCHANGED vars
  BY <1>7, TotalStays DEF vars, loopVars, parseVars, readVars
<1> QED BY <1>1, <1>2, <1>3, <1>4, <1>5, <1>6, <1>7 DEF Next, Run

\* The parts of the plan, and how far the benchmark at phase and k has come in it.
Parts == [p \in DOMAIN Phases |-> PlanOf(Phases[p])]

\* The rows of the CSV file, those that are still on their way included.
Rows == csv.file \o csv.buffer

Reached ==
    /\ k <= Len(SizesOf(Method)) + 1
    /\ Rows = Before(Parts)[phase]
                \o RowsOf(Method, SizesOf(Method), Amount(Method))[k - 1]

\* While no write of the CSV file has failed: its rows, and those still in the
\* buffer of the stream, are the ones up to phase and k.  Once one has failed it
\* stays so until the program is started again.
RowsTyped == csv.file \in Seq(RowSet) /\ csv.buffer \in Seq(RowSet)
RowsKept ==
    /\ RowsTyped
    /\ pc \in {"parse", "help"} =>
          phase = 1 /\ k = 1 /\ csv.file = << >> /\ csv.buffer = << >>
    /\ pc \in Active => Reached
    /\ pc = "exit" => csv.file = Plan
    /\ pc \in {"failed", "killed"} => IsPrefix(csv.file, Plan)

RowsInv == ~csv.failed => RowsKept

LEMMA SizesOfType ==
    ASSUME Base, NEW m
    PROVE  SizesOf(m) \in Seq(Nat) /\ Len(SizesOf(m)) \in Nat /\ Amount(m) \in Nat
<1>1. config.sizes \in Seq(Nat) BY DEF Base, Config
<1>2. <<1>> \in Seq(Nat) OBVIOUS
<1>3. SizesOf(m) \in Seq(Nat) BY <1>1, <1>2 DEF SizesOf
<1>4. Amount(m) \in Nat BY WriteTotalType DEF Amount
<1> HIDE DEF SizesOf
<1> QED BY <1>3, <1>4

LEMMA MethodIs ==
    ASSUME NEW p \in 1 .. 7
    PROVE  IsMethod(Phases[p])
BY PhasesFacts DEF IsMethod

LEMMA PartsType == Base => Parts \in [1 .. 7 -> Seq(RowSet)]
<1> SUFFICES ASSUME Base, NEW p \in 1 .. 7 PROVE PlanOf(Phases[p]) \in Seq(RowSet)
  BY PhasesFacts DEF Parts
<1>1. PICK m, s, a : m = Phases[p] /\ s = SizesOf(m) /\ a = Amount(m) OBVIOUS
<1>2. s \in Seq(Nat) /\ a \in Nat /\ IsMethod(m) BY <1>1, SizesOfType, MethodIs
<1>3. RowsOf(m, s, a) \in [0 .. Len(s) -> Seq(RowSet)] BY <1>2, RowsFacts
<1>4. RowsOf(m, s, a)[Len(s)] \in Seq(RowSet) BY <1>2, <1>3
<1> QED BY <1>1, <1>4 DEF PlanOf

\* The current method's sizes, amount and rows, and what precedes each part, with
\* what the recursions say of them.
Current(s, z, a, b, f) ==
    /\ s \in [1 .. 7 -> Seq(RowSet)] /\ s = Parts
    /\ b = Before(Parts) /\ Starts(b, s, 7)
    /\ z \in Seq(Nat) /\ z = SizesOf(Method)
    /\ a \in Nat /\ a = Amount(Method)
    /\ f = RowsOf(Method, SizesOf(Method), Amount(Method))
    /\ f \in [0 .. Len(z) -> Seq(RowSet)] /\ f[0] = << >>
    /\ \A n \in 1 .. Len(z) : f[n] = WithRow(f[n - 1], Method, z, a, n)
    /\ s[phase] = f[Len(z)]

LEMMA CurrentRows ==
    ASSUME Base
    PROVE  \E s, z, a, b, f : Current(s, z, a, b, f)
<1>1. PICK s, K : s = Parts /\ K = 7 /\ K \in Nat \ {0} OBVIOUS
<1>2. s \in [1 .. K -> Seq(RowSet)] BY <1>1, PartsType
<1>3. Starts(Before(s), s, K) BY <1>1, <1>2, StartsFacts
<1>4. PICK m, z, a : m = Method /\ z = SizesOf(Method) /\ a = Amount(Method) OBVIOUS
<1>5. IsMethod(m) /\ z \in Seq(Nat) /\ a \in Nat
  BY <1>4, SizesOfType, MethodIs DEF Method, Base
<1>6. PICK f : f = RowsOf(m, z, a) OBVIOUS
<1>7. /\ f \in [0 .. Len(z) -> Seq(RowSet)] /\ f[0] = << >>
      /\ \A n \in 1 .. Len(z) : f[n] = WithRow(f[n - 1], m, z, a, n)
  BY <1>5, <1>6, RowsFacts
<1>8. s[phase] = f[Len(z)]
  <2>1. phase \in DOMAIN Phases BY PhasesFacts DEF Base
  <2>2. Parts[phase] = PlanOf(Method) BY <2>1 DEF Parts, Method
  <2> QED BY <1>1, <1>4, <1>6, <2>2 DEF PlanOf
<1>9. Current(s, z, a, Before(s), f)
  BY <1>1, <1>2, <1>3, <1>4, <1>5, <1>6, <1>7, <1>8 DEF Current
<1> QED BY <1>9

\* The start, after the arguments and after every new start of the program.
LEMMA ReachedStart == Base /\ phase = 1 /\ k = 1 /\ Rows = << >> => Reached
<1> SUFFICES ASSUME Base, phase = 1, k = 1, Rows = << >> PROVE Reached
  OBVIOUS
<1>0. PICK s, z, a, b, f : Current(s, z, a, b, f) BY CurrentRows
<1>1. /\ z = SizesOf(Method) /\ b = Before(Parts) /\ Starts(b, s, 7)
      /\ f = RowsOf(Method, SizesOf(Method), Amount(Method))
      /\ f[0] = << >> /\ z \in Seq(Nat)
  BY <1>0 DEF Current
<1>2. b[1] = << >> /\ k - 1 = 0 /\ 1 <= Len(z) + 1 BY <1>1 DEF Starts
<1>3. Rows = b[phase] \o f[k - 1]
  <2>1. << >> \o << >> = << >> OBVIOUS
  <2> QED BY <1>1, <1>2, <2>1
<1> QED BY <1>1, <1>2, <1>3 DEF Reached

LEMMA ReachedStartNext ==
    (Base /\ phase = 1 /\ k = 1 /\ Rows = << >>)' => Reached'
BY ReachedStart, PTL

\* What Reached is made of does not change while the program runs.
LEMMA SameSettings ==
    ASSUME UNCHANGED <<config, size>>
    PROVE  /\ Parts' = Parts
           /\ UNCHANGED phase => /\ SizesOf(Method)' = SizesOf(Method)
                                 /\ Amount(Method)' = Amount(Method) /\ Method' = Method
<1>1. ASSUME NEW m PROVE SizesOf(m)' = SizesOf(m) /\ Amount(m)' = Amount(m)
  BY DEF SizesOf, Amount, WriteTotal
<1>2. ASSUME NEW m PROVE PlanOf(m)' = PlanOf(m)
  <2>1. PICK s, a : s = SizesOf(m) /\ a = Amount(m) /\ s = SizesOf(m)' /\ a = Amount(m)'
    BY <1>1
  <2> QED BY <2>1 DEF PlanOf
<1>3. Parts' = Parts BY <1>2 DEF Parts
<1>4. UNCHANGED phase => Method' = Method BY DEF Method
<1> QED BY <1>1, <1>3, <1>4 DEF SizesOf, Amount, WriteTotal

LEMMA ReachedStays ==
    ASSUME Reached, UNCHANGED <<config, size, phase, k, Rows>>
    PROVE  Reached'
BY SameSettings DEF Reached

\* A size that is skipped has no row in the plan, any other has one.
LEMMA ReachedNext ==
    ASSUME Base, Reached, k <= Len(Sizes), UNCHANGED <<config, size, phase>>, k' = k + 1,
           Rows' = IF Skipped THEN Rows ELSE Append(Rows, Row(Amount(Method)))
    PROVE  Reached'
<1>0. PICK s, z, a, b, f : Current(s, z, a, b, f) BY CurrentRows
<1>1. /\ z = SizesOf(Method) /\ a = Amount(Method) /\ b = Before(Parts)
      /\ f = RowsOf(Method, SizesOf(Method), Amount(Method))
      /\ z \in Seq(Nat) /\ b \in [1 .. 7 + 1 -> Seq(RowSet)] /\ f \in [0 .. Len(z) -> Seq(RowSet)]
      /\ \A n \in 1 .. Len(z) : f[n] = WithRow(f[n - 1], Method, z, a, n)
      /\ a \in Nat
  BY <1>0 DEF Current, Starts
<1>2. Rows = b[phase] \o f[k - 1] BY <1>1 DEF Reached
<1>3. Sizes = z /\ chunk = z[k] /\ Skipped = (Writes(Method) /\ z[k] < MinWriteChunk)
  <2>1. Sizes = z BY <1>1 DEF Sizes, SizesOf
  <2>2. Writes(Method) = ~Reads
    <3>1. Method \in {"read", "getc", "fgetc", "fread", "my_fread", "nosync", "osync"}
      BY DEF Method, Phases, Base
    <3> QED BY <3>1 DEF Writes, Reads
  <2> QED BY <2>1, <2>2 DEF chunk, Skipped
<1>4. k \in 1 .. Len(z) /\ k - 1 \in 0 .. Len(z) /\ phase \in 1 .. 7 + 1
  BY <1>1, <1>3 DEF Base
<1>5. PICK p, q : p = b[phase] /\ q = f[k - 1] /\ p \in Seq(RowSet) /\ q \in Seq(RowSet)
  BY <1>1, <1>4
<1>6. f[k] = IF Skipped THEN q ELSE Append(q, Row(a))
  <2>1. RowFor(Method, z[k], a) = Row(a) BY <1>3 DEF RowFor, Row
  <2>2. f[k] = WithRow(q, Method, z, a, k) BY <1>1, <1>4, <1>5
  <2> QED BY <1>3, <2>1, <2>2 DEF WithRow
<1>7. Rows' = p \o f[k]
  <2>1. CASE Skipped BY <1>2, <1>5, <1>6, <2>1
  <2>2. CASE ~Skipped
    <3>1. PICK e : e = Row(a) OBVIOUS
    <3>2. e \in RowSet
      <4>1. IsMethod(Method) BY MethodIs DEF Method, Base
      <4>2. z[k] \in Nat
        <5>1. z \in Seq(Nat) BY <1>1
        <5> QED BY <1>4, <5>1
      <4>3. Row(a) = [method |-> Method, chunk |-> z[k], total |-> a] BY <1>3 DEF Row
      <4> QED BY <1>1, <3>1, <4>1, <4>2, <4>3 DEF RowSet, IsMethod
    <3>3. Rows' = Append(p \o q, e) /\ f[k] = Append(q, e)
      BY <1>1, <1>2, <1>5, <1>6, <2>2, <3>1
    <3>4. Append(p \o q, e) = p \o Append(q, e)
      <4>1. p \in Seq(RowSet) /\ q \in Seq(RowSet) BY <1>5
      <4> HIDE DEF RowSet
      <4> QED BY <3>2, <4>1
    <3> QED BY <3>3, <3>4
  <2> QED BY <2>1, <2>2
<1>8. k' - 1 = k /\ k' <= Len(z) + 1 BY <1>1, <1>4
<1>9. /\ SizesOf(Method)' = z /\ Parts' = Parts /\ Method' = Method
      /\ RowsOf(Method, SizesOf(Method), Amount(Method))' = f
  BY <1>1, SameSettings
<1> QED BY <1>1, <1>5, <1>7, <1>8, <1>9 DEF Reached

\* All sizes of a method are done: what follows has the whole part before it.
LEMMA PhaseDone ==
    ASSUME Base, Reached, k > Len(Sizes)
    PROVE  /\ phase < 7 => Rows = Before(Parts)[phase + 1] /\ Rows \in Seq(RowSet)
           /\ phase = 7 => Rows = Plan
<1>0. PICK s, z, a, b, f : Current(s, z, a, b, f) BY CurrentRows
<1>1. /\ z = SizesOf(Method) /\ b = Before(Parts) /\ s = Parts
      /\ f = RowsOf(Method, SizesOf(Method), Amount(Method))
      /\ z \in Seq(Nat) /\ b \in [1 .. 7 + 1 -> Seq(RowSet)]
      /\ s[phase] = f[Len(z)] /\ \A n \in 1 .. 7 : b[n + 1] = b[n] \o s[n]
      /\ b[7 + 1] = FlattenSeq(s)
  BY <1>0 DEF Current, Starts
<1>2. Rows = b[phase] \o f[k - 1] /\ k <= Len(z) + 1 /\ Sizes = z
  BY <1>1 DEF Reached, Sizes, SizesOf
<1>3. k - 1 = Len(z) /\ phase \in 1 .. 7 /\ phase + 1 \in 1 .. 7 + 1
  <2>1. Len(z) \in Nat BY <1>1
  <2>2. k \in Nat \ {0} /\ phase \in 1 .. 7 BY DEF Base
  <2>3. k <= Len(z) + 1 /\ k > Len(z) BY <1>2
  <2>4. k - 1 = Len(z) BY <2>1, <2>2, <2>3
  <2> QED BY <2>2, <2>4
<1>4. Rows = b[phase + 1] BY <1>1, <1>2, <1>3
<1>5. b[phase + 1] \in Seq(RowSet) BY <1>1, <1>3
<1> QED BY <1>1, <1>4, <1>5 DEF Plan, Parts

LEMMA FirstRow ==
    Base /\ k = 1 => /\ k <= Len(SizesOf(Method)) + 1
                     /\ RowsOf(Method, SizesOf(Method), Amount(Method))[k - 1] = << >>
<1> SUFFICES ASSUME Base, k = 1
             PROVE  /\ k <= Len(SizesOf(Method)) + 1
                    /\ RowsOf(Method, SizesOf(Method), Amount(Method))[k - 1] = << >>
  OBVIOUS
<1>1. PICK s, z, a, b, f : Current(s, z, a, b, f) BY CurrentRows
<1>2. k - 1 = 0 /\ 1 <= Len(z) + 1 BY <1>1 DEF Current
<1> QED BY <1>1, <1>2 DEF Current

LEMMA ReachedPhase ==
    ASSUME Base, Base', Reached, NextPhase, phase < 7
    PROVE  Reached'
<1>1. Rows = Before(Parts)[phase + 1] /\ Rows \in Seq(RowSet)
  BY PhaseDone DEF NextPhase
<1>2. /\ UNCHANGED <<config, size, Rows>> /\ phase' = phase + 1 /\ k' = 1
  <2>1. UNCHANGED <<config, size, csv>> /\ phase' = phase + 1 /\ k' = 1
    BY PhasesFacts DEF NextPhase, parseVars
  <2>2. Rows' = Rows BY <2>1 DEF Rows
  <2> QED BY <2>1, <2>2
<1>3. Parts' = Parts BY <1>2, SameSettings
<1>4. Rows' = Before(Parts')[phase'] BY <1>1, <1>2, <1>3
<1>5. (/\ k <= Len(SizesOf(Method)) + 1
       /\ RowsOf(Method, SizesOf(Method), Amount(Method))[k - 1] = << >>)'
  <2>1. (Base /\ k = 1)' BY <1>2
  <2> QED BY <2>1, FirstRow, PTL
<1>6. Rows \o << >> = Rows BY <1>1, JoinEmpty
<1> QED BY <1>2, <1>4, <1>5, <1>6 DEF Reached

\* What every benchmark reports is the size of the file, or the workload.
LEMMA FinishedTotal ==
    ASSUME Base, FreadInv, TotalInv,
           ReadEnd \/ GetcEnd \/ (Fread /\ pc' # pc) \/ (Return /\ pc' # pc) \/ Unlink
    PROVE  /\ pc \in {"run", "unlink"} /\ UNCHANGED <<config, size, phase>>
           /\ Finish(Amount(Method))
<1>1. CASE ReadEnd \/ GetcEnd \/ (Fread /\ pc' # pc)
  <2>1. /\ Reads /\ Method # "my_fread" /\ pc = "run" /\ UNCHANGED <<config, size, phase>>
        /\ ~Writes(Method)
    BY <1>1 DEF ReadEnd, GetcEnd, Fread, Running, Reads, Writes, loopVars, parseVars, Finish
  <2>2. total \in Nat /\ pos = total /\ pos <= size /\ size \in Nat
    BY <2>1, WriteTotalType DEF TotalInv
  <2>3. Amount(Method) = size BY <2>1 DEF Amount
  <2>4. CASE ReadEnd \/ GetcEnd
    BY <2>1, <2>2, <2>3, <2>4 DEF ReadEnd, GetcEnd
  <2>5. CASE Fread /\ pc' # pc
    <3>1. PICK n : /\ n = Least(chunk, size - pos) /\ n < chunk /\ Finish(total + n)
      BY <2>5 DEF Fread, Short
    <3>2. chunk \in Nat /\ size - pos \in Nat BY <2>1, <2>2, ChunkType DEF Base
    <3>3. PICK c : c = chunk /\ c \in Nat BY <3>2
    <3>4. n = size - pos
      <4>1. n = c \/ n = size - pos BY <3>1, <3>2, <3>3, LeastIs
      <4>2. n \in Nat /\ n < c BY <3>1, <3>2, <3>3, LeastIs
      <4> QED BY <3>3, <4>1, <4>2
    <3>5. total + n = size BY <2>2, <3>4
    <3> QED BY <2>1, <2>3, <3>1, <3>5
  <2> QED BY <1>1, <2>4, <2>5
<1>2. CASE Return /\ pc' # pc
  <2>1. /\ Freading /\ Method = "my_fread" /\ UNCHANGED <<config, size, phase>>
        /\ Len(dest) < chunk /\ Finish(total + Len(dest)) /\ pc = "run"
        /\ (Len(dest) = chunk \/ (available = 0 /\ pos = size))
    BY <1>2 DEF Return, Running, Freading, Short, loopVars, parseVars, Finish
  <2>2. FreadType /\ pos = total + Len(dest) + available BY <2>1 DEF FreadInv, FreadInOrder, Freading
  <2>3. total \in Nat /\ Len(dest) \in Nat BY <2>2 DEF FreadType
  <2>4. chunk \in Nat BY <2>1, ChunkType DEF Base
  <2>5. available = 0 /\ pos = size
    <3>1. PICK c : c = chunk /\ c \in Nat BY <2>4
    <3> QED BY <2>1, <2>3, <3>1
  <2>6. total + Len(dest) = size BY <2>2, <2>3, <2>5
  <2>7. Amount(Method) = size BY <2>1 DEF Amount, Writes
  <2> QED BY <2>1, <2>6, <2>7
<1>3. CASE Unlink
  <2>1. ~Reads /\ pc = "unlink" /\ total = WriteTotal /\ Finish(total)
        /\ UNCHANGED <<config, size, phase>>
    BY <1>3 DEF Unlink, Base, TotalInv, parseVars, Finish
  <2>2. Method \in {"read", "getc", "fgetc", "fread", "my_fread", "nosync", "osync"}
    BY DEF Method, Phases, Base
  <2>3. Amount(Method) = WriteTotal BY <2>1, <2>2 DEF Amount, Writes, Reads
  <2> QED BY <2>1, <2>3
<1> QED BY <1>1, <1>2, <1>3

\* The rows so far are where the plan begins.
LEMMA ReachedPrefix == Base /\ Reached => IsPrefix(Rows, Plan)
<1> SUFFICES ASSUME Base, Reached PROVE IsPrefix(Rows, Plan)
  OBVIOUS
<1>0. PICK s, z, a, b, f : Current(s, z, a, b, f) BY CurrentRows
<1>1. /\ s \in [1 .. 7 -> Seq(RowSet)] /\ s = Parts /\ z = SizesOf(Method)
      /\ a = Amount(Method) /\ z \in Seq(Nat) /\ a \in Nat /\ b = Before(s)
      /\ f = RowsOf(Method, z, a) /\ f \in [0 .. Len(z) -> Seq(RowSet)]
      /\ s[phase] = f[Len(z)]
  BY <1>0 DEF Current
<1>2. Rows = b[phase] \o f[k - 1] /\ k <= Len(z) + 1 BY <1>1 DEF Reached
<1>3. Plan = FlattenSeq(s) BY <1>1 DEF Plan, Parts
<1>4. k - 1 \in 0 .. Len(z) /\ Len(z) \in 0 .. Len(z) /\ phase \in 1 .. 7
  <2>1. k \in Nat \ {0} /\ phase \in 1 .. 7 BY DEF Base
  <2>2. Len(z) \in Nat BY <1>1
  <2> QED BY <1>2, <2>1, <2>2
<1>5. PICK p, q, n : p = phase /\ n = Len(z) /\ q = k - 1 OBVIOUS
<1>6. /\ b[p] \in Seq(RowSet) /\ FlattenSeq(s) \in Seq(RowSet)
      /\ b[p] \o s[p] \in Seq(RowSet) /\ IsPrefix(b[p] \o s[p], FlattenSeq(s))
  <2>1. PICK K : K = 7 /\ K \in Nat \ {0} OBVIOUS
  <2>2. s \in [1 .. K -> Seq(RowSet)] /\ p \in 1 .. K BY <1>1, <1>4, <1>5, <2>1
  <2> QED BY <1>1, <2>1, <2>2, StartsPrefix
<1>7. f[q] \in Seq(RowSet) /\ f[n] \in Seq(RowSet) /\ IsPrefix(f[q], f[n])
  <2>1. IsMethod(Method) BY MethodIs DEF Method, Base
  <2>2. IsPrefix(RowsOf(Method, z, a)[q], RowsOf(Method, z, a)[Len(z)])
    BY <1>1, <1>4, <1>5, <2>1, RowsPrefix
  <2> QED BY <1>1, <1>4, <1>5, <2>2
<1>8. /\ b[p] \o f[q] \in Seq(RowSet) /\ b[p] \o f[n] \in Seq(RowSet)
      /\ IsPrefix(b[p] \o f[q], b[p] \o f[n])
  BY <1>6, <1>7, PrefixJoin
<1>9. s[p] = f[n] BY <1>1, <1>5
<1>10. IsPrefix(b[p] \o f[q], FlattenSeq(s)) BY <1>6, <1>8, <1>9, PrefixTrans
<1> QED BY <1>2, <1>3, <1>5, <1>10

LEMMA PlanType == ASSUME Base PROVE Plan \in Seq(RowSet)
<1>1. PICK K, s : K = 7 /\ K \in Nat \ {0} /\ s = Parts OBVIOUS
<1>2. s \in [1 .. K -> Seq(RowSet)] /\ 1 \in 1 .. K BY <1>1, PartsType
<1>3. FlattenSeq(s) \in Seq(RowSet) BY <1>1, <1>2, StartsPrefix
<1>4. Plan = FlattenSeq(s) BY <1>1 DEF Plan, Parts
<1> QED BY <1>3, <1>4

\* Of two sequences in a row the first is a prefix, so it is one of what they begin.
LEMMA FilePrefix ==
    ASSUME Base, Reached, RowsTyped
    PROVE  IsPrefix(csv.file, Plan) /\ IsPrefix(Rows, Plan)
<1>1. IsPrefix(Rows, Plan) BY ReachedPrefix
<1>2. PICK p : p = Plan OBVIOUS
<1>3. p \in Seq(RowSet) BY <1>2, PlanType
<1>4. PICK r, s : r = csv.file /\ s = csv.buffer /\ r \in Seq(RowSet) /\ s \in Seq(RowSet)
  BY DEF RowsTyped
<1>5. IsPrefix(<< >>, s)
  <2>1. PICK e : e = << >> OBVIOUS
  <2>2. e \in Seq(RowSet) /\ Len(e) = 0 /\ Len(s) \in Nat BY <1>4, <2>1
  <2>3. Len(e) <= Len(s) /\ \A j \in 1 .. Len(e) : e[j] = s[j] BY <2>2
  <2>4. IsPrefix(e, s) BY <1>4, <2>2, <2>3, PrefixIs
  <2> QED BY <2>1, <2>4
<1>6. << >> \in Seq(RowSet) OBVIOUS
<1>7. r \o s \in Seq(RowSet) /\ IsPrefix(r, r \o s) BY <1>4, <1>5, <1>6, PrefixJoin
<1>8. IsPrefix(r \o s, p) BY <1>1, <1>2, <1>4 DEF Rows
<1>9. IsPrefix(r, p) BY <1>3, <1>4, <1>7, <1>8, PrefixTrans
<1> QED BY <1>1, <1>2, <1>4, <1>9

LEMMA FlushFails == csv' \in FlushFailed => csv'.failed = TRUE
<1> SUFFICES ASSUME csv' \in FlushFailed PROVE csv'.failed = TRUE
  OBVIOUS
<1>1. PICK n : csv' = Csv(csv.file \o SubSeq(csv.buffer, 1, n), << >>, TRUE)
  BY DEF FlushFailed
<1>2. PICK g : g = csv.file \o SubSeq(csv.buffer, 1, n) OBVIOUS
<1>3. csv' = [file |-> g, buffer |-> << >>, failed |-> TRUE] BY <1>1, <1>2 DEF Csv
<1> QED BY <1>3

\* fprintf() of a row adds it to the rows, in the buffer or behind a flush; or a
\* write() has failed.
LEMMA RowsWrite ==
    ASSUME NEW row \in RowSet, RowsTyped, write_result(row), ~csv'.failed
    PROVE  ~csv.failed /\ RowsTyped' /\ Rows' = Append(Rows, row)
<1>1. PICK r, s : r = csv.file /\ s = csv.buffer /\ r \in Seq(RowSet) /\ s \in Seq(RowSet)
  BY DEF RowsTyped
<1>2. csv' \notin FlushFailed BY FlushFails
<1>3. PICK a : a = Append(s, row) OBVIOUS
<1>4. PICK t : t = r \o s OBVIOUS
<1>5. PICK o : o = <<row>> OBVIOUS
<1> HIDE DEF RowSet
<1>6. a \in Seq(RowSet) /\ t \in Seq(RowSet) /\ o \in Seq(RowSet) BY <1>1, <1>3, <1>4, <1>5
<1>7. \/ csv' = Csv(r, a, csv.failed)
      \/ csv' = Csv(t, o, csv.failed)
  <2>1. \/ csv' = Csv(csv.file, Append(csv.buffer, row), csv.failed)
        \/ csv' = Csv(csv.file \o csv.buffer, <<row>>, csv.failed)
    BY <1>2 DEF write_result
  <2> QED BY <1>1, <1>3, <1>4, <1>5, <2>1
<1>8. r \o a = Append(t, row)
  <2>1. r \in Seq(RowSet) /\ s \in Seq(RowSet) /\ row \in RowSet BY <1>1
  <2>2. Append(r \o s, row) = r \o Append(s, row) BY <2>1
  <2> QED BY <1>3, <1>4, <2>2
<1>9. t \o o = Append(t, row) BY <1>5, <1>6
<1>10. /\ csv'.failed = csv.failed
       /\ \/ csv'.file = r /\ csv'.buffer = a
          \/ csv'.file = t /\ csv'.buffer = o
  BY <1>7 DEF Csv
<1>11. Rows = t BY <1>1, <1>4 DEF Rows
<1>12. Rows' = Append(t, row) BY <1>8, <1>9, <1>10 DEF Rows
<1>13. RowsTyped' BY <1>1, <1>6, <1>10 DEF RowsTyped
<1>14. ~csv.failed BY <1>10
<1> QED BY <1>11, <1>12, <1>13, <1>14

\* fclose() and exit() write what is left, or a write() fails.
LEMMA RowsFlush ==
    ASSUME RowsTyped, csv' \in {Flushed} \cup FlushFailed, ~csv'.failed
    PROVE  ~csv.failed /\ RowsTyped' /\ csv'.file = Rows
<1>1. csv' \notin FlushFailed BY FlushFails
<1>2. csv' = Flushed BY <1>1
<1>3. csv'.file = Rows /\ csv'.buffer = << >> /\ csv'.failed = csv.failed
  BY <1>2 DEF Flushed, Csv, Rows
<1>4. Rows \in Seq(RowSet) /\ << >> \in Seq(RowSet) BY DEF Rows, RowsTyped
<1>5. RowsTyped' BY <1>3, <1>4 DEF RowsTyped
<1>6. ~csv.failed BY <1>3
<1> QED BY <1>3, <1>5, <1>6

LEMMA RowType ==
    ASSUME Base, k <= Len(Sizes)
    PROVE  Row(Amount(Method)) \in RowSet
<1>1. IsMethod(Method) BY MethodIs DEF Method, Base
<1>2. chunk \in Nat BY ChunkType
<1>3. Amount(Method) \in Nat BY SizesOfType
<1> QED BY <1>1, <1>2, <1>3 DEF Row, RowSet, IsMethod

\* A failed write of the CSV file is not forgotten before the next run.
LEMMA FailedStays ==
    ASSUME [Next]_vars, csv.failed, ~Rerun
    PROVE  csv'.failed
<1>0. ASSUME NEW a, NEW b, csv' = Csv(a, b, csv.failed) PROVE csv'.failed
  <2>1. csv' = [file |-> a, buffer |-> b, failed |-> csv.failed] BY <1>0 DEF Csv
  <2> QED BY <2>1
<1>1. ASSUME csv' \in {Flushed} \cup FlushFailed PROVE csv'.failed
  <2>1. CASE csv' = Flushed BY <1>0, <2>1 DEF Flushed
  <2> QED BY <1>1, <2>1, FlushFails
<1>2. ASSUME NEW row, write_result(row) PROVE csv'.failed
  <2>1. \/ csv' = Csv(csv.file, Append(csv.buffer, row), csv.failed)
        \/ csv' = Csv(csv.file \o csv.buffer, <<row>>, csv.failed)
        \/ csv' \in FlushFailed
    BY <1>2 DEF write_result
  <2> QED BY <1>0, <2>1, FlushFails
<1>3. CASE Parse
  BY <1>3 DEF Parse, ArgSizes, ArgBuffer, ArgTotal, ArgQuick, ArgPath, ArgHelp, ArgBad,
              ArgsDone, ArgsNoInput, Accept, Die, loopVars
<1>4. CASE NextPhase BY <1>1, <1>4 DEF NextPhase
<1>5. CASE Skip \/ Open \/ Read \/ Getc \/ Refill \/ Copy \/ Write \/ Close
  BY <1>5 DEF Skip, Open, Read, Getc, Refill, Copy, Write, Close, loopVars
<1>6. CASE ReadEnd \/ GetcEnd \/ Fread \/ Return \/ Unlink
  BY <1>2, <1>6 DEF ReadEnd, GetcEnd, Fread, Return, Unlink, Finish, loopVars
<1>7. CASE CallFails
  BY <1>1, <1>7 DEF CallFails, OpenFails, ReadFails, WriteFails, CloseFails, UnlinkFails, Fail
<1>8. CASE Kill BY <1>8 DEF Kill, Csv
<1>9. CASE UNCHANGED vars BY <1>9 DEF vars, loopVars
<1> QED BY <1>3, <1>4, <1>5, <1>6, <1>7, <1>8, <1>9 DEF Next, Run

LEMMA PlanStays == ASSUME UNCHANGED <<config, size>> PROVE Plan' = Plan
<1>1. Parts' = Parts BY SameSettings
<1>2. Plan = FlattenSeq(Parts) /\ Plan' = FlattenSeq(Parts') BY DEF Plan, Parts
<1> QED BY <1>1, <1>2

\* An empty file is the beginning of any plan.
LEMMA EmptyPrefix == ASSUME Base PROVE IsPrefix(<< >>, Plan)
<1>1. PICK p, e : p = Plan /\ e = << >> OBVIOUS
<1>2. p \in Seq(RowSet) /\ e \in Seq(RowSet) /\ Len(e) = 0 BY <1>1, PlanType
<1>3. Len(p) \in Nat BY <1>2
<1>4. Len(e) <= Len(p) /\ \A j \in 1 .. Len(e) : e[j] = p[j] BY <1>2, <1>3
<1>5. IsPrefix(e, p) BY <1>2, <1>4, PrefixIs
<1> QED BY <1>1, <1>5

LEMMA EmptyPrefixNext == Base' => IsPrefix(<< >>, Plan)'
<1>1. Base => IsPrefix(<< >>, Plan) BY EmptyPrefix
<1> QED BY <1>1, PTL

LEMMA RowsStep ==
    Base /\ FreadInv /\ TotalInv /\ RowsInv /\ [Next]_vars => RowsInv'
<1> SUFFICES ASSUME Base, FreadInv, TotalInv, RowsInv, [Next]_vars, ~csv'.failed
             PROVE  RowsKept'
  BY DEF RowsInv
<1>0. ~Rerun => ~csv.failed /\ RowsKept BY FailedStays DEF RowsInv
<1>1. Base' BY BaseStep
<1>2. CASE Rerun
  <2>1. /\ (phase = 1 /\ k = 1)' /\ pc' = "open" /\ csv'.file = << >> /\ csv'.buffer = << >>
    BY <1>2 DEF Rerun, NewCsv, Csv
  <2>2. (Rows = << >>)'
    <3>1. << >> \o << >> = << >> OBVIOUS
    <3> QED BY <2>1, <3>1 DEF Rows
  <2>3. (Base /\ phase = 1 /\ k = 1 /\ Rows = << >>)' BY <1>1, <2>1, <2>2
  <2>4. Reached' BY <2>3, ReachedStartNext
  <2>5. RowsTyped' BY <2>1 DEF RowsTyped
  <2> QED BY <2>1, <2>4, <2>5 DEF RowsKept
<1>3. CASE Parse
  <2>1. /\ pc = "parse" /\ UNCHANGED <<phase, k, csv>>
        /\ pc' \in {"parse", "help", "failed", "open"}
    BY <1>3 DEF Parse, ArgSizes, ArgBuffer, ArgTotal, ArgQuick, ArgPath, ArgHelp, ArgBad,
                ArgsDone, ArgsNoInput, Has, Accept, Die, loopVars
  <2>2. ~Rerun BY <2>1 DEF Rerun
  <2>3. phase = 1 /\ k = 1 /\ csv.file = << >> /\ csv.buffer = << >>
    BY <1>0, <2>1, <2>2 DEF RowsKept
  <2>4. (phase = 1 /\ k = 1 /\ csv.file = << >> /\ csv.buffer = << >>)' BY <2>1, <2>3
  <2>5. (Rows = << >>)'
    <3>1. << >> \o << >> = << >> OBVIOUS
    <3> QED BY <2>4, <3>1 DEF Rows
  <2>6. (Base /\ phase = 1 /\ k = 1 /\ Rows = << >>)' BY <1>1, <2>4, <2>5
  <2>7. Reached' BY <2>6, ReachedStartNext
  <2>8. RowsTyped' BY <2>4 DEF RowsTyped
  <2>9. IsPrefix(csv.file, Plan)'
    <3>1. IsPrefix(<< >>, Plan)' BY <1>1, EmptyPrefixNext
    <3> QED BY <2>4, <3>1
  <2> QED BY <2>1, <2>4, <2>7, <2>8, <2>9 DEF RowsKept
<1>4. CASE NextPhase
  <2>1. pc = "open" /\ k > Len(Sizes) /\ UNCHANGED <<config, size>>
    BY <1>4 DEF NextPhase, parseVars
  <2>2. Reached /\ RowsTyped
    <3>1. ~Rerun BY <2>1 DEF Rerun
    <3> QED BY <1>0, <2>1, <3>1 DEF RowsKept, Active
  <2>3. CASE phase < 7
    <3>1. Reached' BY <1>1, <1>4, <2>2, <2>3, ReachedPhase
    <3>2. pc' = "open" /\ UNCHANGED csv BY <1>4, <2>1, <2>3, PhasesFacts DEF NextPhase
    <3>3. RowsTyped' BY <2>2, <3>2 DEF RowsTyped
    <3> QED BY <3>1, <3>2, <3>3 DEF RowsKept
  <2>4. CASE phase = 7
    <3>1. Rows = Plan BY <2>1, <2>2, <2>4, PhaseDone
    <3>2. pc' = "exit" /\ csv' \in {Flushed} \cup FlushFailed
      BY <1>4, <2>4, PhasesFacts DEF NextPhase
    <3>3. RowsTyped' /\ csv'.file = Rows BY <2>2, <3>2, RowsFlush
    <3>4. Plan' = Plan BY <2>1, PlanStays
    <3>5. (csv.file = Plan)' BY <3>1, <3>3, <3>4
    <3> QED BY <3>2, <3>3, <3>5 DEF RowsKept, Active
  <2> QED BY <2>3, <2>4 DEF Base
<1>5. CASE Skip
  <2>1. /\ pc = "open" /\ pc' = "open" /\ k <= Len(Sizes) /\ Skipped /\ k' = k + 1
        /\ UNCHANGED <<config, size, phase, csv>>
    BY <1>5 DEF Skip, parseVars
  <2>2. Reached /\ RowsTyped
    <3>1. ~Rerun BY <2>1 DEF Rerun
    <3> QED BY <1>0, <2>1, <3>1 DEF RowsKept, Active
  <2>3. Rows' = Rows /\ RowsTyped' BY <2>1, <2>2 DEF Rows, RowsTyped
  <2>4. Reached' BY <2>1, <2>2, <2>3, ReachedNext
  <2> QED BY <2>1, <2>3, <2>4 DEF RowsKept
<1>6. CASE ReadEnd \/ GetcEnd \/ (Fread /\ pc' # pc) \/ (Return /\ pc' # pc) \/ Unlink
  <2>1. /\ pc \in {"run", "unlink"} /\ UNCHANGED <<config, size, phase>>
        /\ Finish(Amount(Method))
    BY <1>6, FinishedTotal
  <2>2. /\ pc' = "open" /\ k' = k + 1 /\ write_result(Row(Amount(Method)))
        /\ k <= Len(Sizes) /\ ~Skipped
    BY <2>1 DEF Finish, Base
  <2>3. Reached /\ RowsTyped
    <3>1. ~Rerun BY <2>1 DEF Rerun
    <3> QED BY <1>0, <2>1, <3>1 DEF RowsKept, Active
  <2>4. RowsTyped' /\ Rows' = Append(Rows, Row(Amount(Method)))
    <3>1. PICK r : r = Row(Amount(Method)) OBVIOUS
    <3>2. r \in RowSet /\ write_result(r) BY <2>2, <3>1, RowType
    <3>3. RowsTyped' /\ Rows' = Append(Rows, r) BY <2>3, <3>2, RowsWrite
    <3> QED BY <3>1, <3>3
  <2>5. Reached' BY <2>1, <2>2, <2>3, <2>4, ReachedNext
  <2> QED BY <2>2, <2>4, <2>5 DEF RowsKept
<1>7. CASE \/ Open \/ Read \/ Getc \/ Refill \/ Copy \/ Write \/ Close
           \/ (Fread /\ pc' = pc) \/ (Return /\ pc' = pc)
  <2>1. pc \in Active /\ pc' \in Active /\ UNCHANGED <<config, size, phase, k, csv>>
    <3>1. CASE Open \/ Read \/ Getc \/ Refill \/ Copy \/ Write \/ Close
      BY <1>7, <3>1 DEF Open, Read, Getc, Refill, Copy, Write, Close, Running, Active,
                        loopVars, parseVars
    <3>2. CASE (Fread /\ pc' = pc) \/ (Return /\ pc' = pc)
      BY <1>7, <3>2 DEF Fread, Return, Running, Finish, Active, loopVars, parseVars
    <3> QED BY <1>7, <3>1, <3>2
  <2>2. Reached /\ RowsTyped
    <3>1. ~Rerun BY <2>1 DEF Rerun, Active
    <3> QED BY <1>0, <2>1, <3>1 DEF RowsKept
  <2>3. Rows' = Rows /\ RowsTyped' BY <2>1, <2>2 DEF Rows, RowsTyped
  <2>4. Reached' BY <2>1, <2>2, <2>3, ReachedStays
  <2> QED BY <2>1, <2>3, <2>4 DEF RowsKept, Active
<1>8. CASE CallFails \/ Kill
  <2>1. /\ pc \in Active /\ pc' \in {"failed", "killed"} /\ UNCHANGED <<config, size>>
    BY <1>8 DEF CallFails, OpenFails, ReadFails, WriteFails, CloseFails, UnlinkFails, Kill,
                Fail, Running, Active, parseVars
  <2>2. Reached /\ RowsTyped
    <3>1. ~Rerun BY <2>1 DEF Rerun, Active
    <3> QED BY <1>0, <2>1, <3>1 DEF RowsKept
  <2>3. IsPrefix(csv.file, Plan) /\ IsPrefix(Rows, Plan) BY <2>2, FilePrefix
  <2>4. RowsTyped' /\ (csv'.file = csv.file \/ csv'.file = Rows)
    <3>1. CASE CallFails
      <4>1. csv' \in {Flushed} \cup FlushFailed
        BY <3>1 DEF CallFails, OpenFails, ReadFails, WriteFails, CloseFails, UnlinkFails, Fail
      <4> QED BY <2>2, <4>1, RowsFlush
    <3>2. CASE Kill
      <4>1. csv'.file = csv.file /\ csv'.buffer = << >> BY <3>2 DEF Kill, Csv
      <4> QED BY <2>2, <4>1 DEF RowsTyped
    <3> QED BY <1>8, <3>1, <3>2
  <2>5. Plan' = Plan BY <2>1, PlanStays
  <2>6. IsPrefix(csv.file, Plan)'
    <3>1. PICK p : p = Plan OBVIOUS
    <3>2. IsPrefix(csv'.file, p) BY <2>3, <2>4, <3>1
    <3> QED BY <2>5, <3>1, <3>2
  <2> QED BY <2>1, <2>4, <2>6 DEF RowsKept, Active
<1>9. CASE UNCHANGED vars
  <2>1. UNCHANGED <<pc, config, size, phase, k, csv>> BY <1>9 DEF vars, loopVars, parseVars
  <2>2. RowsKept
    BY <2>1 DEF RowsInv
  <2>3. Rows' = Rows /\ (RowsTyped => RowsTyped') BY <2>1 DEF Rows, RowsTyped
  <2>4. Reached => Reached' BY <2>1, <2>3, ReachedStays
  <2>5. Plan' = Plan BY <2>1, PlanStays
  <2>6. IsPrefix(csv.file, Plan) => IsPrefix(csv.file, Plan)'
    <3>1. PICK p : p = Plan OBVIOUS
    <3> QED BY <2>1, <2>5, <3>1
  <2> QED BY <2>1, <2>2, <2>3, <2>4, <2>5, <2>6 DEF RowsKept
<1> QED BY <1>2, <1>3, <1>4, <1>5, <1>6, <1>7, <1>8, <1>9 DEF Next, Run

\* As long as no write of the CSV file itself has failed, the file is never anything
\* but the beginning of the plan, and the whole plan when the program ends well
\* (main(), lines 616-684, write_result() and the loops of the seven benchmarks):
\* exact totals whatever read() and write() return, and nothing in between lost or
\* doubled by the buffering, by another call that fails or by a kill.
THEOREM RowsAsPlannedCorrect == Spec => []RowsAsPlanned
<1>1. Init => TotalInv /\ FreadInv /\ RowsInv
  <2>1. ASSUME Init PROVE TotalInv /\ FreadInv
    BY <2>1 DEF Init, TotalInv, FreadInv, Freading
  <2>2. ASSUME Init PROVE RowsInv
    BY <2>2 DEF Init, RowsInv, RowsKept, RowsTyped, NewCsv, Csv, Active
  <2> QED BY <2>1, <2>2
<1>2. Base /\ RowsInv => RowsAsPlanned
  <2> SUFFICES ASSUME Base, RowsKept, pc \notin {"parse", "help"}
               PROVE  IsPrefix(csv.file, Plan) /\ (pc = "exit" => csv.file = Plan)
    BY DEF RowsAsPlanned, RowsInv
  <2>1. CASE pc = "exit"
    <3>1. csv.file = Plan BY <2>1 DEF RowsKept
    <3>2. PICK p : p = Plan OBVIOUS
    <3>3. p \in Seq(RowSet) BY <3>2, PlanType
    <3> QED BY <3>1, <3>2, <3>3, PrefixSelf
  <2>2. CASE pc \in Active
    <3>1. Reached /\ RowsTyped BY <2>2 DEF RowsKept
    <3> QED BY <2>2, <3>1, FilePrefix DEF Active
  <2>3. CASE pc \in {"failed", "killed"} BY <2>3 DEF RowsKept
  <2> QED BY <2>1, <2>2, <2>3 DEF Base, Active, Ended
<1> QED BY <1>1, <1>2, BaseInit, BaseStep, FreadStep, TotalStep, RowsStep, PTL DEF Spec
=============================================================================
