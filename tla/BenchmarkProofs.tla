--------------------------- MODULE BenchmarkProofs ---------------------------
(***************************************************************************)
(* Proofs about the parts of Benchmark: the pipeline that regenerates the  *)
(* site (Regen) and the exchange with the sqlite3 process (SqlitePipes),   *)
(* which have state of their own; the grading of a corpus (Grading), whose *)
(* loops over statements, threads and files are folds; the entry points of *)
(* the parsers, now and in the historical versions (Adapters, Versions);   *)
(* and what is measured (Measures): the windows of the memory counters,    *)
(* the statistics of a sample, and the batches.                            *)
(***************************************************************************)
EXTENDS Benchmark, SequenceTheorems, WellFoundedInduction, FiniteSetTheorems, TLAPS

-----------------------------------------------------------------------------
(* The steps of a regen, in their order, by what they have behind them     *)

Exported == {"badges", "badges_half"}
HistoryWritten == {"export"} \cup Exported
SidecarWritten == {"history"} \cup HistoryWritten
BatchMemOpened == {"batch_mem", "sidecar"} \cup SidecarWritten
MemOpened == {"mem", "mem_half", "batch_mem_open"} \cup BatchMemOpened
BatchOpened == {"batch", "mem_open"} \cup MemOpened
BenchOpened == {"bench", "batch_open"} \cup BatchOpened
DepthWritten == {"bench_open"} \cup BenchOpened
FeaturesWritten == {"depth"} \cup DepthWritten

BeforeTiming == {"unpack", "featurescan"} \cup (FeaturesWritten \ HistoryWritten)

\* The parsers that the step at hand has still to come to, if it is one of `steps`.
Left(steps) == IF rpc \in steps THEN ToSet(todo) ELSE {}

-----------------------------------------------------------------------------
(* The invariant                                                           *)

\* The state of the pipeline is well-formed: the list a step works off is of parsers
\* compiled in, none twice, and there is one only within a step.
PipelineInv ==
  /\ run \in Nat /\ (rpc # "idle" => run # 0)
  /\ rpc \in {"idle", "unpack", "featurescan"} \cup FeaturesWritten
  /\ IsProgram(code)
  /\ todo \in Seq(Known) /\ NoneTwice(todo)
  /\ rpc \notin {"bench", "batch", "mem", "mem_half", "batch_mem"} => todo = <<>>
  /\ rpc = "mem_half" => todo # <<>> /\ Measured(Head(todo))
  /\ rpc \in {"unpack", "featurescan", "depth", "bench_open"} => skipped = {}
  /\ done => rpc = "idle"

\* The files a run has gone on without, by their kind.
LostInv ==
  lost \in [raw : SUBSET Everyone, peak : SUBSET Everyone, retained : SUBSET Everyone,
            time : SUBSET {"sidecar", "history"}]

\* The files have the functions over parsers and the rows that the steps write.
DiskInv ==
  /\ disk \in [features : Nat, depth : Nat, sidecar : [run : Nat, whole : BOOLEAN],
               timing : [run : Nat, mem : Nat], history : [run : Nat, mem : Nat],
               raw : [Everyone -> Nat], peak : [Everyone -> Nat], retained : [Everyone -> Nat],
               summary : SUBSET [parser : Everyone, run : Nat, some : BOOLEAN],
               batch : SUBSET [parser : Everyone, run : Nat],
               batch_mem : SUBSET [parser : Everyone, run : Nat]]
  /\ rpc \in FeaturesWritten => disk.features = run
  /\ rpc \in DepthWritten => disk.depth = run

\* What a run may reuse of the time machine's files: a sidecar is of a run since they were
\* cleared, and a checkpoint that is no older than the sidecar has the memory that is in it.
\* Past its step a run has a sidecar, and past the next one a history that agrees with it,
\* unless the files could not be written.
TimeInv ==
  /\ since \in 0..(run + 1) /\ (rpc # "idle" => since <= run) /\ disk.timing.run <= run
  /\ disk.sidecar # NoSidecar => since <= disk.sidecar.run /\ disk.sidecar.run <= run
  /\ disk.sidecar # NoSidecar /\ disk.timing # NoTiming /\ disk.timing.run >= disk.sidecar.run
       => disk.timing.mem = SidecarMem
  /\ rpc \in BeforeTiming => disk.timing.run < run
  /\ rpc \in SidecarWritten /\ lost.time = {} => disk.sidecar # NoSidecar
  /\ rpc \in HistoryWritten => TimeMachineAgrees

\* Since the bench was started, the summary has a row of this run for each parser it is
\* through with, unless its pair panicked, and the raw file that goes with the row, unless
\* it could not be written.
BenchInv ==
  rpc \in BenchOpened =>
    /\ \A r \in disk.summary :
         r.run = run /\ (r.some /\ r.parser \notin lost.raw => disk.raw[r.parser] = run)
    /\ {r.parser : r \in disk.summary} = (Known \ Left({"bench"})) \ skipped
    /\ skipped \subseteq Known \ Left({"bench"})

\* So have the two summaries of the batches, which may lack parsers.
BatchInv ==
  /\ rpc \in BatchOpened => \A r \in disk.batch : r.run = run
  /\ rpc \in BatchMemOpened => \A r \in disk.batch_mem : r.run = run

\* Since membench was started, both files are there for each parser it is through with,
\* unless they could not be written.
PeakOf(p) == p \in lost.peak \/ disk.peak[p] = run
RetainedOf(p) == p \in lost.retained \/ disk.retained[p] = run
MemInv ==
  rpc \in MemOpened =>
    \A p \in Known : Measured(p) =>
      /\ p \notin Left({"mem", "mem_half"}) => PeakOf(p) /\ RetainedOf(p)
      /\ rpc = "mem_half" /\ p = Head(todo) => PeakOf(p)

\* What the snapshot holds once this run has exported it.
Fresh ==
  /\ \A x \in bundle.perf : /\ x.row.run = run /\ x.row.parser \in Known
                            /\ x.row.some /\ x.row.parser \notin lost.raw => x.curve = run
  /\ {x.row.parser : x \in bundle.perf} = Known \ skipped
  /\ \A b \in bundle.batch : b.time \cup b.mem = {run}
  /\ \A m \in bundle.mem : Measured(m.parser) =>
       /\ m.parser \notin lost.peak => m.peak = run
       /\ m.parser \notin lost.retained => m.retained = run
  /\ {p \in Everyone : Measured(p)} \ lost.peak \subseteq {m.parser : m \in bundle.mem}
  /\ <<disk.features, disk.depth>> = <<run, run>> /\ TimeMachineAgrees

SnapshotInv ==
  /\ rpc \in Exported => Fresh
  /\ done => Fresh /\ badges = bundle

RegenInv ==
  /\ PipelineInv /\ DiskInv /\ LostInv /\ TimeInv
  /\ BenchInv /\ BatchInv /\ MemInv /\ SnapshotInv

-----------------------------------------------------------------------------
(* Lists without duplicates                                                *)

\* What was not in the list twice is not in its tail once its head is taken.
LEMMA HeadAndTail ==
  ASSUME NEW S, NEW s \in Seq(S), s # <<>>, NoneTwice(s)
  PROVE  /\ Head(s) \in S /\ Tail(s) \in Seq(S) /\ NoneTwice(Tail(s))
         /\ ToSet(s) = {Head(s)} \cup ToSet(Tail(s)) /\ Head(s) \notin ToSet(Tail(s))
<1>1. Len(s) \in Nat \ {0} /\ DOMAIN s = 1..Len(s) /\ Head(s) = s[1] /\ Head(s) \in S
  BY EmptySeq, LenProperties, HeadTailProperties, ElementOfSeq
<1>2. /\ Tail(s) \in Seq(S) /\ DOMAIN Tail(s) = 1..(Len(s) - 1)
      /\ \A i \in 1..(Len(s) - 1) : Tail(s)[i] = s[i + 1]
  BY <1>1, HeadTailProperties, LenProperties
<1>3. NoneTwice(Tail(s))
  <2> SUFFICES ASSUME NEW i \in 1..(Len(s) - 1), NEW j \in 1..(Len(s) - 1),
                      Tail(s)[i] = Tail(s)[j]
               PROVE  i = j
    BY <1>2 DEF NoneTwice
  <2>1. i + 1 \in DOMAIN s /\ j + 1 \in DOMAIN s /\ s[i + 1] = s[j + 1]
    BY <1>1, <1>2
  <2>2. i + 1 = j + 1
    BY <2>1, Zenon DEF NoneTwice
  <2> QED
    BY <1>1, <2>2
<1>4. ToSet(s) = {Head(s)} \cup ToSet(Tail(s))
  <2>1. ASSUME NEW x \in ToSet(s) PROVE x \in {Head(s)} \cup ToSet(Tail(s))
    <3>1. PICK i \in DOMAIN s : s[i] = x
      BY DEF ToSet
    <3>2. CASE i # 1
      <4>1. i - 1 \in DOMAIN Tail(s) /\ Tail(s)[i - 1] = x
        BY <1>1, <1>2, <3>1, <3>2
      <4> QED
        BY <4>1 DEF ToSet
    <3> QED
      BY <1>1, <3>1, <3>2
  <2>2. ASSUME NEW x \in {Head(s)} \cup ToSet(Tail(s)) PROVE x \in ToSet(s)
    <3>1. CASE x = Head(s)
      <4>1. 1 \in DOMAIN s
        BY <1>1
      <4> QED
        BY <1>1, <3>1, <4>1 DEF ToSet
    <3>2. CASE x \in ToSet(Tail(s))
      <4>1. PICK i \in DOMAIN Tail(s) : Tail(s)[i] = x
        BY <3>2 DEF ToSet
      <4>2. i + 1 \in DOMAIN s /\ s[i + 1] = x
        BY <1>1, <1>2, <4>1
      <4> QED
        BY <4>2 DEF ToSet
    <3> QED
      BY <2>2, <3>1, <3>2
  <2> QED
    BY <2>1, <2>2
<1>5. Head(s) \notin ToSet(Tail(s))
  <2> SUFFICES ASSUME NEW i \in DOMAIN Tail(s), Tail(s)[i] = s[1] PROVE FALSE
    BY <1>1 DEF ToSet
  <2>1. i + 1 \in DOMAIN s /\ 1 \in DOMAIN s /\ s[i + 1] = s[1]
    BY <1>1, <1>2
  <2>2. i + 1 = 1
    BY <2>1, Zenon DEF NoneTwice
  <2> QED
    BY <1>2, <2>2
<1> QED
  BY <1>1, <1>2, <1>3, <1>4, <1>5

\* The elements of a list are the set it is a list over; the empty list has none.
LEMMA ToSetBasics ==
  /\ ToSet(<<>>) = {} /\ NoneTwice(<<>>)
  /\ \A S : \A s \in Seq(S) : ToSet(s) \subseteq S /\ s \in Seq(ToSet(s))
<1>1. ToSet(<<>>) = {} /\ NoneTwice(<<>>)
  BY DEF ToSet, NoneTwice
<1>2. ASSUME NEW S, NEW s \in Seq(S) PROVE ToSet(s) \subseteq S /\ s \in Seq(ToSet(s))
  <2>1. ToSet(s) \subseteq S
    BY ElementOfSeq DEF ToSet
  <2>2. s \in [1..Len(s) -> ToSet(s)] /\ Len(s) \in Nat
    BY DEF ToSet
  <2> QED
    BY <2>1, <2>2, SeqDef
<1> QED
  BY <1>1, <1>2

-----------------------------------------------------------------------------
(* The pipeline                                                            *)

\* The parsers a program knows are parsers there are, each listed once.
LEMMA ProgramTypes ==
  ASSUME IsProgram(code)
  PROVE  /\ code.known \in Seq(Known) /\ NoneTwice(code.known)
         /\ Known \subseteq Everyone /\ code.accepting \subseteq Known
<1>1. /\ code.known \in Seq(Everyone) /\ NoneTwice(code.known)
      /\ code.accepting \subseteq Known
  BY DEF IsProgram, Known, Everyone
<1>2. code.known \in Seq(Known) /\ Known \subseteq Everyone
  BY <1>1, ToSetBasics, Zenon DEF Known
<1> QED
  BY <1>1, <1>2

\* Before the first run the state of the pipeline is well-formed.
LEMMA PipelineInit == RegenInit => PipelineInv
<1> SUFFICES ASSUME RegenInit PROVE PipelineInv
  OBVIOUS
<1>1. IsProgram(code)
  BY RegenAssumption DEF RegenInit, IsProgram, Everyone
<1>2. todo \in Seq(Known) /\ NoneTwice(todo)
  BY ToSetBasics DEF RegenInit
<1> QED
  BY <1>1, <1>2 DEF RegenInit, PipelineInv

\* Every step of a regeneration, and every edit between two, keeps the pipeline well-formed.
LEMMA PipelineStep == PipelineInv /\ [RegenNext]_regenVars => PipelineInv'
<1> SUFFICES ASSUME PipelineInv, [RegenNext]_regenVars PROVE PipelineInv'
  OBVIOUS
<1> USE DEF PipelineInv, Exported, HistoryWritten, SidecarWritten, BatchMemOpened, MemOpened,
            BatchOpened, BenchOpened, DepthWritten, FeaturesWritten
<1>1. CASE Edit
  <2>1. rpc = "idle" /\ todo = <<>> /\ UNCHANGED <<rpc, todo, run, skipped>> /\ done' = FALSE
    BY <1>1 DEF Edit
  <2>2. IsProgram(code')
    BY <1>1, RegenAssumption DEF Edit
  <2>3. todo' \in Seq(Known') /\ NoneTwice(todo')
    BY <2>1, ToSetBasics
  <2> QED
    BY <2>1, <2>2, <2>3 DEF IsProgram
<1>2. CASE StartRegen
  <2>1. rpc = "idle" /\ run' \in Nat /\ run' # 0 /\ rpc' \in {"unpack", "featurescan"}
    BY <1>2 DEF StartRegen
  <2> QED
    BY <1>2, <2>1 DEF StartRegen, Known, IsProgram
<1>3. CASE Unpack \/ WriteFile \/ Export \/ Badges
  BY <1>3 DEF Unpack, WriteFile, Export, Badges, Goes, Known, IsProgram
<1>10. CASE Clear \/ SidecarStep \/ TimingStep
  <2>1. /\ UNCHANGED <<todo, run, code, skipped>>
        /\ \/ rpc = "idle" /\ rpc' = "idle" /\ done' = FALSE
           \/ /\ <<rpc, rpc'>> \in {<<"sidecar", "history">>, <<"history", "export">>}
              /\ UNCHANGED done
    BY <1>10 DEF Clear, SidecarStep, TimingStep, Goes
  <2> QED
    BY <2>1 DEF Known, IsProgram
<1>4. CASE OpenStep
  <2>1. code.known \in Seq(Known) /\ NoneTwice(code.known)
    BY ProgramTypes
  <2> QED
    BY <1>4, <2>1 DEF OpenStep, Goes, Known, IsProgram
<1>5. CASE BenchPair \/ BatchPair \/ BatchMemPair
  <2>1. /\ todo # <<>> /\ todo' = Tail(todo) /\ rpc \in {"bench", "batch", "batch_mem"}
        /\ UNCHANGED <<rpc, run, code, done>>
    BY <1>5 DEF BenchPair, BatchPair, BatchMemPair
  <2>2. Tail(todo) \in Seq(Known) /\ NoneTwice(Tail(todo))
    BY <2>1, HeadAndTail
  <2> QED
    BY <2>1, <2>2 DEF Known, IsProgram
<1>6. CASE MemPair
  <2>1. /\ todo # <<>> /\ UNCHANGED <<run, code, skipped, done>> /\ rpc \in {"mem", "mem_half"}
        /\ \/ rpc' = "mem_half" /\ todo' = todo /\ Measured(Head(todo))
           \/ rpc' = "mem" /\ todo' = Tail(todo)
    BY <1>6 DEF MemPair
  <2>2. Tail(todo) \in Seq(Known) /\ NoneTwice(Tail(todo))
    BY <2>1, HeadAndTail
  <2> QED
    BY <2>1, <2>2 DEF Known, IsProgram, Measured
<1>7. CASE CloseStep
  BY <1>7 DEF CloseStep, Goes, Known, IsProgram
<1>8. CASE Fail
  <2>1. /\ rpc' = "idle" /\ todo' = <<>> /\ UNCHANGED <<run, code, done>> /\ rpc # "idle"
    BY <1>8 DEF Fail
  <2>2. todo' \in Seq(Known') /\ NoneTwice(todo')
    BY <2>1, ToSetBasics
  <2> QED
    BY <2>1, <2>2 DEF IsProgram
<1>9. CASE UNCHANGED regenVars
  BY <1>9 DEF regenVars, Known, IsProgram, Measured
<1> QED
  BY <1>1, <1>2, <1>3, <1>4, <1>5, <1>6, <1>7, <1>8, <1>9, <1>10 DEF RegenNext

-----------------------------------------------------------------------------
(* The files                                                               *)

\* Before the first run the files are of no run.
LEMMA DiskInit == RegenInit => DiskInv
BY DEF RegenInit, NoFiles, NoSidecar, NoTiming, DiskInv, FeaturesWritten, DepthWritten, BenchOpened, BatchOpened,
       MemOpened, BatchMemOpened, SidecarWritten, HistoryWritten, Exported

\* The next parser of a step is one that is compiled in.
LEMMA NextParser ==
  ASSUME PipelineInv, todo # <<>>
  PROVE  /\ Head(todo) \in Known /\ Head(todo) \in Everyone
         /\ ToSet(todo) = {Head(todo)} \cup ToSet(Tail(todo))
         /\ Head(todo) \notin ToSet(Tail(todo)) /\ ToSet(todo) \subseteq Known
BY HeadAndTail, ProgramTypes, ToSetBasics DEF PipelineInv

\* Every step keeps the form of the files, and those already written of this run.
LEMMA DiskStep == PipelineInv /\ DiskInv /\ [RegenNext]_regenVars => DiskInv'
<1> SUFFICES ASSUME PipelineInv, DiskInv, [RegenNext]_regenVars PROVE DiskInv'
  OBVIOUS
<1> USE DEF DiskInv, Exported, HistoryWritten, SidecarWritten, BatchMemOpened, MemOpened,
            BatchOpened, BenchOpened, DepthWritten, FeaturesWritten
<1>0. run \in Nat
  BY DEF PipelineInv
<1>1. CASE Edit \/ Unpack \/ CloseStep \/ Export \/ Badges \/ Fail
  BY <1>1 DEF Edit, Unpack, CloseStep, Export, Badges, Fail, Goes, Everyone
<1>9. CASE Clear
  <2>1. /\ \E kept \in {disk.timing, NoTiming} :
             disk' = [disk EXCEPT !.sidecar = NoSidecar, !.timing = kept]
        /\ rpc = "idle" /\ rpc' = "idle"
    BY <1>9 DEF Clear
  <2>2. NoSidecar \in [run : Nat, whole : BOOLEAN] /\ NoTiming \in [run : Nat, mem : Nat]
    BY DEF NoSidecar, NoTiming
  <2> QED
    BY <2>1, <2>2 DEF Everyone
<1>10. CASE SidecarStep
  <2>1. /\ \E kept \in {disk.sidecar} \cup [run : {run}, whole : BOOLEAN] :
             disk' = [disk EXCEPT !.sidecar = kept]
        /\ rpc = "sidecar" /\ rpc' = "history" /\ UNCHANGED run
    <3>1. disk = [disk EXCEPT !.sidecar = disk.sidecar]
      OBVIOUS
    <3> QED
      BY <1>10, <3>1 DEF SidecarStep, Goes
  <2> QED
    BY <1>0, <2>1 DEF Everyone
<1>11. CASE TimingStep
  <2>1. Timed \in [run : Nat, mem : Nat] /\ NoTiming \in [run : Nat, mem : Nat]
    BY <1>0 DEF Timed, SidecarMem, NoTiming
  <2>2. /\ \E checkpoint, history \in {Timed, disk.timing, disk.history, NoTiming} :
             disk' = [disk EXCEPT !.timing = checkpoint, !.history = history]
        /\ rpc = "history" /\ rpc' = "export" /\ UNCHANGED run
    BY <1>11, Zenon DEF TimingStep, Goes
  <2> QED
    BY <2>1, <2>2 DEF Everyone
<1>2. CASE StartRegen
  BY <1>2 DEF StartRegen, Everyone
<1>3. CASE WriteFile
  BY <1>0, <1>3 DEF WriteFile, Goes, Everyone
<1>4. CASE OpenStep
  <2>1. /\ disk' \in {disk, [disk EXCEPT !.summary = {}], [disk EXCEPT !.batch = {}],
                      [disk EXCEPT !.batch_mem = {}]}
        /\ run' = run
        /\ <<rpc, rpc'>> \in {<<"bench_open", "bench">>, <<"batch_open", "batch">>,
                              <<"mem_open", "mem">>, <<"batch_mem_open", "batch_mem">>}
    BY <1>4 DEF OpenStep, Opened, Goes
  <2> QED
    BY <2>1
<1>5. CASE BenchPair
  <2> DEFINE p == Head(todo)
             row == [parser |-> p, run |-> run, some |-> p \in code.accepting]
             rows == disk.summary \cup {row}
             files(left) == [disk.raw EXCEPT ![p] = left]
  <2>1. p \in Everyone
    BY <1>5, NextParser DEF BenchPair
  <2>2. PICK left \in {disk.raw[p], run, 0} :
             disk' \in {disk, [disk EXCEPT !.raw = files(left), !.summary = rows]}
    BY <1>5 DEF BenchPair
  <2>3. UNCHANGED <<rpc, run>>
    BY <1>5 DEF BenchPair
  <2>4. row \in [parser : Everyone, run : Nat, some : BOOLEAN] /\ left \in Nat
    BY <1>0, <2>1
  <2> HIDE DEF p, row
  <2>5. /\ files(left) \in [Everyone -> Nat]
        /\ rows \in SUBSET [parser : Everyone, run : Nat, some : BOOLEAN]
    BY <2>1, <2>4
  <2> HIDE DEF files, rows
  <2> QED
    BY <2>2, <2>3, <2>5 DEF Everyone
<1>6. CASE BatchPair \/ BatchMemPair
  <2> DEFINE row == [parser |-> Head(todo), run |-> run]
  <2>1. row \in [parser : Everyone, run : Nat]
    BY <1>0, <1>6, NextParser DEF BatchPair, BatchMemPair
  <2>2. /\ disk' \in {disk, [disk EXCEPT !.batch = disk.batch \cup {row}],
                      [disk EXCEPT !.batch_mem = disk.batch_mem \cup {row}]}
        /\ UNCHANGED <<rpc, run>>
    BY <1>6 DEF BatchPair, BatchMemPair
  <2> HIDE DEF row
  <2> QED
    BY <2>1, <2>2 DEF Everyone
<1>7. CASE MemPair
  <2> DEFINE p == Head(todo)
  <2>1. p \in Everyone
    BY <1>7, NextParser DEF MemPair
  <2>2. /\ \E left \in {run, disk.peak[p], disk.retained[p], 0} :
             disk' \in {disk, [disk EXCEPT !.peak = [disk.peak EXCEPT ![p] = left]],
                       [disk EXCEPT !.retained = [disk.retained EXCEPT ![p] = left]]}
        /\ rpc \in {"mem", "mem_half"} /\ rpc' \in {"mem", "mem_half"} /\ UNCHANGED run
    BY <1>7 DEF MemPair
  <2> HIDE DEF p
  <2>3. /\ disk'.peak \in [Everyone -> Nat] /\ disk'.retained \in [Everyone -> Nat]
    BY <1>0, <2>1, <2>2
  <2> QED
    BY <1>0, <2>1, <2>2, <2>3 DEF Everyone
<1>8. CASE UNCHANGED regenVars
  BY <1>8 DEF regenVars, Everyone
<1> QED
  BY <1>1, <1>2, <1>3, <1>4, <1>5, <1>6, <1>7, <1>8, <1>9, <1>10, <1>11 DEF RegenNext

-----------------------------------------------------------------------------
(* The files that cannot be written, and those of the time machine         *)

\* Before the first run nothing was lost, and the time machine has left nothing.
LEMMA TimeInit == RegenInit => LostInv /\ TimeInv
BY DEF RegenInit, LostInv, NothingLost, TimeInv, NoSidecar, NoTiming, BeforeTiming,
       FeaturesWritten, DepthWritten, BenchOpened, BatchOpened, MemOpened, BatchMemOpened,
       SidecarWritten, HistoryWritten, Exported

\* A step notes the one file it could not write; those that cannot fail so note none.
LEMMA LostStep == PipelineInv /\ LostInv /\ [RegenNext]_regenVars => LostInv'
<1> SUFFICES ASSUME PipelineInv, LostInv, [RegenNext]_regenVars PROVE LostInv'
  OBVIOUS
<1> USE DEF LostInv, Everyone
<1>1. CASE UNCHANGED lost \/ lost' = NothingLost
  BY <1>1 DEF NothingLost
<1>2. CASE BenchPair
  <2>1. Head(todo) \in Everyone
    BY <1>2, NextParser DEF BenchPair
  <2> QED
    BY <1>2, <2>1 DEF BenchPair, Loses, LosesNothing
<1>3. CASE MemPair
  <2>1. Head(todo) \in Everyone
    BY <1>3, NextParser DEF MemPair
  <2> QED
    BY <1>3, <2>1 DEF MemPair, Loses, LosesNothing
<1>4. CASE SidecarStep \/ TimingStep
  <2>1. \/ UNCHANGED lost
        \/ \E x \in {"sidecar", "history"} : lost' = [lost EXCEPT !.time = @ \cup {x}]
    BY <1>4 DEF SidecarStep, TimingStep, Loses, LosesNothing
  <2> QED
    BY <2>1
<1> QED
  BY <1>1, <1>2, <1>3, <1>4 DEF RegenNext, Edit, Clear, StartRegen, Unpack, WriteFile, OpenStep,
     BatchPair, BatchMemPair, CloseStep, Export, Badges, Fail, regenVars

\* A sidecar that exists is kept, a checkpoint is reused only beside the sidecar it was made
\* from, and the history is written from the one or from this run's timings.
LEMMA TimeStep ==
  PipelineInv /\ DiskInv /\ LostInv /\ TimeInv /\ [RegenNext]_regenVars => TimeInv'
<1> SUFFICES ASSUME PipelineInv, DiskInv, LostInv, TimeInv, [RegenNext]_regenVars PROVE TimeInv'
  OBVIOUS
<1> USE DEF TimeInv, SidecarMem, BeforeTiming, FeaturesWritten, DepthWritten, BenchOpened,
            BatchOpened, MemOpened, BatchMemOpened, SidecarWritten, HistoryWritten, Exported
<1>0. /\ run \in Nat /\ disk.timing \in [run : Nat, mem : Nat]
      /\ disk.sidecar \in [run : Nat, whole : BOOLEAN]
      /\ disk.history \in [run : Nat, mem : Nat]
  BY DEF PipelineInv, DiskInv
<1> DEFINE TimesKept == /\ disk'.sidecar = disk.sidecar /\ disk'.timing = disk.timing
                        /\ disk'.history = disk.history /\ lost'.time = lost.time
                        /\ UNCHANGED <<run, since>>
<1>1. CASE /\ TimesKept
           /\ rpc' \in BeforeTiming => rpc \in BeforeTiming
           /\ rpc' \in SidecarWritten => rpc \in SidecarWritten
           /\ rpc' \in HistoryWritten => rpc \in HistoryWritten
           /\ rpc' # "idle" => rpc # "idle"
  <2>1. SidecarMem' = SidecarMem /\ (TimeMachineAgrees' <=> TimeMachineAgrees)
    BY <1>1 DEF TimeMachineAgrees
  <2> HIDE DEF SidecarMem
  <2> QED
    BY <1>0, <1>1, <2>1
<1>2. CASE Clear
  <2>1. /\ disk'.sidecar = NoSidecar /\ disk'.timing \in {disk.timing, NoTiming}
        /\ since' = run + 1 /\ UNCHANGED run /\ rpc' = "idle"
    BY <1>2 DEF Clear, DiskInv
  <2> QED
    BY <1>0, <2>1 DEF NoTiming, NoSidecar
<1>3. CASE StartRegen
  <2>1. /\ run' = run + 1 /\ rpc' \in {"unpack", "featurescan"} /\ UNCHANGED <<disk, since>>
    BY <1>3 DEF StartRegen
  <2> QED
    BY <1>0, <2>1
<1>4. CASE SidecarStep
  <2>1. rpc = "sidecar" /\ rpc' = "history" /\ UNCHANGED <<run, since>>
    BY <1>4 DEF SidecarStep, Goes
  <2>2. disk'.timing = disk.timing
    BY <1>4 DEF SidecarStep, DiskInv
  <2>3. CASE disk.sidecar # NoSidecar
    <3>1. UNCHANGED disk
      BY <1>4, <2>3 DEF SidecarStep
    <3> QED
      BY <1>0, <2>1, <2>3, <3>1
  <2>4. CASE disk.sidecar = NoSidecar
    <3>0. run # 0 /\ \A w : [run |-> run, whole |-> w] # NoSidecar
      BY <1>0, <2>1 DEF PipelineInv, NoSidecar
    <3>1. \/ /\ disk'.sidecar.run = run /\ disk'.sidecar # NoSidecar
          \/ disk'.sidecar = NoSidecar /\ lost'.time # {}
      <4>1. \/ \E w \in BOOLEAN : disk' = [disk EXCEPT !.sidecar = [run |-> run, whole |-> w]]
            \/ disk' = disk /\ lost' = [lost EXCEPT !.time = @ \cup {"sidecar"}]
        BY <1>4, <2>4 DEF SidecarStep, Loses
      <4>2. CASE disk' = disk /\ lost' = [lost EXCEPT !.time = @ \cup {"sidecar"}]
        BY <2>4, <4>2 DEF LostInv
      <4>3. ASSUME NEW w \in BOOLEAN,
                   disk' = [disk EXCEPT !.sidecar = [run |-> run, whole |-> w]]
            PROVE  disk'.sidecar.run = run /\ disk'.sidecar # NoSidecar
        <5>1. disk'.sidecar = [run |-> run, whole |-> w]
          BY <4>3 DEF DiskInv
        <5> QED
          BY <3>0, <5>1
      <4> QED
        BY <4>1, <4>2, <4>3
    <3>2. since <= run
      BY <2>1
    <3> QED
      BY <1>0, <2>1, <2>2, <3>1, <3>2
  <2> QED
    BY <2>3, <2>4
<1>5. CASE TimingStep
  <2>1. rpc = "history" /\ rpc' = "export" /\ UNCHANGED <<run, since>>
    BY <1>5 DEF TimingStep, Goes
  <2>2. PICK checkpoint \in {Timed} \cup IF Reusable THEN {} ELSE {disk.timing, NoTiming},
             history \in {Timed, disk.history, NoTiming} :
          /\ disk' = [disk EXCEPT !.timing = checkpoint, !.history = history]
          /\ IF history # Timed THEN Loses("time", "history")
             ELSE IF checkpoint # Timed THEN Mishap /\ UNCHANGED lost ELSE LosesNothing
    BY <1>5 DEF TimingStep
  <2>3. disk'.sidecar = disk.sidecar /\ disk'.timing = checkpoint /\ disk'.history = history
    BY <2>2 DEF DiskInv
  <2>4. /\ Timed \in [run : Nat, mem : Nat] /\ Timed.run <= run
        /\ disk.sidecar # NoSidecar => Timed.mem = SidecarMem /\ disk.sidecar.run <= Timed.run
    BY <1>0, <2>1 DEF Timed, Reusable
  <2>5. /\ checkpoint \in [run : Nat, mem : Nat] /\ checkpoint.run <= run
        /\ disk.sidecar # NoSidecar /\ checkpoint # NoTiming /\ checkpoint.run >= disk.sidecar.run
             => checkpoint.mem = SidecarMem
    BY <1>0, <2>4 DEF NoTiming, Reusable
  <2>6. lost'.time = {} => lost.time = {} /\ history = Timed
    BY <2>2 DEF Loses, LosesNothing, LostInv
  <2>7. lost'.time = {} => disk.sidecar # NoSidecar
    BY <2>1, <2>6
  <2>8. SidecarMem' = SidecarMem
    BY <2>3
  <2>9. TimeMachineAgrees'
    BY <1>0, <2>1, <2>3, <2>4, <2>6, <2>7, <2>8 DEF TimeMachineAgrees
  <2> QED
    BY <1>0, <2>1, <2>3, <2>5, <2>7, <2>9
<1>6. CASE Edit \/ Unpack \/ WriteFile \/ OpenStep \/ CloseStep \/ Export \/ Badges \/ Fail
  BY <1>1, <1>6 DEF Edit, Unpack, WriteFile, OpenStep, Opened, CloseStep, Export, Badges, Fail,
     Goes, DiskInv
<1>7. CASE BenchPair \/ BatchPair \/ MemPair \/ BatchMemPair
  BY <1>1, <1>7 DEF BenchPair, BatchPair, MemPair, BatchMemPair, Loses, LosesNothing, DiskInv,
     LostInv
<1>8. CASE UNCHANGED regenVars
  BY <1>1, <1>8 DEF regenVars
<1> QED
  BY <1>2, <1>3, <1>4, <1>5, <1>6, <1>7, <1>8 DEF RegenNext

-----------------------------------------------------------------------------
(* The bench                                                               *)

\* Before the first run no bench was started.
LEMMA BenchInit == RegenInit => BenchInv
BY DEF RegenInit, BenchInv, BenchOpened, BatchOpened, MemOpened, BatchMemOpened,
       SidecarWritten, HistoryWritten, Exported

\* A bench writes a row of this run and its raw file per parser, unless the pair panicked.
LEMMA BenchStep ==
  PipelineInv /\ DiskInv /\ LostInv /\ BenchInv /\ [RegenNext]_regenVars => BenchInv'
<1> SUFFICES ASSUME PipelineInv, DiskInv, LostInv, BenchInv, [RegenNext]_regenVars,
                    rpc' \in BenchOpened
             PROVE  BenchInv'
  BY DEF BenchInv
<1> USE DEF Exported, HistoryWritten, SidecarWritten, BatchMemOpened, MemOpened,
            BatchOpened, BenchOpened
<1> DEFINE Undisturbed == /\ rpc \in BenchOpened /\ Left({"bench"})' = Left({"bench"})
                          /\ disk'.summary = disk.summary /\ disk'.raw = disk.raw
                          /\ lost'.raw = lost.raw /\ UNCHANGED <<run, skipped, code>>
<1>1. ASSUME Undisturbed PROVE BenchInv'
  <2>1. Known' = Known
    BY <1>1 DEF Known
  <2> QED
    BY <1>1, <2>1 DEF BenchInv
<1>2. CASE Edit \/ Clear \/ StartRegen \/ Unpack \/ Fail
  BY <1>2 DEF Edit, Clear, StartRegen, Unpack, Fail, PipelineInv
<1>3. CASE WriteFile \/ SidecarStep \/ TimingStep \/ Export \/ Badges
  <2>1. Undisturbed
    BY <1>3 DEF WriteFile, SidecarStep, TimingStep, Loses, LosesNothing, LostInv, Export, Badges,
                Goes, Left, DiskInv
  <2> QED
    BY <1>1, <2>1
<1>4. CASE OpenStep
  <2>1. CASE rpc = "bench_open"
    <3>1. /\ rpc' = "bench" /\ disk'.summary = {} /\ todo' = code.known /\ skipped' = {}
          /\ UNCHANGED code
      BY <1>4, <2>1 DEF OpenStep, Opened, Goes, DiskInv, PipelineInv
    <3>2. Left({"bench"})' = Known /\ Known' = Known
      BY <3>1 DEF Left, Known
    <3> QED
      BY <3>1, <3>2 DEF BenchInv
  <2>2. CASE rpc # "bench_open"
    <3>1. Undisturbed
      BY <1>4, <2>2 DEF OpenStep, Opened, Goes, Left, DiskInv
    <3> QED
      BY <1>1, <3>1
  <2> QED
    BY <2>1, <2>2
<1>5. CASE BenchPair
  <2> DEFINE p == Head(todo)
             row == [parser |-> p, run |-> run, some |-> p \in code.accepting]
             files(left) == [disk.raw EXCEPT ![p] = left]
             rows  == disk.summary \cup {row}
  <2>1. /\ rpc = "bench" /\ todo # <<>> /\ todo' = Tail(todo) /\ UNCHANGED <<rpc, run, code>>
        /\ \/ /\ \E left \in {disk.raw[p], run, 0} :
                  /\ disk' = [disk EXCEPT !.raw = files(left), !.summary = rows]
                  /\ row.some => left = run \/ p \in lost'.raw
             /\ UNCHANGED skipped
           \/ skipped' = skipped \cup {p} /\ UNCHANGED disk
    BY <1>5 DEF BenchPair, Loses, LosesNothing, LostInv
  <2>2. /\ Left({"bench"}) = {p} \cup Left({"bench"})' /\ p \notin Left({"bench"})'
        /\ p \in Known /\ p \in Everyone /\ Known' = Known
    BY <2>1, NextParser DEF Left, Known
  <2>3. /\ \A r \in disk.summary :
             r.run = run /\ (r.some /\ r.parser \notin lost.raw => disk.raw[r.parser] = run)
        /\ {r.parser : r \in disk.summary} = (Known \ Left({"bench"})) \ skipped
        /\ skipped \subseteq Known \ Left({"bench"})
    BY <2>1 DEF BenchInv
  <2>0. lost.raw \subseteq lost'.raw
    BY <1>5 DEF BenchPair, Loses, LosesNothing, LostInv
  <2>4. ASSUME NEW left, disk' = [disk EXCEPT !.raw = files(left), !.summary = rows],
               row.some => left = run \/ p \in lost'.raw, UNCHANGED skipped
        PROVE  BenchInv'
    <3>1. disk'.raw = files(left) /\ disk'.summary = rows
      BY <2>4 DEF DiskInv
    <3>2. /\ row.parser = p /\ row.run = run
          /\ files(left)[p] = left /\ \A q \in Everyone \ {p} : files(left)[q] = disk.raw[q]
      BY <2>2 DEF DiskInv
    <3>3. \A r \in disk.summary : r.parser \in Everyone
      BY DEF DiskInv
    <3>4. row.some /\ row.parser \notin lost'.raw => files(left)[row.parser] = run
      BY <2>4, <3>2
    <3> HIDE DEF row, files, p
    <3>5. \A r \in rows :
            r.run = run /\ (r.some /\ r.parser \notin lost'.raw => files(left)[r.parser] = run)
      <4>1. ASSUME NEW r \in disk.summary
            PROVE  /\ r.run = run
                   /\ r.some /\ r.parser \notin lost'.raw => files(left)[r.parser] = run
        <5>1. CASE r.parser = p
          BY <2>2, <2>3, <4>1, <5>1
        <5>2. CASE r.parser # p
          BY <2>0, <2>3, <3>2, <3>3, <5>2
        <5> QED
          BY <5>1, <5>2
      <4> QED
        BY <3>2, <3>4, <4>1
    <3>6. {r.parser : r \in rows} = {r.parser : r \in disk.summary} \cup {p}
      BY <3>2
    <3>7. /\ {r.parser : r \in rows} = (Known \ Left({"bench"})') \ skipped
          /\ skipped \subseteq Known \ Left({"bench"})'
      BY <2>2, <2>3, <3>6
    <3> QED
      BY <2>1, <2>2, <2>4, <3>1, <3>5, <3>7 DEF BenchInv
  <2>5. CASE skipped' = skipped \cup {p} /\ UNCHANGED disk
    <3> HIDE DEF p
    <3>1. /\ {r.parser : r \in disk.summary} = (Known \ Left({"bench"})') \ skipped'
          /\ skipped' \subseteq Known \ Left({"bench"})'
      BY <2>2, <2>3, <2>5
    <3> QED
      BY <2>0, <2>1, <2>2, <2>3, <2>5, <3>1 DEF BenchInv
  <2> QED
    BY <2>1, <2>4, <2>5
<1>6. CASE BatchPair \/ MemPair \/ BatchMemPair
  <2>1. Undisturbed
    BY <1>6 DEF BatchPair, MemPair, BatchMemPair, Loses, LosesNothing, LostInv, Left, DiskInv
  <2> QED
    BY <1>1, <2>1
<1>7. CASE CloseStep
  <2>1. Undisturbed
    BY <1>7, ToSetBasics DEF CloseStep, Goes, Left
  <2> QED
    BY <1>1, <2>1
<1>8. CASE UNCHANGED regenVars
  <2>1. Undisturbed
    BY <1>8 DEF regenVars, Left
  <2> QED
    BY <1>1, <2>1
<1> QED
  BY <1>2, <1>3, <1>4, <1>5, <1>6, <1>7, <1>8 DEF RegenNext

-----------------------------------------------------------------------------
(* The batches and the memory                                              *)

\* Before the first run neither the batches nor membench were started.
LEMMA BatchInit == RegenInit => BatchInv /\ MemInv
BY DEF RegenInit, BatchInv, MemInv, BatchOpened, MemOpened, BatchMemOpened,
       SidecarWritten, HistoryWritten, Exported

\* Since the batches were started their summaries have rows of this run only.
LEMMA BatchStep == PipelineInv /\ DiskInv /\ BatchInv /\ [RegenNext]_regenVars => BatchInv'
<1> SUFFICES ASSUME PipelineInv, DiskInv, BatchInv, [RegenNext]_regenVars PROVE BatchInv'
  OBVIOUS
<1> USE DEF BatchInv, Exported, HistoryWritten, SidecarWritten, BatchMemOpened, MemOpened,
            BatchOpened
<1>1. CASE Edit \/ Clear \/ StartRegen \/ Unpack \/ Fail
  BY <1>1 DEF Edit, Clear, StartRegen, Unpack, Fail, PipelineInv
<1>2. CASE WriteFile \/ SidecarStep \/ TimingStep \/ Export \/ Badges \/ CloseStep
  BY <1>2 DEF WriteFile, SidecarStep, TimingStep, Export, Badges, CloseStep, Goes, DiskInv
<1>3. CASE OpenStep
  BY <1>3 DEF OpenStep, Opened, Goes, DiskInv
<1>4. CASE BenchPair \/ MemPair
  BY <1>4 DEF BenchPair, MemPair, DiskInv
<1>5. CASE BatchPair
  BY <1>5 DEF BatchPair, DiskInv
<1>6. CASE BatchMemPair
  <2>1. /\ UNCHANGED <<rpc, run>> /\ rpc = "batch_mem" /\ disk'.batch = disk.batch
        /\ \A r \in disk'.batch_mem : r \in disk.batch_mem \/ r.run = run
    BY <1>6 DEF BatchMemPair, DiskInv
  <2> QED
    BY <2>1
<1>7. CASE UNCHANGED regenVars
  BY <1>7 DEF regenVars
<1> QED
  BY <1>1, <1>2, <1>3, <1>4, <1>5, <1>6, <1>7 DEF RegenNext

\* Since membench was started both its files are there for each parser it is through with.
LEMMA MemStep ==
  PipelineInv /\ DiskInv /\ LostInv /\ MemInv /\ [RegenNext]_regenVars => MemInv'
<1> SUFFICES ASSUME PipelineInv, DiskInv, LostInv, MemInv, [RegenNext]_regenVars,
                    rpc' \in MemOpened
             PROVE  MemInv'
  BY DEF MemInv
<1> USE DEF Exported, HistoryWritten, SidecarWritten, BatchMemOpened, MemOpened
<1> DEFINE Undisturbed == /\ rpc \in MemOpened /\ rpc \notin {"mem_half"} /\ rpc' # "mem_half"
                          /\ Left({"mem", "mem_half"})' = Left({"mem", "mem_half"})
                          /\ disk'.peak = disk.peak /\ disk'.retained = disk.retained
                          /\ lost'.peak = lost.peak /\ lost'.retained = lost.retained
                          /\ UNCHANGED <<run, code>>
<1>1. ASSUME Undisturbed PROVE MemInv'
  <2>1. /\ Known' = Known
        /\ \A p : /\ Measured(p)' <=> Measured(p)
                  /\ (PeakOf(p)' <=> PeakOf(p)) /\ (RetainedOf(p)' <=> RetainedOf(p))
    BY <1>1 DEF Known, Measured, PeakOf, RetainedOf
  <2> QED
    BY <1>1, <2>1 DEF MemInv
<1>2. CASE Edit \/ Clear \/ StartRegen \/ Unpack \/ Fail
  BY <1>2 DEF Edit, Clear, StartRegen, Unpack, Fail, PipelineInv
<1>3. CASE WriteFile \/ SidecarStep \/ TimingStep \/ Export \/ Badges
  <2>1. Undisturbed
    BY <1>3 DEF WriteFile, SidecarStep, TimingStep, Loses, LosesNothing, LostInv, Export, Badges,
                Goes, Left, DiskInv
  <2> QED
    BY <1>1, <2>1
<1>4. CASE OpenStep
  <2>1. CASE rpc = "mem_open"
    <3>1. rpc' = "mem" /\ todo' = code.known /\ UNCHANGED code
      BY <1>4, <2>1 DEF OpenStep, Goes
    <3>2. Left({"mem", "mem_half"})' = Known /\ Known' = Known
      BY <3>1 DEF Left, Known
    <3> QED
      BY <3>1, <3>2 DEF MemInv
  <2>2. CASE rpc # "mem_open"
    <3>1. Undisturbed
      BY <1>4, <2>2 DEF OpenStep, Opened, Goes, Left, DiskInv
    <3> QED
      BY <1>1, <3>1
  <2> QED
    BY <2>1, <2>2
<1>5. CASE MemPair
  <2> DEFINE p == Head(todo)
             peaks(left) == [disk.peak EXCEPT ![p] = left]
             rests(left) == [disk.retained EXCEPT ![p] = left]
  <2>1. /\ rpc \in {"mem", "mem_half"} /\ todo # <<>> /\ UNCHANGED <<run, code>>
        /\ \/ /\ rpc = "mem" /\ rpc' = "mem_half" /\ todo' = todo
              /\ \E left : /\ disk' = [disk EXCEPT !.peak = peaks(left)]
                           /\ left = run \/ p \in lost'.peak
           \/ /\ rpc = "mem_half" /\ rpc' = "mem" /\ todo' = Tail(todo)
              /\ \E left : /\ disk' = [disk EXCEPT !.retained = rests(left)]
                           /\ left = run \/ p \in lost'.retained
           \/ /\ rpc = "mem" /\ ~Measured(p) /\ rpc' = "mem" /\ todo' = Tail(todo)
              /\ UNCHANGED disk
    BY <1>5 DEF MemPair, Loses, LosesNothing, LostInv
  <2>2. /\ ToSet(todo) = {p} \cup ToSet(Tail(todo)) /\ p \in Everyone
        /\ Known' = Known /\ Known \subseteq Everyone /\ \A q : Measured(q)' <=> Measured(q)
    BY <2>1, NextParser, ProgramTypes DEF Known, Measured, PipelineInv
  <2>3. lost.peak \subseteq lost'.peak /\ lost.retained \subseteq lost'.retained
    BY <1>5 DEF MemPair, Loses, LosesNothing, LostInv
  <2> SUFFICES ASSUME NEW q \in Known, Measured(q)
               PROVE  /\ q \notin Left({"mem", "mem_half"})' => PeakOf(q)' /\ RetainedOf(q)'
                      /\ rpc' = "mem_half" /\ q = Head(todo') => PeakOf(q)'
    BY <2>1, <2>2, Zenon DEF MemInv
  <2>4. /\ q \notin ToSet(todo) => PeakOf(q) /\ RetainedOf(q)
        /\ rpc = "mem_half" /\ q = p => PeakOf(q)
        /\ q \in Everyone
    BY <2>1, <2>2 DEF MemInv, Left
  <2> HIDE DEF p
  <2>5. CASE rpc = "mem" /\ rpc' = "mem_half"
    <3>1. /\ \E left : disk'.peak = peaks(left) /\ (left = run \/ p \in lost'.peak)
          /\ disk'.retained = disk.retained /\ todo' = todo
      BY <2>1, <2>5 DEF DiskInv
    <3>2. /\ PeakOf(q) /\ q # p => PeakOf(q)'
          /\ q = p => PeakOf(q)'
          /\ RetainedOf(q) => RetainedOf(q)'
      BY <2>1, <2>2, <2>3, <2>4, <3>1 DEF PeakOf, RetainedOf, DiskInv
    <3> QED
      BY <2>2, <2>4, <2>5, <3>1, <3>2 DEF Left, p
  <2>6. CASE rpc = "mem_half"
    <3>1. /\ \E left : disk'.retained = rests(left) /\ (left = run \/ p \in lost'.retained)
          /\ disk'.peak = disk.peak /\ todo' = Tail(todo) /\ rpc' = "mem"
      BY <2>1, <2>6 DEF DiskInv
    <3>2. /\ PeakOf(q) => PeakOf(q)'
          /\ q = p => RetainedOf(q)'
          /\ RetainedOf(q) /\ q # p => RetainedOf(q)'
      BY <2>1, <2>2, <2>3, <2>4, <3>1 DEF PeakOf, RetainedOf, DiskInv
    <3> QED
      BY <2>2, <2>4, <2>6, <3>1, <3>2 DEF Left
  <2>7. CASE rpc = "mem" /\ rpc' = "mem"
    <3>1. UNCHANGED disk /\ todo' = Tail(todo) /\ ~Measured(p)
      BY <2>1, <2>7
    <3>2. (PeakOf(q) => PeakOf(q)') /\ (RetainedOf(q) => RetainedOf(q)')
      BY <2>1, <2>3, <3>1 DEF PeakOf, RetainedOf
    <3> QED
      BY <2>2, <2>4, <2>7, <3>1, <3>2 DEF Left
  <2> QED
    BY <2>1, <2>5, <2>6, <2>7
<1>6. CASE BenchPair \/ BatchPair \/ BatchMemPair
  <2>1. Undisturbed
    BY <1>6 DEF BenchPair, BatchPair, BatchMemPair, Loses, LosesNothing, LostInv, Left, DiskInv
  <2> QED
    BY <1>1, <2>1
<1>7. CASE CloseStep
  <2>1. Undisturbed
    BY <1>7, ToSetBasics DEF CloseStep, Goes, Left
  <2> QED
    BY <1>1, <2>1
<1>8. CASE UNCHANGED regenVars
  <2>1. /\ Known' = Known
        /\ \A p : /\ Measured(p)' <=> Measured(p)
                  /\ (PeakOf(p)' <=> PeakOf(p)) /\ (RetainedOf(p)' <=> RetainedOf(p))
    BY <1>8 DEF regenVars, Known, Measured, PeakOf, RetainedOf
  <2> QED
    BY <1>8, <2>1 DEF regenVars, MemInv, Left
<1> QED
  BY <1>2, <1>3, <1>4, <1>5, <1>6, <1>7, <1>8 DEF RegenNext

-----------------------------------------------------------------------------
(* The snapshot                                                            *)

\* What export makes of the files that this run's steps have left is of this run.
LEMMA ExportIsFresh ==
  ASSUME PipelineInv, DiskInv, TimeInv, BenchInv, BatchInv, MemInv, rpc = "export",
         bundle' = Snapshot, UNCHANGED <<run, code, disk, skipped, lost, since>>
  PROVE  Fresh'
<1> USE DEF Exported, HistoryWritten, SidecarWritten, BatchMemOpened, MemOpened,
            BatchOpened, BenchOpened, DepthWritten, FeaturesWritten
<1>1. /\ bundle'.perf = PerfFor /\ bundle'.mem = MemFor /\ bundle'.batch = BatchFor
      /\ Known' = Known /\ Everyone' = Everyone /\ \A p : Measured(p)' <=> Measured(p)
  BY DEF Snapshot, Known, Everyone, Measured
<1>2. /\ \A r \in disk.summary :
           r.run = run /\ (r.some /\ r.parser \notin lost.raw => disk.raw[r.parser] = run)
      /\ {r.parser : r \in disk.summary} = Known \ skipped
  BY DEF BenchInv, Left
<1>3. RetainKnown(disk.summary) = disk.summary
  BY <1>2 DEF RetainKnown
<1>4. \A x \in PerfFor : /\ x.row.run = run /\ x.row.parser \in Known
                         /\ x.row.some /\ x.row.parser \notin lost.raw => x.curve = run
  BY <1>2, <1>3 DEF PerfFor
<1>5. {x.row.parser : x \in PerfFor} = Known \ skipped
  <2>1. {x.row.parser : x \in PerfFor} = {r.parser : r \in disk.summary}
    <3> DEFINE x(r) == [row |-> r, curve |-> disk.raw[r.parser]]
    <3>1. PerfFor = {x(r) : r \in disk.summary} /\ \A r : x(r).row = r
      BY <1>3 DEF PerfFor
    <3> HIDE DEF x
    <3> QED
      BY <3>1
  <2> QED
    BY <1>2, <2>1
<1>6. \A b \in BatchFor : b.time \cup b.mem = {run}
  <2> DEFINE time == RetainKnown(disk.batch)
             mem  == RetainKnown(disk.batch_mem)
             Of(rows, p) == {r.run : r \in {x \in rows : x.parser = p}}
  <2>1. \A r \in time \cup mem : r.run = run
    BY DEF BatchInv, RetainKnown
  <2> DEFINE merged(p) == [parser |-> p, time |-> Of(time, p), mem |-> Of(mem, p)]
  <2>2. ASSUME NEW q \in time \cup mem
        PROVE  merged(q.parser).time \cup merged(q.parser).mem = {run}
    <3> HIDE DEF time, mem
    <3>1. q.run \in Of(time, q.parser) \cup Of(mem, q.parser)
      BY <2>2
    <3> QED
      BY <2>1, <2>2, <3>1
  <2>3. BatchFor = {merged(p) : p \in {r.parser : r \in time \cup mem}}
    BY DEF BatchFor
  <2> HIDE DEF time, mem, merged, Of
  <2> QED
    BY <2>2, <2>3
<1>7. \A p \in Known : Measured(p) => PeakOf(p) /\ RetainedOf(p)
  BY DEF MemInv, Left
<1>8. \A m \in MemFor : Measured(m.parser) =>
        /\ m.parser \notin lost.peak => m.peak = run
        /\ m.parser \notin lost.retained => m.retained = run
  BY <1>7 DEF MemFor, PeakOf, RetainedOf
<1>9. {p \in Everyone : Measured(p)} \ lost.peak \subseteq {m.parser : m \in MemFor}
  <2> SUFFICES ASSUME NEW p \in Everyone, Measured(p), p \notin lost.peak
               PROVE  \E m \in MemFor : m.parser = p
    OBVIOUS
  <2>1. p \in Known /\ run # 0
    BY ProgramTypes DEF PipelineInv, Measured
  <2>2. disk.peak[p] # 0
    BY <1>7, <2>1 DEF PeakOf
  <2> DEFINE m(q) == [parser |-> q, peak |-> disk.peak[q], retained |-> disk.retained[q]]
  <2>3. MemFor = {m(q) : q \in {q \in Known : disk.peak[q] # 0}} /\ m(p).parser = p
    BY DEF MemFor
  <2> HIDE DEF m
  <2> QED
    BY <2>1, <2>2, <2>3
<1>10. <<disk.features, disk.depth>> = <<run, run>> /\ TimeMachineAgrees
  BY DEF DiskInv, TimeInv
<1>11. TimeMachineAgrees'
  BY <1>10 DEF TimeMachineAgrees, SidecarMem
<1> QED
  BY <1>1, <1>4, <1>5, <1>6, <1>8, <1>9, <1>10, <1>11 DEF Fresh

\* What is exported is of this run, and the badges are made of what was exported.
LEMMA SnapshotStep ==
  PipelineInv /\ DiskInv /\ TimeInv /\ BenchInv /\ BatchInv /\ MemInv /\ SnapshotInv
    /\ [RegenNext]_regenVars => SnapshotInv'
<1> SUFFICES ASSUME PipelineInv, DiskInv, TimeInv, BenchInv, BatchInv, MemInv, SnapshotInv,
                    [RegenNext]_regenVars
             PROVE  SnapshotInv'
  OBVIOUS
<1>0. done => rpc = "idle"
  BY DEF PipelineInv
<1>1. ASSUME Fresh, UNCHANGED <<bundle, run, code, disk, skipped, lost, since>> PROVE Fresh'
  <2>1. TimeMachineAgrees' <=> TimeMachineAgrees
    BY <1>1 DEF TimeMachineAgrees, SidecarMem
  <2>2. Known' = Known /\ \A p : Measured(p)' <=> Measured(p)
    BY <1>1 DEF Known, Measured
  <2> QED
    BY <1>1, <2>1, <2>2, Zenon DEF Fresh, Everyone
<1>2. CASE Edit \/ Clear \/ StartRegen \/ Unpack \/ Fail
  BY <1>0, <1>2 DEF Edit, Clear, StartRegen, Unpack, Fail, SnapshotInv, Exported
<1>8. CASE SidecarStep \/ TimingStep
  <2>1. rpc # "idle" /\ rpc' \in {"history", "export"} /\ UNCHANGED done
    BY <1>8 DEF SidecarStep, TimingStep, Goes
  <2> QED
    BY <1>0, <2>1 DEF SnapshotInv, Exported
<1>3. CASE WriteFile \/ OpenStep \/ BenchPair \/ BatchPair
  BY <1>0, <1>3 DEF WriteFile, OpenStep, BenchPair, BatchPair, Goes, SnapshotInv, Exported
<1>4. CASE MemPair \/ BatchMemPair \/ CloseStep
  BY <1>0, <1>4 DEF MemPair, BatchMemPair, CloseStep, Goes, SnapshotInv, Exported
<1>5. CASE Export
  <2>1. /\ bundle' = Snapshot /\ UNCHANGED <<run, code, disk, skipped, lost, since>>
        /\ \/ rpc = "export" /\ rpc' = "badges" /\ done' = done
           \/ rpc = "idle" /\ rpc' = "idle" /\ done' = FALSE
    BY <1>5 DEF Export, Goes
  <2>2. CASE rpc = "export"
    BY <1>0, <2>1, <2>2, ExportIsFresh DEF SnapshotInv
  <2>3. CASE rpc = "idle"
    BY <2>1, <2>3 DEF SnapshotInv, Exported
  <2> QED
    BY <2>1, <2>2, <2>3
<1>6. CASE Badges
  <2>1. /\ UNCHANGED <<bundle, run, code, disk, skipped, lost, since>> /\ rpc \in Exported
        /\ \/ rpc' = "badges_half" /\ done' = done
           \/ rpc' = "idle" /\ badges' = bundle
    BY <1>6 DEF Badges, Goes, Exported
  <2>2. Fresh'
    BY <1>1, <2>1 DEF SnapshotInv
  <2> QED
    BY <1>0, <2>1, <2>2 DEF SnapshotInv, Exported
<1>7. CASE UNCHANGED regenVars
  BY <1>1, <1>7 DEF regenVars, SnapshotInv
<1> QED
  BY <1>2, <1>3, <1>4, <1>5, <1>6, <1>7, <1>8 DEF RegenNext

\* Whatever earlier runs, of whatever parsers, have left behind and wherever they were
\* cut off: what a regen that succeeds publishes is of this run, but for the files it could
\* not write, and the time machine's part of a run since its files were cleared (run_regen).
THEOREM RegenPublishes == Spec => []RegenPublishesThisRun
<1>1. Init => RegenInv
  <2>1. Init => RegenInit
    BY DEF Init
  <2>2. RegenInit => SnapshotInv
    BY DEF RegenInit, SnapshotInv, Exported
  <2> QED
    BY <2>1, <2>2, PipelineInit, DiskInit, TimeInit, BenchInit, BatchInit DEF RegenInv
<1>2. RegenInv /\ [Next]_allVars => RegenInv'
  <2>1. [Next]_allVars => [RegenNext]_regenVars
    BY DEF Next, allVars
  <2> QED
    BY <2>1, PipelineStep, DiskStep, LostStep, TimeStep, BenchStep, BatchStep, MemStep,
       SnapshotStep DEF RegenInv
<1>3. RegenInv => RegenPublishesThisRun
  BY DEF RegenInv, SnapshotInv, Fresh, RegenPublishesThisRun
<1> QED
  BY <1>1, <1>2, <1>3, PTL DEF Spec

-----------------------------------------------------------------------------
(* The exchange with the sqlite3 process                                   *)

\* The lines the process has read, the errors among the first n lines, and those read
\* or on their way.
LinesRead == written - Len(stdin)
ErrorsTo(n) == {i \in 1..n : script[i]}
Reported == out + stderr + (IF report THEN 1 ELSE 0)

\* The pipe holds the lines written last that are not yet read; an error is reported for
\* each line read that has one; a writer that has ended left nothing out while there was
\* someone to write to; the process ends by itself only when it has read everything; and
\* the main thread stops to drain only when there is nothing more to come.
PipesInv ==
  /\ script \in Seq(BOOLEAN) /\ written \in 0..Len(script) /\ stdin \in Seq(BOOLEAN)
  /\ writer \in {"writing", "done"} /\ child \in {"running", "exited", "crashed"}
  /\ main \in {"draining", "joining", "labelled", "bailed"}
  /\ report \in BOOLEAN /\ stderr \in 0..PipeSize /\ out \in Nat
  /\ Len(stdin) <= written
  /\ \A i \in 1..Len(stdin) : stdin[i] = script[LinesRead + i]
  /\ Reported = Cardinality(ErrorsTo(LinesRead))
  /\ writer = "done" /\ child = "running" => written = Len(script)
  /\ child = "exited" => written = Len(script) /\ stdin = <<>> /\ ~report
  /\ main # "draining" => stderr = 0 /\ child # "running"
  /\ main = "labelled" => child = "exited"

\* Before the first line is written the accounting of the pipes holds.
LEMMA PipesStart == PipesInit => PipesInv
<1> SUFFICES ASSUME PipesInit PROVE PipesInv
  OBVIOUS
<1>1. /\ script \in Seq(BOOLEAN) /\ PipeSize \in Nat \ {0}
      /\ written = 0 /\ stderr = 0 /\ out = 0 /\ stdin = <<>> /\ report = FALSE
      /\ writer = "writing" /\ child = "running" /\ main = "draining"
  BY PipesAssumption DEF PipesInit
<1>2. Len(script) \in Nat /\ Len(stdin) = 0 /\ stdin \in Seq(BOOLEAN)
  BY <1>1, LenProperties
<1>3. LinesRead = 0 /\ Cardinality(ErrorsTo(LinesRead)) = 0
  <2>1. LinesRead = 0
    <3>1. written = 0 /\ Len(stdin) = 0
      BY <1>1, <1>2
    <3> QED
      BY <3>1 DEF LinesRead
  <2>2. ErrorsTo(0) = {}
    BY DEF ErrorsTo
  <2>3. Cardinality({}) = 0
    BY FS_EmptySet
  <2> QED
    BY <2>1, <2>2, <2>3
<1>4. Reported = 0
  BY <1>1 DEF Reported
<1>5. /\ written \in 0..Len(script) /\ stderr \in 0..PipeSize /\ out \in Nat
      /\ Len(stdin) <= written /\ report \in BOOLEAN
  <2>1. written \in 0..Len(script) /\ stderr \in 0..PipeSize /\ out \in Nat
    BY <1>1, <1>2
  <2>2. Len(stdin) <= written
    <3>1. written = 0 /\ Len(stdin) = 0
      BY <1>1, <1>2
    <3> QED
      BY <3>1
  <2>3. report \in BOOLEAN
    BY <1>1
  <2> QED
    BY <2>1, <2>2, <2>3
<1>6. \A i \in 1..Len(stdin) : FALSE
  BY <1>2
<1> QED
  BY <1>1, <1>2, <1>3, <1>4, <1>5, <1>6 DEF PipesInv

\* One more line of the script is one more error exactly if the statement on it has one.
LEMMA OneMoreError ==
  ASSUME NEW n \in Nat
  PROVE  Cardinality(ErrorsTo(n + 1))
           = Cardinality(ErrorsTo(n)) + (IF script[n + 1] THEN 1 ELSE 0)
         /\ Cardinality(ErrorsTo(n)) \in Nat
<1>1. IsFiniteSet(ErrorsTo(n))
  <2>1. 1 \in Int /\ n \in Int /\ ErrorsTo(n) \in SUBSET (1..n)
    BY DEF ErrorsTo
  <2>2. IsFiniteSet(1..n)
    BY <2>1, FS_Interval
  <2> QED
    BY <2>1, <2>2, FS_Subset
<1>2. Cardinality(ErrorsTo(n)) \in Nat
  BY <1>1, FS_CardinalityType
<1>3. n + 1 \notin ErrorsTo(n)
  BY DEF ErrorsTo
<1>4. CASE script[n + 1]
  <2>1. ErrorsTo(n + 1) = ErrorsTo(n) \cup {n + 1}
    BY <1>4 DEF ErrorsTo
  <2>2. Cardinality(ErrorsTo(n + 1)) = Cardinality(ErrorsTo(n)) + 1
    BY <1>1, <1>3, <2>1, FS_AddElement
  <2> QED
    BY <1>2, <1>4, <2>2
<1>5. CASE ~script[n + 1]
  <2>1. ErrorsTo(n + 1) = ErrorsTo(n)
    BY <1>5 DEF ErrorsTo
  <2> QED
    BY <1>2, <1>5, <2>1
<1> QED
  BY <1>4, <1>5

\* Every step of the writer, the process or the main thread keeps the accounting of the pipes.
LEMMA PipesStep == PipesInv /\ [PipesNext]_pipeVars => PipesInv'
<1> SUFFICES ASSUME PipesInv, [PipesNext]_pipeVars PROVE PipesInv'
  OBVIOUS
<1>0. /\ Len(script) \in Nat /\ Len(stdin) \in Nat /\ written \in Nat /\ PipeSize \in Nat \ {0}
      /\ LinesRead \in Nat /\ stderr \in Nat /\ out \in Nat
  BY PipesAssumption, LenProperties DEF PipesInv, LinesRead
<1>1. CASE Write
  <2>1. CASE UNCHANGED <<stdin, written>>
    <3>1. /\ UNCHANGED <<script, stdin, written, child, report, stderr, out, main>>
          /\ writer' = "done" /\ (written = Len(script) \/ child # "running")
      BY <1>0, <1>1, <2>1 DEF Write
    <3>2. LinesRead' = LinesRead /\ ErrorsTo(LinesRead)' = ErrorsTo(LinesRead) /\ Reported' = Reported
      BY <3>1 DEF LinesRead, ErrorsTo, Reported
    <3> QED
      BY <3>1, <3>2 DEF PipesInv
  <2>2. CASE ~UNCHANGED <<stdin, written>>
    <3>1. /\ UNCHANGED <<script, writer, child, report, stderr, out, main>>
          /\ child = "running" /\ writer = "writing" /\ written < Len(script)
          /\ stdin' = Append(stdin, script[written + 1]) /\ written' = written + 1
      BY <1>1, <2>2 DEF Write
    <3>2. script[written + 1] \in BOOLEAN
      BY <1>0, <3>1, ElementOfSeq DEF PipesInv
    <3>3. /\ stdin' \in Seq(BOOLEAN) /\ Len(stdin') = Len(stdin) + 1
          /\ stdin'[Len(stdin) + 1] = script[written + 1]
          /\ \A i \in 1..Len(stdin) : stdin'[i] = stdin[i]
      BY <3>1, <3>2, AppendProperties DEF PipesInv
    <3>4. LinesRead' = LinesRead
      BY <1>0, <3>1, <3>3 DEF LinesRead
    <3>5. ErrorsTo(LinesRead)' = ErrorsTo(LinesRead) /\ Reported' = Reported
      BY <3>1, <3>4 DEF ErrorsTo, Reported
    <3>6. \A i \in 1..Len(stdin') : stdin'[i] = script[LinesRead + i]
      <4> SUFFICES ASSUME NEW i \in 1..Len(stdin') PROVE stdin'[i] = script[LinesRead + i]
        OBVIOUS
      <4>1. CASE i = Len(stdin) + 1
        <5>1. LinesRead + i = written + 1
          BY <1>0, <4>1 DEF LinesRead
        <5> QED
          BY <3>3, <4>1, <5>1
      <4>2. CASE i # Len(stdin) + 1
        <5>1. i \in 1..Len(stdin)
          BY <1>0, <3>3, <4>2
        <5> QED
          BY <3>3, <5>1 DEF PipesInv
      <4> QED
        BY <4>1, <4>2
    <3>7. written' \in 0..Len(script) /\ Len(stdin') <= written'
      BY <1>0, <3>1, <3>3 DEF PipesInv
    <3> QED
      BY <3>1, <3>3, <3>4, <3>5, <3>6, <3>7 DEF PipesInv
  <2> QED
    BY <2>1, <2>2
<1>2. CASE ChildStep
  <2>0. /\ child = "running" /\ UNCHANGED <<script, written, writer, out, main>> /\ main = "draining"
    BY <1>2 DEF ChildStep, PipesInv
  <2>1. CASE /\ ~report /\ stdin # <<>> /\ report' = Head(stdin) /\ stdin' = Tail(stdin)
             /\ UNCHANGED <<stderr, child>>
    <3>1. /\ stdin' \in Seq(BOOLEAN) /\ Len(stdin') = Len(stdin) - 1 /\ Len(stdin) >= 1
          /\ \A i \in 1..Len(stdin') : stdin'[i] = stdin[i + 1]
          /\ Head(stdin) = stdin[1] /\ stdin[1] \in BOOLEAN
      BY <1>0, <2>1, EmptySeq, LenProperties, HeadTailProperties, ElementOfSeq DEF PipesInv
    <3>2. LinesRead' = LinesRead + 1
      BY <1>0, <2>0, <3>1 DEF LinesRead
    <3>3. stdin[1] = script[LinesRead + 1]
      BY <1>0, <3>1 DEF PipesInv
    <3>4. Cardinality(ErrorsTo(LinesRead + 1))
            = Cardinality(ErrorsTo(LinesRead)) + (IF script[LinesRead + 1] THEN 1 ELSE 0)
      BY <1>0, OneMoreError
    <3>5. Reported = out + stderr /\ report' = script[LinesRead + 1]
      BY <1>0, <2>1, <3>1, <3>3 DEF Reported
    <3>6. Reported' = out + stderr + (IF script[LinesRead + 1] THEN 1 ELSE 0)
      BY <2>0, <2>1, <3>5 DEF Reported
    <3>7. ErrorsTo(LinesRead)' = ErrorsTo(LinesRead + 1)
      BY <2>0, <3>2 DEF ErrorsTo
    <3>8. Reported' = Cardinality(ErrorsTo(LinesRead)')
      <4>1. Reported = Cardinality(ErrorsTo(LinesRead))
        BY DEF PipesInv
      <4> QED
        BY <3>4, <3>5, <3>6, <3>7, <4>1
    <3>9. \A i \in 1..Len(stdin') : stdin'[i] = script[LinesRead' + i]
      <4> SUFFICES ASSUME NEW i \in 1..Len(stdin') PROVE stdin'[i] = script[LinesRead' + i]
        OBVIOUS
      <4>1. i + 1 \in 1..Len(stdin) /\ LinesRead' + i = LinesRead + (i + 1)
        BY <1>0, <3>1, <3>2
      <4> QED
        BY <3>1, <4>1 DEF PipesInv
    <3>10. Len(stdin') <= written
      BY <1>0, <3>1 DEF PipesInv
    <3>11. report' \in BOOLEAN
      BY <2>1, <3>1
    <3> QED
      BY <2>0, <2>1, <3>1, <3>8, <3>9, <3>10, <3>11 DEF PipesInv
  <2>2. CASE /\ report /\ stderr < PipeSize /\ stderr' = stderr + 1 /\ report' = FALSE
             /\ UNCHANGED <<stdin, child>>
    <3>1. LinesRead' = LinesRead /\ ErrorsTo(LinesRead)' = ErrorsTo(LinesRead)
      BY <2>0, <2>2 DEF LinesRead, ErrorsTo
    <3>2. Reported' = Reported /\ stderr' \in 0..PipeSize
      BY <1>0, <2>0, <2>2 DEF Reported
    <3> QED
      BY <2>0, <2>2, <3>1, <3>2 DEF PipesInv
  <2>3. CASE /\ ~report /\ stdin = <<>> /\ writer = "done"
             /\ child' = "exited" /\ UNCHANGED <<stdin, stderr, report>>
    <3>1. LinesRead' = LinesRead /\ ErrorsTo(LinesRead)' = ErrorsTo(LinesRead) /\ Reported' = Reported
      BY <2>0, <2>3 DEF LinesRead, ErrorsTo, Reported
    <3> QED
      BY <2>0, <2>3, <3>1 DEF PipesInv
  <2> QED
    BY <1>2, <2>1, <2>2, <2>3 DEF ChildStep
<1>3. CASE Crash
  <2>1. LinesRead' = LinesRead /\ ErrorsTo(LinesRead)' = ErrorsTo(LinesRead) /\ Reported' = Reported
    BY <1>3 DEF Crash, LinesRead, ErrorsTo, Reported
  <2> QED
    BY <1>3, <2>1 DEF Crash, PipesInv
<1>4. CASE Main
  <2>0. UNCHANGED <<script, written, stdin, writer, child, report>>
    BY <1>4 DEF Main
  <2>1. LinesRead' = LinesRead /\ ErrorsTo(LinesRead)' = ErrorsTo(LinesRead)
    BY <2>0 DEF LinesRead, ErrorsTo
  <2>2. CASE main = "draining" /\ stderr > 0 /\ stderr' = stderr - 1 /\ out' = out + 1 /\ UNCHANGED main
    <3>1. Reported' = Reported /\ stderr' \in 0..PipeSize /\ out' \in Nat
      BY <1>0, <2>0, <2>2 DEF Reported, PipesInv
    <3> QED
      BY <2>0, <2>1, <2>2, <3>1 DEF PipesInv
  <2>3. CASE UNCHANGED <<stderr, out>>
    <3>1. Reported' = Reported
      BY <2>0, <2>3 DEF Reported
    <3>2. \/ main = "draining" /\ main' \in {"draining", "joining"}
              /\ (main' = "joining" => stderr = 0 /\ child # "running")
          \/ main = "joining" /\ main' \in {"labelled", "bailed"} /\ (main' = "labelled" => child = "exited")
      BY <1>0, <1>4, <2>3 DEF Main, MayDrain, End
    <3> QED
      BY <2>0, <2>1, <2>3, <3>1, <3>2 DEF PipesInv
  <2> QED
    BY <1>4, <2>2, <2>3 DEF Main, MayDrain
<1>5. CASE UNCHANGED pipeVars
  BY <1>5 DEF pipeVars, PipesInv, LinesRead, ErrorsTo, Reported
<1> QED
  BY <1>1, <1>2, <1>3, <1>4, <1>5 DEF PipesNext

\* The accounting of the pipes holds in every reachable state.
LEMMA PipesInvariant == Spec => []PipesInv
<1>1. Init => PipesInv
  BY PipesStart DEF Init
<1>2. PipesInv /\ [Next]_allVars => PipesInv'
  <2>1. [Next]_allVars => [PipesNext]_pipeVars
    BY DEF Next, allVars
  <2> QED
    BY <2>1, PipesStep
<1> QED
  BY <1>1, <1>2, PTL DEF Spec

\* However long the script and however small the pipes: if label_sqlite labels the
\* statements, then it has read an error for every line that has one, and no other.
THEOREM PipesAnswerIsWhole == Spec => []AnswerIsWhole
<1>1. PipesInv => AnswerIsWhole
  <2> SUFFICES ASSUME PipesInv, main = "labelled" PROVE out = Cardinality(ErrorLines)
    BY DEF AnswerIsWhole
  <2>1. /\ written = Len(script) /\ stdin = <<>> /\ ~report /\ stderr = 0
        /\ Len(script) \in Nat /\ out \in Nat
    BY LenProperties DEF PipesInv
  <2>2. LinesRead = Len(script) /\ Reported = out
    BY <2>1 DEF LinesRead, Reported
  <2> QED
    BY <2>2 DEF PipesInv, ErrorsTo, ErrorLines
<1> QED
  BY <1>1, PipesInvariant, PTL

\* What the writer thread, the process and the main thread wait for.
WriterWaits == writer = "done" \/ /\ child = "running" /\ written < Len(script)
                                  /\ Len(stdin) >= PipeSize
ChildWaits == child # "running" \/ IF report THEN stderr >= PipeSize
                                              ELSE stdin = <<>> /\ writer # "done"
MainWaits == IF main = "joining" THEN writer # "done" ELSE stderr = 0 /\ child = "running"

\* However small the pipes: the writer thread, the sqlite3 process and the main thread
\* never all wait for each other (label_sqlite drains stderr while it writes).
THEOREM PipesNeverStuck ==
  Spec => [](main \in {"labelled", "bailed"} \/ ~(WriterWaits /\ ChildWaits /\ MainWaits))
<1>1. PipesInv => main \in {"labelled", "bailed"} \/ ~(WriterWaits /\ ChildWaits /\ MainWaits)
  <2> SUFFICES ASSUME PipesInv, main \in {"draining", "joining"},
                      WriterWaits, ChildWaits, MainWaits
               PROVE  FALSE
    BY DEF PipesInv
  <2>1. PipeSize \in Nat \ {0} /\ Len(stdin) \in Nat /\ stderr \in Nat /\ Len(<<>>) = 0
    BY PipesAssumption, LenProperties DEF PipesInv
  <2>2. CASE main = "joining"
    BY <2>2 DEF PipesInv, MainWaits, WriterWaits
  <2>3. CASE main = "draining"
    <3>1. stderr = 0 /\ child = "running"
      BY <2>3 DEF MainWaits
    <3>2. stdin = <<>> /\ writer # "done"
      BY <2>1, <3>1 DEF ChildWaits
    <3> QED
      BY <2>1, <3>2 DEF WriterWaits
  <2> QED
    BY <2>2, <2>3
<1> QED
  BY <1>1, PipesInvariant, PTL

-----------------------------------------------------------------------------
(* Grading: induction over finite sets                                     *)

\* A family E of subsets of a finite D that has {} and, with a smaller set, the set it
\* came from, has all of them: a minimal set outside of E would have none below it.
LEMMA FiniteInduction ==
  ASSUME NEW D, IsFiniteSet(D), NEW E, {} \in E,
         \A s \in SUBSET D : s # {} => \E x \in s : s \ {x} \in E => s \in E
  PROVE  \A s \in SUBSET D : s \in E
PROOF
<1> DEFINE T == {s \in SUBSET D : s \notin E}
<1> SUFFICES ASSUME T # {} PROVE FALSE
  OBVIOUS
<1>1. T \in SUBSET FiniteSubsetsOf(D)
  BY FS_FiniteSubsetsOfFinite
<1>2. PICK s \in T : \A r \in T : ~(<<r, s>> \in StrictSubsetOrdering(D))
  <2> HIDE DEF T
  <2> QED
    BY <1>1, FS_StrictSubsetOrderingWellFounded, WFMin, Zenon
<1>3. s \in SUBSET D /\ s # {}
  OBVIOUS
<1>4. PICK x \in s : s \ {x} \in E => s \in E
  BY <1>3
<1>5. s \ {x} \in T
  BY <1>3, <1>4
<1>6. <<s \ {x}, s>> \in StrictSubsetOrdering(D)
  BY <1>3 DEF StrictSubsetOrdering
<1> QED
  BY <1>2, <1>5, <1>6

Below == {p \in Nat \X Nat : p[1] < p[2]}

\* The folds of the community modules take the largest index first: there is one.
LEMMA HasMax ==
  ASSUME NEW n \in Nat, NEW s \in SUBSET (1..n), s # {}
  PROVE  Max(s) \in s /\ \A y \in s : y <= Max(s)
PROOF
<1> DEFINE T == {n - y : y \in s}
<1>1. T \in SUBSET Nat /\ T # {}
  <2>1. \A y \in s : n - y \in Nat
    OBVIOUS
  <2> QED
    BY <2>1
<1>2. PICK m \in T : \A k \in T : ~(<<k, m>> \in Below)
  <2>1. IsWellFoundedOn(Below, Nat)
    BY NatLessThanWellFounded DEF OpToRel, Below
  <2> HIDE DEF T
  <2> QED
    BY <1>1, <2>1, WFMin, Zenon
<1>3. PICK x \in s : m = n - x
  OBVIOUS
<1>4. ASSUME NEW y \in s PROVE x >= y
  <2>1. n - y \in T /\ n - y \in Nat /\ n - x \in Nat
    OBVIOUS
  <2>2. ~(n - y < n - x)
    BY <1>2, <1>3, <2>1 DEF Below
  <2> QED
    BY <2>1, <2>2
<1>5. Max(s) \in s /\ \A y \in s : Max(s) >= y
  BY <1>3, <1>4 DEF Max
<1> QED
  BY <1>5

-----------------------------------------------------------------------------
(* Grading: the counters in closed form                                    *)

Apart(I, J) == I \cap J = {}

\* How many elements of K are in I.
Overlap(I, K) == Cardinality(I \cap K)

\* The statements each counter of grade_chunk counts, in closed form.
Miss(reference, s) == reference /\ s.label = "miss"
Valid(reference, stmts) ==
  {i \in DOMAIN stmts : ~Miss(reference, stmts[i]) /\ IsValid(reference, stmts[i])}
ValidContentious(reference, stmts) ==
  {i \in DOMAIN stmts : ~Miss(reference, stmts[i]) /\ IsContentious(reference, stmts[i])}
Invalid(reference, stmts) ==
  {i \in DOMAIN stmts : ~Miss(reference, stmts[i]) /\ ~IsValid(reference, stmts[i])}
Hits(reference, stmts, p, c) ==
  {i \in DOMAIN stmts : ~Miss(reference, stmts[i]) /\ StatOf(reference, stmts[i], p)[c] = 1}
TallyStats(reference, stmts, I) ==
  [j \in DOMAIN Supporting |->
     [c \in DOMAIN ZeroStat |->
        Overlap(I, Hits(reference, stmts, Supporting[j], c))]]
\* The report of the statements of stmts at the positions in I.
Tally(reference, stmts, I) ==
  [valid_total |-> Overlap(I, Valid(reference, stmts)),
   contentious_valid |-> Overlap(I, ValidContentious(reference, stmts)),
   invalid_total |-> Overlap(I, Invalid(reference, stmts)),
   stats |-> TallyStats(reference, stmts, I)]

OverlapsAdd(I, J) == \A K : Overlap(I \cup J, K) = Overlap(I, K) + Overlap(J, K)

\* Counting in two sets that have no element in common.
LEMMA OverlapOfUnion ==
  ASSUME NEW I, NEW J, IsFiniteSet(I), IsFiniteSet(J), Apart(I, J)
  PROVE  OverlapsAdd(I, J)
PROOF
<1> SUFFICES ASSUME NEW K
             PROVE  Overlap(I \cup J, K) = Overlap(I, K) + Overlap(J, K)
  BY DEF OverlapsAdd
<1> DEFINE A == I \cap K
           B == J \cap K
<1>1. IsFiniteSet(A) /\ IsFiniteSet(B)
  BY FS_Intersection
<1>2. (I \cup J) \cap K = A \cup B /\ A \cap B = {}
  BY DEF Apart
<1> HIDE DEF A, B
<1>3. Cardinality(A) \in Nat /\ Cardinality(B) \in Nat /\ Cardinality({}) = 0
  BY <1>1, FS_CardinalityType, FS_EmptySet
<1>4. Cardinality(A \cup B) = Cardinality(A) + Cardinality(B) - Cardinality(A \cap B)
  BY <1>1, FS_Union
<1>5. Cardinality(A \cap B) = 0 /\ Overlap(I \cup J, K) = Cardinality(A \cup B)
  BY <1>2, <1>3, Zenon DEF Overlap
<1>6. Overlap(I, K) = Cardinality(A) /\ Overlap(J, K) = Cardinality(B)
  BY DEF A, B, Overlap
<1> QED
  BY <1>3, <1>4, <1>5, <1>6

\* DialectReport::merge of the reports of two sets of statements.
LEMMA TallyMerge ==
  ASSUME NEW reference, NEW stmts, NEW I, NEW J,
         IsFiniteSet(I), IsFiniteSet(J), Apart(I, J)
  PROVE  ReportMerge(Tally(reference, stmts, I), Tally(reference, stmts, J))
           = Tally(reference, stmts, I \cup J)
PROOF
<1>1. \A K : Overlap(I \cup J, K) = Overlap(I, K) + Overlap(J, K)
  <2>1. OverlapsAdd(I, J)
    BY OverlapOfUnion, Zenon
  <2> QED
    BY <2>1 DEF OverlapsAdd
<1>2. \A j \in DOMAIN Supporting :
        StatMerge(TallyStats(reference, stmts, I)[j], TallyStats(reference, stmts, J)[j])
          = TallyStats(reference, stmts, I \cup J)[j]
  BY <1>1 DEF TallyStats, StatMerge
<1>3. DOMAIN TallyStats(reference, stmts, I) = DOMAIN Supporting
  BY DEF TallyStats
<1>4. [j \in DOMAIN TallyStats(reference, stmts, I) |->
         StatMerge(TallyStats(reference, stmts, I)[j], TallyStats(reference, stmts, J)[j])]
        = TallyStats(reference, stmts, I \cup J)
  <2>1. TallyStats(reference, stmts, I \cup J)
          = [j \in DOMAIN Supporting |-> TallyStats(reference, stmts, I \cup J)[j]]
    BY DEF TallyStats
  <2> QED
    BY <1>2, <1>3, <2>1
<1> QED
  BY <1>1, <1>4 DEF Tally, ReportMerge

\* One round of the loop in grade_chunk.
LEMMA GradeStep ==
  ASSUME NEW reference \in BOOLEAN, NEW stmts, NEW I, IsFiniteSet(I),
         NEW k \in DOMAIN stmts, k \notin I
  PROVE  GradeOne(reference, Tally(reference, stmts, I), stmts[k])
           = Tally(reference, stmts, I \cup {k})
PROOF
<1>1. IsFiniteSet({k}) /\ Apart(I, {k})
  BY FS_Singleton DEF Apart
<1>2. \A K : Overlap({k}, K) = IF k \in K THEN 1 ELSE 0
  <2>1. \A K : IF k \in K THEN {k} \cap K = {k} ELSE {k} \cap K = {}
    OBVIOUS
  <2>2. Cardinality({k}) = 1 /\ Cardinality({}) = 0
    BY FS_Singleton, FS_EmptySet
  <2> QED
    BY <2>1, <2>2, Zenon DEF Overlap
<1>3. CASE Miss(reference, stmts[k])
  <2>1. \A K : k \notin K => Overlap(I \cup {k}, K) = Overlap(I, K)
    <3>1. \A K : k \notin K => (I \cup {k}) \cap K = I \cap K
      OBVIOUS
    <3> QED
      BY <3>1, Zenon DEF Overlap
  <2>2. /\ k \notin Valid(reference, stmts) /\ k \notin ValidContentious(reference, stmts)
        /\ k \notin Invalid(reference, stmts)
    BY <1>3 DEF Valid, ValidContentious, Invalid
  <2>3. \A p, c : k \notin Hits(reference, stmts, p, c)
    BY <1>3 DEF Hits
  <2>4. TallyStats(reference, stmts, I) = TallyStats(reference, stmts, I \cup {k})
    BY <2>1, <2>3 DEF TallyStats
  <2>5. GradeOne(reference, Tally(reference, stmts, I), stmts[k])
          = Tally(reference, stmts, I)
    BY <1>3 DEF GradeOne, Miss
  <2> QED
    BY <2>1, <2>2, <2>4, <2>5 DEF Tally
<1>4. CASE ~Miss(reference, stmts[k])
  <2>1. /\ Overlap({k}, Valid(reference, stmts))
             = One(IsValid(reference, stmts[k]))
        /\ Overlap({k}, ValidContentious(reference, stmts))
             = One(IsContentious(reference, stmts[k]))
        /\ Overlap({k}, Invalid(reference, stmts))
             = One(~IsValid(reference, stmts[k]))
    BY <1>2, <1>4 DEF Valid, ValidContentious, Invalid, One
  <2>2. \A p : \A c \in DOMAIN ZeroStat :
          Overlap({k}, Hits(reference, stmts, p, c))
            = StatOf(reference, stmts[k], p)[c]
    <3> SUFFICES ASSUME NEW p, NEW c \in DOMAIN ZeroStat
                 PROVE  Overlap({k}, Hits(reference, stmts, p, c))
                          = StatOf(reference, stmts[k], p)[c]
      OBVIOUS
    <3>1. StatOf(reference, stmts[k], p)[c] \in {0, 1}
      BY DEF StatOf, ZeroStat, One
    <3>2. k \in Hits(reference, stmts, p, c) <=> StatOf(reference, stmts[k], p)[c] = 1
      BY <1>4 DEF Hits
    <3> QED
      BY <1>2, <3>1, <3>2
  <2> DEFINE inc == [valid_total |-> One(IsValid(reference, stmts[k])),
                     contentious_valid |-> One(IsContentious(reference, stmts[k])),
                     invalid_total |-> One(~IsValid(reference, stmts[k])),
                     stats |-> [i \in DOMAIN Supporting |->
                       StatOf(reference, stmts[k], Supporting[i])]]
  <2>3. GradeOne(reference, Tally(reference, stmts, I), stmts[k])
          = ReportMerge(Tally(reference, stmts, I), inc)
    BY <1>4 DEF GradeOne, Miss
  <2>4. ReportMerge(Tally(reference, stmts, I), inc)
          = ReportMerge(Tally(reference, stmts, I), Tally(reference, stmts, {k}))
    <3>1. \A j \in DOMAIN Supporting :
            StatMerge(TallyStats(reference, stmts, I)[j], inc.stats[j])
              = StatMerge(TallyStats(reference, stmts, I)[j],
                                 TallyStats(reference, stmts, {k})[j])
      BY <2>2 DEF TallyStats, StatMerge
    <3>2. DOMAIN TallyStats(reference, stmts, I) = DOMAIN Supporting
      BY DEF TallyStats
    <3> QED
      BY <2>1, <3>1, <3>2 DEF Tally, ReportMerge
  <2> QED
    BY <1>1, <2>3, <2>4, TallyMerge
<1> QED
  BY <1>3, <1>4

\* DialectReport::empty.
LEMMA EmptyTally ==
  ASSUME NEW reference, NEW stmts
  PROVE  Tally(reference, stmts, {}) = EmptyReport
PROOF
<1>1. \A K : Overlap({}, K) = 0
  <2>1. \A K : {} \cap K = {}
    OBVIOUS
  <2> QED
    BY <2>1, FS_EmptySet, Zenon DEF Overlap
<1>2. [c \in DOMAIN ZeroStat |-> 0] = ZeroStat
  BY DEF ZeroStat
<1>3. TallyStats(reference, stmts, {}) = [i \in DOMAIN Supporting |-> ZeroStat]
  BY <1>1, <1>2 DEF TallyStats
<1> QED
  BY <1>1, <1>3 DEF Tally, EmptyReport

\* grade_chunk computes the closed form: by induction over the statements.
LEMMA ChunkTally ==
  ASSUME NEW reference \in BOOLEAN, NEW S, NEW stmts \in Seq(S)
  PROVE  GradeChunk(reference, stmts) = Tally(reference, stmts, DOMAIN stmts)
PROOF
<1> DEFINE D == DOMAIN stmts
           IsIter(f) == f = [s \in SUBSET D |->
             IF s = {} THEN EmptyReport
             ELSE GradeOne(reference, f[s \ {Max(s)}], stmts[Max(s)])]
           F == [s \in SUBSET D |-> Tally(reference, stmts, s)]
           Iter == CHOOSE f : IsIter(f)
<1>1. GradeChunk(reference, stmts) = Iter[D]
  BY DEF GradeChunk, FoldLeft, MapThenFoldSet
<1>2. Len(stmts) \in Nat /\ D = 1..Len(stmts) /\ IsFiniteSet(D)
  BY FS_Interval
<1>3. \A s \in SUBSET D : s # {} => Max(s) \in s
  BY <1>2, HasMax
<1>4. Tally(reference, stmts, {}) = EmptyReport
  BY EmptyTally
<1>5. \A s \in SUBSET D : s # {} =>
        Tally(reference, stmts, s)
          = GradeOne(reference, Tally(reference, stmts, s \ {Max(s)}),
                            stmts[Max(s)])
  <2> SUFFICES ASSUME NEW s \in SUBSET D, s # {}
               PROVE  Tally(reference, stmts, s)
                 = GradeOne(reference, Tally(reference, stmts, s \ {Max(s)}),
                                   stmts[Max(s)])
    OBVIOUS
  <2> DEFINE k == Max(s)
  <2>1. k \in DOMAIN stmts /\ k \notin s \ {k} /\ (s \ {k}) \cup {k} = s
    BY <1>3
  <2>2. IsFiniteSet(s \ {k})
    BY <1>2, FS_Subset
  <2> HIDE DEF k
  <2>3. GradeOne(reference, Tally(reference, stmts, s \ {k}), stmts[k])
          = Tally(reference, stmts, (s \ {k}) \cup {k})
    BY <2>1, <2>2, GradeStep
  <2> QED
    BY <2>1, <2>3 DEF k
<1>6. IsIter(F)
  <2>1. \A s \in SUBSET D : s \ {Max(s)} \in SUBSET D
    OBVIOUS
  <2> QED
    BY <1>4, <1>5, <2>1
<1>7. IsIter(Iter)
  BY <1>6
<1> HIDE DEF Iter, F
<1>8. \A s \in SUBSET D : Iter[s] = F[s]
  <2> DEFINE E == {s \in SUBSET D : Iter[s] = F[s]}
  <2>1. {} \in E
    BY <1>6, <1>7
  <2>2. \A s \in SUBSET D : s # {} => \E x \in s : s \ {x} \in E => s \in E
    <3> SUFFICES ASSUME NEW s \in SUBSET D, s # {}, s \ {Max(s)} \in E
                 PROVE  s \in E
      BY <1>3
    <3> QED
      BY <1>6, <1>7
  <2>3. IsFiniteSet(D)
    BY <1>2
  <2> HIDE DEF D, E
  <2>4. \A s \in SUBSET D : s \in E
    BY <2>1, <2>2, <2>3, FiniteInduction, Zenon
  <2> QED
    BY <2>4 DEF E
<1> QED
  BY <1>1, <1>8 DEF F

\* Counting in a set or in the set shifted by a.
LEMMA OverlapOfShifted ==
  ASSUME NEW a \in Nat, NEW m \in Nat, NEW K, NEW L,
         \A i \in 1..m : i \in K <=> i + a \in L
  PROVE  Overlap(1..m, K) = Overlap(a + 1 .. a + m, L)
PROOF
<1> DEFINE A == (1..m) \cap K
           B == (a + 1 .. a + m) \cap L
           f == [i \in A |-> i + a]
<1>1. f \in Injection(A, B)
  BY DEF Injection, IsInjective
<1>2. f \in Surjection(A, B)
  <2>1. \A j \in B : j - a \in A /\ f[j - a] = j
    OBVIOUS
  <2> QED
    BY <1>1, <2>1 DEF Surjection, Injection
<1>3. ExistsBijection(A, B)
  BY <1>1, <1>2 DEF ExistsBijection, Bijection
<1>4. IsFiniteSet(A)
  <2>1. IsFiniteSet(1..m) /\ A \in SUBSET (1..m)
    BY FS_Interval
  <2> QED
    BY <2>1, FS_Subset
<1> HIDE DEF A, B
<1>5. Cardinality(B) = Cardinality(A)
  BY <1>3, <1>4, FS_Bijection
<1> QED
  BY <1>5 DEF A, B, Overlap

\* grade_chunk of a part of the corpus counts the statements of that part.
LEMMA ShiftedTally ==
  ASSUME NEW reference \in BOOLEAN, NEW S, NEW stmts \in Seq(S),
         NEW a \in Nat, NEW b \in Nat, a <= b, b <= Len(stmts)
  PROVE  GradeChunk(reference, SubSeq(stmts, a + 1, b))
           = Tally(reference, stmts, a + 1 .. b)
PROOF
<1> DEFINE part == SubSeq(stmts, a + 1, b)
           m == b - a
<1>1. m \in Nat /\ b = a + m
  OBVIOUS
<1>2. part \in Seq(S) /\ Len(part) = m /\ DOMAIN part = 1..m
  OBVIOUS
<1>3. \A i \in 1..m : part[i] = stmts[i + a] /\ i + a \in DOMAIN stmts
  <2> SUFFICES ASSUME NEW i \in 1..m
               PROVE  part[i] = stmts[i + a] /\ i + a \in DOMAIN stmts
    OBVIOUS
  <2>1. i + a = a + 1 + i - 1 /\ i + a \in 1..Len(stmts)
    OBVIOUS
  <2> QED
    BY <2>1
<1> HIDE DEF part, m
<1>4. Overlap(1..m, Valid(reference, part)) = Overlap(a + 1 .. b, Valid(reference, stmts))
  <2>1. \A i \in 1..m : i \in Valid(reference, part) <=> i + a \in Valid(reference, stmts)
    BY <1>2, <1>3 DEF Valid
  <2> QED
    BY <1>1, <2>1, OverlapOfShifted
<1>5. Overlap(1..m, ValidContentious(reference, part))
        = Overlap(a + 1 .. b, ValidContentious(reference, stmts))
  <2>1. \A i \in 1..m : i \in ValidContentious(reference, part)
                          <=> i + a \in ValidContentious(reference, stmts)
    BY <1>2, <1>3 DEF ValidContentious
  <2> QED
    BY <1>1, <2>1, OverlapOfShifted
<1>6. Overlap(1..m, Invalid(reference, part)) = Overlap(a + 1 .. b, Invalid(reference, stmts))
  <2>1. \A i \in 1..m : i \in Invalid(reference, part) <=> i + a \in Invalid(reference, stmts)
    BY <1>2, <1>3 DEF Invalid
  <2> QED
    BY <1>1, <2>1, OverlapOfShifted
<1>7. TallyStats(reference, part, 1..m) = TallyStats(reference, stmts, a + 1 .. b)
  <2>1. \A p, c : Overlap(1..m, Hits(reference, part, p, c))
                    = Overlap(a + 1 .. b, Hits(reference, stmts, p, c))
    <3> SUFFICES ASSUME NEW p, NEW c
                 PROVE  Overlap(1..m, Hits(reference, part, p, c))
                          = Overlap(a + 1 .. b, Hits(reference, stmts, p, c))
      OBVIOUS
    <3>1. \A i \in 1..m : i \in Hits(reference, part, p, c)
                            <=> i + a \in Hits(reference, stmts, p, c)
      BY <1>2, <1>3 DEF Hits
    <3> QED
      BY <1>1, <3>1, OverlapOfShifted
  <2> QED
    BY <2>1 DEF TallyStats
<1>8. Tally(reference, part, 1..m) = Tally(reference, stmts, a + 1 .. b)
  BY <1>4, <1>5, <1>6, <1>7 DEF Tally
<1>9. GradeChunk(reference, part) = Tally(reference, part, DOMAIN part)
  BY <1>2, ChunkTally
<1> QED
  BY <1>2, <1>8, <1>9 DEF part

-----------------------------------------------------------------------------
(* Grading: the corpus shared among threads                                *)

\* div_ceil is the least number of k's that reaches n.
LEMMA DivCeilBounds ==
  ASSUME NEW n \in Nat \ {0}, NEW k \in Nat \ {0}
  PROVE  LET d == DivCeil(n, k)
         IN  d \in Nat \ {0} /\ n <= d * k /\ (d - 1) * k < n
PROOF
<1> DEFINE q == (n + k - 1) \div k
           r == (n + k - 1) % k
<1>1. n + k - 1 \in Nat
  OBVIOUS
<1>2. q \in Int /\ r \in 0..(k - 1) /\ n + k - 1 = k * q + r
  BY <1>1
<1> HIDE DEF q, r
<1>3. k * q = q * k
  BY <1>2
<1>4. n <= q * k
  BY <1>2, <1>3
<1>5. q > 0
  <2>1. ASSUME q <= 0 PROVE FALSE
    <3>1. q * k <= 0
      BY <1>2, <2>1
    <3> QED
      BY <1>2, <1>4, <3>1
  <2> QED
    BY <1>2, <2>1
<1>6. (q - 1) * k = q * k - k
  BY <1>2
<1>7. (q - 1) * k < n
  BY <1>2, <1>3, <1>6
<1> QED
  BY <1>2, <1>4, <1>5, <1>7 DEF q, DivCeil

\* The positions of chunk c of n statements, and of the chunks in s.
Hi(n, size, c) == IF c * size <= n THEN c * size ELSE n
Span(n, size, c) == (c - 1) * size + 1 .. Hi(n, size, c)
Covered(n, size, s) == {i \in 1..n : \E c \in s : i \in Span(n, size, c)}

\* slice::chunks partitions the corpus: the spans are in order, disjoint, and all of it.
LEMMA SpansCover ==
  ASSUME NEW n \in Nat \ {0}, NEW size \in Nat \ {0}
  PROVE  LET m == DivCeil(n, size)
         IN  /\ \A c \in 1..m : /\ (c - 1) * size \in Nat /\ Hi(n, size, c) \in Nat
                                /\ (c - 1) * size <= Hi(n, size, c) /\ Hi(n, size, c) <= n
             /\ \A c, d \in 1..m : c < d => Hi(n, size, c) <= (d - 1) * size
             /\ Covered(n, size, 1..m) = 1..n
PROOF
<1> DEFINE m == DivCeil(n, size)
<1>1. m \in Nat \ {0} /\ n <= m * size /\ (m - 1) * size < n
  BY DivCeilBounds
<1> HIDE DEF m
<1>2. ASSUME NEW c \in 1..m
      PROVE  /\ (c - 1) * size \in Nat /\ Hi(n, size, c) \in Nat
             /\ (c - 1) * size <= Hi(n, size, c) /\ Hi(n, size, c) <= n
  <2>1. (c - 1) * size \in Nat /\ c * size \in Nat /\ c * size = (c - 1) * size + size
    BY <1>1
  <2>2. (c - 1) * size <= (m - 1) * size
    BY <1>1
  <2>3. (m - 1) * size \in Int
    BY <1>1
  <2> QED
    BY <1>1, <2>1, <2>2, <2>3 DEF Hi
<1>3. ASSUME NEW c \in 1..m, NEW d \in 1..m, c < d
      PROVE  Hi(n, size, c) <= (d - 1) * size
  <2>1. c * size <= (d - 1) * size
    BY <1>1, <1>3
  <2>2. c * size \in Int /\ (d - 1) * size \in Int
    BY <1>1
  <2> QED
    BY <2>1, <2>2 DEF Hi
<1>4. Covered(n, size, 1..m) = 1..n
  <2> SUFFICES ASSUME NEW i \in 1..n PROVE \E c \in 1..m : i \in Span(n, size, c)
    BY DEF Covered
  <2> DEFINE c == DivCeil(i, size)
  <2>1. c \in Nat \ {0} /\ i <= c * size /\ (c - 1) * size < i
    <3>1. i \in Nat \ {0}
      OBVIOUS
    <3> QED
      BY <3>1, DivCeilBounds
  <2> HIDE DEF c
  <2>2. c <= m
    <3>1. ASSUME c > m PROVE FALSE
      <4>1. m * size <= (c - 1) * size
        BY <1>1, <2>1, <3>1
      <4>2. m * size \in Int /\ (c - 1) * size \in Int
        BY <1>1, <2>1
      <4> QED
        BY <1>1, <2>1, <4>1, <4>2
    <3> QED
      BY <1>1, <2>1, <3>1
  <2>3. i \in Span(n, size, c)
    <3> DEFINE x == c * size
               y == (c - 1) * size
    <3>1. x \in Int /\ y \in Int /\ i <= x /\ y < i
      BY <2>1
    <3> HIDE DEF x, y
    <3>2. i \in y + 1 .. (IF x <= n THEN x ELSE n)
      BY <3>1
    <3> QED
      BY <3>2 DEF Span, Hi, x, y
  <2> QED
    BY <1>1, <2>1, <2>2, <2>3
<1> QED
  BY <1>2, <1>3, <1>4 DEF m

\* grade_dialect computes the closed form however many threads share the corpus: by
\* induction over the chunks in the order their threads are joined.
LEMMA MergedTally ==
  ASSUME NEW reference \in BOOLEAN, NEW S, NEW stmts \in Seq(S), stmts # <<>>,
         NEW threads \in Nat \ {0}
  PROVE  GradeDialect(reference, stmts, threads) = Tally(reference, stmts, DOMAIN stmts)
PROOF
<1> DEFINE n == Len(stmts)
           size == DivCeil(n, threads)
           m == DivCeil(n, size)
           D == 1..m
           g == [c \in DOMAIN Chunks(stmts, threads) |->
                   GradeChunk(reference, Chunks(stmts, threads)[c])]
           IsIter(f) == f = [s \in SUBSET D |->
             IF s = {} THEN EmptyReport
             ELSE ReportMerge(f[s \ {Max(s)}], g[Max(s)])]
           F == [s \in SUBSET D |-> Tally(reference, stmts, Covered(n, size, s))]
           Iter == CHOOSE f : IsIter(f)
<1>1. n \in Nat \ {0} /\ DOMAIN stmts = 1..n
  OBVIOUS
<1>2. size \in Nat \ {0}
  BY <1>1, DivCeilBounds
<1>3. m \in Nat \ {0}
  BY <1>1, <1>2, DivCeilBounds
<1>4. DOMAIN Chunks(stmts, threads) = D
  BY DEF Chunks
<1>5. GradeDialect(reference, stmts, threads) = Iter[D]
  <2>1. DOMAIN g = D
    BY <1>4
  <2>2. GradeDialect(reference, stmts, threads)
          = (CHOOSE f : f = [s \in SUBSET DOMAIN g |->
               IF s = {} THEN EmptyReport
               ELSE ReportMerge(f[s \ {Max(s)}], g[Max(s)])])[DOMAIN g]
    BY DEF GradeDialect, FoldLeft, MapThenFoldSet
  <2> HIDE DEF D, g
  <2> QED
    BY <2>1, <2>2
<1>6. \A c \in D : g[c] = Tally(reference, stmts, Span(n, size, c))
  <2> SUFFICES ASSUME NEW c \in D
               PROVE  g[c] = Tally(reference, stmts, Span(n, size, c))
    OBVIOUS
  <2> DEFINE lo == (c - 1) * size
             hi == Hi(n, size, c)
  <2>1. lo \in Nat /\ hi \in Nat /\ lo <= hi /\ hi <= n
    <3>1. \A d \in 1..m : /\ (d - 1) * size \in Nat /\ Hi(n, size, d) \in Nat
                         /\ (d - 1) * size <= Hi(n, size, d) /\ Hi(n, size, d) <= n
      <4> HIDE DEF n, size
      <4> QED
        BY <1>1, <1>2, SpansCover
    <3> QED
      BY <3>1
  <2>2. Min({c * size, n}) = hi
    <3>1. c * size \in Int
      BY <1>2
    <3> DEFINE x == c * size
    <3>2. x \in Int /\ n \in Int /\ hi = IF x <= n THEN x ELSE n
      BY <1>1, <3>1 DEF Hi
    <3> HIDE DEF x, n, hi
    <3>3. Min({x, n}) = hi
      BY <3>2 DEF Min
    <3> QED
      BY <3>3 DEF x
  <2>3. Chunks(stmts, threads)[c] = SubSeq(stmts, lo + 1, hi)
    BY <2>2 DEF Chunks
  <2>4. g[c] = GradeChunk(reference, SubSeq(stmts, lo + 1, hi))
    BY <1>4, <2>3
  <2> HIDE DEF lo, hi, g
  <2>5. g[c] = Tally(reference, stmts, lo + 1 .. hi)
    BY <2>1, <2>4, ShiftedTally
  <2> QED
    BY <2>5 DEF Span, lo, hi
<1>7. \A s \in SUBSET D : IsFiniteSet(s) /\ (s # {} => Max(s) \in s)
  <2>1. \A s \in SUBSET D : s # {} => Max(s) \in s
    <3> HIDE DEF m
    <3> QED
      BY <1>3, HasMax
  <2>2. IsFiniteSet(D)
    <3> HIDE DEF m
    <3> QED
      BY <1>3, FS_Interval
  <2> QED
    BY <2>1, <2>2, FS_Subset
<1>8. \A s \in SUBSET D : \A k \in s :
        /\ Covered(n, size, s) = Covered(n, size, s \ {k}) \cup Span(n, size, k)
        /\ Apart(Covered(n, size, s \ {k}), Span(n, size, k))
        /\ IsFiniteSet(Covered(n, size, s \ {k})) /\ IsFiniteSet(Span(n, size, k))
  <2> SUFFICES ASSUME NEW s \in SUBSET D, NEW k \in s
               PROVE  /\ Covered(n, size, s) = Covered(n, size, s \ {k}) \cup Span(n, size, k)
                      /\ Apart(Covered(n, size, s \ {k}), Span(n, size, k))
                      /\ IsFiniteSet(Covered(n, size, s \ {k})) /\ IsFiniteSet(Span(n, size, k))
    OBVIOUS
  <2> HIDE DEF n, size
  <2>1. \A c \in 1..m : /\ (c - 1) * size \in Nat /\ Hi(n, size, c) \in Nat
                         /\ (c - 1) * size <= Hi(n, size, c) /\ Hi(n, size, c) <= n
    BY <1>1, <1>2, SpansCover
  <2>2. \A c, d \in 1..m : c < d => Hi(n, size, c) <= (d - 1) * size
    BY <1>1, <1>2, SpansCover
  <2> HIDE DEF m
  <2>3. Span(n, size, k) \subseteq 1..n
    BY <1>1, <2>1 DEF Span
  <2>4. Covered(n, size, s) = Covered(n, size, s \ {k}) \cup Span(n, size, k)
    BY <2>3 DEF Covered
  <2>5. ASSUME NEW c \in D, NEW d \in D, c < d, NEW i \in Span(n, size, c), i \in Span(n, size, d)
        PROVE  FALSE
    BY <1>1, <2>1, <2>2, <2>5 DEF Span
  <2>6. Apart(Covered(n, size, s \ {k}), Span(n, size, k))
    <3> SUFFICES ASSUME NEW c \in s \ {k}, NEW i \in Span(n, size, c), i \in Span(n, size, k)
                 PROVE  FALSE
      BY DEF Covered, Apart
    <3>1. c < k \/ k < c
      BY <1>3
    <3> QED
      BY <2>5, <3>1
  <2>7. IsFiniteSet(1..n)
    BY <1>1, FS_Interval
  <2>8. IsFiniteSet(Covered(n, size, s \ {k})) /\ IsFiniteSet(Span(n, size, k))
    <3>1. Covered(n, size, s \ {k}) \in SUBSET (1..n) /\ Span(n, size, k) \in SUBSET (1..n)
      BY <2>3 DEF Covered
    <3> QED
      BY <2>7, <3>1, FS_Subset
  <2> QED
    BY <2>4, <2>6, <2>8
<1>9. \A s \in SUBSET D : s # {} =>
        Tally(reference, stmts, Covered(n, size, s))
          = ReportMerge(
              Tally(reference, stmts, Covered(n, size, s \ {Max(s)})), g[Max(s)])
  <2> SUFFICES ASSUME NEW s \in SUBSET D, s # {}
               PROVE  Tally(reference, stmts, Covered(n, size, s))
                 = ReportMerge(
                     Tally(reference, stmts, Covered(n, size, s \ {Max(s)})),
                     g[Max(s)])
    OBVIOUS
  <2> DEFINE k == Max(s)
             I == Covered(n, size, s \ {k})
             J == Span(n, size, k)
  <2>1. k \in s /\ k \in D
    BY <1>7
  <2>2. /\ Covered(n, size, s) = I \cup J /\ Apart(I, J)
        /\ IsFiniteSet(I) /\ IsFiniteSet(J)
    <3> HIDE DEF k, n, size, D
    <3> QED
      BY <1>8, <2>1, Zenon
  <2>3. g[k] = Tally(reference, stmts, J)
    <3> HIDE DEF k, n, size, D, g
    <3> QED
      BY <1>6, <2>1
  <2> HIDE DEF I, J, k, g, n, size
  <2>4. ReportMerge(Tally(reference, stmts, I), Tally(reference, stmts, J))
          = Tally(reference, stmts, I \cup J)
    <3>1. IsFiniteSet(I) /\ IsFiniteSet(J) /\ Apart(I, J)
      BY <2>2
    <3> QED
      BY <3>1, TallyMerge
  <2>5. Tally(reference, stmts, Covered(n, size, s))
          = ReportMerge(Tally(reference, stmts, I), g[k])
    BY <2>2, <2>3, <2>4, Zenon
  <2> QED
    BY <2>5 DEF I, k
<1>10. Tally(reference, stmts, Covered(n, size, {})) = EmptyReport
  <2>1. Covered(n, size, {}) = {}
    BY DEF Covered
  <2> HIDE DEF n, size
  <2>2. Tally(reference, stmts, {}) = EmptyReport
    BY EmptyTally
  <2> QED
    BY <2>1, <2>2, Zenon
<1>11. IsIter(F)
  <2> HIDE DEF n, size, m, g
  <2>1. \A s \in SUBSET D : s \ {Max(s)} \in SUBSET D
    OBVIOUS
  <2> QED
    BY <1>9, <1>10, <2>1
<1>12. IsIter(Iter)
  <2> HIDE DEF IsIter, F
  <2> QED
    BY <1>11
<1> HIDE DEF n, size, m, g, Iter, F
<1>13. \A s \in SUBSET D : Iter[s] = F[s]
  <2> DEFINE E == {s \in SUBSET D : Iter[s] = F[s]}
  <2>1. {} \in E
    BY <1>11, <1>12
  <2>2. \A s \in SUBSET D : s # {} => \E x \in s : s \ {x} \in E => s \in E
    <3> SUFFICES ASSUME NEW s \in SUBSET D, s # {}, s \ {Max(s)} \in E
                 PROVE  s \in E
      BY <1>7
    <3> QED
      BY <1>11, <1>12
  <2>3. IsFiniteSet(D)
    BY <1>7
  <2> HIDE DEF D, E
  <2>4. \A s \in SUBSET D : s \in E
    BY <2>1, <2>2, <2>3, FiniteInduction, Zenon
  <2> QED
    BY <2>4 DEF E
<1>14. Covered(n, size, D) = DOMAIN stmts
  BY <1>1, <1>2, SpansCover DEF m
<1>15. Iter[D] = Tally(reference, stmts, Covered(n, size, D))
  BY <1>13 DEF F
<1> QED
  BY <1>5, <1>14, <1>15, Zenon

-----------------------------------------------------------------------------
(* Grading: the invariants                                                 *)

\* What an algorithm is fed: elements of its alphabet.
InputInv ==
  /\ tool \in DOMAIN Alphabet
  /\ tool \in Algos => input \in Seq(Alphabet[tool])

\* The input that is drawn has its type, and no step changes it.
LEMMA InputTyped == Spec => []InputInv
PROOF
<1>1. Init => InputInv
  BY FeedingAssumption, AlgorithmsAssumption DEF Init, FeedInit, InputInv
<1>2. InputInv /\ [Next]_allVars => InputInv'
  <2> SUFFICES ASSUME InputInv, [Next]_allVars PROVE InputInv'
    OBVIOUS
  <2>1. CASE Feed
    BY <2>1 DEF InputInv, Feed
  <2>2. CASE UNCHANGED feedVars
    BY <2>2 DEF InputInv, feedVars
  <2>3. Feed \/ UNCHANGED feedVars
    BY DEF Next, allVars
  <2> QED
    BY <2>1, <2>2, <2>3
<1> QED
  BY <1>1, <1>2, PTL DEF Spec

\* For every input the merged counters of the threads are those of one pass over all of it.
LEMMA ChunksAddUpAlways == InputInv => ChunksAddUp
PROOF
<1> SUFFICES ASSUME InputInv, tool = "grade", input # <<>>,
                    NEW reference \in BOOLEAN, NEW threads \in 1..MaxThreads
             PROVE  GradeDialect(reference, input, threads)
                      = GradeChunk(reference, input)
  BY DEF ChunksAddUp
<1>1. input \in Seq(Alphabet["grade"]) /\ threads \in Nat \ {0}
  BY AlgorithmsAssumption DEF InputInv, Algos
<1>2. GradeDialect(reference, input, threads) = Tally(reference, input, DOMAIN input)
  BY <1>1, MergedTally
<1>3. GradeChunk(reference, input) = Tally(reference, input, DOMAIN input)
  BY <1>1, ChunkTally
<1> QED
  BY <1>2, <1>3

\* However many threads share the corpus, the merged counters of grade_dialect are those of
\* one pass of grade_chunk over all of it: no statement is lost or counted twice.
THEOREM GradingChunksAddUp == Spec => []ChunksAddUp
PROOF
  BY InputTyped, ChunksAddUpAlways, PTL

\* Counting in a set and in one that has all of it.
LEMMA OverlapMonotone ==
  ASSUME NEW D, IsFiniteSet(D), NEW K, NEW L, D \cap K \subseteq L
  PROVE  Overlap(D, K) \in Nat /\ Overlap(D, L) \in Nat /\ Overlap(D, K) <= Overlap(D, L)
PROOF
<1> DEFINE A == D \cap K
           B == D \cap L
<1>1. IsFiniteSet(B) /\ A \in SUBSET B
  BY FS_Intersection
<1> HIDE DEF A, B
<1>2. IsFiniteSet(A) /\ Cardinality(A) <= Cardinality(B)
  BY <1>1, FS_Subset
<1>3. Cardinality(A) \in Nat /\ Cardinality(B) \in Nat
  BY <1>1, <1>2, FS_CardinalityType
<1>4. Overlap(D, K) = Cardinality(A) /\ Overlap(D, L) = Cardinality(B)
  BY DEF A, B, Overlap
<1> QED
  BY <1>2, <1>3, <1>4

\* Counting in two sets with nothing in common that one set has all of.
LEMMA OverlapSplits ==
  ASSUME NEW D, IsFiniteSet(D), NEW K, NEW L, NEW M,
         Apart(D \cap K, L), D \cap K \subseteq M, D \cap L \subseteq M
  PROVE  Overlap(D, K) + Overlap(D, L) <= Overlap(D, M)
PROOF
<1> DEFINE A == D \cap K
           B == D \cap L
           C == D \cap M
<1>1. IsFiniteSet(A) /\ IsFiniteSet(B) /\ IsFiniteSet(C)
  BY FS_Intersection
<1>2. A \cup B \in SUBSET C /\ A \cap B = {}
  BY DEF Apart
<1> HIDE DEF A, B, C
<1>3. Cardinality(A) \in Nat /\ Cardinality(B) \in Nat /\ Cardinality(C) \in Nat
  BY <1>1, FS_CardinalityType
<1>4. Cardinality(A \cup B) = Cardinality(A) + Cardinality(B) - Cardinality(A \cap B)
  BY <1>1, FS_Union
<1>5. Cardinality(A \cap B) = 0
  BY <1>2, FS_EmptySet, Zenon
<1>6. Cardinality(A \cup B) <= Cardinality(C)
  BY <1>1, <1>2, FS_Subset
<1>7. /\ Overlap(D, K) = Cardinality(A) /\ Overlap(D, L) = Cardinality(B)
      /\ Overlap(D, M) = Cardinality(C)
  BY DEF A, B, C, Overlap
<1> QED
  BY <1>3, <1>4, <1>5, <1>6, <1>7

\* A percentage of a part.
LEMMA PctInRange ==
  ASSUME NEW n \in Nat, NEW base \in Nat, n <= base
  PROVE  Pct(n, base) \in -1..100
PROOF
<1>1. CASE base = 0
  BY <1>1 DEF Pct
<1>2. CASE base # 0
  <2> DEFINE q == (100 * n) \div base
             x == (100 * n) % base
  <2>1. q \in Int /\ 0 <= x /\ x < base /\ 100 * n = base * q + x /\ x \in Int
    BY <1>2
  <2> HIDE DEF q, x
  <2>2. q <= 100
    <3>1. ASSUME q >= 101 PROVE FALSE
      <4>1. base * q >= base * 101
        BY <2>1, <3>1
      <4> QED
        BY <1>2, <2>1, <4>1
    <3> QED
      BY <2>1, <3>1
  <2>3. q >= 0
    <3>1. ASSUME q <= -1 PROVE FALSE
      <4>1. base * q <= base * (-1)
        BY <2>1, <3>1
      <4> QED
        BY <2>1, <4>1
    <3> QED
      BY <2>1, <3>1
  <2> QED
    BY <1>2, <2>1, <2>2, <2>3 DEF q, Pct
<1> QED
  BY <1>1, <1>2

\* For every input the counters that different branches fill fit together.
LEMMA CountsFitAlways == InputInv => CountsFit
PROOF
<1> SUFFICES ASSUME InputInv, tool = "grade", NEW reference \in BOOLEAN,
                    NEW i \in DOMAIN GradeChunk(reference, input).stats
             PROVE  LET r == GradeChunk(reference, input)
                        s == r.stats[i]
                        m == Metrics(reference, r, i)
                    IN  /\ s.accepted_valid_contentious <= s.accepted_valid
                        /\ r.contentious_valid <= r.valid_total
                        /\ \A c \in DOMAIN m : m[c] \in -1..100
                        /\ s.attempted = r.valid_total + r.invalid_total
                        /\ s.accepted_valid + s.accepted_invalid + s.panicked <= s.attempted
  BY DEF CountsFit
<1> DEFINE r == GradeChunk(reference, input)
           D == DOMAIN input
           p == Supporting[i]
           V == Valid(reference, input)
           C == ValidContentious(reference, input)
           N == Invalid(reference, input)
           H(c) == Hits(reference, input, p, c)
<1>1. input \in Seq(Alphabet["grade"]) /\ "grade" \in DOMAIN Alphabet
  BY DEF InputInv, Algos
<1>2. r = Tally(reference, input, D)
  BY <1>1, ChunkTally
<1>3. i \in DOMAIN Supporting /\ r.stats[i] = [c \in DOMAIN ZeroStat |-> Overlap(D, H(c))]
  BY <1>2 DEF Tally, TallyStats
<1>4. IsFiniteSet(D)
  BY <1>1, FS_Interval
<1>5. \A k \in D : input[k].does[p] # "unsupported"
  <2>1. \A k \in D : input[k] \in Alphabet["grade"]
    BY <1>1
  <2> QED
    BY <1>1, <1>3, <2>1, GradedAssumption
<1> HIDE DEF r, D, p
<1>6. /\ D \cap H("accepted_valid_contentious") \subseteq H("accepted_valid")
      /\ D \cap H("accepted_valid_contentious") \subseteq C
      /\ D \cap C \subseteq V /\ D \cap H("accepted_valid") \subseteq V
      /\ D \cap H("accepted_invalid") \subseteq N
      /\ D \cap H("roundtrip_ok") \subseteq H("accepted_valid")
      /\ D \cap H("panicked") \subseteq H("attempted")
      /\ H("accepted_valid") \cap C \subseteq H("accepted_valid_contentious")
  BY DEF Hits, Valid, ValidContentious, Invalid, StatOf, One,
         IsValid, IsContentious, Accepted, Miss, D
<1>7. /\ H("attempted") = V \cup N /\ V \cap N = {}
      /\ H("panicked") \cap (H("accepted_valid") \cup H("accepted_invalid")) = {}
  BY <1>5 DEF Hits, Valid, Invalid, StatOf, One,
         IsValid, Accepted, Miss, D
<1> HIDE DEF V, C, N, H
<1>8. \A K, L : D \cap K \subseteq L =>
        Overlap(D, K) \in Nat /\ Overlap(D, L) \in Nat /\ Overlap(D, K) <= Overlap(D, L)
  BY <1>4, OverlapMonotone
<1>9. \A K, L, M : Apart(D \cap K, L) /\ D \cap K \subseteq M /\ D \cap L \subseteq M =>
        Overlap(D, K) + Overlap(D, L) <= Overlap(D, M)
  BY <1>4, OverlapSplits
<1> DEFINE a == Overlap(D, H("accepted_valid"))
           ac == Overlap(D, H("accepted_valid_contentious"))
           ai == Overlap(D, H("accepted_invalid"))
           rt == Overlap(D, H("roundtrip_ok"))
           t == Overlap(D, H("attempted"))
           pn == Overlap(D, H("panicked"))
           v == Overlap(D, V)
           vc == Overlap(D, C)
           inv == Overlap(D, N)
<1>10. /\ a \in Nat /\ ac \in Nat /\ ai \in Nat /\ rt \in Nat /\ t \in Nat
       /\ pn \in Nat /\ v \in Nat /\ vc \in Nat /\ inv \in Nat
       /\ ac <= a /\ ac <= vc /\ vc <= v /\ a <= v /\ ai <= inv /\ rt <= a /\ pn <= t
  BY <1>6, <1>8
<1>11. a - ac <= v - vc
  <2> DEFINE O == H("accepted_valid") \ H("accepted_valid_contentious")
  <2>1. Overlap(D, O) + vc <= v
    <3>1. Apart(D \cap O, C) /\ D \cap O \subseteq V /\ D \cap C \subseteq V
      BY <1>6 DEF Apart
    <3> HIDE DEF O
    <3> QED
      BY <1>9, <3>1
  <2>2. H("accepted_valid") \subseteq O \cup H("accepted_valid_contentious")
    OBVIOUS
  <2>3. a = Overlap(D, O) + ac
    <3>1. OverlapsAdd(D \cap O, D \cap H("accepted_valid_contentious"))
      <4>1. IsFiniteSet(D \cap O) /\ IsFiniteSet(D \cap H("accepted_valid_contentious"))
        BY <1>4, FS_Intersection
      <4>2. Apart(D \cap O, D \cap H("accepted_valid_contentious"))
        BY DEF Apart
      <4> QED
        BY <4>1, <4>2, OverlapOfUnion, Zenon
    <3> DEFINE I == D \cap O
               J == D \cap H("accepted_valid_contentious")
    <3>2. Overlap(I \cup J, D) = Overlap(I, D) + Overlap(J, D)
      BY <3>1, Zenon DEF OverlapsAdd
    <3>3. (I \cup J) \cap D = D \cap H("accepted_valid") /\ I \cap D = I /\ J \cap D = J
      BY <1>6
    <3>4. Overlap(I \cup J, D) = a
      BY <3>3, Zenon DEF Overlap
    <3>5. Overlap(I, D) = Overlap(D, O) /\ Overlap(J, D) = ac
      BY <3>3, Zenon DEF Overlap
    <3> HIDE DEF I, J, O
    <3> QED
      BY <3>2, <3>4, <3>5
  <2>4. Overlap(D, O) \in Nat
    BY <1>8
  <2> QED
    BY <1>10, <2>1, <2>3, <2>4
<1>12. t = v + inv
  <2> DEFINE I == D \cap V
             J == D \cap N
  <2>1. IsFiniteSet(I) /\ IsFiniteSet(J) /\ Apart(I, J)
    BY <1>4, <1>7, FS_Intersection DEF Apart
  <2>2. OverlapsAdd(I, J)
    <3> HIDE DEF I, J
    <3> QED
      BY <2>1, OverlapOfUnion
  <2>3. Overlap(I \cup J, D) = Overlap(I, D) + Overlap(J, D)
    BY <2>2, Zenon DEF OverlapsAdd
  <2>4. (I \cup J) \cap D = D \cap H("attempted") /\ I \cap D = I /\ J \cap D = J
    BY <1>7
  <2>5. Overlap(I \cup J, D) = t
    BY <2>4, Zenon DEF Overlap
  <2>6. Overlap(I, D) = v /\ Overlap(J, D) = inv
    BY <2>4, Zenon DEF Overlap
  <2> HIDE DEF I, J
  <2> QED
    BY <2>3, <2>5, <2>6
<1>13. a + ai + pn <= t
  <2> DEFINE U == H("accepted_valid") \cup H("accepted_invalid")
  <2>1. a + ai <= Overlap(D, U)
    <3>1. Apart(D \cap H("accepted_valid"), H("accepted_invalid"))
      BY <1>6, <1>7 DEF Apart
    <3> QED
      BY <1>9, <3>1
  <2>2. pn + Overlap(D, U) <= t
    <3>1. /\ Apart(D \cap H("panicked"), U) /\ D \cap H("panicked") \subseteq H("attempted")
          /\ D \cap U \subseteq H("attempted")
      BY <1>6, <1>7 DEF Apart
    <3> HIDE DEF U
    <3> QED
      BY <1>9, <3>1
  <2>3. Overlap(D, U) \in Nat
    BY <1>8
  <2> HIDE DEF U
  <2> QED
    BY <1>10, <2>1, <2>2, <2>3
<1>14. /\ r.valid_total = v /\ r.contentious_valid = vc /\ r.invalid_total = inv
       /\ r.stats[i].accepted_valid = a /\ r.stats[i].accepted_valid_contentious = ac
       /\ r.stats[i].accepted_invalid = ai /\ r.stats[i].roundtrip_ok = rt
       /\ r.stats[i].attempted = t /\ r.stats[i].panicked = pn
  BY <1>2, <1>3 DEF Tally, ZeroStat, V, C, N
<1> HIDE DEF a, ac, ai, rt, t, pn, v, vc, inv
<1>15. /\ Pct(a, v) \in -1..100 /\ Pct(a - ac, v - vc) \in -1..100
       /\ Pct(ai, inv) \in -1..100 /\ Pct(rt, a) \in -1..100
       /\ Pct(pn, t) \in -1..100
  <2>1. a - ac \in Nat /\ v - vc \in Nat
    BY <1>10
  <2> QED
    BY <1>10, <1>11, <2>1, PctInRange
<1>16. \A c \in DOMAIN Metrics(reference, r, i) :
         Metrics(reference, r, i)[c] \in -1..100
  BY <1>14, <1>15 DEF Metrics
<1> QED
  BY <1>10, <1>12, <1>13, <1>14, <1>16 DEF r

\* The counters that different branches of grade_chunk fill fit together, and
\* no percentage of metrics exceeds 100.
THEOREM GradingCountsFit == Spec => []CountsFit
PROOF
  BY InputTyped, CountsFitAlways, PTL

-----------------------------------------------------------------------------
(* Entry points: recursion over a sequence, and the library                *)

\* Induction up to n, as the least counterexample has a predecessor.
LEMMA UpTo ==
  ASSUME NEW n \in Nat, NEW E, 0 \in E, \A i \in 1..n : i - 1 \in E => i \in E
  PROVE  0..n \subseteq E
PROOF
<1> DEFINE bad == (0..n) \ E
<1> SUFFICES ASSUME bad # {} PROVE FALSE
  OBVIOUS
<1>1. IsWellFoundedOn(Below, Nat)
  BY NatLessThanWellFounded DEF OpToRel, Below
<1>2. bad \in SUBSET Nat
  OBVIOUS
<1>3. PICK k \in bad : \A j \in bad : ~(<<j, k>> \in Below)
  <2> HIDE DEF bad
  <2> QED
    BY <1>1, <1>2, WFMin, Zenon
<1>4. k \in 1..n /\ k - 1 \in Nat /\ k \in Nat
  OBVIOUS
<1>5. k - 1 \in bad
  BY <1>3, <1>4
<1>6. <<k - 1, k>> \in Below
  BY <1>4 DEF Below
<1> HIDE DEF bad
<1> QED
  BY <1>3, <1>5, <1>6

\* A fold over a sequence takes the largest index first: of indices up to k, of which k is
\* one, it is k.
LEMMA MaxOfPrefix ==
  ASSUME NEW k \in Nat \ {0}, NEW s \in SUBSET (1..k), k \in s
  PROVE  Max(s) = k /\ s \ {k} \in SUBSET (1..(k - 1))
PROOF
<1>1. \A y \in s : y \in Nat /\ k >= y
  OBVIOUS
<1>2. Max(s) \in s /\ \A y \in s : Max(s) >= y
  <2>1. \E x \in s : \A y \in s : x >= y
    BY <1>1
  <2> QED
    BY <2>1 DEF Max
<1>3. s \ {k} \in SUBSET (1..(k - 1))
  BY <1>1
<1>4. Max(s) = k
  <2> DEFINE t == Max(s)
  <2>1. t \in Nat /\ k \in Nat /\ t >= k /\ k >= t
    BY <1>1, <1>2
  <2> HIDE DEF t
  <2>2. t = k
    BY <2>1
  <2> QED
    BY <2>2 DEF t
<1> QED
  BY <1>3, <1>4

\* F is the recursive function that a fold of g from base unfolds to: its value on a set of
\* indices is op of its value without the last one and of g there.
IsFold(F, n, S, base, op, g) ==
  /\ F \in [SUBSET (1..n) -> S]
  /\ F = [s \in SUBSET (1..n) |->
            IF s = {} THEN base ELSE op[F[s \ {Max(s)}], g[Max(s)]]]

\* There is such a function, and so a CHOOSE of one (as in the folds) has its equation: built
\* up index by index.
LEMMA FoldExists ==
  ASSUME NEW n \in Nat, NEW S, NEW T, NEW base \in S,
         NEW op \in [S \X T -> S], NEW g \in [1..n -> T]
  PROVE  \E F : IsFold(F, n, S, base, op, g)
PROOF
<1> DEFINE Good(k, F) == /\ F \in [SUBSET (1..k) -> S]
                         /\ F[{}] = base
                         /\ \A s \in SUBSET (1..k) : s # {} =>
                              F[s] = op[F[s \ {Max(s)}], g[Max(s)]]
           E == {k \in 0..n : \E F : Good(k, F)}
<1>1. 0 \in E
  <2> DEFINE F == [s \in SUBSET (1..0) |-> base]
  <2>1. \A s \in SUBSET (1..0) : s = {}
    OBVIOUS
  <2>2. F \in [SUBSET (1..0) -> S] /\ F[{}] = base
    OBVIOUS
  <2> HIDE DEF F
  <2>3. Good(0, F)
    BY <2>1, <2>2
  <2>4. 0 \in 0..n
    OBVIOUS
  <2> HIDE DEF Good
  <2> QED
    BY <2>3, <2>4
<1>2. ASSUME NEW k \in 1..n, k - 1 \in E PROVE k \in E
  <2>1. PICK F : Good(k - 1, F)
    BY <1>2
  <2> DEFINE G == [s \in SUBSET (1..k) |->
                     IF k \in s THEN op[F[s \ {k}], g[k]] ELSE F[s]]
  <2>2. k \in Nat \ {0} /\ k \in 1..n
    OBVIOUS
  <2>3. \A s \in SUBSET (1..k) : k \in s => Max(s) = k /\ s \ {k} \in SUBSET (1..(k - 1))
    BY <2>2, MaxOfPrefix
  <2>4. \A s \in SUBSET (1..k) : k \notin s => s \in SUBSET (1..(k - 1))
    BY <2>2
  <2>5. {} \in SUBSET (1..k) /\ k \notin {}
    OBVIOUS
  <2>6. \A a \in S, t \in T : op[a, t] \in S
    OBVIOUS
  <2>7. g[k] \in T
    BY <2>2
  <2> HIDE DEF E
  <2>8. G \in [SUBSET (1..k) -> S]
    BY <2>1, <2>3, <2>4, <2>6, <2>7
  <2>9. G[{}] = base
    BY <2>1, <2>5
  <2>10. ASSUME NEW s \in SUBSET (1..k), s # {}
         PROVE  G[s] = op[G[s \ {Max(s)}], g[Max(s)]]
    <3>1. CASE k \in s
      <4>1. Max(s) = k /\ s \ {k} \in SUBSET (1..k) /\ k \notin s \ {k}
        BY <2>3, <3>1
      <4>2. G[s \ {k}] = F[s \ {k}]
        BY <4>1
      <4>3. G[s] = op[F[s \ {k}], g[k]]
        BY <3>1
      <4> HIDE DEF G
      <4> QED
        BY <4>1, <4>2, <4>3, Zenon
    <3>2. CASE k \notin s
      <4>1. s \in SUBSET (1..(k - 1)) /\ s \ {Max(s)} \in SUBSET (1..k) /\ k \notin s \ {Max(s)}
        BY <2>4, <3>2
      <4>2. G[s \ {Max(s)}] = F[s \ {Max(s)}]
        BY <4>1
      <4>3. G[s] = F[s]
        BY <3>2
      <4>4. F[s] = op[F[s \ {Max(s)}], g[Max(s)]]
        BY <2>1, <2>10, <4>1
      <4> HIDE DEF G
      <4> QED
        BY <4>2, <4>3, <4>4, Zenon
    <3> QED
      BY <3>1, <3>2
  <2>11. Good(k, G)
    <3> HIDE DEF G
    <3> QED
      BY <2>8, <2>9, <2>10
  <2> HIDE DEF G, Good
  <2> QED
    BY <2>11 DEF E
<1>3. n \in E
  <2> HIDE DEF E
  <2>1. 0..n \subseteq E
    BY <1>1, <1>2, UpTo
  <2> QED
    BY <2>1
<1>4. PICK F : Good(n, F)
  BY <1>3
<1> DEFINE H == [s \in SUBSET (1..n) |->
                   IF s = {} THEN base ELSE op[F[s \ {Max(s)}], g[Max(s)]]]
<1>5. \A s \in SUBSET (1..n) : F[s] = H[s]
  BY <1>4
<1>6. F = H
  <2> HIDE DEF H
  <2>1. F = [s \in SUBSET (1..n) |-> F[s]]
    BY <1>4
  <2>2. H = [s \in SUBSET (1..n) |-> H[s]]
    BY DEF H
  <2> QED
    BY <1>5, <2>1, <2>2
<1> QED
  BY <1>4, <1>6 DEF IsFold

\* The least of some indices is one of them.
LEMMA HasMin ==
  ASSUME NEW n \in Nat, NEW s \in SUBSET (1..n), s # {}
  PROVE  Lib!Min(s) \in s /\ \A y \in s : Lib!Min(s) <= y
PROOF
<1>1. IsWellFoundedOn(Below, Nat)
  BY NatLessThanWellFounded DEF OpToRel, Below
<1>2. s \in SUBSET Nat
  OBVIOUS
<1>3. PICK x \in s : \A y \in s : ~(<<y, x>> \in Below)
  BY <1>1, <1>2, WFMin, Zenon
<1>4. ASSUME NEW y \in s PROVE x <= y
  <2>1. x \in Nat /\ y \in Nat /\ ~(<<y, x>> \in Below)
    BY <1>2, <1>3
  <2>2. ~(y < x)
    BY <2>1 DEF Below
  <2> QED
    BY <2>1, <2>2
<1> QED
  BY <1>4 DEF Lib!Min

\* What a library returns of a script: it gets through all of it, or stops at a statement.
LEMMA LibraryFacts ==
  ASSUME NEW S, NEW x \in Seq(S), NEW p, NEW mode
  PROVE  LET r == Lib!Library(p, x, mode)
         IN  /\ r.n \in 0..Len(x) /\ r.end \in {"ok", "err", "panic"}
             /\ r.end = "ok" => r.n = Len(x) /\ \A i \in DOMAIN x : Lib!Parses(x[i], mode)
             /\ r.end # "ok" => r.n < Len(x)
             /\ r.end = "panic" => \E i \in DOMAIN x : x[i] = "panic"
PROOF
<1> DEFINE bad == {i \in DOMAIN x : ~Lib!Parses(x[i], mode)}
           n == IF bad = {} THEN Len(x) ELSE Lib!Min(bad) - 1
<1>1. Len(x) \in Nat /\ DOMAIN x = 1..Len(x) /\ bad \in SUBSET (1..Len(x))
  OBVIOUS
<1>2. CASE bad = {}
  <2>1. n = Len(x) /\ \A i \in DOMAIN x : Lib!Parses(x[i], mode)
    BY <1>2
  <2>2. Lib!Library(p, x, mode)
          = IF p = "databend" /\ n > 0 /\ Len(x) > 1 THEN [n |-> 1, end |-> "err"]
            ELSE [n |-> n, end |-> "ok"]
    BY <1>2 DEF Lib!Library
  <2> HIDE DEF n, bad
  <2> QED
    BY <1>1, <2>1, <2>2
<1>3. CASE bad # {}
  <2>1. Lib!Min(bad) \in bad
    <3> HIDE DEF bad
    <3> QED
      BY <1>1, <1>3, HasMin
  <2>2. n = Lib!Min(bad) - 1 /\ n \in 0..(Len(x) - 1) /\ n + 1 \in DOMAIN x
    BY <1>3, <2>1
  <2>3. Lib!Library(p, x, mode)
          = IF p = "databend" /\ n > 0 /\ Len(x) > 1 THEN [n |-> 1, end |-> "err"]
            ELSE [n |-> n, end |-> IF x[n + 1] = "panic" THEN "panic" ELSE "err"]
    BY <1>3 DEF Lib!Library
  <2> HIDE DEF n, bad
  <2> QED
    BY <1>1, <2>2, <2>3
<1> QED
  BY <1>2, <1>3

\* What a parser prints of a script are statements of it, in order.
LEMMA ToPrintFacts ==
  ASSUME NEW S, NEW x \in Seq(S), NEW p
  PROVE  LET y == Lib!ToPrint(p, x)
         IN  /\ y \in Seq(S) /\ Len(y) \in Nat /\ DOMAIN y = 1..Len(y)
             /\ \A i \in DOMAIN y : i \in DOMAIN x /\ y[i] = x[i]
             /\ x # <<>> => 1 \in DOMAIN y
             /\ p # "polyglot" => y = x
PROOF
<1> DEFINE y == Lib!ToPrint(p, x)
<1>1. CASE p # "polyglot" \/ x = <<>>
  <2>1. y = x
    <3>1. x = <<>> => SubSeq(x, 1, 1) = <<>>
      OBVIOUS
    <3> QED
      BY <1>1, <3>1, Zenon DEF Lib!ToPrint
  <2> QED
    BY <2>1
<1>2. CASE p = "polyglot" /\ x # <<>>
  <2>1. Len(x) \in Nat /\ Len(x) >= 1 /\ DOMAIN x = 1..Len(x)
    BY <1>2
  <2>2. y = SubSeq(x, 1, 1)
    BY <1>2 DEF Lib!ToPrint
  <2>3. y \in Seq(S) /\ Len(y) = 1 /\ y[1] = x[1]
    BY <2>1, <2>2
  <2> QED
    BY <1>2, <2>1, <2>3
<1> QED
  BY <1>1, <1>2

\* The entry points of the current build, for any script, parser and dialect.
LEMMA CurrentAgreeAlways ==
  ASSUME NEW S, NEW x \in Seq(S), NEW p \in Lib!Parsers, NEW d \in Lib!Dialects
  PROVE  LET accepted == Lib!Accepts(p, x, d)
         IN  /\ Lib!Supports(p, d) <=> Lib!ParseOutcome(p, x, d) # "Unsupported"
             /\ accepted => /\ Lib!ParseOnce(p, x, d) = "true"
                            /\ Lib!MeasureMem(p, x, d) # "abort"
                            /\ Lib!ParseBatch(p, x, d) \in {-1, Len(x)}
             /\ ~accepted => /\ Lib!ParseBatch(p, x, d) < Len(x)
                             /\ Lib!Supports(p, d) => Lib!ParseOnce(p, x, d) # "true"
             /\ Lib!ParseBatch(p, x, d) = -1 <=> ~(Lib!CanBatch(p) /\ Lib!Supports(p, d))
             /\ Lib!MeasureMemBatch(p, x, d) = "Some" => Lib!ParseBatch(p, x, d) # -1
             /\ Lib!Roundtrips(p, x, d) = "None" <=> ~Lib!CanReprint(p, d)
             /\ Lib!CanReprint(p, d) => Lib!Supports(p, d)
             /\ accepted /\ Lib!Roundtrips(p, x, d) = "abort" =>
                  ~Lib!Caught(p) /\ {"noprint", "panic"} \cap Lib!ToSet(x) # {}
PROOF
<1> DEFINE m == Lib!Mode(p, d)
           r == Lib!Library(p, x, m)
<1>1. /\ Len(x) \in Nat /\ r.n \in 0..Len(x) /\ r.end \in {"ok", "err", "panic"}
      /\ r.end = "ok" => r.n = Len(x) /\ \A i \in DOMAIN x : Lib!Parses(x[i], m)
      /\ r.end # "ok" => r.n < Len(x)
  BY LibraryFacts
<1>2. Lib!ParseOutcome(p, x, d)
        = IF m = "none" THEN "Unsupported"
          ELSE IF r.end = "ok" THEN "Accepted" ELSE IF r.end = "err" THEN "Rejected" ELSE "Panicked"
  BY <1>1 DEF Lib!ParseOutcome, Lib!CatchOutcome
<1>3. Lib!Accepts(p, x, d) <=> m # "none" /\ r.end = "ok"
  BY <1>1, <1>2 DEF Lib!Accepts, Lib!TryParse
<1>4. Lib!Supports(p, d) <=> m # "none"
  <2>1. <<>> \in Seq({"plain"})
    OBVIOUS
  <2>2. Lib!Library(p, <<>>, m).end \in {"ok", "err", "panic"}
    BY <2>1, LibraryFacts
  <2>3. m # "none" => Lib!TryParse(p, <<>>, d) # "None"
    BY <2>2 DEF Lib!TryParse, Lib!ParseOutcome, Lib!CatchOutcome
  <2>4. m = "none" => Lib!TryParse(p, <<>>, d) = "None" /\ Lib!TryParse(p, <<"plain">>, d) = "None"
    BY DEF Lib!TryParse, Lib!ParseOutcome
  <2> HIDE DEF m
  <2> QED
    BY <2>3, <2>4 DEF Lib!Supports
<1>5. Lib!ParseBatch(p, x, d)
        = IF m = "none" \/ ~Lib!CanBatch(p) THEN -1 ELSE IF r.end = "panic" THEN -2
          ELSE IF r.end = "ok" \/ p \in {"sqlite3", "turso"} THEN r.n ELSE 0
  BY DEF Lib!ParseBatch
<1>6. m # "none" => Lib!ParseOnce(p, x, d)
                      = IF r.end = "panic" THEN "abort" ELSE IF r.end = "ok" THEN "true" ELSE "false"
  BY DEF Lib!ParseOnce
<1>7. Lib!MeasureMem(p, x, d)
        = IF p \in {"pg_query", "pg_summary"} \/ m = "none" THEN "None"
          ELSE IF r.end = "panic" THEN "abort" ELSE "Some"
  BY DEF Lib!MeasureMem
<1>8. Lib!MeasureMemBatch(p, x, d) = "Some" => Lib!CanBatch(p) /\ m # "none"
  BY <1>7 DEF Lib!MeasureMemBatch
<1>9. Lib!CanReprint(p, d) => m # "none"
  BY DEF Lib!CanReprint
<1>10. Lib!Roundtrips(p, x, d) = "None" <=> ~Lib!CanReprint(p, d)
  BY DEF Lib!Roundtrips
<1>11. ASSUME Lib!CanReprint(p, d), r.end = "ok", Lib!Roundtrips(p, x, d) = "abort"
       PROVE  ~Lib!Caught(p) /\ {"noprint", "panic"} \cap Lib!ToSet(x) # {}
  <2> DEFINE y == Lib!ToPrint(p, x)
             first == Lib!Reprint(p, x, d)
             second == Lib!Reprint(p, first, d)
  <2>1. /\ y \in Seq(S) /\ Len(y) \in Nat /\ DOMAIN y = 1..Len(y)
        /\ \A i \in DOMAIN y : i \in DOMAIN x /\ y[i] = x[i]
        /\ x # <<>> => 1 \in DOMAIN y
        /\ p # "polyglot" => y = x
    BY ToPrintFacts
  <2>2. Lib!ToSet(x) = {x[i] : i \in DOMAIN x}
    BY DEF Lib!ToSet
  <2>3. CASE x = <<>>
    BY <1>11, <2>3 DEF Lib!Roundtrips, Lib!Reprint
  <2>4. CASE x # <<>> /\ "noprint" \in Lib!ToSet(y)
    <3>1. "noprint" \in Lib!ToSet(x)
      BY <2>1, <2>2, <2>4 DEF Lib!ToSet
    <3>2. Lib!Caught(p) => first = <<"None">>
      BY <1>11, <2>4 DEF Lib!Reprint
    <3>3. first # <<"None">>
      BY <1>11 DEF Lib!Roundtrips
    <3> QED
      BY <3>1, <3>2, <3>3
  <2>5. CASE x # <<>> /\ "noprint" \notin Lib!ToSet(y)
    <3>1. first = [i \in DOMAIN y |-> Lib!Printed(y[i])]
      BY <1>11, <2>5 DEF Lib!Reprint
    <3>2. DOMAIN y = 1..Len(y) /\ 1 \in DOMAIN y /\ Len(y) \in Nat
      BY <2>1, <2>5
    <3>3. \A i \in DOMAIN y :
            /\ y[i] \in {"plain", "drifts", "swings", "garbled", "own"}
            /\ Lib!Printed(y[i]) \in {"plain", "drifts", "swings", "err", "own"}
      <4>1. \A i \in DOMAIN y : Lib!Parses(y[i], m) /\ y[i] # "noprint"
        BY <1>1, <1>11, <2>1, <2>5 DEF Lib!ToSet
      <4> HIDE DEF y, m
      <4> QED
        BY <4>1 DEF Lib!Parses, Lib!Printed
    <3> DEFINE T == {"plain", "drifts", "swings", "err", "own"}
    <3>4. first \in Seq(T)
      BY <3>1, <3>2, <3>3
    <3>5. first[1] \in T /\ first # <<"None">> /\ first # <<"abort">>
      BY <3>1, <3>2, <3>3
    <3>6. second = <<"abort">>
      BY <1>11, <3>5 DEF Lib!Roundtrips
    <3>7. Lib!Library(p, first, m).end # "panic"
      <4> HIDE DEF first, m
      <4>1. \A i \in DOMAIN first : first[i] # "panic"
        BY <3>4
      <4> QED
        BY <3>4, <4>1, LibraryFacts
    <3> DEFINE z == Lib!ToPrint(p, first)
    <3>8. /\ z \in Seq(T) /\ "noprint" \notin Lib!ToSet(z)
          /\ first # <<>> => 1 \in DOMAIN z /\ z[1] = first[1]
      <4> HIDE DEF first
      <4> QED
        BY <3>4, ToPrintFacts DEF Lib!ToSet
    <3>9. second = <<"None">> \/ second = [i \in DOMAIN z |-> Lib!Printed(z[i])]
      <4> HIDE DEF first
      <4> QED
        BY <3>7, <3>8 DEF Lib!Reprint
    <3>10. first # <<>>
      <4> HIDE DEF first
      <4> QED
        BY <3>6 DEF Lib!Reprint
    <3>11. second[1] = Lib!Printed(first[1])
      BY <3>6, <3>8, <3>9, <3>10
    <3>12. Lib!Printed(first[1]) # "abort"
      BY <3>5 DEF Lib!Printed
    <3> QED
      BY <3>6, <3>11, <3>12
  <2> QED
    BY <2>3, <2>4, <2>5
<1> HIDE DEF m, r
<1> QED
  BY <1>1, <1>2, <1>3, <1>4, <1>5, <1>6, <1>7, <1>8, <1>9, <1>10, <1>11

\* The families that have historical versions.
VersionFamilies == {"sqlparser", "sqlglot", "polyglot", "databend", "sqlite3", "qusql", "turso"}

\* The registry is a sequence of versions of these families.
LEMMA RegisteredFacts ==
  /\ \A v \in ToSet(Old!Registered) : v.family \in VersionFamilies
  /\ Len(Old!Registered) \in Nat /\ DOMAIN Old!Registered = 1..Len(Old!Registered)
  /\ \A i \in DOMAIN Old!Registered : Old!Registered[i] \in ToSet(Old!Registered)
PROOF
<1> DEFINE a == [i \in 1..5 |-> [family |-> "sqlparser", era |-> <<6, 7, 8, 14, 18>>[i]]]
           b == [i \in 1..6 |-> [family |-> <<"sqlglot", "polyglot", "databend", "sqlite3",
                                             "qusql", "turso">>[i], era |-> 0]]
           T == {v \in UNION {{a[i] : i \in 1..5}, {b[i] : i \in 1..6}} : TRUE}
<1>1. Old!Registered = a \o b
  BY DEF Old!Registered
<1>2. a \in Seq(T) /\ b \in Seq(T) /\ Len(a) = 5
  OBVIOUS
<1>3. \A v \in T : v.family \in VersionFamilies
  BY DEF VersionFamilies
<1> HIDE DEF a, b, T
<1> DEFINE c == a \o b
<1>4. c \in Seq(T) /\ Len(c) \in Nat /\ Len(c) >= 5
  <2> HIDE DEF T, a, b
  <2>1. \A A : \A s, t \in Seq(A) : s \o t \in Seq(A) /\ Len(s \o t) = Len(s) + Len(t)
    BY ConcatProperties
  <2>2. a \o b \in Seq(T) /\ Len(a \o b) = Len(a) + Len(b)
    BY <1>2, <2>1, Zenon
  <2>3. Len(b) \in Nat
    BY <1>2
  <2> QED
    BY <1>2, <2>2, <2>3
<1> HIDE DEF c
<1>5. DOMAIN c = 1..Len(c) /\ \A i \in DOMAIN c : c[i] \in T
  BY <1>4
<1>6. ToSet(Old!Registered) = {c[i] : i \in DOMAIN c}
  BY <1>1 DEF ToSet, c
<1>7. Old!Registered = c
  BY <1>1 DEF c
<1> HIDE DEF T
<1> QED
  BY <1>3, <1>4, <1>5, <1>6, <1>7

\* Versions runs the libraries of Adapters.
LEMMA SameLibrary ==
  /\ \A p, x, m : Old!Lib!Library(p, x, m) = Lib!Library(p, x, m)
  /\ \A p, x : Old!Lib!ToPrint(p, x) = Lib!ToPrint(p, x)
  /\ \A t : Old!Lib!Printed(t) = Lib!Printed(t)
PROOF
<1>1. \A p, x, m : Old!Lib!Library(p, x, m) = Lib!Library(p, x, m)
  BY DEF Old!Lib!Library, Lib!Library, Old!Lib!Parses, Lib!Parses, Old!Lib!Min, Lib!Min,
         Old!Lib!Dialects, Lib!Dialects
<1>2. \A p, x : Old!Lib!ToPrint(p, x) = Lib!ToPrint(p, x)
  BY DEF Old!Lib!ToPrint, Lib!ToPrint
<1>3. \A t : Old!Lib!Printed(t) = Lib!Printed(t)
  BY DEF Old!Lib!Printed, Lib!Printed
<1> QED
  BY <1>1, <1>2, <1>3

\* The entry points of a historical version, for any script, version and dialect.
LEMMA VersionAgreesAlways ==
  ASSUME NEW S, NEW x \in Seq(S), NEW v, v.family \in VersionFamilies, NEW d \in Lib!Dialects
  PROVE  LET accepted == Old!Accepts(v, x, d)
         IN  /\ Old!ParseOutcome(v, x, d) = "Unsupported" <=> ~Old!Supports(v, d)
             /\ Old!ParseOnce(v, x, d) = "true" <=> accepted
             /\ accepted => /\ Old!MeasureMem(v, x, d) = "Some"
                            /\ Old!ParseBatch(v, x, d) \in {-1, Len(x)}
             /\ ~accepted => Old!ParseBatch(v, x, d) < Len(x)
             /\ Old!Roundtrips(v, x, d) = "None" <=> ~Old!CanReprint(v, d)
             /\ Old!Mode(v, d) = Lib!Mode(v.family, d) =>
                  /\ Old!ParseOutcome(v, x, d) = Lib!ParseOutcome(v.family, x, d)
                  /\ Old!ParseBatch(v, x, d) = Lib!ParseBatch(v.family, x, d)
                  /\ Lib!Roundtrips(v.family, x, d) \in {Old!Roundtrips(v, x, d), "abort"}
PROOF
<1> DEFINE m == Old!Mode(v, d)
           r == Lib!Library(v.family, x, m)
<1>1. /\ Len(x) \in Nat /\ r.n \in 0..Len(x) /\ r.end \in {"ok", "err", "panic"}
      /\ r.end = "ok" => r.n = Len(x)
      /\ r.end # "ok" => r.n < Len(x)
  BY LibraryFacts
<1>2. Old!End(v, x, d) = r.end
  BY SameLibrary DEF Old!End
<1>3. Old!TryParse(v, x, d)
        = IF m = "none" THEN "None" ELSE IF r.end = "ok" THEN "Ok"
          ELSE IF r.end = "err" THEN "reason" ELSE "panicked"
  BY <1>1, <1>2 DEF Old!TryParse, Old!Supports
<1>4. Old!Accepts(v, x, d) <=> m # "none" /\ r.end = "ok"
  BY <1>1, <1>3 DEF Old!Accepts
<1>5. Old!ParseOutcome(v, x, d)
        = IF m = "none" THEN "Unsupported" ELSE IF r.end = "ok" THEN "Accepted"
          ELSE IF r.end = "err" THEN "Rejected" ELSE "Panicked"
  BY <1>1, <1>3 DEF Old!ParseOutcome
<1>6. Old!ParseOnce(v, x, d)
        = IF m = "none" THEN "false" ELSE IF r.end = "panic" THEN "abort"
          ELSE IF r.end = "ok" THEN "true" ELSE "false"
  BY <1>1, <1>2 DEF Old!ParseOnce, Old!Supports
<1>7. Old!ParseBatch(v, x, d)
        = IF m = "none" \/ v.family = "databend" THEN -1 ELSE IF r.end = "panic" THEN -2
          ELSE IF r.end = "ok" \/ v.family \in {"sqlite3", "turso"} THEN r.n ELSE 0
  BY SameLibrary DEF Old!ParseBatch, Old!Supports, Old!CanBatch
<1>8. Old!MeasureMem(v, x, d)
        = IF m = "none" THEN "None" ELSE IF r.end = "panic" THEN "abort" ELSE "Some"
  BY <1>1, <1>2 DEF Old!MeasureMem, Old!Supports
<1>9. Old!Roundtrips(v, x, d) = "None" <=> ~Old!CanReprint(v, d)
  BY DEF Old!Roundtrips
<1>10. ASSUME Old!Mode(v, d) = Lib!Mode(v.family, d)
       PROVE  /\ Old!ParseOutcome(v, x, d) = Lib!ParseOutcome(v.family, x, d)
              /\ Old!ParseBatch(v, x, d) = Lib!ParseBatch(v.family, x, d)
              /\ Lib!Roundtrips(v.family, x, d) \in {Old!Roundtrips(v, x, d), "abort"}
  <2>1. Old!ParseOutcome(v, x, d) = Lib!ParseOutcome(v.family, x, d)
    BY <1>1, <1>5, <1>10 DEF Lib!ParseOutcome, Lib!CatchOutcome
  <2>2. Old!ParseBatch(v, x, d) = Lib!ParseBatch(v.family, x, d)
    BY <1>7, <1>10 DEF Lib!ParseBatch, Lib!CanBatch
  <2>3. Lib!Roundtrips(v.family, x, d) \in {Old!Roundtrips(v, x, d), "abort"}
    <3>1. Old!CanReprint(v, d) <=> Lib!CanReprint(v.family, d)
      BY <1>10 DEF Old!CanReprint, Old!Supports, Lib!CanReprint, VersionFamilies
    <3>2. ASSUME NEW T, NEW z \in Seq(T)
          PROVE  Lib!Reprint(v.family, z, d) \in {Old!Reprint(v, z, d), <<"abort">>}
      <4>1. /\ Lib!Library(v.family, z, m).end \in {"ok", "err", "panic"}
            /\ Old!End(v, z, d) = Lib!Library(v.family, z, m).end
        BY LibraryFacts, SameLibrary DEF Old!End
      <4> DEFINE y == Lib!ToPrint(v.family, z)
                 again == [i \in DOMAIN y |-> Lib!Printed(y[i])]
      <4>2. Old!Reprint(v, z, d)
              = IF ~Lib!CanReprint(v.family, d) \/ z = <<>> \/ Old!End(v, z, d) # "ok"
                   \/ "noprint" \in Lib!ToSet(y)
                THEN <<"None">> ELSE again
        BY <3>1, SameLibrary DEF Old!Reprint, Old!ToSet, Lib!ToSet
      <4>3. Lib!Reprint(v.family, z, d)
              = IF ~Lib!CanReprint(v.family, d) \/ Lib!Library(v.family, z, m).end = "err" \/ z = <<>>
                THEN <<"None">>
                ELSE IF Lib!Library(v.family, z, m).end = "panic" \/ "noprint" \in Lib!ToSet(y)
                THEN IF Lib!Caught(v.family) THEN <<"None">> ELSE <<"abort">>
                ELSE again
        BY <1>10 DEF Lib!Reprint
      <4> HIDE DEF m, y, again
      <4> QED
        BY <4>1, <4>2, <4>3
    <3> DEFINE first == Lib!Reprint(v.family, x, d)
    <3>3. Lib!Roundtrips(v.family, x, d)
            = IF ~Lib!CanReprint(v.family, d) THEN "None" ELSE IF first = <<"None">> THEN "false"
              ELSE IF <<"abort">> \in {first, Lib!Reprint(v.family, first, d)} THEN "abort"
              ELSE IF first = Lib!Reprint(v.family, first, d) THEN "true" ELSE "false"
      BY DEF Lib!Roundtrips
    <3>4. Old!Roundtrips(v, x, d)
            = IF ~Lib!CanReprint(v.family, d) THEN "None"
              ELSE IF Old!Reprint(v, x, d) = <<"None">> THEN "false"
              ELSE IF Old!Reprint(v, Old!Reprint(v, x, d), d) = Old!Reprint(v, x, d)
              THEN "true" ELSE "false"
      BY <3>1 DEF Old!Roundtrips
    <3>5. \E T : first \in Seq(T)
      <4> DEFINE y == Lib!ToPrint(v.family, x)
                 again == [i \in DOMAIN y |-> Lib!Printed(y[i])]
                 T == {"None", "abort"} \cup {Lib!Printed(y[i]) : i \in DOMAIN y}
      <4>1. Len(y) \in Nat /\ DOMAIN y = 1..Len(y)
        BY ToPrintFacts
      <4>2. again \in Seq(T)
        <5> HIDE DEF y
        <5> QED
          BY <4>1
      <4>3. <<"None">> \in Seq(T) /\ <<"abort">> \in Seq(T)
        OBVIOUS
      <4>4. first \in {<<"None">>, <<"abort">>, again}
        BY DEF Lib!Reprint
      <4> HIDE DEF again, T, first
      <4> QED
        BY <4>2, <4>3, <4>4
    <3>6. first \in {Old!Reprint(v, x, d), <<"abort">>}
      BY <3>2
    <3>7. Lib!Reprint(v.family, first, d) \in {Old!Reprint(v, first, d), <<"abort">>}
      <4> HIDE DEF first
      <4> QED
        BY <3>2, <3>5
    <3> HIDE DEF first
    <3> QED
      BY <3>3, <3>4, <3>6, <3>7
  <2> QED
    BY <2>1, <2>2, <2>3
<1> HIDE DEF m, r
<1> QED
  BY <1>1, <1>4, <1>5, <1>6, <1>7, <1>8, <1>9, <1>10 DEF Old!Supports, m

\* The families listed are those of the versions registered: the fold over the registry has
\* listed, after i versions, the families of these.
LEMMA FamiliesOfRegistered ==
  ToSet(Old!Families) = {w.family : w \in ToSet(Old!Registered)}
PROOF
<1> DEFINE g == Old!Registered
           n == Len(g)
           T == ToSet(g)
           S == Seq(VersionFamilies)
           Next1(seen, v) == IF v.family \in Old!ToSet(seen) THEN seen ELSE Append(seen, v.family)
           op == [x \in S \X T |-> Next1(x[1], x[2])]
           D == 1..n
           IsIter(f) == f = [s \in SUBSET D |->
             IF s = {} THEN <<>> ELSE Next1(f[s \ {Old!Max(s)}], g[Old!Max(s)])]
           Iter == CHOOSE f : IsIter(f)
<1>1. n \in Nat /\ DOMAIN g = D /\ \A i \in D : g[i] \in T
  BY RegisteredFacts
<1>2. Old!Families = Iter[D]
  <2>1. Old!Families
          = (CHOOSE f : f = [s \in SUBSET DOMAIN g |->
               IF s = {} THEN <<>> ELSE Next1(f[s \ {Old!Max(s)}], g[Old!Max(s)])])[DOMAIN g]
    BY DEF Old!Families, Old!FoldLeft, Old!MapThenFoldSet
  <2> HIDE DEF D, g, Next1
  <2> QED
    BY <1>1, <2>1
<1>3. \A a \in S, v \in T : /\ Next1(a, v) \in S
                            /\ ToSet(Next1(a, v)) = ToSet(a) \cup {v.family}
  <2> SUFFICES ASSUME NEW a \in S, NEW v \in T
               PROVE  Next1(a, v) \in S /\ ToSet(Next1(a, v)) = ToSet(a) \cup {v.family}
    OBVIOUS
  <2>1. v.family \in VersionFamilies
    BY RegisteredFacts
  <2>2. CASE v.family \in Old!ToSet(a)
    BY <2>2 DEF Old!ToSet, ToSet
  <2>3. CASE v.family \notin Old!ToSet(a)
    <3> DEFINE b == Append(a, v.family)
    <3>1. Next1(a, v) = b
      BY <2>3
    <3>2. /\ Len(a) \in Nat /\ DOMAIN a = 1..Len(a) /\ DOMAIN b = 1..(Len(a) + 1)
          /\ \A i \in DOMAIN a : b[i] = a[i]
          /\ b[Len(a) + 1] = v.family /\ b \in S
      BY <2>1
    <3> HIDE DEF b, Next1
    <3>3. \A i \in DOMAIN b : i \in DOMAIN a \/ i = Len(a) + 1
      BY <3>2
    <3>4. ToSet(b) = ToSet(a) \cup {v.family}
      BY <3>2, <3>3 DEF ToSet
    <3> QED
      BY <3>1, <3>2, <3>4
  <2> QED
    BY <2>2, <2>3
<1>4. op \in [S \X T -> S] /\ \A a \in S, v \in T : op[<<a, v>>] = Next1(a, v)
  <2> HIDE DEF S, T, Next1
  <2> QED
    BY <1>3
<1>5. <<>> \in S /\ ToSet(<<>>) = {}
  BY DEF ToSet
<1>6. [i \in D |-> g[i]] \in [D -> T]
  <2> HIDE DEF D, T, g
  <2> QED
    BY <1>1
<1> DEFINE h == [i \in D |-> g[i]]
<1>7. PICK F : IsFold(F, n, S, <<>>, op, h)
  <2>1. h \in [1..n -> T]
    BY <1>6
  <2>2. n \in Nat /\ <<>> \in S /\ op \in [S \X T -> S]
    BY <1>1, <1>4, <1>5
  <2> HIDE DEF S, T, op, g, h, n
  <2> QED
    BY <2>1, <2>2, FoldExists
<1>8. \A k \in D : \A s \in SUBSET (1..k) : k \in s =>
        Old!Max(s) = k /\ Max(s) = k /\ s \ {k} \in SUBSET (1..(k - 1))
  <2> SUFFICES ASSUME NEW k \in D, NEW s \in SUBSET (1..k), k \in s
               PROVE  Old!Max(s) = k /\ Max(s) = k /\ s \ {k} \in SUBSET (1..(k - 1))
    OBVIOUS
  <2>1. k \in Nat \ {0}
    BY <1>1
  <2>2. Old!Max(s) = Max(s)
    BY DEF Old!Max, Max
  <2> QED
    BY <2>1, <2>2, MaxOfPrefix
<1>9. /\ F \in [SUBSET D -> S] /\ F[{}] = <<>>
      /\ \A s \in SUBSET D : s # {} => F[s] = op[F[s \ {Max(s)}], h[Max(s)]]
  <2> HIDE DEF S, T, op, g, h
  <2> QED
    BY <1>7 DEF IsFold
<1>10. \A s \in SUBSET D : s # {} =>
         Old!Max(s) \in s /\ Old!Max(s) = Max(s) /\ s \ {Old!Max(s)} \in SUBSET D
  <2> SUFFICES ASSUME NEW s \in SUBSET D, s # {}
               PROVE  Old!Max(s) \in s /\ Old!Max(s) = Max(s) /\ s \ {Old!Max(s)} \in SUBSET D
    OBVIOUS
  <2>1. Old!Max(s) = Max(s)
    BY DEF Old!Max, Max
  <2>2. Max(s) \in s
    BY <1>1, HasMax
  <2> HIDE DEF D
  <2> QED
    BY <2>1, <2>2
<1>11. IsIter(F)
  <2> DEFINE R == [s \in SUBSET D |->
                     IF s = {} THEN <<>> ELSE Next1(F[s \ {Old!Max(s)}], g[Old!Max(s)])]
  <2>1. ASSUME NEW s \in SUBSET D PROVE F[s] = R[s]
    <3>1. CASE s = {}
      <4> HIDE DEF Next1, D, S, op, g, h
      <4> QED
        BY <1>9, <3>1
    <3>2. CASE s # {}
      <4> DEFINE k == Old!Max(s)
                 u == s \ {k}
      <4>1. k \in D /\ k = Max(s) /\ u \in SUBSET D
        BY <1>10, <3>2
      <4>2. F[u] \in S /\ g[k] \in T /\ h[k] = g[k]
        BY <1>1, <1>9, <4>1
      <4>3. F[s] = op[F[u], h[k]]
        <5> HIDE DEF S, op, h
        <5> QED
          BY <1>9, <3>2, <4>1, Zenon
      <4>4. op[F[u], h[k]] = Next1(F[u], g[k])
        <5> HIDE DEF S, op, h, g, T, Next1, u, k
        <5> QED
          BY <1>4, <4>2
      <4>5. R[s] = Next1(F[u], g[k])
        <5> HIDE DEF D, Next1, g
        <5> QED
          BY <3>2
      <4> QED
        BY <4>3, <4>4, <4>5, Zenon
    <3> QED
      BY <3>1, <3>2
  <2>2. F = [s \in SUBSET D |-> F[s]]
    BY <1>9
  <2>3. R = [s \in SUBSET D |-> R[s]]
    BY DEF R
  <2>4. F = R
    <3> HIDE DEF R, D
    <3> QED
      BY <2>1, <2>2, <2>3
  <2> HIDE DEF D, Next1, g
  <2> QED
    BY <2>4 DEF R
<1>12. IsIter(Iter)
  <2> HIDE DEF IsIter
  <2> QED
    BY <1>11
<1> DEFINE A(i) == Iter[1..i]
<1>13. A(0) = <<>>
  <2>1. 1..0 = {} /\ {} \in SUBSET D
    OBVIOUS
  <2> HIDE DEF D, Next1, g, Iter
  <2> QED
    BY <1>12, <2>1
<1>14. \A i \in D : A(i) = Next1(A(i - 1), g[i])
  <2> SUFFICES ASSUME NEW i \in D PROVE A(i) = Next1(A(i - 1), g[i])
    OBVIOUS
  <2> DEFINE s == 1..i
  <2>1. i \in Nat /\ i \in s /\ s \in SUBSET D /\ s # {} /\ s \ {i} = 1..(i - 1)
    <3>1. i \in Nat /\ i \in s /\ s \in SUBSET D
      BY <1>1
    <3>2. \A j : j \in s \ {i} <=> j \in 1..(i - 1)
      BY <3>1
    <3> HIDE DEF s, D
    <3> QED
      BY <3>1, <3>2
  <2>2. Old!Max(s) = i
    <3> HIDE DEF D
    <3> QED
      BY <1>8, <2>1
  <2>3. Iter[s] = Next1(Iter[s \ {Old!Max(s)}], g[Old!Max(s)])
    <3> HIDE DEF D, Next1, g, Iter, s
    <3> QED
      BY <1>12, <2>1
  <2> HIDE DEF D, Next1, g, Iter
  <2> QED
    BY <2>1, <2>2, <2>3, Zenon
<1> DEFINE Fam(i) == {g[j].family : j \in 1..i}
           E == {i \in 0..n : A(i) \in S /\ ToSet(A(i)) = Fam(i)}
<1>15. 0 \in E
  <2>1. 0 \in 0..n /\ Fam(0) = {}
    BY <1>1
  <2> HIDE DEF Fam, A, S, g, n
  <2> QED
    BY <1>5, <1>13, <2>1
<1>16. ASSUME NEW i \in 1..n, i - 1 \in E PROVE i \in E
  <2>1. i \in D /\ i \in 0..n /\ g[i] \in T
    BY <1>1
  <2>2. A(i) \in S /\ ToSet(A(i)) = ToSet(A(i - 1)) \cup {g[i].family}
    <3>1. A(i - 1) \in S
      BY <1>16
    <3> HIDE DEF A, D, S, T, Next1, g, n, E
    <3> QED
      BY <1>3, <1>14, <2>1, <3>1, Zenon
  <2>3. Fam(i) = Fam(i - 1) \cup {g[i].family}
    <3>1. \A j : j \in 1..i <=> j \in 1..(i - 1) \/ j = i
      BY <1>1
    <3> HIDE DEF g, n
    <3> QED
      BY <3>1
  <2>4. ToSet(A(i - 1)) = Fam(i - 1)
    BY <1>16
  <2> HIDE DEF A, Fam, S, g, n
  <2> QED
    BY <2>1, <2>2, <2>3, <2>4
<1>17. n \in E
  <2> HIDE DEF E, n
  <2>1. 0..n \subseteq E
    BY <1>1, <1>15, <1>16, UpTo
  <2> QED
    BY <1>1, <2>1
<1>18. ToSet(Old!Families) = {g[j].family : j \in D}
  BY <1>2, <1>17
<1> QED
  BY <1>1, <1>18 DEF ToSet

\* Both, of the script a behaviour has been fed so far.
LEMMA CurrentAgreeHolds == InputInv => CurrentAgree
PROOF
<1> SUFFICES ASSUME InputInv, tool = "script" PROVE CurrentAgree
  BY DEF CurrentAgree
<1>1. input \in Seq(Alphabet["script"])
  BY DEF InputInv, Algos
<1>2. Lib!ToSet(input) = ToSet(input)
  BY DEF Lib!ToSet, ToSet
<1>3. \A p \in Lib!Parsers, d \in Lib!Dialects :
        LET accepted == Lib!Accepts(p, input, d)
        IN  /\ Lib!Supports(p, d) <=> Lib!ParseOutcome(p, input, d) # "Unsupported"
            /\ accepted => /\ Lib!ParseOnce(p, input, d) = "true"
                           /\ Lib!MeasureMem(p, input, d) # "abort"
                           /\ Lib!ParseBatch(p, input, d) \in {-1, Len(input)}
            /\ ~accepted => /\ Lib!ParseBatch(p, input, d) < Len(input)
                            /\ Lib!Supports(p, d) => Lib!ParseOnce(p, input, d) # "true"
            /\ Lib!ParseBatch(p, input, d) = -1 <=> ~(Lib!CanBatch(p) /\ Lib!Supports(p, d))
            /\ Lib!MeasureMemBatch(p, input, d) = "Some" => Lib!ParseBatch(p, input, d) # -1
            /\ Lib!Roundtrips(p, input, d) = "None" <=> ~Lib!CanReprint(p, d)
            /\ Lib!CanReprint(p, d) => Lib!Supports(p, d)
            /\ accepted /\ Lib!Roundtrips(p, input, d) = "abort" =>
                 ~Lib!Caught(p) /\ {"noprint", "panic"} \cap Lib!ToSet(input) # {}
  BY <1>1, CurrentAgreeAlways
<1> QED
  BY <1>2, <1>3 DEF CurrentAgree

\* For every input the entry points of each historical version agree about it.
LEMMA VersionsAgreeHolds == InputInv => VersionsAgree
PROOF
<1> SUFFICES ASSUME InputInv, tool = "script" PROVE VersionsAgree
  BY DEF VersionsAgree
<1>1. input \in Seq(Alphabet["script"])
  BY DEF InputInv, Algos
<1>2. ASSUME NEW v \in ToSet(Old!Registered), NEW d \in Lib!Dialects
      PROVE  LET accepted == Old!Accepts(v, input, d)
             IN  /\ Old!ParseOutcome(v, input, d) = "Unsupported" <=> ~Old!Supports(v, d)
                 /\ Old!ParseOnce(v, input, d) = "true" <=> accepted
                 /\ accepted => /\ Old!MeasureMem(v, input, d) = "Some"
                                /\ Old!ParseBatch(v, input, d) \in {-1, Len(input)}
                 /\ ~accepted => Old!ParseBatch(v, input, d) < Len(input)
                 /\ Old!Roundtrips(v, input, d) = "None" <=> ~Old!CanReprint(v, d)
                 /\ Old!Mode(v, d) = Lib!Mode(v.family, d) =>
                      /\ Old!ParseOutcome(v, input, d) = Lib!ParseOutcome(v.family, input, d)
                      /\ Old!ParseBatch(v, input, d) = Lib!ParseBatch(v.family, input, d)
                      /\ Lib!Roundtrips(v.family, input, d)
                           \in {Old!Roundtrips(v, input, d), "abort"}
  <2>1. v.family \in VersionFamilies
    BY RegisteredFacts
  <2> QED
    BY <1>1, <2>1, VersionAgreesAlways
<1> QED
  BY <1>2, FamiliesOfRegistered DEF VersionsAgree

\* What grading, timing, batches, memory and printing make of a script fits together, in the
\* current build and in every historical version, for every script over any alphabet; and
\* the newest version in the same mode is graded as the current build is.
THEOREM AdaptersEntryPointsAgree == Spec => []EntryPointsAgree
PROOF
  BY InputTyped, CurrentAgreeHolds, VersionsAgreeHolds, PTL DEF EntryPointsAgree

-----------------------------------------------------------------------------
(* Grading: what is kept of a list, counts and sums                        *)

\* The lists that Kept pushes to, position by position.
KeptRun(A, s, at) ==
  /\ A[0] = <<>> /\ A[Len(s)] = Kept(s, at)
  /\ \A i \in 1..Len(s) : A[i] = IF i \in at THEN Append(A[i - 1], s[i]) ELSE A[i - 1]

\* There are such lists: the steps of its fold.
LEMMA KeptSteps ==
  ASSUME NEW T, NEW s \in Seq(T), NEW at
  PROVE  \E A \in [0..Len(s) -> Seq(T)] : KeptRun(A, s, at)
PROOF
<1> DEFINE n == Len(s)
           D == 1..n
           S == Seq(T)
           g == [i \in DOMAIN s |-> i]
           Next1(list, i) == IF i \in at THEN Append(list, s[i]) ELSE list
           op == [x \in S \X D |-> Next1(x[1], x[2])]
           IsIter(f) == f = [u \in SUBSET D |->
             IF u = {} THEN <<>> ELSE Next1(f[u \ {Max(u)}], g[Max(u)])]
           Iter == CHOOSE f : IsIter(f)
<1>1. n \in Nat /\ DOMAIN s = D /\ DOMAIN g = D /\ g \in [D -> D]
  OBVIOUS
<1>2. Kept(s, at) = Iter[D]
  <2>1. Kept(s, at)
          = (CHOOSE f : f = [u \in SUBSET DOMAIN g |->
               IF u = {} THEN <<>> ELSE Next1(f[u \ {Max(u)}], g[Max(u)])])[DOMAIN g]
    BY DEF Kept, FoldLeft, MapThenFoldSet
  <2> HIDE DEF D, g, Next1
  <2> QED
    BY <1>1, <2>1
<1>3. \A a \in S, v \in D : Next1(a, v) \in S
  OBVIOUS
<1>4. op \in [S \X D -> S] /\ \A a \in S, v \in D : op[<<a, v>>] = Next1(a, v)
  <2> HIDE DEF S, Next1, D
  <2> QED
    BY <1>3
<1>5. PICK F : IsFold(F, n, S, <<>>, op, g)
  <2>1. g \in [1..n -> D] /\ n \in Nat /\ <<>> \in S /\ op \in [S \X D -> S]
    BY <1>1, <1>4
  <2> HIDE DEF S, op, g, n
  <2> QED
    BY <2>1, FoldExists
<1>6. /\ F \in [SUBSET D -> S] /\ F[{}] = <<>>
      /\ \A u \in SUBSET D : u # {} => F[u] = op[F[u \ {Max(u)}], g[Max(u)]]
  <2> HIDE DEF S, op, g
  <2> QED
    BY <1>5 DEF IsFold
<1>7. IsIter(F)
  <2> DEFINE R == [u \in SUBSET D |->
                     IF u = {} THEN <<>> ELSE Next1(F[u \ {Max(u)}], g[Max(u)])]
  <2>1. ASSUME NEW u \in SUBSET D PROVE F[u] = R[u]
    <3>1. CASE u = {}
      <4> HIDE DEF Next1, D, S, op, g
      <4> QED
        BY <1>6, <3>1
    <3>2. CASE u # {}
      <4> DEFINE k == Max(u)
                 w == u \ {k}
      <4>1. k \in D /\ w \in SUBSET D
        BY <1>1, <3>2, HasMax
      <4>2. F[w] \in S /\ g[k] \in D
        BY <1>1, <1>6, <4>1
      <4>3. F[u] = op[F[w], g[k]]
        <5> HIDE DEF S, op, g
        <5> QED
          BY <1>6, <3>2, <4>1, Zenon
      <4>4. op[F[w], g[k]] = Next1(F[w], g[k])
        <5> HIDE DEF S, op, g, Next1, w, k, D
        <5> QED
          BY <1>4, <4>2
      <4>5. R[u] = Next1(F[w], g[k])
        <5> HIDE DEF D, Next1, g
        <5> QED
          BY <3>2
      <4> QED
        BY <4>3, <4>4, <4>5, Zenon
    <3> QED
      BY <3>1, <3>2
  <2>2. F = [u \in SUBSET D |-> F[u]]
    BY <1>6
  <2>3. R = [u \in SUBSET D |-> R[u]]
    BY DEF R
  <2>4. F = R
    <3> HIDE DEF R, D
    <3> QED
      BY <2>1, <2>2, <2>3
  <2> HIDE DEF D, Next1, g
  <2> QED
    BY <2>4 DEF R
<1>8. IsIter(Iter)
  <2> HIDE DEF IsIter
  <2> QED
    BY <1>7
<1> DEFINE A == [i \in 0..n |-> Iter[1..i]]
<1>9. A[0] = <<>>
  <2>1. 1..0 = {} /\ {} \in SUBSET D /\ 0 \in 0..n
    BY <1>1
  <2> HIDE DEF D, Next1, g, Iter, n
  <2> QED
    BY <1>8, <2>1
<1>10. \A i \in D : A[i] = Next1(A[i - 1], g[i])
  <2> SUFFICES ASSUME NEW i \in D PROVE A[i] = Next1(A[i - 1], g[i])
    OBVIOUS
  <2> DEFINE u == 1..i
  <2>1. i \in Nat \ {0} /\ i \in u /\ u \in SUBSET D /\ i \in 0..n /\ i - 1 \in 0..n
    BY <1>1
  <2>2. u \ {i} = 1..(i - 1)
    <3>1. \A j : j \in u \ {i} <=> j \in 1..(i - 1)
      BY <2>1
    <3> HIDE DEF u
    <3> QED
      BY <3>1
  <2>3. Max(u) = i
    BY <2>1, MaxOfPrefix
  <2>4. Iter[u] = Next1(Iter[u \ {Max(u)}], g[Max(u)])
    <3> HIDE DEF D, Next1, g, Iter, u
    <3> QED
      BY <1>8, <2>1
  <2>5. Iter[u] = Next1(Iter[1..(i - 1)], g[i])
    <3> HIDE DEF D, Next1, g, Iter
    <3> QED
      BY <2>2, <2>3, <2>4, Zenon
  <2>6. A[i] = Iter[u] /\ A[i - 1] = Iter[1..(i - 1)]
    <3> HIDE DEF Iter
    <3> QED
      BY <2>1
  <2> HIDE DEF D, Next1, g, Iter, A
  <2> QED
    BY <2>5, <2>6, Zenon
<1> DEFINE E == {i \in 0..n : A[i] \in S}
<1>11. 0 \in E
  <2>1. 0 \in 0..n /\ <<>> \in S
    BY <1>1
  <2> HIDE DEF A, S
  <2> QED
    BY <1>9, <2>1
<1>12. ASSUME NEW i \in 1..n, i - 1 \in E PROVE i \in E
  <2>1. i \in D /\ i \in 0..n /\ g[i] \in D
    BY <1>1
  <2> HIDE DEF A, S, Next1, g, n
  <2> QED
    BY <1>3, <1>10, <1>12, <2>1
<1>13. 0..n \subseteq E
  <2> HIDE DEF E, n
  <2> QED
    BY <1>1, <1>11, <1>12, UpTo
<1>14. A \in [0..n -> S]
  <2>1. \A i \in 0..n : A[i] \in S
    BY <1>13
  <2>2. A = [i \in 0..n |-> A[i]]
    BY DEF A
  <2> HIDE DEF A, n, S
  <2> QED
    BY <2>1, <2>2
<1>15. A[n] = Kept(s, at)
  <2>1. n \in 0..n
    BY <1>1
  <2> HIDE DEF Iter
  <2> QED
    BY <1>2, <2>1
<1>16. KeptRun(A, s, at)
  <2>1. \A i \in D : g[i] = i
    BY <1>1
  <2> HIDE DEF A, g
  <2> QED
    BY <1>9, <1>10, <1>15, <2>1 DEF KeptRun
<1> QED
  BY <1>14, <1>16

\* The sums that SumOf goes through.
SumRun(A, s) ==
  /\ A[0] = 0 /\ A[Len(s)] = SumOf(s)
  /\ \A i \in 1..Len(s) : A[i] = A[i - 1] + s[i]

\* There are such sums: the steps of its fold.
LEMMA SumSteps ==
  ASSUME NEW s \in Seq(Nat)
  PROVE  \E A \in [0..Len(s) -> Nat] : SumRun(A, s)
PROOF
<1> DEFINE n == Len(s)
           D == 1..n
           S == Nat
           g == s
           Next1(n1, x) == n1 + x
           op == [x \in S \X Nat |-> Next1(x[1], x[2])]
           IsIter(f) == f = [u \in SUBSET D |->
             IF u = {} THEN 0 ELSE Next1(f[u \ {Max(u)}], g[Max(u)])]
           Iter == CHOOSE f : IsIter(f)
<1>1. n \in Nat /\ DOMAIN s = D /\ DOMAIN g = D /\ g \in [D -> Nat]
  OBVIOUS
<1>2. SumOf(s) = Iter[D]
  <2>1. SumOf(s)
          = (CHOOSE f : f = [u \in SUBSET DOMAIN g |->
               IF u = {} THEN 0 ELSE Next1(f[u \ {Max(u)}], g[Max(u)])])[DOMAIN g]
    BY DEF SumOf, FoldLeft, MapThenFoldSet
  <2> HIDE DEF D, g, Next1
  <2> QED
    BY <1>1, <2>1
<1>3. \A a \in S, v \in Nat : Next1(a, v) \in S
  OBVIOUS
<1>4. op \in [S \X Nat -> S] /\ \A a \in S, v \in Nat : op[<<a, v>>] = Next1(a, v)
  <2> HIDE DEF S, Next1, D
  <2> QED
    BY <1>3
<1>5. PICK F : IsFold(F, n, S, 0, op, g)
  <2>1. g \in [1..n -> Nat] /\ n \in Nat /\ 0 \in S /\ op \in [S \X Nat -> S]
    BY <1>1, <1>4
  <2> HIDE DEF S, op, g, n
  <2> QED
    BY <2>1, FoldExists
<1>6. /\ F \in [SUBSET D -> S] /\ F[{}] = 0
      /\ \A u \in SUBSET D : u # {} => F[u] = op[F[u \ {Max(u)}], g[Max(u)]]
  <2> HIDE DEF S, op, g
  <2> QED
    BY <1>5 DEF IsFold
<1>7. IsIter(F)
  <2> DEFINE R == [u \in SUBSET D |->
                     IF u = {} THEN 0 ELSE Next1(F[u \ {Max(u)}], g[Max(u)])]
  <2>1. ASSUME NEW u \in SUBSET D PROVE F[u] = R[u]
    <3>1. CASE u = {}
      <4> HIDE DEF Next1, D, S, op, g
      <4> QED
        BY <1>6, <3>1
    <3>2. CASE u # {}
      <4> DEFINE k == Max(u)
                 w == u \ {k}
      <4>1. k \in D /\ w \in SUBSET D
        BY <1>1, <3>2, HasMax
      <4>2. F[w] \in S /\ g[k] \in Nat
        BY <1>1, <1>6, <4>1
      <4>3. F[u] = op[F[w], g[k]]
        <5> HIDE DEF S, op, g
        <5> QED
          BY <1>6, <3>2, <4>1, Zenon
      <4>4. op[F[w], g[k]] = Next1(F[w], g[k])
        <5> HIDE DEF S, op, g, Next1, w, k, D
        <5> QED
          BY <1>4, <4>2
      <4>5. R[u] = Next1(F[w], g[k])
        <5> HIDE DEF D, Next1, g
        <5> QED
          BY <3>2
      <4> QED
        BY <4>3, <4>4, <4>5, Zenon
    <3> QED
      BY <3>1, <3>2
  <2>2. F = [u \in SUBSET D |-> F[u]]
    BY <1>6
  <2>3. R = [u \in SUBSET D |-> R[u]]
    BY DEF R
  <2>4. F = R
    <3> HIDE DEF R, D
    <3> QED
      BY <2>1, <2>2, <2>3
  <2> HIDE DEF D, Next1, g
  <2> QED
    BY <2>4 DEF R
<1>8. IsIter(Iter)
  <2> HIDE DEF IsIter
  <2> QED
    BY <1>7
<1> DEFINE A == [i \in 0..n |-> Iter[1..i]]
<1>9. A[0] = 0
  <2>1. 1..0 = {} /\ {} \in SUBSET D /\ 0 \in 0..n
    BY <1>1
  <2> HIDE DEF D, Next1, g, Iter, n
  <2> QED
    BY <1>8, <2>1
<1>10. \A i \in D : A[i] = Next1(A[i - 1], g[i])
  <2> SUFFICES ASSUME NEW i \in D PROVE A[i] = Next1(A[i - 1], g[i])
    OBVIOUS
  <2> DEFINE u == 1..i
  <2>1. i \in Nat \ {0} /\ i \in u /\ u \in SUBSET D /\ i \in 0..n /\ i - 1 \in 0..n
    BY <1>1
  <2>2. u \ {i} = 1..(i - 1)
    <3>1. \A j : j \in u \ {i} <=> j \in 1..(i - 1)
      BY <2>1
    <3> HIDE DEF u
    <3> QED
      BY <3>1
  <2>3. Max(u) = i
    BY <2>1, MaxOfPrefix
  <2>4. Iter[u] = Next1(Iter[u \ {Max(u)}], g[Max(u)])
    <3> HIDE DEF D, Next1, g, Iter, u
    <3> QED
      BY <1>8, <2>1
  <2>5. Iter[u] = Next1(Iter[1..(i - 1)], g[i])
    <3> HIDE DEF D, Next1, g, Iter
    <3> QED
      BY <2>2, <2>3, <2>4, Zenon
  <2>6. A[i] = Iter[u] /\ A[i - 1] = Iter[1..(i - 1)]
    <3> HIDE DEF Iter
    <3> QED
      BY <2>1
  <2> HIDE DEF D, Next1, g, Iter, A
  <2> QED
    BY <2>5, <2>6, Zenon
<1> DEFINE E == {i \in 0..n : A[i] \in S}
<1>11. 0 \in E
  <2>1. 0 \in 0..n /\ 0 \in S
    BY <1>1
  <2> HIDE DEF A, S
  <2> QED
    BY <1>9, <2>1
<1>12. ASSUME NEW i \in 1..n, i - 1 \in E PROVE i \in E
  <2>1. i \in D /\ i \in 0..n /\ g[i] \in Nat
    BY <1>1
  <2> HIDE DEF A, S, Next1, g, n
  <2> QED
    BY <1>3, <1>10, <1>12, <2>1
<1>13. 0..n \subseteq E
  <2> HIDE DEF E, n
  <2> QED
    BY <1>1, <1>11, <1>12, UpTo
<1>14. A \in [0..n -> S]
  <2>1. \A i \in 0..n : A[i] \in S
    BY <1>13
  <2>2. A = [i \in 0..n |-> A[i]]
    BY DEF A
  <2> HIDE DEF A, n, S
  <2> QED
    BY <2>1, <2>2
<1>15. A[n] = SumOf(s)
  <2>1. n \in 0..n
    BY <1>1
  <2> HIDE DEF Iter
  <2> QED
    BY <1>2, <2>1
<1>16. SumRun(A, s)
  <2>1. \A i \in D : g[i] = s[i]
    BY <1>1
  <2> HIDE DEF A, g
  <2> QED
    BY <1>9, <1>10, <1>15, <2>1 DEF SumRun
<1> QED
  BY <1>14, <1>16

\* Where a list has elements of V, and how many.
At(s, V) == {i \in DOMAIN s : s[i] \in V}
CountIn(s, V) == Cardinality(At(s, V))

\* Whether i counts.
Bit(i, K) == IF i \in K THEN 1 ELSE 0

\* Counting one position more.
LEMMA OverlapNext ==
  ASSUME NEW i \in Nat \ {0}, NEW K
  PROVE  /\ Overlap(1..(i - 1), K) \in Nat /\ Overlap(1..i, K) \in Nat
         /\ Overlap(1..i, K) = Overlap(1..(i - 1), K) + Bit(i, K)
PROOF
<1> DEFINE u == 1..(i - 1)
           v == {i}
<1>1. i - 1 \in Nat /\ i \notin u
  OBVIOUS
<1>2. 1..i = u \cup v
  <2>1. \A j : j \in 1..i <=> j \in u \/ j = i
    BY <1>1
  <2> HIDE DEF u
  <2> QED
    BY <2>1
<1>3. IsFiniteSet(u) /\ IsFiniteSet(v) /\ Apart(u, v)
  <2>1. IsFiniteSet(u)
    BY <1>1, FS_Interval
  <2>2. IsFiniteSet(v)
    BY FS_Singleton
  <2> HIDE DEF u
  <2> QED
    BY <1>1, <2>1, <2>2 DEF Apart
<1> HIDE DEF u, v
<1>4. OverlapsAdd(u, v)
  BY <1>3, OverlapOfUnion
<1>5. Overlap(u \cup v, K) = Overlap(u, K) + Overlap(v, K)
  BY <1>4 DEF OverlapsAdd
<1>6. Overlap(v, K) = Bit(i, K)
  <2>1. CASE i \in K
    <3>1. v \cap K = {i}
      BY <2>1 DEF v
    <3>2. Cardinality({i}) = 1
      BY FS_Singleton
    <3> QED
      BY <2>1, <3>1, <3>2 DEF Overlap, Bit
  <2>2. CASE i \notin K
    <3>1. v \cap K = {}
      BY <2>2 DEF v
    <3>2. Cardinality({}) = 0
      BY FS_EmptySet
    <3> QED
      BY <2>2, <3>1, <3>2 DEF Overlap, Bit
  <2> QED
    BY <2>1, <2>2
<1>7. Overlap(u, K) \in Nat
  <2>1. IsFiniteSet(u \cap K)
    BY <1>3, FS_Intersection
  <2> QED
    BY <2>1, FS_CardinalityType DEF Overlap
<1>8. Overlap(1..i, K) = Overlap(u, K) + Bit(i, K)
  BY <1>2, <1>5, <1>6, Zenon
<1>9. Bit(i, K) \in Nat
  BY DEF Bit
<1>10. Overlap(1..i, K) \in Nat
  BY <1>7, <1>8, <1>9
<1> QED
  BY <1>7, <1>8, <1>10 DEF u

\* The count of a list is one of its positions.
LEMMA CountIsOverlap ==
  ASSUME NEW T, NEW s \in Seq(T), NEW V
  PROVE  CountIn(s, V) = Overlap(1..Len(s), At(s, V)) /\ CountIn(s, V) \in Nat
PROOF
<1>1. Len(s) \in Nat /\ DOMAIN s = 1..Len(s)
  OBVIOUS
<1>2. (1..Len(s)) \cap At(s, V) = At(s, V) /\ At(s, V) \in SUBSET (1..Len(s))
  BY <1>1 DEF At
<1>3. IsFiniteSet(At(s, V))
  <2>1. IsFiniteSet(1..Len(s))
    BY <1>1, FS_Interval
  <2> QED
    BY <1>2, <2>1, FS_Subset
<1> QED
  BY <1>2, <1>3, FS_CardinalityType DEF CountIn, Overlap

\* One element more.
LEMMA CountOfAppend ==
  ASSUME NEW T, NEW s \in Seq(T), NEW x \in T, NEW V
  PROVE  CountIn(Append(s, x), V) = CountIn(s, V) + (IF x \in V THEN 1 ELSE 0)
PROOF
<1> DEFINE b == Append(s, x)
           n == Len(s)
           k == n + 1
<1>1. /\ n \in Nat /\ k \in Nat \ {0} /\ k - 1 = n /\ b \in Seq(T) /\ Len(b) = k
      /\ DOMAIN b = 1..k /\ DOMAIN s = 1..n /\ b[k] = x /\ \A i \in 1..n : b[i] = s[i]
  OBVIOUS
<1> HIDE DEF b, n, k
<1>2. Overlap(1..n, At(b, V)) = Overlap(1..n, At(s, V))
  <2>1. (1..n) \cap At(b, V) = (1..n) \cap At(s, V)
    <3>1. \A i \in 1..n : i \in DOMAIN b
      BY <1>1
    <3> QED
      BY <1>1, <3>1 DEF At
  <2> QED
    BY <2>1 DEF Overlap
<1>3. Bit(k, At(b, V)) = IF x \in V THEN 1 ELSE 0
  <2>1. k \in DOMAIN b
    BY <1>1
  <2> QED
    BY <1>1, <2>1 DEF At, Bit
<1>4. Overlap(1..k, At(b, V)) = Overlap(1..(k - 1), At(b, V)) + Bit(k, At(b, V))
  BY <1>1, OverlapNext
<1>5. CountIn(b, V) = Overlap(1..k, At(b, V)) /\ CountIn(s, V) = Overlap(1..n, At(s, V))
  BY <1>1, CountIsOverlap DEF n
<1>6. CountIn(b, V) = CountIn(s, V) + Bit(k, At(b, V))
  BY <1>1, <1>2, <1>4, <1>5
<1> QED
  BY <1>3, <1>6 DEF b

\* What Kept keeps: of the elements of any V, those at the given positions.
LEMMA KeptCounts ==
  ASSUME NEW T, NEW s \in Seq(T), NEW at
  PROVE  /\ Kept(s, at) \in Seq(T)
         /\ \A V : CountIn(Kept(s, at), V) = Overlap(1..Len(s), at \cap At(s, V))
PROOF
<1> DEFINE n == Len(s)
<1>1. PICK A \in [0..n -> Seq(T)] : KeptRun(A, s, at)
  BY KeptSteps
<1>2. n \in Nat /\ n \in 0..n /\ DOMAIN s = 1..n
  OBVIOUS
<1>3. /\ A[0] = <<>> /\ A[n] = Kept(s, at)
      /\ \A i \in 1..n : A[i] = IF i \in at THEN Append(A[i - 1], s[i]) ELSE A[i - 1]
  BY <1>1 DEF KeptRun
<1>4. ASSUME NEW V
      PROVE  CountIn(A[n], V) = Overlap(1..n, at \cap At(s, V))
  <2> DEFINE K == at \cap At(s, V)
             E == {i \in 0..n : CountIn(A[i], V) = Overlap(1..i, K)}
  <2>1. 0 \in E
    <3>1. At(<<>>, V) = {}
      BY DEF At
    <3>2. (1..0) \cap K = {}
      OBVIOUS
    <3>3. CountIn(A[0], V) = Overlap(1..0, K)
      BY <1>3, <3>1, <3>2 DEF CountIn, Overlap
    <3> HIDE DEF K
    <3> QED
      BY <1>2, <3>3
  <2>2. ASSUME NEW i \in 1..n, i - 1 \in E PROVE i \in E
    <3>1. i \in Nat \ {0} /\ i \in 0..n /\ i - 1 \in 0..n /\ i \in DOMAIN s /\ s[i] \in T
      BY <1>2
    <3>2. CountIn(A[i - 1], V) = Overlap(1..(i - 1), K)
      BY <2>2
    <3>3. Overlap(1..i, K) = Overlap(1..(i - 1), K) + Bit(i, K) /\ Overlap(1..(i - 1), K) \in Nat
      BY <3>1, OverlapNext
    <3>4. CountIn(A[i], V) = CountIn(A[i - 1], V) + Bit(i, K)
      <4>1. A[i - 1] \in Seq(T)
        BY <1>1, <3>1
      <4>2. CASE i \in at
        <5>1. CountIn(Append(A[i - 1], s[i]), V)
                = CountIn(A[i - 1], V) + (IF s[i] \in V THEN 1 ELSE 0)
          BY <3>1, <4>1, CountOfAppend
        <5>2. Bit(i, K) = IF s[i] \in V THEN 1 ELSE 0
          BY <3>1, <4>2 DEF Bit, At
        <5>3. A[i] = Append(A[i - 1], s[i])
          BY <1>3, <4>2
        <5> HIDE DEF K
        <5> QED
          BY <5>1, <5>2, <5>3, Zenon
      <4>3. CASE i \notin at
        <5>1. Bit(i, K) = 0 /\ A[i] = A[i - 1]
          BY <1>3, <4>3 DEF Bit
        <5>2. CountIn(A[i - 1], V) \in Nat
          BY <4>1, CountIsOverlap
        <5> HIDE DEF K
        <5> QED
          BY <5>1, <5>2
      <4> QED
        BY <4>2, <4>3
    <3> HIDE DEF K, n
    <3> QED
      BY <3>1, <3>2, <3>3, <3>4
  <2>3. 0..n \subseteq E
    <3> HIDE DEF E, n
    <3> QED
      BY <1>2, <2>1, <2>2, UpTo
  <2> QED
    BY <1>2, <2>3
<1> QED
  BY <1>1, <1>2, <1>3, <1>4

\* One summand more.
LEMMA SumOfAppend ==
  ASSUME NEW s \in Seq(Nat), NEW x \in Nat
  PROVE  SumOf(Append(s, x)) = SumOf(s) + x /\ SumOf(s) \in Nat
PROOF
<1> DEFINE n == Len(s)
           t == Append(s, x)
<1>1. /\ n \in Nat /\ n \in 0..n /\ t \in Seq(Nat) /\ Len(t) = n + 1 /\ t[n + 1] = x
      /\ \A i \in 1..n : t[i] = s[i]
  OBVIOUS
<1> HIDE DEF t
<1>2. PICK A \in [0..n -> Nat] : SumRun(A, s)
  BY SumSteps
<1>3. PICK B \in [0..(n + 1) -> Nat] : SumRun(B, t)
  BY <1>1, SumSteps
<1>4. A[0] = 0 /\ A[n] = SumOf(s) /\ \A i \in 1..n : A[i] = A[i - 1] + s[i]
  BY <1>2 DEF SumRun
<1>5. B[0] = 0 /\ B[n + 1] = SumOf(t) /\ \A i \in 1..(n + 1) : B[i] = B[i - 1] + t[i]
  BY <1>1, <1>3 DEF SumRun
<1> HIDE DEF n
<1> DEFINE E == {i \in 0..n : A[i] = B[i]}
<1>6. 0 \in E
  BY <1>1, <1>4, <1>5
<1>7. ASSUME NEW i \in 1..n, i - 1 \in E PROVE i \in E
  <2>1. i \in 0..n /\ i \in 1..(n + 1)
    BY <1>1
  <2> QED
    BY <1>1, <1>4, <1>5, <1>7, <2>1
<1>8. A[n] = B[n]
  <2>1. 0..n \subseteq E
    <3> HIDE DEF E
    <3> QED
      BY <1>1, <1>6, <1>7, UpTo
  <2> QED
    BY <1>1, <2>1
<1>9. n + 1 \in 1..(n + 1) /\ (n + 1) - 1 = n
  BY <1>1
<1>10. B[n + 1] = B[n] + x
  BY <1>1, <1>5, <1>9
<1> QED
  BY <1>1, <1>2, <1>4, <1>5, <1>8, <1>10 DEF t

\* A sum of nothing.
LEMMA SumOfNone == SumOf(<<>>) = 0
PROOF
<1>1. <<>> \in Seq(Nat) /\ Len(<<>>) = 0
  OBVIOUS
<1>2. PICK A \in [0..Len(<<>>) -> Nat] : SumRun(A, <<>>)
  BY <1>1, SumSteps
<1> QED
  BY <1>1, <1>2 DEF SumRun

-----------------------------------------------------------------------------
(* Grading: a corpus in files                                              *)

\* The numbers that val gives to the elements of a list.
Image(val, s) == [k \in DOMAIN s |-> val[s[k]]]

\* What is not kept does not change a sum if it would add nothing.
LEMMA KeptSum ==
  ASSUME NEW T, NEW s \in Seq(T), NEW at, NEW val \in [T -> Nat],
         \A i \in DOMAIN s : i \notin at => val[s[i]] = 0
  PROVE  SumOf(Image(val, Kept(s, at))) = SumOf(Image(val, s))
PROOF
<1> DEFINE n == Len(s)
           g == Image(val, s)
<1>1. n \in Nat /\ n \in 0..n /\ DOMAIN s = 1..n
  OBVIOUS
<1>2. g \in Seq(Nat) /\ Len(g) = n /\ \A i \in 1..n : g[i] = val[s[i]] /\ g[i] \in Nat
  BY DEF Image
<1>3. PICK A \in [0..n -> Seq(T)] : KeptRun(A, s, at)
  BY KeptSteps
<1>4. /\ A[0] = <<>> /\ A[n] = Kept(s, at)
      /\ \A i \in 1..n : A[i] = IF i \in at THEN Append(A[i - 1], s[i]) ELSE A[i - 1]
  BY <1>3 DEF KeptRun
<1>5. PICK B \in [0..Len(g) -> Nat] : SumRun(B, g)
  <2> HIDE DEF g
  <2> QED
    BY <1>2, SumSteps
<1>6. B \in [0..n -> Nat] /\ B[0] = 0 /\ B[n] = SumOf(g) /\ \A i \in 1..n : B[i] = B[i - 1] + g[i]
  <2> HIDE DEF g
  <2> QED
    BY <1>2, <1>5 DEF SumRun
<1> HIDE DEF g, n
<1> DEFINE E == {i \in 0..n : SumOf(Image(val, A[i])) = B[i]}
<1>7. 0 \in E
  <2>1. Image(val, <<>>) = <<>>
    BY DEF Image
  <2> QED
    BY <1>1, <1>4, <1>6, <2>1, SumOfNone
<1>8. ASSUME NEW i \in 1..n, i - 1 \in E PROVE i \in E
  <2> DEFINE a == A[i - 1]
             x == s[i]
  <2>1. i \in 0..n /\ i - 1 \in 0..n /\ i \in DOMAIN s /\ x \in T /\ a \in Seq(T)
    BY <1>1, <1>3
  <2>2. SumOf(Image(val, a)) = B[i - 1] /\ B[i] = B[i - 1] + val[x] /\ B[i - 1] \in Nat
    BY <1>2, <1>6, <1>8, <2>1
  <2>3. CASE i \in at
    <3>1. A[i] = Append(a, x)
      BY <1>4, <2>3
    <3> HIDE DEF a, x
    <3>2. Image(val, a) \in Seq(Nat) /\ val[x] \in Nat
      BY <2>1 DEF Image
    <3>3. Image(val, Append(a, x)) = Append(Image(val, a), val[x])
      <4> DEFINE l == Append(a, x)
                 p == Image(val, l)
                 q == Append(Image(val, a), val[x])
      <4>1. /\ DOMAIN p = 1..(Len(a) + 1) /\ DOMAIN q = 1..(Len(a) + 1)
            /\ \A k \in 1..(Len(a) + 1) : p[k] = q[k]
        <5>1. /\ Len(a) \in Nat /\ DOMAIN l = 1..(Len(a) + 1) /\ l[Len(a) + 1] = x
              /\ \A k \in 1..Len(a) : l[k] = a[k]
          BY <2>1
        <5>2. p = [k \in DOMAIN l |-> val[l[k]]]
          BY DEF Image
        <5>3. /\ Len(Image(val, a)) = Len(a)
              /\ \A k \in 1..Len(a) : Image(val, a)[k] = val[a[k]]
          BY <2>1 DEF Image
        <5>4. /\ DOMAIN q = 1..(Len(a) + 1) /\ q[Len(a) + 1] = val[x]
              /\ \A k \in 1..Len(a) : q[k] = val[a[k]]
          BY <3>2, <5>1, <5>3
        <5> HIDE DEF l, q
        <5>5. DOMAIN p = 1..(Len(a) + 1) /\ \A k \in 1..(Len(a) + 1) : p[k] = val[l[k]]
          BY <5>1, <5>2
        <5>6. \A k \in 1..(Len(a) + 1) : k \in 1..Len(a) \/ k = Len(a) + 1
          BY <5>1
        <5> HIDE DEF p
        <5> QED
          BY <5>1, <5>4, <5>5, <5>6
      <4>2. p \in Seq(Nat) /\ q \in Seq(Nat)
        <5>1. l \in Seq(T)
          BY <2>1
        <5> HIDE DEF l
        <5>2. p \in Seq(Nat)
          BY <5>1 DEF Image
        <5> QED
          BY <3>2, <5>2
      <4> HIDE DEF l, p, q
      <4>3. p = q
        BY <4>1, <4>2
      <4> QED
        BY <4>3 DEF l, p, q
    <3>4. SumOf(Append(Image(val, a), val[x])) = SumOf(Image(val, a)) + val[x]
      BY <3>2, SumOfAppend
    <3>5. SumOf(Image(val, A[i])) = B[i]
      BY <2>2, <3>1, <3>3, <3>4
    <3> QED
      BY <2>1, <3>5
  <2>4. CASE i \notin at
    <3>1. A[i] = a /\ val[x] = 0
      BY <1>4, <2>1, <2>4
    <3> HIDE DEF a, x
    <3> QED
      BY <2>1, <2>2, <3>1
  <2> QED
    BY <2>3, <2>4
<1>9. 0..n \subseteq E
  <2> HIDE DEF E
  <2> QED
    BY <1>1, <1>7, <1>8, UpTo
<1>10. SumOf(Image(val, A[n])) = B[n]
  BY <1>1, <1>9
<1> QED
  BY <1>4, <1>6, <1>10 DEF g

\* Counting in a part of a list.
LEMMA CountOfPart ==
  ASSUME NEW T, NEW s \in Seq(T), NEW V,
         NEW a \in Nat, NEW b \in Nat, a <= b, b <= Len(s)
  PROVE  /\ SubSeq(s, a + 1, b) \in Seq(T)
         /\ CountIn(SubSeq(s, a + 1, b), V) = Overlap(a + 1 .. b, At(s, V))
PROOF
<1> DEFINE part == SubSeq(s, a + 1, b)
           m == b - a
<1>1. m \in Nat /\ b = a + m
  OBVIOUS
<1>2. part \in Seq(T) /\ Len(part) = m /\ DOMAIN part = 1..m
  OBVIOUS
<1>3. \A i \in 1..m : part[i] = s[i + a] /\ i + a \in DOMAIN s
  <2> SUFFICES ASSUME NEW i \in 1..m
               PROVE  part[i] = s[i + a] /\ i + a \in DOMAIN s
    OBVIOUS
  <2>1. i + a = a + 1 + i - 1 /\ i + a \in 1..Len(s)
    OBVIOUS
  <2> QED
    BY <2>1
<1> HIDE DEF part, m
<1>4. \A i \in 1..m : i \in At(part, V) <=> i + a \in At(s, V)
  BY <1>2, <1>3 DEF At
<1>5. Overlap(1..m, At(part, V)) = Overlap(a + 1 .. a + m, At(s, V))
  BY <1>1, <1>4, OverlapOfShifted
<1>6. CountIn(part, V) = Overlap(1..m, At(part, V))
  BY <1>2, CountIsOverlap
<1> QED
  BY <1>1, <1>2, <1>5, <1>6 DEF part

\* A function on 1..m is a list of m elements.
LEMMA FunctionIsList ==
  ASSUME NEW S, NEW m \in Nat, NEW f \in [1..m -> S]
  PROVE  f \in Seq(S) /\ Len(f) = m
PROOF
OBVIOUS

\* The parts that a corpus falls into, behind an empty one.
Files(stmts, threads) == << <<>> >> \o Chunks(stmts, threads)
NonEmpty(files) == {i \in DOMAIN files : files[i] # <<>>}

\* Counted file by file, without the empty ones, it is what is counted in the corpus.
LEMMA FilesCount ==
  ASSUME NEW T, NEW stmts \in Seq(T), stmts # <<>>, NEW threads \in Nat \ {0}, NEW V
  PROVE  LET files == Files(stmts, threads)
             kept  == Kept(files, NonEmpty(files))
         IN  /\ kept \in Seq(Seq(T))
             /\ SumOf([k \in DOMAIN kept |-> CountIn(kept[k], V)]) = CountIn(stmts, V)
PROOF
<1> DEFINE n == Len(stmts)
           size == DivCeil(n, threads)
           m == DivCeil(n, size)
           chunks == Chunks(stmts, threads)
           files == Files(stmts, threads)
           kept == Kept(files, NonEmpty(files))
           val == [f \in Seq(T) |-> CountIn(f, V)]
           g == Image(val, files)
           P == At(stmts, V)
           Upto(c) == IF c = 0 THEN 0 ELSE Hi(n, size, c)
<1>1. n \in Nat \ {0} /\ DOMAIN stmts = 1..n
  OBVIOUS
<1>2. size \in Nat \ {0}
  BY <1>1, DivCeilBounds
<1>3. m \in Nat \ {0} /\ n <= m * size
  BY <1>1, <1>2, DivCeilBounds
<1>4. \A c \in 1..m : /\ (c - 1) * size \in Nat /\ Hi(n, size, c) \in Nat
                      /\ (c - 1) * size <= Hi(n, size, c) /\ Hi(n, size, c) <= n
  <2> HIDE DEF n, size
  <2> QED
    BY <1>1, <1>2, SpansCover
<1>5. \A c, d \in 1..m : c < d => Hi(n, size, c) <= (d - 1) * size
  <2> HIDE DEF n, size
  <2> QED
    BY <1>1, <1>2, SpansCover
<1>6. \A c \in 1..m : chunks[c] = SubSeq(stmts, (c - 1) * size + 1, Hi(n, size, c))
  <2> SUFFICES ASSUME NEW c \in 1..m
               PROVE  chunks[c] = SubSeq(stmts, (c - 1) * size + 1, Hi(n, size, c))
    OBVIOUS
  <2> DEFINE x == c * size
  <2>1. x \in Int /\ n \in Int /\ Hi(n, size, c) = IF x <= n THEN x ELSE n
    BY <1>1, <1>2 DEF Hi
  <2>2. Min({x, n}) = Hi(n, size, c)
    <3> HIDE DEF x, n, size
    <3> QED
      BY <2>1 DEF Min
  <2> QED
    BY <2>2 DEF Chunks
<1>7. DOMAIN chunks = 1..m
  BY DEF Chunks
<1> HIDE DEF n, size, m
<1>8. \A c \in 1..m : /\ chunks[c] \in Seq(T)
                      /\ CountIn(chunks[c], V) = Overlap((c - 1) * size + 1 .. Hi(n, size, c), P)
  <2> SUFFICES ASSUME NEW c \in 1..m
               PROVE  /\ chunks[c] \in Seq(T)
                      /\ CountIn(chunks[c], V)
                           = Overlap((c - 1) * size + 1 .. Hi(n, size, c), P)
    OBVIOUS
  <2> DEFINE a == (c - 1) * size
             b == Hi(n, size, c)
  <2>1. a \in Nat /\ b \in Nat /\ a <= b /\ b <= Len(stmts)
    BY <1>4 DEF n
  <2>2. chunks[c] = SubSeq(stmts, a + 1, b)
    BY <1>6
  <2> HIDE DEF a, b, chunks, P
  <2>3. /\ SubSeq(stmts, a + 1, b) \in Seq(T)
        /\ CountIn(SubSeq(stmts, a + 1, b), V) = Overlap(a + 1 .. b, At(stmts, V))
    BY <2>1, CountOfPart
  <2> QED
    BY <2>2, <2>3 DEF a, b, P
<1>9. chunks \in Seq(Seq(T)) /\ Len(chunks) = m
  <2>1. chunks = [c \in 1..m |-> chunks[c]]
    BY <1>7 DEF Chunks
  <2>2. \A c \in 1..m : chunks[c] \in Seq(T)
    BY <1>8
  <2>3. m \in Nat
    BY <1>3
  <2> HIDE DEF chunks, m
  <2>4. chunks \in [1..m -> Seq(T)]
    BY <2>1, <2>2
  <2> QED
    BY <2>3, <2>4, FunctionIsList
<1>10. /\ files \in Seq(Seq(T)) /\ Len(files) = m + 1 /\ files[1] = <<>>
       /\ \A c \in 1..m : files[c + 1] = chunks[c]
  <2> HIDE DEF chunks
  <2>1. <<>> \in Seq(T)
    OBVIOUS
  <2> QED
    BY <1>3, <1>9, <2>1 DEF Files, chunks
<1> HIDE DEF chunks, files
<1>11. val \in [Seq(T) -> Nat] /\ CountIn(<<>>, V) = 0
  <2>1. \A f \in Seq(T) : CountIn(f, V) \in Nat
    BY CountIsOverlap
  <2>2. At(<<>>, V) = {}
    BY DEF At
  <2>3. Cardinality({}) = 0
    BY FS_EmptySet
  <2> QED
    BY <2>1, <2>2, <2>3 DEF CountIn
<1>12. kept \in Seq(Seq(T))
  BY <1>10, KeptCounts
<1>13. SumOf(Image(val, kept)) = SumOf(g)
  <2>1. \A i \in DOMAIN files : i \notin NonEmpty(files) => val[files[i]] = 0
    <3>1. <<>> \in Seq(T)
      OBVIOUS
    <3> QED
      BY <1>11, <3>1 DEF NonEmpty
  <2>2. files \in Seq(Seq(T))
    BY <1>10
  <2>3. val \in [Seq(T) -> Nat]
    BY <1>11
  <2> HIDE DEF val
  <2>4. SumOf(Image(val, Kept(files, NonEmpty(files)))) = SumOf(Image(val, files))
    BY <2>1, <2>2, <2>3, KeptSum
  <2> QED
    BY <2>4
<1>14. /\ g \in Seq(Nat) /\ Len(g) = m + 1 /\ g[1] = 0
       /\ \A c \in 1..m : /\ g[c + 1] = Overlap((c - 1) * size + 1 .. Hi(n, size, c), P)
                          /\ g[c + 1] \in Nat
  <2>1. Len(files) \in Nat /\ DOMAIN files = 1..(m + 1) /\ \A i \in 1..(m + 1) : files[i] \in Seq(T)
    BY <1>3, <1>10
  <2>2. \A i \in 1..(m + 1) : g[i] = CountIn(files[i], V) /\ g[i] \in Nat
    BY <1>11, <2>1 DEF Image
  <2>3. g \in Seq(Nat) /\ Len(g) = m + 1
    <3> HIDE DEF val
    <3> QED
      BY <1>3, <1>11, <2>1 DEF Image
  <2>4. 1 \in 1..(m + 1) /\ \A c \in 1..m : c + 1 \in 1..(m + 1)
    BY <1>3
  <2> HIDE DEF g, P, val
  <2> QED
    BY <1>8, <1>10, <1>11, <2>2, <2>3, <2>4
<1> HIDE DEF g
<1>15. PICK B \in [0..Len(g) -> Nat] : SumRun(B, g)
  BY <1>14, SumSteps
<1>16. /\ B \in [0..(m + 1) -> Nat] /\ B[0] = 0 /\ B[m + 1] = SumOf(g)
       /\ \A i \in 1..(m + 1) : B[i] = B[i - 1] + g[i]
  BY <1>14, <1>15 DEF SumRun
<1> HIDE DEF P
<1> DEFINE E == {c \in 0..m : B[c + 1] = Overlap(1..Upto(c), P)}
<1>17. 0 \in E
  <2>1. 1..0 = {} /\ {} \cap P = {} /\ Cardinality({}) = 0
    BY FS_EmptySet
  <2>2. Overlap(1..Upto(0), P) = 0
    BY <2>1 DEF Overlap
  <2>3. 0 + 1 \in 1..(m + 1) /\ 0 \in 0..m /\ (0 + 1) - 1 = 0 /\ 0 + 1 = 1
    BY <1>3
  <2>4. B[1] = B[0] + g[1]
    BY <1>16, <2>3
  <2> QED
    BY <1>14, <1>16, <2>2, <2>3, <2>4
<1>18. ASSUME NEW c \in 1..m, c - 1 \in E PROVE c \in E
  <2> DEFINE lo == (c - 1) * size
             hi == Hi(n, size, c)
             u == 1..lo
             v == lo + 1 .. hi
  <2>1. lo \in Nat /\ hi \in Nat /\ lo <= hi
    BY <1>4
  <2>2. Upto(c - 1) = lo /\ Upto(c) = hi
    <3>1. CASE c = 1
      <4>1. lo = 0
        BY <1>2, <3>1
      <4> QED
        BY <3>1, <4>1
    <3>2. CASE c # 1
      <4>1. c - 1 \in 1..m /\ c - 1 < c /\ c \in Nat
        BY <1>3, <3>2
      <4>2. Hi(n, size, c - 1) <= lo
        BY <1>5, <4>1
      <4>3. lo <= n
        <5>1. lo <= Hi(n, size, c) /\ Hi(n, size, c) <= n /\ Hi(n, size, c) \in Nat
          BY <1>4
        <5> HIDE DEF lo
        <5> QED
          BY <1>1, <2>1, <5>1
      <4>4. Hi(n, size, c - 1) = lo
        BY <1>1, <2>1, <4>3 DEF Hi
      <4> QED
        BY <4>1, <4>4
    <3> QED
      BY <3>1, <3>2
  <2>3. B[c] = Overlap(u, P)
    <3>1. (c - 1) + 1 = c
      OBVIOUS
    <3>2. B[(c - 1) + 1] = Overlap(1..Upto(c - 1), P)
      BY <1>18
    <3> HIDE DEF lo, Upto
    <3> QED
      BY <2>2, <3>1, <3>2
  <2>4. B[c + 1] = B[c] + Overlap(v, P)
    <3>1. c + 1 \in 1..(m + 1) /\ (c + 1) - 1 = c
      BY <1>3
    <3>2. B[c + 1] = B[(c + 1) - 1] + g[c + 1]
      BY <1>16, <3>1
    <3>3. g[c + 1] = Overlap(v, P)
      BY <1>14
    <3> QED
      BY <3>1, <3>2, <3>3
  <2>5. IsFiniteSet(u) /\ IsFiniteSet(v) /\ Apart(u, v)
    <3>1. Apart(u, v)
      <4> HIDE DEF lo, hi
      <4> QED
        BY <2>1 DEF Apart
    <3>2. IsFiniteSet(u) /\ IsFiniteSet(v)
      <4>1. 1 \in Int /\ lo \in Int /\ lo + 1 \in Int /\ hi \in Int
        BY <2>1
      <4> HIDE DEF lo, hi
      <4> QED
        BY <4>1, FS_Interval
    <3> QED
      BY <3>1, <3>2
  <2>6. 1..hi = u \cup v
    <3> HIDE DEF lo, hi
    <3>1. \A j : j \in 1..hi <=> j \in u \/ j \in v
      BY <2>1
    <3> HIDE DEF u, v
    <3> QED
      BY <3>1
  <2> HIDE DEF u, v
  <2>7. Overlap(u \cup v, P) = Overlap(u, P) + Overlap(v, P)
    <3>1. OverlapsAdd(u, v)
      BY <2>5, OverlapOfUnion
    <3> QED
      BY <3>1 DEF OverlapsAdd
  <2>8. Overlap(1..hi, P) = Overlap(u, P) + Overlap(v, P)
    BY <2>6, <2>7, Zenon
  <2>9. B[c + 1] = Overlap(1..Upto(c), P)
    <3> HIDE DEF Upto, hi
    <3>1. Overlap(1..Upto(c), P) = Overlap(1..hi, P)
      BY <2>2
    <3> QED
      BY <2>3, <2>4, <2>8, <3>1
  <2>10. c \in 0..m
    BY <1>3
  <2> HIDE DEF Upto
  <2> QED
    BY <2>9, <2>10
<1>19. 0..m \subseteq E
  <2>1. m \in Nat
    BY <1>3
  <2> HIDE DEF E
  <2> QED
    BY <1>17, <1>18, <2>1, UpTo
<1>20. Upto(m) = n
  BY <1>1, <1>2, <1>3 DEF Hi
<1>21. SumOf(g) = CountIn(stmts, V)
  <2>1. m \in E
    BY <1>3, <1>19
  <2>2. B[m + 1] = Overlap(1..Upto(m), P)
    BY <2>1
  <2>3. CountIn(stmts, V) = Overlap(1..n, P)
    BY CountIsOverlap DEF n, P
  <2> HIDE DEF Upto, E
  <2> QED
    BY <1>16, <1>20, <2>2, <2>3
<1>22. Image(val, kept) = [k \in DOMAIN kept |-> CountIn(kept[k], V)]
  <2> HIDE DEF kept
  <2>1. \A k \in DOMAIN kept : kept[k] \in Seq(T)
    BY <1>12
  <2>2. \A k \in DOMAIN kept : val[kept[k]] = CountIn(kept[k], V)
    BY <2>1
  <2> HIDE DEF val
  <2> QED
    BY <2>2 DEF Image
<1> HIDE DEF val, kept
<1>23. SumOf([k \in DOMAIN kept |-> CountIn(kept[k], V)]) = CountIn(stmts, V)
  BY <1>13, <1>21, <1>22
<1> QED
  BY <1>12, <1>23 DEF kept, files

\* Every element of a list over T is in T.
LEMMA CountOfAll ==
  ASSUME NEW T, NEW s \in Seq(T)
  PROVE  CountIn(s, T) = Len(s)
PROOF
<1>1. At(s, T) = 1..Len(s) /\ Len(s) \in Nat
  BY DEF At
<1> QED
  BY <1>1, FS_Interval DEF CountIn

\* What count_accepted counts.
Accepting(T, p) == {x \in T : Accepted(x, p)}

\* The two loops count the same.
LEMMA AcceptedIsCount ==
  ASSUME NEW T, NEW s \in Seq(T), NEW p
  PROVE  CountAccepted(s, p) = CountIn(s, Accepting(T, p))
PROOF
<1>1. {i \in DOMAIN s : Accepted(s[i], p)} = At(s, Accepting(T, p))
  <2>1. \A i \in DOMAIN s : s[i] \in T
    OBVIOUS
  <2> QED
    BY <2>1 DEF At, Accepting
<1> QED
  BY <1>1 DEF CountAccepted, CountIn

\* The columns of the coverage matrix, whatever the files.
LEMMA MatrixCounts ==
  ASSUME NEW T, NEW files,
         Kept(files, NonEmpty(files)) \in Seq(Seq(T))
  PROVE  LET kept == Kept(files, NonEmpty(files))
             m    == CoverageMatrix(files)
         IN  /\ m.subtotal_total = SumOf([k \in DOMAIN kept |-> CountIn(kept[k], T)])
             /\ \A i \in DOMAIN Supporting :
                  m.subtotal_accepted[i]
                    = SumOf([k \in DOMAIN kept |->
                               CountIn(kept[k], Accepting(T, Supporting[i]))])
PROOF
<1> DEFINE kept == Kept(files, NonEmpty(files))
           rows == Coverage(files)
           total == [k \in DOMAIN rows |-> rows[k].total]
           column(i) == [k \in DOMAIN rows |-> rows[k].accepted[i]]
<1>1. rows = [k \in DOMAIN kept |-> EvalFile(kept[k])]
  BY DEF Coverage, NonEmpty
<1>2. \A k \in DOMAIN kept : kept[k] \in Seq(T)
  <2> HIDE DEF kept
  <2>1. kept \in Seq(Seq(T))
    BY DEF kept
  <2> QED
    BY <2>1
<1> HIDE DEF kept, rows
<1>3. total = [k \in DOMAIN kept |-> CountIn(kept[k], T)]
  <2>1. \A k \in DOMAIN kept : rows[k].total = CountIn(kept[k], T)
    <3> SUFFICES ASSUME NEW k \in DOMAIN kept
                 PROVE  rows[k].total = CountIn(kept[k], T)
      OBVIOUS
    <3>1. EvalFile(kept[k]).total = Len(kept[k])
      BY DEF EvalFile
    <3>2. CountIn(kept[k], T) = Len(kept[k])
      BY <1>2, CountOfAll
    <3> QED
      BY <1>1, <3>1, <3>2
  <2>2. DOMAIN rows = DOMAIN kept
    BY <1>1
  <2> QED
    BY <2>1, <2>2
<1>4. ASSUME NEW i \in DOMAIN Supporting
      PROVE  column(i) = [k \in DOMAIN kept |-> CountIn(kept[k], Accepting(T, Supporting[i]))]
  <2>1. \A k \in DOMAIN kept : rows[k].accepted[i] = CountIn(kept[k], Accepting(T, Supporting[i]))
    <3> SUFFICES ASSUME NEW k \in DOMAIN kept
                 PROVE  rows[k].accepted[i] = CountIn(kept[k], Accepting(T, Supporting[i]))
      OBVIOUS
    <3>1. EvalFile(kept[k]).accepted[i] = CountAccepted(kept[k], Supporting[i])
      BY DEF EvalFile
    <3>2. CountAccepted(kept[k], Supporting[i]) = CountIn(kept[k], Accepting(T, Supporting[i]))
      BY <1>2, AcceptedIsCount
    <3> QED
      BY <1>1, <3>1, <3>2
  <2>2. DOMAIN rows = DOMAIN kept
    BY <1>1
  <2> QED
    BY <2>1, <2>2
<1>5. /\ CoverageMatrix(files).subtotal_total = SumOf(total)
      /\ \A i \in DOMAIN Supporting : CoverageMatrix(files).subtotal_accepted[i] = SumOf(column(i))
  BY DEF CoverageMatrix, rows
<1> HIDE DEF total, column
<1>6. SumOf(total) = SumOf([k \in DOMAIN kept |-> CountIn(kept[k], T)])
  BY <1>3
<1>7. \A i \in DOMAIN Supporting :
        SumOf(column(i)) = SumOf([k \in DOMAIN kept |-> CountIn(kept[k], Accepting(T, Supporting[i]))])
  BY <1>4
<1> QED
  BY <1>5, <1>6, <1>7 DEF kept

\* The matrix of a corpus in files has the sums of the corpus.
LEMMA MatrixOfFiles ==
  ASSUME NEW T, NEW stmts \in Seq(T), stmts # <<>>, NEW threads \in Nat \ {0}
  PROVE  LET m == CoverageMatrix(Files(stmts, threads))
         IN  /\ m.subtotal_total = Len(stmts)
             /\ \A i \in DOMAIN Supporting :
                  m.subtotal_accepted[i] = CountAccepted(stmts, Supporting[i])
PROOF
<1> DEFINE files == Files(stmts, threads)
           kept == Kept(files, NonEmpty(files))
<1>1. kept \in Seq(Seq(T))
  BY FilesCount
<1>2. \A V : SumOf([k \in DOMAIN kept |-> CountIn(kept[k], V)]) = CountIn(stmts, V)
  BY FilesCount
<1>3. /\ CoverageMatrix(files).subtotal_total = SumOf([k \in DOMAIN kept |-> CountIn(kept[k], T)])
      /\ \A i \in DOMAIN Supporting :
           CoverageMatrix(files).subtotal_accepted[i]
             = SumOf([k \in DOMAIN kept |-> CountIn(kept[k], Accepting(T, Supporting[i]))])
  <2> HIDE DEF files
  <2> QED
    BY <1>1, MatrixCounts
<1>4. CountIn(stmts, T) = Len(stmts)
  BY CountOfAll
<1>5. \A i \in DOMAIN Supporting :
        CountIn(stmts, Accepting(T, Supporting[i])) = CountAccepted(stmts, Supporting[i])
  BY AcceptedIsCount
<1> HIDE DEF files, kept
<1>6. CoverageMatrix(files).subtotal_total = Len(stmts)
  BY <1>2, <1>3, <1>4
<1>7. \A i \in DOMAIN Supporting :
        CoverageMatrix(files).subtotal_accepted[i] = CountAccepted(stmts, Supporting[i])
  BY <1>2, <1>3, <1>5
<1> QED
  BY <1>6, <1>7 DEF files

\* The sums of the coverage matrix, file by file, are those of one pass over the corpus,
\* however the corpus falls into files and whichever of them are empty.
THEOREM GradingFilesAddUp == Spec => []FilesAddUp
PROOF
<1>1. InputInv => FilesAddUp
  <2> SUFFICES ASSUME InputInv, tool = "grade", input # <<>>, NEW threads \in 1..MaxThreads
               PROVE  LET m == CoverageMatrix(<< <<>> >> \o Chunks(input, threads))
                      IN  /\ m.subtotal_total = Len(input)
                          /\ \A i \in DOMAIN Supporting :
                               m.subtotal_accepted[i] = CountAccepted(input, Supporting[i])
    BY DEF FilesAddUp
  <2>1. input \in Seq(Alphabet["grade"]) /\ threads \in Nat \ {0}
    BY AlgorithmsAssumption DEF InputInv, Algos
  <2> QED
    BY <2>1, MatrixOfFiles DEF Files
<1> QED
  BY InputTyped, <1>1, PTL

\* However grade_dialect cuts the corpus into chunks for its threads, and however it falls
\* into the files of the coverage matrix, no statement is dropped or counted twice.
THEOREM GradingCorpusAddsUp == Spec => []CorpusAddsUp
PROOF
<1>1. ChunksAddUp /\ FilesAddUp => CorpusAddsUp
  BY DEF CorpusAddsUp
<1> QED
  BY GradingChunksAddUp, GradingFilesAddUp, <1>1, PTL

-----------------------------------------------------------------------------
(* Grading: the failures and what is published of them                     *)

\* What a supporting parser may make of a statement.
Answers == {"stable", "unstable", "rejected", "panicked"}

\* What is listed as a failure, and what is contentious.
Failing(T, p) == {x \in T : x.does[p] \in {"rejected", "panicked"}}
Disputed(T) == {x \in T : x.contentious}

\* Which statements are expected to be accepted.
Due(reference, stmts) == {i \in DOMAIN stmts : IsValid(reference, stmts[i])}

\* The list of failures has, of any V, what fails of those that are expected.
FailuresListed(T, stmts, reference, p) ==
  LET f == Failures(reference, stmts, p)
      K == Due(reference, stmts)
  IN  /\ f.rejected \in Seq(T)
      /\ \A V : CountIn(f.rejected, V)
                  = Overlap(1..Len(stmts), K \cap At(stmts, Failing(T, p) \cap V))
      /\ Len(f.rejected) = Overlap(1..Len(stmts), K \cap At(stmts, Failing(T, p)))
      /\ f.total = Overlap(1..Len(stmts), K)

\* It does, of any corpus.
LEMMA FailuresCount ==
  ASSUME NEW T, NEW stmts \in Seq(T), NEW reference, NEW p
  PROVE  FailuresListed(T, stmts, reference, p)
PROOF
<1> DEFINE n == Len(stmts)
           K == Due(reference, stmts)
           exp == Expected(reference, stmts)
           R == Failing(T, p)
           where == {i \in DOMAIN exp : exp[i].does[p] \in {"rejected", "panicked"}}
           rej == Kept(exp, where)
<1>1. exp \in Seq(T) /\ \A V : CountIn(exp, V) = Overlap(1..n, K \cap At(stmts, V))
  BY KeptCounts DEF Expected, Due
<1> HIDE DEF exp, K
<1>2. where = At(exp, R)
  <2>1. \A i \in DOMAIN exp : exp[i] \in T
    BY <1>1
  <2> QED
    BY <2>1 DEF At, Failing
<1> HIDE DEF where
<1>3. rej \in Seq(T) /\ \A V : CountIn(rej, V) = Overlap(1..Len(exp), where \cap At(exp, V))
  <2>1. exp \in Seq(T)
    BY <1>1
  <2> QED
    BY <2>1, KeptCounts, Zenon
<1> HIDE DEF rej
<1>4. ASSUME NEW V
      PROVE  CountIn(rej, V) = Overlap(1..n, K \cap At(stmts, R \cap V))
  <2>1. where \cap At(exp, V) = At(exp, R \cap V)
    BY <1>2 DEF At
  <2>2. CountIn(exp, R \cap V) = Overlap(1..Len(exp), At(exp, R \cap V))
    BY <1>1, CountIsOverlap
  <2>3. CountIn(rej, V) = Overlap(1..Len(exp), where \cap At(exp, V))
    BY <1>3
  <2>4. CountIn(exp, R \cap V) = Overlap(1..n, K \cap At(stmts, R \cap V))
    BY <1>1
  <2> QED
    BY <2>1, <2>2, <2>3, <2>4, Zenon
<1>5. Len(rej) = Overlap(1..n, K \cap At(stmts, R))
  <2>1. CountIn(rej, T) = Len(rej)
    BY <1>3, CountOfAll
  <2>2. R \cap T = R
    BY DEF Failing
  <2>3. CountIn(rej, T) = Overlap(1..n, K \cap At(stmts, R \cap T))
    BY <1>4
  <2> HIDE DEF R
  <2> QED
    BY <2>1, <2>2, <2>3
<1>6. Len(exp) = Overlap(1..n, K)
  <2>1. CountIn(exp, T) = Len(exp)
    BY <1>1, CountOfAll
  <2>2. At(stmts, T) = DOMAIN stmts
    <3>1. \A i \in DOMAIN stmts : stmts[i] \in T
      OBVIOUS
    <3> QED
      BY <3>1 DEF At
  <2>3. K \cap At(stmts, T) = K
    BY <2>2 DEF K, Due
  <2>4. CountIn(exp, T) = Overlap(1..n, K \cap At(stmts, T))
    BY <1>1
  <2> QED
    BY <2>1, <2>3, <2>4
<1>7. Failures(reference, stmts, p).rejected = rej /\ Failures(reference, stmts, p).total = Len(exp)
  BY DEF Failures, rej, where, exp
<1> HIDE DEF R
<1> QED
  BY <1>3, <1>4, <1>5, <1>6, <1>7 DEF K, R, FailuresListed

\* A prefix has no more of anything than the list.
LEMMA TakeCounts ==
  ASSUME NEW T, NEW s \in Seq(T), NEW k \in Nat, NEW V
  PROVE  /\ Take(s, k) \in Seq(T)
         /\ CountIn(Take(s, k), V) <= CountIn(s, V)
         /\ Len(Take(s, k)) = IF k <= Len(s) THEN k ELSE Len(s)
         /\ Take(s, k) = SubSeq(s, 1, IF k <= Len(s) THEN k ELSE Len(s))
PROOF
<1> DEFINE n == Len(s)
           b == IF k <= n THEN k ELSE n
<1>1. n \in Nat /\ b \in Nat /\ b <= n
  OBVIOUS
<1>2. Min({k, n}) = b
  <2> HIDE DEF n
  <2> QED
    BY <1>1 DEF Min
<1>3. Take(s, k) = SubSeq(s, 1, b)
  BY <1>2 DEF Take
<1> HIDE DEF b
<1>4. /\ SubSeq(s, 0 + 1, b) \in Seq(T)
      /\ CountIn(SubSeq(s, 0 + 1, b), V) = Overlap(0 + 1 .. b, At(s, V))
  <2>1. 0 \in Nat /\ 0 <= b /\ b <= Len(s)
    BY <1>1
  <2> QED
    BY <1>1, <2>1, CountOfPart
<1>5. CountIn(s, V) = Overlap(1..n, At(s, V))
  BY CountIsOverlap
<1>6. Overlap(1..b, At(s, V)) <= Overlap(1..n, At(s, V))
  <2> DEFINE K == 1..b
             L == 1..n
             A == At(s, V)
  <2>1. IsFiniteSet(A) /\ A \cap K \subseteq L
    <3>1. A \subseteq 1..n
      BY DEF At
    <3>2. IsFiniteSet(1..n)
      BY <1>1, FS_Interval
    <3>3. IsFiniteSet(A)
      <4> HIDE DEF A, n
      <4> QED
        BY <3>1, <3>2, FS_Subset
    <3> QED
      BY <3>1, <3>3
  <2> HIDE DEF K, L, A
  <2>2. Overlap(A, K) <= Overlap(A, L)
    BY <2>1, OverlapMonotone
  <2>3. A \cap K = K \cap A /\ A \cap L = L \cap A
    OBVIOUS
  <2>4. Overlap(A, K) = Overlap(K, A) /\ Overlap(A, L) = Overlap(L, A)
    BY <2>3, Zenon DEF Overlap
  <2> QED
    BY <2>2, <2>4 DEF K, L, A
<1>7. 0 + 1 = 1
  OBVIOUS
<1>8. Len(SubSeq(s, 1, b)) = b
  BY <1>1
<1>9. Take(s, k) \in Seq(T) /\ CountIn(Take(s, k), V) <= CountIn(s, V) /\ Len(Take(s, k)) = b
  <2> DEFINE t == SubSeq(s, 1, b)
  <2>1. t \in Seq(T) /\ CountIn(t, V) = Overlap(1..b, At(s, V)) /\ Len(t) = b
    BY <1>4, <1>7, <1>8
  <2> HIDE DEF n, t
  <2>2. CountIn(t, V) <= CountIn(s, V)
    BY <1>5, <1>6, <2>1
  <2>3. Take(s, k) = t
    BY <1>3 DEF t
  <2> QED
    BY <2>1, <2>2, <2>3
<1> QED
  BY <1>3, <1>9 DEF b

\* What is published of a corpus falls into parts: of the valid statements those accepted and
\* those that fail; and what is contentious among either is known as such to the counters.
PartsFit(T, stmts, reference, p) ==
  LET D == DOMAIN stmts
      K == Due(reference, stmts)
      R == K \cap At(stmts, Failing(T, p))
      A == Hits(reference, stmts, p, "accepted_valid")
      AC == Hits(reference, stmts, p, "accepted_valid_contentious")
      RC == K \cap At(stmts, Failing(T, p) \cap Disputed(T))
      C == ValidContentious(reference, stmts)
  IN  /\ A \cup R = K /\ Apart(A, R) /\ Valid(reference, stmts) = K
      /\ Apart(D \cap RC, AC)
      /\ reference => D \cap RC \subseteq C /\ D \cap AC \subseteq C
      /\ ~reference => C = {} /\ AC = {}

\* They fall so if the parser answers each statement.
LEMMA PublishedParts ==
  ASSUME NEW T, NEW stmts \in Seq(T), NEW reference \in BOOLEAN, NEW p,
         \A x \in T : x.does[p] \in Answers
  PROVE  PartsFit(T, stmts, reference, p)
PROOF
<1> DEFINE D == DOMAIN stmts
           K == Due(reference, stmts)
           F == At(stmts, Failing(T, p))
           R == K \cap F
           A == Hits(reference, stmts, p, "accepted_valid")
           AC == Hits(reference, stmts, p, "accepted_valid_contentious")
           RC == K \cap At(stmts, Failing(T, p) \cap Disputed(T))
           C == ValidContentious(reference, stmts)
<1>1. \A i \in D : stmts[i] \in T /\ stmts[i].does[p] \in Answers
  OBVIOUS
<1>2. \A i \in D : /\ i \in A <=> i \in K /\ stmts[i].does[p] \in {"stable", "unstable"}
                   /\ i \in F <=> stmts[i].does[p] \in {"rejected", "panicked"}
                   /\ i \in AC => i \in K /\ stmts[i].does[p] \in {"stable", "unstable"}
                   /\ i \in AC => reference /\ i \in C
  BY <1>1 DEF Hits, Due, StatOf, One, IsValid, IsContentious, Accepted, Miss, At, Failing,
              ValidContentious
<1>3. A \in SUBSET D /\ AC \in SUBSET D /\ K \in SUBSET D /\ F \in SUBSET D
  BY DEF Hits, Due, At
<1>4. Valid(reference, stmts) = K
  <2>1. \A i \in D : i \in Valid(reference, stmts) <=> i \in K
    BY DEF Valid, Due, Miss, IsValid
  <2>2. Valid(reference, stmts) \in SUBSET D
    BY DEF Valid
  <2> HIDE DEF K
  <2> QED
    BY <1>3, <2>1, <2>2
<1>5. RC \in SUBSET R /\ \A i \in D : i \in RC /\ reference => i \in C
  <2>1. RC \in SUBSET R
    BY DEF At
  <2>2. \A i \in D : i \in RC /\ reference => i \in C
    BY <1>1 DEF Due, At, Disputed, ValidContentious, IsContentious, IsValid, Miss
  <2> QED
    BY <2>1, <2>2
<1>6. ~reference => C = {} /\ AC = {}
  <2>1. ~reference => C = {}
    BY DEF ValidContentious, IsContentious
  <2>2. ~reference => AC = {}
    BY <1>2, <1>3
  <2> QED
    BY <2>1, <2>2
<1>7. \A i \in D : /\ stmts[i].does[p] \in {"stable", "unstable"}
                      \/ stmts[i].does[p] \in {"rejected", "panicked"}
                   /\ ~(stmts[i].does[p] \in {"stable", "unstable"}
                        /\ stmts[i].does[p] \in {"rejected", "panicked"})
  BY <1>1 DEF Answers
<1> HIDE DEF D, K, F, A, AC, RC, C
<1>8. A \cup R = K
  <2>1. \A i \in D : i \in A \/ i \in R <=> i \in K
    BY <1>2, <1>7
  <2> QED
    BY <1>3, <2>1
<1>9. Apart(A, R)
  BY <1>2, <1>3, <1>7 DEF Apart
<1>10. Apart(D \cap RC, AC)
  BY <1>2, <1>3, <1>5, <1>7 DEF Apart
<1>11. reference => D \cap RC \subseteq C /\ D \cap AC \subseteq C
  BY <1>2, <1>5
<1> QED
  BY <1>4, <1>6, <1>8, <1>9, <1>10, <1>11 DEF D, K, F, A, AC, RC, C, PartsFit

\* What is published of a parser and a corpus agrees with its counters.
LEMMA PublishedFit ==
  ASSUME NEW T, NEW stmts \in Seq(T), NEW reference \in BOOLEAN,
         NEW i \in DOMAIN Supporting,
         \A x \in T : x.does[Supporting[i]] \in Answers
  PROVE  LET r == GradeChunk(reference, stmts)
             s == r.stats[i]
             f == FailuresFor(reference, stmts, Supporting[i], TRUE)
         IN  /\ s.accepted_valid + f.rejected_total = f.expected_total
             /\ f.expected_total = r.valid_total
             /\ Len(f.preview) = Len(f.tags) /\ IsPrefix(f.preview, f.download)
             /\ Cardinality({k \in DOMAIN f.download : f.download[k].contentious})
                  <= r.contentious_valid - s.accepted_valid_contentious
                     + (IF reference THEN 0 ELSE Len(stmts))
PROOF
<1> DEFINE p == Supporting[i]
           D == DOMAIN stmts
           n == Len(stmts)
           r == GradeChunk(reference, stmts)
           f == FailuresFor(reference, stmts, p, TRUE)
           rej == Failures(reference, stmts, p).rejected
           K == Due(reference, stmts)
           R == K \cap At(stmts, Failing(T, p))
           A == Hits(reference, stmts, p, "accepted_valid")
           AC == Hits(reference, stmts, p, "accepted_valid_contentious")
           RC == K \cap At(stmts, Failing(T, p) \cap Disputed(T))
           C == ValidContentious(reference, stmts)
           V == Valid(reference, stmts)
<1>1. n \in Nat /\ D = 1..n /\ IsFiniteSet(D)
  <2>1. n \in Nat /\ D = 1..n
    OBVIOUS
  <2> QED
    BY <2>1, FS_Interval
<1>2. /\ r.valid_total = Overlap(D, V) /\ r.contentious_valid = Overlap(D, C)
      /\ r.stats[i].accepted_valid = Overlap(D, A)
      /\ r.stats[i].accepted_valid_contentious = Overlap(D, AC)
  <2>1. r = Tally(reference, stmts, D)
    BY ChunkTally
  <2>2. r.stats[i] = [c \in DOMAIN ZeroStat |-> Overlap(D, Hits(reference, stmts, p, c))]
    BY <2>1 DEF Tally, TallyStats
  <2> HIDE DEF r, D, p
  <2> QED
    BY <2>1, <2>2 DEF Tally, ZeroStat
<1>3. /\ rej \in Seq(T) /\ Len(rej) = Overlap(D, R)
      /\ CountIn(rej, Disputed(T)) = Overlap(D, RC)
      /\ Failures(reference, stmts, p).total = Overlap(D, K)
  <2>1. D = 1..n
    BY <1>1
  <2> HIDE DEF D, p
  <2>2. FailuresListed(T, stmts, reference, p)
    BY FailuresCount
  <2>3. /\ rej \in Seq(T) /\ Len(rej) = Overlap(1..n, R)
        /\ Failures(reference, stmts, p).total = Overlap(1..n, K)
        /\ \A W : CountIn(rej, W) = Overlap(1..n, K \cap At(stmts, Failing(T, p) \cap W))
    BY <2>2, Zenon DEF FailuresListed
  <2>4. CountIn(rej, Disputed(T)) = Overlap(1..n, RC)
    BY <2>3, Zenon
  <2> HIDE DEF rej, n, R, K, RC
  <2> QED
    BY <2>1, <2>3, <2>4
<1>4. /\ A \cup R = K /\ Apart(A, R) /\ V = K /\ Apart(D \cap RC, AC)
      /\ reference => D \cap RC \subseteq C /\ D \cap AC \subseteq C
      /\ ~reference => C = {} /\ AC = {}
  <2> HIDE DEF p
  <2>1. \A x \in T : x.does[p] \in Answers
    BY DEF p
  <2>2. PartsFit(T, stmts, reference, p)
    BY <2>1, PublishedParts
  <2> QED
    BY <2>2, Zenon DEF PartsFit
<1>5. /\ f.rejected_total = Len(rej) /\ f.expected_total = Failures(reference, stmts, p).total
      /\ f.preview = Take(rej, FailPreview) /\ f.download = Take(rej, FailCap)
      /\ f.tags = [j \in DOMAIN Take(rej, FailPreview) |-> rej[j].contentious]
  <2> HIDE DEF p
  <2> QED
    BY DEF FailuresFor
<1> HIDE DEF p, r, f, rej, K, R, A, AC, RC, C, V
<1>6. \A I, J : D \cap I \subseteq J =>
        Overlap(D, I) \in Nat /\ Overlap(D, J) \in Nat /\ Overlap(D, I) <= Overlap(D, J)
  BY <1>1, OverlapMonotone
<1>7. /\ Overlap(D, A) \in Nat /\ Overlap(D, R) \in Nat /\ Overlap(D, RC) \in Nat
      /\ Overlap(D, C) \in Nat /\ Overlap(D, AC) \in Nat
  BY <1>6
<1>8. Overlap(D, A) + Overlap(D, R) = Overlap(D, K)
  <2> DEFINE I == D \cap A
             J == D \cap R
  <2>1. IsFiniteSet(I) /\ IsFiniteSet(J) /\ Apart(I, J)
    BY <1>1, <1>4, FS_Intersection DEF Apart
  <2>2. OverlapsAdd(I, J)
    <3> HIDE DEF I, J
    <3> QED
      BY <2>1, OverlapOfUnion
  <2>3. Overlap(I \cup J, D) = Overlap(I, D) + Overlap(J, D)
    BY <2>2, Zenon DEF OverlapsAdd
  <2>4. (I \cup J) \cap D = D \cap K /\ I \cap D = D \cap A /\ J \cap D = D \cap R
    BY <1>4
  <2>5. /\ Overlap(I \cup J, D) = Overlap(D, K) /\ Overlap(I, D) = Overlap(D, A)
        /\ Overlap(J, D) = Overlap(D, R)
    BY <2>4, Zenon DEF Overlap
  <2> HIDE DEF I, J
  <2> QED
    BY <2>3, <2>5
<1>9. f.rejected_total = Overlap(D, R) /\ f.expected_total = Overlap(D, K)
  BY <1>3, <1>5
<1>10. r.stats[i].accepted_valid + f.rejected_total = f.expected_total
  BY <1>2, <1>8, <1>9
<1>11. f.expected_total = r.valid_total
  BY <1>2, <1>4, <1>9
<1>12. Len(f.preview) = Len(f.tags) /\ IsPrefix(f.preview, f.download)
  <2> DEFINE t == Take(rej, FailPreview)
             u == Take(rej, FailCap)
             a == IF FailPreview <= Len(rej) THEN FailPreview ELSE Len(rej)
             b == IF FailCap <= Len(rej) THEN FailCap ELSE Len(rej)
  <2>1. FailPreview \in Nat /\ FailCap \in Nat /\ FailPreview <= FailCap /\ Len(rej) \in Nat
    BY <1>3, FailuresAssumption
  <2>2. /\ t \in Seq(T) /\ u \in Seq(T) /\ Len(t) = a /\ Len(u) = b
        /\ t = SubSeq(rej, 1, a) /\ u = SubSeq(rej, 1, b)
    BY <1>3, <2>1, TakeCounts
  <2>3. a \in Nat /\ b \in Nat /\ a <= b /\ b <= Len(rej)
    BY <2>1
  <2> HIDE DEF a, b
  <2>4. SubSeq(t, 1, a) = SubSeq(u, 1, a)
    <3> DEFINE x == SubSeq(t, 1, a)
               y == SubSeq(u, 1, a)
    <3>1. x \in Seq(T) /\ Len(x) = a /\ \A k \in 1..a : x[k] = rej[k]
      BY <1>3, <2>2, <2>3
    <3>2. y \in Seq(T) /\ Len(y) = a /\ \A k \in 1..a : y[k] = rej[k]
      BY <1>3, <2>2, <2>3
    <3> HIDE DEF x, y, t, u
    <3>3. x = y
      BY <3>1, <3>2
    <3> QED
      BY <3>3 DEF x, y
  <2> HIDE DEF t, u
  <2>5. IsPrefix(t, u)
    BY <2>2, <2>3, <2>4 DEF IsPrefix
  <2>6. Len(f.tags) = Len(t)
    <3>1. f.tags = [j \in DOMAIN t |-> rej[j].contentious]
      BY <1>5 DEF t
    <3> DEFINE g == f.tags
    <3>2. DOMAIN g = 1..Len(t) /\ Len(t) \in Nat
      BY <2>2, <3>1
    <3>3. g \in [1..Len(t) -> {g[j] : j \in 1..Len(t)}]
      <4>1. g = [j \in 1..Len(t) |-> g[j]]
        BY <3>1, <3>2
      <4> HIDE DEF g
      <4> QED
        BY <4>1
    <3> HIDE DEF g
    <3>4. Len(g) = Len(t)
      BY <3>2, <3>3, FunctionIsList
    <3> QED
      BY <3>4 DEF g
  <2> QED
    BY <1>5, <2>5, <2>6 DEF t, u
<1>13. Cardinality({k \in DOMAIN f.download : f.download[k].contentious}) <= Overlap(D, RC)
  <2> DEFINE u == Take(rej, FailCap)
  <2>1. u \in Seq(T) /\ CountIn(u, Disputed(T)) <= CountIn(rej, Disputed(T))
    <3>1. FailCap \in Nat
      BY FailuresAssumption
    <3> QED
      BY <1>3, <3>1, TakeCounts
  <2> HIDE DEF u
  <2>2. {k \in DOMAIN u : u[k].contentious} = At(u, Disputed(T))
    <3>1. \A k \in DOMAIN u : u[k] \in T
      BY <2>1
    <3> QED
      BY <3>1 DEF At, Disputed
  <2>3. f.download = u
    BY <1>5 DEF u
  <2>4. Cardinality({k \in DOMAIN u : u[k].contentious}) = CountIn(u, Disputed(T))
    BY <2>2 DEF CountIn
  <2> QED
    BY <1>3, <2>1, <2>3, <2>4
<1> DEFINE q == Cardinality({k \in DOMAIN f.download : f.download[k].contentious})
<1>14. q \in Nat
  <2>1. IsFiniteSet(DOMAIN f.download)
    <3>1. FailCap \in Nat
      BY FailuresAssumption
    <3>2. Take(rej, FailCap) \in Seq(T)
      BY <1>3, <3>1, TakeCounts
    <3>3. f.download \in Seq(T)
      BY <1>5, <3>2
    <3> DEFINE d == f.download
    <3>4. Len(d) \in Nat /\ DOMAIN d = 1..Len(d)
      BY <3>3
    <3> HIDE DEF d
    <3>5. IsFiniteSet(DOMAIN d)
      BY <3>4, FS_Interval
    <3> QED
      BY <3>5 DEF d
  <2>2. IsFiniteSet({k \in DOMAIN f.download : f.download[k].contentious})
    BY <2>1, FS_Subset
  <2> QED
    BY <2>2, FS_CardinalityType
<1> HIDE DEF q
<1>15. q <= Overlap(D, RC)
  BY <1>13 DEF q
<1>16. q <= r.contentious_valid - r.stats[i].accepted_valid_contentious
            + (IF reference THEN 0 ELSE n)
  <2>1. CASE reference
    <3>1. Overlap(D, RC) + Overlap(D, AC) <= Overlap(D, C)
      BY <1>1, <1>4, <2>1, OverlapSplits
    <3> HIDE DEF D, n
    <3> QED
      BY <1>2, <1>7, <1>14, <1>15, <2>1, <3>1
  <2>2. CASE ~reference
    <3>1. Overlap(D, C) = 0 /\ Overlap(D, AC) = 0
      <4>1. D \cap {} = {} /\ Cardinality({}) = 0
        BY FS_EmptySet
      <4> QED
        BY <1>4, <2>2, <4>1 DEF Overlap
    <3>2. Overlap(D, RC) <= n
      <4>1. Overlap(D, RC) <= Overlap(D, D)
        BY <1>6
      <4>2. Overlap(D, D) = n
        <5>1. D \cap D = D
          OBVIOUS
        <5>2. Cardinality(1..n) = n
          BY <1>1, FS_Interval
        <5> QED
          BY <1>1, <5>1, <5>2 DEF Overlap
      <4> QED
        BY <4>1, <4>2
    <3> HIDE DEF D, n
    <3> QED
      BY <1>1, <1>2, <1>7, <1>14, <1>15, <2>2, <3>1, <3>2
  <2> QED
    BY <2>1, <2>2
<1> QED
  BY <1>10, <1>11, <1>12, <1>16 DEF q, p, f, r

\* The counters and the failure lists, of different passes over the corpus, agree: the valid
\* statements are those accepted and those listed as failures, what is shown is the beginning
\* of the download, and no list has more contentious statements than the counters know of.
THEOREM GradingListsFit == Spec => []ListsFit
PROOF
<1>1. InputInv => ListsFit
  <2> SUFFICES ASSUME InputInv, tool = "grade", NEW reference \in BOOLEAN,
                      NEW i \in DOMAIN GradeChunk(reference, input).stats
               PROVE  LET r == GradeChunk(reference, input)
                          s == r.stats[i]
                          f == FailuresFor(reference, input, Supporting[i], TRUE)
                      IN  /\ s.accepted_valid + f.rejected_total = f.expected_total
                          /\ f.expected_total = r.valid_total
                          /\ Len(f.preview) = Len(f.tags) /\ IsPrefix(f.preview, f.download)
                          /\ Cardinality({k \in DOMAIN f.download : f.download[k].contentious})
                               <= r.contentious_valid - s.accepted_valid_contentious
                                  + (IF reference THEN 0 ELSE Len(input))
    BY DEF ListsFit
  <2>1. input \in Seq(Alphabet["grade"]) /\ "grade" \in DOMAIN Alphabet
    BY DEF InputInv, Algos
  <2>2. i \in DOMAIN Supporting
    <3>1. GradeChunk(reference, input) = Tally(reference, input, DOMAIN input)
      BY <2>1, ChunkTally
    <3> QED
      BY <3>1 DEF Tally, TallyStats
  <2>3. \A x \in Alphabet["grade"] : x.does[Supporting[i]] \in Answers
    BY <2>1, <2>2, GradedAssumption DEF Answers
  <2> QED
    BY <2>1, <2>2, <2>3, PublishedFit
<1> QED
  BY InputTyped, <1>1, PTL

\* The numbers published of a corpus by grade_chunk and by failures_dialect_from fit
\* together, each with its like and the ones with the others.
THEOREM GradingPublishedCountsAgree == Spec => []PublishedCountsAgree
PROOF
<1>1. CountsFit /\ ListsFit => PublishedCountsAgree
  BY DEF PublishedCountsAgree
<1> QED
  BY GradingCountsFit, GradingListsFit, <1>1, PTL

-----------------------------------------------------------------------------
(* Folds over lists: the values that they go through                     *)

\* The values that a fold of op over a list g goes through, from base.
IsRun(A, n, S, base, op, g) ==
  /\ A \in [0..n -> S]
  /\ A[0] = base
  /\ \A i \in 1..n : A[i] = op[<<A[i - 1], g[i]>>]

\* They end with x.
RunsTo(n, S, base, op, g, x) == \E A : IsRun(A, n, S, base, op, g) /\ A[n] = x

\* I is built up by op from base, as the recursive function that a fold unfolds to is.
IsBuilt(I, n, S, base, op, g) ==
  /\ I[{}] = base
  /\ \A u \in SUBSET (1..n) :
       u # {} /\ I[u \ {Max(u)}] \in S => I[u] = op[<<I[u \ {Max(u)}], g[Max(u)]>>]

\* The recursive function I that a fold unfolds to goes through them on the first indices.
LEMMA RunOfIter ==
  ASSUME NEW n \in Nat, NEW S, NEW T, NEW base \in S,
         NEW op \in [S \X T -> S], NEW g \in [1..n -> T],
         NEW I, IsBuilt(I, n, S, base, op, g)
  PROVE  RunsTo(n, S, base, op, g, I[1..n])
PROOF
<1> DEFINE A == [i \in 0..n |-> I[1..i]]
           E == {i \in 0..n : A[i] \in S}
<1>1. 1..0 = {} /\ 0 \in 0..n /\ n \in 0..n
  OBVIOUS
<1>2. A[0] = base
  BY <1>1 DEF IsBuilt
<1>3. ASSUME NEW i \in 1..n, A[i - 1] \in S
      PROVE  A[i] = op[<<A[i - 1], g[i]>>] /\ A[i] \in S
  <2> DEFINE u == 1..i
  <2>1. i \in Nat \ {0} /\ i \in u /\ u \in SUBSET (1..n) /\ i \in 0..n /\ i - 1 \in 0..n
    OBVIOUS
  <2>2. u \ {i} = 1..(i - 1)
    <3>1. \A j : j \in u \ {i} <=> j \in 1..(i - 1)
      BY <2>1
    <3> HIDE DEF u
    <3> QED
      BY <3>1
  <2>3. Max(u) = i
    BY <2>1, MaxOfPrefix
  <2>4. A[i] = I[u] /\ A[i - 1] = I[u \ {i}]
    <3>1. A[i] = I[u]
      BY <2>1
    <3>2. A[i - 1] = I[1..(i - 1)]
      BY <2>1
    <3> HIDE DEF u, A
    <3> QED
      BY <2>2, <3>1, <3>2
  <2> HIDE DEF u, A
  <2>5. I[u] = op[<<I[u \ {i}], g[i]>>]
    <3>1. u # {} /\ I[u \ {i}] \in S
      BY <1>3, <2>1, <2>4
    <3>2. I[u \ {Max(u)}] \in S
      BY <2>3, <3>1, Zenon
    <3>3. I[u] = op[<<I[u \ {Max(u)}], g[Max(u)]>>]
      BY <2>1, <3>1, <3>2 DEF IsBuilt
    <3> QED
      BY <2>3, <3>3, Zenon
  <2>6. g[i] \in T
    BY <2>1
  <2>7. op[<<A[i - 1], g[i]>>] \in S
    BY <1>3, <2>6
  <2> QED
    BY <2>4, <2>5, <2>7
<1>4. 0 \in E
  BY <1>1, <1>2
<1>5. ASSUME NEW i \in 1..n, i - 1 \in E PROVE i \in E
  <2>1. A[i - 1] \in S /\ i \in 0..n
    BY <1>5
  <2> HIDE DEF A
  <2> QED
    BY <1>3, <2>1
<1>6. 0..n \subseteq E
  <2> HIDE DEF E
  <2> QED
    BY <1>4, <1>5, UpTo
<1>7. A \in [0..n -> S]
  BY <1>6
<1>8. ASSUME NEW i \in 1..n PROVE A[i] = op[<<A[i - 1], g[i]>>]
  <2>1. i - 1 \in 0..n
    OBVIOUS
  <2>2. A[i - 1] \in S
    BY <1>7, <2>1
  <2> HIDE DEF A
  <2> QED
    BY <1>3, <2>2
<1>9. A[n] = I[1..n]
  BY <1>1
<1> HIDE DEF A
<1> QED
  BY <1>2, <1>7, <1>8, <1>9 DEF IsRun, RunsTo

\* Runs over lists that agree up to k agree up to k.
LEMMA RunsAgree ==
  ASSUME NEW n \in Nat, NEW m \in Nat, NEW k \in Nat, k <= n, k <= m,
         NEW S, NEW base, NEW op, NEW g, NEW h, NEW A, NEW B,
         IsRun(A, n, S, base, op, g), IsRun(B, m, S, base, op, h),
         \A i \in 1..k : g[i] = h[i]
  PROVE  \A i \in 0..k : A[i] = B[i]
PROOF
<1> DEFINE E == {i \in 0..k : A[i] = B[i]}
<1>1. 0 \in E
  BY DEF IsRun
<1>2. ASSUME NEW i \in 1..k, i - 1 \in E PROVE i \in E
  <2>1. i \in 1..n /\ i \in 1..m /\ i \in 0..k /\ A[i - 1] = B[i - 1] /\ g[i] = h[i]
    BY <1>2
  <2>2. A[i] = op[<<A[i - 1], g[i]>>] /\ B[i] = op[<<B[i - 1], h[i]>>]
    BY <2>1 DEF IsRun
  <2> QED
    BY <2>1, <2>2
<1>3. 0..k \subseteq E
  <2> HIDE DEF E
  <2> QED
    BY <1>1, <1>2, UpTo
<1> QED
  BY <1>3

\* Behind a run over the first part of a list, the rest of it is a run from where that ended.
IsJoined(f, n, g, m, h) == (\A i \in 1..n : f[i] = g[i]) /\ (\A i \in 1..m : f[n + i] = h[i])

\* A run over a list and then over another one ends where the run over both ends.
LEMMA RunGoesOn ==
  ASSUME NEW n \in Nat, NEW m \in Nat, NEW S, NEW base, NEW op, NEW g, NEW h, NEW f,
         NEW A, NEW B, NEW C, NEW mid, mid = A[n],
         IsRun(A, n, S, base, op, g), IsRun(B, m, S, mid, op, h), IsRun(C, n + m, S, base, op, f),
         IsJoined(f, n, g, m, h)
  PROVE  C[n + m] = B[m]
PROOF
<1>0. /\ \A i \in 1..n : f[i] = g[i]
      /\ \A i \in 1..m : f[n + i] = h[i]
  BY DEF IsJoined
<1> DEFINE E == {i \in 0..m : C[n + i] = B[i]}
<1>1. 0 \in E
  <2>1. \A i \in 0..n : C[i] = A[i]
    BY <1>0, RunsAgree
  <2>2. n \in 0..n /\ n + 0 = n /\ 0 \in 0..m
    OBVIOUS
  <2>3. B[0] = A[n]
    BY Zenon DEF IsRun
  <2> QED
    BY <2>1, <2>2, <2>3
<1>2. ASSUME NEW i \in 1..m, i - 1 \in E PROVE i \in E
  <2>1. n + i \in 1..(n + m) /\ (n + i) - 1 = n + (i - 1) /\ i \in 0..m
    OBVIOUS
  <2>2. C[n + (i - 1)] = B[i - 1] /\ f[n + i] = h[i]
    BY <1>0, <1>2
  <2>3. C[n + i] = op[<<C[(n + i) - 1], f[n + i]>>]
    BY <2>1 DEF IsRun
  <2>4. B[i] = op[<<B[i - 1], h[i]>>]
    BY Zenon DEF IsRun
  <2> QED
    BY <2>1, <2>2, <2>3, <2>4
<1>3. 0..m \subseteq E
  <2> HIDE DEF E
  <2> QED
    BY <1>1, <1>2, UpTo
<1> QED
  BY <1>3

-----------------------------------------------------------------------------
(* Memory: what an event does to the counters, a window, a run             *)

\* The states of the counters, and what happens in a parse.
\* (As a set of its own, the provers do not split on its elements.)
Bools == BOOLEAN
CounterStates == [live : Int, peak : Int, own : Seq(Nat), warm : Bools]
Events == ({"alloc", "resize", "lazy"} \X Nat) \cup {<<"free">>}
State(live, peak, own, warm) == [live |-> live, peak |-> peak, own |-> own, warm |-> warm]
LEMMA CountersExcept ==
  ASSUME NEW c \in CounterStates
  PROVE  /\ c = State(c.live, c.peak, c.own, c.warm)
         /\ c.live \in Int /\ c.peak \in Int /\ c.own \in Seq(Nat) /\ c.warm \in Bools
         /\ \A x, y \in Int : [c EXCEPT !.live = x, !.peak = y] = State(x, y, c.own, c.warm)
         /\ \A x \in Int : [c EXCEPT !.live = x] = State(x, c.peak, c.own, c.warm)
         /\ \A x \in Int : [c EXCEPT !.peak = x] = State(c.live, x, c.own, c.warm)
         /\ \A s \in Seq(Nat) : [c EXCEPT !.own = s] = State(c.live, c.peak, s, c.warm)
         /\ [c EXCEPT !.warm = TRUE] = State(c.live, c.peak, c.own, TRUE)
<1>1. /\ c.live \in Int /\ c.peak \in Int /\ c.own \in Seq(Nat) /\ c.warm \in Bools
  BY DEF CounterStates
<1>2. c = State(c.live, c.peak, c.own, c.warm)
  BY DEF CounterStates, State
<1>3. ASSUME NEW x \in Int, NEW y \in Int
      PROVE  [c EXCEPT !.live = x, !.peak = y] = State(x, y, c.own, c.warm)
  <2> DEFINE d == [c EXCEPT !.live = x]
  <2>1. d \in CounterStates /\ d.live = x /\ d.own = c.own /\ d.warm = c.warm
    BY DEF CounterStates
  <2>2. [c EXCEPT !.live = x, !.peak = y] = [d EXCEPT !.peak = y]
    BY Zenon
  <2> HIDE DEF d
  <2>3. [d EXCEPT !.peak = y] = State(d.live, y, d.own, d.warm)
    BY <2>1 DEF CounterStates, State
  <2> QED
    BY <2>1, <2>2, <2>3, Zenon
<1>4. \A x \in Int : [c EXCEPT !.live = x] = State(x, c.peak, c.own, c.warm)
  BY DEF CounterStates, State
<1>5. \A x \in Int : [c EXCEPT !.peak = x] = State(c.live, x, c.own, c.warm)
  BY DEF CounterStates, State
<1>6. \A s \in Seq(Nat) : [c EXCEPT !.own = s] = State(c.live, c.peak, s, c.warm)
  BY DEF CounterStates, State
<1>7. [c EXCEPT !.warm = TRUE] = State(c.live, c.peak, c.own, TRUE)
  <2>1. \A b \in Bools : [c EXCEPT !.warm = b] = State(c.live, c.peak, c.own, b)
    BY DEF CounterStates, State
  <2>2. TRUE \in Bools
    BY DEF Bools
  <2> QED
    BY <2>1, <2>2, Zenon
<1> QED BY <1>1, <1>2, <1>3, <1>4, <1>5, <1>6, <1>7, Zenon

HasParts(d, x, y, s, b) ==
  d \in CounterStates /\ d.live = x /\ d.peak = y /\ d.own = s /\ d.warm = b

\* A state of the counters is a record of its four fields.
LEMMA StateParts ==
  ASSUME NEW x \in Int, NEW y \in Int, NEW s \in Seq(Nat), NEW b \in Bools
  PROVE  HasParts(State(x, y, s, b), x, y, s, b)
PROOF
BY DEF CounterStates, State, HasParts

\* What one allocation or one release of k bytes does to the live count and the peak.
LEMMA RecordParts ==
  ASSUME NEW c \in CounterStates, NEW k \in Int
  PROVE  /\ c.live + k \in Int /\ c.live - k \in Int /\ MaxOf(c.peak, c.live + k) \in Int
         /\ RecordAlloc(c, k) = State(c.live + k, MaxOf(c.peak, c.live + k), c.own, c.warm)
         /\ RecordDealloc(c, k) = State(c.live - k, c.peak, c.own, c.warm)
PROOF
<1> DEFINE x == c.live + k
           y == MaxOf(c.peak, x)
           z == c.live - k
<1>1. c.live \in Int /\ c.peak \in Int
  BY CountersExcept
<1>4. x \in Int /\ z \in Int
  BY <1>1
<1>5. y \in Int
  <2> HIDE DEF x
  <2> QED
    BY <1>1, <1>4 DEF MaxOf
<1>2. RecordAlloc(c, k) = [c EXCEPT !.live = x, !.peak = y] /\ RecordDealloc(c, k) = [c EXCEPT !.live = z]
  BY Zenon DEF RecordAlloc, RecordDealloc
<1> HIDE DEF x, y, z
<1>3. RecordAlloc(c, k) = State(x, y, c.own, c.warm)
  BY <1>2, <1>4, <1>5, CountersExcept
<1>6. RecordDealloc(c, k) = State(z, c.peak, c.own, c.warm)
  BY <1>2, <1>4, <1>5, CountersExcept, Zenon
<1> QED
  BY <1>3, <1>4, <1>5,<1>6, Zenon DEF x, y, z

\* The kinds of events, and the number that comes with all but one.
LEMMA EventKinds ==
  ASSUME NEW e \in Events
  PROVE  /\ e[1] \in {"alloc", "resize", "lazy", "free"}
         /\ e[1] # "free" => e[2] \in Nat
PROOF
BY DEF Events

\* A list changed at its end.
LEMMA EndOfList ==
  ASSUME NEW s \in Seq(Nat), NEW n \in Nat
  PROVE  /\ Len(s) \in Nat /\ Append(s, n) \in Seq(Nat)
         /\ Len(s) > 0 => /\ Front(s) \in Seq(Nat) /\ s[Len(s)] \in Nat
                          /\ [s EXCEPT ![Len(s)] = n] \in Seq(Nat)
PROOF
<1>1. Len(s) > 0 => Front(s) \in Seq(Nat)
  BY DEF Front
<1>2. Len(s) \in Nat /\ Append(s, n) \in Seq(Nat)
  OBVIOUS
<1>3. Len(s) > 0 => [s EXCEPT ![Len(s)] = n] \in Seq(Nat)
  BY ExceptSeq
<1>4. Len(s) > 0 => s[Len(s)] \in Nat
  OBVIOUS
<1> QED
  BY <1>1, <1>2, <1>3, <1>4, Zenon

\* What each event does to the counters.
LEMMA AllocateCases ==
  ASSUME NEW c \in CounterStates, NEW e \in Events
  PROVE  LET top == Len(c.own)
             n   == e[2]
             old == c.own[top]
         IN  /\ e[1] = "alloc" =>
                  Allocate(c, e) = State(c.live + n, MaxOf(c.peak, c.live + n), Append(c.own, n), c.warm)
             /\ e[1] = "lazy" =>
                  Allocate(c, e) = IF c.warm THEN c
                                   ELSE State(c.live + n, MaxOf(c.peak, c.live + n), c.own, TRUE)
             /\ e[1] \in {"resize", "free"} /\ top = 0 => Allocate(c, e) = c
             /\ e[1] = "resize" /\ top > 0 =>
                  Allocate(c, e) = State(c.live + (n - old),
                                         IF n >= old THEN MaxOf(c.peak, c.live + (n - old)) ELSE c.peak,
                                         [c.own EXCEPT ![top] = n], c.warm)
             /\ e[1] = "free" /\ top > 0 =>
                  Allocate(c, e) = State(c.live - old, c.peak, Front(c.own), c.warm)
PROOF
<1> DEFINE top == Len(c.own)
           n == e[2]
           old == c.own[top]
           kind == e[1]
           s1 == Append(c.own, n)
           s2 == [c.own EXCEPT ![top] = n]
           s3 == Front(c.own)
<1>1. /\ top \in Nat /\ c.own \in Seq(Nat) /\ c.live \in Int /\ c.peak \in Int /\ c.warm \in Bools
      /\ top > 0 => old \in Nat
  <2>1. c.own \in Seq(Nat)
    BY CountersExcept
  <2>2. top \in Nat /\ (top > 0 => old \in Nat)
    BY <2>1
  <2> QED
    BY <2>1, <2>2, CountersExcept, Zenon
<1>2. kind \in {"alloc", "resize", "lazy", "free"} /\ (kind # "free" => n \in Nat)
  BY EventKinds
<1>3. /\ n \in Nat => s1 \in Seq(Nat)
      /\ n \in Nat /\ top > 0 => s2 \in Seq(Nat)
      /\ top > 0 => s3 \in Seq(Nat)
  <2>1. c.own \in Seq(Nat) /\ 0 \in Nat
    BY <1>1
  <2> HIDE DEF n
  <2> QED
    BY <2>1, EndOfList, Zenon
<1>4. Allocate(c, e) =
        CASE kind = "alloc" -> [RecordAlloc(c, n) EXCEPT !.own = Append(@, n)]
          [] kind = "lazy"  -> IF c.warm THEN c ELSE [RecordAlloc(c, n) EXCEPT !.warm = TRUE]
          [] kind = "resize" /\ top > 0 -> [Realloc(c, old, n) EXCEPT !.own[top] = n]
          [] kind = "free" /\ top > 0 -> [RecordDealloc(c, old) EXCEPT !.own = Front(@)]
          [] OTHER -> c
  BY Zenon DEF Allocate
<1> HIDE DEF n, top, old, kind
<1>5. CASE kind = "alloc"
  <2> DEFINE d == RecordAlloc(c, n)
  <2>1. n \in Int /\ n \in Nat
    BY <1>2, <1>5
  <2> DEFINE x == c.live + n
             y == MaxOf(c.peak, x)
  <2>2. d = State(x, y, c.own, c.warm) /\ x \in Int /\ y \in Int
    BY <2>1, RecordParts, Zenon
  <2>3. Allocate(c, e) = [d EXCEPT !.own = Append(d.own, n)]
    BY <1>4, <1>5
  <2> HIDE DEF d, s1, x, y
  <2>4. /\ d \in CounterStates /\ d.live = x /\ d.peak = y /\ d.own = c.own /\ d.warm = c.warm
    <3>1. HasParts(State(x, y, c.own, c.warm), x, y, c.own, c.warm)
      BY <1>1, <2>2, StateParts, Zenon
    <3>2. HasParts(d, x, y, c.own, c.warm)
      BY <2>2, <3>1, Zenon
    <3> QED
      BY <3>2, Zenon DEF HasParts
  <2>5. [d EXCEPT !.own = s1] = State(d.live, d.peak, s1, d.warm)
    BY <1>3, <2>1, <2>4, CountersExcept, Zenon
  <2>6. Allocate(c, e) = State(d.live, d.peak, s1, d.warm)
    BY <2>3, <2>4, <2>5, Zenon DEF s1
  <2>7. Allocate(c, e) = State(x, y, s1, c.warm)
    BY <2>4, <2>6, Zenon
  <2> QED
    BY <1>5, <2>7 DEF s1, n, kind, x, y
<1>6. CASE kind = "lazy"
  <2> DEFINE d == RecordAlloc(c, n)
  <2>1. n \in Int /\ n \in Nat
    BY <1>2, <1>6
  <2> DEFINE x == c.live + n
             y == MaxOf(c.peak, x)
  <2>2. d = State(x, y, c.own, c.warm) /\ x \in Int /\ y \in Int
    BY <2>1, RecordParts, Zenon
  <2>3. Allocate(c, e) = IF c.warm THEN c ELSE [d EXCEPT !.warm = TRUE]
    BY <1>4, <1>6
  <2> HIDE DEF d, x, y
  <2>4. /\ d \in CounterStates /\ d.live = x /\ d.peak = y /\ d.own = c.own /\ d.warm = c.warm
    <3>1. HasParts(State(x, y, c.own, c.warm), x, y, c.own, c.warm)
      BY <1>1, <2>2, StateParts, Zenon
    <3>2. HasParts(d, x, y, c.own, c.warm)
      BY <2>2, <3>1, Zenon
    <3> QED
      BY <3>2, Zenon DEF HasParts
  <2>5. [d EXCEPT !.warm = TRUE] = State(d.live, d.peak, d.own, TRUE)
    BY <2>4, CountersExcept, Zenon
  <2>6. [d EXCEPT !.warm = TRUE] = State(x, y, c.own, TRUE)
    BY <2>4, <2>5, Zenon
  <2>7. Allocate(c, e) = IF c.warm THEN c
                         ELSE State(x, y, c.own, TRUE)
    BY <2>3, <2>6, Zenon
  <2> QED
    BY <1>6, <2>7 DEF n, kind, x, y
<1>7. CASE kind = "resize" /\ top > 0
  <2> DEFINE d == Realloc(c, old, n)
             up == n - old
             down == old - n
             x == c.live + up
             p == IF n >= old THEN MaxOf(c.peak, x) ELSE c.peak
  <2>1. n \in Nat /\ old \in Nat
    BY <1>1, <1>2, <1>7
  <2>2. up \in Int /\ down \in Int /\ x \in Int /\ c.live - down = x
    BY <1>1, <2>1
  <2>3. n >= old => d = RecordAlloc(c, up)
    BY Zenon DEF Realloc
  <2>4. ~(n >= old) => d = RecordDealloc(c, down)
    BY Zenon DEF Realloc
  <2>5. Allocate(c, e) = [d EXCEPT !.own[top] = n]
    BY <1>4, <1>7
  <2> HIDE DEF d, up, down, s2
  <2>6. RecordAlloc(c, up) = State(x, MaxOf(c.peak, x), c.own, c.warm) /\ MaxOf(c.peak, x) \in Int
    BY <2>2, RecordParts, Zenon
  <2>7. RecordDealloc(c, down) = State(c.live - down, c.peak, c.own, c.warm)
    BY <2>2, RecordParts, Zenon
  <2> HIDE DEF x
  <2>8. p \in Int
    BY <1>1, <2>6
  <2>9. d = State(x, p, c.own, c.warm)
    <3>1. CASE n >= old
      BY <2>3, <2>6, <3>1, Zenon
    <3>2. CASE ~(n >= old)
      BY <2>2, <2>4, <2>7, <3>2, Zenon
    <3> QED
      BY <3>1, <3>2
  <2> HIDE DEF p
  <2>10. /\ d \in CounterStates /\ d.live = x /\ d.peak = p
         /\ d.own = c.own /\ d.warm = c.warm
    <3>1. HasParts(State(x, p, c.own, c.warm), x, p, c.own, c.warm)
      BY <1>1, <2>2, <2>8, StateParts, Zenon
    <3>2. HasParts(d, x, p, c.own, c.warm)
      BY <2>9, <3>1, Zenon
    <3> QED
      BY <3>2, Zenon DEF HasParts
  <2>11. [d EXCEPT !.own = s2] = State(d.live, d.peak, s2, d.warm)
    BY <1>3, <1>7, <2>1, <2>10, CountersExcept, Zenon
  <2>12. Allocate(c, e) = [d EXCEPT !.own = s2]
    BY <2>5, <2>10, Zenon DEF s2
  <2>13. Allocate(c, e) = State(x, p, s2, c.warm)
    BY <2>10, <2>11, <2>12, Zenon
  <2> QED
    BY <1>7, <2>13 DEF s2, p, x, up, n, kind, top, old
<1>8. CASE kind = "free" /\ top > 0
  <2> DEFINE d == RecordDealloc(c, old)
  <2>1. old \in Int
    BY <1>1, <1>8
  <2> DEFINE x == c.live - old
  <2>2. d = State(x, c.peak, c.own, c.warm) /\ x \in Int
    BY <2>1, RecordParts, Zenon
  <2>3. Allocate(c, e) = [d EXCEPT !.own = Front(d.own)]
    BY <1>4, <1>8
  <2> HIDE DEF d, s3, x
  <2>4. /\ d \in CounterStates /\ d.live = x /\ d.peak = c.peak
        /\ d.own = c.own /\ d.warm = c.warm
    <3>1. HasParts(State(x, c.peak, c.own, c.warm), x, c.peak, c.own, c.warm)
      BY <1>1, <2>2, StateParts, Zenon
    <3>2. HasParts(d, x, c.peak, c.own, c.warm)
      BY <2>2, <3>1, Zenon
    <3> QED
      BY <3>2, Zenon DEF HasParts
  <2>5. [d EXCEPT !.own = s3] = State(d.live, d.peak, s3, d.warm)
    BY <1>3, <1>8, <2>4, CountersExcept, Zenon
  <2>6. Allocate(c, e) = State(d.live, d.peak, s3, d.warm)
    BY <2>3, <2>4, <2>5, Zenon DEF s3
  <2>7. Allocate(c, e) = State(x, c.peak, s3, c.warm)
    BY <2>4, <2>6, Zenon
  <2> QED
    BY <1>8, <2>7 DEF s3, x, kind, top, old
<1>9. kind \in {"resize", "free"} /\ top = 0 => Allocate(c, e) = c
  BY <1>4
<1> QED
  BY <1>2, <1>5, <1>6, <1>7, <1>8, <1>9 DEF n, top, old, kind

\* Every event of the allocator leaves the counters typed.
LEMMA AllocateTyped ==
  ASSUME NEW c \in CounterStates, NEW e \in Events
  PROVE  Allocate(c, e) \in CounterStates
PROOF
<1> DEFINE top == Len(c.own)
           n == e[2]
           old == c.own[top]
           up == c.live + n
           high == MaxOf(c.peak, up)
           moved == c.live + (n - old)
           crest == IF n >= old THEN MaxOf(c.peak, moved) ELSE c.peak
           down == c.live - old
           s1 == Append(c.own, n)
           s2 == [c.own EXCEPT ![top] = n]
           s3 == Front(c.own)
<1>1. c.own \in Seq(Nat) /\ c.live \in Int /\ c.peak \in Int /\ c.warm \in Bools
  BY CountersExcept, Zenon
<1>2. top \in Nat /\ (top > 0 => s3 \in Seq(Nat) /\ old \in Nat)
  BY <1>1, EndOfList, 0 \in Nat
<1>3. n \in Nat => s1 \in Seq(Nat) /\ (top > 0 => s2 \in Seq(Nat))
  <2> HIDE DEF n
  <2> QED
    BY <1>1, EndOfList, Zenon
<1>4. n \in Nat => up \in Int /\ high \in Int
  BY <1>1 DEF MaxOf
<1>5. n \in Nat /\ top > 0 => moved \in Int /\ crest \in Int
  <2>1. n \in Nat /\ top > 0 => moved \in Int
    BY <1>1, <1>2
  <2> HIDE DEF moved
  <2> QED
    BY <1>1, <2>1 DEF MaxOf
<1>6. top > 0 => down \in Int
  BY <1>1, <1>2
<1>7. e[1] \in {"alloc", "resize", "lazy", "free"} /\ (e[1] # "free" => n \in Nat)
  BY EventKinds
<1>8. /\ e[1] = "alloc" => Allocate(c, e) = State(up, high, s1, c.warm)
      /\ e[1] = "lazy" => Allocate(c, e) = IF c.warm THEN c ELSE State(up, high, c.own, TRUE)
      /\ e[1] \in {"resize", "free"} /\ top = 0 => Allocate(c, e) = c
      /\ e[1] = "resize" /\ top > 0 => Allocate(c, e) = State(moved, crest, s2, c.warm)
      /\ e[1] = "free" /\ top > 0 => Allocate(c, e) = State(down, c.peak, s3, c.warm)
  BY AllocateCases, Zenon
<1>9. TRUE \in Bools
  BY DEF Bools
<1> HIDE DEF top, n, old, up, high, moved, crest, down, s1, s2, s3
<1>10. \A x, y \in Int, s \in Seq(Nat), b \in Bools : State(x, y, s, b) \in CounterStates
  BY StateParts, Zenon DEF HasParts
<1>11. CASE e[1] = "alloc"
  BY <1>1, <1>3, <1>4, <1>7, <1>8, <1>10, <1>11
<1>12. CASE e[1] = "lazy"
  BY <1>1, <1>4, <1>7, <1>8, <1>9, <1>10, <1>12
<1>13. CASE e[1] = "resize"
  BY <1>1, <1>2, <1>3, <1>5, <1>7, <1>8, <1>10, <1>13
<1>14. CASE e[1] = "free"
  BY <1>1, <1>2, <1>6, <1>7, <1>8, <1>10, <1>14
<1> QED
  BY <1>7, <1>11, <1>12, <1>13, <1>14

AllocateOp == [x \in CounterStates \X Events |-> Allocate(x[1], x[2])]

\* The fold over a window's events is a run of one event at a time.
LEMMA AllocateSteps ==
  ASSUME NEW c \in CounterStates, NEW s \in Seq(Events)
  PROVE  RunsTo(Len(s), CounterStates, c, AllocateOp, s, FoldLeft(Allocate, c, s))
PROOF
<1> DEFINE n == Len(s)
           D == 1..n
           S == CounterStates
           T == Events
           g == s
           Next1(a, e) == Allocate(a, e)
           IsIter(f) == f = [u \in SUBSET D |->
             IF u = {} THEN c ELSE Next1(f[u \ {Max(u)}], g[Max(u)])]
           Iter == CHOOSE f : IsIter(f)
<1>1. n \in Nat /\ DOMAIN g = D /\ g \in [D -> T]
  OBVIOUS
<1>2. FoldLeft(Allocate, c, s) = Iter[D]
  <2>1. FoldLeft(Allocate, c, s)
          = (CHOOSE f : f = [u \in SUBSET DOMAIN g |->
               IF u = {} THEN c ELSE Next1(f[u \ {Max(u)}], g[Max(u)])])[DOMAIN g]
    BY DEF FoldLeft, MapThenFoldSet
  <2> HIDE DEF D, g, Next1
  <2> QED
    BY <1>1, <2>1
<1>3. c \in S /\ \A a \in S, e \in T : Next1(a, e) \in S
  BY AllocateTyped
<1>4. AllocateOp \in [S \X T -> S] /\ \A a \in S, e \in T : AllocateOp[<<a, e>>] = Next1(a, e)
  <2>1. AllocateOp = [x \in S \X T |-> Next1(x[1], x[2])]
    BY DEF AllocateOp
  <2> HIDE DEF S, T, Next1
  <2> QED
    BY <1>3, <2>1
<1> HIDE DEF S, T, g, n, Next1
<1>5. PICK F : IsFold(F, n, S, c, AllocateOp, g)
  BY <1>1, <1>3, <1>4, FoldExists
<1>6. F \in [SUBSET D -> S]
  BY <1>5 DEF IsFold
<1>7. F = [u \in SUBSET D |->
             IF u = {} THEN c ELSE AllocateOp[<<F[u \ {Max(u)}], g[Max(u)]>>]]
  BY <1>5 DEF IsFold
<1>8. \A u \in SUBSET D : u # {} => u \ {Max(u)} \in SUBSET D /\ g[Max(u)] \in T
  <2> SUFFICES ASSUME NEW u \in SUBSET D, u # {}
               PROVE  u \ {Max(u)} \in SUBSET D /\ g[Max(u)] \in T
    OBVIOUS
  <2>1. Max(u) \in D
    BY <1>1, HasMax
  <2> QED
    BY <1>1, <2>1
<1>9. IsIter(F)
  <2>1. \A u \in SUBSET D : u # {} =>
          AllocateOp[<<F[u \ {Max(u)}], g[Max(u)]>>] = Next1(F[u \ {Max(u)}], g[Max(u)])
    <3> HIDE DEF D
    <3> QED
      BY <1>4, <1>6, <1>8
  <2> HIDE DEF D
  <2> QED
    BY <1>7, <2>1
<1>10. IsIter(Iter)
  <2> HIDE DEF IsIter
  <2> QED
    BY <1>9
<1> HIDE DEF Iter
<1>11. Iter[{}] = c
  BY <1>10
<1>12. ASSUME NEW u \in SUBSET D, u # {}, Iter[u \ {Max(u)}] \in S
       PROVE  Iter[u] = AllocateOp[<<Iter[u \ {Max(u)}], g[Max(u)]>>]
  <2>1. Iter[u] = Next1(Iter[u \ {Max(u)}], g[Max(u)])
    <3> HIDE DEF D
    <3> QED
      BY <1>10, <1>12
  <2>2. g[Max(u)] \in T
    BY <1>8, <1>12
  <2> QED
    BY <1>4, <1>12, <2>1, <2>2
<1>13. RunsTo(n, S, c, AllocateOp, g, Iter[D])
  <2>1. \A u \in SUBSET (1..n) : u # {} /\ Iter[u \ {Max(u)}] \in S =>
          Iter[u] = AllocateOp[<<Iter[u \ {Max(u)}], g[Max(u)]>>]
    BY <1>12
  <2>2. IsBuilt(Iter, n, S, c, AllocateOp, g)
    BY <1>11, <2>1 DEF IsBuilt
  <2>3. n \in Nat /\ c \in S /\ AllocateOp \in [S \X T -> S] /\ g \in [1..n -> T]
    BY <1>1, <1>3, <1>4
  <2> HIDE DEF IsIter
  <2> QED
    BY <2>2, <2>3, RunOfIter
<1> QED
  BY <1>2, <1>13 DEF S, T, g, n

\* The sum of a list whose end changes.
LEMMA SumOfEnd ==
  ASSUME NEW s \in Seq(Nat), NEW n \in Nat, Len(s) > 0
  PROVE  /\ SumOf(s) \in Nat /\ s[Len(s)] \in Nat
         /\ SumOf(Front(s)) = SumOf(s) - s[Len(s)]
         /\ SumOf([s EXCEPT ![Len(s)] = n]) = SumOf(s) + (n - s[Len(s)])
PROOF
<1> DEFINE f == Front(s)
           x == s[Len(s)]
           t == [s EXCEPT ![Len(s)] = n]
<1>1. f \in Seq(Nat) /\ x \in Nat /\ t \in Seq(Nat)
  BY EndOfList, Zenon
<1>2. s = Append(f, x)
  BY DEF Front
<1>3. t = Append(f, n)
  <2>1. /\ DOMAIN t = 1..Len(s) /\ \A i \in 1..Len(s) : t[i] = IF i = Len(s) THEN n ELSE s[i]
    OBVIOUS
  <2>2. Len(t) = Len(s)
    BY <1>1, <2>1
  <2>3. Len(f) = Len(s) - 1 /\ \A i \in 1..(Len(s) - 1) : f[i] = s[i]
    <3> DEFINE m == Len(s) - 1
    <3>1. m \in Nat /\ m <= Len(s)
      OBVIOUS
    <3>2. f = SubSeq(s, 1, m)
      BY DEF Front
    <3> HIDE DEF m, f
    <3>3. Len(f) = m /\ \A i \in 1..m : f[i] = s[i]
      BY <3>1, <3>2
    <3> QED
      BY <3>3 DEF m
  <2>4. Append(f, n) \in Seq(Nat) /\ Len(Append(f, n)) = Len(s)
    <3> HIDE DEF f
    <3> QED
      BY <1>1, <2>3
  <2>5. \A i \in 1..Len(s) : Append(f, n)[i] = IF i = Len(s) THEN n ELSE s[i]
    <3> HIDE DEF f
    <3> QED
      BY <1>1, <2>3
  <2> HIDE DEF f, t
  <2>6. \A i \in 1..Len(s) : Append(f, n)[i] = t[i]
    BY <2>1, <2>5
  <2> DEFINE a == Append(f, n)
  <2>7. a \in Seq(Nat) /\ Len(a) = Len(t) /\ \A i \in 1..Len(t) : t[i] = a[i]
    BY <2>2, <2>4, <2>6
  <2> HIDE DEF a
  <2>8. t = a
    BY <1>1, <2>7, SeqEqual
  <2> QED
    BY <2>8 DEF a
<1> HIDE DEF f, x, t
<1>4. SumOf(f) \in Nat /\ SumOf(Append(f, x)) = SumOf(f) + x /\ SumOf(Append(f, n)) = SumOf(f) + n
  BY <1>1, SumOfAppend, Zenon
<1>5. SumOf(s) = SumOf(f) + x /\ SumOf(t) = SumOf(f) + n
  BY <1>2, <1>3, <1>4, Zenon
<1> DEFINE ss == SumOf(s)
           sf == SumOf(f)
           st == SumOf(t)
<1>6. sf \in Nat /\ ss = sf + x /\ st = sf + n /\ x \in Nat
  BY <1>1, <1>4, <1>5, Zenon
<1> HIDE DEF ss, sf, st
<1>7. ss \in Nat /\ sf = ss - x /\ st = ss + (n - x)
  BY <1>6
<1> QED
  BY <1>1, <1>7, Zenon DEF ss, sf, st, f, x, t

\* The live blocks of a parse after an event, which do not depend on the counters.
OwnAfter(own, e) ==
  IF e[1] = "alloc" THEN Append(own, e[2])
  ELSE IF e[1] = "resize" /\ Len(own) > 0 THEN [own EXCEPT ![Len(own)] = e[2]]
  ELSE IF e[1] = "free" /\ Len(own) > 0 THEN Front(own) ELSE own

\* Between warm counters, or by an event that is not of a first use, the live count
\* moves by as much as the blocks of the parse do, and the peak follows it.
Follows(c, d) ==
  /\ d.live = c.live + (SumOf(d.own) - SumOf(c.own))
  /\ d.live <= d.peak /\ c.peak <= d.peak /\ (d.peak = c.peak \/ d.peak = d.live)
OwnStep(c, e, d) ==
  /\ d \in CounterStates /\ d.own = OwnAfter(c.own, e)
  /\ d.warm <=> c.warm \/ e[1] = "lazy"
  /\ (c.warm \/ e[1] # "lazy") /\ c.live <= c.peak => Follows(c, d)

\* One event changes the parse's own blocks as OwnAfter says and the counters with them.
LEMMA AllocateOwn ==
  ASSUME NEW c \in CounterStates, NEW e \in Events
  PROVE  OwnStep(c, e, Allocate(c, e))
PROOF
<1> DEFINE top == Len(c.own)
           n == e[2]
           old == c.own[top]
           up == c.live + n
           high == MaxOf(c.peak, up)
           moved == c.live + (n - old)
           crest == IF n >= old THEN MaxOf(c.peak, moved) ELSE c.peak
           down == c.live - old
           s1 == Append(c.own, n)
           s2 == [c.own EXCEPT ![top] = n]
           s3 == Front(c.own)
           d == Allocate(c, e)
           S(s) == SumOf(s)
<1>1. c.own \in Seq(Nat) /\ c.live \in Int /\ c.peak \in Int /\ c.warm \in Bools
  BY CountersExcept, Zenon
<1>2. top \in Nat /\ (top > 0 => s3 \in Seq(Nat) /\ old \in Nat)
  BY <1>1, EndOfList, 0 \in Nat
<1>3. n \in Nat => s1 \in Seq(Nat) /\ (top > 0 => s2 \in Seq(Nat))
  <2> HIDE DEF n
  <2> QED
    BY <1>1, EndOfList, Zenon
<1>4. n \in Nat => up \in Int /\ high \in Int /\ up <= high /\ c.peak <= high /\ (high = c.peak \/ high = up)
  BY <1>1 DEF MaxOf
<1>5. n \in Nat /\ top > 0 =>
        /\ moved \in Int /\ crest \in Int
        /\ c.live <= c.peak =>
             moved <= crest /\ c.peak <= crest /\ (crest = c.peak \/ crest = moved)
  <2>1. n \in Nat /\ top > 0 => moved \in Int /\ (~(n >= old) => moved <= c.live)
    <3> HIDE DEF n, old, top
    <3> QED
      BY <1>1, <1>2
  <2> HIDE DEF moved
  <2> QED
    BY <1>1, <2>1 DEF MaxOf
<1>6. top > 0 => down \in Int /\ down <= c.live
  BY <1>1, <1>2
<1>7. e[1] \in {"alloc", "resize", "lazy", "free"} /\ (e[1] # "free" => n \in Nat)
  BY EventKinds
<1>8. /\ e[1] = "alloc" => d = State(up, high, s1, c.warm)
      /\ e[1] = "lazy" => d = IF c.warm THEN c ELSE State(up, high, c.own, TRUE)
      /\ e[1] \in {"resize", "free"} /\ top = 0 => d = c
      /\ e[1] = "resize" /\ top > 0 => d = State(moved, crest, s2, c.warm)
      /\ e[1] = "free" /\ top > 0 => d = State(down, c.peak, s3, c.warm)
  BY AllocateCases, Zenon
<1>9. TRUE \in Bools
  BY DEF Bools
<1>10. /\ S(c.own) \in Nat
       /\ n \in Nat => S(s1) = S(c.own) + n
       /\ top > 0 => S(s3) = S(c.own) - old
       /\ n \in Nat /\ top > 0 => S(s2) = S(c.own) + (n - old)
  <2>1. 0 \in Nat
    OBVIOUS
  <2> HIDE DEF n
  <2>2. n \in Nat => S(s1) = S(c.own) + n
    BY <1>1, SumOfAppend, Zenon
  <2>3. S(c.own) \in Nat
    BY <1>1, <2>1, SumOfAppend, Zenon
  <2>4. top > 0 => S(s3) = S(c.own) - old
    BY <1>1, <2>1, SumOfEnd, Zenon
  <2>5. n \in Nat /\ top > 0 => S(s2) = S(c.own) + (n - old)
    BY <1>1, SumOfEnd, Zenon
  <2> QED
    BY <2>2, <2>3, <2>4, <2>5, Zenon
<1>11. /\ e[1] = "alloc" => OwnAfter(c.own, e) = s1
       /\ e[1] = "lazy" => OwnAfter(c.own, e) = c.own
       /\ e[1] = "resize" => OwnAfter(c.own, e) = IF top > 0 THEN s2 ELSE c.own
       /\ e[1] = "free" => OwnAfter(c.own, e) = IF top > 0 THEN s3 ELSE c.own
  BY DEF OwnAfter
<1>12. d \in CounterStates
  BY AllocateTyped
<1> SUFFICES OwnStep(c, e, d)
  OBVIOUS
<1> HIDE DEF top, n, old, up, high, moved, crest, down, s1, s2, s3, d
<1>13. ASSUME NEW x \in Int, NEW y \in Int, NEW s \in Seq(Nat), NEW b \in Bools, d = State(x, y, s, b)
       PROVE  d.live = x /\ d.peak = y /\ d.own = s /\ (d.warm <=> b)
  <2>1. HasParts(d, x, y, s, b)
    BY <1>13, StateParts, Zenon
  <2> QED
    BY <2>1, Zenon DEF HasParts
<1>14. CASE e[1] = "alloc"
  <2>1. d.live = up /\ d.peak = high /\ d.own = s1 /\ (d.warm <=> c.warm)
    BY <1>1, <1>3, <1>4, <1>7, <1>8, <1>13, <1>14
  <2>2. S(d.own) = S(c.own) + n
    BY <1>7, <1>10, <1>14, <2>1
  <2>3. Follows(c, d)
    <3>1. up = c.live + n
      BY DEF up
    <3>2. n \in Nat
      BY <1>7, <1>14
    <3> QED
      BY <1>1, <1>4, <1>10, <2>1, <2>2, <3>1, <3>2 DEF Follows
  <2>4. e[1] # "lazy" /\ d.own = OwnAfter(c.own, e)
    BY <1>11, <1>14, <2>1
  <2> QED
    BY <1>12, <2>1, <2>3, <2>4, Zenon DEF OwnStep
<1>15. CASE e[1] = "lazy"
  <2>1. CASE c.warm
    <3>1. d = c
      BY <1>8, <1>15, <2>1
    <3>2. c.live <= c.peak => Follows(c, c)
      BY <1>1, <1>10 DEF Follows
    <3>3. d.own = OwnAfter(c.own, e)
      BY <1>11, <1>15, <3>1, Zenon
    <3> QED
      BY <1>12, <1>15, <2>1, <3>1, <3>2, <3>3, Zenon DEF OwnStep
  <2>2. CASE ~c.warm
    <3>1. d = State(up, high, c.own, TRUE)
      BY <1>8, <1>15, <2>2
    <3>2. d.own = c.own /\ d.warm
      BY <1>1, <1>4, <1>7, <1>9, <1>13, <1>15, <3>1
    <3>3. d.own = OwnAfter(c.own, e)
      BY <1>11, <1>15, <3>2, Zenon
    <3> QED
      BY <1>12, <1>15, <2>2, <3>2, <3>3, Zenon DEF OwnStep
  <2> QED
    BY <2>1, <2>2
<1>16. CASE e[1] \in {"resize", "free"} /\ top = 0
  <2>1. d = c
    BY <1>8, <1>16
  <2>2. c.live <= c.peak => Follows(c, c)
    BY <1>1, <1>10 DEF Follows
  <2>3. OwnAfter(c.own, e) = c.own /\ e[1] # "lazy"
    BY <1>11, <1>16
  <2> QED
    BY <1>12, <2>1, <2>2, <2>3, Zenon DEF OwnStep
<1>17. CASE e[1] = "resize" /\ top > 0
  <2>1. d.live = moved /\ d.peak = crest /\ d.own = s2 /\ (d.warm <=> c.warm)
    BY <1>1, <1>3, <1>5, <1>7, <1>8, <1>13, <1>17
  <2>2. S(d.own) = S(c.own) + (n - old) /\ n \in Nat /\ old \in Nat
    BY <1>2, <1>7, <1>10, <1>17, <2>1
  <2>3. c.live <= c.peak => Follows(c, d)
    <3>1. moved = c.live + (n - old)
      BY DEF moved
    <3> QED
      BY <1>1, <1>5, <1>10, <1>17, <2>1, <2>2, <3>1 DEF Follows
  <2>4. e[1] # "lazy" /\ d.own = OwnAfter(c.own, e)
    BY <1>11, <1>17, <2>1
  <2> QED
    BY <1>12, <2>1, <2>3, <2>4, Zenon DEF OwnStep
<1>18. CASE e[1] = "free" /\ top > 0
  <2>1. d.live = down /\ d.peak = c.peak /\ d.own = s3 /\ (d.warm <=> c.warm)
    BY <1>1, <1>2, <1>6, <1>8, <1>13, <1>18
  <2>2. S(d.own) = S(c.own) - old /\ old \in Nat
    BY <1>2, <1>10, <1>18, <2>1
  <2>3. c.live <= c.peak => Follows(c, d)
    <3>1. down = c.live - old
      BY DEF down
    <3> QED
      BY <1>1, <1>6, <1>10, <1>18, <2>1, <2>2, <3>1 DEF Follows
  <2>4. e[1] # "lazy" /\ d.own = OwnAfter(c.own, e)
    BY <1>11, <1>18, <2>1
  <2> QED
    BY <1>12, <2>1, <2>3, <2>4, Zenon DEF OwnStep
<1> QED
  BY <1>2, <1>7, <1>14, <1>15, <1>16, <1>17, <1>18

IsWindow(A, s) == IsRun(A, Len(s), CounterStates, A[0], AllocateOp, s)

\* Every step of a window is what one event does.
LEMMA WindowSteps ==
  ASSUME NEW s \in Seq(Events), NEW A, IsWindow(A, s)
  PROVE  /\ \A i \in 0..Len(s) : A[i] \in CounterStates
         /\ \A i \in 1..Len(s) : OwnStep(A[i - 1], s[i], A[i])
PROOF
<1>1. A \in [0..Len(s) -> CounterStates] /\ \A i \in 1..Len(s) : A[i] = AllocateOp[<<A[i - 1], s[i]>>]
  BY Zenon DEF IsWindow, IsRun
<1>2. Len(s) \in Nat
  OBVIOUS
<1>3. ASSUME NEW i \in 1..Len(s) PROVE OwnStep(A[i - 1], s[i], A[i])
  <2>1. i - 1 \in 0..Len(s)
    BY <1>2
  <2>2. A[i - 1] \in CounterStates /\ s[i] \in Events
    BY <1>1, <2>1
  <2>3. AllocateOp[<<A[i - 1], s[i]>>] = Allocate(A[i - 1], s[i])
    <3> DEFINE a == A[i - 1]
               e == s[i]
    <3> HIDE DEF a, e
    <3>1. \A x \in CounterStates, y \in Events : AllocateOp[<<x, y>>] = Allocate(x, y)
      BY DEF AllocateOp
    <3> QED
      BY <2>2, <3>1
  <2>4. OwnStep(A[i - 1], s[i], Allocate(A[i - 1], s[i]))
    BY <2>2, AllocateOwn, Zenon
  <2> QED
    BY <1>1, <2>3, <2>4, Zenon
<1>4. \A i \in 0..Len(s) : A[i] \in CounterStates
  BY <1>1
<1> QED
  BY <1>3, <1>4

\* The blocks of a parse are the same whatever the counters were before it.
LEMMA SameOwn ==
  ASSUME NEW s \in Seq(Events), NEW A, NEW B, IsWindow(A, s), IsWindow(B, s), A[0].own = B[0].own
  PROVE  \A i \in 0..Len(s) : A[i].own = B[i].own
PROOF
<1> DEFINE E == {i \in 0..Len(s) : A[i].own = B[i].own}
<1>1. Len(s) \in Nat /\ 0 \in E
  OBVIOUS
<1>2. ASSUME NEW i \in 1..Len(s), i - 1 \in E PROVE i \in E
  <2>1. A[i - 1].own = B[i - 1].own /\ i \in 0..Len(s)
    BY <1>2
  <2>2. A[i].own = OwnAfter(A[i - 1].own, s[i]) /\ B[i].own = OwnAfter(B[i - 1].own, s[i])
    BY WindowSteps, Zenon DEF OwnStep
  <2> QED
    BY <2>1, <2>2
<1>3. 0..Len(s) \subseteq E
  <2> HIDE DEF E
  <2> QED
    BY <1>1, <1>2, UpTo
<1> QED
  BY <1>3

\* Only the events of a first use change whether there was one.
FirstUse(s, i) == \E j \in 1..i : s[j][1] = "lazy"
LEMMA WarmAfter ==
  ASSUME NEW s \in Seq(Events), NEW A, IsWindow(A, s)
  PROVE  \A i \in 0..Len(s) : A[i].warm <=> A[0].warm \/ FirstUse(s, i)
PROOF
<1> DEFINE E == {i \in 0..Len(s) : A[i].warm <=> A[0].warm \/ FirstUse(s, i)}
<1>1. Len(s) \in Nat /\ 0 \in 0..Len(s)
  OBVIOUS
<1>2. ~FirstUse(s, 0)
  BY DEF FirstUse
<1>3. 0 \in E
  BY <1>1, <1>2, Zenon
<1>4. ASSUME NEW i \in 1..Len(s), i - 1 \in E PROVE i \in E
  <2>1. (A[i - 1].warm <=> A[0].warm \/ FirstUse(s, i - 1)) /\ i \in 0..Len(s)
    <3>1. i \in 0..Len(s)
      OBVIOUS
    <3> QED
      BY <1>4, <3>1, Zenon
  <2>2. A[i].warm <=> A[i - 1].warm \/ s[i][1] = "lazy"
    BY WindowSteps, Zenon DEF OwnStep
  <2>3. FirstUse(s, i) <=> FirstUse(s, i - 1) \/ s[i][1] = "lazy"
    <3>1. \A j : j \in 1..i <=> j \in 1..(i - 1) \/ j = i
      OBVIOUS
    <3> QED
      BY <3>1, Zenon DEF FirstUse
  <2> QED
    BY <2>1, <2>2, <2>3, Zenon
<1>5. 0..Len(s) \subseteq E
  <2> HIDE DEF E
  <2> QED
    BY <1>1, <1>3, <1>4, UpTo
<1> QED
  BY <1>5, Zenon

\* In a window without a first use the live count is what it was and the blocks of the
\* parse, and the peak is the highest of that so far.
Quiet(s, A) == A[0].warm \/ ~FirstUse(s, Len(s))
LEMMA QuietWindow ==
  ASSUME NEW s \in Seq(Events), NEW A, IsWindow(A, s), Quiet(s, A),
         A[0].own = <<>>, A[0].peak = A[0].live,
         NEW f \in [0..Len(s) -> Nat], \A i \in 0..Len(s) : f[i] = SumOf(A[i].own)
  PROVE  /\ A[Len(s)].live = A[0].live + f[Len(s)]
         /\ \A j \in 0..Len(s) : A[0].live + f[j] <= A[Len(s)].peak
         /\ \E j \in 0..Len(s) : A[Len(s)].peak = A[0].live + f[j]
PROOF
<1> DEFINE L == A[0].live
           Good(i) == /\ A[i].live = L + f[i] /\ A[i].live <= A[i].peak
                      /\ \A j \in 0..i : L + f[j] <= A[i].peak
                      /\ \E j \in 0..i : A[i].peak = L + f[j]
           E == {i \in 0..Len(s) : Good(i)}
<1>1. Len(s) \in Nat /\ 0 \in 0..Len(s) /\ Len(s) \in 0..Len(s)
  OBVIOUS
<1>2. \A i \in 0..Len(s) : A[i].live \in Int /\ A[i].peak \in Int
  BY WindowSteps, CountersExcept, Zenon
<1>3. L \in Int
  BY <1>1, <1>2
<1>4. f[0] = 0
  BY <1>1, SumOfNone
<1>5. Good(0)
  BY <1>1, <1>3, <1>4
<1>6. ASSUME NEW i \in 1..Len(s), i - 1 \in E PROVE i \in E
  <2>1. i \in 0..Len(s) /\ i - 1 \in 0..Len(s) /\ i \in Nat /\ i \in 0..i
        /\ \A j \in 0..i : j \in 0..(i - 1) \/ j = i
    BY <1>1
  <2>2. A[i - 1].warm \/ s[i][1] # "lazy"
    <3>1. A[i - 1].warm <=> A[0].warm \/ FirstUse(s, i - 1)
      BY <2>1, WarmAfter, Zenon
    <3>2. ~FirstUse(s, Len(s)) => s[i][1] # "lazy"
      BY DEF FirstUse
    <3> QED
      BY <3>1, <3>2, Zenon DEF Quiet
  <2>3. Good(i - 1)
    BY <1>6
  <2>4. Follows(A[i - 1], A[i])
    BY <2>2, <2>3, WindowSteps, Zenon DEF OwnStep
  <2>5. /\ A[i].live = A[i - 1].live + (f[i] - f[i - 1])
        /\ A[i].live <= A[i].peak /\ A[i - 1].peak <= A[i].peak
        /\ A[i].peak = A[i - 1].peak \/ A[i].peak = A[i].live
    BY <2>1, <2>4, Zenon DEF Follows
  <2>6. f[i] \in Nat /\ f[i - 1] \in Nat /\ \A j \in 0..i : f[j] \in Nat
    BY <2>1
  <2>7. /\ A[i].live \in Int /\ A[i].peak \in Int
        /\ A[i - 1].live \in Int /\ A[i - 1].peak \in Int
    BY <1>2, <2>1
  <2>8. A[i].live = L + f[i]
    <3> DEFINE x == A[i].live
               y == A[i - 1].live
               u == f[i]
               v == f[i - 1]
    <3>1. x = y + (u - v) /\ y = L + v /\ L \in Int /\ u \in Nat /\ v \in Nat
      BY <1>3, <2>3, <2>5, <2>6, Zenon
    <3> HIDE DEF x, y, u, v, L
    <3>2. x = L + u
      BY <3>1
    <3> QED
      BY <3>2, Zenon DEF x, u, L
  <2>9. \A j \in 0..i : L + f[j] <= A[i].peak
    <3> SUFFICES ASSUME NEW j \in 0..i PROVE L + f[j] <= A[i].peak
      OBVIOUS
    <3>1. CASE j = i
      BY <2>5, <2>8, <3>1
    <3>2. CASE j \in 0..(i - 1)
      <4>1. L + f[j] <= A[i - 1].peak
        BY <2>3, <3>2
      <4> DEFINE x == L + f[j]
      <4>2. x \in Int
        BY <1>3, <2>6
      <4> HIDE DEF x
      <4>3. x <= A[i - 1].peak
        BY <4>1, Zenon DEF x
      <4>4. x <= A[i].peak
        BY <2>5, <2>7, <4>2, <4>3
      <4> QED
        BY <4>4, Zenon DEF x
    <3> QED
      BY <2>1, <3>1, <3>2
  <2>10. \E j \in 0..i : A[i].peak = L + f[j]
    <3>1. CASE A[i].peak = A[i].live
      BY <2>1, <2>8, <3>1, Zenon
    <3>2. CASE A[i].peak = A[i - 1].peak
      <4>1. PICK j \in 0..(i - 1) : A[i - 1].peak = L + f[j]
        BY <2>3, Zenon
      <4>2. j \in 0..i
        OBVIOUS
      <4> QED
        BY <3>2, <4>1, <4>2, Zenon
    <3> QED
      BY <2>5, <3>1, <3>2, Zenon
  <2> QED
    BY <2>1, <2>5, <2>8, <2>9, <2>10, Zenon
<1>7. 0..Len(s) \subseteq E
  <2>1. 0 \in E
    BY <1>1, <1>5, Zenon
  <2> HIDE DEF E
  <2> QED
    BY <1>1, <1>6, <2>1, UpTo
<1> QED
  BY <1>1, <1>7, Zenon

\* The largest number of a set is the one that is in it and below none of it.
LEMMA MaxIs ==
  ASSUME NEW S \in SUBSET Int, NEW x \in S, \A y \in S : y <= x
  PROVE  Max(S) = x
PROOF
<1> DEFINE m == CHOOSE y \in S : \A z \in S : y >= z
<1>1. m \in S /\ \A z \in S : m >= z
  <2>1. \A z \in S : x >= z
    OBVIOUS
  <2> QED
    BY <2>1, Zenon
<1>2. Max(S) = m
  BY DEF Max
<1> HIDE DEF m
<1> QED
  BY <1>1, <1>2

\* The counters of a process in which something was parsed before.
WarmCounters == [Counters EXCEPT !.warm = TRUE]
LEMMA FreshIs == HasParts(WarmCounters, 0, 0, <<>>, TRUE)
PROOF
<1>1. 0 \in Int /\ <<>> \in Seq(Nat)
  OBVIOUS
<1>2. TRUE \in Bools /\ FALSE \in Bools
  BY DEF Bools
<1>3. Counters = State(0, 0, <<>>, FALSE)
  BY Zenon DEF Counters, State
<1>4. HasParts(Counters, 0, 0, <<>>, FALSE)
  BY <1>1, <1>2, <1>3, StateParts, Zenon
<1>5. Counters \in CounterStates /\ Counters.live = 0 /\ Counters.peak = 0 /\ Counters.own = <<>>
  BY <1>4, Zenon DEF HasParts
<1>6. WarmCounters = State(0, 0, <<>>, TRUE)
  BY <1>5, CountersExcept, Zenon DEF WarmCounters
<1> QED
  BY <1>1, <1>2, <1>6, StateParts, Zenon

\* The sum of the live blocks of a parse after i of its events.
OwnSum(s, i) == SumOf(FoldLeft(Allocate, WarmCounters, SubSeq(s, 1, i)).own)

\* The sum that a report is compared with is the size of the blocks the parse holds at that event.
LEMMA OwnSumIs ==
  ASSUME NEW s \in Seq(Events), NEW A, IsWindow(A, s), A[0].own = <<>>, NEW i \in 0..Len(s)
  PROVE  OwnSum(s, i) = SumOf(A[i].own) /\ OwnSum(s, i) \in Nat
PROOF
<1> DEFINE p == SubSeq(s, 1, i)
<1>1. /\ p \in Seq(Events) /\ Len(p) = i /\ i \in Nat /\ Len(s) \in Nat /\ i <= Len(s)
      /\ \A j \in 1..i : p[j] = s[j]
  OBVIOUS
<1>2. WarmCounters \in CounterStates /\ WarmCounters.own = <<>>
  BY FreshIs, Zenon DEF HasParts
<1> HIDE DEF p
<1>3. PICK B : IsRun(B, Len(p), CounterStates, WarmCounters, AllocateOp, p)
               /\ B[Len(p)] = FoldLeft(Allocate, WarmCounters, p)
  BY <1>1, <1>2, AllocateSteps, Zenon DEF RunsTo
<1>4. PICK C : IsRun(C, Len(s), CounterStates, WarmCounters, AllocateOp, s)
  BY <1>2, AllocateSteps, Zenon DEF RunsTo
<1>5. B[i] = C[i]
  <2>1. IsRun(B, i, CounterStates, WarmCounters, AllocateOp, p)
    BY <1>1, <1>3, Zenon
  <2>2. \A j \in 0..i : B[j] = C[j]
    <3>1. i <= i /\ i \in Nat /\ Len(s) \in Nat /\ i <= Len(s)
      BY <1>1
    <3>2. IsRun(C, Len(s), CounterStates, WarmCounters, AllocateOp, s)
      BY <1>4, Zenon
    <3>3. \A j \in 1..i : p[j] = s[j]
      BY <1>1, Zenon
    <3> QED
      BY <2>1, <3>1, <3>2, <3>3, RunsAgree
  <2>3. i \in 0..i
    BY <1>1
  <2> QED
    BY <2>2, <2>3, Zenon
<1>6. C[0] = WarmCounters /\ IsWindow(C, s)
  BY <1>4, Zenon DEF IsRun, IsWindow
<1>7. C[i].own = A[i].own
  <2>1. A[0].own = C[0].own
    BY <1>2, <1>6, Zenon
  <2> QED
    BY <1>6, <2>1, SameOwn, Zenon
<1>8. OwnSum(s, i) = SumOf(A[i].own)
  <2>1. FoldLeft(Allocate, WarmCounters, p) = C[i]
    BY <1>1, <1>3, <1>5, Zenon
  <2>2. OwnSum(s, i) = SumOf(FoldLeft(Allocate, WarmCounters, p).own)
    BY Zenon DEF OwnSum, p
  <2> QED
    BY <1>7, <2>1, <2>2, Zenon
<1>9. SumOf(A[i].own) \in Nat
  <2>1. A[i].own \in Seq(Nat)
    BY WindowSteps, CountersExcept, Zenon
  <2>2. 0 \in Nat
    OBVIOUS
  <2> QED
    BY <2>1, <2>2, SumOfAppend, Zenon
<1> QED
  BY <1>8, <1>9, Zenon

\* What a window reports of a parse, and what it leaves to the next one.
HasFirstUse(s) == \E j \in DOMAIN s : s[j][1] = "lazy"
Reports(c, s, r) ==
  /\ r.counters \in CounterStates /\ r.counters.own = <<>>
  /\ r.counters.warm <=> c.warm \/ HasFirstUse(s)
  /\ c.warm \/ ~HasFirstUse(s) => /\ r.peak = Max({OwnSum(s, i) : i \in 0..Len(s)})
                                 /\ r.retained = OwnSum(s, Len(s))

\* Dropping the result releases every block of the parse and keeps the process warm.
LEMMA DropAllIs ==
  ASSUME NEW c \in CounterStates
  PROVE  DropAll(c) \in CounterStates /\ DropAll(c).own = <<>> /\ (DropAll(c).warm <=> c.warm)
PROOF
<1> DEFINE k == SumOf(c.own)
           d == RecordDealloc(c, k)
           x == c.live - k
<1>1. c.own \in Seq(Nat) /\ c.peak \in Int /\ c.warm \in Bools
  BY CountersExcept, Zenon
<1>2. k \in Nat /\ 0 \in Nat
  BY <1>1, SumOfAppend
<1>3. k \in Int
  BY <1>2
<1>4. d = State(x, c.peak, c.own, c.warm) /\ x \in Int
  BY <1>3, RecordParts, Zenon
<1>5. DropAll(c) = [d EXCEPT !.own = <<>>]
  BY Zenon DEF DropAll
<1> HIDE DEF k, d, x
<1>6. HasParts(State(x, c.peak, c.own, c.warm), x, c.peak, c.own, c.warm)
  BY <1>1, <1>4, StateParts, Zenon
<1>7. d \in CounterStates /\ (d.warm <=> c.warm) /\ d.warm \in Bools /\ d.peak \in Int /\ d.live \in Int
  <2>1. d \in CounterStates /\ (d.warm <=> c.warm)
    BY <1>4, <1>6, Zenon DEF HasParts
  <2> QED
    BY <2>1, CountersExcept, Zenon
<1>8. <<>> \in Seq(Nat)
  OBVIOUS
<1>9. [d EXCEPT !.own = <<>>] = State(d.live, d.peak, <<>>, d.warm)
  BY <1>7, <1>8, CountersExcept, Zenon
<1>10. HasParts(State(d.live, d.peak, <<>>, d.warm), d.live, d.peak, <<>>, d.warm)
  BY <1>7, <1>8, StateParts, Zenon
<1> QED
  BY <1>5, <1>7, <1>9, <1>10, Zenon DEF HasParts

\* A window reports the peak and the rest of the parse's own blocks, unless a first use falls in it.
LEMMA MeasureReports ==
  ASSUME NEW c \in CounterStates, c.own = <<>>, NEW s \in Seq(Events)
  PROVE  Reports(c, s, Measure(c, s))
PROOF
<1> DEFINE z == ResetPeak(c)
           after == FoldLeft(Allocate, z, s)
           r == Measure(c, s)
           n == Len(s)
           peak == Saturating(after.peak, c.live)
           rest == Saturating(after.live, c.live)
           drop == DropAll(after)
<1>0. n \in Nat /\ n \in 0..n
  OBVIOUS
<1>1. c.live \in Int /\ c.warm \in Bools /\ c.own \in Seq(Nat) /\ n \in Nat /\ n \in 0..n
  BY <1>0, CountersExcept, Zenon
<1>2. z = State(c.live, c.live, c.own, c.warm)
  BY <1>1, CountersExcept, Zenon DEF ResetPeak
<1>3. HasParts(z, c.live, c.live, c.own, c.warm)
  BY <1>1, <1>2, StateParts, Zenon
<1>4. z \in CounterStates /\ z.live = c.live /\ z.peak = c.live /\ z.own = <<>> /\ (z.warm <=> c.warm)
  BY <1>3, Zenon DEF HasParts
<1>5. r = [peak |-> peak, retained |-> rest, counters |-> drop]
  BY Zenon DEF Measure
<1>6. r.peak = peak /\ r.retained = rest /\ r.counters = drop
  <2> HIDE DEF peak, rest, drop, r
  <2> QED
    BY <1>5
<1> HIDE DEF z, r, drop
<1>7. PICK A : IsRun(A, n, CounterStates, z, AllocateOp, s) /\ A[n] = after
  BY <1>4, AllocateSteps, Zenon DEF RunsTo
<1>8. A[0] = z /\ IsWindow(A, s)
  BY <1>7, Zenon DEF IsRun, IsWindow
<1>9. after \in CounterStates
  BY <1>1, <1>7, <1>8, WindowSteps, Zenon
<1>10. HasFirstUse(s) <=> FirstUse(s, n)
  BY DEF HasFirstUse, FirstUse
<1>11. after.warm <=> c.warm \/ HasFirstUse(s)
  BY <1>1, <1>4, <1>7, <1>8, <1>10, WarmAfter, Zenon
<1>12. drop \in CounterStates /\ drop.own = <<>> /\ (drop.warm <=> after.warm)
  BY <1>9, DropAllIs, Zenon DEF drop
<1>13. ASSUME c.warm \/ ~HasFirstUse(s)
       PROVE  peak = Max({OwnSum(s, i) : i \in 0..n}) /\ rest = OwnSum(s, n)
  <2> DEFINE f == [i \in 0..n |-> OwnSum(s, i)]
             L == c.live
             all == {OwnSum(s, i) : i \in 0..n}
             h == after.peak - L
  <2>1. \A i \in 0..n : OwnSum(s, i) = SumOf(A[i].own) /\ OwnSum(s, i) \in Nat
    BY <1>4, <1>8, OwnSumIs, Zenon
  <2>2. f \in [0..n -> Nat] /\ \A i \in 0..n : f[i] = SumOf(A[i].own)
    BY <2>1, Zenon
  <2>3. Quiet(s, A)
    BY <1>4, <1>8, <1>10, <1>13, Zenon DEF Quiet
  <2>4. A[0].own = <<>> /\ A[0].peak = A[0].live /\ A[0].live = L
    BY <1>4, <1>8, Zenon
  <2>5. /\ A[n].live = A[0].live + f[n]
        /\ \A j \in 0..n : A[0].live + f[j] <= A[n].peak
        /\ \E j \in 0..n : A[n].peak = A[0].live + f[j]
    <3> HIDE DEF f
    <3> QED
      BY <1>8, <2>2, <2>3, <2>4, QuietWindow, Zenon
  <2>6. /\ after.live = L + f[n]
        /\ \A j \in 0..n : L + f[j] <= after.peak
        /\ \E j \in 0..n : after.peak = L + f[j]
    BY <1>7, <2>4, <2>5, Zenon
  <2>7. L \in Int /\ after.peak \in Int /\ after.live \in Int
    BY <1>1, <1>9, CountersExcept, Zenon
  <2>8. \A i \in 0..n : f[i] \in Nat /\ f[i] = OwnSum(s, i)
    BY <2>1, Zenon
  <2> HIDE DEF f, L, after
  <2>9. rest = OwnSum(s, n)
    <3>1. rest = f[n]
      BY <1>1, <2>6, <2>7, <2>8 DEF Saturating, L
    <3> QED
      BY <1>1, <2>8, <3>1, Zenon
  <2>10. peak = h /\ h \in Int
    <3>1. L + f[n] <= after.peak
      BY <1>1, <2>6
    <3> QED
      BY <1>1, <2>7, <2>8, <3>1 DEF Saturating, L
  <2>11. h \in all
    <3>1. PICK j \in 0..n : after.peak = L + f[j]
      BY <2>6, Zenon
    <3>2. h = f[j]
      BY <2>7, <2>8, <3>1
    <3> QED
      BY <2>8, <3>2, Zenon
  <2>12. \A y \in all : y <= h
    <3> SUFFICES ASSUME NEW j \in 0..n PROVE OwnSum(s, j) <= h
      BY Zenon
    <3>1. f[j] <= h
      BY <2>6, <2>7, <2>8
    <3> QED
      BY <2>8, <3>1, Zenon
  <2>13. all \in SUBSET Int
    <3>1. \A i \in 0..n : OwnSum(s, i) \in Int
      BY <2>1
    <3> QED
      BY <3>1, Zenon
  <2> HIDE DEF h, all
  <2>14. Max(all) = h
    BY <2>11, <2>12, <2>13, MaxIs, Zenon
  <2> QED
    BY <2>9, <2>10, <2>14, Zenon DEF all
<1> HIDE DEF peak, rest, after
<1>14. Reports(c, s, r)
  BY <1>6, <1>11, <1>12, <1>13, Zenon DEF Reports
<1> QED
  BY <1>14, Zenon DEF r

\* The statements of a run, from what it is fed.
Fed == Events \cup {<<"next">>}
Runs == {lst \in Seq(Seq(Events)) : Len(lst) > 0}
Divided(lst, e) ==
  IF e = <<"next">> THEN Append(lst, <<>>) ELSE [lst EXCEPT ![Len(lst)] = Append(@, e)]

\* One more line of the child's output leaves a list of statements' events.
LEMMA DividedTyped ==
  ASSUME NEW lst \in Runs, NEW e \in Fed
  PROVE  Divided(lst, e) \in Runs
PROOF
<1>1. lst \in Seq(Seq(Events)) /\ Len(lst) > 0 /\ Len(lst) \in Nat /\ Len(lst) \in 1..Len(lst)
  BY DEF Runs
<1>2. CASE e = <<"next">>
  <2> DEFINE t == <<>>
             T == Seq(Events)
  <2>1. t \in T
    OBVIOUS
  <2>2. Divided(lst, e) = Append(lst, t)
    BY <1>2 DEF Divided
  <2> HIDE DEF t, T
  <2>3. Append(lst, t) \in Seq(T) /\ Len(Append(lst, t)) > 0
    <3>1. lst \in Seq(T)
      BY <1>1, Zenon DEF T
    <3> QED
      BY <1>1, <2>1, <3>1
  <2> QED
    BY <2>2, <2>3, Zenon DEF Runs, T
<1>3. CASE e # <<"next">>
  <2> DEFINE T == Seq(Events)
             m == Len(lst)
             t == Append(lst[m], e)
             new == [lst EXCEPT ![m] = t]
  <2>1. e \in Events
    BY <1>3 DEF Fed
  <2>2. lst[m] \in T
    BY <1>1
  <2>3. t \in T
    BY <2>1, <2>2
  <2>4. Divided(lst, e) = new
    BY <1>3, Zenon DEF Divided
  <2> HIDE DEF t, T
  <2>5. new \in Seq(T)
    <3>1. lst \in Seq(T)
      BY <1>1, Zenon DEF T
    <3> QED
      BY <1>1, <2>3, <3>1, ExceptSeq
  <2>6. Len(new) = Len(lst)
    <3>1. lst \in Seq(T)
      BY <1>1, Zenon DEF T
    <3> QED
      BY <1>1, <2>3, <3>1, ExceptSeq
  <2> HIDE DEF new
  <2>7. Len(new) > 0
    BY <1>1, <2>6
  <2> QED
    BY <2>4, <2>5, <2>7, Zenon DEF Runs, T
<1> QED
  BY <1>2, <1>3

DividedOp == [x \in Runs \X Fed |-> Divided(x[1], x[2])]

\* Dividing the events into statements is a run of one line at a time.
LEMMA DividedSteps ==
  ASSUME NEW s \in Seq(Fed)
  PROVE  RunsTo(Len(s), Runs, <<<<>>>>, DividedOp, s, StatementsOf(s))
PROOF
<1> DEFINE n == Len(s)
           D == 1..n
           S == Runs
           T == Fed
           g == s
           Next1(a, e) == Divided(a, e)
           IsIter(f) == f = [u \in SUBSET D |->
             IF u = {} THEN <<<<>>>> ELSE Next1(f[u \ {Max(u)}], g[Max(u)])]
           Iter == CHOOSE f : IsIter(f)
<1>1. n \in Nat /\ DOMAIN g = D /\ g \in [D -> T]
  OBVIOUS
<1>2. StatementsOf(s) = Iter[D]
  <2>1. StatementsOf(s)
          = (CHOOSE f : f = [u \in SUBSET DOMAIN g |->
               IF u = {} THEN <<<<>>>> ELSE Next1(f[u \ {Max(u)}], g[Max(u)])])[DOMAIN g]
    BY DEF StatementsOf, Divided, FoldLeft, MapThenFoldSet
  <2> HIDE DEF D, g, Next1
  <2> QED
    BY <1>1, <2>1
<1>3. <<<<>>>> \in S /\ \A a \in S, e \in T : Next1(a, e) \in S
  <2>1. <<<<>>>> \in Runs
    <3> DEFINE t == <<>>
               T0 == Seq(Events)
    <3>1. t \in T0
      OBVIOUS
    <3> HIDE DEF t, T0
    <3>2. <<t>> \in Seq(T0) /\ Len(<<t>>) > 0
      BY <3>1
    <3> QED
      BY <3>2, Zenon DEF t, T0, Runs
  <2> QED
    BY <2>1, DividedTyped
<1>4. DividedOp \in [S \X T -> S] /\ \A a \in S, e \in T : DividedOp[<<a, e>>] = Next1(a, e)
  <2>1. DividedOp = [x \in S \X T |-> Next1(x[1], x[2])]
    BY DEF DividedOp
  <2> HIDE DEF S, T, Next1
  <2> QED
    BY <1>3, <2>1
<1> HIDE DEF S, T, g, n, Next1
<1>5. PICK F : IsFold(F, n, S, <<<<>>>>, DividedOp, g)
  BY <1>1, <1>3, <1>4, FoldExists
<1>6. F \in [SUBSET D -> S]
  BY <1>5 DEF IsFold
<1>7. F = [u \in SUBSET D |->
             IF u = {} THEN <<<<>>>> ELSE DividedOp[<<F[u \ {Max(u)}], g[Max(u)]>>]]
  BY <1>5 DEF IsFold
<1>8. \A u \in SUBSET D : u # {} => u \ {Max(u)} \in SUBSET D /\ g[Max(u)] \in T
  <2> SUFFICES ASSUME NEW u \in SUBSET D, u # {}
               PROVE  u \ {Max(u)} \in SUBSET D /\ g[Max(u)] \in T
    OBVIOUS
  <2>1. Max(u) \in D
    BY <1>1, HasMax
  <2> QED
    BY <1>1, <2>1
<1>9. IsIter(F)
  <2>1. \A u \in SUBSET D : u # {} =>
          DividedOp[<<F[u \ {Max(u)}], g[Max(u)]>>] = Next1(F[u \ {Max(u)}], g[Max(u)])
    <3> HIDE DEF D
    <3> QED
      BY <1>4, <1>6, <1>8
  <2> HIDE DEF D
  <2> QED
    BY <1>7, <2>1
<1>10. IsIter(Iter)
  <2> HIDE DEF IsIter
  <2> QED
    BY <1>9
<1> HIDE DEF Iter
<1>11. Iter[{}] = <<<<>>>>
  BY <1>10
<1>12. ASSUME NEW u \in SUBSET D, u # {}, Iter[u \ {Max(u)}] \in S
       PROVE  Iter[u] = DividedOp[<<Iter[u \ {Max(u)}], g[Max(u)]>>]
  <2>1. Iter[u] = Next1(Iter[u \ {Max(u)}], g[Max(u)])
    <3> HIDE DEF D
    <3> QED
      BY <1>10, <1>12
  <2>2. g[Max(u)] \in T
    BY <1>8, <1>12
  <2> QED
    BY <1>4, <1>12, <2>1, <2>2
<1>13. RunsTo(n, S, <<<<>>>>, DividedOp, g, Iter[D])
  <2>1. \A u \in SUBSET (1..n) : u # {} /\ Iter[u \ {Max(u)}] \in S =>
          Iter[u] = DividedOp[<<Iter[u \ {Max(u)}], g[Max(u)]>>]
    BY <1>12
  <2>2. IsBuilt(Iter, n, S, <<<<>>>>, DividedOp, g)
    BY <1>11, <2>1 DEF IsBuilt
  <2>3. n \in Nat /\ <<<<>>>> \in S /\ DividedOp \in [S \X T -> S] /\ g \in [1..n -> T]
    BY <1>1, <1>3, <1>4
  <2> HIDE DEF IsIter
  <2> QED
    BY <2>2, <2>3, RunOfIter
<1> QED
  BY <1>2, <1>13 DEF S, T, g, n

\* There is at least one, and their events are those of the alphabet.
LEMMA StatementsTyped ==
  ASSUME NEW s \in Seq(Fed)
  PROVE  StatementsOf(s) \in Seq(Seq(Events)) /\ Len(StatementsOf(s)) > 0
PROOF
<1>1. PICK A : IsRun(A, Len(s), Runs, <<<<>>>>, DividedOp, s) /\ A[Len(s)] = StatementsOf(s)
  BY DividedSteps, Zenon DEF RunsTo
<1>2. A \in [0..Len(s) -> Runs]
  BY <1>1, Zenon DEF IsRun
<1>3. Len(s) \in 0..Len(s)
  OBVIOUS
<1>4. StatementsOf(s) \in Runs
  BY <1>1, <1>2, <1>3
<1> QED
  BY <1>4, Zenon DEF Runs

\* The counters between two windows, and what a run has reported so far.
Idle == {c \in CounterStates : c.own = <<>>}
RunStates == [counters : Idle, out : Seq(Nat \X Nat)]
NextWindow(s, events) ==
  [counters |-> Measure(s.counters, events).counters,
   out |-> Append(s.out, <<Measure(s.counters, events).peak,
                           Measure(s.counters, events).retained>>)]

\* A window that starts with nothing held ends with nothing held and reports two numbers.
LEMMA MeasureTyped ==
  ASSUME NEW c \in Idle, NEW s \in Seq(Events)
  PROVE  /\ Reports(c, s, Measure(c, s)) /\ Measure(c, s).counters \in Idle
         /\ Measure(c, s).peak \in Nat /\ Measure(c, s).retained \in Nat
PROOF
<1> DEFINE r == Measure(c, s)
           z == ResetPeak(c)
           after == FoldLeft(Allocate, z, s)
           peak == Saturating(after.peak, c.live)
           rest == Saturating(after.live, c.live)
           drop == DropAll(after)
<1>1. c \in CounterStates /\ c.own = <<>>
  BY DEF Idle
<1>2. Reports(c, s, r)
  BY <1>1, MeasureReports, Zenon
<1>3. r.counters \in Idle
  BY <1>2, Zenon DEF Reports, Idle
<1>4. c.live \in Int /\ c.warm \in Bools /\ c.own \in Seq(Nat)
  BY <1>1, CountersExcept, Zenon
<1>5. z = State(c.live, c.live, c.own, c.warm)
  BY <1>1, <1>4, CountersExcept, Zenon DEF ResetPeak
<1>6. z \in CounterStates
  <2>1. HasParts(State(c.live, c.live, c.own, c.warm), c.live, c.live, c.own, c.warm)
    BY <1>4, StateParts, Zenon
  <2> QED
    BY <1>5, <2>1, Zenon DEF HasParts
<1>7. after \in CounterStates
  <2> HIDE DEF z
  <2>1. PICK A : IsRun(A, Len(s), CounterStates, z, AllocateOp, s) /\ A[Len(s)] = after
    BY <1>6, AllocateSteps, Zenon DEF RunsTo
  <2>2. A \in [0..Len(s) -> CounterStates]
    BY <2>1, Zenon DEF IsRun
  <2>3. Len(s) \in 0..Len(s)
    OBVIOUS
  <2>4. A[Len(s)] \in CounterStates
    BY <2>2, <2>3
  <2> QED
    BY <2>1, <2>4, Zenon
<1>8. after.peak \in Int /\ after.live \in Int
  BY <1>7, CountersExcept, Zenon
<1>9. r = [peak |-> peak, retained |-> rest, counters |-> drop]
  BY Zenon DEF Measure
<1>10. peak \in Nat /\ rest \in Nat
  <2> HIDE DEF after
  <2> QED
    BY <1>4, <1>8 DEF Saturating
<1>11. r.peak = peak /\ r.retained = rest
  <2> HIDE DEF peak, rest, drop, r
  <2> QED
    BY <1>9
<1> QED
  BY <1>2, <1>3, <1>10, <1>11, Zenon

\* One more window appends one report to the run's and carries its counters on.
LEMMA NextWindowTyped ==
  ASSUME NEW a \in RunStates, NEW e \in Seq(Events)
  PROVE  /\ NextWindow(a, e) \in RunStates
         /\ NextWindow(a, e).counters = Measure(a.counters, e).counters
         /\ NextWindow(a, e).out = Append(a.out, <<Measure(a.counters, e).peak,
                                                   Measure(a.counters, e).retained>>)
PROOF
<1> DEFINE c == a.counters
           o == a.out
           d == Measure(c, e).counters
           x == Measure(c, e).peak
           y == Measure(c, e).retained
           pair == <<x, y>>
           new == Append(o, pair)
           Pairs == Nat \X Nat
<1>1. c \in Idle /\ o \in Seq(Pairs)
  BY DEF RunStates
<1>2. d \in Idle /\ x \in Nat /\ y \in Nat
  BY <1>1, MeasureTyped, Zenon
<1>3. pair \in Pairs
  <2> HIDE DEF x, y
  <2> QED
    BY <1>2
<1>4. new \in Seq(Pairs)
  <2> HIDE DEF o, pair, Pairs
  <2> QED
    BY <1>1, <1>3
<1>5. NextWindow(a, e) = [counters |-> d, out |-> new]
  BY Zenon DEF NextWindow
<1> HIDE DEF d, new, Pairs
<1>6. /\ [counters |-> d, out |-> new] \in [counters : Idle, out : Seq(Pairs)]
      /\ [counters |-> d, out |-> new].counters = d /\ [counters |-> d, out |-> new].out = new
  BY <1>2, <1>4
<1> QED
  BY <1>5, <1>6, Zenon DEF d, new, Pairs, RunStates

WindowOp == [x \in RunStates \X Seq(Events) |-> NextWindow(x[1], x[2])]

\* The state in which the first statement was measured twice.
Warmed(c, s) == Measure(Measure(c, s).counters, s).counters

\* A memory run measures its statements one by one, after a warm-up on the first.
LEMMA MemRunSteps ==
  ASSUME NEW c \in Idle, NEW s \in Seq(Seq(Events)), Len(s) > 0
  PROVE  RunsTo(Len(s), RunStates, [counters |-> Warmed(c, s[1]), out |-> <<>>], WindowOp, s,
                MemRun(c, s))
PROOF
<1> DEFINE b0 == [counters |-> Warmed(c, s[1]), out |-> <<>>]
           n == Len(s)
           D == 1..n
           S == RunStates
           T == Seq(Events)
           g == s
           Next1(a, e) == NextWindow(a, e)
           IsIter(f) == f = [u \in SUBSET D |->
             IF u = {} THEN b0 ELSE Next1(f[u \ {Max(u)}], g[Max(u)])]
           Iter == CHOOSE f : IsIter(f)
<1>1. n \in Nat /\ DOMAIN g = D /\ g \in [D -> T]
  OBVIOUS
<1>2. MemRun(c, s) = Iter[D]
  <2>0. s # <<>>
    OBVIOUS
  <2>1. MemRun(c, s)
          = (CHOOSE f : f = [u \in SUBSET DOMAIN g |->
               IF u = {} THEN b0 ELSE Next1(f[u \ {Max(u)}], g[Max(u)])])[DOMAIN g]
    BY <2>0 DEF MemRun, NextWindow, Warmed, FoldLeft, MapThenFoldSet
  <2> HIDE DEF D, g, Next1
  <2> QED
    BY <1>1, <2>1
<1>3. b0 \in S /\ \A a \in S, e \in T : Next1(a, e) \in S
  <2>1. Warmed(c, s[1]) \in Idle
    <3>1. s[1] \in Seq(Events)
      OBVIOUS
    <3> QED
      BY <3>1, MeasureTyped, Zenon DEF Warmed
  <2>2. b0 \in S
    <3> DEFINE w == Warmed(c, s[1])
               Pairs == Nat \X Nat
    <3>1. <<>> \in Seq(Pairs)
      OBVIOUS
    <3> HIDE DEF w, Pairs
    <3>2. [counters |-> w, out |-> <<>>] \in [counters : Idle, out : Seq(Pairs)]
      BY <2>1, <3>1 DEF w
    <3> QED
      BY <3>2, Zenon DEF w, Pairs, RunStates
  <2> QED
    BY <2>2, NextWindowTyped
<1>4. WindowOp \in [S \X T -> S] /\ \A a \in S, e \in T : WindowOp[<<a, e>>] = Next1(a, e)
  <2>1. WindowOp = [x \in S \X T |-> Next1(x[1], x[2])]
    BY DEF WindowOp
  <2> HIDE DEF S, T, Next1
  <2> QED
    BY <1>3, <2>1
<1> HIDE DEF S, T, g, n, Next1, b0
<1>5. PICK F : IsFold(F, n, S, b0, WindowOp, g)
  BY <1>1, <1>3, <1>4, FoldExists
<1>6. F \in [SUBSET D -> S]
  BY <1>5 DEF IsFold
<1>7. F = [u \in SUBSET D |->
             IF u = {} THEN b0 ELSE WindowOp[<<F[u \ {Max(u)}], g[Max(u)]>>]]
  BY <1>5 DEF IsFold
<1>8. \A u \in SUBSET D : u # {} => u \ {Max(u)} \in SUBSET D /\ g[Max(u)] \in T
  <2> SUFFICES ASSUME NEW u \in SUBSET D, u # {}
               PROVE  u \ {Max(u)} \in SUBSET D /\ g[Max(u)] \in T
    OBVIOUS
  <2>1. Max(u) \in D
    BY <1>1, HasMax
  <2> QED
    BY <1>1, <2>1
<1>9. IsIter(F)
  <2>1. \A u \in SUBSET D : u # {} =>
          WindowOp[<<F[u \ {Max(u)}], g[Max(u)]>>] = Next1(F[u \ {Max(u)}], g[Max(u)])
    <3> HIDE DEF D
    <3> QED
      BY <1>4, <1>6, <1>8
  <2> HIDE DEF D
  <2> QED
    BY <1>7, <2>1
<1>10. IsIter(Iter)
  <2> HIDE DEF IsIter
  <2> QED
    BY <1>9
<1> HIDE DEF Iter
<1>11. Iter[{}] = b0
  BY <1>10
<1>12. ASSUME NEW u \in SUBSET D, u # {}, Iter[u \ {Max(u)}] \in S
       PROVE  Iter[u] = WindowOp[<<Iter[u \ {Max(u)}], g[Max(u)]>>]
  <2>1. Iter[u] = Next1(Iter[u \ {Max(u)}], g[Max(u)])
    <3> HIDE DEF D
    <3> QED
      BY <1>10, <1>12
  <2>2. g[Max(u)] \in T
    BY <1>8, <1>12
  <2> QED
    BY <1>4, <1>12, <2>1, <2>2
<1>13. RunsTo(n, S, b0, WindowOp, g, Iter[D])
  <2>1. \A u \in SUBSET (1..n) : u # {} /\ Iter[u \ {Max(u)}] \in S =>
          Iter[u] = WindowOp[<<Iter[u \ {Max(u)}], g[Max(u)]>>]
    BY <1>12
  <2>2. IsBuilt(Iter, n, S, b0, WindowOp, g)
    BY <1>11, <2>1 DEF IsBuilt
  <2>3. n \in Nat /\ b0 \in S /\ WindowOp \in [S \X T -> S] /\ g \in [1..n -> T]
    BY <1>1, <1>3, <1>4
  <2> HIDE DEF IsIter
  <2> QED
    BY <2>2, <2>3, RunOfIter
<1> QED
  BY <1>2, <1>13, Zenon DEF S, T, g, n, b0

\* The counters between the windows of a run, and what the windows have reported.
AreWindows(A, n, b, s) ==
  /\ \A k \in 0..n : A[k].counters \in Idle
  /\ \A k \in 0..n :
       A[k].counters.warm <=> b.counters.warm \/ \E j \in 1..k : HasFirstUse(s[j])
  /\ \A k \in 1..n :
       A[n].out[k] = <<Measure(A[k - 1].counters, s[k]).peak,
                       Measure(A[k - 1].counters, s[k]).retained>>
LEMMA RunOfWindows ==
  ASSUME NEW s \in Seq(Seq(Events)), NEW n \in Nat, n = Len(s), NEW b \in RunStates, b.out = <<>>,
         NEW A, IsRun(A, n, RunStates, b, WindowOp, s)
  PROVE  AreWindows(A, n, b, s)
PROOF
<1> DEFINE cs(k) == A[k].counters
           pair(k) == <<Measure(cs(k - 1), s[k]).peak, Measure(cs(k - 1), s[k]).retained>>
           Warm(k) == \E j \in 1..k : HasFirstUse(s[j])
           Pairs == Nat \X Nat
<1>1. A \in [0..n -> RunStates] /\ A[0] = b /\ \A k \in 1..n : A[k] = WindowOp[<<A[k - 1], s[k]>>]
  BY Zenon DEF IsRun
<1>2. \A k \in 0..n : A[k] \in RunStates
  BY <1>1
<1>3. \A x \in RunStates : x.counters \in Idle /\ x.out \in Seq(Nat \X Nat)
  BY DEF RunStates
<1>4. \A k \in 0..n : cs(k) \in Idle /\ A[k].out \in Seq(Nat \X Nat)
  BY <1>2, <1>3, Zenon
<1>5. ASSUME NEW k \in 1..n
      PROVE  /\ k - 1 \in 0..n /\ k \in 0..n /\ s[k] \in Seq(Events)
             /\ A[k] = NextWindow(A[k - 1], s[k])
             /\ cs(k) = Measure(cs(k - 1), s[k]).counters
             /\ A[k].out = Append(A[k - 1].out, pair(k))
  <2>1. k - 1 \in 0..n /\ k \in 0..n
    OBVIOUS
  <2>2. s[k] \in Seq(Events)
    OBVIOUS
  <2>3. A[k - 1] \in RunStates
    BY <1>2, <2>1
  <2>4. \A x \in RunStates, e \in Seq(Events) : WindowOp[<<x, e>>] = NextWindow(x, e)
    <3> DEFINE T == Seq(Events)
               F(x, e) == NextWindow(x, e)
    <3>1. WindowOp = [x \in RunStates \X T |-> F(x[1], x[2])]
      BY DEF WindowOp
    <3> HIDE DEF T, F
    <3>2. \A x \in RunStates, e \in T : WindowOp[<<x, e>>] = F(x, e)
      BY <3>1
    <3> QED
      BY <3>2, Zenon DEF T, F
  <2>5. A[k] = NextWindow(A[k - 1], s[k])
    BY <1>1, <2>2, <2>3, <2>4, Zenon
  <2> QED
    BY <2>1, <2>2, <2>3, <2>5, NextWindowTyped, Zenon
<1>6. \A k \in 0..n : cs(k).warm <=> b.counters.warm \/ Warm(k)
  <2> DEFINE E == {k \in 0..n : cs(k).warm <=> b.counters.warm \/ Warm(k)}
  <2>1. 0 \in E
    <3>1. ~Warm(0) /\ 0 \in 0..n
      OBVIOUS
    <3> QED
      BY <1>1, <3>1, Zenon
  <2>2. ASSUME NEW k \in 1..n, k - 1 \in E PROVE k \in E
    <3>1. cs(k - 1).warm <=> b.counters.warm \/ Warm(k - 1)
      BY <2>2, Zenon
    <3>2. Reports(cs(k - 1), s[k], Measure(cs(k - 1), s[k]))
      BY <1>4, <1>5, MeasureTyped, Zenon
    <3>3. cs(k).warm <=> cs(k - 1).warm \/ HasFirstUse(s[k])
      BY <1>5, <3>2, Zenon DEF Reports
    <3>4. \A j : j \in 1..k <=> j \in 1..(k - 1) \/ j = k
      OBVIOUS
    <3>5. Warm(k) <=> Warm(k - 1) \/ HasFirstUse(s[k])
      BY <3>4, Zenon
    <3> QED
      BY <1>5, <3>1, <3>3, <3>5, Zenon
  <2>3. 0..n \subseteq E
    <3> HIDE DEF E
    <3> QED
      BY <2>1, <2>2, UpTo
  <2> QED
    BY <2>3, Zenon
<1>7. \A k \in 0..n : Len(A[k].out) = k /\ \A j \in 1..k : A[k].out[j] = pair(j)
  <2> DEFINE E == {k \in 0..n : Len(A[k].out) = k /\ \A j \in 1..k : A[k].out[j] = pair(j)}
  <2>1. 0 \in E
    <3>1. A[0].out = <<>> /\ 0 \in 0..n
      BY <1>1
    <3> QED
      BY <3>1
  <2>2. ASSUME NEW k \in 1..n, k - 1 \in E PROVE k \in E
    <3> DEFINE o == A[k - 1].out
               p == pair(k)
    <3>1. o \in Seq(Nat \X Nat) /\ A[k].out = Append(o, p)
      BY <1>4, <1>5, Zenon
    <3>2. Len(o) = k - 1 /\ \A j \in 1..(k - 1) : o[j] = pair(j)
      BY <2>2
    <3>3. \A j \in 1..k : j \in 1..(k - 1) \/ j = k
      OBVIOUS
    <3> HIDE DEF o, p
    <3>4. Len(Append(o, p)) = k /\ \A j \in 1..k : Append(o, p)[j] = IF j = k THEN p ELSE o[j]
      <4> DEFINE P == Nat \X Nat
      <4> HIDE DEF P
      <4>1. o \in Seq(P)
        BY <3>1 DEF P
      <4>2. Len(o) = k - 1
        BY <3>2, Zenon
      <4> QED
        BY <4>1, <4>2
    <3>5. \A j \in 1..k : A[k].out[j] = pair(j)
      BY <3>1, <3>2, <3>3, <3>4, Zenon DEF p
    <3> QED
      BY <1>5, <3>1, <3>4, <3>5, Zenon
  <2>3. 0..n \subseteq E
    <3> HIDE DEF E
    <3> QED
      BY <2>1, <2>2, UpTo
  <2> QED
    BY <2>3, Zenon
<1>8. n \in 0..n
  OBVIOUS
<1> QED
  BY <1>4, <1>6, <1>7, <1>8, Zenon DEF AreWindows

\* A run of membench reports of a statement what its own blocks come to, if a statement
\* before it, or the first, has already allocated what only a first use does.
LEMMA MemRunReports ==
  ASSUME NEW s \in Seq(Seq(Events)), NEW k \in DOMAIN s,
         HasFirstUse(s[k]) => \E j \in {1} \cup 1..(k - 1) : HasFirstUse(s[j])
  PROVE  /\ MemRun(Counters, s).out[k][1] = Max({OwnSum(s[k], i) : i \in 0..Len(s[k])})
         /\ MemRun(Counters, s).out[k][2] = OwnSum(s[k], Len(s[k]))
PROOF
<1> DEFINE n == Len(s)
           w == Warmed(Counters, s[1])
           b == [counters |-> w, out |-> <<>>]
           res == MemRun(Counters, s)
<1>1. n \in Nat /\ n > 0 /\ k \in 1..n /\ k - 1 \in 0..n /\ s[1] \in Seq(Events) /\ s[k] \in Seq(Events)
  OBVIOUS
<1>2. Counters \in Idle /\ ~Counters.warm
  <2>1. 0 \in Int /\ <<>> \in Seq(Nat) /\ FALSE \in Bools
    BY DEF Bools
  <2>2. Counters = State(0, 0, <<>>, FALSE)
    BY Zenon DEF Counters, State
  <2>3. HasParts(Counters, 0, 0, <<>>, FALSE)
    BY <2>1, <2>2, StateParts, Zenon
  <2> QED
    BY <2>3, Zenon DEF HasParts, Idle
<1>3. w \in Idle /\ (w.warm <=> HasFirstUse(s[1]))
  <2> DEFINE v == Measure(Counters, s[1]).counters
  <2>1. v \in Idle /\ (v.warm <=> HasFirstUse(s[1]))
    BY <1>1, <1>2, MeasureTyped, Zenon DEF Reports
  <2> HIDE DEF v
  <2>2. Reports(v, s[1], Measure(v, s[1])) /\ Measure(v, s[1]).counters \in Idle
    BY <1>1, <2>1, MeasureTyped, Zenon
  <2>3. w = Measure(v, s[1]).counters
    BY Zenon DEF Warmed, v
  <2> QED
    BY <2>1, <2>2, <2>3, Zenon DEF Reports
<1> HIDE DEF w
<1>4. b \in RunStates /\ b.out = <<>> /\ b.counters = w
  <2> DEFINE Pairs == Nat \X Nat
  <2>1. <<>> \in Seq(Pairs)
    OBVIOUS
  <2> HIDE DEF Pairs
  <2>2. b \in [counters : Idle, out : Seq(Pairs)] /\ b.out = <<>> /\ b.counters = w
    BY <1>3, <2>1
  <2> QED
    BY <2>2, Zenon DEF Pairs, RunStates
<1>5. RunsTo(n, RunStates, b, WindowOp, s, res)
  BY <1>1, <1>2, MemRunSteps, Zenon DEF w
<1> HIDE DEF n, b, res
<1>6. PICK A : IsRun(A, n, RunStates, b, WindowOp, s) /\ A[n] = res
  BY <1>5, Zenon DEF RunsTo
<1> DEFINE c == A[k - 1].counters
           r == Measure(c, s[k])
<1>7. /\ c \in Idle
      /\ c.warm <=> b.counters.warm \/ \E j \in 1..(k - 1) : HasFirstUse(s[j])
      /\ res.out[k] = <<r.peak, r.retained>>
  <2>1. n = Len(s)
    BY DEF n
  <2>2. n \in Nat /\ IsRun(A, n, RunStates, b, WindowOp, s)
    BY <1>1, <1>6, Zenon DEF n
  <2>3. AreWindows(A, n, b, s)
    BY <1>4, <2>1, <2>2, RunOfWindows
  <2>4. k \in 1..n /\ k - 1 \in 0..n
    BY <1>1, Zenon DEF n
  <2> QED
    BY <1>6, <2>3, <2>4, Zenon DEF AreWindows
<1>8. Reports(c, s[k], r)
  BY <1>1, <1>7, MeasureTyped, Zenon
<1>9. HasFirstUse(s[k]) => c.warm
  <2>1. \A j : j \in {1} \cup 1..(k - 1) <=> j = 1 \/ j \in 1..(k - 1)
    OBVIOUS
  <2> QED
    BY <1>3, <1>4, <1>7, <2>1, Zenon
<1>10. r.peak = Max({OwnSum(s[k], i) : i \in 0..Len(s[k])}) /\ r.retained = OwnSum(s[k], Len(s[k]))
  BY <1>8, <1>9, Zenon DEF Reports
<1> HIDE DEF r
<1>11. res.out[k][1] = r.peak /\ res.out[k][2] = r.retained
  BY <1>7
<1> QED
  BY <1>10, <1>11, Zenon DEF res

\* What membench reports of a statement is its own doing.
LEMMA MemoryIsOwnHolds == InputInv => MemoryIsOwn
PROOF
<1> SUFFICES ASSUME InputInv, tool = "memory" PROVE MemoryIsOwn
  BY Zenon DEF MemoryIsOwn
<1> DEFINE stmts == StatementsOf(input)
           res == MemRun(Counters, stmts)
           Own(k) == [i \in 0..Len(stmts[k]) |->
                        FoldLeft(Allocate, WarmCounters, SubSeq(stmts[k], 1, i)).own]
           lazy(k) == HasFirstUse(stmts[k])
<1>1. input \in Seq(Fed)
  <2>1. input \in Seq(Alphabet["memory"]) /\ "memory" \in DOMAIN Alphabet
    BY DEF InputInv, Algos
  <2>2. Alphabet["memory"] \subseteq Fed
    BY <2>1, MeasuredAssumption DEF Fed, Events
  <2> HIDE DEF Fed
  <2> QED
    BY <2>1, <2>2, SeqMonotonic
<1>2. stmts \in Seq(Seq(Events))
  BY <1>1, StatementsTyped, Zenon
<1> HIDE DEF stmts
<1>3. ASSUME NEW k \in DOMAIN stmts, lazy(k) => \E j \in {1} \cup 1..k - 1 : lazy(j)
      PROVE  /\ res.out[k][1] = Max({SumOf(Own(k)[i]) : i \in 0..Len(stmts[k])})
             /\ res.out[k][2] = SumOf(Own(k)[Len(stmts[k])])
  <2> DEFINE all == {OwnSum(stmts[k], i) : i \in 0..Len(stmts[k])}
             own == {SumOf(Own(k)[i]) : i \in 0..Len(stmts[k])}
  <2>1. res.out[k][1] = Max(all) /\ res.out[k][2] = OwnSum(stmts[k], Len(stmts[k]))
    BY <1>2, <1>3, MemRunReports, Zenon
  <2>2. Len(stmts[k]) \in 0..Len(stmts[k])
    <3>1. stmts[k] \in Seq(Events)
      BY <1>2
    <3> QED
      BY <3>1
  <2>3. \A i \in 0..Len(stmts[k]) : SumOf(Own(k)[i]) = OwnSum(stmts[k], i)
    BY Zenon DEF OwnSum
  <2>4. own = all
    <3> HIDE DEF Own
    <3> QED
      BY <2>3, Zenon
  <2> HIDE DEF Own, own, all
  <2>5. SumOf(Own(k)[Len(stmts[k])]) = OwnSum(stmts[k], Len(stmts[k]))
    BY <2>2, <2>3, Zenon
  <2>6. res.out[k][1] = Max(own)
    BY <2>1, <2>4, Zenon
  <2> QED
    BY <2>1, <2>5, <2>6, Zenon DEF own
<1> QED
  BY <1>3, Zenon DEF MemoryIsOwn, stmts, HasFirstUse, WarmCounters

\* In every state MemoryIsOwn holds: what a window of the process-wide counters reports
\* (measure_mem, membench) is what the statement's own blocks come to, whatever was
\* measured before it in the process.
THEOREM MemoryWindowsAreOwn == Spec => []MemoryIsOwn
PROOF
  BY InputTyped, MemoryIsOwnHolds, PTL

-----------------------------------------------------------------------------
(* Samples: sorting, quantiles, curves                                    *)

\* The positions that come before i, or are i, when v is sorted.
Before(v, i) == {j \in DOMAIN v : v[j] < v[i] \/ (v[j] = v[i] /\ j <= i)}

\* The rank of a value is a place in the sorted list.
LEMMA RankBounds ==
  ASSUME NEW v \in Seq(Nat), NEW i \in DOMAIN v
  PROVE  /\ IsFiniteSet(Before(v, i)) /\ Rank(v, i) = Cardinality(Before(v, i))
         /\ Rank(v, i) \in 1..Len(v)
PROOF
<1> DEFINE B == Before(v, i)
           D == 1..Len(v)
<1>1. B \in SUBSET D /\ i \in B
  BY DEF Before
<1>2. Len(v) \in Nat /\ IsFiniteSet(D) /\ Cardinality(D) = Len(v)
  BY FS_Interval
<1>3. Rank(v, i) = Cardinality(B)
  BY DEF Rank, Before
<1> HIDE DEF B, D
<1>4. IsFiniteSet(B) /\ Cardinality(B) \in Nat /\ Cardinality(B) <= Len(v)
  <2>1. IsFiniteSet(B) /\ Cardinality(B) <= Cardinality(D)
    BY <1>1, <1>2, FS_Subset
  <2> QED
    BY <1>2, <2>1, FS_CardinalityType
<1>5. Cardinality(B) # 0
  BY <1>1, <1>4, FS_EmptySet
<1> QED
  BY <1>2, <1>3, <1>4, <1>5 DEF B

\* No two positions have the same rank, so every number up to the length is one.
LEMMA EveryRank ==
  ASSUME NEW v \in Seq(Nat), NEW k \in 1..Len(v)
  PROVE  \E i \in DOMAIN v : Rank(v, i) = k
PROOF
<1> DEFINE D == 1..Len(v)
           f == [i \in D |-> Rank(v, i)]
<1>1. DOMAIN v = D /\ IsFiniteSet(D)
  BY FS_Interval
<1>2. ASSUME NEW i \in D, NEW j \in D, v[i] < v[j] \/ (v[i] = v[j] /\ i < j)
      PROVE  Rank(v, i) # Rank(v, j)
  <2>1. Before(v, i) \in SUBSET Before(v, j) /\ j \in Before(v, j) /\ j \notin Before(v, i)
    <3>1. \A x \in D : v[x] \in Nat /\ x \in Nat
      OBVIOUS
    <3> QED
      BY <1>2, <3>1 DEF Before
  <2>2. IsFiniteSet(Before(v, j)) /\ Rank(v, i) = Cardinality(Before(v, i))
        /\ Rank(v, j) = Cardinality(Before(v, j))
    BY <1>1, RankBounds
  <2> QED
    BY <2>1, <2>2, FS_Subset
<1>3. \A i, j \in D : i # j =>
        \/ v[i] < v[j] \/ (v[i] = v[j] /\ i < j) \/ v[j] < v[i] \/ (v[i] = v[j] /\ j < i)
  <2>1. \A i \in D : i \in Nat /\ v[i] \in Nat
    OBVIOUS
  <2> QED
    BY <2>1
<1>4. f \in [D -> D]
  BY <1>1, RankBounds
<1>5. \A i, j \in D : f[i] = f[j] => i = j
  <2> SUFFICES ASSUME NEW i \in D, NEW j \in D, i # j PROVE f[i] # f[j]
    OBVIOUS
  <2>1. Rank(v, i) # Rank(v, j)
    BY <1>2, <1>3
  <2> QED
    BY <2>1, Zenon
<1> HIDE DEF f
<1>6. f \in Injection(D, D)
  BY <1>4, <1>5 DEF Injection, IsInjective
<1>7. f \in Surjection(D, D)
  BY <1>1, <1>6, FS_Injection
<1>8. \E i \in D : f[i] = k
  <2>1. k \in D
    OBVIOUS
  <2> QED
    BY <1>7, <2>1 DEF Surjection
<1> QED
  BY <1>1, <1>8, Zenon DEF f

Smaller(x) == {y \in Nat : y < x}
NoLarger(x) == {y \in Nat : y <= x}

\* What is k-th in a sorted list: an element of it with fewer than k smaller ones, and
\* at least k that are not larger.
IsKth(v, k, x) ==
  x \in Nat /\ (\E i \in DOMAIN v : v[i] = x) /\ CountIn(v, Smaller(x)) < k /\ k <= CountIn(v, NoLarger(x))

\* The k-th of the sorted values is the value that k - 1 others come before, whatever their order.
LEMMA SortedIsKth ==
  ASSUME NEW v \in Seq(Nat)
  PROVE  /\ Sorted(v) \in Seq(Nat) /\ Len(Sorted(v)) = Len(v)
         /\ \A k \in 1..Len(v) : IsKth(v, k, Sorted(v)[k])
PROOF
<1> DEFINE D == 1..Len(v)
           s == Sorted(v)
           pick(k) == CHOOSE i \in DOMAIN v : Rank(v, i) = k
<1>1. DOMAIN v = D /\ Len(v) \in Nat
  OBVIOUS
<1>2. ASSUME NEW k \in D PROVE pick(k) \in D /\ Rank(v, pick(k)) = k
  <2>1. \E i \in DOMAIN v : Rank(v, i) = k
    BY EveryRank
  <2> QED
    BY <1>1, <2>1, Zenon
<1>3. s = [k \in D |-> v[pick(k)]]
  BY <1>1, Zenon DEF Sorted
<1> HIDE DEF pick, s
<1>4. \A k \in D : s[k] = v[pick(k)] /\ v[pick(k)] \in Nat
  BY <1>2, <1>3
<1>5. s \in [D -> Nat]
  BY <1>3, <1>4
<1>6. s \in Seq(Nat) /\ Len(s) = Len(v)
  BY <1>1, <1>5, FunctionIsList, Zenon
<1>7. ASSUME NEW k \in D PROVE IsKth(v, k, s[k])
  <2> DEFINE i == pick(k)
             x == v[i]
             L == At(v, Smaller(x))
             U == At(v, NoLarger(x))
             B == Before(v, i)
  <2>1. i \in DOMAIN v /\ x \in Nat /\ s[k] = x
    BY <1>1, <1>2, <1>4
  <2>2. Cardinality(B) = k /\ IsFiniteSet(B)
    BY <1>2, <2>1, RankBounds
  <2> HIDE DEF i
  <2>3. L \in SUBSET B /\ i \in B /\ i \notin L
    BY <2>1 DEF At, Smaller, Before
  <2>4. B \in SUBSET U /\ U \in SUBSET D
    BY <1>1, <2>1 DEF At, NoLarger, Before
  <2> HIDE DEF L, U, B, x
  <2>5. Cardinality(L) <= Cardinality(B) /\ Cardinality(L) # Cardinality(B) /\ IsFiniteSet(L)
    BY <2>2, <2>3, FS_Subset
  <2>6. Cardinality(B) <= Cardinality(U)
    <3>0. IsFiniteSet(D)
      BY <1>1, FS_Interval
    <3>1. IsFiniteSet(U)
      BY <2>4, <3>0, FS_Subset, Zenon
    <3> QED
      BY <2>4, <3>1, FS_Subset
  <2>7. Cardinality(L) \in Nat
    BY <2>5, FS_CardinalityType
  <2>8. CountIn(v, Smaller(x)) = Cardinality(L) /\ CountIn(v, NoLarger(x)) = Cardinality(U)
    BY Zenon DEF CountIn, L, U
  <2>9. Cardinality(L) < k /\ k <= Cardinality(U)
    BY <2>2, <2>5, <2>6, <2>7
  <2>10. \E j \in DOMAIN v : v[j] = x
    BY <2>1, Zenon DEF x
  <2>11. IsKth(v, k, x)
    BY <2>1, <2>8, <2>9, <2>10, Zenon DEF IsKth
  <2> QED
    BY <2>1, <2>11, Zenon
<1> QED
  BY <1>6, <1>7, Zenon DEF s

\* What is at most x is smaller than y.
LEMMA CountsOrdered ==
  ASSUME NEW v \in Seq(Nat), NEW x \in Nat, NEW y \in Nat, x < y
  PROVE  CountIn(v, NoLarger(x)) <= CountIn(v, Smaller(y)) /\ CountIn(v, Smaller(y)) \in Nat
         /\ CountIn(v, NoLarger(x)) \in Nat
PROOF
<1> DEFINE A == At(v, NoLarger(x))
           B == At(v, Smaller(y))
<1>1. A \in SUBSET B /\ B \in SUBSET (1..Len(v)) /\ Len(v) \in Nat
  BY DEF At, NoLarger, Smaller
<1> HIDE DEF A, B
<1>2. IsFiniteSet(B)
  <2> DEFINE D == 1..Len(v)
  <2>1. IsFiniteSet(D)
    BY <1>1, FS_Interval
  <2>2. B \in SUBSET D
    BY <1>1, Zenon
  <2> HIDE DEF D
  <2> QED
    BY <2>1, <2>2, FS_Subset, Zenon
<1>3. IsFiniteSet(A) /\ Cardinality(A) <= Cardinality(B)
  BY <1>1, <1>2, FS_Subset
<1>4. Cardinality(A) \in Nat /\ Cardinality(B) \in Nat
  BY <1>2, <1>3, FS_CardinalityType
<1> QED
  BY <1>3, <1>4, Zenon DEF CountIn, A, B

\* Sorting puts in order, and what it makes of a list depends only on how often there is what.
Rising(s) == s \in Seq(Nat) /\ \A i, j \in DOMAIN s : i <= j => s[i] <= s[j]

\* Of two lists with the same values, a later place holds no smaller value.
LEMMA KthInOrder ==
  ASSUME NEW v \in Seq(Nat), NEW w \in Seq(Nat), \A V : CountIn(v, V) = CountIn(w, V),
         NEW j \in Nat, NEW k \in Nat, j <= k, NEW x, NEW y, IsKth(v, j, x), IsKth(w, k, y)
  PROVE  x <= y
PROOF
<1>1. x \in Nat /\ y \in Nat /\ j <= CountIn(v, NoLarger(x)) /\ CountIn(w, Smaller(y)) < k
      /\ CountIn(v, Smaller(x)) < j
  BY Zenon DEF IsKth
<1>2. ASSUME y < x PROVE FALSE
  <2> DEFINE a == CountIn(w, NoLarger(y))
             b == CountIn(v, Smaller(x))
  <2>1. a = CountIn(v, NoLarger(y)) /\ k <= a
    BY Zenon DEF IsKth
  <2>2. a <= b /\ b \in Nat /\ a \in Nat
    BY <1>1, <1>2, <2>1, CountsOrdered, Zenon
  <2>3. b < j
    BY <1>1, Zenon
  <2> HIDE DEF a, b
  <2> QED
    BY <2>1, <2>2, <2>3
<1> QED
  BY <1>1, <1>2

\* The sorted values never fall.
LEMMA SortedRises ==
  ASSUME NEW v \in Seq(Nat)
  PROVE  Rising(Sorted(v))
PROOF
<1> DEFINE s == Sorted(v)
<1>1. s \in Seq(Nat) /\ Len(s) = Len(v) /\ \A k \in 1..Len(v) : IsKth(v, k, s[k])
  BY SortedIsKth, Zenon
<1> HIDE DEF s
<1>2. ASSUME NEW i \in DOMAIN s, NEW j \in DOMAIN s, i <= j PROVE s[i] <= s[j]
  <2>1. i \in Nat /\ j \in Nat /\ i \in 1..Len(v) /\ j \in 1..Len(v)
    BY <1>1
  <2>2. IsKth(v, i, s[i]) /\ IsKth(v, j, s[j])
    BY <1>1, <2>1
  <2> QED
    BY <1>2, <2>1, <2>2, KthInOrder
<1> QED
  BY <1>1, <1>2, Zenon DEF Rising, s

\* Sorting depends only on how often there is what, not on the order in the file.
LEMMA SortedByCounts ==
  ASSUME NEW v \in Seq(Nat), NEW w \in Seq(Nat), \A V : CountIn(v, V) = CountIn(w, V)
  PROVE  Sorted(v) = Sorted(w)
PROOF
<1> DEFINE s == Sorted(v)
           t == Sorted(w)
<1>1. s \in Seq(Nat) /\ Len(s) = Len(v) /\ \A k \in 1..Len(v) : IsKth(v, k, s[k])
  BY SortedIsKth, Zenon
<1>2. t \in Seq(Nat) /\ Len(t) = Len(w) /\ \A k \in 1..Len(w) : IsKth(w, k, t[k])
  BY SortedIsKth, Zenon
<1>3. Len(v) = Len(w)
  <2>1. CountIn(v, Nat) = Len(v) /\ CountIn(w, Nat) = Len(w)
    BY CountOfAll, Zenon
  <2> QED
    BY <2>1, Zenon
<1> HIDE DEF s, t
<1>4. ASSUME NEW k \in 1..Len(s) PROVE s[k] = t[k]
  <2>1. k \in Nat /\ k <= k /\ k \in 1..Len(v) /\ k \in 1..Len(w)
    BY <1>1, <1>3
  <2>2. IsKth(v, k, s[k]) /\ IsKth(w, k, t[k])
    BY <1>1, <1>2, <2>1
  <2>3. s[k] <= t[k]
    BY <2>1, <2>2, KthInOrder
  <2>4. \A V : CountIn(w, V) = CountIn(v, V)
    OBVIOUS
  <2>5. t[k] <= s[k]
    BY <2>1, <2>2, <2>4, KthInOrder
  <2>6. s[k] \in Nat /\ t[k] \in Nat
    BY <2>2, Zenon DEF IsKth
  <2> QED
    BY <2>3, <2>5, <2>6
<1>5. s = t
  BY <1>1, <1>2, <1>3, <1>4, SeqEqual
<1> QED
  BY <1>5, Zenon DEF s, t

\* How often there is what in two lists behind each other.
LEMMA CountOfBoth ==
  ASSUME NEW T, NEW s \in Seq(T), NEW t \in Seq(T), NEW V
  PROVE  CountIn(s \o t, V) = CountIn(s, V) + CountIn(t, V)
PROOF
<1> DEFINE a == Len(s)
           b == Len(t)
           u == s \o t
           A == 1..a
           B == a + 1 .. a + b
           K == At(u, V)
<1>1. a \in Nat /\ b \in Nat /\ u \in Seq(T) /\ Len(u) = a + b
  OBVIOUS
<1>2. \A i \in 1..a : u[i] = s[i]
  OBVIOUS
<1>3. \A i \in 1..b : u[a + i] = t[i]
  OBVIOUS
<1>4. /\ CountIn(s, V) = Overlap(1..a, At(s, V)) /\ CountIn(t, V) = Overlap(1..b, At(t, V))
      /\ CountIn(u, V) = Overlap(1..Len(u), K)
  BY <1>1, CountIsOverlap, Zenon
<1>5. DOMAIN s = 1..a /\ DOMAIN t = 1..b /\ DOMAIN u = 1..(a + b)
  BY <1>1
<1> HIDE DEF u, a, b
<1>6. A \cap At(s, V) = A \cap K
  BY <1>1, <1>2, <1>5 DEF At
<1>7. Overlap(1..b, At(t, V)) = Overlap(B, K)
  <2>1. \A i \in 1..b : i \in At(t, V) <=> i + a \in K
    BY <1>1, <1>3, <1>5 DEF At
  <2> HIDE DEF K
  <2> QED
    BY <1>1, <2>1, OverlapOfShifted
<1>8. IsFiniteSet(A) /\ IsFiniteSet(B) /\ Apart(A, B) /\ A \cup B = 1..(a + b)
  <2>1. IsFiniteSet(A) /\ IsFiniteSet(B)
    <3>1. 1 \in Int /\ a \in Int /\ a + 1 \in Int /\ a + b \in Int
      BY <1>1
    <3> QED
      BY <3>1, FS_Interval, Zenon
  <2>2. Apart(A, B) /\ A \cup B = 1..(a + b)
    BY <1>1 DEF Apart
  <2> QED
    BY <2>1, <2>2
<1> HIDE DEF A, B, K
<1>9. Overlap(A \cup B, K) = Overlap(A, K) + Overlap(B, K)
  <2>1. OverlapsAdd(A, B)
    BY <1>8, OverlapOfUnion, Zenon
  <2> QED
    BY <2>1, Zenon DEF OverlapsAdd
<1>10. Overlap(A, At(s, V)) = Overlap(A, K)
  BY <1>6, Zenon DEF Overlap
<1> QED
  BY <1>1, <1>4, <1>7, <1>8, <1>9, <1>10, Zenon DEF A, B, u

\* Turning a list around one of its positions changes the order only.
Turned(s, i) == SubSeq(s, i, Len(s)) \o SubSeq(s, 1, i - 1)
LEMMA TurnedCounts ==
  ASSUME NEW s \in Seq(Nat), NEW i \in DOMAIN s
  PROVE  Turned(s, i) \in Seq(Nat) /\ \A V : CountIn(Turned(s, i), V) = CountIn(s, V)
PROOF
<1> DEFINE n == Len(s)
           a == i - 1
           p == SubSeq(s, a + 1, n)
           q == SubSeq(s, 0 + 1, a)
<1>1. n \in Nat /\ a \in Nat /\ a <= n /\ 0 <= a /\ n <= n /\ 0 \in Nat
  OBVIOUS
<1>2. Turned(s, i) = p \o q
  <2>1. a + 1 = i /\ 0 + 1 = 1
    OBVIOUS
  <2> QED
    BY <2>1, Zenon DEF Turned
<1> HIDE DEF a
<1>3. p \in Seq(Nat) /\ q \in Seq(Nat)
  BY <1>1
<1>4. ASSUME NEW V PROVE CountIn(p \o q, V) = CountIn(s, V)
  <2> DEFINE K == At(s, V)
             A == 0 + 1 .. a
             B == a + 1 .. n
  <2>1. CountIn(p \o q, V) = CountIn(p, V) + CountIn(q, V)
    <3> HIDE DEF p, q
    <3> QED
      BY <1>3, CountOfBoth, Zenon
  <2>2. CountIn(p, V) = Overlap(B, K) /\ CountIn(q, V) = Overlap(A, K)
    BY <1>1, CountOfPart
  <2>3. CountIn(s, V) = Overlap(1..n, K)
    BY CountIsOverlap, Zenon
  <2>4. IsFiniteSet(A) /\ IsFiniteSet(B)
    BY <1>1, FS_Interval
  <2>5. Apart(A, B) /\ A \cup B = 1..n
    BY <1>1 DEF Apart
  <2>6. Overlap(A, K) \in Nat /\ Overlap(B, K) \in Nat
    <3>1. IsFiniteSet(A \cap K) /\ IsFiniteSet(B \cap K)
      BY <2>4, FS_Subset
    <3> QED
      BY <3>1, FS_CardinalityType DEF Overlap
  <2> HIDE DEF A, B, K, p, q
  <2>7. Overlap(A \cup B, K) = Overlap(A, K) + Overlap(B, K)
    <3>1. OverlapsAdd(A, B)
      BY <2>4, <2>5, OverlapOfUnion, Zenon
    <3> QED
      BY <3>1, Zenon DEF OverlapsAdd
  <2> DEFINE x == Overlap(A, K)
             y == Overlap(B, K)
  <2>8. CountIn(p \o q, V) = y + x /\ CountIn(s, V) = x + y /\ x \in Nat /\ y \in Nat
    BY <2>1, <2>2, <2>3, <2>5, <2>6, <2>7, Zenon
  <2> HIDE DEF x, y
  <2> QED
    BY <2>8
<1>5. p \o q \in Seq(Nat)
  BY <1>3
<1> QED
  BY <1>2, <1>4, <1>5, Zenon

\* The samples that are kept: how often there is what, and where it comes from.
Positive == {y \in Nat : y > 0}
KeptTimes(raw) == Kept(raw, {i \in DOMAIN raw : raw[i] > 0})
LEMMA KeptTimesCounts ==
  ASSUME NEW v \in Seq(Nat)
  PROVE  /\ KeptTimes(v) \in Seq(Nat)
         /\ \A V : CountIn(KeptTimes(v), V) = CountIn(v, V \cap Positive)
PROOF
<1> DEFINE at == {i \in DOMAIN v : v[i] > 0}
           k == KeptTimes(v)
<1>1. k \in Seq(Nat) /\ \A V : CountIn(k, V) = Overlap(1..Len(v), at \cap At(v, V))
  BY KeptCounts, Zenon DEF KeptTimes
<1>2. ASSUME NEW V PROVE at \cap At(v, V) = At(v, V \cap Positive)
  <2>1. \A i \in DOMAIN v : v[i] \in Nat
    OBVIOUS
  <2> QED
    BY <2>1 DEF At, Positive
<1>3. \A V : CountIn(v, V \cap Positive) = Overlap(1..Len(v), At(v, V \cap Positive))
  BY CountIsOverlap, Zenon
<1> HIDE DEF k, at
<1> QED
  BY <1>1, <1>2, <1>3, Zenon DEF k

\* The times of a parser rise, are of its file, and do not depend on the order of its lines.
LEMMA TimesFacts ==
  ASSUME NEW v \in Seq(Nat)
  PROVE  /\ Rising(ParseTimes(v))
         /\ \A i \in DOMAIN ParseTimes(v) : ParseTimes(v)[i] \in ToSet(v)
         /\ \A i \in DOMAIN v : ParseTimes(Turned(v, i)) = ParseTimes(v)
         /\ 0 \notin ToSet(v) => Sorted(v) = ParseTimes(v)
PROOF
<1> DEFINE k == KeptTimes(v)
           s == Sorted(k)
<1>1. k \in Seq(Nat) /\ \A V : CountIn(k, V) = CountIn(v, V \cap Positive)
  BY KeptTimesCounts, Zenon
<1>2. ParseTimes(v) = s
  BY Zenon DEF ParseTimes, KeptTimes
<1> HIDE DEF k
<1>3. Rising(s)
  BY <1>1, SortedRises, Zenon
<1>4. ASSUME NEW i \in DOMAIN s PROVE s[i] \in ToSet(v)
  <2> DEFINE x == s[i]
  <2>1. Len(s) = Len(k) /\ s \in Seq(Nat) /\ \A j \in 1..Len(k) : IsKth(k, j, s[j])
    BY <1>1, SortedIsKth, Zenon
  <2> HIDE DEF s
  <2>2. i \in 1..Len(k)
    BY <2>1
  <2>3. \E j \in DOMAIN k : k[j] = x
    BY <2>1, <2>2, Zenon DEF IsKth
  <2> HIDE DEF x
  <2>4. At(k, {x}) # {}
    BY <2>3 DEF At
  <2>5. CountIn(k, {x}) # 0
    <3>1. IsFiniteSet(At(k, {x}))
      <4>1. At(k, {x}) \in SUBSET (1..Len(k)) /\ Len(k) \in Nat
        BY <1>1 DEF At
      <4>2. IsFiniteSet(1..Len(k))
        BY <4>1, FS_Interval
      <4> QED
        BY <4>1, <4>2, FS_Subset, Zenon
    <3> QED
      BY <2>4, <3>1, FS_EmptySet, Zenon DEF CountIn
  <2>6. At(v, {x} \cap Positive) # {}
    <3>1. CountIn(v, {x} \cap Positive) # 0
      BY <1>1, <2>5, Zenon
    <3> QED
      BY <3>1, FS_EmptySet, Zenon DEF CountIn
  <2>7. \E j \in DOMAIN v : v[j] = x
    BY <2>6 DEF At
  <2> QED
    BY <2>7 DEF x, ToSet
<1>5. ASSUME NEW i \in DOMAIN v PROVE ParseTimes(Turned(v, i)) = ParseTimes(v)
  <2> DEFINE w == Turned(v, i)
             m == KeptTimes(w)
  <2>1. w \in Seq(Nat) /\ \A V : CountIn(w, V) = CountIn(v, V)
    BY TurnedCounts, Zenon
  <2> HIDE DEF w
  <2>2. m \in Seq(Nat) /\ \A V : CountIn(m, V) = CountIn(w, V \cap Positive)
    BY <2>1, KeptTimesCounts, Zenon
  <2>3. ParseTimes(w) = Sorted(m)
    BY Zenon DEF ParseTimes, KeptTimes
  <2> HIDE DEF m
  <2>4. \A V : CountIn(k, V) = CountIn(m, V)
    BY <1>1, <2>1, <2>2, Zenon
  <2>5. Sorted(k) = Sorted(m)
    BY <1>1, <2>2, <2>4, SortedByCounts
  <2> QED
    BY <1>2, <2>3, <2>5, Zenon DEF w
<1>6. ASSUME 0 \notin ToSet(v) PROVE Sorted(v) = s
  <2>1. \A i \in DOMAIN v : v[i] \in Positive
    <3>1. \A i \in DOMAIN v : v[i] \in Nat /\ v[i] # 0
      BY <1>6 DEF ToSet
    <3> QED
      BY <3>1 DEF Positive
  <2>2. \A V : At(v, V \cap Positive) = At(v, V)
    BY <2>1, Zenon DEF At
  <2>3. \A V : CountIn(v, V) = CountIn(k, V)
    BY <1>1, <2>2, Zenon DEF CountIn
  <2> QED
    BY <1>1, <2>3, SortedByCounts
<1> QED
  BY <1>2, <1>3, <1>4, <1>5, <1>6, Zenon

\* Division with the remainder cut off.
LEMMA DivBounds ==
  ASSUME NEW a \in Nat, NEW d \in Nat \ {0}
  PROVE  /\ a \div d \in Nat
         /\ \A k \in Nat : d * k <= a => k <= a \div d
         /\ \A k \in Nat : a <= d * k => a \div d <= k
PROOF
<1> DEFINE q == a \div d
           r == a % d
<1>1. q \in Int /\ r \in 0..(d - 1) /\ a = d * q + r
  OBVIOUS
<1> HIDE DEF q, r
<1>2. q \in Nat
  <2>1. ASSUME q <= -1 PROVE FALSE
    <3>1. d * q <= d * (-1)
      BY <1>1, <2>1
    <3> QED
      BY <1>1, <3>1
  <2> QED
    BY <1>1, <2>1
<1>3. ASSUME NEW k \in Nat, d * k <= a PROVE k <= q
  <2>1. ASSUME k >= q + 1 PROVE FALSE
    <3>1. d * k >= d * (q + 1)
      BY <1>1, <2>1
    <3>2. d * (q + 1) = d * q + d /\ d * q \in Int
      BY <1>1
    <3> QED
      BY <1>1, <1>3, <3>1, <3>2
  <2> QED
    BY <1>1, <2>1
<1>4. ASSUME NEW k \in Nat, a <= d * k PROVE q <= k
  <2>1. ASSUME q >= k + 1 PROVE FALSE
    <3>1. d * q >= d * (k + 1)
      BY <1>1, <2>1
    <3>2. d * (k + 1) = d * k + d /\ d * k \in Int
      OBVIOUS
    <3> QED
      BY <1>1, <1>4, <3>1, <3>2
  <2> QED
    BY <1>1, <2>1
<1> QED
  BY <1>2, <1>3, <1>4 DEF q

\* Division that rounds down keeps the order.
LEMMA DivMonotone ==
  ASSUME NEW a \in Nat, NEW b \in Nat, NEW d \in Nat \ {0}, a <= b
  PROVE  a \div d <= b \div d
PROOF
<1> DEFINE q == a \div d
           r == a % d
           p == b \div d
<1>1. q \in Nat
  BY DivBounds
<1>2. r \in 0..(d - 1) /\ a = d * q + r
  OBVIOUS
<1>3. \A k \in Nat : d * k <= b => k <= p
  BY DivBounds
<1> HIDE DEF q, r, p
<1>4. d * q <= b
  BY <1>1, <1>2
<1>5. q <= p
  BY <1>1, <1>3, <1>4
<1> QED
  BY <1>5 DEF p, q

\* The nearest rank of a quantile, among n.
Nearest(num, den, n) == MinOf((2 * num * (n - 1) + den) \div (2 * den), n - 1) + 1
LEMMA NearestRank ==
  ASSUME NEW n \in Nat \ {0}, NEW den \in Nat \ {0}, NEW num \in Nat
  PROVE  /\ Nearest(num, den, n) \in 1..n
         /\ num = den => Nearest(num, den, n) = n
         /\ \A m \in Nat : num <= m => Nearest(num, den, n) <= Nearest(m, den, n)
PROOF
<1> DEFINE a(m) == 2 * m * (n - 1) + den
           d == 2 * den
           l == n - 1
<1>1. d \in Nat \ {0} /\ l \in Nat /\ n = l + 1
  OBVIOUS
<1>2. \A m \in Nat : a(m) \in Nat
  <2> SUFFICES ASSUME NEW m \in Nat PROVE a(m) \in Nat
    OBVIOUS
  <2>1. 2 * m \in Nat
    OBVIOUS
  <2>2. (2 * m) * (n - 1) \in Nat
    BY <1>1, <2>1
  <2> QED
    BY <2>2
<1>3. \A m \in Nat : num <= m => a(num) <= a(m)
  <2> SUFFICES ASSUME NEW m \in Nat, num <= m PROVE a(num) <= a(m)
    OBVIOUS
  <2> DEFINE x == 2 * num
             y == 2 * m
  <2>1. x \in Nat /\ y \in Nat /\ x <= y
    OBVIOUS
  <2> HIDE DEF x, y, l
  <2>2. x * l <= y * l /\ x * l \in Nat /\ y * l \in Nat
    BY <1>1, <2>1
  <2>3. x * l + den <= y * l + den
    BY <2>2
  <2> QED
    BY <2>3 DEF x, y, l
<1>4. ASSUME num = den PROVE l <= a(num) \div d
  <2>1. d * l <= a(num)
    <3> HIDE DEF l
    <3>1. d * l = 2 * num * l /\ d * l \in Nat
      BY <1>1, <1>4
    <3>2. a(num) = 2 * num * l + den
      BY DEF l
    <3> HIDE DEF a, d
    <3> QED
      BY <3>1, <3>2
  <2>2. a(num) \in Nat
    BY <1>2
  <2> HIDE DEF a, d, l
  <2> QED
    BY <1>1, <2>1, <2>2, DivBounds
<1>5. \A m \in Nat : Nearest(m, den, n) = MinOf(a(m) \div d, l) + 1
  BY DEF Nearest
<1> HIDE DEF a, d, l
<1>6. \A m \in Nat : a(m) \div d \in Nat
  BY <1>1, <1>2, DivBounds
<1>7. Nearest(num, den, n) \in 1..n
  BY <1>1, <1>5, <1>6 DEF MinOf
<1>8. num = den => Nearest(num, den, n) = n
  BY <1>1, <1>4, <1>5, <1>6 DEF MinOf
<1>9. ASSUME NEW m \in Nat, num <= m PROVE Nearest(num, den, n) <= Nearest(m, den, n)
  <2>1. a(num) <= a(m) /\ a(num) \in Nat /\ a(m) \in Nat
    BY <1>2, <1>3, <1>9
  <2> DEFINE x == a(num) \div d
             y == a(m) \div d
  <2>2. x <= y /\ x \in Nat /\ y \in Nat
    BY <1>1, <1>6, <2>1, DivMonotone
  <2>3. Nearest(num, den, n) = MinOf(x, l) + 1 /\ Nearest(m, den, n) = MinOf(y, l) + 1
    BY <1>5
  <2> HIDE DEF x, y
  <2> QED
    BY <1>1, <2>2, <2>3 DEF MinOf
<1> QED
  BY <1>7, <1>8, <1>9

\* The nearest rank of one half is a middle place.
LEMMA MedianRank ==
  ASSUME NEW n \in Nat \ {0}
  PROVE  Nearest(50, 100, n) \in {(n + 1) \div 2, (n + 2) \div 2}
PROOF
<1>1. (2 * 50 * (n - 1) + 100) \div (2 * 100) = (100 * n) \div 200
  OBVIOUS
<1>2. (100 * n) \div 200 = n \div 2
  OBVIOUS
<1>3. n \div 2 <= n - 1 \/ n = 1
  OBVIOUS
<1> QED
  BY <1>1, <1>2, <1>3 DEF Nearest, MinOf

\* The mean of an ordered sample lies between its ends.
LEMMA SumBetween ==
  ASSUME NEW s \in Seq(Nat), NEW lo \in Nat, NEW hi \in Nat,
         \A i \in DOMAIN s : lo <= s[i] /\ s[i] <= hi
  PROVE  SumOf(s) \in Nat /\ Len(s) * lo <= SumOf(s) /\ SumOf(s) <= Len(s) * hi
PROOF
<1> DEFINE n == Len(s)
<1>1. n \in Nat /\ \A i \in 1..n : s[i] \in Nat /\ lo <= s[i] /\ s[i] <= hi
  OBVIOUS
<1> HIDE DEF n
<1>2. PICK A \in [0..n -> Nat] : SumRun(A, s)
  BY SumSteps, Zenon DEF n
<1>3. A[0] = 0 /\ A[n] = SumOf(s) /\ \A i \in 1..n : A[i] = A[i - 1] + s[i]
  BY <1>2, Zenon DEF SumRun, n
<1> DEFINE E == {i \in 0..n : i * lo <= A[i] /\ A[i] <= i * hi}
<1>4. 0 \in E
  BY <1>1, <1>3
<1>5. ASSUME NEW i \in 1..n, i - 1 \in E PROVE i \in E
  <2> DEFINE x == A[i - 1]
             y == A[i]
             z == s[i]
  <2>1. x \in Nat /\ y = x + z /\ z \in Nat /\ lo <= z /\ z <= hi
    BY <1>1, <1>2, <1>3
  <2>2. (i - 1) * lo <= x /\ x <= (i - 1) * hi
    BY <1>5
  <2>3. /\ i * lo = (i - 1) * lo + lo /\ (i - 1) * lo \in Int
        /\ i * hi = (i - 1) * hi + hi /\ (i - 1) * hi \in Int
    BY <1>1
  <2> HIDE DEF x, y, z
  <2>4. i * lo <= y /\ y <= i * hi
    BY <2>1, <2>2, <2>3
  <2> QED
    BY <1>1, <2>4 DEF y
<1>6. 0..n \subseteq E
  <2> HIDE DEF E
  <2> QED
    BY <1>1, <1>4, <1>5, UpTo
<1>7. n \in 0..n
  BY <1>1
<1> QED
  BY <1>2, <1>3, <1>6, <1>7 DEF n

\* The mean, rounded down, is between the smallest and the greatest value.
LEMMA MeanBetween ==
  ASSUME NEW s, Rising(s), Len(s) > 0
  PROVE  Mean(s) \in s[1]..s[Len(s)]
PROOF
<1> DEFINE n == Len(s)
           lo == s[1]
           hi == s[n]
           sum == SumOf(s)
<1>1. s \in Seq(Nat) /\ \A i, j \in DOMAIN s : i <= j => s[i] <= s[j]
  BY Zenon DEF Rising
<1>2. n \in Nat \ {0} /\ lo \in Nat /\ hi \in Nat /\ s # <<>>
  BY <1>1
<1>3. \A i \in DOMAIN s : lo <= s[i] /\ s[i] <= hi
  <2> SUFFICES ASSUME NEW i \in DOMAIN s PROVE lo <= s[i] /\ s[i] <= hi
    OBVIOUS
  <2>1. 1 \in DOMAIN s /\ n \in DOMAIN s /\ 1 <= i /\ i <= n
    BY <1>1, <1>2
  <2> QED
    BY <1>1, <2>1, Zenon
<1>4. sum \in Nat /\ n * lo <= sum /\ sum <= n * hi
  <2> HIDE DEF lo, hi
  <2> QED
    BY <1>1, <1>2, <1>3, SumBetween
<1>5. Mean(s) = sum \div n
  BY <1>2 DEF Mean
<1> HIDE DEF n, lo, hi, sum
<1>6. sum \div n \in Nat /\ lo <= sum \div n /\ sum \div n <= hi
  BY <1>2, <1>4, DivBounds
<1> QED
  BY <1>2, <1>5, <1>6 DEF lo, hi, n

\* A quantile is the sample at the nearest rank.
LEMMA QuantileIs ==
  ASSUME NEW s \in Seq(Nat), NEW num, NEW den
  PROVE  Quantile(s, num, den) = IF Len(s) = 0 THEN 0 ELSE s[Nearest(num, den, Len(s))]
PROOF
<1>1. s = <<>> <=> Len(s) = 0
  OBVIOUS
<1> QED
  BY <1>1, Zenon DEF Quantile, Nearest

\* The curve of an ordered sample: no more points than there is room for, climbing, up to
\* the last sample and to 1.
Climbs(e) == \A i, j \in DOMAIN e : i < j => e[i][1] <= e[j][1] /\ e[i][2] < e[j][2]
CurveOf(e, s) ==
  /\ Len(e) <= MaxPts + 1 /\ Climbs(e)
  /\ Len(s) > 0 => e[Len(e)][1] = s[Len(s)] /\ e[Len(e)][2] = e[Len(e)][3]

\* The curve has no more points than there is room for, climbs, and ends at the last sample.
LEMMA EcdfIsCurve ==
  ASSUME NEW s, Rising(s)
  PROVE  CurveOf(EcdfPoints(s), s)
PROOF
<1> DEFINE n == Len(s)
           e == EcdfPoints(s)
<1>1. s \in Seq(Nat) /\ \A i, j \in DOMAIN s : i <= j => s[i] <= s[j]
  BY Zenon DEF Rising
<1>2. n \in Nat /\ DOMAIN s = 1..n /\ MaxPts \in Nat \ {0}
  BY <1>1, MeasuresAssumption
<1>3. CASE n <= MaxPts
  <2> DEFINE f == [i \in 1..n |-> <<s[i], i, n>>]
             T == {<<s[i], i, n>> : i \in 1..n}
  <2>1. e = f
    BY <1>2, <1>3, Zenon DEF EcdfPoints
  <2>2. Len(f) = n
    <3>1. f \in [1..n -> T]
      BY Zenon
    <3> HIDE DEF f, T
    <3> QED
      BY <1>2, <3>1, FunctionIsList, Zenon
  <2>3. \A i \in 1..n : f[i][1] = s[i] /\ f[i][2] = i /\ f[i][3] = n
    OBVIOUS
  <2>4. DOMAIN f = 1..n
    OBVIOUS
  <2> HIDE DEF f
  <2>5. Climbs(f)
    BY <1>1, <1>2, <2>3, <2>4 DEF Climbs
  <2>6. n > 0 => f[n][1] = s[n] /\ f[n][2] = f[n][3]
    BY <1>2, <2>3
  <2>7. n <= MaxPts + 1
    BY <1>2, <1>3
  <2> QED
    BY <2>1, <2>2, <2>5, <2>6, <2>7, Zenon DEF CurveOf
<1>4. CASE ~(n <= MaxPts)
  <2> DEFINE m == MaxPts + 1
             at(k) == Nearest(k - 1, MaxPts, n)
             f == [k \in 1..m |-> <<Quantile(s, k - 1, MaxPts), k - 1, MaxPts>>]
             T == {<<Quantile(s, k - 1, MaxPts), k - 1, MaxPts>> : k \in 1..m}
  <2>1. e = f
    BY <1>4, Zenon DEF EcdfPoints
  <2>2. Len(f) = m /\ m \in Nat \ {0}
    <3>1. f \in [1..m -> T]
      BY Zenon
    <3>2. m \in Nat \ {0} /\ m \in Nat
      BY <1>2
    <3> HIDE DEF f, T, m
    <3> QED
      BY <3>1, <3>2, FunctionIsList, Zenon
  <2>3. n \in Nat \ {0} /\ n # 0
    BY <1>2, <1>4
  <2>4. \A k \in 1..m : Quantile(s, k - 1, MaxPts) = s[at(k)]
    BY <1>1, <2>3, QuantileIs, Zenon
  <2>5. \A k \in 1..m : f[k] = <<s[at(k)], k - 1, MaxPts>>
    BY <2>4, Zenon
  <2>6. DOMAIN f = 1..m
    OBVIOUS
  <2> HIDE DEF f
  <2>7. ASSUME NEW i \in 1..m, NEW j \in 1..m, i < j
        PROVE  at(i) \in DOMAIN s /\ at(j) \in DOMAIN s /\ at(i) <= at(j) /\ i - 1 < j - 1
    <3>1. i - 1 \in Nat /\ j - 1 \in Nat /\ i - 1 <= j - 1 /\ i - 1 < j - 1
      BY <1>2, <2>7
    <3>2. at(i) \in 1..n /\ at(j) \in 1..n /\ at(i) <= at(j)
      BY <1>2, <2>3, <3>1, NearestRank
    <3> QED
      BY <1>2, <3>1, <3>2
  <2>8. at(m) = n
    <3>1. m - 1 = MaxPts /\ MaxPts \in Nat
      BY <1>2
    <3>2. Nearest(MaxPts, MaxPts, n) = n
      BY <1>2, <2>3, <3>1, NearestRank
    <3> QED
      BY <3>1, <3>2, Zenon
  <2> HIDE DEF at
  <2>9. \A k \in 1..m : f[k][1] = s[at(k)] /\ f[k][2] = k - 1 /\ f[k][3] = MaxPts
    BY <2>5
  <2>10. Climbs(f)
    <3> SUFFICES ASSUME NEW i \in DOMAIN f, NEW j \in DOMAIN f, i < j
                 PROVE  f[i][1] <= f[j][1] /\ f[i][2] < f[j][2]
      BY DEF Climbs
    <3>1. i \in 1..m /\ j \in 1..m
      BY <2>6, Zenon
    <3>2. s[at(i)] <= s[at(j)] /\ i - 1 < j - 1
      BY <1>1, <2>7, <3>1, Zenon
    <3> QED
      BY <2>9, <3>1, <3>2, Zenon
  <2>11. f[m][1] = s[n] /\ f[m][2] = f[m][3]
    <3>1. m \in 1..m /\ m - 1 = MaxPts
      BY <1>2
    <3> QED
      BY <2>8, <2>9, <3>1, Zenon
  <2>12. m <= MaxPts + 1
    BY <1>2
  <2> QED
    BY <2>1, <2>2, <2>10, <2>11, <2>12, Zenon DEF CurveOf
<1> QED
  BY <1>3, <1>4

\* The eight quantiles of an ordered sample are samples, in order, from the first to the last.
QuantilesOf(q, s) ==
  /\ \A i \in 1..7 : q[i] <= q[i + 1]
  /\ Len(s) > 0 =>
       /\ \A i \in 1..8 : \E k \in DOMAIN s : q[i] = s[k]
       /\ q[1] = s[1] /\ q[8] = s[Len(s)]
       /\ q[4] \in {s[i] : i \in {(Len(s) + 1) \div 2, (Len(s) + 2) \div 2}}

\* The eight quantiles of an ordered sample are samples, in order, and include both ends.
LEMMA DistQuantiles ==
  ASSUME NEW s, Rising(s)
  PROVE  QuantilesOf(DistFrom(s).q, s) /\ DOMAIN DistFrom(s).q = 1..8
PROOF
<1> DEFINE n == Len(s)
           q == DistFrom(s).q
           Q(num) == Quantile(s, num, 100)
           first == IF s = <<>> THEN 0 ELSE s[1]
           last == IF s = <<>> THEN 0 ELSE Last(s)
<1>1. s \in Seq(Nat) /\ \A i, j \in DOMAIN s : i <= j => s[i] <= s[j]
  BY Zenon DEF Rising
<1>2. n \in Nat /\ DOMAIN s = 1..n /\ (s = <<>> <=> n = 0)
  BY <1>1
<1> DEFINE c2 == Q(10)
           c3 == Q(25)
           c4 == Q(50)
           c5 == Q(75)
           c6 == Q(90)
           c7 == Q(99)
<1>3. q = <<first, c2, c3, c4, c5, c6, c7, last>>
  BY DEF DistFrom
<1>4. CASE n = 0
  <2>1. first = 0 /\ last = 0
    BY <1>2, <1>4, Zenon
  <2>2. c2 = 0 /\ c3 = 0 /\ c4 = 0 /\ c5 = 0 /\ c6 = 0 /\ c7 = 0
    <3>1. \A num : Quantile(s, num, 100) = 0
      BY <1>1, <1>4, QuantileIs, Zenon
    <3> QED
      BY <3>1, Zenon
  <2> HIDE DEF q, first, last, c2, c3, c4, c5, c6, c7
  <2>3. q = <<0, 0, 0, 0, 0, 0, 0, 0>>
    BY <1>3, <2>1, <2>2
  <2>4. /\ \A i \in 1..7 : q[i] = 0 /\ q[i + 1] = 0
        /\ DOMAIN q = 1..8
    BY <2>3
  <2>5. QuantilesOf(q, s)
    BY <1>4, <2>4 DEF QuantilesOf
  <2> QED
    BY <2>4, <2>5 DEF q
<1>5. CASE n # 0
  <2> DEFINE N(num) == Nearest(num, 100, n)
             a2 == N(10)
             a3 == N(25)
             a4 == N(50)
             a5 == N(75)
             a6 == N(90)
             a7 == N(99)
  <2>1. n \in Nat \ {0} /\ 100 \in Nat \ {0}
    BY <1>2, <1>5
  <2>2. first = s[1] /\ last = s[n]
    BY <1>2, <1>5 DEF Last
  <2>3. c2 = s[a2] /\ c3 = s[a3] /\ c4 = s[a4] /\ c5 = s[a5] /\ c6 = s[a6] /\ c7 = s[a7]
    BY <1>1, <1>5, QuantileIs, Zenon
  <2>4. \A num \in Nat : N(num) \in 1..n /\ \A m \in Nat : num <= m => N(num) <= N(m)
    BY <2>1, NearestRank
  <2>5. a4 \in {(n + 1) \div 2, (n + 2) \div 2}
    BY <2>1, MedianRank
  <2>6. q = <<s[1], s[a2], s[a3], s[a4], s[a5], s[a6], s[a7], s[n]>>
    <3> HIDE DEF q, first, last, c2, c3, c4, c5, c6, c7, a2, a3, a4, a5, a6, a7
    <3> QED
      BY <1>3, <2>2, <2>3
  <2>7. /\ a2 \in 1..n /\ a3 \in 1..n /\ a4 \in 1..n /\ a5 \in 1..n /\ a6 \in 1..n /\ a7 \in 1..n
        /\ a2 <= a3 /\ a3 <= a4 /\ a4 <= a5 /\ a5 <= a6 /\ a6 <= a7
    <3>1. /\ 10 \in Nat /\ 25 \in Nat /\ 50 \in Nat /\ 75 \in Nat /\ 90 \in Nat /\ 99 \in Nat
          /\ 10 <= 25 /\ 25 <= 50 /\ 50 <= 75 /\ 75 <= 90 /\ 90 <= 99
      OBVIOUS
    <3> HIDE DEF N
    <3>2. a2 \in 1..n /\ a3 \in 1..n /\ a4 \in 1..n /\ a5 \in 1..n /\ a6 \in 1..n /\ a7 \in 1..n
      BY <2>4, <3>1, Zenon
    <3>3. a2 <= a3 /\ a3 <= a4 /\ a4 <= a5 /\ a5 <= a6 /\ a6 <= a7
      BY <2>4, <3>1, Zenon
    <3> QED
      BY <3>2, <3>3
  <2> HIDE DEF a2, a3, a4, a5, a6, a7, q, N
  <2>8. /\ q[1] = s[1] /\ q[2] = s[a2] /\ q[3] = s[a3] /\ q[4] = s[a4] /\ q[5] = s[a5]
        /\ q[6] = s[a6] /\ q[7] = s[a7] /\ q[8] = s[n] /\ DOMAIN q = 1..8
    BY <2>6
  <2>9. 1 \in 1..n /\ n \in 1..n /\ 1 <= a2 /\ a7 <= n
    BY <2>1, <2>7
  <2>10. s[1] <= s[a2] /\ s[a2] <= s[a3] /\ s[a3] <= s[a4] /\ s[a4] <= s[a5]
         /\ s[a5] <= s[a6] /\ s[a6] <= s[a7] /\ s[a7] <= s[n]
    BY <1>1, <1>2, <2>7, <2>9, Zenon
  <2>11. \A i \in 1..7 : q[i] <= q[i + 1]
    BY <2>8, <2>10
  <2>12. \A i \in 1..8 : \E k \in DOMAIN s : q[i] = s[k]
    <3>1. \A i \in 1..8 : i \in {1, 2, 3, 4, 5, 6, 7, 8}
      OBVIOUS
    <3> DEFINE Sample(x) == \E k \in DOMAIN s : x = s[k]
    <3>2. \A k \in 1..n : Sample(s[k])
      BY <1>2, Zenon
    <3>3. /\ Sample(q[1]) /\ Sample(q[2]) /\ Sample(q[3]) /\ Sample(q[4])
          /\ Sample(q[5]) /\ Sample(q[6]) /\ Sample(q[7]) /\ Sample(q[8])
      <4> HIDE DEF Sample
      <4> QED
        BY <2>7, <2>8, <2>9, <3>2, Zenon
    <3> HIDE DEF Sample
    <3>4. \A i \in 1..8 : Sample(q[i])
      BY <3>1, <3>3, Zenon
    <3> QED
      BY <3>4, Zenon DEF Sample
  <2>13. q[4] \in {s[i] : i \in {(n + 1) \div 2, (n + 2) \div 2}}
    BY <2>5, <2>8, Zenon
  <2> QED
    BY <2>8, <2>11, <2>12, <2>13, Zenon DEF QuantilesOf, q
<1> QED
  BY <1>4, <1>5

\* What DistFrom makes of the samples that ParseTimes leaves of a file.
LEMMA DistributionsHold == InputInv => DistributionsAreSound
PROOF
<1> SUFFICES ASSUME InputInv, tool = "samples" PROVE DistributionsAreSound
  BY Zenon DEF DistributionsAreSound
<1> DEFINE s == ParseTimes(input)
           d == DistFrom(s)
           row == RunPair(input)
           n == Len(s)
           q == d.q
<1>1. input \in Seq(Nat)
  <2>1. input \in Seq(Alphabet["samples"]) /\ "samples" \in DOMAIN Alphabet
    BY DEF InputInv, Algos
  <2>2. Alphabet["samples"] \subseteq Nat
    BY <2>1, MeasuredAssumption
  <2> QED
    BY <2>1, <2>2, SeqMonotonic
<1>2. /\ Rising(s)
      /\ \A i \in DOMAIN s : s[i] \in ToSet(input)
      /\ \A i \in DOMAIN input : ParseTimes(Turned(input, i)) = s
      /\ 0 \notin ToSet(input) => Sorted(input) = s
  BY <1>1, TimesFacts, Zenon
<1>3. d.mean = Mean(s) /\ d.ecdf = EcdfPoints(s)
  BY DEF DistFrom
<1>4. row.q = DistFrom(Sorted(input)).q
  BY DEF RunPair
<1> HIDE DEF s, d, row
<1>5. s \in Seq(Nat) /\ n \in Nat /\ (s # <<>> <=> n > 0)
  <2>1. s \in Seq(Nat)
    BY <1>2, Zenon DEF Rising
  <2> QED
    BY <2>1
<1>6. QuantilesOf(q, s) /\ DOMAIN q = 1..8
  BY <1>2, DistQuantiles, Zenon DEF d
<1>7. CurveOf(d.ecdf, s)
  BY <1>2, <1>3, EcdfIsCurve, Zenon
<1> HIDE DEF n, q
<1>8. n > 0 => /\ \A i \in 1..8 : \E k \in DOMAIN s : q[i] = s[k]
               /\ q[1] = s[1] /\ q[8] = s[n]
               /\ q[4] \in {s[i] : i \in {(n + 1) \div 2, (n + 2) \div 2}}
  BY <1>6, Zenon DEF QuantilesOf, n
<1>9. n > 0 => d.mean \in q[1]..q[8]
  <2>1. n > 0 => Mean(s) \in s[1]..s[n]
    BY <1>2, MeanBetween, Zenon DEF n
  <2> QED
    BY <1>3, <1>8, <2>1, Zenon
<1>10. n > 0 => ToSet(q) \subseteq ToSet(input)
  <2>1. ToSet(q) = {q[i] : i \in 1..8}
    BY <1>6, Zenon DEF ToSet
  <2>2. n > 0 => \A i \in 1..8 : q[i] \in ToSet(input)
    BY <1>2, <1>8, Zenon
  <2> QED
    BY <2>1, <2>2, Zenon
<1>11. /\ n > 0 => d.ecdf[Len(d.ecdf)][1] = q[8] /\ d.ecdf[Len(d.ecdf)][2] = d.ecdf[Len(d.ecdf)][3]
       /\ \A i, j \in DOMAIN d.ecdf : i < j => /\ d.ecdf[i][1] <= d.ecdf[j][1]
                                              /\ d.ecdf[i][2] < d.ecdf[j][2]
       /\ Len(d.ecdf) <= MaxPts + 1
  BY <1>7, <1>8, Zenon DEF CurveOf, Climbs, n
<1>12. 0 \notin ToSet(input) => row.q = q
  BY <1>2, <1>4, Zenon DEF d, q
<1>13. \A i \in DOMAIN input :
         ParseTimes(SubSeq(input, i, Len(input)) \o SubSeq(input, 1, i - 1)) = s
  BY <1>2, Zenon DEF Turned
<1>14. \A i \in 1..7 : q[i] <= q[i + 1]
  BY <1>6, Zenon DEF QuantilesOf
<1>15. /\ s # <<>> => /\ ToSet(q) \subseteq ToSet(input)
                      /\ d.mean \in q[1]..q[8]
                      /\ d.ecdf[Len(d.ecdf)][1] = q[8]
                      /\ d.ecdf[Len(d.ecdf)][2] = d.ecdf[Len(d.ecdf)][3]
                      /\ q[4] \in {s[i] : i \in {(n + 1) \div 2, (n + 2) \div 2}}
  BY <1>5, <1>8, <1>9, <1>10, <1>11, Zenon
<1> QED
  BY <1>11, <1>12, <1>13, <1>14, <1>15, Zenon DEF DistributionsAreSound, s, d, row, n, q

\* In every state DistributionsAreSound holds: the quantiles, the mean and the curve that
\* dist_from and ecdf_points publish (src/bench_dist.rs) are of the sample that was taken.
THEOREM PublishedDistributionsAreSound == Spec => []DistributionsAreSound
PROOF
  BY InputTyped, DistributionsHold, PTL

-----------------------------------------------------------------------------
(* Batches: what is drawn, joined and counted                             *)

\* An alphabet of scripts without inline data and without what is rejected.
IsAlphabet(W) == {"nl", ";"} \subseteq W /\ "copy" \notin W /\ "bad" \notin W

\* The states of a scan over such a script: the pieces, and whether a comment is open.
Lists(W) == {p \in Seq(Seq(W)) : Len(p) > 0}
Offs == {FALSE}
ScanStates(W) == [out : Lists(W), note : Bools, data : Offs]
ScanAt(list, note, data) == [out |-> list, note |-> note, data |-> data]
Scanned(list, note) == ScanAt(list, note, FALSE)
IsScanned(W, x, list, note) == x \in ScanStates(W) /\ x.out = list /\ x.note = note /\ x.data = FALSE

\* A state of the scan is a record of its parts.
LEMMA ScannedParts ==
  ASSUME NEW W, NEW p \in Lists(W), NEW b \in Bools
  PROVE  IsScanned(W, Scanned(p, b), p, b)
PROOF
<1>1. FALSE \in Offs
  BY DEF Offs
<1>2. \A d \in Offs : /\ ScanAt(p, b, d) \in ScanStates(W)
                      /\ ScanAt(p, b, d).out = p /\ ScanAt(p, b, d).note = b
                      /\ ScanAt(p, b, d).data = d
  BY DEF ScanStates, ScanAt
<1> QED
  BY <1>1, <1>2, Zenon DEF Scanned, IsScanned

\* Changing one part of a scan's state leaves the others.
LEMMA ScanExcept ==
  ASSUME NEW W, NEW x \in ScanStates(W)
  PROVE  /\ x.out \in Lists(W) /\ x.note \in Bools /\ x.data = FALSE
         /\ x = Scanned(x.out, x.note)
         /\ \A p \in Lists(W) : [x EXCEPT !.out = p] = Scanned(p, x.note)
         /\ \A b \in Bools : [x EXCEPT !.note = b] = Scanned(x.out, b)
PROOF
<1> DEFINE L == Lists(W)
<1> HIDE DEF L
<1>0. x \in [out : L, note : Bools, data : Offs]
  BY Zenon DEF L, ScanStates
<1>1. x.out \in L /\ x.note \in Bools /\ x.data \in Offs
  BY <1>0
<1>2. x = ScanAt(x.out, x.note, x.data)
  BY <1>0 DEF ScanAt
<1>3. \A p \in L : [x EXCEPT !.out = p] = ScanAt(p, x.note, x.data)
  BY <1>0 DEF ScanAt
<1>4. \A b \in Bools : [x EXCEPT !.note = b] = ScanAt(x.out, b, x.data)
  BY <1>0 DEF ScanAt
<1>5. x.data = FALSE
  BY <1>1, Zenon DEF Offs
<1> QED
  BY <1>1, <1>2, <1>3, <1>4, <1>5, Zenon DEF L, Scanned

\* A token is added to the last piece.
Longer(p, t) == [p EXCEPT ![Len(p)] = Append(@, t)]
LongerEach(p, t) ==
  \A i \in 1..Len(p) : Longer(p, t)[i] = IF i = Len(p) THEN Append(p[i], t) ELSE p[i]
LEMMA LongerIs ==
  ASSUME NEW W, NEW p \in Lists(W), NEW t \in W
  PROVE  /\ p \in Seq(Seq(W)) /\ Len(p) \in Nat \ {0}
         /\ Longer(p, t) \in Lists(W) /\ Len(Longer(p, t)) = Len(p)
         /\ LongerEach(p, t)
         /\ Append(p, <<>>) \in Lists(W)
PROOF
<1> DEFINE T == Seq(W)
           n == Len(p)
           new == Append(p[n], t)
           e == <<>>
<1>1. p \in Seq(T) /\ n > 0
  BY DEF Lists
<1>2. n \in Nat \ {0} /\ p[n] \in T /\ e \in T
  BY <1>1
<1>3. new \in T
  BY <1>2
<1>4. Longer(p, t) = [p EXCEPT ![n] = new]
  BY Zenon DEF Longer
<1> HIDE DEF T, new, e
<1>5. [p EXCEPT ![n] = new] \in Seq(T) /\ Len([p EXCEPT ![n] = new]) = n
  BY <1>1, <1>2, <1>3, ExceptSeq
<1>6. \A i \in 1..n : [p EXCEPT ![n] = new][i] = IF i = n THEN new ELSE p[i]
  BY <1>1
<1>7. Append(p, e) \in Seq(T) /\ Len(Append(p, e)) > 0
  BY <1>1, <1>2
<1>8. Append(p, e) \in Lists(W)
  BY <1>7, Zenon DEF Lists, T
<1>9. Longer(p, t) \in Lists(W)
  BY <1>1, <1>4, <1>5, Zenon DEF Lists, T
<1>10. LongerEach(p, t)
  <2>1. \A i \in 1..n : Longer(p, t)[i] = IF i = n THEN Append(p[i], t) ELSE p[i]
    BY <1>4, <1>6, Zenon DEF new
  <2> QED
    BY <2>1, Zenon DEF LongerEach
<1> QED
  BY <1>1, <1>2, <1>4, <1>5, <1>8, <1>9, <1>10, Zenon DEF T, e

\* What a token does to the pieces and to the comment.
OutAfter(x, t) ==
  IF x.note \/ t \in {"--", "nl"} THEN x.out
  ELSE IF t = ";" THEN Append(x.out, <<>>) ELSE Longer(x.out, t)
ScanStep(W, x, t, y) ==
  y \in ScanStates(W) /\ y.out = OutAfter(x, t) /\ (y.note <=> (x.note \/ t = "--") /\ t # "nl")

\* One token extends the last piece, starts a new one or opens or closes a comment.
LEMMA ScanIsStep ==
  ASSUME NEW W, IsAlphabet(W), NEW x \in ScanStates(W), NEW t \in W
  PROVE  ScanStep(W, x, t, Scan(x, t))
PROOF
<1> DEFINE y == Scan(x, t)
           e == <<>>
<1>1. /\ x.out \in Lists(W) /\ x.note \in Bools /\ x.data = FALSE
      /\ \A p \in Lists(W) : [x EXCEPT !.out = p] = Scanned(p, x.note)
      /\ \A b \in Bools : [x EXCEPT !.note = b] = Scanned(x.out, b)
  BY ScanExcept, Zenon
<1>2. Longer(x.out, t) \in Lists(W) /\ Append(x.out, e) \in Lists(W)
  BY <1>1, LongerIs, Zenon
<1>3. t # "copy"
  BY DEF IsAlphabet
<1>4. TRUE \in Bools /\ FALSE \in Bools
  BY DEF Bools
<1>5. \A p \in Lists(W), b \in Bools :
        IsScanned(W, Scanned(p, b), p, b)
  BY ScannedParts, Zenon
<1>6. CASE x.note
  <2>1. y = [x EXCEPT !.note = x.note /\ t # "nl"]
    BY <1>6 DEF Scan
  <2>2. CASE t = "nl"
    <3>1. (x.note /\ t # "nl") = FALSE
      BY <2>2
    <3>2. y = Scanned(x.out, FALSE)
      BY <1>1, <1>4, <2>1, <3>1, Zenon
    <3>3. y \in ScanStates(W) /\ y.out = x.out /\ y.note = FALSE
      <4>1. IsScanned(W, Scanned(x.out, FALSE), x.out, FALSE)
        BY <1>1, <1>4, <1>5, Zenon
      <4>2. IsScanned(W, y, x.out, FALSE)
        BY <3>2, <4>1, Zenon
      <4> QED
        BY <4>2, Zenon DEF IsScanned
    <3> QED
      BY <1>6, <2>2, <3>3, Zenon DEF ScanStep, OutAfter
  <2>3. CASE t # "nl"
    <3>1. (x.note /\ t # "nl") = TRUE
      BY <1>6, <2>3
    <3>2. y = Scanned(x.out, TRUE)
      BY <1>1, <1>4, <2>1, <3>1, Zenon
    <3>3. y \in ScanStates(W) /\ y.out = x.out /\ y.note = TRUE
      <4>1. IsScanned(W, Scanned(x.out, TRUE), x.out, TRUE)
        BY <1>1, <1>4, <1>5, Zenon
      <4>2. IsScanned(W, y, x.out, TRUE)
        BY <3>2, <4>1, Zenon
      <4> QED
        BY <4>2, Zenon DEF IsScanned
    <3> QED
      BY <1>6, <2>3, <3>3, Zenon DEF ScanStep, OutAfter
  <2> QED
    BY <2>2, <2>3
<1>7. CASE ~x.note /\ t = "--"
  <2>1. y = [x EXCEPT !.note = TRUE]
    BY <1>1, <1>7 DEF Scan
  <2>2. y = Scanned(x.out, TRUE)
    BY <1>1, <1>4, <2>1, Zenon
  <2>3. y \in ScanStates(W) /\ y.out = x.out /\ y.note = TRUE
    <3>1. IsScanned(W, Scanned(x.out, TRUE), x.out, TRUE)
      BY <1>1, <1>4, <1>5, Zenon
    <3>2. IsScanned(W, y, x.out, TRUE)
      BY <2>2, <3>1, Zenon
    <3> QED
      BY <3>2, Zenon DEF IsScanned
  <2>4. t # "nl" /\ t \in {"--", "nl"}
    BY <1>7
  <2> QED
    BY <1>7, <2>3, <2>4, Zenon DEF ScanStep, OutAfter
<1>8. CASE ~x.note /\ t = ";"
  <2>1. y = [x EXCEPT !.out = Append(x.out, e)]
    BY <1>1, <1>8 DEF Scan
  <2>2. y = Scanned(Append(x.out, e), x.note)
    BY <1>1, <1>2, <2>1, Zenon
  <2>3. y \in ScanStates(W) /\ y.out = Append(x.out, e) /\ y.note = x.note
    <3>1. IsScanned(W, Scanned(Append(x.out, e), x.note), Append(x.out, e), x.note)
      BY <1>1, <1>2, <1>5, Zenon
    <3>2. IsScanned(W, y, Append(x.out, e), x.note)
      BY <2>2, <3>1, Zenon
    <3> QED
      BY <3>2, Zenon DEF IsScanned
  <2>4. t # "nl" /\ t # "--"
    BY <1>8
  <2> QED
    BY <1>8, <2>3, <2>4, Zenon DEF ScanStep, OutAfter, e
<1>9. CASE ~x.note /\ t = "nl"
  <2>1. y = x
    BY <1>1, <1>9 DEF Scan
  <2>2. t \in {"--", "nl"}
    BY <1>9
  <2> QED
    BY <1>9, <2>1, <2>2, Zenon DEF ScanStep, OutAfter
<1>10. CASE ~x.note /\ t \notin {"--", ";", "nl"}
  <2>1. y = [x EXCEPT !.out[Len(x.out)] = Append(@, t), !.data = t = "copy"]
    BY <1>1, <1>10 DEF Scan
  <2> DEFINE p == Longer(x.out, t)
             z == Scanned(p, x.note)
  <2>2. y = [[x EXCEPT !.out = p] EXCEPT !.data = t = "copy"]
    BY <2>1, Zenon DEF Longer
  <2>3. y = [z EXCEPT !.data = t = "copy"]
    BY <1>1, <1>2, <2>2, Zenon
  <2>4. (t = "copy") = FALSE
    BY <1>3
  <2>5. z \in ScanStates(W) /\ z.out = p /\ z.note = x.note /\ z.data = FALSE
    BY <1>1, <1>2, <1>5, Zenon DEF IsScanned
  <2>6. [z EXCEPT !.data = FALSE] = z
    <3> DEFINE L == Lists(W)
    <3> HIDE DEF L, z
    <3>1. z \in [out : L, note : Bools, data : {FALSE}]
      BY <2>5, Zenon DEF L, ScanStates
    <3> QED
      BY <3>1
  <2>7. y = z
    BY <2>3, <2>4, <2>6, Zenon
  <2>8. t # "nl" /\ t # "--" /\ t # ";" /\ t \notin {"--", "nl"}
    BY <1>10
  <2> QED
    BY <1>10, <2>5, <2>7, <2>8, Zenon DEF ScanStep, OutAfter
<1> QED
  BY <1>6, <1>7, <1>8, <1>9, <1>10

ScanOp(W) == [u \in ScanStates(W) \X W |-> Scan(u[1], u[2])]

\* Scanning a script is a run of one token at a time.
LEMMA ScanSteps ==
  ASSUME NEW W, IsAlphabet(W), NEW x \in ScanStates(W), NEW s \in Seq(W)
  PROVE  RunsTo(Len(s), ScanStates(W), x, ScanOp(W), s, FoldLeft(Scan, x, s))
PROOF
<1> DEFINE n == Len(s)
           D == 1..n
           S == ScanStates(W)
           T == W
           g == s
           Next1(a, e) == Scan(a, e)
           IsIter(f) == f = [u \in SUBSET D |->
             IF u = {} THEN x ELSE Next1(f[u \ {Max(u)}], g[Max(u)])]
           Iter == CHOOSE f : IsIter(f)
<1>1. n \in Nat /\ DOMAIN g = D /\ g \in [D -> T]
  OBVIOUS
<1>2. FoldLeft(Scan, x, s) = Iter[D]
  <2>1. FoldLeft(Scan, x, s)
          = (CHOOSE f : f = [u \in SUBSET DOMAIN g |->
               IF u = {} THEN x ELSE Next1(f[u \ {Max(u)}], g[Max(u)])])[DOMAIN g]
    BY DEF FoldLeft, MapThenFoldSet
  <2> HIDE DEF D, g, Next1
  <2> QED
    BY <1>1, <2>1
<1>3. x \in S /\ \A a \in S, e \in T : Next1(a, e) \in S
  BY ScanIsStep DEF ScanStep
<1>4. ScanOp(W) \in [S \X T -> S] /\ \A a \in S, e \in T : ScanOp(W)[<<a, e>>] = Next1(a, e)
  <2>1. ScanOp(W) = [u \in S \X T |-> Next1(u[1], u[2])]
    BY DEF ScanOp
  <2> HIDE DEF S, T, Next1
  <2> QED
    BY <1>3, <2>1
<1> HIDE DEF S, T, g, n, Next1
<1>5. PICK F : IsFold(F, n, S, x, ScanOp(W), g)
  BY <1>1, <1>3, <1>4, FoldExists
<1>6. F \in [SUBSET D -> S]
  BY <1>5 DEF IsFold
<1>7. F = [u \in SUBSET D |->
             IF u = {} THEN x ELSE ScanOp(W)[<<F[u \ {Max(u)}], g[Max(u)]>>]]
  BY <1>5 DEF IsFold
<1>8. \A u \in SUBSET D : u # {} => u \ {Max(u)} \in SUBSET D /\ g[Max(u)] \in T
  <2> SUFFICES ASSUME NEW u \in SUBSET D, u # {}
               PROVE  u \ {Max(u)} \in SUBSET D /\ g[Max(u)] \in T
    OBVIOUS
  <2>1. Max(u) \in D
    BY <1>1, HasMax
  <2> QED
    BY <1>1, <2>1
<1>9. IsIter(F)
  <2>1. \A u \in SUBSET D : u # {} =>
          ScanOp(W)[<<F[u \ {Max(u)}], g[Max(u)]>>] = Next1(F[u \ {Max(u)}], g[Max(u)])
    <3> HIDE DEF D
    <3> QED
      BY <1>4, <1>6, <1>8
  <2> HIDE DEF D
  <2> QED
    BY <1>7, <2>1
<1>10. IsIter(Iter)
  <2> HIDE DEF IsIter
  <2> QED
    BY <1>9
<1> HIDE DEF Iter
<1>11. Iter[{}] = x
  BY <1>10
<1>12. ASSUME NEW u \in SUBSET D, u # {}, Iter[u \ {Max(u)}] \in S
       PROVE  Iter[u] = ScanOp(W)[<<Iter[u \ {Max(u)}], g[Max(u)]>>]
  <2>1. Iter[u] = Next1(Iter[u \ {Max(u)}], g[Max(u)])
    <3> HIDE DEF D
    <3> QED
      BY <1>10, <1>12
  <2>2. g[Max(u)] \in T
    BY <1>8, <1>12
  <2> QED
    BY <1>4, <1>12, <2>1, <2>2
<1>13. RunsTo(n, S, x, ScanOp(W), g, Iter[D])
  <2>1. \A u \in SUBSET (1..n) : u # {} /\ Iter[u \ {Max(u)}] \in S =>
          Iter[u] = ScanOp(W)[<<Iter[u \ {Max(u)}], g[Max(u)]>>]
    BY <1>12
  <2>2. IsBuilt(Iter, n, S, x, ScanOp(W), g)
    BY <1>11, <2>1 DEF IsBuilt
  <2>3. n \in Nat /\ x \in S /\ ScanOp(W) \in [S \X T -> S] /\ g \in [1..n -> T]
    BY <1>1, <1>3, <1>4
  <2> HIDE DEF IsIter
  <2> QED
    BY <2>2, <2>3, RunOfIter
<1> QED
  BY <1>2, <1>13 DEF S, T, g, n

\* How much a scan has seen: the pieces in which something stands, and whether the last is blank.
Written(W) == Seq(W) \ {<<>>}
Stmts(W, x) == CountIn(x.out, Written(W))
Blank(x) == x.out[Len(x.out)] = <<>>
Unnoted(x, t) == x.note \/ t \in {"--", "nl"}
NoteAfter(x, t) == (x.note \/ t = "--") /\ t # "nl"
Opens(x, t) == ~Unnoted(x, t) /\ t # ";" /\ Blank(x)
Looks(W, x, t, y) ==
  /\ y \in ScanStates(W)
  /\ (y.note <=> NoteAfter(x, t))
  /\ (Blank(y) <=> IF Unnoted(x, t) THEN Blank(x) ELSE t = ";")
  /\ Stmts(W, y) = IF Opens(x, t) THEN Stmts(W, x) + 1 ELSE Stmts(W, x)

\* A piece that was blank counts as soon as a token is added.
LEMMA LongerCounts ==
  ASSUME NEW W, NEW p \in Lists(W), NEW t \in W
  PROVE  /\ CountIn(p, Written(W)) \in Nat
         /\ CountIn(Longer(p, t), Written(W))
              = CountIn(p, Written(W)) + (IF p[Len(p)] = <<>> THEN 1 ELSE 0)
         /\ Longer(p, t)[Len(p)] # <<>>
PROOF
<1> DEFINE q == Longer(p, t)
           n == Len(p)
           V == Written(W)
           e == <<>>
<1>1. /\ p \in Seq(Seq(W)) /\ n \in Nat \ {0} /\ q \in Lists(W) /\ Len(q) = n
      /\ \A i \in 1..n : q[i] = IF i = n THEN Append(p[i], t) ELSE p[i]
  <2>1. p \in Seq(Seq(W)) /\ n \in Nat \ {0} /\ q \in Lists(W) /\ Len(q) = n
    BY LongerIs, Zenon
  <2>2. LongerEach(p, t)
    BY LongerIs, Zenon
  <2> QED
    BY <2>1, <2>2, Zenon DEF LongerEach
<1>2. q \in Seq(Seq(W))
  BY <1>1 DEF Lists
<1>3. p[n] \in Seq(W) /\ DOMAIN p = 1..n /\ n \in 1..n
  BY <1>1
<1>4. Append(p[n], t) \in Seq(W) /\ Append(p[n], t) # e
  BY <1>3
<1>5. q[n] \in V /\ q[n] # e /\ (p[n] \in V <=> p[n] # e)
  BY <1>1, <1>3, <1>4 DEF Written
<1>6. DOMAIN q = 1..n
  BY <1>1, <1>2
<1> HIDE DEF q, n, V, e
<1>7. /\ CountIn(p, V) = Overlap(1..n, At(p, V)) /\ CountIn(p, V) \in Nat
      /\ CountIn(q, V) = Overlap(1..n, At(q, V)) /\ CountIn(q, V) \in Nat
  BY <1>1, <1>2, CountIsOverlap DEF n
<1>8. /\ Overlap(1..(n - 1), At(p, V)) \in Nat
      /\ Overlap(1..n, At(p, V)) = Overlap(1..(n - 1), At(p, V)) + Bit(n, At(p, V))
      /\ Overlap(1..n, At(q, V)) = Overlap(1..(n - 1), At(q, V)) + Bit(n, At(q, V))
  BY <1>1, OverlapNext
<1>9. Overlap(1..(n - 1), At(p, V)) = Overlap(1..(n - 1), At(q, V))
  <2>1. \A i \in 1..(n - 1) : i \in 1..n /\ i # n
    BY <1>1
  <2>2. \A i \in 1..(n - 1) : q[i] = p[i]
    BY <1>1, <2>1
  <2>3. (1..(n - 1)) \cap At(p, V) = (1..(n - 1)) \cap At(q, V)
    BY <1>3, <1>6, <2>1, <2>2 DEF At
  <2> QED
    BY <2>3 DEF Overlap
<1>10. Bit(n, At(q, V)) = 1 /\ Bit(n, At(p, V)) = IF p[n] = e THEN 0 ELSE 1
  <2>1. n \in At(q, V) /\ (n \in At(p, V) <=> p[n] # e)
    BY <1>3, <1>5, <1>6 DEF At
  <2> QED
    BY <2>1 DEF Bit
<1>11. CountIn(q, V) = CountIn(p, V) + (IF p[n] = e THEN 1 ELSE 0)
  BY <1>7, <1>8, <1>9, <1>10
<1> QED
  BY <1>5, <1>7, <1>11 DEF q, n, V, e

\* What a token does to the number of statements depends only on the comment and the last piece.
LEMMA ScanLooks ==
  ASSUME NEW W, IsAlphabet(W), NEW x \in ScanStates(W), NEW t \in W
  PROVE  Looks(W, x, t, Scan(x, t)) /\ Stmts(W, x) \in Nat
PROOF
<1> DEFINE y == Scan(x, t)
           p == x.out
           V == Written(W)
           e == <<>>
<1>1. y \in ScanStates(W) /\ y.out = OutAfter(x, t) /\ (y.note <=> NoteAfter(x, t))
  BY ScanIsStep, Zenon DEF ScanStep, NoteAfter
<1>2. p \in Lists(W)
  BY ScanExcept, Zenon
<1>3. p \in Seq(Seq(W)) /\ Len(p) \in Nat \ {0} /\ Len(Longer(p, t)) = Len(p)
  <2>1. p \in Lists(W)
    BY <1>2
  <2> HIDE DEF p
  <2> QED
    BY <2>1, LongerIs, Zenon
<1>4. /\ CountIn(p, V) \in Nat
      /\ CountIn(Longer(p, t), V) = CountIn(p, V) + (IF p[Len(p)] = e THEN 1 ELSE 0)
      /\ Longer(p, t)[Len(p)] # e
  <2>1. p \in Lists(W)
    BY <1>2
  <2> HIDE DEF p
  <2> QED
    BY <2>1, LongerCounts
<1>5. /\ Append(p, e)[Len(Append(p, e))] = e
      /\ CountIn(Append(p, e), V) = CountIn(p, V)
  <2>1. e \in Seq(W) /\ e \notin V
    BY DEF Written
  <2> HIDE DEF e, V, p
  <2>2. Append(p, e)[Len(Append(p, e))] = e
    BY <1>3, <2>1
  <2>3. CountIn(Append(p, e), V) = CountIn(p, V) + (IF e \in V THEN 1 ELSE 0)
    BY <1>3, <2>1, CountOfAppend
  <2> QED
    BY <1>4, <2>1, <2>2, <2>3
<1> HIDE DEF y, p, V, e
<1>6. CASE Unnoted(x, t)
  <2>1. y.out = p
    BY <1>1, <1>6, Zenon DEF OutAfter, Unnoted, p
  <2> QED
    BY <1>1, <1>4, <1>6, <2>1, Zenon DEF Looks, Blank, Stmts, Opens, p, y, V
<1>7. CASE ~Unnoted(x, t) /\ t = ";"
  <2>1. y.out = Append(p, e)
    BY <1>1, <1>7, Zenon DEF OutAfter, Unnoted, p, e
  <2> QED
    BY <1>1, <1>4, <1>5, <1>7, <2>1, Zenon DEF Looks, Blank, Stmts, Opens, p, y, V, e
<1>8. CASE ~Unnoted(x, t) /\ t # ";"
  <2>1. y.out = Longer(p, t)
    BY <1>1, <1>8, Zenon DEF OutAfter, Unnoted, p
  <2>2. ~Blank(y) /\ (Blank(x) <=> p[Len(p)] = e)
    <3>1. y.out[Len(y.out)] = Longer(p, t)[Len(p)]
      BY <1>3, <2>1
    <3> QED
      BY <1>4, <3>1, Zenon DEF Blank, p, e
  <2>3. Stmts(W, x) = CountIn(p, V) /\ Stmts(W, y) = CountIn(Longer(p, t), V)
    BY <2>1, Zenon DEF Stmts, p, V
  <2>4. Stmts(W, y) = IF Opens(x, t) THEN Stmts(W, x) + 1 ELSE Stmts(W, x)
    <3>1. Opens(x, t) <=> p[Len(p)] = e
      BY <1>8, <2>2, Zenon DEF Opens
    <3> QED
      BY <1>4, <2>3, <3>1
  <2>5. Stmts(W, x) \in Nat
    BY <1>4, <2>3, Zenon
  <2> QED
    BY <1>1, <1>8, <2>2, <2>4, <2>5, Zenon DEF Looks, y
<1> QED
  BY <1>6, <1>7, <1>8

\* The states that a scan goes through.
IsScan(A, W, x, s) == IsRun(A, Len(s), ScanStates(W), x, ScanOp(W), s)
LEMMA ScanGoes ==
  ASSUME NEW W, IsAlphabet(W), NEW x \in ScanStates(W), NEW s \in Seq(W)
  PROVE  \E A : IsScan(A, W, x, s) /\ A[Len(s)] = FoldLeft(Scan, x, s)
PROOF
BY ScanSteps, Zenon DEF RunsTo, IsScan

\* At every place of a script the scan has a typed state and the next token does what ScanLooks says.
LEMMA ScanStepsLook ==
  ASSUME NEW W, IsAlphabet(W), NEW x, NEW s \in Seq(W), NEW A, IsScan(A, W, x, s),
         NEW i \in 1..Len(s)
  PROVE  /\ A[i - 1] \in ScanStates(W) /\ A[i] \in ScanStates(W) /\ s[i] \in W
         /\ A[i] = Scan(A[i - 1], s[i])
         /\ Looks(W, A[i - 1], s[i], A[i]) /\ Stmts(W, A[i - 1]) \in Nat
PROOF
<1> DEFINE S == ScanStates(W)
           a == A[i - 1]
           t == s[i]
<1> HIDE DEF S
<1>1. A \in [0..Len(s) -> S] /\ A[i] = ScanOp(W)[<<a, t>>]
  BY DEF IsScan, IsRun, S
<1>2. i - 1 \in 0..Len(s) /\ i \in 0..Len(s) /\ t \in W
  OBVIOUS
<1>3. a \in S /\ A[i] \in S
  BY <1>1, <1>2
<1>4. ScanOp(W) = [u \in S \X W |-> Scan(u[1], u[2])]
  BY DEF ScanOp, S
<1> HIDE DEF a, t
<1>5. ScanOp(W)[<<a, t>>] = Scan(a, t)
  BY <1>2, <1>3, <1>4
<1>6. Looks(W, a, t, Scan(a, t)) /\ Stmts(W, a) \in Nat
  BY <1>2, <1>3, ScanLooks DEF S
<1> QED
  BY <1>1, <1>2, <1>3, <1>5, <1>6, Zenon DEF S, a, t

\* A scan goes on where the scan of the first part ended.
LEMMA ScanTyped ==
  ASSUME NEW W, IsAlphabet(W), NEW x \in ScanStates(W), NEW s \in Seq(W)
  PROVE  FoldLeft(Scan, x, s) \in ScanStates(W)
PROOF
<1>1. PICK A : IsScan(A, W, x, s) /\ A[Len(s)] = FoldLeft(Scan, x, s)
  BY ScanGoes
<1> DEFINE S == ScanStates(W)
           r == FoldLeft(Scan, x, s)
           n == Len(s)
<1>2. A \in [0..n -> S] /\ A[n] = r
  BY <1>1, Zenon DEF IsScan, IsRun
<1>3. n \in 0..n
  OBVIOUS
<1> HIDE DEF S, r, n
<1>4. r \in S
  BY <1>2, <1>3
<1> QED
  BY <1>4, Zenon DEF r, S

\* Scanning two scripts put together is scanning the second where the first one ended.
LEMMA ScanBoth ==
  ASSUME NEW W, IsAlphabet(W), NEW x \in ScanStates(W), NEW a \in Seq(W), NEW b \in Seq(W)
  PROVE  FoldLeft(Scan, x, a \o b) = FoldLeft(Scan, FoldLeft(Scan, x, a), b)
PROOF
<1> DEFINE c == a \o b
           n == Len(a)
           m == Len(b)
           y == FoldLeft(Scan, x, a)
           S == ScanStates(W)
           op == ScanOp(W)
<1>1. /\ c \in Seq(W) /\ n \in Nat /\ m \in Nat /\ Len(c) = n + m
      /\ \A i \in 1..n : c[i] = a[i]
      /\ \A i \in 1..m : c[n + i] = b[i]
  OBVIOUS
<1>2. y \in ScanStates(W)
  BY ScanTyped, Zenon
<1> HIDE DEF c
<1>3. PICK A : IsScan(A, W, x, a) /\ A[n] = y
  BY ScanGoes, Zenon
<1>4. PICK B : IsScan(B, W, y, b) /\ B[m] = FoldLeft(Scan, y, b)
  <2> HIDE DEF y
  <2> QED
    BY <1>2, ScanGoes, Zenon
<1>5. PICK C : IsScan(C, W, x, c) /\ C[Len(c)] = FoldLeft(Scan, x, c)
  BY <1>1, ScanGoes, Zenon
<1>6. /\ IsRun(A, n, S, x, op, a) /\ IsRun(B, m, S, y, op, b) /\ y = A[n]
      /\ IsRun(C, n + m, S, x, op, c)
  BY <1>1, <1>3, <1>4, <1>5, Zenon DEF IsScan
<1>7. C[n + m] = FoldLeft(Scan, x, c)
  BY <1>1, <1>5, Zenon
<1> HIDE DEF n, m, y, S, op
<1>8. C[n + m] = B[m]
  <2>1. IsJoined(c, n, a, m, b)
    BY <1>1, Zenon DEF IsJoined
  <2>2. n \in Nat /\ m \in Nat
    BY <1>1
  <2> QED
    BY <1>6, <2>1, <2>2, RunGoesOn
<1> QED
  BY <1>4, <1>7, <1>8, Zenon DEF c, m, y

\* Two scans that look the same, but for c pieces seen before, still do so a script later.
Alike(W, x, z, c) ==
  (x.note <=> z.note) /\ (Blank(x) <=> Blank(z)) /\ Stmts(W, x) = Stmts(W, z) + c

\* Two scans that look alike at the start look alike at the end, c statements apart.
LEMMA ScanAlike ==
  ASSUME NEW W, IsAlphabet(W), NEW x \in ScanStates(W), NEW z \in ScanStates(W),
         NEW c \in Nat, Alike(W, x, z, c), NEW s \in Seq(W)
  PROVE  Alike(W, FoldLeft(Scan, x, s), FoldLeft(Scan, z, s), c)
PROOF
<1> DEFINE n == Len(s)
<1>1. PICK A : IsScan(A, W, x, s) /\ A[n] = FoldLeft(Scan, x, s)
  BY ScanGoes, Zenon
<1>2. PICK B : IsScan(B, W, z, s) /\ B[n] = FoldLeft(Scan, z, s)
  BY ScanGoes, Zenon
<1> DEFINE E == {i \in 0..n : Alike(W, A[i], B[i], c)}
<1>3. 0 \in E
  <2>1. A[0] = x /\ B[0] = z
    BY <1>1, <1>2, Zenon DEF IsScan, IsRun
  <2>2. 0 \in 0..n
    OBVIOUS
  <2> QED
    BY <2>1, <2>2, Zenon
<1>4. ASSUME NEW i \in 1..n, i - 1 \in E PROVE i \in E
  <2> DEFINE a == A[i - 1]
             b == B[i - 1]
             t == s[i]
  <2>1. Looks(W, a, t, A[i]) /\ Stmts(W, a) \in Nat
    BY <1>1, ScanStepsLook, Zenon
  <2>2. Looks(W, b, t, B[i]) /\ Stmts(W, b) \in Nat
    BY <1>2, ScanStepsLook, Zenon
  <2>3. Alike(W, a, b, c) /\ i \in 0..n
    BY <1>4
  <2> HIDE DEF a, b, t
  <2>4. (Unnoted(a, t) <=> Unnoted(b, t)) /\ (NoteAfter(a, t) <=> NoteAfter(b, t))
    BY <2>3, Zenon DEF Alike, Unnoted, NoteAfter
  <2>5. Opens(a, t) <=> Opens(b, t)
    BY <2>3, <2>4, Zenon DEF Alike, Opens
  <2>6. (A[i].note <=> B[i].note) /\ (Blank(A[i]) <=> Blank(B[i]))
    BY <2>1, <2>2, <2>3, <2>4, Zenon DEF Alike, Looks
  <2>7. Stmts(W, A[i]) = Stmts(W, B[i]) + c
    <3>1. Stmts(W, A[i]) = IF Opens(a, t) THEN Stmts(W, a) + 1 ELSE Stmts(W, a)
      BY <2>1, Zenon DEF Looks
    <3>2. Stmts(W, B[i]) = IF Opens(a, t) THEN Stmts(W, b) + 1 ELSE Stmts(W, b)
      BY <2>2, <2>5, Zenon DEF Looks
    <3>3. Stmts(W, a) = Stmts(W, b) + c
      BY <2>3, Zenon DEF Alike
    <3> QED
      BY <2>1, <2>2, <3>1, <3>2, <3>3
  <2>8. Alike(W, A[i], B[i], c)
    BY <2>6, <2>7, Zenon DEF Alike
  <2> QED
    BY <2>3, <2>8, Zenon
<1>5. n \in Nat /\ n \in 0..n
  OBVIOUS
<1>6. n \in E
  <2> HIDE DEF E, n
  <2> QED
    BY <1>3, <1>4, <1>5, UpTo
<1>7. Alike(W, A[n], B[n], c)
  BY <1>6
<1> QED
  BY <1>1, <1>2, <1>7, Zenon

\* Terminators by themselves are no statements.
OnlyTerminators(s) == \A i \in 1..Len(s) : s[i] = ";"
LEMMA ScanOfTerminators ==
  ASSUME NEW W, IsAlphabet(W), NEW x \in ScanStates(W), NEW s \in Seq(W),
         OnlyTerminators(s)
  PROVE  Stmts(W, FoldLeft(Scan, x, s)) = Stmts(W, x)
PROOF
<1> DEFINE n == Len(s)
<1>1. PICK A : IsScan(A, W, x, s) /\ A[n] = FoldLeft(Scan, x, s)
  BY ScanGoes, Zenon
<1> DEFINE E == {i \in 0..n : Stmts(W, A[i]) = Stmts(W, x)}
<1>3. 0 \in E
  <2>1. A[0] = x
    BY <1>1, Zenon DEF IsScan, IsRun
  <2>2. 0 \in 0..n
    OBVIOUS
  <2> QED
    BY <2>1, <2>2, Zenon
<1>4. ASSUME NEW i \in 1..n, i - 1 \in E PROVE i \in E
  <2>1. Looks(W, A[i - 1], s[i], A[i])
    BY <1>1, ScanStepsLook, Zenon
  <2>2. Stmts(W, A[i - 1]) = Stmts(W, x) /\ i \in 0..n
    BY <1>4
  <2>4. s[i] = ";"
    BY Zenon DEF OnlyTerminators
  <2>3. Stmts(W, A[i]) = Stmts(W, A[i - 1])
    BY <2>1, <2>4, Zenon DEF Looks, Opens
  <2> QED
    BY <2>2, <2>3, Zenon
<1>5. n \in Nat /\ n \in 0..n
  OBVIOUS
<1>6. n \in E
  <2> HIDE DEF E, n
  <2> QED
    BY <1>3, <1>4, <1>5, UpTo
<1> QED
  BY <1>1, <1>6

\* Behind the terminator that stands on a line of its own, a scan looks like a new one,
\* whatever came before.
Between == <<"nl", ";", "nl">>
LEMMA ScanOfBetween ==
  ASSUME NEW W, IsAlphabet(W), NEW x \in ScanStates(W)
  PROVE  LET y == FoldLeft(Scan, x, Between)
         IN  ~y.note /\ Blank(y) /\ Stmts(W, y) = Stmts(W, x) /\ Stmts(W, x) \in Nat
PROOF
<1> DEFINE s == Between
<1>1. s \in Seq(W) /\ Len(s) = 3 /\ s[1] = "nl" /\ s[2] = ";" /\ s[3] = "nl"
  <2>1. \A a, b \in W : /\ <<a, b, a>> \in Seq(W) /\ Len(<<a, b, a>>) = 3
                          /\ <<a, b, a>>[1] = a /\ <<a, b, a>>[2] = b /\ <<a, b, a>>[3] = a
    OBVIOUS
  <2>2. "nl" \in W /\ ";" \in W
    BY Zenon DEF IsAlphabet
  <2> QED
    BY <2>1, <2>2, Zenon DEF Between
<1> HIDE DEF s
<1>2. PICK A : IsScan(A, W, x, s) /\ A[Len(s)] = FoldLeft(Scan, x, s)
  BY <1>1, ScanGoes, Zenon
<1>3. A[0] = x
  BY <1>2, Zenon DEF IsScan, IsRun
<1>4. 1 \in 1..Len(s) /\ 2 \in 1..Len(s) /\ 3 \in 1..Len(s) /\ 1 - 1 = 0 /\ 2 - 1 = 1 /\ 3 - 1 = 2
  <2>1. Len(s) = 3
    BY <1>1, Zenon
  <2>2. 1 \in 1..3 /\ 2 \in 1..3 /\ 3 \in 1..3 /\ 1 - 1 = 0 /\ 2 - 1 = 1 /\ 3 - 1 = 2
    OBVIOUS
  <2> QED
    BY <2>1, <2>2, Zenon
<1>5. Looks(W, A[0], "nl", A[1]) /\ Stmts(W, A[0]) \in Nat
  <2>1. Looks(W, A[1 - 1], s[1], A[1]) /\ Stmts(W, A[1 - 1]) \in Nat
    BY <1>1, <1>2, <1>4, ScanStepsLook, Zenon
  <2> QED
    BY <1>1, <1>4, <2>1, Zenon
<1>6. Looks(W, A[1], ";", A[2])
  <2>1. Looks(W, A[2 - 1], s[2], A[2])
    BY <1>1, <1>2, <1>4, ScanStepsLook, Zenon
  <2> QED
    BY <1>1, <1>4, <2>1, Zenon
<1>7. Looks(W, A[2], "nl", A[3])
  <2>1. Looks(W, A[3 - 1], s[3], A[3])
    BY <1>1, <1>2, <1>4, ScanStepsLook, Zenon
  <2> QED
    BY <1>1, <1>4, <2>1, Zenon
<1>8. ~A[1].note /\ Stmts(W, A[1]) = Stmts(W, A[0])
  BY <1>5, Zenon DEF Looks, NoteAfter, Opens, Unnoted
<1>9. ~A[2].note /\ Stmts(W, A[2]) = Stmts(W, A[1]) /\ Blank(A[2])
  <2>1. ";" # "--" /\ ";" # "nl"
    OBVIOUS
  <2> QED
    BY <1>6, <1>8, <2>1, Zenon DEF Looks, NoteAfter, Opens, Unnoted
<1>10. ~A[3].note /\ Stmts(W, A[3]) = Stmts(W, A[2]) /\ Blank(A[3])
  BY <1>7, <1>9, Zenon DEF Looks, NoteAfter, Opens, Unnoted
<1>11. A[3] = FoldLeft(Scan, x, Between)
  BY <1>1, <1>2, Zenon DEF s
<1> QED
  BY <1>3, <1>5, <1>8, <1>9, <1>10, <1>11, Zenon

\* A new scan has no statement and is outside of comments.
LEMMA NewScan ==
  ASSUME NEW W
  PROVE  /\ Unscanned \in ScanStates(W) /\ ~Unscanned.note /\ Blank(Unscanned)
         /\ Stmts(W, Unscanned) = 0
PROOF
<1> DEFINE e == <<>>
           T == Seq(W)
           p == <<e>>
<1>1. e \in T /\ e \notin Written(W)
  BY DEF Written
<1> HIDE DEF e, T
<1>2. p \in Seq(T) /\ Len(p) = 1 /\ p[1] = e /\ DOMAIN p = 1..1
  BY <1>1
<1> HIDE DEF p
<1>3. p \in Lists(W)
  <2>1. Len(p) > 0
    BY <1>2
  <2> QED
    BY <1>2, <2>1, Zenon DEF Lists, T
<1>4. FALSE \in Bools
  BY DEF Bools
<1>5. Unscanned = Scanned(p, FALSE)
  BY DEF Unscanned, Scanned, ScanAt, p, e
<1>6. IsScanned(W, Unscanned, p, FALSE)
  <2>1. IsScanned(W, Scanned(p, FALSE), p, FALSE)
    BY <1>3, <1>4, ScannedParts, Zenon
  <2> QED
    BY <1>5, <2>1, Zenon
<1>7. Unscanned \in ScanStates(W) /\ Unscanned.out = p /\ ~Unscanned.note
  BY <1>6, Zenon DEF IsScanned
<1>8. p[Len(p)] = e
  BY <1>2
<1>9. CountIn(p, Written(W)) = 0
  <2> DEFINE V == Written(W)
  <2> HIDE DEF V
  <2>1. At(p, V) = {}
    BY <1>1, <1>2 DEF At, V
  <2>2. CountIn(p, V) = 0
    BY <2>1, FS_EmptySet DEF CountIn
  <2> QED
    BY <2>2 DEF V
<1> QED
  BY <1>7, <1>8, <1>9, Zenon DEF Blank, Stmts, e

\* A list is its first k elements and the others.
LEMMA SplitList ==
  ASSUME NEW T, NEW s \in Seq(T), NEW k \in 0..Len(s)
  PROVE  /\ SubSeq(s, 1, k) \in Seq(T) /\ SubSeq(s, k + 1, Len(s)) \in Seq(T)
         /\ s = SubSeq(s, 1, k) \o SubSeq(s, k + 1, Len(s))
         /\ Len(SubSeq(s, k + 1, Len(s))) = Len(s) - k
         /\ \A i \in 1..(Len(s) - k) : SubSeq(s, k + 1, Len(s))[i] = s[k + i]
PROOF
<1> DEFINE n == Len(s)
           a == SubSeq(s, 1, k)
           b == SubSeq(s, k + 1, n)
<1>1. n \in Nat /\ k \in Nat /\ k <= n /\ DOMAIN s = 1..n
  OBVIOUS
<1>2. a \in Seq(T) /\ Len(a) = k /\ \A i \in 1..k : a[i] = s[i]
  BY <1>1
<1>3. b \in Seq(T) /\ Len(b) = n - k /\ \A i \in 1..(n - k) : b[i] = s[k + i]
  <2> DEFINE m == k + 1
  <2>1. m \in Int /\ n \in Int /\ m = k + 1 /\ \A i \in m..n : s[i] \in T
    BY <1>1
  <2> HIDE DEF m, n
  <2>2. /\ SubSeq(s, m, n) \in Seq(T)
        /\ Len(SubSeq(s, m, n)) = IF m <= n THEN n - m + 1 ELSE 0
        /\ \A i \in 1..n - m + 1 : SubSeq(s, m, n)[i] = s[m + i - 1]
    BY <2>1, SubSeqProperties
  <2> DEFINE c == SubSeq(s, m, n)
  <2>3. b = c
    BY DEF m, n
  <2> HIDE DEF c, b
  <2>4. c \in Seq(T) /\ Len(c) = n - k /\ \A i \in 1..(n - k) : c[i] = s[k + i]
    <3>1. c \in Seq(T) /\ Len(c) = IF m <= n THEN n - m + 1 ELSE 0
      BY <2>2 DEF c
    <3>2. \A i \in 1..n - m + 1 : c[i] = s[m + i - 1]
      BY <2>2 DEF c
    <3>3. n - m + 1 = n - k /\ (~(m <= n) => n - k = 0)
      BY <1>1, <2>1
    <3>4. \A i \in 1..(n - k) : m + i - 1 = k + i
      BY <1>1, <2>1
    <3> QED
      BY <3>1, <3>2, <3>3, <3>4
  <2> QED
    BY <2>3, <2>4, Zenon
<1> HIDE DEF a, b
<1> DEFINE ab == a \o b
<1>4. /\ ab \in Seq(T) /\ Len(ab) = Len(a) + Len(b)
      /\ \A i \in 1..Len(a) + Len(b) : ab[i] = IF i <= Len(a) THEN a[i] ELSE b[i - Len(a)]
  BY <1>2, <1>3, ConcatProperties
<1> HIDE DEF ab
<1>5. \A i \in 1..n : ab[i] = s[i]
  <2> SUFFICES ASSUME NEW i \in 1..n PROVE ab[i] = s[i]
    OBVIOUS
  <2>0. Len(a) = k /\ Len(a) + Len(b) = n
    BY <1>1, <1>2, <1>3
  <2>1. CASE i <= k
    BY <1>1, <1>2, <1>4, <2>0, <2>1
  <2>2. CASE i > k
    <3>1. i - k \in 1..(n - k) /\ k + (i - k) = i
      BY <1>1, <2>2
    <3>2. ab[i] = b[i - k]
      BY <1>1, <1>4, <2>0, <2>2
    <3>3. b[i - k] = s[k + (i - k)]
      BY <1>3, <3>1
    <3> QED
      BY <3>1, <3>2, <3>3
  <2> QED
    BY <1>1, <2>1, <2>2
<1>6. s = ab
  <2>1. Len(s) = Len(ab) /\ s \in Seq(T) /\ \A i \in 1..Len(s) : s[i] = ab[i]
    BY <1>1, <1>2, <1>3, <1>4, <1>5
  <2> QED
    BY <1>4, <2>1, SeqEqual
<1> QED
  BY <1>2, <1>3, <1>6 DEF a, b, ab

\* What is left of a statement, and what was stripped.
IsStripped(W, s, rest) ==
  /\ StripEnd(s) \in Seq(W) /\ rest \in Seq(W) /\ s = StripEnd(s) \o rest
  /\ OnlyTerminators(rest)
LEMMA StripSplits ==
  ASSUME NEW W, NEW s \in Seq(W)
  PROVE  \E rest : IsStripped(W, s, rest)
PROOF
<1> DEFINE n == Len(s)
           e == ";"
           keep == {i \in DOMAIN s : s[i] # e}
           k == IF keep = {} THEN 0 ELSE Max(keep)
           a == SubSeq(s, 1, k)
           rest == SubSeq(s, k + 1, n)
<1>0. n \in Nat /\ DOMAIN s = 1..n
  OBVIOUS
<1>1. keep \in SUBSET (1..n)
  <2> HIDE DEF e
  <2> QED
    BY <1>0
<1>2. k \in 0..n /\ \A i \in (k + 1)..n : i \in 1..n /\ i \notin keep
  <2>1. CASE keep = {}
    <3>1. k = 0
      BY <2>1, Zenon
    <3> HIDE DEF keep, k
    <3> QED
      BY <1>0, <2>1, <3>1
  <2>2. CASE keep # {}
    <3>1. k = Max(keep)
      BY <2>2, Zenon
    <3>2. Max(keep) \in keep /\ \A y \in keep : y <= Max(keep)
      <4> HIDE DEF keep
      <4> QED
        BY <1>0, <1>1, <2>2, HasMax
    <3> HIDE DEF keep, k
    <3>3. k \in 1..n
      BY <1>1, <3>1, <3>2
    <3> QED
      BY <1>0, <3>1, <3>2, <3>3
  <2> QED
    BY <2>1, <2>2
<1>3. StripEnd(s) = a
  <2>1. CASE keep = {}
    <3>1. StripEnd(s) = <<>> /\ k = 0
      BY <2>1, Zenon DEF StripEnd
    <3>2. SubSeq(s, 1, 0) = <<>>
      OBVIOUS
    <3> QED
      BY <3>1, <3>2, Zenon
  <2>2. CASE keep # {}
    BY <2>2, Zenon DEF StripEnd
  <2> QED
    BY <2>1, <2>2
<1>4. \A i \in (k + 1)..n : s[i] = e
  <2> HIDE DEF e, k
  <2> QED
    BY <1>0, <1>2
<1>5. k \in 0..n
  BY <1>2, Zenon
<1> HIDE DEF k, e, keep
<1>6. /\ a \in Seq(W) /\ rest \in Seq(W) /\ s = a \o rest
      /\ Len(rest) = n - k /\ \A i \in 1..(n - k) : rest[i] = s[k + i]
  BY <1>5, SplitList
<1>8. \A i \in 1..Len(rest) : rest[i] = e
  <2>1. \A i \in 1..(n - k) : k + i \in (k + 1)..n
    BY <1>0, <1>5
  <2>2. \A i \in 1..(n - k) : s[k + i] = e
    BY <1>4, <2>1, Zenon
  <2> QED
    BY <1>6, <2>2, Zenon
<1>7. OnlyTerminators(rest)
  BY <1>8, Zenon DEF OnlyTerminators, e
<1> QED
  BY <1>3, <1>6, <1>7, Zenon DEF IsStripped

\* What was stripped would not have counted.
LEMMA StripKeepsCount ==
  ASSUME NEW W, IsAlphabet(W), NEW x \in ScanStates(W), NEW s \in Seq(W)
  PROVE  /\ StripEnd(s) \in Seq(W)
         /\ Stmts(W, FoldLeft(Scan, x, StripEnd(s))) = Stmts(W, FoldLeft(Scan, x, s))
PROOF
<1>1. PICK rest : IsStripped(W, s, rest)
  BY StripSplits
<1> DEFINE a == StripEnd(s)
           y == FoldLeft(Scan, x, a)
<1>2. a \in Seq(W) /\ rest \in Seq(W) /\ s = a \o rest /\ OnlyTerminators(rest)
  BY <1>1, Zenon DEF IsStripped
<1> HIDE DEF a
<1>3. y \in ScanStates(W)
  BY <1>2, ScanTyped, Zenon
<1>4. FoldLeft(Scan, x, a \o rest) = FoldLeft(Scan, y, rest)
  <2>1. a \in Seq(W) /\ rest \in Seq(W)
    BY <1>2, Zenon
  <2> QED
    BY <2>1, ScanBoth
<1>5. Stmts(W, FoldLeft(Scan, y, rest)) = Stmts(W, y)
  <2> HIDE DEF y
  <2> QED
    BY <1>2, <1>3, ScanOfTerminators, Zenon
<1>6. FoldLeft(Scan, x, s) = FoldLeft(Scan, y, rest)
  BY <1>2, <1>4, Zenon
<1>7. Stmts(W, y) = Stmts(W, FoldLeft(Scan, x, s))
  BY <1>5, <1>6, Zenon
<1> QED
  BY <1>2, <1>7, Zenon DEF a, y

\* join_batch, statement by statement.
JoinPush(stmts, list, i) ==
  list \o (IF i > 1 THEN <<"nl", ";", "nl">> ELSE <<>>) \o StripEnd(stmts[i])
JoinOp(W, stmts) == [x \in Seq(W) \X (1..Len(stmts)) |-> JoinPush(stmts, x[1], x[2])]

\* One more statement in a batch leaves a script of tokens.
LEMMA JoinTyped ==
  ASSUME NEW W, IsAlphabet(W), NEW stmts \in Seq(Seq(W)), NEW i \in 1..Len(stmts),
         NEW a \in Seq(W)
  PROVE  JoinPush(stmts, a, i) \in Seq(W)
PROOF
<1> DEFINE sep == IF i > 1 THEN Between ELSE <<>>
           end == StripEnd(stmts[i])
<1>1. sep \in Seq(W)
  <2>1. Between \in Seq(W)
    <3>1. \A u, v \in W : <<u, v, u>> \in Seq(W)
      OBVIOUS
    <3>2. "nl" \in W /\ ";" \in W
      BY Zenon DEF IsAlphabet
    <3> QED
      BY <3>1, <3>2, Zenon DEF Between
  <2>2. <<>> \in Seq(W)
    OBVIOUS
  <2> QED
    BY <2>1, <2>2, Zenon
<1>2. end \in Seq(W)
  <2>1. stmts[i] \in Seq(W)
    <3> DEFINE T == Seq(W)
    <3> HIDE DEF T
    <3>1. stmts \in Seq(T)
      BY DEF T
    <3>2. stmts[i] \in T
      BY <3>1
    <3> QED
      BY <3>2 DEF T
  <2>2. Unscanned \in ScanStates(W)
    BY NewScan, Zenon
  <2> QED
    BY <2>1, <2>2, StripKeepsCount, Zenon
<1>3. JoinPush(stmts, a, i) = (a \o sep) \o end
  BY Zenon DEF JoinPush, Between
<1> HIDE DEF sep, end
<1>4. (a \o sep) \o end \in Seq(W)
  BY <1>1, <1>2
<1> QED
  BY <1>3, <1>4, Zenon

\* Joining a batch is a run of one statement at a time.
LEMMA JoinSteps ==
  ASSUME NEW W, IsAlphabet(W), NEW stmts \in Seq(Seq(W))
  PROVE  RunsTo(Len(stmts), Seq(W), <<>>, JoinOp(W, stmts), [i \in DOMAIN stmts |-> i],
                JoinBatch(stmts))
PROOF
<1> DEFINE n == Len(stmts)
           D == 1..n
           S == Seq(W)
           T == 1..Len(stmts)
           g == [i \in DOMAIN stmts |-> i]
           Next1(a, e) == JoinPush(stmts, a, e)
           IsIter(f) == f = [u \in SUBSET D |->
             IF u = {} THEN <<>> ELSE Next1(f[u \ {Max(u)}], g[Max(u)])]
           Iter == CHOOSE f : IsIter(f)
<1>1. n \in Nat /\ DOMAIN g = D /\ g \in [D -> T]
  OBVIOUS
<1>2. JoinBatch(stmts) = Iter[D]
  <2>1. JoinBatch(stmts)
          = (CHOOSE f : f = [u \in SUBSET DOMAIN g |->
               IF u = {} THEN <<>> ELSE Next1(f[u \ {Max(u)}], g[Max(u)])])[DOMAIN g]
    BY DEF JoinBatch, JoinPush, FoldLeft, MapThenFoldSet
  <2> HIDE DEF D, g, Next1
  <2> QED
    BY <1>1, <2>1
<1>3. <<>> \in S /\ \A a \in S, e \in T : Next1(a, e) \in S
  BY JoinTyped
<1>4. JoinOp(W, stmts) \in [S \X T -> S] /\ \A a \in S, e \in T : JoinOp(W, stmts)[<<a, e>>] = Next1(a, e)
  <2>1. JoinOp(W, stmts) = [x \in S \X T |-> Next1(x[1], x[2])]
    BY DEF JoinOp
  <2> HIDE DEF S, T, Next1
  <2> QED
    BY <1>3, <2>1
<1> HIDE DEF S, T, g, n, Next1
<1>5. PICK F : IsFold(F, n, S, <<>>, JoinOp(W, stmts), g)
  BY <1>1, <1>3, <1>4, FoldExists
<1>6. F \in [SUBSET D -> S]
  BY <1>5 DEF IsFold
<1>7. F = [u \in SUBSET D |->
             IF u = {} THEN <<>> ELSE JoinOp(W, stmts)[<<F[u \ {Max(u)}], g[Max(u)]>>]]
  BY <1>5 DEF IsFold
<1>8. \A u \in SUBSET D : u # {} => u \ {Max(u)} \in SUBSET D /\ g[Max(u)] \in T
  <2> SUFFICES ASSUME NEW u \in SUBSET D, u # {}
               PROVE  u \ {Max(u)} \in SUBSET D /\ g[Max(u)] \in T
    OBVIOUS
  <2>1. Max(u) \in D
    BY <1>1, HasMax
  <2> QED
    BY <1>1, <2>1
<1>9. IsIter(F)
  <2>1. \A u \in SUBSET D : u # {} =>
          JoinOp(W, stmts)[<<F[u \ {Max(u)}], g[Max(u)]>>] = Next1(F[u \ {Max(u)}], g[Max(u)])
    <3> HIDE DEF D
    <3> QED
      BY <1>4, <1>6, <1>8
  <2> HIDE DEF D
  <2> QED
    BY <1>7, <2>1
<1>10. IsIter(Iter)
  <2> HIDE DEF IsIter
  <2> QED
    BY <1>9
<1> HIDE DEF Iter
<1>11. Iter[{}] = <<>>
  BY <1>10
<1>12. ASSUME NEW u \in SUBSET D, u # {}, Iter[u \ {Max(u)}] \in S
       PROVE  Iter[u] = JoinOp(W, stmts)[<<Iter[u \ {Max(u)}], g[Max(u)]>>]
  <2>1. Iter[u] = Next1(Iter[u \ {Max(u)}], g[Max(u)])
    <3> HIDE DEF D
    <3> QED
      BY <1>10, <1>12
  <2>2. g[Max(u)] \in T
    BY <1>8, <1>12
  <2> QED
    BY <1>4, <1>12, <2>1, <2>2
<1>13. RunsTo(n, S, <<>>, JoinOp(W, stmts), g, Iter[D])
  <2>1. \A u \in SUBSET (1..n) : u # {} /\ Iter[u \ {Max(u)}] \in S =>
          Iter[u] = JoinOp(W, stmts)[<<Iter[u \ {Max(u)}], g[Max(u)]>>]
    BY <1>12
  <2>2. IsBuilt(Iter, n, S, <<>>, JoinOp(W, stmts), g)
    BY <1>11, <2>1 DEF IsBuilt
  <2>3. n \in Nat /\ <<>> \in S /\ JoinOp(W, stmts) \in [S \X T -> S] /\ g \in [1..n -> T]
    BY <1>1, <1>3, <1>4
  <2> HIDE DEF IsIter
  <2> QED
    BY <2>2, <2>3, RunOfIter
<1> QED
  BY <1>2, <1>13 DEF S, T, g, n

\* A statement that counts as one; a list of them joined counts as that many.
IsStatement(W, s) == s \in Seq(W) /\ Stmts(W, FoldLeft(Scan, Unscanned, s)) = 1
LEMMA JoinCounts ==
  ASSUME NEW W, IsAlphabet(W), NEW stmts \in Seq(Seq(W)),
         \A i \in 1..Len(stmts) : IsStatement(W, stmts[i])
  PROVE  /\ JoinBatch(stmts) \in Seq(W)
         /\ Stmts(W, FoldLeft(Scan, Unscanned, JoinBatch(stmts))) = Len(stmts)
PROOF
<1> DEFINE n == Len(stmts)
           S == Seq(W)
           g == [i \in DOMAIN stmts |-> i]
           op == JoinOp(W, stmts)
           u == Unscanned
<1>1. n \in Nat /\ n \in 0..n /\ DOMAIN stmts = 1..n
  OBVIOUS
<1>2. PICK A : IsRun(A, n, S, <<>>, op, g) /\ A[n] = JoinBatch(stmts)
  BY JoinSteps, Zenon DEF RunsTo
<1>3. A \in [0..n -> S] /\ A[0] = <<>> /\ \A i \in 1..n : A[i] = op[<<A[i - 1], g[i]>>]
  BY <1>2, Zenon DEF IsRun
<1>4. /\ u \in ScanStates(W) /\ ~u.note /\ Blank(u) /\ Stmts(W, u) = 0
  BY NewScan, Zenon
<1>5. FoldLeft(Scan, u, <<>>) = u
  <2>1. <<>> \in Seq(W) /\ Len(<<>>) = 0
    OBVIOUS
  <2>2. PICK B : IsScan(B, W, u, <<>>) /\ B[Len(<<>>)] = FoldLeft(Scan, u, <<>>)
    BY <1>4, <2>1, ScanGoes, Zenon
  <2>3. B[0] = u
    BY <2>2, Zenon DEF IsScan, IsRun
  <2> QED
    BY <2>1, <2>2, <2>3, Zenon
<1> DEFINE Seen(s) == Stmts(W, FoldLeft(Scan, u, s))
           E == {i \in 0..n : Seen(A[i]) = i}
<1>6. 0 \in E
  <2>1. Seen(A[0]) = 0
    BY <1>3, <1>4, <1>5, Zenon
  <2>2. 0 \in 0..n
    BY <1>1
  <2> QED
    BY <2>1, <2>2, Zenon
<1>7. ASSUME NEW i \in 1..n, i - 1 \in E PROVE i \in E
  <2> DEFINE a == A[i - 1]
             sep == IF i > 1 THEN Between ELSE <<>>
             end == StripEnd(stmts[i])
             c == i - 1
             y == FoldLeft(Scan, u, a \o sep)
  <2>1. i \in 0..n /\ i - 1 \in 0..n /\ c \in Nat /\ c + 1 = i /\ (~(i > 1) => i = 1)
        /\ Seen(a) = c
    BY <1>1, <1>7
  <2>2. a \in Seq(W)
    <3> HIDE DEF S
    <3>1. a \in S
      BY <1>3, <2>1
    <3> QED
      BY <3>1, Zenon DEF S
  <2>3. A[i] = (a \o sep) \o end
    <3>1. A[i] = op[<<a, g[i]>>] /\ g[i] = i
      BY <1>1, <1>3
    <3>2. op = [x \in S \X (1..n) |-> JoinPush(stmts, x[1], x[2])]
      BY Zenon DEF JoinOp
    <3> HIDE DEF op, S, n, a
    <3>3. a \in S
      BY <2>2, Zenon DEF S
    <3>4. op[<<a, i>>] = JoinPush(stmts, a, i)
      BY <3>2, <3>3
    <3> QED
      BY <3>1, <3>4, Zenon DEF JoinPush, Between
  <2>4. IsStatement(W, stmts[i])
    OBVIOUS
  <2>5. stmts[i] \in Seq(W) /\ Stmts(W, FoldLeft(Scan, u, stmts[i])) = 1
    BY <2>4, Zenon DEF IsStatement
  <2>6. end \in Seq(W) /\ Stmts(W, FoldLeft(Scan, u, end)) = 1
    BY <1>4, <2>5, StripKeepsCount, Zenon
  <2>7. /\ sep \in Seq(W) /\ a \o sep \in Seq(W) /\ y \in ScanStates(W)
        /\ ~y.note /\ Blank(y) /\ Stmts(W, y) = c
    <3>1. CASE i > 1
      <4> DEFINE x == FoldLeft(Scan, u, a)
      <4>1. sep = Between
        BY <3>1, Zenon
      <4>2. Between \in Seq(W)
        <5>1. \A v, w \in W : <<v, w, v>> \in Seq(W)
          OBVIOUS
        <5>2. "nl" \in W /\ ";" \in W
          BY Zenon DEF IsAlphabet
        <5> QED
          BY <5>1, <5>2, Zenon DEF Between
      <4>3. x \in ScanStates(W)
        BY <1>4, <2>2, ScanTyped, Zenon
      <4>4. FoldLeft(Scan, u, a \o Between) = FoldLeft(Scan, x, Between)
        <5> HIDE DEF u, a
        <5> QED
          BY <1>4, <2>2, <4>2, ScanBoth
      <4> DEFINE z == FoldLeft(Scan, x, Between)
      <4>5. ~z.note /\ Blank(z) /\ Stmts(W, z) = Stmts(W, x)
        <5> HIDE DEF x
        <5> QED
          BY <4>3, ScanOfBetween, Zenon
      <4>6. y = z
        BY <4>1, <4>4, Zenon
      <4>7. Stmts(W, x) = c
        BY <2>1, Zenon
      <4>8. z \in ScanStates(W)
        <5> HIDE DEF x
        <5> QED
          BY <4>2, <4>3, ScanTyped, Zenon
      <4>9. a \o Between \in Seq(W)
        <5> HIDE DEF a
        <5> QED
          BY <2>2, <4>2
      <4> HIDE DEF y, z, x, sep, a, c
      <4> QED
        BY <4>1, <4>2, <4>5, <4>6, <4>7, <4>8, <4>9, Zenon
    <3>2. CASE ~(i > 1)
      <4>1. sep = <<>> /\ i = 1
        BY <2>1, <3>2, Zenon
      <4>2. a = <<>> /\ c = 0
        <5>1. 1 - 1 = 0
          OBVIOUS
        <5> QED
          BY <1>3, <4>1, <5>1, Zenon
      <4>3. <<>> \o <<>> = <<>> /\ <<>> \in Seq(W)
        OBVIOUS
      <4> HIDE DEF a, sep, c
      <4>4. y = u
        BY <1>5, <4>1, <4>2, <4>3, Zenon
      <4> QED
        BY <1>4, <4>1, <4>2, <4>3, <4>4, Zenon
    <3> QED
      BY <3>1, <3>2
  <2>8. Alike(W, y, u, c)
    <3>1. 0 + c = c
      BY <2>1
    <3> HIDE DEF y, u
    <3> QED
      BY <1>4, <2>7, <3>1, Zenon DEF Alike
  <2>9. Alike(W, FoldLeft(Scan, y, end), FoldLeft(Scan, u, end), c)
    <3> HIDE DEF y, u, c, end
    <3> QED
      BY <1>4, <2>1, <2>6, <2>7, <2>8, ScanAlike, Zenon
  <2>10. FoldLeft(Scan, u, (a \o sep) \o end) = FoldLeft(Scan, y, end)
    <3> DEFINE b == a \o sep
    <3>1. b \in Seq(W)
      BY <2>7, Zenon
    <3> HIDE DEF b, u, end
    <3>2. FoldLeft(Scan, u, b \o end) = FoldLeft(Scan, FoldLeft(Scan, u, b), end)
      BY <1>4, <2>6, <3>1, ScanBoth
    <3> QED
      BY <3>2, Zenon DEF b
  <2>11. Seen(A[i]) = 1 + c
    BY <2>3, <2>6, <2>9, <2>10, Zenon DEF Alike
  <2>12. Seen(A[i]) = i
    <3>1. 1 + c = i
      BY <2>1
    <3> QED
      BY <2>11, <3>1, Zenon
  <2> QED
    BY <2>1, <2>12, Zenon
<1>8. n \in E
  <2> HIDE DEF E, n
  <2> QED
    BY <1>1, <1>6, <1>7, UpTo
<1>9. Seen(A[n]) = n
  BY <1>8, Zenon
<1>10. A[n] \in S
  <2> HIDE DEF S
  <2> QED
    BY <1>1, <1>3
<1> QED
  BY <1>2, <1>9, <1>10, Zenon

\* The pieces of a script are what a scan of it counts.
LEMMA PiecesCount ==
  ASSUME NEW W, IsAlphabet(W), NEW s \in Seq(W)
  PROVE  /\ Pieces(s) \in Seq(Seq(W))
         /\ Len(Pieces(s)) = Stmts(W, FoldLeft(Scan, Unscanned, s))
PROOF
<1> DEFINE y == FoldLeft(Scan, Unscanned, s)
           p == y.out
           T == Seq(W)
           V == Written(W)
           e == <<>>
           at == {i \in DOMAIN p : p[i] # e}
<1>1. y \in ScanStates(W)
  BY NewScan, ScanTyped, Zenon
<1>2. p \in Lists(W)
  <2> HIDE DEF y
  <2> QED
    BY <1>1, ScanExcept, Zenon
<1>3. p \in Seq(T) /\ DOMAIN p = 1..Len(p) /\ Len(p) \in Nat
  <2> HIDE DEF p
  <2>1. p \in Seq(T)
    BY <1>2, Zenon DEF Lists
  <2> HIDE DEF T
  <2> QED
    BY <2>1
<1>4. Pieces(s) = Kept(p, at)
  BY Zenon DEF Pieces
<1>5. at = At(p, V)
  <2>1. \A x \in T : x \in V <=> x # e
    BY Zenon DEF Written
  <2> HIDE DEF p, V, T, e
  <2>2. \A i \in DOMAIN p : p[i] \in T
    BY <1>3
  <2> QED
    BY <2>1, <2>2 DEF At
<1> HIDE DEF p, T, V, at
<1>6. /\ Kept(p, at) \in Seq(T)
      /\ CountIn(Kept(p, at), T) = Overlap(1..Len(p), at \cap At(p, T))
  BY <1>3, KeptCounts
<1>7. CountIn(Kept(p, at), T) = Len(Kept(p, at))
  BY <1>6, CountOfAll
<1>8. at \cap At(p, T) = at
  <2>1. At(p, T) = DOMAIN p
    BY <1>3 DEF At
  <2> QED
    BY <2>1 DEF at
<1>9. CountIn(p, V) = Overlap(1..Len(p), at)
  BY <1>3, <1>5, CountIsOverlap
<1>10. Len(Pieces(s)) = CountIn(p, V)
  BY <1>4, <1>6, <1>7, <1>8, <1>9, Zenon
<1> QED
  BY <1>4, <1>6, <1>10, Zenon DEF Stmts, T, V, p

\* The pool holds every statement once, in some order; a batch holds some of them once.
Pools(n) == {p \in [1..n -> 1..n] : \A i, j \in 1..n : p[i] = p[j] => i = j}
Picks(n, take) == {q \in [1..take -> 1..n] : \A i, j \in 1..take : q[i] = q[j] => i = j}
Takes(n, take) == take \in 1..n
IsDraws(draws) == draws \in Seq(Nat) /\ draws # <<>>

\* Swapping two places of the pool keeps every statement in it, once.
LEMMA SwapKeepsPool ==
  ASSUME NEW n \in Nat, NEW p \in Pools(n), NEW i \in 1..n, NEW j \in 1..n
  PROVE  Swap(p, i, j) \in Pools(n)
PROOF
<1> DEFINE I == 1..n
           q == Swap(p, i, j)
<1> HIDE DEF I
<1>1. p \in [I -> I] /\ (\A k, l \in I : p[k] = p[l] => k = l) /\ i \in I /\ j \in I
  BY DEF Pools, I
<1>2. q \in [I -> I]
  BY <1>1 DEF Swap
<1>3. \A k \in I : q[k] = IF k = j THEN p[i] ELSE IF k = i THEN p[j] ELSE p[k]
  BY <1>1 DEF Swap
<1> HIDE DEF q
<1>4. \A k, l \in I : q[k] = q[l] => k = l
  BY <1>1, <1>3
<1> QED
  BY <1>2, <1>4 DEF Pools, I, q

\* One draw.
PickNext(n, take, draws, pool, t) ==
  LET i == ((t - 1) % take) + 1 IN Swap(pool, i, i + (Draw(draws, t) % (n - i + 1)))
LEMMA PickTyped ==
  ASSUME NEW n \in Nat \ {0}, NEW take \in 1..n, NEW draws, IsDraws(draws),
         NEW pool \in Pools(n), NEW t \in Nat \ {0}
  PROVE  PickNext(n, take, draws, pool, t) \in Pools(n)
PROOF
<1> DEFINE i == ((t - 1) % take) + 1
           d == Draw(draws, t)
           j == i + (d % (n - i + 1))
<1>1. t - 1 \in Nat /\ take \in Nat \ {0} /\ take <= n
  OBVIOUS
<1>2. (t - 1) % take \in 0..(take - 1)
  BY <1>1
<1>3. i \in 1..n /\ n - i + 1 \in Nat \ {0}
  BY <1>1, <1>2
<1>4. d \in Nat
  <2>1. draws \in Seq(Nat) /\ draws # <<>>
    BY Zenon DEF IsDraws
  <2>2. Len(draws) \in Nat \ {0}
    BY <2>1
  <2> DEFINE k == (t - 1) % Len(draws)
  <2>3. k \in 0..(Len(draws) - 1)
    BY <1>1, <2>2
  <2> HIDE DEF k
  <2>4. draws[k + 1] \in Nat
    BY <2>1, <2>2, <2>3
  <2>5. d = draws[k + 1]
    BY <2>1, Zenon DEF Draw, k
  <2> QED
    BY <2>4, <2>5, Zenon
<1> HIDE DEF i, d
<1>5. d % (n - i + 1) \in 0..(n - i)
  <2> DEFINE m == n - i + 1
  <2>1. m \in Nat \ {0} /\ m - 1 = n - i
    BY <1>3
  <2> HIDE DEF m
  <2>2. d % m \in 0..(m - 1)
    BY <1>4, <2>1
  <2> QED
    BY <2>1, <2>2 DEF m
<1>6. j \in 1..n
  <2> DEFINE r == d % (n - i + 1)
  <2>1. r \in 0..(n - i)
    BY <1>5
  <2> HIDE DEF r
  <2>2. i + r \in 1..n
    BY <1>3, <2>1
  <2> QED
    BY <2>2 DEF r
<1>7. Swap(pool, i, j) \in Pools(n)
  <2> HIDE DEF j
  <2> QED
    BY <1>3, <1>6, SwapKeepsPool
<1> QED
  BY <1>7, Zenon DEF PickNext, i, j, d

\* The draws of one batch.
PickOp(n, take, draws) ==
  [x \in Pools(n) \X (Nat \ {0}) |-> PickNext(n, take, draws, x[1], x[2])]
Turns(take, b) == [i \in 1..take |-> (b - 1) * take + i]
Shuffled(n, take, draws, p, b) ==
  LET Pick(pool, t) == LET i == ((t - 1) % take) + 1
                       IN  Swap(pool, i, i + (Draw(draws, t) % (n - i + 1)))
  IN  FoldLeft(Pick, p, [i \in 1..take |-> (b - 1) * take + i])

\* The draws of a batch are numbered from the first one that no earlier batch used.
LEMMA TurnsTyped ==
  ASSUME NEW take \in Nat \ {0}, NEW b \in Nat \ {0}
  PROVE  Turns(take, b) \in [1..take -> Nat \ {0}]
PROOF
<1> DEFINE c == (b - 1) * take
<1>1. b - 1 \in Nat
  OBVIOUS
<1>2. c \in Nat
  <2> DEFINE a == b - 1
  <2> HIDE DEF a
  <2>1. a * take \in Nat
    BY <1>1 DEF a
  <2> QED
    BY <2>1 DEF a
<1> HIDE DEF c
<1>3. \A i \in 1..take : c + i \in Nat \ {0}
  BY <1>2
<1>4. [i \in 1..take |-> c + i] \in [1..take -> Nat \ {0}]
  BY <1>3
<1> QED
  BY <1>4 DEF Turns, c

\* Shuffling for one batch is a run of one draw at a time.
LEMMA ShuffledSteps ==
  ASSUME NEW n \in Nat \ {0}, NEW take \in 1..n, NEW draws, IsDraws(draws),
         NEW p \in Pools(n), NEW b \in Nat \ {0}
  PROVE  RunsTo(take, Pools(n), p, PickOp(n, take, draws), Turns(take, b),
                Shuffled(n, take, draws, p, b))
PROOF
<1> DEFINE m == take
           D == 1..m
           S == Pools(n)
           T == Nat \ {0}
           g == Turns(take, b)
           Next1(a, e) == PickNext(n, take, draws, a, e)
           IsIter(f) == f = [u \in SUBSET D |->
             IF u = {} THEN p ELSE Next1(f[u \ {Max(u)}], g[Max(u)])]
           Iter == CHOOSE f : IsIter(f)
<1>1. m \in Nat /\ DOMAIN g = D /\ g \in [D -> T]
  <2>1. take \in Nat \ {0}
    OBVIOUS
  <2>2. g \in [D -> T]
    BY <2>1, TurnsTyped
  <2> HIDE DEF g
  <2> QED
    BY <2>1, <2>2
<1>2. Shuffled(n, take, draws, p, b) = Iter[D]
  <2>1. Shuffled(n, take, draws, p, b)
          = (CHOOSE f : f = [u \in SUBSET DOMAIN g |->
               IF u = {} THEN p ELSE Next1(f[u \ {Max(u)}], g[Max(u)])])[DOMAIN g]
    BY DEF Shuffled, PickNext, Turns, FoldLeft, MapThenFoldSet
  <2> HIDE DEF D, g, Next1
  <2> QED
    BY <1>1, <2>1
<1>3. p \in S /\ \A a \in S, e \in T : Next1(a, e) \in S
  BY PickTyped
<1>4. PickOp(n, take, draws) \in [S \X T -> S] /\ \A a \in S, e \in T : PickOp(n, take, draws)[<<a, e>>] = Next1(a, e)
  <2>1. PickOp(n, take, draws) = [x \in S \X T |-> Next1(x[1], x[2])]
    BY DEF PickOp
  <2> HIDE DEF S, T, Next1
  <2> QED
    BY <1>3, <2>1
<1> HIDE DEF S, T, g, m, Next1
<1>5. PICK F : IsFold(F, m, S, p, PickOp(n, take, draws), g)
  BY <1>1, <1>3, <1>4, FoldExists
<1>6. F \in [SUBSET D -> S]
  BY <1>5 DEF IsFold
<1>7. F = [u \in SUBSET D |->
             IF u = {} THEN p ELSE PickOp(n, take, draws)[<<F[u \ {Max(u)}], g[Max(u)]>>]]
  BY <1>5 DEF IsFold
<1>8. \A u \in SUBSET D : u # {} => u \ {Max(u)} \in SUBSET D /\ g[Max(u)] \in T
  <2> SUFFICES ASSUME NEW u \in SUBSET D, u # {}
               PROVE  u \ {Max(u)} \in SUBSET D /\ g[Max(u)] \in T
    OBVIOUS
  <2>1. Max(u) \in D
    BY <1>1, HasMax
  <2> QED
    BY <1>1, <2>1
<1>9. IsIter(F)
  <2>1. \A u \in SUBSET D : u # {} =>
          PickOp(n, take, draws)[<<F[u \ {Max(u)}], g[Max(u)]>>] = Next1(F[u \ {Max(u)}], g[Max(u)])
    <3> HIDE DEF D
    <3> QED
      BY <1>4, <1>6, <1>8
  <2> HIDE DEF D
  <2> QED
    BY <1>7, <2>1
<1>10. IsIter(Iter)
  <2> HIDE DEF IsIter
  <2> QED
    BY <1>9
<1> HIDE DEF Iter
<1>11. Iter[{}] = p
  BY <1>10
<1>12. ASSUME NEW u \in SUBSET D, u # {}, Iter[u \ {Max(u)}] \in S
       PROVE  Iter[u] = PickOp(n, take, draws)[<<Iter[u \ {Max(u)}], g[Max(u)]>>]
  <2>1. Iter[u] = Next1(Iter[u \ {Max(u)}], g[Max(u)])
    <3> HIDE DEF D
    <3> QED
      BY <1>10, <1>12
  <2>2. g[Max(u)] \in T
    BY <1>8, <1>12
  <2> QED
    BY <1>4, <1>12, <2>1, <2>2
<1>13. RunsTo(m, S, p, PickOp(n, take, draws), g, Iter[D])
  <2>1. \A u \in SUBSET (1..m) : u # {} /\ Iter[u \ {Max(u)}] \in S =>
          Iter[u] = PickOp(n, take, draws)[<<Iter[u \ {Max(u)}], g[Max(u)]>>]
    BY <1>12
  <2>2. IsBuilt(Iter, m, S, p, PickOp(n, take, draws), g)
    BY <1>11, <2>1 DEF IsBuilt
  <2>3. m \in Nat /\ p \in S /\ PickOp(n, take, draws) \in [S \X T -> S] /\ g \in [1..m -> T]
    BY <1>1, <1>3, <1>4
  <2> HIDE DEF IsIter
  <2> QED
    BY <2>2, <2>3, RunOfIter
<1> QED
  BY <1>2, <1>13 DEF S, T, g, m

\* After the shuffle the pool still holds every statement once, and so does the batch taken from it.
LEMMA ShuffledTyped ==
  ASSUME NEW n \in Nat \ {0}, NEW take \in 1..n, NEW draws, IsDraws(draws),
         NEW p \in Pools(n), NEW b \in Nat \ {0}
  PROVE  /\ Shuffled(n, take, draws, p, b) \in Pools(n)
         /\ SubSeq(Shuffled(n, take, draws, p, b), 1, take) \in Picks(n, take)
PROOF
<1> DEFINE S == Pools(n)
           q == Shuffled(n, take, draws, p, b)
<1>1. PICK A : IsRun(A, take, S, p, PickOp(n, take, draws), Turns(take, b)) /\ A[take] = q
  BY ShuffledSteps, Zenon DEF RunsTo
<1>2. A \in [0..take -> S] /\ A[take] = q
  BY <1>1, Zenon DEF IsRun
<1>3. take \in 0..take /\ take \in Nat
  OBVIOUS
<1> HIDE DEF S, q
<1>4. q \in S
  BY <1>2, <1>3
<1>5. q \in [1..n -> 1..n] /\ \A i, j \in 1..n : q[i] = q[j] => i = j
  BY <1>4 DEF S, Pools
<1> DEFINE c == SubSeq(q, 1, take)
<1>6. c = [i \in 1..take |-> q[i]]
  BY <1>3
<1>7. \A i \in 1..take : i \in 1..n
  BY <1>3
<1> HIDE DEF c
<1>8. c \in [1..take -> 1..n] /\ \A i, j \in 1..take : c[i] = c[j] => i = j
  BY <1>5, <1>6, <1>7
<1> QED
  BY <1>4, <1>8 DEF S, q, c, Picks

\* One batch after the other, from the pool as the one before left it.
SampleStates(n, take) == [pool : Pools(n), out : Seq(Picks(n, take))]
NewPool(n) == [pool |-> [i \in 1..n |-> i], out |-> <<>>]
BatchNext(n, take, draws, s, b) ==
  [pool |-> Shuffled(n, take, draws, s.pool, b),
   out  |-> Append(s.out, SubSeq(Shuffled(n, take, draws, s.pool, b), 1, take))]
BatchOp(n, take, draws) ==
  [x \in SampleStates(n, take) \X (Nat \ {0}) |-> BatchNext(n, take, draws, x[1], x[2])]
Sampled(n, take, draws) ==
  LET Pick(pool, t) == LET i == ((t - 1) % take) + 1
                       IN  Swap(pool, i, i + (Draw(draws, t) % (n - i + 1)))
      Batch(s, b) ==
        LET pool == FoldLeft(Pick, s.pool, [i \in 1..take |-> (b - 1) * take + i])
        IN  [pool |-> pool, out |-> Append(s.out, SubSeq(pool, 1, take))]
  IN  FoldLeft(Batch, [pool |-> [i \in 1..n |-> i], out |-> <<>>], [b \in 1..BatchK |-> b])

\* The batches that are sampled are the output of the run over BatchK batches.
LEMMA SampledIs ==
  ASSUME NEW n \in Nat \ {0}, NEW draws
  PROVE  SampleBatches(n, draws) = Sampled(n, MinOf(BatchM, n), draws).out
PROOF
<1>1. n # 0
  OBVIOUS
<1> QED
  BY <1>1, Zenon DEF SampleBatches, Sampled, FoldLeft, MapThenFoldSet

\* The pool before the first batch holds every statement once, and no batch is drawn.
LEMMA NewPoolTyped ==
  ASSUME NEW n \in Nat \ {0}, NEW take
  PROVE  NewPool(n) \in SampleStates(n, take) /\ NewPool(n).out = <<>>
PROOF
<1> DEFINE p == [i \in 1..n |-> i]
           P == Pools(n)
           Q == Picks(n, take)
<1>1. p \in P
  BY DEF Pools
<1> HIDE DEF p, P, Q
<1>2. [pool |-> p, out |-> <<>>] \in [pool : P, out : Seq(Q)] /\ [pool |-> p, out |-> <<>>].out = <<>>
  BY <1>1
<1> QED
  BY <1>2, Zenon DEF NewPool, SampleStates, p, P, Q

\* One more batch leaves a pool of every statement and appends one batch of distinct ones.
LEMMA BatchTyped ==
  ASSUME NEW n \in Nat \ {0}, NEW take \in 1..n, NEW draws, IsDraws(draws),
         NEW s \in SampleStates(n, take), NEW b \in Nat \ {0}
  PROVE  /\ BatchNext(n, take, draws, s, b) \in SampleStates(n, take)
         /\ Len(BatchNext(n, take, draws, s, b).out) = Len(s.out) + 1
         /\ Len(s.out) \in Nat
PROOF
<1> DEFINE P == Pools(n)
           Q == Picks(n, take)
           q == Shuffled(n, take, draws, s.pool, b)
           c == SubSeq(q, 1, take)
           o == s.out
           new == Append(o, c)
<1>1. s.pool \in P /\ o \in Seq(Q)
  <2> HIDE DEF P, Q
  <2>1. s \in [pool : P, out : Seq(Q)]
    BY Zenon DEF SampleStates, P, Q
  <2> QED
    BY <2>1
<1>2. q \in P /\ c \in Q
  BY <1>1, ShuffledTyped, Zenon
<1> HIDE DEF P, Q, q, c, o
<1>3. new \in Seq(Q) /\ Len(new) = Len(o) + 1 /\ Len(o) \in Nat
  BY <1>1, <1>2
<1> HIDE DEF new
<1>4. /\ [pool |-> q, out |-> new] \in [pool : P, out : Seq(Q)]
      /\ [pool |-> q, out |-> new].out = new
  BY <1>2, <1>3
<1>5. BatchNext(n, take, draws, s, b) = [pool |-> q, out |-> new]
  BY Zenon DEF BatchNext, q, c, o, new
<1> QED
  BY <1>3, <1>4, <1>5, Zenon DEF SampleStates, P, Q, o

\* Sampling is a run of one batch at a time.
LEMMA SampledSteps ==
  ASSUME NEW n \in Nat \ {0}, NEW take \in 1..n, NEW draws, IsDraws(draws)
  PROVE  RunsTo(BatchK, SampleStates(n, take), NewPool(n), BatchOp(n, take, draws),
                [b \in 1..BatchK |-> b], Sampled(n, take, draws))
PROOF
<1> DEFINE m == BatchK
           D == 1..m
           S == SampleStates(n, take)
           T == Nat \ {0}
           g == [b \in 1..BatchK |-> b]
           Next1(a, e) == BatchNext(n, take, draws, a, e)
           IsIter(f) == f = [u \in SUBSET D |->
             IF u = {} THEN NewPool(n) ELSE Next1(f[u \ {Max(u)}], g[Max(u)])]
           Iter == CHOOSE f : IsIter(f)
<1>1. m \in Nat /\ DOMAIN g = D /\ g \in [D -> T]
  BY MeasuresAssumption
<1>2. Sampled(n, take, draws) = Iter[D]
  <2>1. Sampled(n, take, draws)
          = (CHOOSE f : f = [u \in SUBSET DOMAIN g |->
               IF u = {} THEN NewPool(n) ELSE Next1(f[u \ {Max(u)}], g[Max(u)])])[DOMAIN g]
    BY DEF Sampled, BatchNext, Shuffled, NewPool, FoldLeft, MapThenFoldSet
  <2> HIDE DEF D, g, Next1
  <2> QED
    BY <1>1, <2>1
<1>3. NewPool(n) \in S /\ \A a \in S, e \in T : Next1(a, e) \in S
  BY NewPoolTyped, BatchTyped
<1>4. BatchOp(n, take, draws) \in [S \X T -> S] /\ \A a \in S, e \in T : BatchOp(n, take, draws)[<<a, e>>] = Next1(a, e)
  <2>1. BatchOp(n, take, draws) = [x \in S \X T |-> Next1(x[1], x[2])]
    BY DEF BatchOp
  <2> HIDE DEF S, T, Next1
  <2> QED
    BY <1>3, <2>1
<1> HIDE DEF S, T, g, m, Next1
<1>5. PICK F : IsFold(F, m, S, NewPool(n), BatchOp(n, take, draws), g)
  BY <1>1, <1>3, <1>4, FoldExists
<1>6. F \in [SUBSET D -> S]
  BY <1>5 DEF IsFold
<1>7. F = [u \in SUBSET D |->
             IF u = {} THEN NewPool(n) ELSE BatchOp(n, take, draws)[<<F[u \ {Max(u)}], g[Max(u)]>>]]
  BY <1>5 DEF IsFold
<1>8. \A u \in SUBSET D : u # {} => u \ {Max(u)} \in SUBSET D /\ g[Max(u)] \in T
  <2> SUFFICES ASSUME NEW u \in SUBSET D, u # {}
               PROVE  u \ {Max(u)} \in SUBSET D /\ g[Max(u)] \in T
    OBVIOUS
  <2>1. Max(u) \in D
    BY <1>1, HasMax
  <2> QED
    BY <1>1, <2>1
<1>9. IsIter(F)
  <2>1. \A u \in SUBSET D : u # {} =>
          BatchOp(n, take, draws)[<<F[u \ {Max(u)}], g[Max(u)]>>] = Next1(F[u \ {Max(u)}], g[Max(u)])
    <3> HIDE DEF D
    <3> QED
      BY <1>4, <1>6, <1>8
  <2> HIDE DEF D
  <2> QED
    BY <1>7, <2>1
<1>10. IsIter(Iter)
  <2> HIDE DEF IsIter
  <2> QED
    BY <1>9
<1> HIDE DEF Iter
<1>11. Iter[{}] = NewPool(n)
  BY <1>10
<1>12. ASSUME NEW u \in SUBSET D, u # {}, Iter[u \ {Max(u)}] \in S
       PROVE  Iter[u] = BatchOp(n, take, draws)[<<Iter[u \ {Max(u)}], g[Max(u)]>>]
  <2>1. Iter[u] = Next1(Iter[u \ {Max(u)}], g[Max(u)])
    <3> HIDE DEF D
    <3> QED
      BY <1>10, <1>12
  <2>2. g[Max(u)] \in T
    BY <1>8, <1>12
  <2> QED
    BY <1>4, <1>12, <2>1, <2>2
<1>13. RunsTo(m, S, NewPool(n), BatchOp(n, take, draws), g, Iter[D])
  <2>1. \A u \in SUBSET (1..m) : u # {} /\ Iter[u \ {Max(u)}] \in S =>
          Iter[u] = BatchOp(n, take, draws)[<<Iter[u \ {Max(u)}], g[Max(u)]>>]
    BY <1>12
  <2>2. IsBuilt(Iter, m, S, NewPool(n), BatchOp(n, take, draws), g)
    BY <1>11, <2>1 DEF IsBuilt
  <2>3. m \in Nat /\ NewPool(n) \in S /\ BatchOp(n, take, draws) \in [S \X T -> S] /\ g \in [1..m -> T]
    BY <1>1, <1>3, <1>4
  <2> HIDE DEF IsIter
  <2> QED
    BY <2>2, <2>3, RunOfIter
<1> QED
  BY <1>2, <1>13 DEF S, T, g, m

\* However the draws fall out, a pair has its K batches, of as many distinct statements as a
\* batch has or there are.
LEMMA BatchesSampled ==
  ASSUME NEW n \in Nat \ {0}, NEW draws, IsDraws(draws)
  PROVE  /\ MinOf(BatchM, n) \in 1..n
         /\ SampleBatches(n, draws) \in Seq(Picks(n, MinOf(BatchM, n)))
         /\ Len(SampleBatches(n, draws)) = BatchK
PROOF
<1> DEFINE take == MinOf(BatchM, n)
           S == SampleStates(n, take)
           g == [b \in 1..BatchK |-> b]
           op == BatchOp(n, take, draws)
           r == Sampled(n, take, draws)
           m == BatchK
<1>1. BatchM \in Nat \ {0} /\ m \in Nat \ {0}
  BY MeasuresAssumption
<1>2. take \in 1..n
  BY <1>1 DEF MinOf
<1> HIDE DEF take, S, op, r, m
<1>3. PICK A : IsRun(A, m, S, NewPool(n), op, g) /\ A[m] = r
  BY <1>2, SampledSteps, Zenon DEF RunsTo, m, S, op, r
<1>4. A \in [0..m -> S] /\ A[0] = NewPool(n) /\ \A b \in 1..m : A[b] = op[<<A[b - 1], g[b]>>]
  BY <1>3, Zenon DEF IsRun
<1> DEFINE E == {b \in 0..m : Len(A[b].out) = b}
<1>5. 0 \in E
  <2>1. A[0].out = <<>>
    BY <1>4, NewPoolTyped, Zenon
  <2>2. Len(<<>>) = 0 /\ 0 \in 0..m
    BY <1>1
  <2> QED
    BY <2>1, <2>2, Zenon
<1>6. ASSUME NEW b \in 1..m, b - 1 \in E PROVE b \in E
  <2> DEFINE a == A[b - 1]
  <2>1. b \in Nat \ {0} /\ b - 1 \in 0..m /\ b \in 0..m /\ Len(a.out) = b - 1 /\ g[b] = b
    BY <1>1, <1>6 DEF m
  <2>2. a \in S /\ A[b] = op[<<a, b>>]
    <3>1. A[b - 1] \in S
      BY <1>4, <2>1
    <3>2. A[b] = op[<<A[b - 1], g[b]>>]
      BY <1>4
    <3> QED
      BY <2>1, <3>1, <3>2, Zenon
  <2> HIDE DEF a, g
  <2>3. op[<<a, b>>] = BatchNext(n, take, draws, a, b)
    <3>1. op = [x \in S \X (Nat \ {0}) |-> BatchNext(n, take, draws, x[1], x[2])]
      BY Zenon DEF op, BatchOp, S
    <3> QED
      BY <2>1, <2>2, <3>1
  <2>4. Len(BatchNext(n, take, draws, a, b).out) = Len(a.out) + 1
    <3>1. a \in SampleStates(n, take)
      BY <2>2, Zenon DEF S
    <3>2. b \in Nat \ {0}
      BY <2>1, Zenon
    <3> QED
      BY <1>2, <3>1, <3>2, BatchTyped
  <2>5. Len(A[b].out) = Len(a.out) + 1
    BY <2>2, <2>3, <2>4, Zenon
  <2>6. Len(a.out) + 1 = b
    BY <2>1
  <2> QED
    BY <2>1, <2>5, <2>6, Zenon
<1>7. m \in E
  <2>1. m \in Nat /\ m \in 0..m
    BY <1>1
  <2> HIDE DEF E
  <2> QED
    BY <1>5, <1>6, <2>1, UpTo
<1>8. Len(r.out) = BatchK
  BY <1>3, <1>7, Zenon DEF m
<1>9. r \in S
  <2>1. m \in 0..m
    BY <1>1
  <2> QED
    BY <1>3, <1>4, <2>1
<1>10. r.out \in Seq(Picks(n, take))
  <2> DEFINE P == Pools(n)
             Q == Picks(n, take)
  <2> HIDE DEF P, Q
  <2>1. r \in [pool : P, out : Seq(Q)]
    BY <1>9, Zenon DEF S, SampleStates, P, Q
  <2>2. r.out \in Seq(Q)
    BY <2>1
  <2> QED
    BY <2>2 DEF Q
<1>11. SampleBatches(n, draws) = r.out
  BY SampledIs, Zenon DEF r, take
<1> QED
  BY <1>2, <1>8, <1>10, <1>11, Zenon DEF take

\* What is kept of a list are elements of it.
KeepsIn(s, at, V) == \A i \in DOMAIN s : i \in at => s[i] \in V
LEMMA KeptTyped ==
  ASSUME NEW T, NEW s \in Seq(T), NEW at, NEW V, KeepsIn(s, at, V)
  PROVE  Kept(s, at) \in Seq(V)
PROOF
<1> DEFINE n == Len(s)
           S == Seq(V)
<1>1. n \in Nat /\ n \in 0..n /\ DOMAIN s = 1..n
  OBVIOUS
<1>2. PICK A \in [0..n -> Seq(T)] : KeptRun(A, s, at)
  BY KeptSteps
<1>3. A[0] = <<>> /\ A[n] = Kept(s, at)
  BY <1>2, Zenon DEF KeptRun
<1>4. \A i \in 1..n : A[i] = IF i \in at THEN Append(A[i - 1], s[i]) ELSE A[i - 1]
  BY <1>2, Zenon DEF KeptRun
<1> DEFINE E == {i \in 0..n : A[i] \in S}
<1>5. 0 \in E
  <2>1. <<>> \in S /\ 0 \in 0..n
    BY <1>1
  <2> QED
    BY <1>3, <2>1, Zenon
<1>6. ASSUME NEW i \in 1..n, i - 1 \in E PROVE i \in E
  <2> DEFINE a == A[i - 1]
             x == s[i]
  <2>1. a \in S /\ i \in 0..n
    BY <1>6
  <2>2. A[i] = IF i \in at THEN Append(a, x) ELSE a
    BY <1>4, Zenon
  <2>3. i \in at => x \in V
    BY <1>1, Zenon DEF KeepsIn
  <2> HIDE DEF a, x
  <2>4. i \in at => Append(a, x) \in S
    BY <2>1, <2>3
  <2>5. A[i] \in S
    BY <2>1, <2>2, <2>4, Zenon
  <2> QED
    BY <2>1, <2>5, Zenon
<1>7. n \in E
  <2> HIDE DEF E, n
  <2> QED
    BY <1>1, <1>5, <1>6, UpTo
<1> QED
  BY <1>3, <1>7, Zenon

\* No more are kept than there are.
LEMMA KeptLen ==
  ASSUME NEW T, NEW s \in Seq(T), NEW at
  PROVE  /\ Len(Kept(s, at)) \in Nat /\ Len(Kept(s, at)) <= Len(s)
         /\ (\A i \in DOMAIN s : i \in at) => Len(Kept(s, at)) = Len(s)
PROOF
<1> DEFINE n == Len(s)
           D == 1..n
           k == Kept(s, at)
<1>1. n \in Nat /\ DOMAIN s = D
  OBVIOUS
<1>2. k \in Seq(T) /\ CountIn(k, T) = Overlap(D, at \cap At(s, T))
  BY KeptCounts
<1>3. CountIn(k, T) = Len(k)
  <2> HIDE DEF k
  <2> QED
    BY <1>2, CountOfAll
<1>4. At(s, T) = D
  <2> HIDE DEF D
  <2> QED
    BY <1>1 DEF At
<1>5. Overlap(D, at \cap D) \in Nat /\ Overlap(D, D) \in Nat
      /\ Overlap(D, at \cap D) <= Overlap(D, D)
  <2>1. IsFiniteSet(D)
    BY <1>1, FS_Interval
  <2> HIDE DEF D
  <2>2. D \cap (at \cap D) \subseteq D
    OBVIOUS
  <2> QED
    BY <2>1, <2>2, OverlapMonotone
<1>6. Overlap(D, D) = n
  <2>1. D \cap D = D
    OBVIOUS
  <2>2. Cardinality(D) = n
    BY <1>1, FS_Interval
  <2> QED
    BY <2>1, <2>2, Zenon DEF Overlap
<1>7. (\A i \in DOMAIN s : i \in at) => at \cap D = D
  <2> HIDE DEF D
  <2> QED
    BY <1>1
<1>8. Len(k) = Overlap(D, at \cap D)
  BY <1>2, <1>3, <1>4, Zenon
<1> HIDE DEF n, D, k
<1>9. Len(k) \in Nat /\ Len(k) <= n
  BY <1>5, <1>6, <1>8
<1>10. (\A i \in DOMAIN s : i \in at) => Len(k) = n
  BY <1>6, <1>7, <1>8, Zenon
<1> QED
  BY <1>9, <1>10, Zenon DEF n, k

\* A list without the elements of X.
LEMMA ListWithout ==
  ASSUME NEW T, NEW s \in Seq(T), NEW X, \A x \in X : x \notin ToSet(s)
  PROVE  s \in Seq(T \ X)
PROOF
<1> DEFINE U == T \ X
<1>1. Len(s) \in Nat /\ \A i \in 1..Len(s) : s[i] \in T /\ s[i] \in ToSet(s)
  BY DEF ToSet
<1>2. \A i \in 1..Len(s) : s[i] \in U
  BY <1>1
<1> HIDE DEF U
<1>3. s \in Seq(U)
  BY <1>2
<1> QED
  BY <1>3 DEF U

\* The words in which statements are written, and those in which they are with one another.
\* (That the marks are strings is beyond the provers.)
Tokens == STRING \cup {"nl", ";"}
Words == Tokens \ {"bad", "copy"}
Sociable == Words \ {"lone"}
LEMMA WordsAreAlphabets == IsAlphabet(Words) /\ IsAlphabet(Sociable)
PROOF
<1>1. "nl" \in Tokens /\ ";" \in Tokens
  BY Zenon DEF Tokens
<1>2. /\ "nl" # "bad" /\ "nl" # "copy" /\ "nl" # "lone"
      /\ ";" # "bad" /\ ";" # "copy" /\ ";" # "lone"
  OBVIOUS
<1>3. "nl" \in Words /\ ";" \in Words /\ "bad" \notin Words /\ "copy" \notin Words
  BY <1>1, <1>2, Zenon DEF Words
<1>4. "nl" \in Sociable /\ ";" \in Sociable /\ "bad" \notin Sociable /\ "copy" \notin Sociable
  BY <1>2, <1>3, Zenon DEF Sociable
<1> QED
  BY <1>3, <1>4, Zenon DEF IsAlphabet

\* What a parser that counts makes of the pieces of a script.
WordsOf(pieces) == UNION {ToSet(pieces[i]) : i \in DOMAIN pieces}
LEMMA CountIs ==
  ASSUME NEW parser, parser # "types", NEW W, NEW pieces \in Seq(Seq(W))
  PROVE  /\ Len(pieces) \in Nat
         /\ CountOf(parser, pieces) \in {0, Len(pieces)}
         /\ "bad" \notin W /\ "lone" \notin W => CountOf(parser, pieces) = Len(pieces)
PROOF
<1> DEFINE T == Seq(W)
           words == WordsOf(pieces)
           n == Len(pieces)
           b == "bad" \in words
           l == "lone" \in words
<1>1. n \in Nat /\ DOMAIN pieces = 1..n
  OBVIOUS
<1>2. words \subseteq W
  <2>1. \A i \in 1..n : pieces[i] \in T
    <3> HIDE DEF T
    <3>1. pieces \in Seq(T)
      BY DEF T
    <3> QED
      BY <3>1
  <2>2. \A s \in Seq(W) : ToSet(s) \subseteq W
    BY DEF ToSet
  <2> QED
    BY <1>1, <2>1, <2>2 DEF WordsOf
<1>3. l => n > 0
  <2> SUFFICES ASSUME l PROVE n > 0
    OBVIOUS
  <2>1. PICK i \in DOMAIN pieces : "lone" \in ToSet(pieces[i])
    BY Zenon DEF WordsOf
  <2>2. i \in 1..n
    BY <1>1, <2>1, Zenon
  <2> HIDE DEF n
  <2> QED
    BY <1>1, <2>2
<1>4. CountOf(parser, pieces)
        = CASE b \/ (l /\ n > 1) -> 0
            [] ~b /\ (l => n = 1) -> n
  BY Zenon DEF CountOf, WordsOf
<1> HIDE DEF words, n, b, l
<1>5. (b \/ (l /\ n > 1)) => CountOf(parser, pieces) = 0
  BY <1>1, <1>4
<1>6. ~(b \/ (l /\ n > 1)) => CountOf(parser, pieces) = n
  <2> SUFFICES ASSUME ~(b \/ (l /\ n > 1)) PROVE CountOf(parser, pieces) = n
    OBVIOUS
  <2>1. ~b /\ (l => n = 1)
    BY <1>1, <1>3
  <2> QED
    BY <1>4, <2>1
<1>7. "bad" \notin W /\ "lone" \notin W => ~(b \/ (l /\ n > 1))
  BY <1>2, Zenon DEF b, l
<1> QED
  BY <1>1, <1>5, <1>6, <1>7, Zenon DEF n

Statements(W) == {s \in Seq(W) : Stmts(W, FoldLeft(Scan, Unscanned, s)) = 1}

\* What is eligible is written in words, and counts as one statement if it can stand next to
\* others.
Lonely(stmts) == \E i \in DOMAIN stmts : "lone" \in ToSet(stmts[i])
LEMMA EligibleTyped ==
  ASSUME NEW parser, NEW stmts \in Seq(Seq(STRING))
  PROVE  /\ Eligible(parser, stmts) \in Seq(Seq(Words))
         /\ parser # "types" /\ ~Lonely(stmts) =>
              Eligible(parser, stmts) \in Seq(Statements(Sociable))
PROOF
<1> DEFINE T == Seq(STRING)
           Fits(s) == /\ "bad" \notin ToSet(s) /\ BatchEligible(s)
                      /\ SafeCount(parser, s) = 1
           at == {i \in DOMAIN stmts : Fits(stmts[i])}
           V == Seq(Words)
           U == Statements(Sociable)
<1>1. Eligible(parser, stmts) = Kept(stmts, at)
  BY Zenon DEF Eligible
<1>2. \A i \in DOMAIN stmts : stmts[i] \in T
  <2> HIDE DEF T
  <2>1. stmts \in Seq(T)
    BY DEF T
  <2> QED
    BY <2>1
<1>3. ASSUME NEW s \in T, Fits(s) PROVE s \in V
  <2> DEFINE X == {"bad", "copy"}
  <2>1. s \in Seq(Tokens)
    <3>1. STRING \subseteq Tokens
      BY Zenon DEF Tokens
    <3> DEFINE Z == STRING
               Y == Tokens
    <3>2. Z \subseteq Y /\ s \in Seq(Z)
      BY <3>1
    <3> HIDE DEF Z, Y
    <3>3. s \in Seq(Y)
      BY <3>2
    <3> QED
      BY <3>3 DEF Y
  <2>2. \A x \in X : x \notin ToSet(s)
    BY <1>3, Zenon DEF BatchEligible
  <2> HIDE DEF X
  <2>3. s \in Seq(Tokens \ X)
    BY <2>1, <2>2, ListWithout
  <2> QED
    BY <2>3, Zenon DEF Words, X
<1>4. KeepsIn(stmts, at, V)
  <2> SUFFICES ASSUME NEW i \in DOMAIN stmts, i \in at PROVE stmts[i] \in V
    BY Zenon DEF KeepsIn
  <2>1. stmts[i] \in T /\ Fits(stmts[i])
    BY <1>2, Zenon
  <2> HIDE DEF Fits, T, V
  <2> QED
    BY <1>3, <2>1, Zenon
<1>5. ASSUME parser # "types", ~Lonely(stmts) PROVE KeepsIn(stmts, at, U)
  <2> SUFFICES ASSUME NEW i \in DOMAIN stmts, i \in at PROVE stmts[i] \in U
    BY Zenon DEF KeepsIn
  <2> DEFINE s == stmts[i]
             X == {"lone"}
  <2>1. s \in T /\ Fits(s)
    BY <1>2, Zenon
  <2>2. s \in V
    <3> HIDE DEF Fits, T, V, s
    <3> QED
      BY <1>3, <2>1, Zenon
  <2>3. "lone" \notin ToSet(s)
    BY <1>5, Zenon DEF Lonely
  <2> HIDE DEF s
  <2>4. s \in Seq(Sociable)
    <3>1. \A x \in X : x \notin ToSet(s)
      BY <2>3, Zenon
    <3> HIDE DEF X
    <3>2. s \in Seq(Words \ X)
      BY <2>2, <3>1, ListWithout
    <3> QED
      BY <3>2, Zenon DEF Sociable, X
  <2>5. /\ Pieces(s) \in Seq(Seq(Sociable))
        /\ Len(Pieces(s)) = Stmts(Sociable, FoldLeft(Scan, Unscanned, s))
    BY <2>4, WordsAreAlphabets, PiecesCount, Zenon
  <2>6. "bad" \notin Sociable /\ "lone" \notin Sociable
    BY Zenon DEF Sociable, Words
  <2>7. CountOf(parser, Pieces(s)) = Len(Pieces(s))
    BY <1>5, <2>5, <2>6, CountIs, Zenon
  <2>8. CountOf(parser, Pieces(s)) = 1
    BY <2>1, Zenon DEF SafeCount
  <2>9. Stmts(Sociable, FoldLeft(Scan, Unscanned, s)) = 1
    BY <2>5, <2>7, <2>8, Zenon
  <2>10. s \in U
    BY <2>4, <2>9, Zenon DEF Statements
  <2> QED
    BY <2>10 DEF s
<1> HIDE DEF at, V, U
<1>6. Kept(stmts, at) \in Seq(V)
  <2> HIDE DEF T
  <2>1. stmts \in Seq(T)
    BY DEF T
  <2> QED
    BY <1>4, <2>1, KeptTyped, Zenon
<1>7. ASSUME parser # "types", ~Lonely(stmts) PROVE Kept(stmts, at) \in Seq(U)
  <2> HIDE DEF T
  <2>1. stmts \in Seq(T)
    BY DEF T
  <2>2. KeepsIn(stmts, at, U)
    BY <1>5, <1>7, Zenon
  <2> QED
    BY <2>1, <2>2, KeptTyped, Zenon
<1> QED
  BY <1>1, <1>6, <1>7, Zenon DEF V, U

\* The scripts that a parser is given.
Chosen(fit, batch) == [i \in DOMAIN batch |-> fit[batch[i]]]
BatchScripts(fit, batches) == [b \in DOMAIN batches |-> JoinBatch(Chosen(fit, batches[b]))]

\* A batch has as many statements as places were drawn.
LEMMA ChosenTyped ==
  ASSUME NEW T, NEW fit \in Seq(T), NEW take \in Nat, NEW batch \in Picks(Len(fit), take)
  PROVE  Chosen(fit, batch) \in Seq(T) /\ Len(Chosen(fit, batch)) = take
PROOF
<1> DEFINE n == Len(fit)
<1>1. n \in Nat /\ \A j \in 1..n : fit[j] \in T
  OBVIOUS
<1>2. batch \in [1..take -> 1..n]
  BY Zenon DEF Picks
<1> HIDE DEF n
<1>3. DOMAIN batch = 1..take /\ \A i \in 1..take : fit[batch[i]] \in T
  BY <1>1, <1>2
<1>4. [i \in 1..take |-> fit[batch[i]]] \in [1..take -> T]
  BY <1>3
<1>5. Chosen(fit, batch) \in [1..take -> T]
  BY <1>3, <1>4, Zenon DEF Chosen
<1> QED
  BY <1>5, FunctionIsList

\* A joined batch is a script of the same tokens.
LEMMA JoinedTyped ==
  ASSUME NEW W, IsAlphabet(W), NEW stmts \in Seq(Seq(W))
  PROVE  JoinBatch(stmts) \in Seq(W)
PROOF
<1> DEFINE n == Len(stmts)
           S == Seq(W)
           r == JoinBatch(stmts)
<1>1. PICK A : IsRun(A, n, S, <<>>, JoinOp(W, stmts), [i \in DOMAIN stmts |-> i]) /\ A[n] = r
  BY JoinSteps, Zenon DEF RunsTo
<1>2. A \in [0..n -> S] /\ A[n] = r
  BY <1>1, Zenon DEF IsRun
<1>3. n \in 0..n
  OBVIOUS
<1> HIDE DEF S, n, r
<1>4. r \in S
  BY <1>2, <1>3
<1> QED
  BY <1>4, Zenon DEF r, S

\* There is one script per batch, and it splits into as many pieces as statements were drawn.
LEMMA ScriptsTyped ==
  ASSUME NEW fit \in Seq(Seq(Words)), NEW take \in Nat,
         NEW batches \in Seq(Picks(Len(fit), take))
  PROVE  /\ BatchScripts(fit, batches) \in Seq(Seq(Words))
         /\ Len(BatchScripts(fit, batches)) = Len(batches)
         /\ fit \in Seq(Statements(Sociable)) =>
              \A b \in 1..Len(batches) :
                /\ BatchScripts(fit, batches)[b] \in Seq(Sociable)
                /\ Len(Pieces(BatchScripts(fit, batches)[b])) = take
PROOF
<1> DEFINE P == Picks(Len(fit), take)
           m == Len(batches)
           V == Seq(Words)
           r == BatchScripts(fit, batches)
<1>1. m \in Nat /\ DOMAIN batches = 1..m /\ \A b \in 1..m : batches[b] \in P
  <2> HIDE DEF P
  <2>1. batches \in Seq(P)
    BY Zenon DEF P
  <2> QED
    BY <2>1
<1>2. r = [b \in 1..m |-> JoinBatch(Chosen(fit, batches[b]))]
  BY <1>1, Zenon DEF BatchScripts
<1>3. ASSUME NEW b \in 1..m PROVE JoinBatch(Chosen(fit, batches[b])) \in V
  <2> DEFINE batch == batches[b]
  <2>1. batch \in P
    BY <1>1, Zenon
  <2> HIDE DEF batch, V
  <2>2. Chosen(fit, batch) \in Seq(V)
    BY <2>1, ChosenTyped, Zenon DEF V
  <2>3. JoinBatch(Chosen(fit, batch)) \in V
    BY <2>2, WordsAreAlphabets, JoinedTyped, Zenon DEF V
  <2> QED
    BY <2>3, Zenon DEF batch
<1>4. r \in [1..m -> V]
  <2> HIDE DEF V, m, r
  <2> QED
    BY <1>2, <1>3
<1>5. r \in Seq(V) /\ Len(r) = m
  <2> HIDE DEF V, m, r
  <2> QED
    BY <1>1, <1>4, FunctionIsList
<1>6. ASSUME fit \in Seq(Statements(Sociable)), NEW b \in 1..m
      PROVE  r[b] \in Seq(Sociable) /\ Len(Pieces(r[b])) = take
  <2> DEFINE batch == batches[b]
             U == Statements(Sociable)
             c == Chosen(fit, batch)
             W == Sociable
             T == Seq(W)
             j == JoinBatch(c)
  <2>1. batch \in P
    BY <1>1, Zenon
  <2>2. fit \in Seq(U)
    BY <1>6, Zenon
  <2> HIDE DEF batch, U, c
  <2>3. c \in Seq(U) /\ Len(c) = take
    BY <2>1, <2>2, ChosenTyped, Zenon DEF c
  <2>4. U \subseteq T
    BY Zenon DEF U, Statements
  <2> HIDE DEF T
  <2>5. c \in Seq(T) /\ \A i \in 1..Len(c) : c[i] \in U
    BY <2>3, <2>4
  <2>6. \A i \in 1..Len(c) : IsStatement(W, c[i])
    BY <2>5, Zenon DEF IsStatement, U, Statements
  <2>7. j \in Seq(W) /\ Stmts(W, FoldLeft(Scan, Unscanned, j)) = Len(c)
    <3>1. IsAlphabet(W) /\ c \in Seq(Seq(W))
      BY <2>5, WordsAreAlphabets, Zenon DEF T
    <3> HIDE DEF W
    <3> QED
      BY <2>6, <3>1, JoinCounts
  <2>8. Len(Pieces(j)) = Stmts(W, FoldLeft(Scan, Unscanned, j))
    <3> HIDE DEF j
    <3> QED
      BY <2>7, WordsAreAlphabets, PiecesCount, Zenon
  <2>9. r[b] = j
    <3>1. r[b] = JoinBatch(Chosen(fit, batches[b]))
      <4> HIDE DEF m, r
      <4> QED
        BY <1>2
    <3> QED
      BY <3>1, Zenon DEF c, batch
  <2> QED
    BY <2>3, <2>7, <2>8, <2>9, Zenon
<1> QED
  BY <1>5, <1>6, Zenon

\* The batches of a pair, none if nothing is eligible.
LEMMA BatchesTyped ==
  ASSUME NEW n \in Nat, NEW draws, IsDraws(draws)
  PROVE  /\ MinOf(BatchM, n) \in Nat
         /\ SampleBatches(n, draws) \in Seq(Picks(n, MinOf(BatchM, n)))
         /\ Len(SampleBatches(n, draws)) \in Nat
         /\ Len(SampleBatches(n, draws)) > 0 => MinOf(BatchM, n) > 0
PROOF
<1> DEFINE take == MinOf(BatchM, n)
           P == Picks(n, take)
           s == SampleBatches(n, draws)
<1>1. CASE n = 0
  <2>1. s = <<>>
    BY <1>1, Zenon DEF SampleBatches
  <2>2. take \in Nat
    BY <1>1, MeasuresAssumption DEF MinOf
  <2> HIDE DEF s, P, take
  <2>3. s \in Seq(P) /\ Len(s) = 0
    BY <2>1
  <2> QED
    BY <2>2, <2>3 DEF s, P, take
<1>2. CASE n # 0
  <2>1. n \in Nat \ {0}
    BY <1>2
  <2>2. take \in 1..n /\ s \in Seq(P)
    BY <2>1, BatchesSampled, Zenon
  <2> HIDE DEF s, P, take
  <2>3. take \in Nat /\ take > 0 /\ Len(s) \in Nat
    BY <2>2
  <2> QED
    BY <2>2, <2>3, Zenon DEF s, P, take
<1> QED
  BY <1>1, <1>2

\* A batch is of so many different statements.
LEMMA PickIsWhole ==
  ASSUME NEW n \in Nat, NEW take \in Nat, NEW batch \in Picks(n, take)
  PROVE  /\ ToSet(batch) \subseteq 1..n
         /\ Cardinality(ToSet(batch)) = take /\ Len(batch) = take
PROOF
<1> DEFINE I == 1..take
           N == 1..n
           R == ToSet(batch)
<1>1. batch \in [I -> N] /\ \A i, j \in I : batch[i] = batch[j] => i = j
  BY Zenon DEF Picks
<1>2. Len(batch) = take
  BY <1>1
<1>3. IsFiniteSet(I) /\ Cardinality(I) = take
  BY FS_Interval
<1> HIDE DEF I, N
<1>4. R = {batch[i] : i \in I}
  BY <1>1 DEF ToSet
<1> HIDE DEF R
<1>5. R \subseteq N
  BY <1>1, <1>4
<1>6. batch \in [I -> R]
  BY <1>1, <1>4
<1>7. batch \in Bijection(I, R)
  BY <1>1, <1>4, <1>6 DEF Bijection, Injection, Surjection, IsInjective
<1>8. ExistsBijection(I, R)
  BY <1>7 DEF ExistsBijection
<1>9. Cardinality(R) = Cardinality(I)
  BY <1>3, <1>8, FS_Bijection
<1> QED
  BY <1>2, <1>3, <1>5, <1>9 DEF R, N

\* What an evaluation and its row are of.
Correct(parser, scripts, size) ==
  Kept(scripts, {b \in DOMAIN scripts : SafeCount(parser, scripts[b]) = size})
Average(correct, k) == IF k > 0 THEN (100 * Len(correct)) \div k ELSE -1
CountedIn(correct) == SumOf([i \in DOMAIN correct |-> Len(Pieces(correct[i]))])
IsEvaluated(eval, n, size, k, correct) ==
  /\ eval.effective_m = size /\ eval.k = k /\ eval.n_correct = Len(correct)
  /\ Row(eval).accuracy = Average(correct, k)
  /\ Row(eval).denom = Len(correct) * size /\ Row(eval).counted = CountedIn(correct)
LEMMA EvaluatedIs ==
  ASSUME NEW parser, NEW fit, NEW draws
  PROVE  LET batches == SampleBatches(Len(fit), draws)
             size == MinOf(BatchM, Len(fit))
         IN  IsEvaluated(EvaluateBatches(parser, fit, draws), Len(fit), size, Len(batches),
                         Correct(parser, BatchScripts(fit, batches), size))
PROOF
<1> DEFINE n == Len(fit)
           batches == SampleBatches(n, draws)
           size == MinOf(BatchM, n)
           k == Len(batches)
           correct == Correct(parser, BatchScripts(fit, batches), size)
           e == EvaluateBatches(parser, fit, draws)
           acc == Average(correct, k)
           cnt == CountedIn(correct)
           len == Len(correct)
<1>1. e = [n_eligible |-> n, effective_m |-> size, k |-> k, n_correct |-> len,
           correct_scripts |-> correct]
  BY Zenon DEF EvaluateBatches, Correct, BatchScripts, Chosen
<1>2. /\ e.n_eligible = n /\ e.effective_m = size /\ e.k = k /\ e.n_correct = len
      /\ e.correct_scripts = correct
  <2> HIDE DEF e, n, size, k, len, correct
  <2> QED
    BY <1>1
<1> HIDE DEF e
<1>3. Row(e) = [n_eligible |-> n, k |-> k, n_correct |-> len, accuracy |-> acc,
                denom |-> len * size, counted |-> cnt]
  <2>1. Row(e) = [n_eligible |-> e.n_eligible, k |-> e.k, n_correct |-> e.n_correct,
           accuracy |-> IF e.k > 0 THEN (100 * e.n_correct) \div e.k ELSE -1,
           denom |-> e.n_correct * e.effective_m,
           counted |-> CountedIn(e.correct_scripts)]
    BY Zenon DEF Row, CountedIn
  <2>2. acc = IF k > 0 THEN (100 * len) \div k ELSE -1
    BY Zenon DEF Average
  <2> QED
    BY <1>2, <2>1, <2>2, Zenon
<1>4. Row(e).accuracy = acc /\ Row(e).denom = len * size /\ Row(e).counted = cnt
  <2> DEFINE r == Row(e)
             d == len * size
  <2>1. r = [n_eligible |-> n, k |-> k, n_correct |-> len, accuracy |-> acc,
             denom |-> d, counted |-> cnt]
    BY <1>3, Zenon
  <2> HIDE DEF r, d, n, k, len, acc, cnt
  <2>2. r.accuracy = acc /\ r.denom = d /\ r.counted = cnt
    BY <2>1
  <2> QED
    BY <2>2 DEF r, d
<1> QED
  BY <1>2, <1>4, Zenon DEF IsEvaluated, e

\* The scripts that are correct hold what the row divides by.
LEMMA CorrectCounted ==
  ASSUME NEW parser, NEW scripts \in Seq(Seq(Words)), NEW size \in Nat,
         Len(scripts) > 0 => size > 0, parser # "types"
  PROVE  CountedIn(Correct(parser, scripts, size)) = Len(Correct(parser, scripts, size)) * size
PROOF
<1> DEFINE V == Seq(Words)
           at == {b \in DOMAIN scripts : SafeCount(parser, scripts[b]) = size}
           X == {s \in V : SafeCount(parser, s) = size}
           c == Correct(parser, scripts, size)
           f == [i \in DOMAIN c |-> Len(Pieces(c[i]))]
<1>1. c = Kept(scripts, at)
  BY Zenon DEF Correct
<1>2. KeepsIn(scripts, at, X)
  <2>1. \A i \in DOMAIN scripts : scripts[i] \in V
    <3> HIDE DEF V
    <3>1. scripts \in Seq(V)
      BY DEF V
    <3> QED
      BY <3>1
  <2> HIDE DEF V
  <2> QED
    BY <2>1, Zenon DEF KeepsIn
<1>3. c \in Seq(X) /\ Len(c) \in Nat /\ Len(c) <= Len(scripts)
  <2>1. scripts \in Seq(V)
    OBVIOUS
  <2> HIDE DEF V, X, at, c
  <2> QED
    BY <1>1, <1>2, <2>1, KeptTyped, KeptLen
<1>4. DOMAIN c = 1..Len(c) /\ \A i \in 1..Len(c) : c[i] \in X
  <2> HIDE DEF c, X
  <2> QED
    BY <1>3
<1>5. ASSUME NEW i \in 1..Len(c) PROVE Len(Pieces(c[i])) = size
  <2> DEFINE s == c[i]
             p == Pieces(s)
  <2>1. s \in Seq(Words) /\ SafeCount(parser, s) = size
    BY <1>4, Zenon
  <2> HIDE DEF s
  <2>2. p \in Seq(Seq(Words))
    BY <2>1, WordsAreAlphabets, PiecesCount, Zenon
  <2>3. CountOf(parser, p) \in {0, Len(p)}
    BY <2>2, CountIs, Zenon
  <2>4. CountOf(parser, p) = size
    BY <2>1, Zenon DEF SafeCount
  <2>5. size > 0
    <3> HIDE DEF c
    <3>1. Len(scripts) \in Nat /\ Len(c) > 0
      BY <1>3
    <3> QED
      BY <1>3, <3>1
  <2> HIDE DEF p
  <2>6. Len(p) = size
    BY <2>3, <2>4, <2>5
  <2> QED
    BY <2>6 DEF p, s
<1> HIDE DEF c
<1>6. /\ f \in [1..Len(c) -> Nat] /\ DOMAIN f = 1..Len(c)
      /\ \A i \in 1..Len(c) : f[i] = size
  <2>1. f = [i \in 1..Len(c) |-> Len(Pieces(c[i]))]
    BY <1>4, Zenon
  <2> DEFINE l == Len(c)
             g == [i \in 1..l |-> Len(Pieces(c[i]))]
  <2>2. \A i \in 1..l : Len(Pieces(c[i])) = size
    BY <1>5, Zenon
  <2>3. g \in [1..l -> Nat] /\ DOMAIN g = 1..l /\ \A i \in 1..l : g[i] = size
    <3> HIDE DEF l
    <3> QED
      BY <2>2
  <2> QED
    BY <2>1, <2>3, Zenon
<1> HIDE DEF f
<1>7. f \in Seq(Nat) /\ Len(f) = Len(c)
  BY <1>3, <1>6, FunctionIsList
<1>8. Len(f) * size <= SumOf(f) /\ SumOf(f) <= Len(f) * size /\ SumOf(f) \in Nat
  <2>1. \A i \in DOMAIN f : size <= f[i] /\ f[i] <= size
    BY <1>6
  <2> QED
    BY <1>7, <2>1, SumBetween
<1>9. SumOf(f) = Len(c) * size
  <2> DEFINE d == Len(c) * size
             a == SumOf(f)
  <2>1. d \in Nat
    <3> DEFINE l == Len(c)
    <3> HIDE DEF l
    <3>1. l * size \in Nat
      BY <1>3 DEF l
    <3> QED
      BY <3>1 DEF l
  <2>2. d <= a /\ a <= d /\ a \in Nat
    BY <1>7, <1>8, Zenon
  <2> HIDE DEF d, a
  <2>3. a = d
    BY <2>1, <2>2
  <2> QED
    BY <2>3 DEF a, d
<1> QED
  BY <1>9, Zenon DEF CountedIn, f, c

\* What a scan sees of the probe: pieces that are blank or hold the statement.
Mark == "a"
ProbeWords == {Mark, "nl", ";"}
ProbePieces == {<<>>, <<Mark>>}
Clean(x) == x \in ScanStates(ProbeWords) /\ ~x.note /\ x.out \in Seq(ProbePieces)
LEMMA ProbeAlphabet ==
  /\ IsAlphabet(ProbeWords) /\ Mark \in ProbeWords /\ "nl" \in ProbeWords /\ ";" \in ProbeWords
  /\ "lone" \notin ProbeWords /\ Mark # "nl" /\ Mark # ";" /\ Mark # "--" /\ ";" # "nl" /\ ";" # "--"
PROOF
<1>1. /\ Mark # "nl" /\ Mark # ";" /\ Mark # "--" /\ ";" # "nl" /\ ";" # "--"
      /\ Mark # "copy" /\ Mark # "bad" /\ Mark # "lone" /\ "nl" # "copy" /\ "nl" # "bad"
      /\ "nl" # "lone" /\ ";" # "copy" /\ ";" # "bad" /\ ";" # "lone"
  BY DEF Mark
<1> QED
  BY <1>1, Zenon DEF IsAlphabet, ProbeWords

\* An end of line is not seen, a terminator starts a blank piece, the statement fills one.
ProbeStep(x, t, y) ==
  /\ t = "nl" /\ Clean(x) => Clean(y) /\ y.out = x.out
  /\ t = ";" /\ Clean(x) => Clean(y) /\ Blank(y)
  /\ t = Mark /\ Clean(x) /\ Blank(x) => Clean(y)
LEMMA ProbeSteps ==
  ASSUME NEW x \in ScanStates(ProbeWords), NEW t \in ProbeWords
  PROVE  ProbeStep(x, t, Scan(x, t))
PROOF
<1> DEFINE y == Scan(x, t)
           W == ProbeWords
           P == ProbePieces
           p == x.out
           e == <<>>
           m == <<Mark>>
<1>1. y \in ScanStates(W) /\ y.out = OutAfter(x, t) /\ (y.note <=> (x.note \/ t = "--") /\ t # "nl")
  BY ProbeAlphabet, ScanIsStep, Zenon DEF ScanStep
<1>2. p \in Lists(W)
  BY ScanExcept, Zenon
<1> HIDE DEF y
<1>3. t = "nl" /\ Clean(x) => Clean(y) /\ y.out = x.out
  BY <1>1, Zenon DEF OutAfter, Clean
<1>4. ASSUME t = ";", Clean(x) PROVE Clean(y) /\ Blank(y)
  <2>1. y.out = Append(p, e) /\ ~y.note
    BY <1>1, <1>4, ProbeAlphabet, Zenon DEF OutAfter, Clean
  <2>2. p \in Seq(P) /\ e \in P
    BY <1>4, Zenon DEF Clean, ProbePieces
  <2> HIDE DEF p, P, e
  <2>3. Append(p, e) \in Seq(P) /\ Append(p, e)[Len(Append(p, e))] = e
    BY <2>2
  <2> QED
    BY <1>1, <2>1, <2>3, Zenon DEF Clean, Blank, P, e
<1>5. ASSUME t = Mark, Clean(x), Blank(x) PROVE Clean(y)
  <2> DEFINE n == Len(p)
             q == Longer(p, t)
  <2>1. y.out = q /\ ~y.note
    BY <1>1, <1>5, ProbeAlphabet, Zenon DEF OutAfter, Clean
  <2>2. p \in Seq(P) /\ p[n] = e
    BY <1>5, Zenon DEF Clean, Blank
  <2>3. n \in Nat \ {0}
    BY <1>2, LongerIs, Zenon
  <2>4. q = [p EXCEPT ![n] = m]
    <3>1. Append(e, Mark) = m
      OBVIOUS
    <3> DEFINE new == Append(p[n], t)
    <3>2. new = m
      BY <1>5, <2>2, <3>1, Zenon
    <3>3. q = [p EXCEPT ![n] = new]
      BY Zenon DEF Longer
    <3> QED
      BY <3>2, <3>3, Zenon
  <2>5. m \in P
    BY Zenon DEF ProbePieces
  <2> HIDE DEF p, P, e, m, q, n
  <2>6. n \in 1..Len(p)
    BY <2>2, <2>3 DEF n
  <2>7. [p EXCEPT ![n] = m] \in Seq(P)
    BY <2>2, <2>5, <2>6, ExceptSeq
  <2> QED
    BY <1>1, <2>1, <2>4, <2>7, Zenon DEF Clean, P
<1> QED
  BY <1>3, <1>4, <1>5, Zenon DEF ProbeStep, y

ProbeScript == <<Mark, "nl", ";", "nl", Mark, "nl", ";", "nl", Mark>>
IsNine(W, p, a, b, c) ==
  /\ p \in Seq(W) /\ Len(p) = 9
  /\ p[1] = a /\ p[2] = b /\ p[3] = c /\ p[4] = b /\ p[5] = a
  /\ p[6] = b /\ p[7] = c /\ p[8] = b /\ p[9] = a
LEMMA NineWords ==
  ASSUME NEW W, NEW a \in W, NEW b \in W, NEW c \in W
  PROVE  IsNine(W, <<a, b, c, b, a, b, c, b, a>>, a, b, c)
PROOF
BY DEF IsNine

\* Of the probe a scan sees only pieces that are blank or hold the statement.
LEMMA ProbeSeen == Clean(FoldLeft(Scan, Unscanned, ProbeScript))
PROOF
<1> DEFINE W == ProbeWords
           s == ProbeScript
           u == Unscanned
<1>1. /\ s \in Seq(W) /\ Len(s) = 9
      /\ s[1] = Mark /\ s[2] = "nl" /\ s[3] = ";" /\ s[4] = "nl" /\ s[5] = Mark
      /\ s[6] = "nl" /\ s[7] = ";" /\ s[8] = "nl" /\ s[9] = Mark
  <2>1. IsNine(W, s, Mark, "nl", ";")
    BY ProbeAlphabet, NineWords, Zenon DEF ProbeScript
  <2> HIDE DEF s, W
  <2> QED
    BY <2>1, Zenon DEF IsNine
<1> HIDE DEF s
<1>2. u \in ScanStates(W) /\ ~u.note /\ Blank(u)
  BY NewScan, Zenon
<1>3. Clean(u)
  <2> DEFINE P == ProbePieces
             e == <<>>
  <2>1. e \in P
    BY Zenon DEF ProbePieces
  <2> HIDE DEF P, e
  <2>2. <<e>> \in Seq(P)
    BY <2>1
  <2>3. u.out = <<e>>
    BY DEF Unscanned, e
  <2> QED
    BY <1>2, <2>2, <2>3, Zenon DEF Clean, P
<1>4. PICK A : IsScan(A, W, u, s) /\ A[Len(s)] = FoldLeft(Scan, u, s)
  BY <1>1, <1>2, ProbeAlphabet, ScanGoes, Zenon
<1>5. A[0] = u
  BY <1>4, Zenon DEF IsScan, IsRun
<1>6. ASSUME NEW i \in 1..9 PROVE ProbeStep(A[i - 1], s[i], A[i])
  <2>1. i \in 1..Len(s)
    BY <1>1, Zenon
  <2>2. A[i - 1] \in ScanStates(W) /\ s[i] \in W /\ A[i] = Scan(A[i - 1], s[i])
    <3>1. IsAlphabet(W) /\ s \in Seq(W) /\ IsScan(A, W, u, s)
      BY <1>1, <1>4, ProbeAlphabet, Zenon
    <3> HIDE DEF W, u
    <3> QED
      BY <2>1, <3>1, ScanStepsLook
  <2> QED
    BY <2>2, ProbeSteps, Zenon
<1>7. /\ ProbeStep(A[0], Mark, A[1]) /\ ProbeStep(A[1], "nl", A[2]) /\ ProbeStep(A[2], ";", A[3])
      /\ ProbeStep(A[3], "nl", A[4]) /\ ProbeStep(A[4], Mark, A[5]) /\ ProbeStep(A[5], "nl", A[6])
      /\ ProbeStep(A[6], ";", A[7]) /\ ProbeStep(A[7], "nl", A[8]) /\ ProbeStep(A[8], Mark, A[9])
  <2>1. /\ 1 \in 1..9 /\ 2 \in 1..9 /\ 3 \in 1..9 /\ 4 \in 1..9 /\ 5 \in 1..9 /\ 6 \in 1..9
        /\ 7 \in 1..9 /\ 8 \in 1..9 /\ 9 \in 1..9
        /\ 1 - 1 = 0 /\ 2 - 1 = 1 /\ 3 - 1 = 2 /\ 4 - 1 = 3 /\ 5 - 1 = 4 /\ 6 - 1 = 5
        /\ 7 - 1 = 6 /\ 8 - 1 = 7 /\ 9 - 1 = 8
    OBVIOUS
  <2>2. /\ ProbeStep(A[1 - 1], s[1], A[1]) /\ ProbeStep(A[2 - 1], s[2], A[2])
        /\ ProbeStep(A[3 - 1], s[3], A[3]) /\ ProbeStep(A[4 - 1], s[4], A[4])
        /\ ProbeStep(A[5 - 1], s[5], A[5]) /\ ProbeStep(A[6 - 1], s[6], A[6])
        /\ ProbeStep(A[7 - 1], s[7], A[7]) /\ ProbeStep(A[8 - 1], s[8], A[8])
        /\ ProbeStep(A[9 - 1], s[9], A[9])
    BY <1>6, <2>1, Zenon
  <2> QED
    BY <1>1, <2>1, <2>2, Zenon
<1>8. Clean(A[1])
  BY <1>2, <1>3, <1>5, <1>7, Zenon DEF ProbeStep
<1>9. Clean(A[3]) /\ Blank(A[3])
  BY <1>7, <1>8, Zenon DEF ProbeStep
<1>10. Clean(A[4]) /\ Blank(A[4])
  BY <1>7, <1>9, Zenon DEF ProbeStep, Blank
<1>11. Clean(A[5])
  BY <1>7, <1>10, Zenon DEF ProbeStep
<1>12. Clean(A[7]) /\ Blank(A[7])
  BY <1>7, <1>11, Zenon DEF ProbeStep
<1>13. Clean(A[8]) /\ Blank(A[8])
  BY <1>7, <1>12, Zenon DEF ProbeStep, Blank
<1>14. Clean(A[9])
  BY <1>7, <1>13, Zenon DEF ProbeStep
<1> QED
  BY <1>1, <1>4, <1>14, Zenon DEF s

\* A parser that tells the kinds apart finds one, where a parser that counts finds three.
LEMMA TypesAreNoCount == ~ReportsStatementCount("types")
PROOF
<1> DEFINE y == FoldLeft(Scan, Unscanned, ProbeScript)
           p == y.out
           e == <<>>
           m == <<Mark>>
           at == {i \in DOMAIN p : p[i] # e}
           V == {m}
           k == Kept(p, at)
<1>1. p \in Seq(ProbePieces)
  BY ProbeSeen, Zenon DEF Clean
<1>2. CountProbe = k
  BY Zenon DEF CountProbe, Pieces, ProbeScript, Mark
<1> HIDE DEF p
<1>3. KeepsIn(p, at, V)
  <2> DEFINE P == ProbePieces
  <2>1. \A x \in P : x # e => x \in V
    BY Zenon DEF ProbePieces
  <2> HIDE DEF P, V, e
  <2>2. \A i \in DOMAIN p : p[i] \in P
    BY <1>1 DEF P
  <2> QED
    BY <2>1, <2>2, Zenon DEF KeepsIn
<1> HIDE DEF at
<1>4. k \in Seq(V)
  BY <1>1, <1>3, KeptTyped, Zenon
<1> HIDE DEF k
<1>5. ToSet(k) \subseteq V
  <2> HIDE DEF V
  <2> QED
    BY <1>4 DEF ToSet
<1>6. Cardinality(ToSet(k)) <= 1 /\ Cardinality(ToSet(k)) \in Nat
  <2> DEFINE R == ToSet(k)
  <2>1. IsFiniteSet(V) /\ Cardinality(V) = 1
    BY FS_Singleton
  <2> HIDE DEF V, R
  <2>2. IsFiniteSet(R) /\ Cardinality(R) <= 1
    <3>1. R \subseteq V
      BY <1>5 DEF R
    <3>2. IsFiniteSet(R) /\ Cardinality(R) <= Cardinality(V)
      BY <2>1, <3>1, FS_Subset
    <3> QED
      BY <2>1, <3>2
  <2>3. Cardinality(R) \in Nat
    BY <2>2, FS_CardinalityType
  <2> QED
    BY <2>2, <2>3 DEF R
<1>7. WordsOf(k) \subseteq {Mark}
  <2> SUFFICES ASSUME NEW i \in DOMAIN k PROVE ToSet(k[i]) \subseteq {Mark}
    BY Zenon DEF WordsOf
  <2>1. k[i] \in V
    <3> HIDE DEF V
    <3> QED
      BY <1>4
  <2>2. k[i] = m
    BY <2>1, Zenon
  <2>3. \A a : ToSet(<<a>>) \subseteq {a}
    BY DEF ToSet
  <2> QED
    BY <2>2, <2>3, Zenon
<1>8. "bad" \notin WordsOf(k) /\ "lone" \notin WordsOf(k)
  <2>1. Mark # "bad" /\ Mark # "lone"
    BY DEF Mark
  <2> QED
    BY <1>7, <2>1, Zenon
<1>9. CountOf("types", k) = Cardinality(ToSet(k))
  <2> DEFINE b == "bad" \in WordsOf(k)
             l == "lone" \in WordsOf(k)
             n == Len(k)
             c == Cardinality(ToSet(k))
  <2>1. CountOf("types", k)
          = CASE b \/ (l /\ n > 1) -> 0
              [] ~b /\ (l => n = 1) -> c
    BY Zenon DEF CountOf, WordsOf
  <2>2. ~b /\ ~l
    BY <1>8, Zenon
  <2> HIDE DEF b, l, n, c
  <2>3. CountOf("types", k) = c
    BY <2>1, <2>2
  <2> QED
    BY <2>3, Zenon DEF c
<1>10. CountOf("types", k) # 3
  BY <1>6, <1>9
<1> QED
  BY <1>2, <1>10, Zenon DEF ReportsStatementCount

\* The average of scripts that are among k is a percentage.
LEMMA AverageInRange ==
  ASSUME NEW T, NEW scripts \in Seq(T), NEW parser, NEW size
  PROVE  Average(Correct(parser, scripts, size), Len(scripts)) \in -1..100
PROOF
<1> DEFINE at == {b \in DOMAIN scripts : SafeCount(parser, scripts[b]) = size}
           c == Correct(parser, scripts, size)
           l == Len(c)
           k == Len(scripts)
<1>1. c = Kept(scripts, at)
  BY Zenon DEF Correct
<1> HIDE DEF at
<1>2. l \in Nat /\ l <= k
  <2>1. Len(Kept(scripts, at)) \in Nat /\ Len(Kept(scripts, at)) <= k
    BY KeptLen
  <2> HIDE DEF c, k
  <2> QED
    BY <1>1, <2>1
<1>3. k \in Nat
  OBVIOUS
<1>4. Average(c, k) = IF k > 0 THEN (100 * l) \div k ELSE -1
  BY Zenon DEF Average
<1> HIDE DEF c, l, k
<1>5. Pct(l, k) \in -1..100
  BY <1>2, <1>3, PctInRange
<1>6. Average(c, k) = Pct(l, k)
  BY <1>3, <1>4 DEF Pct
<1> QED
  BY <1>5, <1>6, Zenon DEF c, k

\* What BatchesAreWhole says of one parser, one list of statements and one seed.
PairWhole(parser, stmts, draws) ==
  LET fit  == Eligible(parser, stmts)
      eval == EvaluateBatches(parser, fit, draws)
  IN  /\ \A batch \in ToSet(SampleBatches(Len(fit), draws)) :
           /\ ToSet(batch) \subseteq DOMAIN fit
           /\ Cardinality(ToSet(batch)) = eval.effective_m /\ Len(batch) = eval.effective_m
      /\ parser # "types" /\ ~Lonely(stmts) => eval.n_correct = eval.k
      /\ parser # "types" => /\ Row(eval).counted = Row(eval).denom
                             /\ Row(eval).accuracy \in -1..100
LEMMA PairIsWhole ==
  ASSUME NEW parser, NEW stmts \in Seq(Seq(STRING)), NEW draws, IsDraws(draws)
  PROVE  PairWhole(parser, stmts, draws)
PROOF
<1> DEFINE fit == Eligible(parser, stmts)
           n == Len(fit)
           size == MinOf(BatchM, n)
           batches == SampleBatches(n, draws)
           k == Len(batches)
           scripts == BatchScripts(fit, batches)
           correct == Correct(parser, scripts, size)
           eval == EvaluateBatches(parser, fit, draws)
           V == Seq(Words)
           P == Picks(n, size)
<1>1. fit \in Seq(V)
  BY EligibleTyped, Zenon
<1>2. n \in Nat /\ DOMAIN fit = 1..n
  <2> HIDE DEF fit, V
  <2> QED
    BY <1>1
<1>3. IsEvaluated(eval, n, size, k, correct)
  BY EvaluatedIs, Zenon
<1>4. eval.effective_m = size /\ eval.k = k /\ eval.n_correct = Len(correct)
      /\ Row(eval).accuracy = Average(correct, k)
      /\ Row(eval).denom = Len(correct) * size /\ Row(eval).counted = CountedIn(correct)
  <2> HIDE DEF eval, n, size, k, correct
  <2> QED
    BY <1>3, Zenon DEF IsEvaluated
<1>5. size \in Nat /\ batches \in Seq(P) /\ k \in Nat /\ (k > 0 => size > 0)
  <2> HIDE DEF n
  <2> QED
    BY <1>2, BatchesTyped, Zenon
<1>6. scripts \in Seq(V) /\ Len(scripts) = k
  <2> HIDE DEF batches, size, fit
  <2> QED
    BY <1>1, <1>5, ScriptsTyped, Zenon
<1>7. ASSUME NEW batch \in ToSet(batches)
      PROVE  /\ ToSet(batch) \subseteq DOMAIN fit
             /\ Cardinality(ToSet(batch)) = eval.effective_m /\ Len(batch) = eval.effective_m
  <2>1. batch \in P
    <3> HIDE DEF batches, P
    <3> QED
      BY <1>5 DEF ToSet
  <2> HIDE DEF n, size
  <2>2. ToSet(batch) \subseteq 1..n /\ Cardinality(ToSet(batch)) = size /\ Len(batch) = size
    BY <1>2, <1>5, <2>1, PickIsWhole, Zenon
  <2> QED
    BY <1>2, <1>4, <2>2, Zenon
<1>8. ASSUME parser # "types", ~Lonely(stmts) PROVE eval.n_correct = eval.k
  <2> DEFINE at == {b \in DOMAIN scripts : SafeCount(parser, scripts[b]) = size}
  <2>1. fit \in Seq(Statements(Sociable))
    BY <1>8, EligibleTyped, Zenon
  <2>2. \A b \in 1..k : scripts[b] \in Seq(Sociable) /\ Len(Pieces(scripts[b])) = size
    <3> HIDE DEF batches, size, fit
    <3> QED
      BY <1>1, <1>5, <2>1, ScriptsTyped, Zenon
  <2>3. ASSUME NEW b \in 1..k PROVE SafeCount(parser, scripts[b]) = size
    <3> DEFINE s == scripts[b]
    <3>1. s \in Seq(Sociable) /\ Len(Pieces(s)) = size
      BY <2>2, Zenon
    <3> HIDE DEF s
    <3>2. Pieces(s) \in Seq(Seq(Sociable))
      BY <3>1, WordsAreAlphabets, PiecesCount, Zenon
    <3>3. "bad" \notin Sociable /\ "lone" \notin Sociable
      BY Zenon DEF Sociable, Words
    <3>4. CountOf(parser, Pieces(s)) = Len(Pieces(s))
      BY <1>8, <3>2, <3>3, CountIs, Zenon
    <3> QED
      BY <3>1, <3>4, Zenon DEF SafeCount, s
  <2>4. DOMAIN scripts = 1..k
    <3> HIDE DEF scripts, V, k
    <3> QED
      BY <1>5, <1>6
  <2>5. \A b \in DOMAIN scripts : b \in at
    BY <2>3, <2>4, Zenon
  <2>6. correct = Kept(scripts, at)
    BY Zenon DEF Correct
  <2> HIDE DEF at, scripts, V, k
  <2>7. Len(Kept(scripts, at)) = Len(scripts)
    BY <1>6, <2>5, KeptLen, Zenon
  <2>8. Len(correct) = k
    BY <1>6, <2>6, <2>7, Zenon
  <2> QED
    BY <1>4, <2>8, Zenon
<1>9. Row(eval).accuracy \in -1..100
  <2> HIDE DEF scripts, V, size
  <2>1. Average(Correct(parser, scripts, size), Len(scripts)) \in -1..100
    BY <1>6, AverageInRange, Zenon
  <2>2. Average(correct, k) \in -1..100
    BY <1>6, <2>1, Zenon
  <2> QED
    BY <1>4, <2>2, Zenon
<1>10. ASSUME parser # "types" PROVE Row(eval).counted = Row(eval).denom
  <2> HIDE DEF scripts, size, k
  <2>1. Len(scripts) > 0 => size > 0
    BY <1>5, <1>6, Zenon
  <2>2. CountedIn(correct) = Len(correct) * size
    BY <1>5, <1>6, <1>10, <2>1, CorrectCounted, Zenon
  <2> QED
    BY <1>4, <2>2, Zenon
<1>11. /\ \A batch \in ToSet(batches) :
            /\ ToSet(batch) \subseteq DOMAIN fit
            /\ Cardinality(ToSet(batch)) = eval.effective_m /\ Len(batch) = eval.effective_m
       /\ parser # "types" /\ ~Lonely(stmts) => eval.n_correct = eval.k
       /\ parser # "types" => /\ Row(eval).counted = Row(eval).denom
                              /\ Row(eval).accuracy \in -1..100
  BY <1>7, <1>8, <1>9, <1>10, Zenon
<1> QED
  BY <1>11, Zenon DEF PairWhole

\* What a state of the batch benches says of every pair.
LEMMA BatchesHold == InputInv => BatchesAreWhole
PROOF
<1> SUFFICES ASSUME InputInv, tool = "batch" PROVE BatchesAreWhole
  BY DEF BatchesAreWhole
<1>1. input \in Seq(Seq(STRING))
  <2> DEFINE A == Alphabet["batch"]
             S == Seq(STRING)
  <2>1. "batch" \in DOMAIN Alphabet /\ input \in Seq(A)
    BY DEF InputInv, Algos
  <2>2. A \subseteq S
    BY <2>1, MeasuredAssumption, Zenon
  <2> HIDE DEF A, S
  <2>3. input \in Seq(S)
    BY <2>1, <2>2
  <2> QED
    BY <2>3, Zenon DEF S
<1> DEFINE Seeds == {<<a, b, a>> : a, b \in 0..2}
           Stands == \A s \in ToSet(input) : "lone" \notin ToSet(s)
<1>2. ASSUME NEW draws \in Seeds PROVE IsDraws(draws)
  <2>1. PICK a \in 0..2, b \in 0..2 : draws = <<a, b, a>>
    OBVIOUS
  <2>2. \A x, y \in 0..2 : IsDraws(<<x, y, x>>)
    BY DEF IsDraws
  <2> QED
    BY <2>1, <2>2
<1>3. Stands => ~Lonely(input)
  <2> SUFFICES ASSUME Stands, Lonely(input) PROVE FALSE
    OBVIOUS
  <2>1. PICK i \in DOMAIN input : "lone" \in ToSet(input[i])
    BY Zenon DEF Lonely
  <2>2. input[i] \in ToSet(input)
    BY <1>1 DEF ToSet
  <2> QED
    BY <2>1, <2>2, Zenon
<1> DEFINE Holds(parser, draws, fit, eval, time, mem) ==
      /\ \A batch \in ToSet(SampleBatches(Len(fit), draws)) :
           /\ ToSet(batch) \subseteq DOMAIN fit
           /\ Cardinality(ToSet(batch)) = eval.effective_m /\ Len(batch) = eval.effective_m
      /\ parser # "types" /\ Stands => eval.n_correct = eval.k
      /\ \A row \in time : row.counted = row.denom /\ row.accuracy \in -1..100
      /\ mem \subseteq time /\ (parser = "types" => time = {})
<1>4. ASSUME NEW parser, NEW draws \in Seeds, NEW fit \in {Eligible(parser, input)},
             NEW eval \in {EvaluateBatches(parser, fit, draws)},
             NEW time \in {TimeRows(parser, input, draws)},
             NEW mem \in {MemRows(parser, input, draws)}
      PROVE  Holds(parser, draws, fit, eval, time, mem)
  <2>0. /\ fit = Eligible(parser, input) /\ eval = EvaluateBatches(parser, fit, draws)
        /\ time = TimeRows(parser, input, draws) /\ mem = MemRows(parser, input, draws)
    OBVIOUS
  <2>1. PairWhole(parser, input, draws)
    <3> HIDE DEF Seeds
    <3>1. IsDraws(draws)
      BY <1>2
    <3> QED
      BY <1>1, <3>1, PairIsWhole, Zenon
  <2> HIDE DEF Seeds
  <2>2. /\ \A batch \in ToSet(SampleBatches(Len(fit), draws)) :
              /\ ToSet(batch) \subseteq DOMAIN fit
              /\ Cardinality(ToSet(batch)) = eval.effective_m
              /\ Len(batch) = eval.effective_m
        /\ parser # "types" /\ ~Lonely(input) => eval.n_correct = eval.k
        /\ parser # "types" => /\ Row(eval).counted = Row(eval).denom
                               /\ Row(eval).accuracy \in -1..100
    BY <2>0, <2>1, Zenon DEF PairWhole
  <2>3. time = IF ~ReportsStatementCount(parser) THEN {} ELSE {Row(eval)}
    BY <2>0, Zenon DEF TimeRows
  <2>4. mem = IF parser = "blind" \/ ~ReportsStatementCount(parser) THEN {} ELSE {Row(eval)}
    BY <2>0, Zenon DEF MemRows
  <2>5. parser = "types" => time = {}
    BY <2>3, TypesAreNoCount, Zenon
  <2>6. mem \subseteq time
    BY <2>3, <2>4, Zenon
  <2>7. \A row \in time : row.counted = row.denom /\ row.accuracy \in -1..100
    BY <2>2, <2>3, <2>5, Zenon
  <2> QED
    BY <1>3, <2>2, <2>5, <2>6, <2>7, Zenon
<1>5. BatchesAreWhole
        <=> \A parser \in {"full", "types", "blind"} :
              \A fit \in {Eligible(parser, input)}, draws \in Seeds :
                \A eval \in {EvaluateBatches(parser, fit, draws)},
                   time \in {TimeRows(parser, input, draws)},
                   mem  \in {MemRows(parser, input, draws)} :
                  Holds(parser, draws, fit, eval, time, mem)
  BY DEF BatchesAreWhole
<1> HIDE DEF Seeds, Holds
<1> QED
  BY <1>4, <1>5, Zenon

\* In every state BatchesAreWhole holds: the batches of the batch benches
\* (sample_batches, join_batch, evaluate_batches of src/batch.rs) are of different
\* statements, parse to their full count, and are averaged over what was parsed.
THEOREM MeasuredBatchesAreWhole == Spec => []BatchesAreWhole
PROOF
  BY InputTyped, BatchesHold, PTL
=============================================================================
