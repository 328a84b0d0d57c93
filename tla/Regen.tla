------------------------------- MODULE Regen -------------------------------
(***************************************************************************)
(* sqlbench regen and export (src/bin/sqlbench.rs, src/export.rs), with    *)
(* the files the steps leave under target/ and on the site, for one        *)
(* dialect. Every step is a process of its own that can fail or be killed  *)
(* between any two of its writes; the whole is then started again, or      *)
(* export alone is, over what is there. Some steps go on when a file of    *)
(* theirs cannot be written. Between runs the program changes (which       *)
(* parsers are compiled in, which of them accept anything), and what the   *)
(* time machine has left under target/timemachine may be deleted. A file   *)
(* is the number of the run whose results it holds, 0 if it holds none.    *)
(***************************************************************************)
EXTENDS Integers, Sequences, FiniteSets, SequencesExt

CONSTANTS
  RegenParsers,   (* the parsers there have ever been, in their order      *)
  RegenVisible,   (* those whose memory the Rust allocator sees            *)
  RegenEdits,     (* what the program may change to, see code              *)
  MaxRuns,        (* bound: how often regen is started                     *)
  MaxMishaps      (* bound: changes of the program or its files, and files *)
                  (* that cannot be written                                *)

(* The parsers compiled in are a list, in which none is twice.             *)
NoneTwice(s) == \A i, j \in DOMAIN s : s[i] = s[j] => i = j
IsProgram(c) ==
  /\ c.known \in Seq(ToSet(RegenParsers)) /\ NoneTwice(c.known)
  /\ c.accepting \subseteq ToSet(c.known)

ASSUME RegenAssumption ==
  /\ RegenVisible \subseteq ToSet(RegenParsers)
  /\ RegenParsers \in Seq(ToSet(RegenParsers)) /\ NoneTwice(RegenParsers)
  /\ \A c \in RegenEdits : IsProgram(c)
  /\ MaxRuns \in Nat /\ MaxMishaps \in Nat

VARIABLES
  rpc,      (* the step regen is at, "idle" between runs                   *)
  todo,     (* the parsers the step has still to come to                   *)
  run,      (* runs started                                                *)
  mishaps,  (* changes by hand, and files that could not be written        *)
  code,     (* [known, accepting]: the parsers compiled in, in order       *)
  corpus,   (* datasets/: "absent", "partial" or "complete"                *)
  disk,     (* the files the steps write for export and for the viewer     *)
  bundle,   (* the exported snapshot                                       *)
  badges,   (* the snapshot the badges were made of                        *)
  skipped,  (* the parsers whose pair panicked in this run's bench         *)
  lost,     (* the files this run could not write, and went on without     *)
  since,    (* the first run since target/timemachine was cleared          *)
  done      (* the last thing that happened is a regen that succeeded      *)

regenVars == <<rpc, todo, run, mishaps, code, corpus, disk, bundle, badges, skipped,
               lost, since, done>>

Everyone == ToSet(RegenParsers)
Known == ToSet(code.known)
NoFiles == [p \in Everyone |-> 0]
NoBundle == [run |-> 0, perf |-> {}, mem |-> {}, batch |-> {}]
NothingLost == [raw |-> {}, peak |-> {}, retained |-> {}, time |-> {}]

(* A family's memory sidecar, which is there or not whatever it holds, and *)
(* its timings, which have the memory of the sidecar merged into them.     *)
NoSidecar == [run |-> 0, whole |-> FALSE]
NoTiming == [run |-> 0, mem |-> 0]

RegenInit ==
  /\ rpc = "idle" /\ todo = <<>> /\ run = 0 /\ mishaps = 0
  /\ code = [known |-> RegenParsers, accepting |-> Everyone]
  /\ corpus = "absent"
  /\ disk = [features |-> 0, depth |-> 0, summary |-> {}, raw |-> NoFiles,
             batch |-> {}, peak |-> NoFiles, retained |-> NoFiles, batch_mem |-> {},
             sidecar |-> NoSidecar, timing |-> NoTiming, history |-> NoTiming]
  /\ bundle = NoBundle /\ badges = NoBundle /\ skipped = {} /\ done = FALSE
  /\ lost = NothingLost /\ since = 1

Mishap == mishaps < MaxMishaps /\ mishaps' = mishaps + 1
Loses(file, x) == Mishap /\ lost' = [lost EXCEPT ![file] = @ \cup {x}]
LosesNothing == UNCHANGED <<lost, mishaps>>

(* The program is changed between two runs.                                *)
Edit ==
  /\ rpc = "idle" /\ Mishap
  /\ code' \in RegenEdits
  /\ done' = FALSE
  /\ UNCHANGED <<rpc, todo, run, corpus, disk, bundle, badges, skipped, lost, since>>

(* target/timemachine is deleted, or the sidecar alone, as run_memory says *)
(* to do when it has skipped a family.                                     *)
Clear ==
  /\ rpc = "idle" /\ Mishap
  /\ disk' \in {[disk EXCEPT !.sidecar = NoSidecar],
                [disk EXCEPT !.sidecar = NoSidecar, !.timing = NoTiming]}
  /\ since' = run + 1 /\ done' = FALSE
  /\ UNCHANGED <<rpc, todo, run, code, corpus, bundle, badges, skipped, lost>>

(* run_regen begins with ensure_corpus, to which any directory will do.    *)
StartRegen ==
  /\ rpc = "idle" /\ run < MaxRuns
  /\ run' = run + 1
  /\ rpc' = IF corpus = "absent" THEN "unpack" ELSE "featurescan"
  /\ skipped' = {} /\ lost' = NothingLost /\ done' = FALSE
  /\ UNCHANGED <<todo, mishaps, code, corpus, disk, bundle, badges, since>>

Unpack ==
  /\ rpc = "unpack"
  /\ \/ corpus' = "complete" /\ rpc' = "featurescan"
     \/ corpus' = "partial" /\ rpc' = "idle"
  /\ UNCHANGED <<todo, run, mishaps, code, disk, bundle, badges, skipped, lost, since, done>>

(* The steps that write one file each, or fail.                            *)
Goes(from, to) == rpc = from /\ rpc' = to
WriteFile ==
  /\ \/ Goes("featurescan", "depth") /\ disk' = [disk EXCEPT !.features = run]
     \/ Goes("depth", "bench_open") /\ disk' = [disk EXCEPT !.depth = run]
  /\ UNCHANGED <<todo, run, mishaps, code, corpus, bundle, badges, skipped, lost, since, done>>

(* run_memory: a family whose sidecar exists is passed over. The file may  *)
(* be left out, or cut off, and the step goes on.                          *)
SidecarStep ==
  /\ Goes("sidecar", "history")
  /\ \/ disk.sidecar # NoSidecar /\ UNCHANGED disk /\ LosesNothing
     \/ /\ disk.sidecar = NoSidecar
        /\ disk' = [disk EXCEPT !.sidecar = [run |-> run, whole |-> TRUE]]
        /\ LosesNothing
     \/ /\ disk.sidecar = NoSidecar
        /\ disk' \in {disk, [disk EXCEPT !.sidecar = [run |-> run, whole |-> FALSE]]}
        /\ Loses("time", "sidecar")
  /\ UNCHANGED <<todo, run, code, corpus, bundle, badges, skipped, since, done>>

(* run_timing: a family whose checkpoint is no older than its sidecar is   *)
(* read from it, or else it is timed, the memory of the sidecar put with   *)
(* it and checkpointed; then the history is written. Either file may be    *)
(* left as it was, or cut off, and the step goes on.                       *)
SidecarMem == IF disk.sidecar.whole THEN disk.sidecar.run ELSE 0
Reusable == disk.timing # NoTiming /\ disk.timing.run >= disk.sidecar.run
Timed == IF Reusable THEN disk.timing ELSE [run |-> run, mem |-> SidecarMem]
TimingStep ==
  /\ Goes("history", "export")
  /\ \E checkpoint \in {Timed} \cup IF Reusable THEN {} ELSE {disk.timing, NoTiming},
        history \in {Timed, disk.history, NoTiming} :
       /\ disk' = [disk EXCEPT !.timing = checkpoint, !.history = history]
       /\ IF history # Timed THEN Loses("time", "history")
          ELSE IF checkpoint # Timed THEN Mishap /\ UNCHANGED lost ELSE LosesNothing
  /\ UNCHANGED <<todo, run, code, corpus, bundle, badges, skipped, since, done>>

\* Mutant: the summaries are appended to, not truncated.
OpenedForAppend(d) == d

(* A bench truncates its summary when it starts; membench without an       *)
(* argument has none, and clears nothing.                                  *)
Opened(d) ==
  CASE rpc = "bench_open"     -> [d EXCEPT !.summary = {}]
    [] rpc = "batch_open"     -> [d EXCEPT !.batch = {}]
    [] rpc = "batch_mem_open" -> [d EXCEPT !.batch_mem = {}]
    [] OTHER -> d
OpenStep ==
  /\ \/ Goes("bench_open", "bench") \/ Goes("batch_open", "batch")
     \/ Goes("mem_open", "mem") \/ Goes("batch_mem_open", "batch_mem")
  /\ todo' = code.known
  /\ disk' = Opened(disk)
  /\ UNCHANGED <<run, mishaps, code, corpus, bundle, badges, skipped, lost, since, done>>

(* The time bench, a pair: a raw file if anything is accepted, then a row, *)
(* also when the raw file could not be written. A pair that panics is      *)
(* skipped.                                                                *)
BenchPair ==
  /\ rpc = "bench" /\ todo # <<>>
  /\ LET p == Head(todo)
         rows == disk.summary \cup {[parser |-> p, run |-> run, some |-> p \in code.accepting]}
     IN  \/ /\ disk' = [disk EXCEPT
                 !.raw[p] = IF p \in code.accepting THEN run ELSE @, !.summary = rows]
            /\ UNCHANGED skipped /\ LosesNothing
         \/ /\ p \in code.accepting
            /\ \E left \in {disk.raw[p], 0} :
                 disk' = [disk EXCEPT !.raw[p] = left, !.summary = rows]
            /\ Loses("raw", p) /\ UNCHANGED skipped
         \/ skipped' = skipped \cup {p} /\ UNCHANGED disk /\ LosesNothing
  /\ todo' = Tail(todo)
  /\ UNCHANGED <<rpc, run, code, corpus, bundle, badges, since, done>>

BatchPair ==
  /\ rpc = "batch" /\ todo # <<>>
  /\ LET row == [parser |-> Head(todo), run |-> run]
     IN  disk' \in {disk, [disk EXCEPT !.batch = @ \cup {row}]}
  /\ todo' = Tail(todo)
  /\ UNCHANGED <<rpc, run, mishaps, code, corpus, bundle, badges, skipped, lost, since, done>>

(* membench, a pair: two files, either of which may be left as it was, or  *)
(* cut off; or none where nothing is accepted or nothing can be seen.      *)
Measured(p) == p \in code.accepting \cap RegenVisible
MemPair ==
  /\ rpc \in {"mem", "mem_half"} /\ todo # <<>>
  /\ LET p == Head(todo)
     IN  \/ /\ rpc = "mem" /\ Measured(p) /\ rpc' = "mem_half" /\ todo' = todo
            /\ \/ disk' = [disk EXCEPT !.peak[p] = run] /\ LosesNothing
               \/ /\ \E left \in {disk.peak[p], 0} : disk' = [disk EXCEPT !.peak[p] = left]
                  /\ Loses("peak", p)
         \/ /\ rpc = "mem_half" /\ rpc' = "mem" /\ todo' = Tail(todo)
            /\ \/ disk' = [disk EXCEPT !.retained[p] = run] /\ LosesNothing
               \/ /\ \E left \in {disk.retained[p], 0} :
                      disk' = [disk EXCEPT !.retained[p] = left]
                  /\ Loses("retained", p)
         \/ rpc = "mem" /\ ~Measured(p) /\ rpc' = "mem" /\ todo' = Tail(todo)
            /\ UNCHANGED disk /\ LosesNothing
  /\ UNCHANGED <<run, code, corpus, bundle, badges, skipped, since, done>>

(* A row for a parser whose memory can be seen, if it counts statements.   *)
BatchMemPair ==
  /\ rpc = "batch_mem" /\ todo # <<>>
  /\ LET row == [parser |-> Head(todo), run |-> run]
     IN  \/ UNCHANGED disk
         \/ /\ Head(todo) \in RegenVisible
            /\ disk' = [disk EXCEPT !.batch_mem = @ \cup {row}]
  /\ todo' = Tail(todo)
  /\ UNCHANGED <<rpc, run, mishaps, code, corpus, bundle, badges, skipped, lost, since, done>>

CloseStep ==
  /\ todo = <<>>
  /\ \/ Goes("bench", "batch_open") \/ Goes("batch", "mem_open")
     \/ Goes("mem", "batch_mem_open") \/ Goes("batch_mem", "sidecar")
  /\ UNCHANGED <<todo, run, mishaps, code, corpus, disk, bundle, badges, skipped, lost, since,
                 done>>

(* export::run: rows of parsers that are compiled in, each with the curve  *)
(* of its raw file; the memory files there are; and time and memory rows   *)
(* of the batches merged by parser.                                        *)
RetainKnown(rows) == {r \in rows : r.parser \in Known}
PerfFor == {[row |-> r, curve |-> disk.raw[r.parser]] : r \in RetainKnown(disk.summary)}
MemFor == {[parser |-> p, peak |-> disk.peak[p], retained |-> disk.retained[p]] :
             p \in {q \in Known : disk.peak[q] # 0}}
BatchFor ==
  LET time == RetainKnown(disk.batch)
      mem  == RetainKnown(disk.batch_mem)
      Of(rows, p) == {r.run : r \in {x \in rows : x.parser = p}}
  IN  {[parser |-> p, time |-> Of(time, p), mem |-> Of(mem, p)] :
         p \in {r.parser : r \in time \cup mem}}
Snapshot == [run |-> run, perf |-> PerfFor, mem |-> MemFor, batch |-> BatchFor]

Export ==
  /\ \/ Goes("export", "badges") /\ UNCHANGED done
     \/ rpc = "idle" /\ corpus # "absent" /\ done' = FALSE /\ UNCHANGED rpc
  /\ bundle' = Snapshot
  /\ UNCHANGED <<todo, run, mishaps, code, corpus, disk, badges, skipped, lost, since>>

(* badgegen removes every badge before it writes the new ones.             *)
Badges ==
  /\ \/ Goes("badges", "badges_half") /\ badges' = NoBundle /\ UNCHANGED done
     \/ Goes("badges_half", "idle") /\ badges' = bundle /\ done' = TRUE
  /\ UNCHANGED <<todo, run, mishaps, code, corpus, disk, bundle, skipped, lost, since>>

(* A step fails, or regen is killed: it exits, and nothing is undone.      *)
Fail ==
  /\ rpc \notin {"idle", "unpack"}
  /\ rpc' = "idle" /\ todo' = <<>>
  /\ UNCHANGED <<run, mishaps, code, corpus, disk, bundle, badges, skipped, lost, since, done>>

RegenNext ==
  \/ Edit \/ Clear \/ StartRegen \/ Unpack \/ WriteFile \/ OpenStep \/ BenchPair \/ BatchPair
  \/ MemPair \/ BatchMemPair \/ CloseStep \/ SidecarStep \/ TimingStep \/ Export \/ Badges
  \/ Fail

(* Whatever earlier runs left behind, of whatever program and wherever     *)
(* they were cut off: what a regen that succeeds publishes is of this run, *)
(* as far as its files could be written. Every row is of this run and of a *)
(* parser compiled in, with the curve of the same measurement; every       *)
(* parser has one unless its pair panicked; batch rows do not mix runs;    *)
(* memory is of this run, both files of it, except for a parser that       *)
(* membench passes over now; and the badges are those of the snapshot. The *)
(* time machine is the exception: what it shows is of a run since          *)
(* target/timemachine was cleared, of this run if that was just before,    *)
(* with the memory that is in the sidecar and timings that are no older.   *)
(* (A row of a parser that accepts nothing keeps the curve of an earlier   *)
(* run, and a corpus cut short is not noticed.)                            *)
TimeMachineAgrees ==
  lost.time = {} =>
    /\ disk.history.mem = SidecarMem
    /\ since <= disk.sidecar.run /\ disk.sidecar.run <= disk.history.run
    /\ disk.history.run <= run
RegenPublishesThisRun ==
  done =>
    /\ \A x \in bundle.perf : /\ x.row.run = run /\ x.row.parser \in Known
                              /\ x.row.some /\ x.row.parser \notin lost.raw => x.curve = run
    /\ {x.row.parser : x \in bundle.perf} = Known \ skipped
    /\ \A b \in bundle.batch : b.time \cup b.mem = {run}
    /\ \A m \in bundle.mem : Measured(m.parser) =>
         /\ m.parser \notin lost.peak => m.peak = run
         /\ m.parser \notin lost.retained => m.retained = run
    /\ {p \in Everyone : Measured(p)} \ lost.peak \subseteq {m.parser : m \in bundle.mem}
    /\ <<disk.features, disk.depth>> = <<run, run>> /\ TimeMachineAgrees
    /\ badges = bundle
=============================================================================
