---------------------------- MODULE TimeMachine ----------------------------
(***************************************************************************)
(* The passes of the time machine and the files they leave for each other. *)
(* The memory pass (run_memory) writes a sidecar per family and skips the  *)
(* families that have one.  The timing pass (run_timing) merges the        *)
(* sidecars, writes a checkpoint per family, reuses the checkpoints that   *)
(* are no older than their sidecar, and publishes all families in one      *)
(* history file.  Both have a refresh mode for some versions of a family.  *)
(*                                                                         *)
(* The passes are run one at a time, as the documentation and sqlbench     *)
(* regen do; any of them may be killed at any point, and a file being      *)
(* written is torn until it is complete.  A measurement is the number of   *)
(* the run that made it.                                                   *)
(***************************************************************************)
EXTENDS Naturals, Sequences

CONSTANTS
  Families,        \* the registry's families, in its order
  NumVersions,     \* the versions of a family, in release order
  Dialects,
  Supports,        \* the <<v, d>> such that p.supports(d) and d has a corpus
  PanicSets,       \* the sets of <<f, v, d>> that may panic while being timed
  MaxRuns,         \* bound: passes started
  MaxKills,        \* bound: passes killed
  MaxWriteErrors   \* bound: fs::write calls that fail

Family == {Families[k] : k \in 1..Len(Families)}
Version == 1..NumVersions

ASSUME TimeMachineAssumption ==
  /\ Families \in Seq(Family)
  /\ \A j, k \in 1..Len(Families) : Families[j] = Families[k] => j = k
  /\ Supports \subseteq Version \X Dialects
  /\ \A P \in PanicSets : P \subseteq Family \X Version \X Dialects
  /\ NumVersions \in Nat \ {0}
  /\ {MaxRuns, MaxKills, MaxWriteErrors} \subseteq Nat

VARIABLES
  sidecar, checkpoint,  \* family -> {slug}.mem.json, {slug}.timing.json
  memNewer,             \* family -> mem_mtime > checkpoint_mtime
  history,              \* web/assets/history.json.zst
  pass, pc, full,       \* the running pass: which, where it is, its --full flag
  todo,                 \* the families it has not come to yet
  listed,               \* the versions of --refresh
  file, data,           \* the file it is writing, and what goes into it
  out,                  \* histories: the families done so far
  panics,
  smoke,                \* the runs without --full
  runs, kills, errors   \* bounded counters

files == <<sidecar, checkpoint, memNewer, history>>
job   == <<pass, pc, full, todo, listed, file, data, out>>
env   == <<panics, smoke, runs, kills, errors>>
vars  == <<files, job, env>>

NoFile == [kind |-> "none"]
Torn   == [kind |-> "torn"]
Whole(x) == [kind |-> "whole", data |-> x]
Empty  == [x \in {} |-> 0]

\* sidecar_lookup in what read_sidecar returns; 0 for None.
MemoryOf(f, v) ==
  IF sidecar[f].kind = "whole" /\ v \in DOMAIN sidecar[f].data
  THEN sidecar[f].data[v] ELSE 0

\* A version of the history: the run that timed it, the run that measured its
\* memory, the dialects it was timed in, and the dialects with a delta to the
\* version before.
VersionRun == [time : 0..MaxRuns, mem : 0..MaxRuns,
               dialects : SUBSET Dialects, deltas : SUBSET Dialects]

TypeOK ==
  /\ \A f \in Family :
       /\ sidecar[f].kind = "whole" =>
            DOMAIN sidecar[f].data \subseteq Version
       /\ checkpoint[f].kind = "whole" =>
            checkpoint[f].data \in [Version -> VersionRun]
  /\ memNewer \in [Family -> BOOLEAN]
  /\ pass \in {"none", "memory", "timing", "mem-refresh", "refresh"}
  /\ pc \in {"idle", "next", "truncate", "fill"}
  /\ file \in {"none", "sidecar", "checkpoint", "history"}
  /\ DOMAIN out \subseteq Family
  /\ panics \in PanicSets
  /\ smoke \subseteq 1..runs

Init ==
  /\ sidecar = [f \in Family |-> NoFile]
  /\ checkpoint = [f \in Family |-> NoFile]
  /\ memNewer = [f \in Family |-> FALSE]
  /\ history = NoFile
  /\ pass = "none" /\ pc = "idle" /\ full = FALSE
  /\ todo = <<>> /\ listed = {} /\ file = "none" /\ data = Empty /\ out = Empty
  /\ panics \in PanicSets
  /\ smoke = {} /\ runs = 0 /\ kills = 0 /\ errors = 0

-----------------------------------------------------------------------------
(* Passes begin and end                                                    *)

Begin(which, fl, families, S) ==
  /\ pc = "idle"
  /\ runs < MaxRuns
  /\ runs' = runs + 1
  /\ smoke' = IF fl THEN smoke ELSE smoke \cup {runs + 1}
  /\ pass' = which /\ pc' = "next" /\ full' = fl
  /\ todo' = families /\ listed' = S
  /\ UNCHANGED <<files, file, data, out, panics, kills, errors>>

StartPass == \E which \in {"memory", "timing"}, fl \in BOOLEAN :
  Begin(which, fl, Families, {})

\* --refresh <family>:<versions>; the corpus is loaded in full.
StartRefresh ==
  \E which \in {"mem-refresh", "refresh"}, f \in Family, S \in (SUBSET Version) \ {{}} :
    Begin(which, TRUE, <<f>>, S)

Idle ==
  /\ pass' = "none" /\ pc' = "idle" /\ full' = FALSE
  /\ todo' = <<>> /\ listed' = {} /\ file' = "none" /\ data' = Empty /\ out' = Empty

Kill ==
  /\ pc # "idle"
  /\ kills < MaxKills
  /\ kills' = kills + 1
  /\ Idle
  /\ UNCHANGED <<files, panics, smoke, runs, errors>>

\* "Delete target/timemachine/ for a from-scratch run."
Clean ==
  /\ pc = "idle"
  /\ sidecar' = [f \in Family |-> NoFile]
  /\ checkpoint' = [f \in Family |-> NoFile]
  /\ memNewer' = [f \in Family |-> FALSE]
  /\ UNCHANGED <<history, job, env>>

\* "checkpoint [...] exists (delete it to re-measure)"
DeleteSidecar(f) ==
  /\ pc = "idle"
  /\ sidecar' = [sidecar EXCEPT ![f] = NoFile]
  /\ UNCHANGED <<checkpoint, memNewer, history, job, env>>

-----------------------------------------------------------------------------
(* fs::write truncates the file, then fills it                             *)

Write(which, x) ==
  /\ pc' = "truncate"
  /\ file' = which
  /\ data' = x

Put(content) ==
  \/ /\ file = "sidecar"
     /\ sidecar' = [sidecar EXCEPT ![Head(todo)] = content]
     /\ memNewer' = [memNewer EXCEPT ![Head(todo)] = TRUE]
     /\ UNCHANGED <<checkpoint, history>>
  \/ /\ file = "checkpoint"
     /\ checkpoint' = [checkpoint EXCEPT ![Head(todo)] = content]
     /\ memNewer' = [memNewer EXCEPT ![Head(todo)] = FALSE]
     /\ UNCHANGED <<sidecar, history>>
  \/ /\ file = "history"
     /\ history' = content
     /\ UNCHANGED <<sidecar, checkpoint, memNewer>>

Truncate ==
  /\ pc = "truncate"
  /\ Put(Torn)
  /\ pc' = "fill"
  /\ UNCHANGED <<pass, full, todo, listed, file, data, out, env>>

\* histories.push
Add(f, x) == [g \in DOMAIN out \cup {f} |-> IF g = f THEN x ELSE out[g]]

\* What follows the write: the next family, or the end.
Written ==
  IF file = "history" \/ pass = "mem-refresh"
  THEN Idle
  ELSE /\ out' = IF file = "checkpoint"
                 THEN Add(Head(todo), data) ELSE out
       /\ todo' = Tail(todo)
       /\ pc' = "next" /\ file' = "none" /\ data' = Empty
       /\ UNCHANGED <<pass, full, listed>>

Fill ==
  /\ pc = "fill"
  /\ Put(Whole(data))
  /\ Written
  /\ UNCHANGED env

\* fs::write fails, before or after it has truncated the file; the error is
\* printed and the pass goes on.
WriteFails ==
  /\ pc \in {"truncate", "fill"}
  /\ errors < MaxWriteErrors
  /\ errors' = errors + 1
  /\ UNCHANGED files
  /\ Written
  /\ UNCHANGED <<panics, smoke, runs, kills>>

-----------------------------------------------------------------------------
(* The memory pass                                                         *)

fam == Head(todo)

MemoryNext ==
  /\ pass = "memory"
  /\ pc = "next"
  /\ todo # <<>>

SkipFamily ==
  /\ MemoryNext
  /\ sidecar[fam] # NoFile
  /\ todo' = Tail(todo)
  /\ UNCHANGED <<files, pass, pc, full, listed, file, data, out, env>>

MeasureMemory ==
  /\ MemoryNext
  /\ sidecar[fam] = NoFile
  /\ Write("sidecar", [v \in Version |-> runs])
  /\ UNCHANGED <<files, pass, full, todo, listed, out, env>>

\* A sidecar that cannot be read is taken for an empty one.
RefreshMemory ==
  /\ pass = "mem-refresh"
  /\ pc = "next"
  /\ LET old == IF sidecar[fam].kind = "whole" THEN sidecar[fam].data ELSE Empty IN
     Write("sidecar", [v \in DOMAIN old \cup listed |->
                         IF v \in listed THEN runs ELSE old[v]])
  /\ UNCHANGED <<files, pass, full, todo, listed, out, env>>

-----------------------------------------------------------------------------
(* The timing pass                                                         *)

Supported(v) == {d \in Dialects : <<v, d>> \in Supports}

\* The pairs that panic are skipped; the others have an accepted set.
Timed(v) == {d \in Supported(v) : <<fam, v, d>> \notin panics}

\* A delta compares two versions that both have an accepted set.
Deltas(accepted, v) == IF v = 1 THEN {} ELSE accepted[v - 1] \cap accepted[v]

FullRun(v) ==
  [time |-> runs, mem |-> MemoryOf(fam, v), dialects |-> Timed(v),
   deltas |-> Deltas([w \in Version |-> Timed(w)], v)]

\* Mutant: the age of the sidecar is not looked at.
FreshIfWhole == checkpoint[fam].kind = "whole"

\* Mutant: a family without a sidecar has no fresh checkpoint.
FreshIfOlderSidecar ==
  /\ checkpoint[fam].kind = "whole"
  /\ sidecar[fam] # NoFile /\ ~memNewer[fam]

\* cached_timing
Fresh ==
  /\ checkpoint[fam].kind = "whole"
  /\ ~(sidecar[fam] # NoFile /\ memNewer[fam])

TimingNext ==
  /\ pass = "timing"
  /\ pc = "next"
  /\ todo # <<>>

Reuse ==
  /\ TimingNext
  /\ full
  /\ Fresh
  /\ out' = Add(fam, checkpoint[fam].data)
  /\ todo' = Tail(todo)
  /\ UNCHANGED <<files, pass, pc, full, listed, file, data, env>>

\* Mutant: a smoke run leaves a checkpoint, too.
CheckpointAlways(x) ==
  /\ Write("checkpoint", x)
  /\ UNCHANGED <<todo, out>>

\* Only a full run leaves a checkpoint.
Checkpoint(x) ==
  IF full
  THEN /\ Write("checkpoint", x)
       /\ UNCHANGED <<todo, out>>
  ELSE /\ out' = Add(fam, x)
       /\ todo' = Tail(todo)
       /\ UNCHANGED <<pc, file, data>>

MeasureTiming ==
  /\ TimingNext
  /\ ~(full /\ Fresh)
  /\ Checkpoint([v \in Version |-> FullRun(v)])
  /\ UNCHANGED <<files, pass, full, listed, env>>

\* write_combined
Publish ==
  /\ pass = "timing"
  /\ pc = "next"
  /\ todo = <<>>
  /\ Write("history", out)
  /\ UNCHANGED <<files, pass, full, todo, listed, out, env>>

-----------------------------------------------------------------------------
(* The timing refresh                                                      *)

\* Mutant: the accepted sets of the versions that are not listed are left out.
KnownIfListed(v) == IF v \in listed THEN Timed(v) ELSE {}

\* A listed version is timed again; of the others only the accepted sets are
\* determined, with Parser::accepts, which catches panics.
Known(v) == IF v \in listed THEN Timed(v) ELSE Supported(v)

Refreshed(v) ==
  LET old == history.data[fam][v]
      new == IF v \in listed THEN FullRun(v) ELSE old
  IN  [new EXCEPT !.deltas = Deltas([w \in Version |-> Known(w)], v)]

RefreshTiming ==
  /\ pass = "refresh"
  /\ pc = "next"
  /\ history.kind = "whole"
  /\ Write("history",
           [history.data EXCEPT ![fam] = [v \in Version |-> Refreshed(v)]])
  /\ UNCHANGED <<files, pass, full, todo, listed, out, env>>

\* Mutant: a history that cannot be read is taken for an empty one.
RefreshFromNothing ==
  /\ pass = "refresh"
  /\ pc = "next"
  /\ history.kind # "whole"
  /\ Write("history", [f \in {fam} |-> [v \in listed |-> FullRun(v)]])
  /\ UNCHANGED <<files, pass, full, todo, listed, out, env>>

\* "cannot read web/assets/history.json.zst": the process exits.
RefreshRefused ==
  /\ pass = "refresh"
  /\ pc = "next"
  /\ history.kind # "whole"
  /\ Idle
  /\ UNCHANGED <<files, env>>

-----------------------------------------------------------------------------

\* The memory pass is over.
EndMemory ==
  /\ pass = "memory"
  /\ pc = "next"
  /\ todo = <<>>
  /\ Idle
  /\ UNCHANGED <<files, env>>

Next ==
  \/ StartPass \/ StartRefresh \/ Kill \/ Clean \/ \E f \in Family : DeleteSidecar(f)
  \/ SkipFamily \/ MeasureMemory \/ RefreshMemory \/ EndMemory
  \/ Reuse \/ MeasureTiming \/ Publish \/ RefreshTiming \/ RefreshRefused
  \/ Truncate \/ Fill \/ WriteFails

Spec == Init /\ [][Next]_vars

-----------------------------------------------------------------------------
(* Properties                                                              *)

\* A full timing pass about to publish all families.
Publishing == pass = "timing" /\ full /\ pc = "truncate" /\ file = "history"

\* Whatever passes were killed, refreshed or failed to write before, a full
\* timing pass publishes the memory the sidecars hold: no checkpoint that carries
\* older memory is reused.
MergedMemoryIsCurrent ==
  Publishing =>
    \A f \in Family, v \in Version :
      sidecar[f] # NoFile => data[f][v].mem = MemoryOf(f, v)

\* No row is older than a smoke timing: smoke timings come of one pass, which
\* replaced everything that was timed before it.
SmokeIsOldest(h) ==
  \A f, g \in Family, v, w \in Version :
    h[f][v].time \in smoke => h[f][v].time <= h[g][w].time

\* A full timing pass publishes no timing of a smoke run. A refresh that follows a
\* smoke timing pass does: it keeps those of the versions it does not list. So the
\* history may hold smoke timings, but then they are all of the last timing pass
\* that published, and whatever else it holds is of a refresh since.
FullTimesAreFull ==
  /\ Publishing => \A f \in Family, v \in Version : data[f][v].time \notin smoke
  /\ history.kind = "whole" => SmokeIsOldest(history.data)

\* A full pass that is run again after a kill measures no family whose checkpoint
\* is whole and carries the memory its sidecar holds.
ResumeKeepsWork ==
  [][pass = "timing" /\ full /\ file = "none" /\ file' = "checkpoint" =>
       \/ checkpoint[fam].kind # "whole" \/ sidecar[fam] = Torn
       \/ sidecar[fam] # NoFile /\ \E v \in Version :
            checkpoint[fam].data[v].mem # MemoryOf(fam, v)]_vars

\* A history that can be read has every version of every family, whichever pass
\* wrote it and however often it was killed.
HistoryComplete ==
  history.kind = "whole" => history.data \in [Family -> [Version -> VersionRun]]

\* "The result is identical to a full re-run": a refresh publishes the dialects
\* and the deltas a full run of the family would, in every version, those it does
\* not time again included (as long as none of these panics while it is timed).
RefreshIsFullRerun ==
  pass = "refresh" /\ pc = "truncate" /\ (\A x \in panics : x[2] \in listed) =>
    \A v \in Version :
      /\ data[fam][v].dialects = FullRun(v).dialects
      /\ data[fam][v].deltas = FullRun(v).deltas

\* "An interruption resumes at the next family (a family interrupted partway is
\* recomputed from its start)": a memory pass that has come to its end leaves a
\* sidecar of every family.
MemoryPassCompletes ==
  pass = "memory" /\ full /\ pc = "next" /\ todo = <<>> =>
    \A f \in Family : sidecar[f].kind = "whole"

=============================================================================
