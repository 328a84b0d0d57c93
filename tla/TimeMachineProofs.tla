------------------------- MODULE TimeMachineProofs -------------------------
(***************************************************************************)
(* Proofs about TimeMachine, for every registry of families and versions   *)
(* and every number of passes, kills and failed writes.                    *)
(***************************************************************************)
EXTENDS TimeMachine, SequenceTheorems, TLAPS

MemoryPasses == {"memory", "mem-refresh"}

\* The dialects in which a version of a family is timed if P panics, the rows of a
\* family, and the contents of a history.
TimedIn(P, f, v) == {d \in Supported(v) : <<f, v, d>> \notin P}
Rows(P, f) ==
  {h \in [Version -> VersionRun] : \A v \in Version : h[v].dialects = TimedIn(P, f, v)}
Histories(P) ==
  {h \in [Family -> [Version -> VersionRun]] : \A f \in Family : h[f] \in Rows(P, f)}

\* What memory passes up to run r may have measured.
MemoryMaps(r) == UNION {[S -> 0..r] : S \in SUBSET Version}

Kinds(S) == {NoFile, Torn} \cup [kind : {"whole"}, data : S]

\* Rows that a full timing pass may publish: of no smoke run, and with the memory
\* that the sidecar of the family holds.
Current(f, h) ==
  \A v \in Version :
    /\ h[v].time \notin smoke
    /\ sidecar[f] # NoFile => h[v].mem = MemoryOf(f, v)

\* The running pass: what it may be writing, and which families it has come to.
JobInv ==
  /\ pass \in {"none", "memory", "timing", "mem-refresh", "refresh"}
  /\ pc \in {"idle", "next", "truncate", "fill"}
  /\ file \in {"none", "sidecar", "checkpoint", "history"}
  /\ full \in BOOLEAN
  /\ pass = "none" <=> pc = "idle"
  /\ pc \in {"idle", "next"} <=> file = "none"
  /\ file = "sidecar" => pass \in MemoryPasses
  /\ file = "checkpoint" => pass = "timing" /\ full
  /\ file = "history" => pass \in {"timing", "refresh"}
  /\ todo \in Seq(Family)
  /\ listed \subseteq Version
  /\ pass \in {"mem-refresh", "refresh"} => todo # <<>> /\ listed # {}
  /\ file \in {"sidecar", "checkpoint"} => todo # <<>>
  /\ pc = "idle" => out = Empty
  /\ pass = "timing" => DOMAIN out \cup {todo[k] : k \in 1..Len(todo)} = Family

\* The runs are numbered; those without --full are the smoke runs.
RunsInv ==
  /\ runs \in 0..MaxRuns
  /\ smoke \in SUBSET (1..runs)
  /\ pc # "idle" => runs # 0 /\ (full => runs \notin smoke)
  /\ panics \in PanicSets

\* What the pass is about to write, and what it has gathered.
DataInv ==
  /\ file = "sidecar" =>
       data \in MemoryMaps(runs) /\ \E v \in DOMAIN data : data[v] = runs
  /\ file = "checkpoint" =>
       /\ data \in Rows(panics, fam) /\ Current(fam, data)
       /\ \A v \in Version : data[v].time = runs /\ data[v].mem \in 0..runs
  /\ file = "history" => data \in Histories(panics)
  /\ DOMAIN out \subseteq Family
  /\ out \in [DOMAIN out -> [Version -> VersionRun]]
  /\ \A f \in DOMAIN out : out[f] \in Rows(panics, f)
  /\ pass = "timing" /\ full => \A f \in DOMAIN out : Current(f, out[f])

\* What is about to be published: a full pass publishes current rows, a refresh the
\* deltas of a full run, unless a version it does not time again may panic.
PublishInv ==
  file = "history" =>
    /\ pass = "timing" /\ full => \A f \in Family : Current(f, data[f])
    /\ pass = "refresh" /\ (\A x \in panics : x[2] \in listed) =>
         \A v \in Version :
           data[fam][v].deltas = Deltas([w \in Version |-> TimedIn(panics, fam, w)], v)

\* A checkpoint carries times of full runs, and memory no younger than the running
\* memory pass; that of its sidecar, unless the sidecar is newer, and not that of
\* its sidecar if it is.
CheckpointInv ==
  \A f \in Family : checkpoint[f].kind = "whole" =>
    /\ checkpoint[f].data \in Rows(panics, f)
    /\ \A v \in Version :
         /\ checkpoint[f].data[v].time \in (0..runs) \ smoke
         /\ checkpoint[f].data[v].mem \in 0..runs
         /\ pass \in MemoryPasses => checkpoint[f].data[v].mem # runs
    /\ sidecar[f] # NoFile /\ ~memNewer[f] =>
         \A v \in Version : checkpoint[f].data[v].mem = MemoryOf(f, v)
    /\ sidecar[f].kind = "whole" /\ memNewer[f] =>
         \E v \in Version : checkpoint[f].data[v].mem # MemoryOf(f, v)

Past(h) == \A f \in Family, v \in Version : h[f][v].time \in 0..runs

\* The times in the history, about to be in it, and gathered for it: nothing is older
\* than a smoke timing, and a smoke pass gathers only its own.
TimesInv ==
  /\ pass = "refresh" => full
  /\ history.kind = "whole" => SmokeIsOldest(history.data) /\ Past(history.data)
  /\ file = "history" => SmokeIsOldest(data) /\ Past(data)
  /\ pass = "timing" => \A f \in DOMAIN out, v \in Version :
       out[f][v].time \in 0..runs /\ (~full => out[f][v].time = runs)

FilesInv ==
  /\ sidecar \in [Family -> Kinds(MemoryMaps(runs))]
  /\ checkpoint \in [Family -> Kinds([Version -> VersionRun])]
  /\ memNewer \in [Family -> BOOLEAN]
  /\ history \in Kinds(Histories(panics))

-----------------------------------------------------------------------------
(* Sequences and maps                                                      *)

\* A list of families is its head and its tail.
LEMMA HeadAndTail ==
  ASSUME NEW s \in Seq(Family), s # <<>>
  PROVE  /\ Head(s) \in Family /\ Tail(s) \in Seq(Family)
         /\ {s[k] : k \in 1..Len(s)} = {Head(s)} \cup {Tail(s)[k] : k \in 1..Len(Tail(s))}
<1>1. /\ Head(s) = s[1] /\ Len(s) \in Nat \ {0} /\ Tail(s) \in Seq(Family)
      /\ Len(Tail(s)) = Len(s) - 1
      /\ \A k \in 1..(Len(s) - 1) : Tail(s)[k] = s[k + 1]
  BY HeadTailProperties, EmptySeq, LenProperties
<1>2. 1 \in 1..Len(s) /\ s[1] \in Family
  BY <1>1, ElementOfSeq
<1>3. ASSUME NEW k \in 1..Len(s)
      PROVE  s[k] = Head(s) \/ \E j \in 1..Len(Tail(s)) : s[k] = Tail(s)[j]
  <2>1. CASE k = 1
    BY <1>1, <2>1
  <2>2. CASE k # 1
    <3>1. k - 1 \in 1..Len(Tail(s)) /\ Tail(s)[k - 1] = s[k]
      BY <1>1, <2>2
    <3> QED
      BY <3>1
  <2> QED
    BY <2>1, <2>2
<1>4. ASSUME NEW j \in 1..Len(Tail(s)) PROVE \E k \in 1..Len(s) : s[k] = Tail(s)[j]
  <2>1. j + 1 \in 1..Len(s) /\ Tail(s)[j] = s[j + 1]
    BY <1>1
  <2> QED
    BY <2>1
<1> QED
  BY <1>1, <1>2, <1>3, <1>4

\* Histories pushed for one more family.
LEMMA AddFamily ==
  ASSUME NEW f, NEW x
  PROVE  /\ DOMAIN Add(f, x) = DOMAIN out \cup {f}
         /\ Add(f, x)[f] = x
         /\ \A g \in DOMAIN out : g # f => Add(f, x)[g] = out[g]
         /\ Add(f, x) = [g \in DOMAIN out \cup {f} |-> Add(f, x)[g]]
BY DEF Add

\* The memory of a version in a sidecar.
LEMMA MemoryBound ==
  ASSUME FilesInv, RunsInv, NEW f \in Family, NEW v \in Version
  PROVE  MemoryOf(f, v) \in 0..runs
<1>1. CASE sidecar[f].kind = "whole" /\ v \in DOMAIN sidecar[f].data
  <2>1. sidecar[f].data \in MemoryMaps(runs)
    BY <1>1 DEF FilesInv, Kinds, NoFile, Torn
  <2>2. PICK S \in SUBSET Version : sidecar[f].data \in [S -> 0..runs]
    BY <2>1 DEF MemoryMaps
  <2> QED
    BY <1>1, <2>2 DEF MemoryOf
<1>2. CASE ~(sidecar[f].kind = "whole" /\ v \in DOMAIN sidecar[f].data)
  <2>1. MemoryOf(f, v) = 0
    BY <1>2 DEF MemoryOf
  <2> QED
    BY <2>1 DEF RunsInv
<1> QED
  BY <1>1, <1>2

\* What a full run of the family at the head of the list measures.
LEMMA FullRunRows ==
  ASSUME FilesInv, RunsInv, fam \in Family
  PROVE  /\ [v \in Version |-> FullRun(v)] \in Rows(panics, fam)
         /\ \A v \in Version :
              /\ FullRun(v) \in VersionRun
              /\ FullRun(v).time = runs /\ FullRun(v).mem = MemoryOf(fam, v)
              /\ FullRun(v).dialects = TimedIn(panics, fam, v)
<1>1. ASSUME NEW v \in Version PROVE Timed(v) = TimedIn(panics, fam, v) /\ Timed(v) \subseteq Dialects
  BY DEF Timed, TimedIn, Supported
<1>2. ASSUME NEW v \in Version
      PROVE  Deltas([w \in Version |-> Timed(w)], v) \subseteq Dialects
  BY <1>1 DEF Deltas
<1>3. runs \in 0..MaxRuns /\ \A v \in Version : MemoryOf(fam, v) \in 0..MaxRuns
  BY MemoryBound, TimeMachineAssumption DEF RunsInv
<1>4. ASSUME NEW v \in Version
      PROVE  /\ FullRun(v) \in VersionRun
             /\ FullRun(v).time = runs /\ FullRun(v).mem = MemoryOf(fam, v)
             /\ FullRun(v).dialects = TimedIn(panics, fam, v)
  BY <1>1, <1>2, <1>3 DEF FullRun, VersionRun
<1> QED
  BY <1>4 DEF Rows

-----------------------------------------------------------------------------
(* The running pass                                                        *)

\* The registry lists every family of parsers.
LEMMA WholeRegistry ==
  Families \in Seq(Family) /\ Family = {Families[k] : k \in 1..Len(Families)}
BY TimeMachineAssumption DEF Family

\* When a pass ends what the next one starts from is well-formed.
LEMMA IdleJob == Idle => JobInv'
<1> SUFFICES ASSUME Idle PROVE JobInv'
  OBVIOUS
<1>1. <<>> \in Seq(Family)
  BY EmptySeq
<1> QED
  BY <1>1 DEF Idle, JobInv

\* The end of writing a file keeps the job well-formed.
LEMMA WrittenJob ==
  ASSUME JobInv, pc \in {"truncate", "fill"}, Written
  PROVE  JobInv'
<1>1. CASE file = "history" \/ pass = "mem-refresh"
  BY <1>1, IdleJob DEF Written
<1>2. CASE ~(file = "history" \/ pass = "mem-refresh")
  <2>1. /\ file \in {"sidecar", "checkpoint"} /\ todo \in Seq(Family) /\ todo # <<>>
        /\ pass \in {"memory", "timing"}
        /\ (file = "checkpoint") <=> (pass = "timing")
    BY <1>2 DEF JobInv, MemoryPasses
  <2>2. /\ out' = IF file = "checkpoint" THEN Add(fam, data) ELSE out
        /\ todo' = Tail(todo) /\ pc' = "next" /\ file' = "none"
        /\ UNCHANGED <<pass, full, listed>>
    BY <1>2 DEF Written, fam
  <2>3. /\ Tail(todo) \in Seq(Family)
        /\ {todo[k] : k \in 1..Len(todo)} = {fam} \cup {Tail(todo)[k] : k \in 1..Len(Tail(todo))}
    BY <2>1, HeadAndTail DEF fam
  <2>4. ASSUME pass = "timing" PROVE DOMAIN out' \cup {todo'[k] : k \in 1..Len(todo')} = Family
    <3>1. DOMAIN out' = DOMAIN out \cup {fam}
      BY <2>1, <2>2, <2>4, AddFamily
    <3>2. DOMAIN out \cup {todo[k] : k \in 1..Len(todo)} = Family
      BY <2>4 DEF JobInv
    <3> QED
      BY <2>2, <2>3, <3>1, <3>2
  <2> QED
    BY <2>1, <2>2, <2>3, <2>4 DEF JobInv
<1> QED
  BY <1>1, <1>2

\* A family whose rows need no checkpoint.
LEMMA GatheredJob ==
  ASSUME JobInv, TimingNext, NEW x, out' = Add(fam, x), todo' = Tail(todo),
         UNCHANGED <<pass, pc, full, listed, file>>
  PROVE  JobInv'
<1>1. /\ Tail(todo) \in Seq(Family)
      /\ {todo[k] : k \in 1..Len(todo)} = {fam} \cup {Tail(todo)[k] : k \in 1..Len(Tail(todo))}
  BY HeadAndTail DEF TimingNext, JobInv, fam
<1>2. DOMAIN out' = DOMAIN out \cup {fam}
  BY AddFamily
<1>3. DOMAIN out' \cup {todo'[k] : k \in 1..Len(todo')} = Family
  BY <1>1, <1>2 DEF TimingNext, JobInv
<1> QED
  BY <1>1, <1>3 DEF TimingNext, JobInv

\* At the start no pass is running.
LEMMA JobInit == Init => JobInv
<1>1. <<>> \in Seq(Family)
  BY EmptySeq
<1> QED
  BY <1>1 DEF Init, JobInv

\* Every step keeps the running pass, its list and its file consistent.
LEMMA JobStep == JobInv /\ [Next]_vars => JobInv'
<1> SUFFICES ASSUME JobInv, [Next]_vars PROVE JobInv'
  OBVIOUS
<1>1. CASE StartPass
  <2>1. PICK which \in {"memory", "timing"}, fl \in BOOLEAN : Begin(which, fl, Families, {})
    BY <1>1 DEF StartPass
  <2>2. /\ out = Empty /\ UNCHANGED <<file, out>> /\ file = "none"
        /\ pc' = "next" /\ pass' = which /\ full' = fl /\ todo' = Families /\ listed' = {}
    BY <2>1 DEF Begin, JobInv
  <2>3. DOMAIN out' = {}
    BY <2>2 DEF Empty
  <2> QED
    BY <2>2, <2>3, WholeRegistry DEF JobInv
<1>2. CASE StartRefresh
  <2>1. PICK which \in {"mem-refresh", "refresh"}, f \in Family, S \in (SUBSET Version) \ {{}} :
          Begin(which, TRUE, <<f>>, S)
    BY <1>2 DEF StartRefresh
  <2>2. /\ UNCHANGED file /\ file = "none"
        /\ pc' = "next" /\ pass' = which /\ full' = TRUE /\ todo' = <<f>> /\ listed' = S
    BY <2>1 DEF Begin, JobInv
  <2>3. <<f>> \in Seq(Family) /\ <<f>> # <<>>
    OBVIOUS
  <2> QED
    BY <2>2, <2>3 DEF JobInv
<1>3. CASE Kill \/ RefreshRefused \/ EndMemory
  BY <1>3, IdleJob DEF Kill, RefreshRefused, EndMemory
<1>4. CASE Clean \/ \E f \in Family : DeleteSidecar(f)
  BY <1>4 DEF Clean, DeleteSidecar, job, JobInv
<1>5. CASE SkipFamily
  <2>1. Tail(todo) \in Seq(Family)
    BY <1>5, HeadAndTail DEF SkipFamily, MemoryNext, JobInv
  <2> QED
    BY <1>5, <2>1 DEF SkipFamily, MemoryNext, JobInv
<1>6. CASE MeasureMemory \/ RefreshMemory
  BY <1>6 DEF MeasureMemory, MemoryNext, RefreshMemory, Write, JobInv, MemoryPasses
<1>7. CASE Reuse
  BY <1>7, GatheredJob DEF Reuse
<1>8. CASE MeasureTiming
  <2> DEFINE x == [v \in Version |-> FullRun(v)]
  <2>1. TimingNext /\ Checkpoint(x) /\ UNCHANGED <<pass, full, listed>>
    BY <1>8 DEF MeasureTiming
  <2> HIDE DEF x
  <2>2. CASE full
    BY <2>1, <2>2 DEF TimingNext, Checkpoint, Write, JobInv
  <2>3. CASE ~full
    BY <2>1, <2>3, GatheredJob DEF Checkpoint
  <2> QED
    BY <2>2, <2>3
<1>9. CASE Publish \/ RefreshTiming
  BY <1>9 DEF Publish, TimingNext, RefreshTiming, Write, JobInv
<1>10. CASE Truncate
  BY <1>10 DEF Truncate, JobInv
<1>11. CASE Fill \/ WriteFails
  BY <1>11, WrittenJob DEF Fill, WriteFails
<1>12. CASE UNCHANGED vars
  BY <1>12 DEF vars, job, JobInv
<1> QED
  BY <1>1, <1>2, <1>3, <1>4, <1>5, <1>6, <1>7, <1>8, <1>9, <1>10, <1>11, <1>12 DEF Next

-----------------------------------------------------------------------------
(* The runs and the files                                                  *)

\* Every step keeps the runs numbered, the smoke runs among them.
LEMMA RunsStep == JobInv /\ RunsInv /\ [Next]_vars => RunsInv'
<1> SUFFICES ASSUME JobInv, RunsInv, [Next]_vars PROVE RunsInv'
  OBVIOUS
<1>0. full \in BOOLEAN /\ full' \in BOOLEAN
  BY JobStep DEF JobInv
<1>1. CASE StartPass \/ StartRefresh
  <2>1. PICK fl \in BOOLEAN : \E which, families, S : Begin(which, fl, families, S)
    BY <1>1 DEF StartPass, StartRefresh
  <2>2. /\ runs \in 0..MaxRuns /\ runs < MaxRuns /\ runs' = runs + 1 /\ full' = fl
        /\ smoke \in SUBSET (1..runs) /\ MaxRuns \in Nat
        /\ smoke' = IF fl THEN smoke ELSE smoke \cup {runs + 1}
        /\ UNCHANGED panics
    BY <2>1, TimeMachineAssumption DEF Begin, RunsInv
  <2>3. runs' \in 0..MaxRuns /\ runs' # 0 /\ smoke' \in SUBSET (1..runs')
    BY <2>2
  <2>4. fl => runs' \notin smoke'
    BY <2>2
  <2> QED
    BY <2>2, <2>3, <2>4 DEF RunsInv
<1>2. CASE Kill \/ RefreshRefused \/ EndMemory
  BY <1>2 DEF Kill, RefreshRefused, EndMemory, Idle, RunsInv, env
<1>3. CASE Fill \/ WriteFails
  <2>1. /\ pc # "idle" /\ UNCHANGED <<runs, smoke, panics>>
        /\ UNCHANGED full \/ pc' = "idle"
    BY <1>3 DEF Fill, WriteFails, Written, Idle, env
  <2> QED
    BY <2>1 DEF RunsInv
<1>4. CASE MeasureTiming
  <2>1. pc # "idle" /\ UNCHANGED <<runs, smoke, panics, full>>
    BY <1>4 DEF MeasureTiming, TimingNext, env
  <2> QED
    BY <2>1 DEF RunsInv
<1>5. CASE SkipFamily \/ MeasureMemory \/ RefreshMemory
  BY <1>0, <1>5 DEF SkipFamily, MeasureMemory, MemoryNext, RefreshMemory, env, RunsInv
<1>6. CASE Reuse \/ Publish \/ RefreshTiming \/ Truncate
  BY <1>0, <1>6 DEF Reuse, TimingNext, Publish, RefreshTiming, Truncate, env, RunsInv
<1>7. CASE Clean \/ (\E f \in Family : DeleteSidecar(f)) \/ UNCHANGED vars
  BY <1>0, <1>7 DEF Clean, DeleteSidecar, vars, job, env, RunsInv
<1> QED
  BY <1>1, <1>2, <1>3, <1>4, <1>5, <1>6, <1>7 DEF Next

\* What one pass has measured the next one may hold.
LEMMA MemoryMapsGrow ==
  ASSUME NEW r \in Nat, NEW q \in Nat, r <= q
  PROVE  MemoryMaps(r) \subseteq MemoryMaps(q)
<1>1. 0..r \subseteq 0..q
  OBVIOUS
<1>2. ASSUME NEW S \in SUBSET Version, NEW m \in [S -> 0..r] PROVE m \in [S -> 0..q]
  BY <1>1
<1> QED
  BY <1>2 DEF MemoryMaps

\* A file put on disk is torn or is whole and holds what its kind of file holds.
LEMMA PutFiles ==
  ASSUME FilesInv, JobInv, NEW x, Put(x), UNCHANGED <<runs, panics>>,
         \/ x = Torn
         \/ /\ x = Whole(data)
            /\ file = "sidecar" => data \in MemoryMaps(runs)
            /\ file = "checkpoint" => data \in [Version -> VersionRun]
            /\ file = "history" => data \in Histories(panics)
  PROVE  FilesInv'
<1>1. ASSUME NEW S, x = Torn \/ (x = Whole(data) /\ data \in S) PROVE x \in Kinds(S)
  BY <1>1 DEF Kinds, Whole
<1>2. file \in {"sidecar", "checkpoint"} => fam \in Family
  BY HeadAndTail DEF JobInv, fam
<1>3. CASE file = "sidecar"
  <2>1. x \in Kinds(MemoryMaps(runs))
    BY <1>1, <1>3
  <2> QED
    BY <1>2, <1>3, <2>1 DEF Put, FilesInv, fam
<1>4. CASE file = "checkpoint"
  <2>1. x \in Kinds([Version -> VersionRun])
    BY <1>1, <1>4
  <2> QED
    BY <1>2, <1>4, <2>1 DEF Put, FilesInv, fam
<1>5. CASE file = "history"
  <2>1. x \in Kinds(Histories(panics))
    BY <1>1, <1>5
  <2> QED
    BY <1>5, <2>1 DEF Put, FilesInv
<1> QED
  BY <1>3, <1>4, <1>5 DEF Put

\* At the start the files on disk are whole or absent.
LEMMA FilesInit == Init => FilesInv
BY DEF Init, FilesInv, Kinds

\* Every step keeps each file on disk absent, torn, or whole with typed contents.
LEMMA FilesStep ==
  JobInv /\ RunsInv /\ DataInv /\ FilesInv /\ [Next]_vars => FilesInv'
<1> SUFFICES ASSUME JobInv, RunsInv, DataInv, FilesInv, [Next]_vars PROVE FilesInv'
  OBVIOUS
<1>1. CASE StartPass \/ StartRefresh
  <2>1. PICK which, fl, families, S : Begin(which, fl, families, S)
    BY <1>1 DEF StartPass, StartRefresh
  <2>2. runs \in Nat /\ runs' = runs + 1 /\ UNCHANGED <<files, panics>>
    BY <2>1 DEF Begin, RunsInv
  <2>3. MemoryMaps(runs) \subseteq MemoryMaps(runs')
    BY <2>2, MemoryMapsGrow
  <2>4. Kinds(MemoryMaps(runs)) \subseteq Kinds(MemoryMaps(runs'))
    BY <2>3 DEF Kinds
  <2> QED
    BY <2>2, <2>4 DEF FilesInv, files
<1>2. CASE Clean
  BY <1>2 DEF Clean, FilesInv, Kinds, env
<1>3. ASSUME NEW f \in Family, DeleteSidecar(f) PROVE FilesInv'
  BY <1>3 DEF DeleteSidecar, FilesInv, Kinds, env
<1>4. CASE Truncate
  BY <1>4, PutFiles DEF Truncate, env
<1>5. CASE Fill
  <2>1. file = "checkpoint" => data \in [Version -> VersionRun]
    BY DEF DataInv, Rows
  <2> QED
    BY <1>5, <2>1, PutFiles DEF Fill, env, DataInv
<1>6. CASE UNCHANGED <<files, runs, panics>>
  BY <1>6 DEF FilesInv, files
<1> QED
  BY <1>1, <1>2, <1>3, <1>4, <1>5, <1>6 DEF Next, Kill, RefreshRefused, EndMemory, WriteFails,
    SkipFamily, MeasureMemory, RefreshMemory, Reuse, MeasureTiming, Publish, RefreshTiming,
    vars, env

-----------------------------------------------------------------------------
(* What is written and gathered                                            *)

\* What is gathered is empty at the start of a pass.
LEMMA EmptyOut == DOMAIN Empty = {} /\ Empty \in [DOMAIN Empty -> [Version -> VersionRun]]
BY DEF Empty

\* When a pass ends nothing is about to be written or published.
LEMMA IdleData == Idle => DataInv'
BY EmptyOut DEF Idle, DataInv

\* The rows of one more family are gathered.
LEMMA GatheredData ==
  ASSUME JobInv, DataInv, NEW x, fam \in Family, out' = Add(fam, x),
         x \in Rows(panics, fam), pass = "timing" /\ full => Current(fam, x),
         UNCHANGED <<pass, full, sidecar, smoke, panics>>, file' = "none"
  PROVE  DataInv'
<1>1. /\ DOMAIN out' = DOMAIN out \cup {fam} /\ out'[fam] = x
      /\ \A g \in DOMAIN out : g # fam => out'[g] = out[g]
      /\ out' = [g \in DOMAIN out \cup {fam} |-> out'[g]]
  BY AddFamily
<1>2. /\ DOMAIN out \subseteq Family
      /\ \A f \in DOMAIN out : out[f] \in Rows(panics, f)
      /\ x \in [Version -> VersionRun]
      /\ \A f \in DOMAIN out : out[f] \in [Version -> VersionRun]
  BY DEF DataInv, Rows
<1>3. \A f \in DOMAIN out' : out'[f] \in Rows(panics, f) /\ out'[f] \in [Version -> VersionRun]
  BY <1>1, <1>2
<1>4. DOMAIN out' \subseteq Family /\ out' \in [DOMAIN out' -> [Version -> VersionRun]]
  BY <1>1, <1>2, <1>3
<1>5. ASSUME pass' = "timing", full', NEW f \in DOMAIN out' PROVE Current(f, out[f])'
  <2>1. Current(f, out'[f])
    BY <1>1, <1>5 DEF DataInv
  <2> QED
    BY <2>1 DEF Current, MemoryOf
<1> QED
  BY <1>3, <1>4, <1>5 DEF DataInv

\* The end of writing a file keeps what is gathered and about to be written well-formed.
LEMMA WrittenData ==
  ASSUME JobInv, DataInv, pc \in {"truncate", "fill"}, Written, UNCHANGED <<smoke, panics>>,
         file = "sidecar" \/ UNCHANGED sidecar
  PROVE  DataInv'
<1>1. CASE file = "history" \/ pass = "mem-refresh"
  BY <1>1, IdleData DEF Written
<1>2. CASE file = "checkpoint" /\ pass # "mem-refresh"
  <2>1. /\ fam \in Family /\ data \in Rows(panics, fam) /\ Current(fam, data)
    BY <1>2, HeadAndTail DEF JobInv, DataInv, fam
  <2>2. out' = Add(fam, data) /\ UNCHANGED <<pass, full, sidecar>> /\ file' = "none"
    BY <1>2 DEF Written, fam
  <2> QED
    BY <2>1, <2>2, GatheredData
<1>3. CASE file = "sidecar" /\ pass # "mem-refresh"
  BY <1>3 DEF Written, JobInv, MemoryPasses, DataInv
<1> QED
  BY <1>1, <1>2, <1>3 DEF JobInv

\* What a refresh publishes.
LEMMA RefreshedRows ==
  ASSUME FilesInv, RunsInv, fam \in Family, history.kind = "whole"
  PROVE  /\ history.data \in Histories(panics)
         /\ [v \in Version |-> Refreshed(v)] \in Rows(panics, fam)
         /\ \A v \in Version :
              Refreshed(v).deltas = Deltas([w \in Version |-> Known(w)], v)
<1>1. history.data \in Histories(panics)
  BY DEF FilesInv, Kinds, NoFile, Torn
<1>2. \A v \in Version :
        /\ history.data[fam][v] \in VersionRun
        /\ history.data[fam][v].dialects = TimedIn(panics, fam, v)
  BY <1>1 DEF Histories, Rows
<1>3. ASSUME NEW v \in Version
      PROVE  Deltas([w \in Version |-> Known(w)], v) \subseteq Dialects
  BY DEF Deltas, Known, Timed, Supported
<1>4. ASSUME NEW v \in Version
      PROVE  /\ Refreshed(v) \in VersionRun
             /\ Refreshed(v).dialects = TimedIn(panics, fam, v)
             /\ Refreshed(v).deltas = Deltas([w \in Version |-> Known(w)], v)
  <2> DEFINE new == IF v \in listed THEN FullRun(v) ELSE history.data[fam][v]
             ds  == Deltas([w \in Version |-> Known(w)], v)
  <2>1. new \in VersionRun /\ new.dialects = TimedIn(panics, fam, v)
    BY <1>2, FullRunRows
  <2>2. ds \subseteq Dialects
    BY <1>3
  <2>3. Refreshed(v) = [new EXCEPT !.deltas = ds]
    BY DEF Refreshed
  <2> HIDE DEF new, ds
  <2>4. [new EXCEPT !.deltas = ds] \in VersionRun
    BY <2>1, <2>2 DEF VersionRun
  <2>5. /\ [new EXCEPT !.deltas = ds].dialects = new.dialects
        /\ [new EXCEPT !.deltas = ds].deltas = ds
    BY <2>1 DEF VersionRun
  <2>6. /\ Refreshed(v) \in VersionRun
        /\ Refreshed(v).dialects = TimedIn(panics, fam, v) /\ Refreshed(v).deltas = ds
    BY <2>1, <2>3, <2>4, <2>5
  <2> QED
    BY <2>6 DEF ds
<1> QED
  BY <1>1, <1>4 DEF Rows

\* A memory pass that measures some versions keeps the values of the others.
LEMMA MeasuredMaps ==
  ASSUME RunsInv, NEW old, NEW S \in SUBSET Version, S # {}, old = Empty \/ old \in MemoryMaps(runs),
         NEW new, new = [v \in DOMAIN old \cup S |-> IF v \in S THEN runs ELSE old[v]]
  PROVE  new \in MemoryMaps(runs) /\ \E v \in DOMAIN new : new[v] = runs
<1>1. PICK D \in SUBSET Version : old \in [D -> 0..runs]
  BY DEF MemoryMaps, Empty
<1>2. runs \in 0..runs
  BY DEF RunsInv
<1>3. new \in [D \cup S -> 0..runs] /\ D \cup S \in SUBSET Version
  BY <1>1, <1>2
<1>4. PICK v \in S : TRUE
  OBVIOUS
<1>5. v \in DOMAIN new /\ new[v] = runs
  BY <1>4
<1> QED
  BY <1>3, <1>5 DEF MemoryMaps

\* At the start nothing is gathered.
LEMMA DataInit == Init => DataInv
BY EmptyOut DEF Init, DataInv

\* Every step keeps what is gathered, and about to be written, rows of the registry's families.
LEMMA DataStep ==
  JobInv /\ RunsInv /\ FilesInv /\ DataInv /\ CheckpointInv /\ [Next]_vars => DataInv'
<1> SUFFICES ASSUME JobInv, RunsInv, FilesInv, DataInv, CheckpointInv, [Next]_vars PROVE DataInv'
  OBVIOUS
<1>0. todo # <<>> => fam \in Family
  BY HeadAndTail DEF JobInv, fam
<1>1. CASE StartPass \/ StartRefresh
  <2>1. UNCHANGED <<file, out, panics>> /\ file = "none" /\ out = Empty
    BY <1>1 DEF StartPass, StartRefresh, Begin, JobInv
  <2> QED
    BY <2>1, EmptyOut DEF DataInv
<1>2. CASE Kill \/ RefreshRefused \/ EndMemory
  BY <1>2, IdleData DEF Kill, RefreshRefused, EndMemory
<1>3. CASE Clean \/ \E f \in Family : DeleteSidecar(f)
  <2>1. /\ UNCHANGED <<file, out, panics, pass>> /\ file = "none" /\ pass = "none"
    BY <1>3 DEF Clean, DeleteSidecar, job, env, JobInv
  <2> QED
    BY <2>1 DEF DataInv
<1>4. CASE SkipFamily
  BY <1>4 DEF SkipFamily, MemoryNext, env, JobInv, DataInv
<1>5. CASE MeasureMemory
  <2>1. /\ pass' = "memory" /\ file' = "sidecar" /\ data' = [v \in Version |-> runs]
        /\ UNCHANGED <<out, panics, runs>>
    BY <1>5 DEF MeasureMemory, MemoryNext, Write, env
  <2>2. data' \in MemoryMaps(runs) /\ \E v \in DOMAIN data' : data'[v] = runs
    <3>1. 1 \in Version /\ runs \in 0..runs
      BY TimeMachineAssumption DEF Version, RunsInv
    <3>2. data' \in [Version -> 0..runs]
      BY <2>1, <3>1
    <3> QED
      BY <2>1, <3>1, <3>2 DEF MemoryMaps
  <2> QED
    BY <2>1, <2>2 DEF DataInv
<1>6. CASE RefreshMemory
  <2> DEFINE old == IF sidecar[fam].kind = "whole" THEN sidecar[fam].data ELSE Empty
  <2>1. /\ pass' = "mem-refresh" /\ file' = "sidecar" /\ UNCHANGED <<out, panics, runs>>
        /\ data' = [v \in DOMAIN old \cup listed |-> IF v \in listed THEN runs ELSE old[v]]
    BY <1>6 DEF RefreshMemory, Write, env
  <2>2. listed \in SUBSET Version /\ listed # {} /\ fam \in Family
    BY <1>0, <1>6 DEF RefreshMemory, JobInv
  <2>3. old = Empty \/ old \in MemoryMaps(runs)
    BY <2>2 DEF FilesInv, Kinds, NoFile, Torn
  <2> HIDE DEF old
  <2>4. data' \in MemoryMaps(runs) /\ \E v \in DOMAIN data' : data'[v] = runs
    BY <2>1, <2>2, <2>3, MeasuredMaps
  <2> QED
    BY <2>1, <2>4 DEF DataInv
<1>7. CASE Reuse
  <2> DEFINE x == checkpoint[fam].data
  <2>1. fam \in Family /\ checkpoint[fam].kind = "whole" /\ pass = "timing"
    BY <1>0, <1>7 DEF Reuse, TimingNext, Fresh
  <2>2. x \in Rows(panics, fam) /\ Current(fam, x)
    BY <1>7, <2>1 DEF CheckpointInv, Reuse, Fresh, FilesInv, Current
  <2>3. /\ out' = Add(fam, x) /\ file' = "none"
        /\ UNCHANGED <<pass, full, sidecar, smoke, panics>>
    BY <1>7 DEF Reuse, TimingNext, files, env, JobInv
  <2> QED
    BY <2>1, <2>2, <2>3, GatheredData
<1>8. CASE MeasureTiming
  <2> DEFINE x == [v \in Version |-> FullRun(v)]
  <2>1. /\ Checkpoint(x) /\ UNCHANGED <<pass, full, sidecar, smoke, panics, runs>>
        /\ pc = "next" /\ file = "none" /\ pass = "timing" /\ fam \in Family
    BY <1>0, <1>8 DEF MeasureTiming, TimingNext, files, env, JobInv
  <2>2. x \in Rows(panics, fam)
    BY <2>1, FullRunRows
  <2>3. ASSUME full PROVE Current(fam, x)
    <3>1. runs \notin smoke
      BY <2>1, <2>3 DEF RunsInv
    <3>2. \A v \in Version : x[v].time = runs /\ x[v].mem = MemoryOf(fam, v)
      BY <2>1, FullRunRows
    <3> QED
      BY <3>1, <3>2 DEF Current
  <2> HIDE DEF x
  <2>4. CASE full
    <3>1. /\ file' = "checkpoint" /\ data' = x /\ UNCHANGED <<out, todo>>
      BY <2>1, <2>4 DEF Checkpoint, Write
    <3>2. Current(fam, data)'
      BY <2>1, <2>3, <2>4, <3>1 DEF Current, MemoryOf, fam
    <3>3. \A f \in DOMAIN out : Current(f, out[f])
      BY <2>1, <2>4 DEF DataInv
    <3>4. \A f \in DOMAIN out' : Current(f, out[f])'
      BY <2>1, <3>1, <3>3 DEF Current, MemoryOf
    <3>5. (data \in Rows(panics, fam))'
      BY <2>1, <2>2, <3>1 DEF fam
    <3>6. \A v \in Version : x[v].time = runs /\ x[v].mem \in 0..runs
      BY <2>1, FullRunRows, MemoryBound DEF x
    <3> QED
      BY <2>1, <3>1, <3>2, <3>4, <3>5, <3>6 DEF DataInv
  <2>5. CASE ~full
    <3>1. out' = Add(fam, x) /\ file' = "none"
      BY <2>1, <2>5 DEF Checkpoint
    <3> QED
      BY <2>1, <2>2, <2>5, <3>1, GatheredData
  <2> QED
    BY <2>4, <2>5
<1>9. CASE Publish
  <2>1. /\ file' = "history" /\ data' = out
        /\ UNCHANGED <<pass, full, sidecar, smoke, panics, out>>
    BY <1>9 DEF Publish, Write, files, env
  <2>2. DOMAIN out = Family
    <3>1. {todo[k] : k \in 1..Len(todo)} = {}
      BY <1>9 DEF Publish
    <3> QED
      BY <1>9, <3>1 DEF Publish, JobInv
  <2>3. out \in Histories(panics)
    BY <2>2 DEF DataInv, Histories
  <2> QED
    BY <2>1, <2>3 DEF DataInv, Current, MemoryOf
<1>10. CASE RefreshTiming
  <2> DEFINE rows == [v \in Version |-> Refreshed(v)]
  <2>1. /\ file' = "history" /\ data' = [history.data EXCEPT ![fam] = rows]
        /\ pass' = "refresh" /\ UNCHANGED <<out, panics>>
    BY <1>10 DEF RefreshTiming, Write, env
  <2>2. fam \in Family /\ history.kind = "whole"
    BY <1>0, <1>10 DEF RefreshTiming, JobInv
  <2>3. history.data \in Histories(panics) /\ rows \in Rows(panics, fam)
    BY <2>2, RefreshedRows
  <2> HIDE DEF rows
  <2>4. data' \in Histories(panics)
    BY <2>1, <2>2, <2>3 DEF Histories, Rows
  <2> QED
    BY <2>1, <2>4 DEF DataInv
<1>11. CASE Truncate
  <2>1. UNCHANGED <<pass, full, todo, file, data, out, panics, smoke, runs>>
    BY <1>11 DEF Truncate, env
  <2>2. file = "sidecar" \/ UNCHANGED sidecar
    BY <1>11 DEF Truncate, Put
  <2>3. CASE file = "sidecar"
    BY <2>1, <2>3 DEF DataInv, JobInv, MemoryPasses
  <2>4. CASE file # "sidecar"
    BY <2>1, <2>2, <2>4 DEF DataInv, Current, MemoryOf, fam
  <2> QED
    BY <2>3, <2>4
<1>12. CASE Fill \/ WriteFails
  <2>1. file = "sidecar" \/ UNCHANGED sidecar
    BY <1>12 DEF Fill, Put, WriteFails, files
  <2> QED
    BY <1>12, <2>1, WrittenData DEF Fill, WriteFails, env
<1>13. CASE UNCHANGED vars
  BY <1>13 DEF vars, files, job, env, DataInv, Current, MemoryOf, fam
<1> QED
  BY <1>1, <1>2, <1>3, <1>4, <1>5, <1>6, <1>7, <1>8, <1>9, <1>10, <1>11, <1>12, <1>13 DEF Next

-----------------------------------------------------------------------------
(* The checkpoints                                                         *)

\* Every step keeps checkpoints of full runs, with the memory of their sidecar unless it is newer.
LEMMA CheckpointStep ==
  JobInv /\ RunsInv /\ FilesInv /\ DataInv /\ CheckpointInv /\ [Next]_vars => CheckpointInv'
<1> SUFFICES ASSUME JobInv, RunsInv, FilesInv, DataInv, CheckpointInv, [Next]_vars
             PROVE  CheckpointInv'
  OBVIOUS
<1>0. todo # <<>> => fam \in Family
  BY HeadAndTail DEF JobInv, fam
<1>1. CASE StartPass \/ StartRefresh
  <2>1. PICK fl \in BOOLEAN : \E which, families, S : Begin(which, fl, families, S)
    BY <1>1 DEF StartPass, StartRefresh
  <2>2. /\ UNCHANGED <<sidecar, checkpoint, memNewer, panics>>
        /\ runs \in Nat /\ runs' = runs + 1
        /\ smoke' \subseteq smoke \cup {runs'}
    BY <2>1 DEF Begin, files, RunsInv
  <2>3. ASSUME NEW n \in 0..runs PROVE n \in 0..runs' /\ n # runs'
    BY <2>2
  <2> QED
    BY <2>2, <2>3 DEF CheckpointInv, MemoryOf
<1>2. CASE Clean
  BY <1>2 DEF Clean, NoFile, CheckpointInv
<1>3. ASSUME NEW f \in Family, DeleteSidecar(f) PROVE CheckpointInv'
  <2>1. /\ UNCHANGED <<checkpoint, memNewer, panics, runs, smoke, pass>>
        /\ sidecar'[f] = NoFile /\ sidecar'[f].kind # "whole"
        /\ \A g \in Family : g # f => sidecar'[g] = sidecar[g]
    BY <1>3 DEF DeleteSidecar, FilesInv, NoFile, job, env
  <2> QED
    BY <2>1 DEF CheckpointInv, MemoryOf
<1>4. CASE (Truncate \/ Fill) /\ file = "sidecar"
  <2>0. PICK f \in Family : f = fam
    BY <1>0, <1>4 DEF JobInv
  <2>1. PICK x : Put(x) /\ (x = Torn \/ x = Whole(data))
    BY <1>4 DEF Truncate, Fill
  <2>2. pass \in MemoryPasses
    BY <1>4 DEF JobInv
  <2>3. /\ sidecar'[f] = x /\ memNewer'[f] = TRUE
        /\ \A g \in Family : g # f => sidecar'[g] = sidecar[g] /\ memNewer'[g] = memNewer[g]
        /\ UNCHANGED <<checkpoint, panics, runs, smoke>>
    BY <1>4, <2>0, <2>1 DEF Put, Truncate, Fill, FilesInv, env, fam
  <2>4. ASSUME x.kind = "whole", checkpoint[f].kind = "whole"
        PROVE  \E v \in Version : checkpoint[f].data[v].mem # MemoryOf(f, v)'
    <3>1. x = Whole(data) /\ data \in MemoryMaps(runs)
      BY <1>4, <2>1, <2>4 DEF Torn, DataInv
    <3>2. PICK v \in DOMAIN data : data[v] = runs
      BY <1>4 DEF DataInv
    <3>3. v \in Version
      BY <3>1, <3>2 DEF MemoryMaps
    <3>4. checkpoint[f].data[v].mem # runs
      BY <2>2, <2>4, <3>3 DEF CheckpointInv
    <3>5. sidecar'[f].kind = "whole" /\ sidecar'[f].data = data
      BY <2>3, <3>1 DEF Whole
    <3>6. MemoryOf(f, v)' = runs
      BY <3>2, <3>5 DEF MemoryOf
    <3> QED
      BY <3>3, <3>4, <3>6
  <2>5. ASSUME NEW g \in Family, g # f, NEW v \in Version PROVE MemoryOf(g, v)' = MemoryOf(g, v)
    BY <2>3, <2>5 DEF MemoryOf
  <2>6. ASSUME NEW g \in Family, checkpoint[g].kind = "whole"
        PROVE  /\ sidecar'[g] # NoFile /\ ~memNewer'[g] =>
                    \A v \in Version : checkpoint[g].data[v].mem = MemoryOf(g, v)'
               /\ sidecar'[g].kind = "whole" /\ memNewer'[g] =>
                    \E v \in Version : checkpoint[g].data[v].mem # MemoryOf(g, v)'
    <3>1. CASE g = f
      BY <2>3, <2>4, <2>6, <3>1
    <3>2. CASE g # f
      BY <2>3, <2>5, <2>6, <3>2 DEF CheckpointInv
    <3> QED
      BY <3>1, <3>2
  <2>7. \A g \in Family : checkpoint[g].kind = "whole" =>
          /\ checkpoint[g].data \in Rows(panics, g)
          /\ \A v \in Version : /\ checkpoint[g].data[v].time \in (0..runs) \ smoke
                                /\ checkpoint[g].data[v].mem \in 0..runs
                                /\ checkpoint[g].data[v].mem # runs
    BY <2>2 DEF CheckpointInv
  <2> QED
    BY <2>3, <2>6, <2>7 DEF CheckpointInv
<1>5. CASE (Truncate \/ Fill) /\ file = "checkpoint"
  <2>0. PICK f \in Family : f = fam
    BY <1>0, <1>5 DEF JobInv
  <2>1. PICK x : Put(x) /\ (x = Torn \/ x = Whole(data))
    BY <1>5 DEF Truncate, Fill
  <2>2. /\ checkpoint'[f] = x /\ memNewer'[f] = FALSE
        /\ \A g \in Family : g # f => /\ checkpoint'[g] = checkpoint[g]
                                      /\ memNewer'[g] = memNewer[g]
        /\ UNCHANGED <<sidecar, panics, runs, smoke>>
    BY <1>5, <2>0, <2>1 DEF Put, Truncate, Fill, FilesInv, env, fam
  <2>3. pass' \notin MemoryPasses
    BY <1>5 DEF Truncate, Fill, Written, Idle, JobInv, MemoryPasses
  <2>4. /\ data \in Rows(panics, f) /\ runs \in 0..runs /\ runs \notin smoke
        /\ \A v \in Version : /\ data[v].time = runs /\ data[v].mem \in 0..runs
                              /\ sidecar[f] # NoFile => data[v].mem = MemoryOf(f, v)
    BY <1>5, <2>0 DEF DataInv, Current, RunsInv, JobInv
  <2>5. x.kind = "whole" => x.data = data
    BY <2>1 DEF Torn, Whole
  <2>6. ASSUME NEW g \in Family, NEW v \in Version PROVE MemoryOf(g, v)' = MemoryOf(g, v)
    BY <2>2 DEF MemoryOf
  <2>7. ASSUME NEW g \in Family, checkpoint'[g].kind = "whole"
        PROVE  /\ checkpoint'[g].data \in Rows(panics, g)
               /\ \A v \in Version : /\ checkpoint'[g].data[v].time \in (0..runs) \ smoke
                                     /\ checkpoint'[g].data[v].mem \in 0..runs
               /\ sidecar[g] # NoFile /\ ~memNewer'[g] =>
                    \A v \in Version : checkpoint'[g].data[v].mem = MemoryOf(g, v)
               /\ sidecar[g].kind = "whole" /\ memNewer'[g] =>
                    \E v \in Version : checkpoint'[g].data[v].mem # MemoryOf(g, v)
    <3>1. CASE g = f
      BY <2>2, <2>4, <2>5, <2>7, <3>1
    <3>2. CASE g # f
      BY <2>2, <2>7, <3>2 DEF CheckpointInv
    <3> QED
      BY <3>1, <3>2
  <2> QED
    BY <2>2, <2>3, <2>6, <2>7 DEF CheckpointInv
<1>6. CASE (Truncate \/ Fill) /\ file = "history"
  <2>1. UNCHANGED <<sidecar, checkpoint, memNewer, panics, runs, smoke>>
    BY <1>6 DEF Truncate, Fill, Put, env
  <2>2. pass' \in {pass, "none"}
    BY <1>6 DEF Truncate, Fill, Written, Idle
  <2> QED
    BY <2>1, <2>2 DEF CheckpointInv, MemoryOf, MemoryPasses
<1>7. CASE Kill \/ RefreshRefused \/ EndMemory \/ WriteFails
  <2>1. UNCHANGED <<sidecar, checkpoint, memNewer, panics, runs, smoke>>
    BY <1>7 DEF Kill, RefreshRefused, EndMemory, WriteFails, files, env
  <2>2. pass' \in {pass, "none"}
    BY <1>7 DEF Kill, RefreshRefused, EndMemory, WriteFails, Written, Idle
  <2> QED
    BY <2>1, <2>2 DEF CheckpointInv, MemoryOf, MemoryPasses
<1>8. CASE UNCHANGED <<sidecar, checkpoint, memNewer, panics, runs, smoke, pass>>
  BY <1>8 DEF CheckpointInv, MemoryOf
<1>9. CASE \/ SkipFamily \/ MeasureMemory \/ RefreshMemory \/ Reuse \/ MeasureTiming
           \/ Publish \/ RefreshTiming \/ UNCHANGED vars
  BY <1>8, <1>9 DEF SkipFamily, MeasureMemory, RefreshMemory, Reuse, MeasureTiming, Publish,
    RefreshTiming, vars, files, job, env
<1> QED
  BY <1>1, <1>2, <1>3, <1>4, <1>5, <1>6, <1>7, <1>9 DEF Next, Truncate, Fill, Put

-----------------------------------------------------------------------------
(* What is published                                                       *)

\* What a full pass or a refresh is about to publish is current, after every step.
LEMMA PublishStep ==
  JobInv /\ RunsInv /\ FilesInv /\ DataInv /\ PublishInv /\ [Next]_vars => PublishInv'
<1> SUFFICES ASSUME JobInv, RunsInv, FilesInv, DataInv, PublishInv, [Next]_vars,
                    file' = "history"
             PROVE  PublishInv'
  BY DEF PublishInv
<1>1. CASE Publish
  <2>1. {todo[k] : k \in 1..Len(todo)} = {}
    BY <1>1 DEF Publish
  <2>2. DOMAIN out = Family
    BY <1>1, <2>1 DEF Publish, JobInv
  <2>3. data' = out /\ pass' = "timing" /\ UNCHANGED <<full, sidecar, smoke>>
    BY <1>1 DEF Publish, Write, files, env
  <2>4. ASSUME full' PROVE \A f \in Family : Current(f, out[f])
    BY <1>1, <2>2, <2>3, <2>4 DEF DataInv, Publish
  <2> QED
    BY <2>3, <2>4 DEF PublishInv, Current, MemoryOf
<1>2. CASE RefreshTiming
  <2> DEFINE rows == [v \in Version |-> Refreshed(v)]
  <2>0. PICK f \in Family : f = fam
    BY <1>2, HeadAndTail DEF RefreshTiming, JobInv, fam
  <2>1. /\ data' = [history.data EXCEPT ![f] = rows] /\ pass' = "refresh"
        /\ f = fam' /\ history.kind = "whole" /\ UNCHANGED <<panics, listed>>
    BY <1>2, <2>0 DEF RefreshTiming, Write, env, fam
  <2>2. /\ history.data \in Histories(panics)
        /\ \A v \in Version : rows[v].deltas = Deltas([w \in Version |-> Known(w)], v)
    BY <2>0, <2>1, RefreshedRows
  <2> HIDE DEF rows
  <2>3. data'[f] = rows
    BY <2>1, <2>2 DEF Histories
  <2>4. ASSUME \A x \in panics : x[2] \in listed, NEW w \in Version
        PROVE  Known(w) = TimedIn(panics, f, w)
    <3>1. ASSUME NEW d, <<f, w, d>> \in panics PROVE w \in listed
      <4>1. <<f, w, d>>[2] = w
        OBVIOUS
      <4> QED
        BY <2>4, <3>1, <4>1
    <3> QED
      BY <2>0, <3>1 DEF Known, Timed, TimedIn
  <2>5. ASSUME \A x \in panics : x[2] \in listed, NEW v \in Version
        PROVE  data'[f][v].deltas = Deltas([w \in Version |-> TimedIn(panics, f, w)], v)
    <3>1. [w \in Version |-> Known(w)] = [w \in Version |-> TimedIn(panics, f, w)]
      BY <2>4, <2>5
    <3> QED
      BY <2>2, <2>3, <3>1
  <2> QED
    BY <2>1, <2>5 DEF PublishInv
<1>3. CASE Truncate
  <2>1. /\ UNCHANGED <<pass, full, todo, listed, file, data, panics, smoke, sidecar>>
    BY <1>3 DEF Truncate, Put, env
  <2> QED
    BY <2>1 DEF PublishInv, Current, MemoryOf, fam
<1>4. CASE Clean \/ \E f \in Family : DeleteSidecar(f)
  BY <1>4 DEF Clean, DeleteSidecar, job, JobInv
<1>5. CASE StartPass \/ StartRefresh
  BY <1>5 DEF StartPass, StartRefresh, Begin, JobInv
<1>6. CASE UNCHANGED vars
  BY <1>6 DEF PublishInv, Current, MemoryOf, fam, vars, files, job, env
<1>7. CASE Fill \/ WriteFails
  BY <1>7 DEF Fill, WriteFails, Written, Idle
<1>8. CASE SkipFamily \/ MeasureMemory \/ RefreshMemory \/ Reuse \/ MeasureTiming
  BY <1>8 DEF SkipFamily, MeasureMemory, MemoryNext, RefreshMemory, Reuse, MeasureTiming,
    TimingNext, Checkpoint, Write, JobInv
<1> QED
  BY <1>1, <1>2, <1>3, <1>4, <1>5, <1>6, <1>7, <1>8
  DEF Next, Kill, RefreshRefused, EndMemory, Idle

-----------------------------------------------------------------------------
(* Smoke timings                                                           *)

\* A time in a refreshed row is that of the refresh or the one it was.
LEMMA RefreshedTime ==
  ASSUME FilesInv, RunsInv, fam \in Family, history.kind = "whole", NEW v \in Version
  PROVE  Refreshed(v).time = IF v \in listed THEN runs ELSE history.data[fam][v].time
<1> DEFINE new == IF v \in listed THEN FullRun(v) ELSE history.data[fam][v]
           ds  == Deltas([w \in Version |-> Known(w)], v)
<1>1. history.data[fam][v] \in VersionRun
  BY DEF FilesInv, Kinds, NoFile, Torn, Histories, Rows
<1>2. FullRun(v) \in VersionRun /\ FullRun(v).time = runs
  BY FullRunRows
<1>3. new \in VersionRun /\ new.time = IF v \in listed THEN runs ELSE history.data[fam][v].time
  BY <1>1, <1>2
<1>4. Refreshed(v) = [new EXCEPT !.deltas = ds]
  BY DEF Refreshed
<1> HIDE DEF new, ds
<1>5. [new EXCEPT !.deltas = ds].time = new.time
  BY <1>3 DEF VersionRun
<1> QED
  BY <1>3, <1>4, <1>5

\* The times of one more family are gathered.
LEMMA GatheredTimes ==
  ASSUME TimesInv, NEW x, out' = Add(fam, x), UNCHANGED <<pass, full, runs>>, pass = "timing",
         \A v \in Version : x[v].time \in 0..runs /\ (~full => x[v].time = runs)
  PROVE  \A f \in DOMAIN out', v \in Version :
           out'[f][v].time \in 0..runs /\ (~full => out'[f][v].time = runs)
<1>1. /\ DOMAIN out' = DOMAIN out \cup {fam} /\ out'[fam] = x
      /\ \A g \in DOMAIN out : g # fam => out'[g] = out[g]
  BY DEF Add
<1>2. \A f \in DOMAIN out, v \in Version :
        out[f][v].time \in 0..runs /\ (~full => out[f][v].time = runs)
  BY DEF TimesInv
<1>3. ASSUME NEW f \in DOMAIN out', NEW v \in Version
      PROVE  out'[f][v].time \in 0..runs /\ (~full => out'[f][v].time = runs)
  <2>1. CASE f = fam
    BY <1>1, <2>1
  <2>2. CASE f # fam
    BY <1>1, <1>2, <2>2
  <2> QED
    BY <2>1, <2>2
<1> QED
  BY <1>3

\* A file that is written has the times that were about to be, and the next family
\* or the end of the pass follows.
LEMMA WrittenTimes ==
  ASSUME JobInv, DataInv, TimesInv, RunsInv, Written, UNCHANGED <<smoke, runs>>,
         pc \in {"truncate", "fill"},
         UNCHANGED history \/ (file = "history" /\ history' = Whole(data))
  PROVE  TimesInv'
<1>1. history'.kind = "whole" => SmokeIsOldest(history'.data) /\ Past(history'.data)
  BY DEF TimesInv, Whole
<1>2. (history.kind = "whole" => SmokeIsOldest(history.data) /\ Past(history.data))'
  BY <1>1 DEF SmokeIsOldest, Past
<1>3. CASE Idle
  BY <1>2, <1>3 DEF Idle, TimesInv
<1>4. CASE file = "checkpoint" /\ pass # "mem-refresh"
  <2>1. /\ out' = Add(fam, data) /\ UNCHANGED <<pass, full>> /\ file' = "none"
    BY <1>4 DEF Written, fam
  <2>2. pass = "timing" /\ full /\ runs \in Nat
    BY <1>4, TimeMachineAssumption DEF JobInv, RunsInv
  <2>3. \A v \in Version : data[v].time \in 0..runs /\ (~full => data[v].time = runs)
    BY <1>4, <2>2 DEF DataInv
  <2>4. \A f \in DOMAIN out', v \in Version :
          out'[f][v].time \in 0..runs /\ (~full => out'[f][v].time = runs)
    BY <2>1, <2>2, <2>3, GatheredTimes
  <2> QED
    BY <1>2, <2>1, <2>2, <2>4 DEF TimesInv
<1>5. CASE file = "sidecar" /\ pass # "mem-refresh" /\ ~Idle
  <2>1. pass' = "memory" /\ file' = "none"
    BY <1>5 DEF Written, JobInv, MemoryPasses
  <2> QED
    BY <1>2, <2>1 DEF TimesInv
<1> QED
  BY <1>3, <1>4, <1>5 DEF Written, JobInv

\* Every step keeps smoke timings the oldest of the history they are in.
LEMMA TimesStep ==
  JobInv /\ RunsInv /\ FilesInv /\ DataInv /\ CheckpointInv /\ PublishInv /\ TimesInv
    /\ [Next]_vars => TimesInv'
<1> SUFFICES ASSUME JobInv, RunsInv, FilesInv, DataInv, CheckpointInv, PublishInv, TimesInv,
                    [Next]_vars
             PROVE  TimesInv'
  OBVIOUS
<1>0. /\ todo # <<>> => fam \in Family
      /\ runs \in Nat /\ smoke \in SUBSET (1..runs)
  BY HeadAndTail, TimeMachineAssumption DEF JobInv, fam, RunsInv
<1>1. CASE StartPass \/ StartRefresh
  <2>1. /\ runs' = runs + 1 /\ smoke' \subseteq smoke \cup {runs + 1}
        /\ UNCHANGED <<history, file, out>> /\ file = "none" /\ out = Empty
        /\ pass' = "refresh" => full'
    BY <1>1 DEF StartPass, StartRefresh, Begin, JobInv, files
  <2>2. ASSUME history.kind = "whole"
        PROVE  (SmokeIsOldest(history.data) /\ Past(history.data))'
    <3>1. SmokeIsOldest(history.data) /\ Past(history.data)
      BY <2>2 DEF TimesInv
    <3>2. \A f \in Family, v \in Version :
            /\ history.data[f][v].time \in 0..runs'
            /\ history.data[f][v].time \in smoke' => history.data[f][v].time \in smoke
      BY <1>0, <2>1, <3>1 DEF Past
    <3> QED
      BY <2>1, <3>1, <3>2 DEF SmokeIsOldest, Past
  <2> QED
    BY <2>1, <2>2, EmptyOut DEF TimesInv
<1>2. CASE Kill \/ RefreshRefused \/ EndMemory
  <2>1. Idle /\ UNCHANGED <<history, smoke, runs>>
    BY <1>2 DEF Kill, RefreshRefused, EndMemory, files, env
  <2> QED
    BY <2>1 DEF Idle, TimesInv, SmokeIsOldest, Past
<1>3. CASE SkipFamily \/ MeasureMemory \/ RefreshMemory
  <2>1. /\ UNCHANGED <<pass, full, history, smoke, runs>> /\ pass \in MemoryPasses
        /\ file' # "history"
    BY <1>3 DEF SkipFamily, MeasureMemory, MemoryNext, RefreshMemory, Write, files, env,
      MemoryPasses, JobInv
  <2> QED
    BY <2>1 DEF TimesInv, SmokeIsOldest, Past, MemoryPasses
<1>4. CASE Reuse
  <2> DEFINE x == checkpoint[fam].data
  <2>1. /\ out' = Add(fam, x) /\ file' = "none" /\ pass = "timing" /\ full
        /\ UNCHANGED <<pass, full, history, smoke, runs>>
        /\ fam \in Family /\ checkpoint[fam].kind = "whole"
    BY <1>0, <1>4 DEF Reuse, TimingNext, Fresh, files, env, JobInv
  <2>2. \A v \in Version : x[v].time \in 0..runs /\ (~full => x[v].time = runs)
    BY <2>1 DEF CheckpointInv
  <2> HIDE DEF x
  <2>3. \A f \in DOMAIN out', v \in Version :
          out'[f][v].time \in 0..runs /\ (~full => out'[f][v].time = runs)
    BY <2>1, <2>2, GatheredTimes
  <2> QED
    BY <2>1, <2>3 DEF TimesInv, SmokeIsOldest, Past
<1>5. CASE MeasureTiming
  <2> DEFINE x == [v \in Version |-> FullRun(v)]
  <2>1. /\ Checkpoint(x) /\ UNCHANGED <<pass, full, history, smoke, runs>>
        /\ file = "none" /\ pass = "timing" /\ fam \in Family
    BY <1>0, <1>5 DEF MeasureTiming, TimingNext, files, env, JobInv
  <2>2. \A v \in Version : x[v].time \in 0..runs /\ (~full => x[v].time = runs)
    BY <1>0, <2>1, FullRunRows
  <2> HIDE DEF x
  <2>3. CASE full
    <3>1. file' = "checkpoint" /\ UNCHANGED out
      BY <2>1, <2>3 DEF Checkpoint, Write
    <3> QED
      BY <2>1, <3>1 DEF TimesInv, SmokeIsOldest, Past
  <2>4. CASE ~full
    <3>1. out' = Add(fam, x) /\ file' = "none"
      BY <2>1, <2>4 DEF Checkpoint
    <3>2. \A f \in DOMAIN out', v \in Version :
            out'[f][v].time \in 0..runs /\ (~full => out'[f][v].time = runs)
      BY <2>1, <2>2, <3>1, GatheredTimes
    <3> QED
      BY <2>1, <3>1, <3>2 DEF TimesInv, SmokeIsOldest, Past
  <2> QED
    BY <2>3, <2>4
<1>6. CASE Publish
  <2>1. /\ data' = out /\ pass = "timing" /\ {todo[k] : k \in 1..Len(todo)} = {}
        /\ UNCHANGED <<pass, full, out, history, smoke, runs>>
    BY <1>6 DEF Publish, Write, files, env
  <2>2. DOMAIN out = Family
    BY <2>1 DEF JobInv
  <2>3. \A f \in Family, v \in Version : out[f][v].time \in 0..runs
    BY <2>1, <2>2 DEF TimesInv
  <2>4. SmokeIsOldest(out)
    <3>1. CASE full
      <4>1. \A f \in Family, v \in Version : out[f][v].time \notin smoke
        BY <2>1, <2>2, <3>1 DEF DataInv, Current
      <4> QED
        BY <4>1 DEF SmokeIsOldest
    <3>2. CASE ~full
      <4>1. \A f \in Family, v \in Version : out[f][v].time = runs
        BY <2>1, <2>2, <3>2 DEF TimesInv
      <4> QED
        BY <1>0, <4>1 DEF SmokeIsOldest
    <3> QED
      BY <3>1, <3>2
  <2> QED
    BY <2>1, <2>3, <2>4 DEF TimesInv, SmokeIsOldest, Past
<1>7. CASE RefreshTiming
  <2> DEFINE rows == [v \in Version |-> Refreshed(v)]
             old  == history.data
  <2>1. /\ data' = [old EXCEPT ![fam] = rows] /\ pass = "refresh" /\ full
        /\ UNCHANGED <<pass, full, history, smoke, runs>>
        /\ fam \in Family /\ history.kind = "whole" /\ runs \notin smoke
    BY <1>0, <1>7 DEF RefreshTiming, Write, files, env, JobInv, TimesInv, RunsInv
  <2>2. old \in Histories(panics) /\ SmokeIsOldest(old) /\ Past(old)
    BY <2>1, RefreshedRows DEF TimesInv
  <2>3. \A v \in Version :
          rows[v].time = IF v \in listed THEN runs ELSE old[fam][v].time
    BY <2>1, RefreshedTime
  <2> HIDE DEF rows, old
  <2>4. /\ data'[fam] = rows
        /\ \A f \in Family : f # fam => data'[f] = old[f]
    BY <2>1, <2>2 DEF Histories
  <2>5. \A f \in Family, v \in Version :
          \/ data'[f][v].time = old[f][v].time
          \/ data'[f][v].time = runs
    BY <2>3, <2>4
  <2>6. \A f \in Family, v \in Version : data'[f][v].time \in 0..runs
    BY <1>0, <2>2, <2>5 DEF Past
  <2>7. \A f, g \in Family, v, w \in Version :
          data'[f][v].time \in smoke => data'[f][v].time <= data'[g][w].time
    <3> SUFFICES ASSUME NEW f \in Family, NEW g \in Family, NEW v \in Version, NEW w \in Version,
                        data'[f][v].time \in smoke
                 PROVE  data'[f][v].time <= data'[g][w].time
      OBVIOUS
    <3>1. data'[f][v].time = old[f][v].time /\ old[f][v].time \in smoke
      BY <2>1, <2>5
    <3>2. old[f][v].time <= old[g][w].time /\ old[f][v].time \in 0..runs
      BY <2>2, <3>1 DEF SmokeIsOldest, Past
    <3>3. CASE data'[g][w].time = old[g][w].time
      BY <3>1, <3>2, <3>3
    <3>4. CASE data'[g][w].time = runs
      BY <1>0, <3>1, <3>2, <3>4
    <3> QED
      BY <2>5, <3>3, <3>4
  <2>8. (SmokeIsOldest(data) /\ Past(data))'
    BY <2>1, <2>6, <2>7 DEF SmokeIsOldest, Past
  <2>9. (history.kind = "whole" => SmokeIsOldest(history.data) /\ Past(history.data))'
    BY <2>1, <2>2 DEF SmokeIsOldest, Past, old
  <2> QED
    BY <2>1, <2>8, <2>9 DEF TimesInv
<1>8. CASE Truncate
  <2>1. /\ UNCHANGED <<pass, full, file, data, out, smoke, runs>>
        /\ UNCHANGED history \/ history'.kind # "whole"
    BY <1>8 DEF Truncate, Put, Torn, env
  <2> QED
    BY <2>1 DEF TimesInv, SmokeIsOldest, Past
<1>9. CASE Fill \/ WriteFails
  <2>1. /\ Written /\ pc \in {"truncate", "fill"} /\ UNCHANGED <<smoke, runs>>
        /\ UNCHANGED history \/ (file = "history" /\ history' = Whole(data))
    BY <1>9 DEF Fill, Put, WriteFails, files, env
  <2> QED
    BY <2>1, WrittenTimes
<1>10. CASE Clean \/ \E f \in Family : DeleteSidecar(f)
  BY <1>10 DEF Clean, DeleteSidecar, job, env, TimesInv, SmokeIsOldest, Past
<1>11. CASE UNCHANGED vars
  BY <1>11 DEF vars, files, job, env, TimesInv, SmokeIsOldest, Past
<1> QED
  BY <1>1, <1>2, <1>3, <1>4, <1>5, <1>6, <1>7, <1>8, <1>9, <1>10, <1>11 DEF Next

-----------------------------------------------------------------------------
(* The theorems                                                            *)

IInv ==
  JobInv /\ RunsInv /\ FilesInv /\ DataInv /\ CheckpointInv /\ PublishInv
    /\ TimesInv

\* The inductive invariant holds at the start.
LEMMA InvInit == Init => IInv
<1> SUFFICES ASSUME Init PROVE IInv
  OBVIOUS
<1>1. RunsInv
  BY TimeMachineAssumption DEF Init, RunsInv
<1>2. CheckpointInv /\ PublishInv /\ TimesInv
  BY DEF Init, NoFile, CheckpointInv, PublishInv, TimesInv
<1> QED
  BY <1>1, <1>2, JobInit, FilesInit, DataInit DEF IInv

\* Every step keeps the inductive invariant.
LEMMA InvStep == IInv /\ [Next]_vars => IInv'
BY JobStep, RunsStep, FilesStep, DataStep, CheckpointStep, PublishStep, TimesStep DEF IInv

\* The inductive invariant holds in every reachable state.
LEMMA InvHolds == Spec => []IInv
BY InvInit, InvStep, PTL DEF Spec

\* Files and passes have their types, whatever was killed or failed to write.
THEOREM TimeMachineTypeCorrect == Spec => []TypeOK
<1>1. ASSUME IInv PROVE TypeOK
  <2>1. ASSUME NEW f \in Family, sidecar[f].kind = "whole"
        PROVE  DOMAIN sidecar[f].data \subseteq Version
    <3>1. sidecar[f].data \in MemoryMaps(runs)
      BY <1>1, <2>1 DEF IInv, FilesInv, Kinds, NoFile, Torn
    <3> QED
      BY <3>1 DEF MemoryMaps
  <2>2. ASSUME NEW f \in Family, checkpoint[f].kind = "whole"
        PROVE  checkpoint[f].data \in [Version -> VersionRun]
    BY <1>1, <2>2 DEF IInv, CheckpointInv, Rows
  <2> QED
    BY <1>1, <2>1, <2>2 DEF IInv, JobInv, RunsInv, FilesInv, DataInv, TypeOK
<1> QED
  BY <1>1, InvHolds, PTL

\* A full timing pass publishes the memory that the sidecars hold (cached_timing
\* compares the ages of a checkpoint and its sidecar).
THEOREM TimeMachineMergesCurrentMemory == Spec => []MergedMemoryIsCurrent
<1>1. IInv => MergedMemoryIsCurrent
  BY DEF IInv, PublishInv, Current, MergedMemoryIsCurrent, Publishing
<1> QED
  BY <1>1, InvHolds, PTL

\* A full timing pass publishes no time of a smoke run, which leaves no checkpoint
\* that a full run could reuse; what a refresh keeps of a smoke pass is older than
\* everything else in the history (run_timing, run_refresh).
THEOREM TimeMachineFullTimes == Spec => []FullTimesAreFull
<1>1. IInv => FullTimesAreFull
  BY DEF IInv, PublishInv, Current, TimesInv, FullTimesAreFull, Publishing
<1> QED
  BY <1>1, InvHolds, PTL

\* A history file that can be read is complete: write_combined comes after every
\* family, and a refresh rewrites a history that it has read.
THEOREM TimeMachineHistoryComplete == Spec => []HistoryComplete
<1>1. IInv => HistoryComplete
  BY DEF IInv, FilesInv, Kinds, NoFile, Torn, Histories, HistoryComplete
<1> QED
  BY <1>1, InvHolds, PTL

\* A refresh publishes the dialects and the deltas of a full run (refresh_timing).
THEOREM TimeMachineRefresh == Spec => []RefreshIsFullRerun
<1>1. ASSUME IInv, pass = "refresh", pc = "truncate", \A x \in panics : x[2] \in listed,
             NEW v \in Version
      PROVE  /\ data[fam][v].dialects = FullRun(v).dialects
             /\ data[fam][v].deltas = FullRun(v).deltas
  <2>1. fam \in Family /\ file = "history" /\ data \in Histories(panics)
    BY <1>1, HeadAndTail DEF IInv, JobInv, DataInv, fam, MemoryPasses
  <2>2. data[fam][v].dialects = TimedIn(panics, fam, v)
    BY <2>1 DEF Histories, Rows
  <2>3. FullRun(v).dialects = TimedIn(panics, fam, v)
    BY <1>1, <2>1, FullRunRows DEF IInv
  <2>4. data[fam][v].deltas = Deltas([w \in Version |-> TimedIn(panics, fam, w)], v)
    BY <1>1, <2>1 DEF IInv, PublishInv
  <2>5. FullRun(v).deltas = Deltas([w \in Version |-> TimedIn(panics, fam, w)], v)
    <3>1. [w \in Version |-> Timed(w)] = [w \in Version |-> TimedIn(panics, fam, w)]
      BY DEF Timed, TimedIn
    <3> QED
      BY <3>1 DEF FullRun
  <2> QED
    BY <2>2, <2>3, <2>4, <2>5
<1>2. IInv => RefreshIsFullRerun
  BY <1>1 DEF RefreshIsFullRerun
<1> QED
  BY <1>2, InvHolds, PTL

\* A full timing pass that is run again measures only what it must: a family
\* without a whole checkpoint, or whose memory has been measured since.
THEOREM TimeMachineResumes == Spec => ResumeKeepsWork
<1>1. ASSUME IInv, [Next]_vars, pass = "timing", full, file = "none", file' = "checkpoint"
      PROVE  \/ checkpoint[fam].kind # "whole" \/ sidecar[fam] = Torn
             \/ sidecar[fam] # NoFile /\ \E v \in Version :
                  checkpoint[fam].data[v].mem # MemoryOf(fam, v)
  <2>1. MeasureTiming
    BY <1>1 DEF Next, StartPass, StartRefresh, Begin, Kill, Clean, DeleteSidecar, SkipFamily,
      MeasureMemory, RefreshMemory, EndMemory, Reuse, Publish, RefreshTiming, RefreshRefused,
      Truncate, Fill, WriteFails, Put, Written, Idle, Write, MemoryNext, TimingNext, vars, job
  <2>2. fam \in Family /\ ~Fresh
    BY <1>1, <2>1, HeadAndTail DEF IInv, JobInv, MeasureTiming, TimingNext, fam
  <2>3. CASE checkpoint[fam].kind = "whole" /\ sidecar[fam] # Torn
    <3>1. sidecar[fam] # NoFile /\ memNewer[fam] /\ sidecar[fam].kind = "whole"
      BY <1>1, <2>2, <2>3 DEF Fresh, IInv, FilesInv, Kinds
    <3> QED
      BY <1>1, <2>2, <2>3, <3>1 DEF IInv, CheckpointInv
  <2> QED
    BY <2>3
<1>2. IInv /\ [Next]_vars =>
        [pass = "timing" /\ full /\ file = "none" /\ file' = "checkpoint" =>
           \/ checkpoint[fam].kind # "whole" \/ sidecar[fam] = Torn
           \/ sidecar[fam] # NoFile /\ \E v \in Version :
                checkpoint[fam].data[v].mem # MemoryOf(fam, v)]_vars
  BY <1>1
<1> QED
  BY <1>2, InvHolds, PTL DEF Spec, ResumeKeepsWork

=============================================================================
