---------------------------- MODULE OracleCache ----------------------------
(***************************************************************************)
(* The label caches between the two programs that share them: the oracle   *)
(* binary, which labels the corpora of the dialects it is asked for and    *)
(* writes one file per dialect (main, write_cache), and a benchmark        *)
(* process, whose grading threads load the files once, through a OnceLock, *)
(* and look the statements of a corpus up in them (oracle_cache).          *)
(*                                                                         *)
(* The labelling itself is one step here: an adapter returns an error or a *)
(* verdict for each statement, and nothing is assumed of the verdicts.     *)
(* Whether they are the engine's is what the adapters' modules say, and    *)
(* where they are not.  Both programs may be killed at any point, the      *)
(* corpus is edited between runs, and either program may run while the     *)
(* other does.                                                             *)
(***************************************************************************)
EXTENDS Naturals, Sequences, FiniteSets

CONSTANTS
  DialectAll,    \* Dialect::ALL: a sequence of dialects
  Implemented,   \* the dialects with an adapter
  Stmts,         \* statements (up to their hash)
  Corpora,       \* the contents a dialect's corpus may take: sequences of Stmts
  ArgLists,      \* what the oracle may be asked for: sequences of names
  Workers,       \* grading threads of a benchmark process: 1..Workers
  MaxRuns,       \* bound: runs of the oracle
  MaxEdits       \* bound: edits of a corpus

Dialects == {DialectAll[k] : k \in 1..Len(DialectAll)}
Threads == 0..Workers    \* 0 is the thread that merges the reports

ASSUME CacheAssumption ==
  /\ DialectAll \in Seq(Dialects) /\ DialectAll # <<>>
  /\ Implemented \subseteq Dialects
  /\ \A c \in Corpora : c \in Seq(Stmts)
  /\ {Workers, MaxRuns, MaxEdits} \subseteq Nat

VARIABLES
  corpus,       \* dialect -> the statements of datasets/{dir}/
  file,         \* dialect -> oracle/labels/{dir}.tsv.zst
  opc, todo, snap, verdicts,          \* the oracle process
  runs, edits,                        \* bounded counters
  once, loading, cache,               \* CACHE: OnceLock<Labels> of a benchmark
  tpc, graded, gstmts, mode, answer,  \* its grading threads
  said,         \* history: dialect -> the labellings of it that were completed
  header        \* history: dialect -> the first line of the file it was loaded from

oracle == <<opc, todo, snap, verdicts, runs>>
bench  == <<once, loading, cache, tpc, graded, gstmts, mode, answer, header>>
vars   == <<corpus, file, oracle, edits, bench, said>>

NoFile == [kind |-> "none"]
Torn   == [kind |-> "torn"]     \* truncated, and not yet a complete frame
Labels == [s \in {} |-> TRUE]   \* the empty HashMap

StmtsOf(c) == {c[k] : k \in 1..Len(c)}
FirstIndex(c, s) ==
  CHOOSE k \in 1..Len(c) : c[k] = s /\ \A j \in 1..(k - 1) : c[j] # s

\* The verdicts of a corpus as a map: of a statement that occurs twice, the first.
FirstOf(c, v) == [s \in StmtsOf(c) |-> v[FirstIndex(c, s)]]

Labellings == {[stmts |-> c, verdicts |-> v] :
                 c \in Corpora, v \in UNION {[1..Len(e) -> BOOLEAN] : e \in Corpora}}

PartialLabels == UNION {[D -> BOOLEAN] : D \in SUBSET Stmts}

TypeOK ==
  /\ corpus \in [Dialects -> Corpora]
  /\ \A d \in Dialects :
       file[d].kind = "whole" =>
         file[d].count \in Nat /\ file[d].map \in PartialLabels
  /\ opc \in {"idle", "next", "label", "create", "finish"}
  /\ once \in {"uninit", "loading", "ready"}
  /\ loading \in 0..Len(DialectAll)
  /\ DOMAIN cache \subseteq Dialects
  /\ \A d \in DOMAIN cache : cache[d] \in PartialLabels
  /\ tpc \in [Threads -> {"off", "call", "look", "end"}]
  /\ mode \in [Threads -> {"none", "reference", "provenance"}]
  /\ answer \in [Threads -> PartialLabels]
  /\ said \in [Dialects -> SUBSET Labellings]

Init ==
  /\ corpus \in [Dialects -> Corpora]
  /\ file = [d \in Dialects |-> NoFile]
  /\ opc = "idle" /\ todo = <<>> /\ snap = <<>> /\ verdicts = <<>>
  /\ runs = 0 /\ edits = 0
  /\ once = "uninit" /\ loading = 0 /\ cache = Labels
  /\ tpc = [t \in Threads |-> "off"]
  /\ graded = DialectAll[1] /\ gstmts = <<>>
  /\ mode = [t \in Threads |-> "none"]
  /\ answer = [t \in Threads |-> Labels]
  /\ said = [d \in Dialects |-> {}]
  /\ header = [d \in Dialects |-> 0]

-----------------------------------------------------------------------------
(* The corpus is edited by hand or by the suite builders.                  *)

Edit(d) ==
  /\ edits < MaxEdits
  /\ edits' = edits + 1
  /\ \E c \in Corpora \ {corpus[d]} : corpus' = [corpus EXCEPT ![d] = c]
  /\ UNCHANGED <<file, oracle, bench, said>>

-----------------------------------------------------------------------------
(* The oracle                                                              *)

Exit == opc' = "idle" /\ todo' = <<>> /\ snap' = <<>> /\ verdicts' = <<>>

StartOracle ==
  /\ opc = "idle"
  /\ runs < MaxRuns
  /\ runs' = runs + 1
  /\ todo' \in ArgLists
  /\ opc' = "next"
  /\ UNCHANGED <<corpus, file, snap, verdicts, edits, bench, said>>

\* An unknown dialect, an empty corpus or a missing adapter: `continue`.
\* (A dialect without an adapter has its corpus loaded first, to no effect.)
Skip ==
  /\ opc = "next"
  /\ todo # <<>>
  /\ Head(todo) \in Implemented => corpus[Head(todo)] = <<>>
  /\ todo' = Tail(todo)
  /\ UNCHANGED <<corpus, file, opc, snap, verdicts, runs, edits, bench, said>>

LoadCorpus ==
  /\ opc = "next"
  /\ todo # <<>>
  /\ Head(todo) \in Implemented
  /\ corpus[Head(todo)] # <<>>
  /\ snap' = corpus[Head(todo)]
  /\ opc' = "label"
  /\ UNCHANGED <<corpus, file, todo, verdicts, runs, edits, bench, said>>

\* The adapter returns Ok: a verdict per statement.
LabelOk ==
  /\ opc = "label"
  /\ verdicts' \in [1..Len(snap) -> BOOLEAN]
  /\ said' = [said EXCEPT ![Head(todo)] = @ \cup {[stmts |-> snap, verdicts |-> verdicts']}]
  /\ opc' = "create"
  /\ UNCHANGED <<corpus, file, todo, snap, runs, edits, bench>>

\* The adapter returns Err: `?` ends main, the dialects after it included.
LabelErr ==
  /\ opc = "label"
  /\ Exit
  /\ UNCHANGED <<corpus, file, runs, edits, bench, said>>

\* Mutant: the file is created before the statements are labelled.
CreateFirst ==
  /\ opc \in {"label", "create"}
  /\ file' = [file EXCEPT ![Head(todo)] = Torn]
  /\ opc' = IF opc = "create" THEN "finish" ELSE opc
  /\ UNCHANGED <<corpus, todo, snap, verdicts, runs, edits, bench, said>>

\* File::create truncates what was there.
Create ==
  /\ opc = "create"
  /\ file' = [file EXCEPT ![Head(todo)] = Torn]
  /\ opc' = "finish"
  /\ UNCHANGED <<corpus, todo, snap, verdicts, runs, edits, bench, said>>

\* map.entry(hash).or_insert(v): the first verdict of a statement wins.
FirstVerdicts == FirstOf(snap, verdicts)

\* The encoder is finished: the file is whole, under its header.
FinishFile ==
  /\ opc = "finish"
  /\ file' = [file EXCEPT ![Head(todo)] =
                [kind |-> "whole", count |-> Len(snap), map |-> FirstVerdicts]]
  /\ opc' = "next"
  /\ todo' = Tail(todo)
  /\ snap' = <<>>
  /\ verdicts' = <<>>
  /\ UNCHANGED <<corpus, runs, edits, bench, said>>

\* The oracle ends, or is killed, or fails to write: what is on disk stays.
EndOracle ==
  /\ opc # "idle"
  /\ Exit
  /\ UNCHANGED <<corpus, file, runs, edits, bench, said>>

-----------------------------------------------------------------------------
(* A benchmark process: grade_dialect                                      *)

\* load_dialect, then the workers are spawned; every thread starts with
\* has_reference, which needs labels().
StartBench(d) ==
  /\ \A t \in Threads : tpc[t] = "off"
  /\ graded' = d
  /\ gstmts' = corpus[d]
  /\ tpc' = [t \in Threads |-> "call"]
  /\ UNCHANGED <<corpus, file, oracle, edits, once, loading, cache, mode, answer, said, header>>

\* get_or_init: the first caller initialises, the others wait for it.
BeginInit(t) ==
  /\ tpc[t] = "call"
  /\ once = "uninit"
  /\ once' = "loading"
  /\ loading' = 1
  /\ UNCHANGED <<corpus, file, oracle, edits, cache, tpc, graded, gstmts, mode, answer, said, header>>

\* Mutant: the maps are loaded, but never published to the threads that wait.
NextFileUnpublished ==
  IF loading < Len(DialectAll)
  THEN loading' = loading + 1 /\ UNCHANGED once
  ELSE UNCHANGED <<loading, once>>

NextFile ==
  IF loading < Len(DialectAll)
  THEN loading' = loading + 1 /\ UNCHANGED once
  ELSE loading' = 0 /\ once' = "ready"

\* load_dialect for the next dialect: of a file that is missing, or whose frame
\* breaks off, it is None, which leaves the dialect out.  The header is skipped.
LoadFile ==
  LET d == DialectAll[loading] IN
  /\ once = "loading"
  /\ IF file[d].kind = "whole"
     THEN /\ cache' = [e \in DOMAIN cache \cup {d} |-> IF e = d THEN file[d].map ELSE cache[e]]
          /\ header' = [header EXCEPT ![d] = file[d].count]
     ELSE UNCHANGED <<cache, header>>
  /\ NextFile
  /\ UNCHANGED <<corpus, file, oracle, edits, tpc, graded, gstmts, mode, answer, said>>

\* Mutant: a map that is still being filled is handed out.
LabelsReadyEarly == once # "uninit"

LabelsReady == once = "ready"

HasReference(t) ==
  /\ tpc[t] = "call"
  /\ LabelsReady
  /\ mode' = [mode EXCEPT ![t] =
                IF graded \in DOMAIN cache THEN "reference" ELSE "provenance"]
  /\ tpc' = [tpc EXCEPT ![t] = "look"]
  /\ UNCHANGED <<corpus, file, oracle, edits, once, loading, cache, graded, gstmts, answer, said, header>>

\* The chunk of a worker: stmts.chunks(len.div_ceil(workers).max(1)).
Chunk(t) ==
  LET size == (Len(gstmts) + Workers - 1) \div Workers
  IN  IF t = 0 THEN {}
      ELSE {gstmts[k] : k \in ((t - 1) * size + 1)..(IF t * size < Len(gstmts)
                                                     THEN t * size ELSE Len(gstmts))}

\* Mutant: a statement the cache does not cover counts as rejected.
MissIsInvalid(S) ==
  [s \in S |-> IF s \in DOMAIN cache[graded] THEN cache[graded][s] ELSE FALSE]

\* A coverage miss is skipped.
Lookups(S) == [s \in S \cap DOMAIN cache[graded] |-> cache[graded][s]]

\* grade_chunk: a statement is valid, invalid, or skipped.
Grade(t) ==
  /\ tpc[t] = "look"
  /\ answer' = [answer EXCEPT ![t] =
       IF mode[t] = "reference" THEN Lookups(Chunk(t))
                                ELSE [s \in Chunk(t) |-> TRUE]]
  /\ tpc' = [tpc EXCEPT ![t] = "end"]
  /\ UNCHANGED <<corpus, file, oracle, edits, once, loading, cache, graded, gstmts, mode, said, header>>

-----------------------------------------------------------------------------

OracleStep ==
  \/ StartOracle \/ Skip \/ LoadCorpus \/ LabelOk \/ LabelErr
  \/ Create \/ FinishFile \/ EndOracle

ThreadStep == LoadFile \/ \E t \in Threads : BeginInit(t) \/ HasReference(t) \/ Grade(t)

BenchStep == ThreadStep \/ \E d \in Dialects : StartBench(d)

Next == OracleStep \/ BenchStep \/ \E d \in Dialects : Edit(d)

\* The scheduler always runs some thread of a started benchmark process that can
\* run; which one is left to it.
Spec == Init /\ [][Next]_vars /\ WF_vars(ThreadStep)

-----------------------------------------------------------------------------
(* Properties                                                              *)

\* What the threads of a process answer of a dialect they grade against the
\* reference comes from one labelling of it that an adapter completed, whichever
\* process wrote which file when, was killed at it, or changed the corpus since: a
\* statement this labelling covers is answered by its first verdict, and one it
\* does not cover is skipped, not called invalid.
GradedByOneLabelling ==
  (\E t \in Threads : mode[t] = "reference") =>
    \E w \in said[graded] : \A t \in Threads : tpc[t] = "end" =>
      \A s \in Chunk(t) :
        IF s \in StmtsOf(w.stmts)
        THEN s \in DOMAIN answer[t] /\ answer[t][s] = w.verdicts[FirstIndex(w.stmts, s)]
        ELSE s \notin DOMAIN answer[t]

\* All threads of a process grade the same way, and the report they are merged
\* into says which: the files may change while the process runs.
OneMode ==
  \A t, u \in Threads :
    mode[t] # "none" /\ mode[u] # "none" => mode[t] = mode[u]

\* The file of a dialect changes only while the dialect is being written, with
\* its labelling complete: labelling that is aborted or killed leaves the caches
\* of all dialects as they were. A whole file is about the corpus it was made
\* from, and if a statement occurs twice with two verdicts, the first counts.
AbortKeepsCaches ==
  [][\A d \in Dialects : file'[d] # file[d] =>
       /\ todo # <<>> /\ Head(todo) = d
       /\ Len(verdicts) = Len(snap)
       /\ file'[d].kind = "whole" =>
            /\ DOMAIN file'[d].map = StmtsOf(snap)
            /\ file'[d].count = Len(snap)
            /\ \A k \in 1..Len(snap) :
                 file'[d].map[snap[k]] # verdicts[k] =>
                   \E j \in 1..(k - 1) : snap[j] = snap[k] /\ verdicts[j] # verdicts[k]]_vars

\* No grading thread waits for ever on the OnceLock.
BenchEnds == \A t \in Threads : tpc[t] = "call" ~> tpc[t] = "end"

\* The first line of a cache file is "the corpus statement count (for drift
\* detection)": a corpus that has come to differ from it is not graded against
\* the reference.
DriftDetected ==
  \A t \in Threads :
    mode[t] = "reference" => header[graded] = Len(gstmts)

=============================================================================
