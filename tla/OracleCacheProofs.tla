------------------------- MODULE OracleCacheProofs -------------------------
(***************************************************************************)
(* Proofs about OracleCache, for every set of dialects and statements,     *)
(* every corpus, every number of threads and of runs.                      *)
(***************************************************************************)
EXTENDS OracleCache, SequenceTheorems, WellFoundedInduction, TLAPS

Files == {NoFile, Torn} \cup [kind : {"whole"}, count : Nat, map : PartialLabels]

Labelled == opc \in {"create", "finish"}

\* The oracle labels the head of its list from a copy of the corpus, and what it
\* is about to write is a labelling it completed.
OracleInv ==
  /\ opc \in {"label", "create", "finish"} =>
       todo # <<>> /\ Head(todo) \in Dialects /\ snap \in Corpora
  /\ Labelled =>
       /\ verdicts \in [1..Len(snap) -> BOOLEAN]
       /\ [stmts |-> snap, verdicts |-> verdicts] \in said[Head(todo)]

\* A map is of a dialect if it is what one completed labelling of it says.
Of(d, m) == \E w \in said[d] : m = FirstOf(w.stmts, w.verdicts)

FilesOf  == \A d \in Dialects : file[d].kind = "whole" => Of(d, file[d].map)
CacheOf  == \A d \in DOMAIN cache : Of(d, cache[d])
SaidInv  == FilesOf /\ CacheOf

\* A thread that has asked has asked of the complete cache, and the answer holds
\* for the rest of the process.
ThreadInv ==
  \A t \in Threads :
    /\ tpc[t] \in {"off", "call"} <=> mode[t] = "none"
    /\ tpc[t] # "end" => answer[t] = Labels
    /\ mode[t] # "none" =>
         /\ once = "ready"
         /\ mode[t] = IF graded \in DOMAIN cache THEN "reference" ELSE "provenance"

\* What a thread answered of the reference is what the cache says of its chunk.
AnswerInv ==
  \A t \in Threads :
    tpc[t] = "end" /\ mode[t] = "reference" => answer[t] = Lookups(Chunk(t))

TypeInv ==
  /\ TypeOK
  /\ file \in [Dialects -> Files]
  /\ once = "loading" => loading \in 1..Len(DialectAll)
  /\ gstmts \in Seq(Stmts)

-----------------------------------------------------------------------------
(* The first verdict of a statement                                        *)

Below == {p \in Nat \X Nat : p[1] < p[2]}

\* A set of natural numbers that is not empty has a least element.
LEMMA LeastNat ==
  ASSUME NEW T \in SUBSET Nat, T # {}
  PROVE  \E m \in T : \A n \in T : m <= n
<1>1. IsWellFoundedOn(Below, Nat)
  BY NatLessThanWellFounded DEF OpToRel, Below
<1>2. \E m \in T : \A n \in T : ~(<<n, m>> \in Below)
  BY <1>1, WFMin, Zenon
<1>3. \A m, n \in Nat : <<n, m>> \in Below <=> n < m
  BY DEF Below
<1>4. PICK m \in T : \A n \in T : ~(<<n, m>> \in Below)
  BY <1>2
<1>5. \A n \in T : ~(n < m)
  BY <1>3, <1>4, Zenon
<1> QED
  BY <1>5

\* A statement of a corpus has a first place in it.
LEMMA FirstIndexIsFirst ==
  ASSUME NEW c \in Seq(Stmts), NEW s \in StmtsOf(c)
  PROVE  /\ FirstIndex(c, s) \in 1..Len(c) /\ c[FirstIndex(c, s)] = s
         /\ \A k \in 1..Len(c) : c[k] = s => FirstIndex(c, s) <= k
<1> DEFINE places == {k \in 1..Len(c) : c[k] = s}
<1>1. Len(c) \in Nat /\ places \in SUBSET Nat /\ places # {}
  BY DEF StmtsOf
<1>2. PICK m \in places : \A n \in places : m <= n
  BY <1>1, LeastNat
<1>3. m \in 1..Len(c) /\ c[m] = s /\ \A j \in 1..(m - 1) : c[j] # s
  BY <1>1, <1>2
<1>4. /\ FirstIndex(c, s) \in 1..Len(c) /\ c[FirstIndex(c, s)] = s
      /\ \A j \in 1..(FirstIndex(c, s) - 1) : c[j] # s
  BY <1>3, Zenon DEF FirstIndex
<1> QED
  BY <1>1, <1>4

\* A map that keeps the first verdict of each statement has all statements of the
\* corpus, and only verdicts that were given.
LEMMA FirstVerdictsCount ==
  ASSUME snap \in Seq(Stmts), verdicts \in [1..Len(snap) -> BOOLEAN]
  PROVE  /\ FirstVerdicts \in PartialLabels /\ DOMAIN FirstVerdicts = StmtsOf(snap)
         /\ \A s \in StmtsOf(snap) : \E k \in 1..Len(snap) :
              snap[k] = s /\ FirstVerdicts[s] = verdicts[k]
         /\ \A k \in 1..Len(snap) : FirstVerdicts[snap[k]] # verdicts[k] =>
              \E j \in 1..(k - 1) : snap[j] = snap[k] /\ verdicts[j] # verdicts[k]
<1>1. DOMAIN FirstVerdicts = StmtsOf(snap) /\ StmtsOf(snap) \subseteq Stmts
  BY ElementOfSeq DEF FirstVerdicts, FirstOf, StmtsOf
<1>2. ASSUME NEW s \in StmtsOf(snap)
      PROVE  /\ FirstIndex(snap, s) \in 1..Len(snap) /\ snap[FirstIndex(snap, s)] = s
             /\ FirstVerdicts[s] = verdicts[FirstIndex(snap, s)]
  BY FirstIndexIsFirst DEF FirstVerdicts, FirstOf
<1>3. FirstVerdicts \in [StmtsOf(snap) -> BOOLEAN]
  BY <1>2, Zenon DEF FirstVerdicts, FirstOf
<1>4. FirstVerdicts \in PartialLabels
  BY <1>1, <1>3 DEF PartialLabels
<1>5. ASSUME NEW k \in 1..Len(snap), FirstVerdicts[snap[k]] # verdicts[k]
      PROVE  \E j \in 1..(k - 1) : snap[j] = snap[k] /\ verdicts[j] # verdicts[k]
  <2> DEFINE j == FirstIndex(snap, snap[k])
  <2>1. snap[k] \in StmtsOf(snap) /\ Len(snap) \in Nat
    BY DEF StmtsOf
  <2>2. j \in 1..Len(snap) /\ snap[j] = snap[k] /\ j <= k
    BY <2>1, FirstIndexIsFirst
  <2>3. verdicts[j] # verdicts[k]
    BY <1>2, <1>5, <2>1
  <2> HIDE DEF j
  <2>4. j # k
    BY <2>3
  <2>5. j \in 1..(k - 1)
    BY <2>1, <2>2, <2>4
  <2> QED
    BY <2>2, <2>3, <2>5
<1> QED
  BY <1>1, <1>2, <1>4, <1>5, Zenon

-----------------------------------------------------------------------------
(* Type correctness                                                        *)

\* A map without labels is a partial one.
LEMMA EmptyMap == Labels \in PartialLabels /\ DOMAIN Labels = {}
BY Zenon DEF Labels, PartialLabels

\* The list of dialects has an element, and all of its elements are dialects.
LEMMA ListedDialects ==
  /\ Len(DialectAll) \in Nat \ {0}
  /\ \A k \in 1..Len(DialectAll) : DialectAll[k] \in Dialects
<1>1. Len(DialectAll) \in Nat /\ Len(DialectAll) # 0
  BY EmptySeq, LenProperties, CacheAssumption
<1> QED
  BY <1>1 DEF Dialects

\* A chunk is made of statements of the corpus.
LEMMA ChunkOfStmts ==
  ASSUME gstmts \in Seq(Stmts), NEW t \in Threads
  PROVE  Chunk(t) \in SUBSET Stmts
<1>0. Workers \in Nat /\ Len(gstmts) \in Nat
  BY CacheAssumption
<1> DEFINE size == (Len(gstmts) + Workers - 1) \div Workers
<1>1. CASE t = 0
  BY <1>1 DEF Chunk
<1>2. CASE t # 0
  <2>1. t \in 1..Workers /\ Workers # 0 /\ t - 1 \in Nat
    BY <1>0, <1>2 DEF Threads
  <2>2. size \in Nat
    BY <1>0, <2>1
  <2>3. (t - 1) * size \in Nat /\ t * size \in Nat
    <3> HIDE DEF size
    <3>1. \A a, b \in Nat : a * b \in Nat
      OBVIOUS
    <3> QED
      BY <2>1, <2>2, <3>1
  <2>4. ASSUME NEW k \in ((t - 1) * size + 1)..(IF t * size < Len(gstmts)
                                                THEN t * size ELSE Len(gstmts))
        PROVE  gstmts[k] \in Stmts
    <3> HIDE DEF size
    <3>1. k \in 1..Len(gstmts)
      BY <1>0, <2>3
    <3> QED
      BY <3>1, ElementOfSeq
  <2> QED
    BY <1>2, <2>4 DEF Chunk
<1> QED
  BY <1>1, <1>2

\* At the start the state is typed.
LEMMA TypeInit == Init => TypeInv
<1> SUFFICES ASSUME Init PROVE TypeInv
  OBVIOUS
<1>1. file \in [Dialects -> Files] /\ gstmts \in Seq(Stmts) /\ once # "loading"
  BY EmptySeq DEF Init, Files
<1>2. \A d \in Dialects : file[d].kind # "whole"
  BY DEF Init, NoFile
<1>3. DOMAIN cache \subseteq Dialects /\ \A d \in DOMAIN cache : cache[d] \in PartialLabels
  BY EmptyMap DEF Init
<1>4. answer \in [Threads -> PartialLabels]
  BY EmptyMap DEF Init
<1>5. loading \in 0..Len(DialectAll)
  BY ListedDialects DEF Init
<1>6. TypeOK
  BY <1>2, <1>3, <1>4, <1>5 DEF Init, TypeOK
<1> QED
  BY <1>1, <1>6 DEF TypeInv

\* Every step of the oracle or of a thread of the benchmark keeps the state typed.
LEMMA TypeStep == TypeInv /\ OracleInv /\ ThreadInv /\ [Next]_vars => TypeInv'
<1> SUFFICES ASSUME TypeInv, OracleInv, ThreadInv, [Next]_vars PROVE TypeInv'
  OBVIOUS
<1> USE DEF TypeInv, TypeOK, oracle, bench
<1>1. CASE StartOracle \/ Skip \/ LoadCorpus
  BY <1>1 DEF StartOracle, Skip, LoadCorpus
<1>2. CASE LabelOk
  <2> DEFINE w == [stmts |-> snap, verdicts |-> verdicts']
  <2>1. Head(todo) \in Dialects /\ snap \in Corpora /\ verdicts' \in [1..Len(snap) -> BOOLEAN]
    BY <1>2, Zenon DEF LabelOk, OracleInv
  <2>2. w \in Labellings
    <3>1. verdicts' \in UNION {[1..Len(e) -> BOOLEAN] : e \in Corpora}
      BY <2>1, Zenon
    <3> QED
      BY <2>1, <3>1 DEF Labellings
  <2>3. said' = [said EXCEPT ![Head(todo)] = @ \cup {w}]
    BY <1>2, Zenon DEF LabelOk
  <2> HIDE DEF w
  <2>4. said' \in [Dialects -> SUBSET Labellings]
    BY <2>1, <2>2, <2>3
  <2> QED
    BY <1>2, <2>4 DEF LabelOk
<1>3. CASE LabelErr \/ EndOracle
  BY <1>3 DEF LabelErr, EndOracle, Exit
<1>4. CASE Create
  <2>1. file' = [file EXCEPT ![Head(todo)] = Torn] /\ Torn \in Files
    BY <1>4 DEF Create, Files
  <2>2. file' \in [Dialects -> Files]
    BY <2>1
  <2>3. \A d \in Dialects : file'[d].kind = "whole" =>
          file'[d].count \in Nat /\ file'[d].map \in PartialLabels
    BY <2>1 DEF Torn
  <2> QED
    BY <1>4, <2>2, <2>3 DEF Create
<1>5. CASE FinishFile
  <2> DEFINE new == [kind |-> "whole", count |-> Len(snap), map |-> FirstVerdicts]
  <2>1. snap \in Seq(Stmts) /\ verdicts \in [1..Len(snap) -> BOOLEAN]
    BY <1>5, CacheAssumption DEF FinishFile, OracleInv, Labelled
  <2>2. FirstVerdicts \in PartialLabels /\ Len(snap) \in Nat
    BY <2>1, FirstVerdictsCount
  <2>3. new \in Files /\ new.kind = "whole" /\ new.count \in Nat /\ new.map \in PartialLabels
    BY <2>2 DEF Files
  <2>4. file' = [file EXCEPT ![Head(todo)] = new]
    BY <1>5 DEF FinishFile
  <2> HIDE DEF new
  <2>5. file' \in [Dialects -> Files]
    BY <2>3, <2>4
  <2>6. \A d \in Dialects : file'[d].kind = "whole" =>
          file'[d].count \in Nat /\ file'[d].map \in PartialLabels
    BY <2>3, <2>4
  <2> QED
    BY <1>5, <2>5, <2>6 DEF FinishFile
<1>6. ASSUME NEW d \in Dialects, Edit(d) PROVE TypeInv'
  BY <1>6 DEF Edit
<1>7. ASSUME NEW d \in Dialects, StartBench(d) PROVE TypeInv'
  <2>1. gstmts' \in Seq(Stmts)
    BY <1>7, CacheAssumption DEF StartBench
  <2>2. tpc' \in [Threads -> {"off", "call", "look", "end"}]
    BY <1>7 DEF StartBench
  <2> QED
    BY <1>7, <2>1, <2>2 DEF StartBench
<1>8. ASSUME NEW t \in Threads, BeginInit(t) PROVE TypeInv'
  BY <1>8, ListedDialects DEF BeginInit
<1>9. CASE LoadFile
  <2> DEFINE d == DialectAll[loading]
  <2>1. d \in Dialects /\ once = "loading"
    BY <1>9, ListedDialects DEF LoadFile
  <2>2. file[d].kind = "whole" => file[d].map \in PartialLabels
    BY <2>1
  <2>3. DOMAIN cache' \subseteq Dialects /\ \A e \in DOMAIN cache' : cache'[e] \in PartialLabels
    <3>1. \/ UNCHANGED cache
          \/ /\ file[d].kind = "whole"
             /\ cache' = [e \in DOMAIN cache \cup {d} |-> IF e = d THEN file[d].map ELSE cache[e]]
      BY <1>9 DEF LoadFile
    <3> QED
      BY <2>1, <2>2, <3>1
  <2>4. /\ once' \in {"loading", "ready"} /\ loading' \in 0..Len(DialectAll)
        /\ once' = "loading" => loading' \in 1..Len(DialectAll)
    BY <1>9, <2>1, ListedDialects DEF LoadFile, NextFile
  <2> QED
    BY <1>9, <2>3, <2>4 DEF LoadFile
<1>10. ASSUME NEW t \in Threads, HasReference(t) PROVE TypeInv'
  BY <1>10 DEF HasReference
<1>11. ASSUME NEW t \in Threads, Grade(t) PROVE TypeInv'
  <2>1. Chunk(t) \in SUBSET Stmts
    BY ChunkOfStmts
  <2>2. [s \in Chunk(t) |-> TRUE] \in PartialLabels
    <3>1. [s \in Chunk(t) |-> TRUE] \in [Chunk(t) -> BOOLEAN]
      BY Zenon
    <3> QED
      BY <2>1, <3>1 DEF PartialLabels
  <2>3. ASSUME mode[t] = "reference" PROVE Lookups(Chunk(t)) \in PartialLabels
    <3>1. graded \in DOMAIN cache
      BY <2>3 DEF ThreadInv
    <3>2. PICK D \in SUBSET Stmts : cache[graded] \in [D -> BOOLEAN]
      BY <3>1 DEF PartialLabels
    <3>3. Lookups(Chunk(t)) \in [Chunk(t) \cap D -> BOOLEAN]
      BY <3>2 DEF Lookups
    <3> QED
      BY <2>1, <3>3 DEF PartialLabels
  <2> DEFINE new == IF mode[t] = "reference" THEN Lookups(Chunk(t))
                                             ELSE [s \in Chunk(t) |-> TRUE]
  <2>4. new \in PartialLabels
    BY <2>2, <2>3
  <2>5. answer' = [answer EXCEPT ![t] = new]
    BY <1>11 DEF Grade
  <2> HIDE DEF new
  <2>6. answer' \in [Threads -> PartialLabels]
    BY <2>4, <2>5
  <2>7. tpc' \in [Threads -> {"off", "call", "look", "end"}]
    BY <1>11 DEF Grade
  <2> QED
    BY <1>11, <2>6, <2>7 DEF Grade
<1>12. CASE UNCHANGED vars
  BY <1>12 DEF vars
<1> QED
  BY <1>1, <1>2, <1>3, <1>4, <1>5, <1>6, <1>7, <1>8, <1>9, <1>10, <1>11, <1>12
  DEF Next, OracleStep, BenchStep, ThreadStep

-----------------------------------------------------------------------------
(* What the oracle is about to write                                       *)

\* Every step keeps what the oracle is about to write a labelling it completed.
LEMMA OracleKept == TypeInv /\ OracleInv /\ [Next]_vars => OracleInv'
<1> SUFFICES ASSUME TypeInv, OracleInv, [Next]_vars PROVE OracleInv'
  OBVIOUS
<1> USE DEF Labelled
<1>1. CASE StartOracle \/ Skip
  BY <1>1 DEF StartOracle, Skip, OracleInv
<1>2. CASE LoadCorpus
  <2>1. Head(todo) \in Dialects /\ todo # <<>> /\ corpus[Head(todo)] \in Corpora
    BY <1>2, CacheAssumption DEF LoadCorpus, TypeInv, TypeOK
  <2> QED
    BY <1>2, <2>1 DEF LoadCorpus, OracleInv
<1>3. CASE LabelOk
  <2> DEFINE w == [stmts |-> snap, verdicts |-> verdicts']
  <2>1. /\ todo # <<>> /\ Head(todo) \in Dialects /\ snap \in Corpora
        /\ verdicts' \in [1..Len(snap) -> BOOLEAN] /\ UNCHANGED <<todo, snap>>
    BY <1>3, Zenon DEF LabelOk, OracleInv
  <2>2. said' = [said EXCEPT ![Head(todo)] = @ \cup {w}]
    BY <1>3, Zenon DEF LabelOk
  <2>3. w \in said'[Head(todo)]
    <3> HIDE DEF w
    <3> QED
      BY <2>1, <2>2 DEF TypeInv, TypeOK
  <2> QED
    BY <2>1, <2>3 DEF OracleInv
<1>4. CASE LabelErr \/ EndOracle
  BY <1>4 DEF LabelErr, EndOracle, Exit, OracleInv
<1>5. CASE Create
  BY <1>5 DEF Create, OracleInv
<1>6. CASE FinishFile
  BY <1>6 DEF FinishFile, OracleInv
<1>7. CASE BenchStep
  BY <1>7 DEF BenchStep, ThreadStep, StartBench, BeginInit, LoadFile, HasReference, Grade,
              oracle, OracleInv
<1>8. CASE \E d \in Dialects : Edit(d)
  BY <1>8 DEF Edit, oracle, OracleInv
<1>9. CASE UNCHANGED vars
  BY <1>9 DEF vars, oracle, OracleInv
<1> QED
  BY <1>1, <1>2, <1>3, <1>4, <1>5, <1>6, <1>7, <1>8, <1>9 DEF Next, OracleStep

\* A labelling that was completed stays completed.
LEMMA SaidGrows ==
  TypeInv /\ [Next]_vars => \A d \in Dialects : said[d] \subseteq said'[d]
<1> SUFFICES ASSUME TypeInv, [Next]_vars PROVE \A d \in Dialects : said[d] \subseteq said'[d]
  OBVIOUS
<1>1. CASE LabelOk
  <2>1. PICK S : said' = [said EXCEPT ![Head(todo)] = @ \cup S]
    BY <1>1, Zenon DEF LabelOk
  <2> QED
    BY <2>1 DEF TypeInv, TypeOK
<1>2. CASE ~LabelOk
  <2>1. said' = said
    BY <1>2 DEF Next, OracleStep, StartOracle, Skip, LoadCorpus, LabelErr, Create, FinishFile,
      EndOracle, BenchStep, ThreadStep, StartBench, BeginInit, LoadFile, HasReference, Grade,
      Edit, vars
  <2> QED
    BY <2>1
<1> QED
  BY <1>1, <1>2

-----------------------------------------------------------------------------
(* The files, the cache and the answers are of one labelling each          *)

\* Every step keeps each cache file and each map in memory that of one labelling.
LEMMA SaidKept == TypeInv /\ OracleInv /\ SaidInv /\ [Next]_vars => SaidInv'
<1> SUFFICES ASSUME TypeInv, OracleInv, SaidInv, [Next]_vars PROVE SaidInv'
  OBVIOUS
<1>0. /\ \A d \in Dialects : said[d] \subseteq said'[d]
      /\ file \in [Dialects -> Files] /\ DOMAIN cache \subseteq Dialects
  BY SaidGrows DEF TypeInv, TypeOK
<1>1. ASSUME NEW d \in Dialects, NEW m, Of(d, m) PROVE Of(d, m)'
  BY <1>0, <1>1, Zenon DEF Of
<1> USE DEF SaidInv, FilesOf, CacheOf
<1>2. ASSUME UNCHANGED <<file, cache>> PROVE SaidInv'
  BY <1>0, <1>1, <1>2
<1>3. CASE Create
  <2>1. Head(todo) \in Dialects
    BY <1>3 DEF Create, OracleInv
  <2>2. /\ \A d \in Dialects : d # Head(todo) => file'[d] = file[d]
        /\ file'[Head(todo)].kind # "whole" /\ UNCHANGED <<cache, said>>
    BY <1>0, <1>3, <2>1 DEF Create, Torn, bench
  <2> QED
    BY <1>0, <1>1, <2>2
<1>4. CASE FinishFile
  <2>1. /\ Head(todo) \in Dialects
        /\ [stmts |-> snap, verdicts |-> verdicts] \in said[Head(todo)]
    BY <1>4 DEF FinishFile, OracleInv, Labelled
  <2>2. Of(Head(todo), FirstVerdicts)
    BY <2>1 DEF Of, FirstVerdicts
  <2>3. /\ \A d \in Dialects : d # Head(todo) => file'[d] = file[d]
        /\ file'[Head(todo)].map = FirstVerdicts /\ UNCHANGED <<cache, said>>
    BY <1>0, <1>4, <2>1 DEF FinishFile, bench
  <2> QED
    BY <1>0, <1>1, <2>1, <2>2, <2>3
<1>5. CASE LoadFile
  <2> DEFINE d == DialectAll[loading]
  <2>1. d \in Dialects /\ UNCHANGED <<file, said>>
    BY <1>5, ListedDialects DEF LoadFile, TypeInv
  <2>2. \/ UNCHANGED cache
        \/ /\ file[d].kind = "whole"
           /\ cache' = [e \in DOMAIN cache \cup {d} |-> IF e = d THEN file[d].map ELSE cache[e]]
    BY <1>5 DEF LoadFile
  <2> HIDE DEF d
  <2>3. \A e \in DOMAIN cache' : Of(e, cache'[e])
    BY <2>1, <2>2
  <2> QED
    BY <1>0, <1>1, <2>1, <2>2, <2>3
<1> QED
  BY <1>2, <1>3, <1>4, <1>5 DEF Next, OracleStep, StartOracle, Skip, LoadCorpus, LabelOk, LabelErr,
    EndOracle, Exit, BenchStep, ThreadStep, StartBench, BeginInit, HasReference, Grade, Edit,
    bench, vars

\* A thread that has asked has asked of the complete cache, after every step.
LEMMA ThreadKept == TypeInv /\ ThreadInv /\ [Next]_vars => ThreadInv'
<1> SUFFICES ASSUME TypeInv, ThreadInv, [Next]_vars PROVE ThreadInv'
  OBVIOUS
<1>0. /\ tpc \in [Threads -> {"off", "call", "look", "end"}]
      /\ mode \in [Threads -> {"none", "reference", "provenance"}]
      /\ answer \in [Threads -> PartialLabels]
  BY DEF TypeInv, TypeOK
<1> USE DEF ThreadInv
<1>1. CASE UNCHANGED <<once, cache, tpc, graded, mode, answer>>
  BY <1>1
<1>2. ASSUME NEW d \in Dialects, StartBench(d) PROVE ThreadInv'
  BY <1>0, <1>2 DEF StartBench
<1>3. ASSUME NEW t \in Threads, BeginInit(t) PROVE ThreadInv'
  BY <1>3 DEF BeginInit
<1>4. CASE LoadFile
  BY <1>4 DEF LoadFile
<1>5. ASSUME NEW t \in Threads, HasReference(t) PROVE ThreadInv'
  <2>1. /\ once = "ready" /\ UNCHANGED <<once, cache, graded, answer>>
        /\ tpc[t] = "call"
        /\ mode' = [mode EXCEPT ![t] =
             IF graded \in DOMAIN cache THEN "reference" ELSE "provenance"]
        /\ tpc' = [tpc EXCEPT ![t] = "look"]
    BY <1>5 DEF HasReference, LabelsReady
  <2> QED
    BY <1>0, <2>1
<1>6. ASSUME NEW t \in Threads, Grade(t) PROVE ThreadInv'
  <2>1. /\ tpc[t] = "look" /\ UNCHANGED <<once, cache, graded, mode>>
        /\ \A u \in Threads : u # t => answer'[u] = answer[u]
        /\ tpc' = [tpc EXCEPT ![t] = "end"]
    BY <1>0, <1>6 DEF Grade
  <2> QED
    BY <1>0, <2>1
<1> QED
  BY <1>1, <1>2, <1>3, <1>4, <1>5, <1>6 DEF Next, OracleStep, StartOracle, Skip, LoadCorpus,
    LabelOk, LabelErr, Create, FinishFile, EndOracle, BenchStep, ThreadStep, Edit, bench, vars

\* Every step keeps what the threads answered what the cache says.
LEMMA AnswerKept ==
  TypeInv /\ ThreadInv /\ AnswerInv /\ [Next]_vars => AnswerInv'
<1> SUFFICES ASSUME TypeInv, ThreadInv, AnswerInv, [Next]_vars PROVE AnswerInv'
  OBVIOUS
<1>0. /\ tpc \in [Threads -> {"off", "call", "look", "end"}]
      /\ mode \in [Threads -> {"none", "reference", "provenance"}]
      /\ answer \in [Threads -> PartialLabels]
  BY DEF TypeInv, TypeOK
<1> USE DEF AnswerInv
<1>1. CASE UNCHANGED <<cache, tpc, graded, gstmts, mode, answer>>
  BY <1>1 DEF Lookups, Chunk
<1>2. ASSUME NEW d \in Dialects, StartBench(d) PROVE AnswerInv'
  <2>1. \A t \in Threads : tpc'[t] # "end"
    BY <1>2 DEF StartBench
  <2> QED
    BY <2>1
<1>3. CASE LoadFile
  <2>1. \A t \in Threads : tpc'[t] = "end" => mode'[t] = "none"
    BY <1>3 DEF LoadFile, ThreadInv
  <2> QED
    BY <2>1
<1>4. ASSUME NEW t \in Threads, HasReference(t) PROVE AnswerInv'
  <2>1. /\ \A u \in Threads : u # t => tpc'[u] = tpc[u] /\ mode'[u] = mode[u]
        /\ tpc'[t] # "end" /\ UNCHANGED <<cache, graded, gstmts, answer>>
    BY <1>0, <1>4 DEF HasReference
  <2>2. \A u \in Threads : Lookups(Chunk(u))' = Lookups(Chunk(u))
    BY <2>1 DEF Lookups, Chunk
  <2> QED
    BY <2>1, <2>2
<1>5. ASSUME NEW t \in Threads, Grade(t) PROVE AnswerInv'
  <2>1. /\ UNCHANGED <<cache, graded, gstmts, mode>>
        /\ \A u \in Threads : u # t => tpc'[u] = tpc[u] /\ answer'[u] = answer[u]
        /\ mode[t] = "reference" => answer'[t] = Lookups(Chunk(t))
    BY <1>0, <1>5 DEF Grade
  <2>2. \A u \in Threads : Lookups(Chunk(u))' = Lookups(Chunk(u))
    BY <2>1 DEF Lookups, Chunk
  <2> QED
    BY <2>1, <2>2
<1> QED
  BY <1>1, <1>2, <1>3, <1>4, <1>5 DEF Next, OracleStep, StartOracle, Skip, LoadCorpus, LabelOk,
    LabelErr, Create, FinishFile, EndOracle, BenchStep, ThreadStep, BeginInit, Edit, bench, vars

-----------------------------------------------------------------------------
(* The theorems                                                            *)

IInv == TypeInv /\ OracleInv /\ SaidInv /\ ThreadInv /\ AnswerInv

\* The inductive invariant holds at the start.
LEMMA InvInit == Init => IInv
<1> SUFFICES ASSUME Init PROVE IInv
  OBVIOUS
<1>1. TypeInv
  BY TypeInit
<1>2. OracleInv
  BY DEF Init, OracleInv, Labelled
<1>3. SaidInv
  BY EmptyMap DEF Init, SaidInv, FilesOf, CacheOf, NoFile
<1>4. ThreadInv /\ AnswerInv
  BY DEF Init, ThreadInv, AnswerInv
<1> QED
  BY <1>1, <1>2, <1>3, <1>4 DEF IInv

\* Every step keeps the inductive invariant.
LEMMA InvStep == IInv /\ [Next]_vars => IInv'
BY TypeStep, OracleKept, SaidKept, ThreadKept, AnswerKept DEF IInv

\* The inductive invariant holds in every reachable state.
LEMMA InvHolds == Spec => []IInv
BY InvInit, InvStep, PTL DEF Spec

\* Every variable of the two programs has its type: the files, the cache and the
\* answers are maps of statements to verdicts, and the file that is loaded is one
\* of the list's.
THEOREM CacheTypeCorrect == Spec => []TypeOK
<1>1. IInv => TypeOK
  BY DEF IInv, TypeInv
<1> QED
  BY <1>1, InvHolds, PTL

\* Whichever of the two programs runs, is killed or is run again when, and however
\* the corpus changes, what the threads of a process answer against the reference is
\* what one completed labelling of the dialect said (grade_chunk, reference_verdict,
\* write_cache): covered statements by their first verdict, the others skipped.
THEOREM CacheGrades == Spec => []GradedByOneLabelling
<1>1. ASSUME IInv, NEW u \in Threads, mode[u] = "reference"
      PROVE  \E w \in said[graded] : \A t \in Threads : tpc[t] = "end" =>
               \A s \in Chunk(t) :
                 IF s \in StmtsOf(w.stmts)
                 THEN s \in DOMAIN answer[t] /\ answer[t][s] = w.verdicts[FirstIndex(w.stmts, s)]
                 ELSE s \notin DOMAIN answer[t]
  <2>1. graded \in DOMAIN cache
    BY <1>1 DEF IInv, ThreadInv
  <2>2. PICK w \in said[graded] : cache[graded] = FirstOf(w.stmts, w.verdicts)
    BY <1>1, <2>1 DEF IInv, SaidInv, CacheOf, Of
  <2>3. ASSUME NEW t \in Threads, tpc[t] = "end" PROVE answer[t] = Lookups(Chunk(t))
    BY <1>1, <2>1, <2>3 DEF IInv, ThreadInv, AnswerInv
  <2>4. ASSUME NEW t \in Threads, tpc[t] = "end", NEW s \in Chunk(t)
        PROVE  IF s \in StmtsOf(w.stmts)
               THEN s \in DOMAIN answer[t] /\ answer[t][s] = w.verdicts[FirstIndex(w.stmts, s)]
               ELSE s \notin DOMAIN answer[t]
    <3> DEFINE said_w == FirstOf(w.stmts, w.verdicts)
    <3>1. answer[t] = [x \in Chunk(t) \cap DOMAIN cache[graded] |-> cache[graded][x]]
      BY <2>3, <2>4 DEF Lookups
    <3>2. DOMAIN answer[t] = Chunk(t) \cap DOMAIN said_w
      BY <2>2, <3>1
    <3>3. s \in DOMAIN answer[t] => answer[t][s] = said_w[s]
      BY <2>2, <3>1
    <3>4. DOMAIN said_w = StmtsOf(w.stmts)
      BY DEF FirstOf
    <3>5. s \in StmtsOf(w.stmts) => said_w[s] = w.verdicts[FirstIndex(w.stmts, s)]
      BY Zenon DEF FirstOf
    <3> HIDE DEF said_w
    <3> QED
      BY <2>4, <3>2, <3>3, <3>4, <3>5, Zenon
  <2> QED
    BY <2>4
<1>2. IInv => GradedByOneLabelling
  BY <1>1 DEF GradedByOneLabelling
<1> QED
  BY <1>2, InvHolds, PTL

\* The threads of a benchmark process agree on whether a dialect is graded against
\* the reference, although the files may change between their calls of
\* has_reference: the OnceLock is what makes them.
THEOREM CacheOneMode == Spec => []OneMode
<1>1. IInv => OneMode
  BY DEF IInv, ThreadInv, OneMode
<1> QED
  BY <1>1, InvHolds, PTL

\* A file changes only while its dialect is written, with its labelling complete
\* (main: write_cache comes after the adapter's Ok).
THEOREM CacheAbort == Spec => AbortKeepsCaches
<1> DEFINE Kept(d) ==
       /\ todo # <<>> /\ Head(todo) = d
       /\ Len(verdicts) = Len(snap)
       /\ file'[d].kind = "whole" =>
            /\ DOMAIN file'[d].map = StmtsOf(snap)
            /\ file'[d].count = Len(snap)
            /\ \A k \in 1..Len(snap) :
                 file'[d].map[snap[k]] # verdicts[k] =>
                   \E j \in 1..(k - 1) : snap[j] = snap[k] /\ verdicts[j] # verdicts[k]
<1>1. ASSUME IInv, [Next]_vars, NEW d \in Dialects, file'[d] # file[d] PROVE Kept(d)
  <2>1. Create \/ FinishFile
    BY <1>1 DEF Next, OracleStep, StartOracle, Skip, LoadCorpus, LabelOk, LabelErr, EndOracle,
      BenchStep, ThreadStep, StartBench, BeginInit, LoadFile, HasReference, Grade, Edit, vars
  <2>2. /\ file \in [Dialects -> Files] /\ Head(todo) \in Dialects /\ todo # <<>>
        /\ snap \in Seq(Stmts) /\ verdicts \in [1..Len(snap) -> BOOLEAN]
    BY <1>1, <2>1, CacheAssumption DEF IInv, TypeInv, OracleInv, Labelled, Create, FinishFile
  <2>3. d = Head(todo)
    BY <1>1, <2>1, <2>2 DEF Create, FinishFile
  <2>4. Len(verdicts) = Len(snap)
    BY <2>2
  <2>5. CASE Create
    BY <2>2, <2>3, <2>4, <2>5 DEF Create, Torn
  <2>6. CASE FinishFile
    <3>1. file'[d] = [kind |-> "whole", count |-> Len(snap), map |-> FirstVerdicts]
      BY <2>2, <2>3, <2>6 DEF FinishFile
    <3>2. /\ DOMAIN FirstVerdicts = StmtsOf(snap)
          /\ \A k \in 1..Len(snap) : FirstVerdicts[snap[k]] # verdicts[k] =>
               \E j \in 1..(k - 1) : snap[j] = snap[k] /\ verdicts[j] # verdicts[k]
      BY <2>2, FirstVerdictsCount
    <3>3. file'[d].map = FirstVerdicts /\ file'[d].count = Len(snap)
      BY <3>1
    <3> QED
      BY <2>2, <2>3, <2>4, <3>2, <3>3
  <2> QED
    BY <2>1, <2>5, <2>6
<1>2. IInv /\ [Next]_vars => [\A d \in Dialects : file'[d] # file[d] => Kept(d)]_vars
  BY <1>1
<1> QED
  BY <1>2, InvHolds, PTL DEF Spec, AbortKeepsCaches

=============================================================================
