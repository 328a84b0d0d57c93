------------------------------ MODULE ChLabel ------------------------------
(***************************************************************************)
(* The ClickHouse adapter of the oracle (label_clickhouse) with the        *)
(* request it makes per statement (clickhouse_classify).  A request is     *)
(* posted up to MaxAttempts times; an HTTP response gives a verdict, and   *)
(* the transport failing every time counts as "unreachable".  MaxStreak    *)
(* unreachable requests in a row mean the engine crashed: the container is *)
(* replaced and the labelling resumes at the same statement; a statement   *)
(* at which two containers in a row crashed is poisoned.                   *)
(***************************************************************************)
EXTENDS Naturals, Sequences, FiniteSets

CONSTANTS
  NumStmts,        \* stmts.len()
  MaxAttempts,     \* 3 in the code: posts of one request
  MaxStreak,       \* 6 in the code: unreachable requests that end an engine
  MaxRestarts,     \* 50 in the code
  Faults           \* the kinds of fault a run may meet: "engine", the container,
                   \* the engine or the transport fails unprovoked; "server", the
                   \* engine answers with an error of its own troubles

ASSUME ChAssumption ==
  /\ NumStmts \in Nat
  /\ MaxAttempts \in Nat \ {0}
  /\ MaxStreak \in Nat \ {0}
  /\ MaxRestarts \in Nat
  /\ Faults \subseteq {"engine", "server"}

Stmts == 1..NumStmts
None == 0               \* death_idx = None

\* `crashes`: EXPLAIN AST of the statement brings the engine down, every time.
Statement == [parses : BOOLEAN, crashes : BOOLEAN]

VARIABLES
  corpus,
  faults,       \* the kinds of fault this run meets
  pc,           \* "start" (a container) | "post" | "done" | "aborted"
  valid,
  poisoned,     \* the indices given up, in order
  restarts,
  deathIdx, deathCount,
  unreachable,  \* consecutive_unreachable of the current engine
  attempt,      \* failed posts of the current request
  up,           \* does the engine answer?
  garbled,      \* history: statements whose answer could not be classified
  troubled      \* history: statements answered with a code of the engine's own

control == <<poisoned, restarts, deathIdx, deathCount>>
vars == <<corpus, faults, pc, valid, control, unreachable, attempt, up, garbled, troubled>>

TypeOK ==
  /\ corpus \in [Stmts -> Statement]
  /\ faults \in SUBSET Faults
  /\ pc \in {"start", "post", "done", "aborted"}
  /\ valid \in Seq(BOOLEAN) /\ Len(valid) <= NumStmts
  /\ poisoned \in Seq(Stmts)
  /\ restarts \in 0..(MaxRestarts + 1)
  /\ deathIdx \in Stmts \cup {None}
  /\ deathCount \in 0..1
  /\ unreachable \in 0..(MaxStreak - 1)
  /\ attempt \in 0..(MaxAttempts - 1)
  /\ up \in BOOLEAN
  /\ garbled \in SUBSET Stmts
  /\ troubled \in SUBSET Stmts

Init ==
  /\ corpus \in [Stmts -> Statement]
  /\ faults \in SUBSET Faults
  /\ pc = "start"
  /\ valid = <<>>
  /\ poisoned = <<>>
  /\ restarts = 0
  /\ deathIdx = None
  /\ deathCount = 0
  /\ unreachable = 0
  /\ attempt = 0
  /\ up = FALSE
  /\ garbled = {}
  /\ troubled = {}

-----------------------------------------------------------------------------
(* Engines                                                                 *)

cur == Len(valid) + 1
More == Len(valid) < NumStmts

\* A fresh container and a fresh HTTP client.
StartEngine ==
  /\ pc = "start"
  /\ More
  /\ pc' = "post"
  /\ unreachable' = 0
  /\ attempt' = 0
  /\ up' = TRUE
  /\ UNCHANGED <<corpus, faults, valid, control, garbled, troubled>>

\* The container does not start (or its port is not mapped): `?`.
StartFails ==
  /\ pc = "start"
  /\ More
  /\ "engine" \in faults
  /\ pc' = "aborted"
  /\ UNCHANGED <<corpus, faults, valid, control, unreachable, attempt, up, garbled, troubled>>

Finish ==
  /\ pc \in {"start", "post"}
  /\ ~More
  /\ pc' = "done"
  /\ UNCHANGED <<corpus, faults, valid, control, unreachable, attempt, up, garbled, troubled>>

-----------------------------------------------------------------------------
(* One request: clickhouse_classify                                        *)

\* Some(v): the streak is forgotten and the verdict recorded.
Classified(v) ==
  /\ valid' = Append(valid, v)
  /\ unreachable' = 0
  /\ attempt' = 0

Posting == pc = "post" /\ More

\* Mutant: the body of the response before was never drained, and this request
\* is answered with it.
RespondDesynced ==
  /\ Posting
  /\ up
  /\ ~corpus[cur].crashes
  /\ Classified(corpus[IF cur = 1 THEN 1 ELSE cur - 1].parses)
  /\ UNCHANGED <<corpus, faults, pc, control, up, garbled, troubled>>

Respond ==
  /\ Posting
  /\ up
  /\ ~corpus[cur].crashes
  /\ Classified(corpus[cur].parses)
  /\ UNCHANGED <<corpus, faults, pc, control, up, garbled, troubled>>

\* Mutant: an answer that cannot be classified counts as "parsed".
UnclassifiableIsValid == TRUE

\* None => false: no 2xx status and no exception code, in the header or in the
\* body (whose read may itself have failed, which leaves it empty).
Unclassifiable == FALSE

RespondGarbled ==
  /\ Posting
  /\ up
  /\ "engine" \in faults
  /\ Classified(Unclassifiable)
  /\ garbled' = garbled \cup {cur}
  /\ up' \in BOOLEAN
  /\ UNCHANGED <<corpus, faults, pc, control, troubled>>

\* An exception code other than 62 that is not about the statement (memory,
\* shutdown): it counts as "parsed".
RespondTrouble ==
  /\ Posting
  /\ up
  /\ "server" \in faults
  /\ Classified(TRUE)
  /\ troubled' = troubled \cup {cur}
  /\ UNCHANGED <<corpus, faults, pc, control, up, garbled>>

\* send() fails or times out.
PostFails ==
  /\ Posting
  /\ \/ ~up /\ up' = FALSE
     \/ up /\ corpus[cur].crashes /\ up' = FALSE
     \/ up /\ "engine" \in faults /\ up' \in BOOLEAN

LastAttempt == attempt + 1 = MaxAttempts

PostAgain ==
  /\ PostFails
  /\ ~LastAttempt
  /\ attempt' = attempt + 1
  /\ UNCHANGED <<corpus, faults, pc, valid, control, unreachable, garbled, troubled>>

\* The last attempt failed: clickhouse_classify returns None.
Unreachable ==
  /\ PostFails
  /\ LastAttempt
  /\ attempt' = 0

-----------------------------------------------------------------------------
(* What label_clickhouse makes of None                                     *)

Retry ==
  /\ Unreachable
  /\ unreachable + 1 < MaxStreak
  /\ unreachable' = unreachable + 1
  /\ UNCHANGED <<corpus, faults, pc, valid, control, garbled, troubled>>

\* restarts += 1; ensure!(restarts <= 50); continue 'engine
Restart ==
  /\ restarts' = restarts + 1
  /\ pc' = IF restarts + 1 <= MaxRestarts THEN "start" ELSE "aborted"

Crashed ==
  /\ Unreachable
  /\ unreachable + 1 >= MaxStreak

\* Mutant: one crash at a statement poisons it.
FirstCrashIsEnough == deathCount + 1 >= 1

SecondCrash == deathIdx = cur /\ deathCount + 1 >= 2

Crash ==
  /\ Crashed
  /\ ~SecondCrash
  /\ deathIdx' = cur
  /\ deathCount' = 1
  /\ Restart
  /\ UNCHANGED <<corpus, faults, valid, poisoned, unreachable, garbled, troubled>>

\* Mutant: the statement is listed as poisoned but keeps its place.
PoisonWithoutVerdict ==
  /\ poisoned' = Append(poisoned, cur)
  /\ UNCHANGED valid

GiveUp ==
  /\ valid' = Append(valid, FALSE)
  /\ poisoned' = Append(poisoned, cur)

Poison ==
  /\ Crashed
  /\ SecondCrash
  /\ GiveUp
  /\ deathIdx' = None
  /\ deathCount' = 0
  /\ Restart
  /\ UNCHANGED <<corpus, faults, unreachable, garbled, troubled>>

-----------------------------------------------------------------------------

Next ==
  \/ StartEngine \/ StartFails \/ Finish
  \/ Respond \/ RespondGarbled \/ RespondTrouble
  \/ PostAgain \/ Retry \/ Crash \/ Poison

\* The adapter is one sequential task: it always takes its next step.
Spec == Init /\ [][Next]_vars /\ WF_vars(Next)

-----------------------------------------------------------------------------
(* Properties                                                              *)

PoisonedSet == {poisoned[k] : k \in 1..Len(poisoned)}

\* Every verdict is the engine's own, unless the statement is on the list of
\* poisoned ones the run ends by printing or its answer could not be classified
\* (then it is called invalid), or the engine answered with a code of its own
\* troubles: no transport failure and no crash leaks into any other verdict.
VerdictsAccounted ==
  \A i \in 1..Len(valid) :
    \/ valid[i] = corpus[i].parses
    \/ ~valid[i] /\ i \in PoisonedSet \cup garbled
    \/ valid[i] /\ i \in troubled

\* The list of poisoned statements is what it says: distinct statements in the
\* order of the corpus, each with the verdict "invalid".
PoisonedInOrder ==
  /\ \A j, k \in 1..Len(poisoned) : j < k => poisoned[j] < poisoned[k]
  /\ \A k \in 1..Len(poisoned) : poisoned[k] <= Len(valid) /\ ~valid[poisoned[k]]

\* An engine that crashes only at the statements that crash it poisons exactly
\* those: "a fresh engine yields identical verdicts", and the cache is complete.
FaultFreeExact ==
  faults = {} =>
    /\ \A i \in 1..Len(valid) : corpus[i].crashes <=> i \in PoisonedSet
    /\ pc = "done" => restarts = 2 * Len(poisoned)
    /\ pc = "aborted" =>
         2 * Cardinality({i \in Stmts : corpus[i].crashes}) > MaxRestarts

\* The adapter keeps the promise of a labelling adapter: one verdict per statement,
\* in order, and all of them or none; a verdict "valid" is the grammar's, as long as
\* the engine's codes are about the statements.
Abstract == INSTANCE Labelling WITH
  parses  <- [i \in Stmts |-> corpus[i].parses],
  textual <- IF "server" \in faults THEN Stmts ELSE {},
  labels  <- IF pc = "aborted" THEN <<>> ELSE valid,
  status  <- CASE pc = "done" -> "published"
               [] pc = "aborted" -> "abandoned"
               [] OTHER -> "running"

ImplementsLabelling == Abstract!Spec

\* The part of it that says what the adapter may never do.
LabellingSafety == Abstract!Init /\ [][Abstract!Next]_(Abstract!vars)

=============================================================================
