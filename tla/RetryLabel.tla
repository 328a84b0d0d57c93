----------------------------- MODULE RetryLabel -----------------------------
(***************************************************************************)
(* The MySQL and SQL Server adapters of the oracle (label_mysql,           *)
(* label_tsql).  Both probe the corpus in order over ONE connection that   *)
(* is never replaced: a probe that ends in anything but an answer of the   *)
(* server is repeated, and MaxStreak such probes in a row abort the        *)
(* labelling.  Neither gives up on a statement.                            *)
(*                                                                         *)
(* A MySQL probe takes two requests: SET @q = ? stores the text in the     *)
(* session, PREPARE _ck FROM @q parses what @q holds.  A SQL Server probe  *)
(* is one batch in a session with PARSEONLY on.                            *)
(***************************************************************************)
EXTENDS Naturals, Sequences

CONSTANTS
  NumStmts,        \* stmts.len()
  MaxStreak,       \* 10 in the code
  Faults           \* the kinds of fault a run may meet: "transport", the container,
                   \* the network or the connection fails; "server", the server
                   \* answers with an error of its own troubles

ASSUME RetryAssumption ==
  /\ NumStmts \in Nat
  /\ MaxStreak \in Nat \ {0}
  /\ Faults \subseteq {"transport", "server"}

Stmts == 1..NumStmts
None == 0

VARIABLES
  engine,       \* "mysql" or "tsql": the adapter that runs
  parses,       \* which statements the engine's grammar accepts
  faults,       \* the kinds of fault this run meets
  pc,           \* "start" | "probe" | "prepare" | "done" | "aborted"
  valid,
  streak,       \* unreachable_streak
  up,           \* is the one connection usable?
  q,            \* the statement @q holds in the session (MySQL)
  troubled      \* history: statements answered with an error of the server's own

env == <<engine, parses, faults>>
vars == <<env, pc, valid, streak, up, q, troubled>>

TypeOK ==
  /\ engine \in {"mysql", "tsql"}
  /\ parses \in [Stmts -> BOOLEAN]
  /\ faults \in SUBSET Faults
  /\ pc \in {"start", "probe", "prepare", "done", "aborted"}
  /\ valid \in Seq(BOOLEAN) /\ Len(valid) <= NumStmts
  /\ streak \in 0..MaxStreak
  /\ up \in BOOLEAN
  /\ q \in Stmts \cup {None}
  /\ troubled \in SUBSET Stmts

Init ==
  /\ engine \in {"mysql", "tsql"}
  /\ parses \in [Stmts -> BOOLEAN]
  /\ faults \in SUBSET Faults
  /\ pc = "start"
  /\ valid = <<>>
  /\ streak = 0
  /\ up = FALSE
  /\ q = None
  /\ troubled = {}

cur == Len(valid) + 1
More == Len(valid) < NumStmts

\* The container, the connection and (SQL Server) SET PARSEONLY ON.
Start ==
  /\ pc = "start"
  /\ \/ pc' = "probe" /\ up' = TRUE
     \/ "transport" \in faults /\ pc' = "aborted" /\ up' = FALSE
  /\ UNCHANGED <<env, valid, streak, q, troubled>>

Finish ==
  /\ pc = "probe"
  /\ ~More
  /\ pc' = "done"
  /\ UNCHANGED <<env, valid, streak, up, q, troubled>>

-----------------------------------------------------------------------------
(* Answers                                                                 *)

\* Some(v): the next statement is probed next.
Verdict(v) ==
  /\ valid' = Append(valid, v)
  /\ streak' = 0
  /\ pc' = "probe"

\* SET @q = ? succeeds.
SetText ==
  /\ engine = "mysql"
  /\ pc = "probe"
  /\ More
  /\ up
  /\ pc' = "prepare"
  /\ q' = cur
  /\ UNCHANGED <<env, valid, streak, up, troubled>>

\* The request whose answer is the verdict: PREPARE, or the batch.
Asking ==
  /\ pc = IF engine = "mysql" THEN "prepare" ELSE "probe"
  /\ More
  /\ up

\* A PREPARE that succeeds is followed by DEALLOCATE, whose result is ignored:
\* it may find the connection lost.
Answer ==
  /\ Asking
  /\ Verdict(parses[IF engine = "mysql" THEN q ELSE cur])
  /\ up' \in IF "transport" \in faults THEN BOOLEAN ELSE {TRUE}
  /\ UNCHANGED <<env, q, troubled>>

\* A server error that is not about the statement.  MySQL: anything but 1064 is
\* "parsed", at the SET as at the PREPARE.  SQL Server: any error is "invalid".
ServerTrouble ==
  /\ pc \in {"probe", "prepare"}
  /\ More
  /\ up
  /\ "server" \in faults
  /\ Verdict(engine = "mysql")
  /\ troubled' = troubled \cup {cur}
  /\ UNCHANGED <<env, up, q>>

-----------------------------------------------------------------------------
(* No answer                                                               *)

\* Mutant: no answer is an answer.
NoneIsValid == Verdict(TRUE)

\* Mutant: probes without an answer are not counted.
StreakUncounted ==
  /\ streak' = streak
  /\ pc' = "probe"
  /\ UNCHANGED valid

\* unreachable_streak += 1; ensure!(unreachable_streak < 10)
NoVerdict ==
  /\ streak' = streak + 1
  /\ pc' = IF streak + 1 < MaxStreak THEN "probe" ELSE "aborted"
  /\ UNCHANGED valid

\* A driver or I/O error at either request; the whole probe is repeated.  The
\* connection may survive it; once it is lost it stays lost.
ProbeFails ==
  /\ pc \in {"probe", "prepare"}
  /\ More
  /\ \/ ~up /\ up' = FALSE
     \/ up /\ "transport" \in faults /\ up' \in BOOLEAN
  /\ NoVerdict
  /\ UNCHANGED <<env, q, troubled>>

-----------------------------------------------------------------------------

Next ==
  \/ Start \/ Finish \/ SetText \/ Answer \/ ServerTrouble \/ ProbeFails

\* The adapter is one sequential task: it always takes its next step.
Spec == Init /\ [][Next]_vars /\ WF_vars(Next)

-----------------------------------------------------------------------------
(* Properties                                                              *)

\* A verdict is what the grammar says of that statement, except that MySQL may
\* call "valid" and SQL Server "invalid" a statement whose probe met a server in
\* trouble: a repeated probe never shifts a verdict to another statement, and a
\* probe without an answer never becomes a verdict.
VerdictsExact ==
  \A i \in 1..Len(valid) :
    \/ valid[i] = parses[i]
    \/ i \in troubled /\ valid[i] = (engine = "mysql")

\* A lost connection is never replaced, so it ends the labelling without a
\* cache, unless it was lost after the last verdict.
LostConnectionAborts ==
  (pc \in {"probe", "prepare"} /\ More /\ ~up) ~> (pc = "aborted")

\* The adapters keep the promise of a labelling adapter: one verdict per statement,
\* in order, and all of them or none; a verdict "valid" is the grammar's, as long as
\* the server's errors are about the statements.
Abstract == INSTANCE Labelling WITH
  textual <- IF "server" \in faults THEN Stmts ELSE {},
  labels  <- IF pc = "aborted" THEN <<>> ELSE valid,
  status  <- CASE pc = "done" -> "published"
               [] pc = "aborted" -> "abandoned"
               [] OTHER -> "running"

ImplementsLabelling == Abstract!Spec

\* The part of it that says what the adapters may never do.
LabellingSafety == Abstract!Init /\ [][Abstract!Next]_(Abstract!vars)

=============================================================================
