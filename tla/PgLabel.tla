------------------------------ MODULE PgLabel ------------------------------
(***************************************************************************)
(* The PostgreSQL adapter of the oracle (label_postgresql).  It probes the *)
(* statements of the corpus in order over one connection.  A probe that is *)
(* answered, by success or by an SQLSTATE, gives a verdict; one that ends  *)
(* without an SQLSTATE is retried, then the session is replaced, and a     *)
(* statement at which two sessions in a row died is given up as invalid.   *)
(* A COPY ... TO STDOUT is judged by its text as soon as a probe of it     *)
(* ends without an SQLSTATE.  More than MaxReconnects replacements abort   *)
(* the labelling, and nothing is written.                                  *)
(*                                                                         *)
(* The server, the network and the corpus are the environment.             *)
(***************************************************************************)
EXTENDS Naturals, Sequences, FiniteSets

CONSTANTS
  NumStmts,        \* stmts.len()
  MaxStreak,       \* 6 in the code: failing probes that end a session
  MaxReconnects,   \* 50 in the code: sessions replaced before giving up
  Faults           \* the kinds of fault a run may meet: "transport", the container,
                   \* the network or a session fails unprovoked; "server", the
                   \* server answers with an SQLSTATE of its own troubles (a
                   \* shutdown, no memory, no disk space)

ASSUME PgAssumption ==
  /\ NumStmts \in Nat
  /\ MaxStreak \in Nat \ {0}
  /\ MaxReconnects \in Nat
  /\ Faults \subseteq {"transport", "server"}

Stmts == 1..NumStmts
None == 0               \* death_idx = None; statements are numbered from 1

(***************************************************************************)
(* A statement, as far as the adapter and the server can tell them apart:  *)
(* does the server's grammar accept it; does is_copy_to_stdout match its   *)
(* text; does a probe of it end the session without an SQLSTATE (it kills  *)
(* the backend, or starts a COPY the simple-query protocol cannot consume).*)
(***************************************************************************)
Statement == [parses : BOOLEAN, copy : BOOLEAN, breaks : BOOLEAN]

VARIABLES
  corpus,       \* the statements
  faults,       \* the kinds of fault this run meets
  pc,           \* "start" | "connect" | "probe" | "done" | "aborted"
  valid,        \* the verdicts so far
  reconnects,
  deathIdx, deathCount,
  streak,       \* unreachable_streak of the current session
  up,           \* is the current session still usable?
  how,          \* history: what each verdict rests on
  failed        \* history: probes of each statement that got no answer

control == <<reconnects, deathIdx, deathCount>>
vars == <<corpus, faults, pc, valid, control, streak, up, how, failed>>

Basis == {"answer", "trouble", "copy", "poison"}

TypeOK ==
  /\ corpus \in [Stmts -> Statement]
  /\ faults \in SUBSET Faults
  /\ pc \in {"start", "connect", "probe", "done", "aborted"}
  /\ valid \in Seq(BOOLEAN)
  /\ Len(valid) <= NumStmts
  /\ reconnects \in 0..(MaxReconnects + 1)
  /\ deathIdx \in Stmts \cup {None}
  /\ deathCount \in 0..1
  /\ streak \in 0..(MaxStreak - 1)
  /\ up \in BOOLEAN
  /\ how \in Seq(Basis)
  /\ Len(how) = Len(valid)
  /\ failed \in [Stmts -> Nat]

Init ==
  /\ corpus \in [Stmts -> Statement]
  /\ faults \in SUBSET Faults
  /\ pc = "start"
  /\ valid = <<>>
  /\ reconnects = 0
  /\ deathIdx = None
  /\ deathCount = 0
  /\ streak = 0
  /\ up = FALSE
  /\ how = <<>>
  /\ failed = [i \in Stmts |-> 0]

-----------------------------------------------------------------------------
(* Sessions                                                                *)

cur == Len(valid) + 1           \* the statement being probed
More == Len(valid) < NumStmts   \* valid.len() < stmts.len()

\* Postgres::default().start() and the lookups of its host and port.
StartContainer ==
  /\ pc = "start"
  /\ pc' \in IF "transport" \in faults THEN {"connect", "aborted"} ELSE {"connect"}
  /\ UNCHANGED <<corpus, faults, valid, control, streak, up, how, failed>>

\* A session begins: a new client, no failures in a row.
NewSession ==
  /\ pc' = "probe"
  /\ streak' = 0
  /\ up' = TRUE

Connect ==
  /\ pc = "connect"
  /\ More
  /\ NewSession
  /\ UNCHANGED <<corpus, faults, valid, control, how, failed>>

\* tokio_postgres::connect fails and `?` returns.
ConnectFails ==
  /\ pc = "connect"
  /\ More
  /\ "transport" \in faults
  /\ pc' = "aborted"
  /\ UNCHANGED <<corpus, faults, valid, control, streak, up, how, failed>>

\* Mutant: `break` instead of `continue 'session`.
FinishOnReconnect ==
  /\ pc \in {"connect", "probe"}
  /\ pc = "probe" => ~More
  /\ pc' = "done"
  /\ UNCHANGED <<corpus, faults, valid, control, streak, up, how, failed>>

\* Both loops test the same condition; the inner one ends, then the outer one.
Finish ==
  /\ pc \in {"connect", "probe"}
  /\ ~More
  /\ pc' = "done"
  /\ UNCHANGED <<corpus, faults, valid, control, streak, up, how, failed>>

-----------------------------------------------------------------------------
(* Probes                                                                  *)

Verdict(v, basis) ==
  /\ valid' = Append(valid, v)
  /\ how' = Append(how, basis)

\* The server answered.
Answer ==
  /\ pc = "probe"
  /\ More
  /\ up
  /\ ~corpus[cur].breaks
  /\ Verdict(corpus[cur].parses, "answer")
  /\ streak' = 0
  /\ UNCHANGED <<corpus, faults, pc, control, up, failed>>

\* The server answers with an SQLSTATE that is not about the statement.  It is
\* not 42601, so it counts as "parsed".
ServerTrouble ==
  /\ pc = "probe"
  /\ More
  /\ up
  /\ "server" \in faults
  /\ Verdict(TRUE, "trouble")
  /\ streak' = 0
  /\ up' \in BOOLEAN
  /\ UNCHANGED <<corpus, faults, pc, control, failed>>

\* The probe ends without an SQLSTATE: the session is gone, the statement
\* ends it, or it fails for a reason of its own and may survive.
NoSqlState ==
  /\ pc = "probe"
  /\ More
  /\ \/ ~up /\ up' = FALSE
     \/ up /\ corpus[cur].breaks /\ up' = FALSE
     \/ up /\ "transport" \in faults /\ up' \in BOOLEAN
  /\ failed' = [failed EXCEPT ![cur] = @ + 1]

\* Mutant: the session is replaced without counting it.
ReconnectUncounted ==
  /\ pc' = "connect"
  /\ UNCHANGED reconnects

\* reconnects += 1; ensure!(reconnects <= 50); continue 'session
Reconnect ==
  /\ reconnects' = reconnects + 1
  /\ pc' = IF reconnects + 1 <= MaxReconnects THEN "connect" ELSE "aborted"

\* The COPY arm is tried before the retry: one failing probe is enough.
CopyToStdout ==
  /\ NoSqlState
  /\ corpus[cur].copy
  /\ Verdict(TRUE, "copy")
  /\ deathIdx' = None
  /\ deathCount' = 0
  /\ Reconnect
  /\ UNCHANGED <<corpus, faults, streak>>

\* unreachable_streak + 1 < 6
MayRetry == streak + 1 < MaxStreak

\* A blip: wait 200 ms and probe the same statement again.
Retry ==
  /\ NoSqlState
  /\ ~corpus[cur].copy
  /\ MayRetry
  /\ streak' = streak + 1
  /\ UNCHANGED <<corpus, faults, pc, valid, control, how>>

\* The session is given up: the server is taken for dead.
SessionGivenUp ==
  /\ NoSqlState
  /\ ~corpus[cur].copy
  /\ ~MayRetry

\* Mutant: deaths are counted whichever statement they happen at.
AnySecondDeath == deathCount + 1 >= 2

\* The session before this one died at the same statement.
SecondDeath == deathIdx = cur /\ deathCount + 1 >= 2

FirstDeath == ~SecondDeath

Death ==
  /\ SessionGivenUp
  /\ FirstDeath
  /\ deathIdx' = cur
  /\ deathCount' = 1
  /\ Reconnect
  /\ UNCHANGED <<corpus, faults, valid, streak, how>>

\* Mutant: a statement that is given up is taken for valid.
GiveUpVerdictValid == Verdict(TRUE, "poison")

GiveUpVerdict == Verdict(FALSE, "poison")

Poison ==
  /\ SessionGivenUp
  /\ SecondDeath
  /\ GiveUpVerdict
  /\ deathIdx' = None
  /\ deathCount' = 0
  /\ Reconnect
  /\ UNCHANGED <<corpus, faults, streak>>

-----------------------------------------------------------------------------

Next ==
  \/ StartContainer \/ Connect \/ ConnectFails \/ Finish
  \/ Answer \/ ServerTrouble \/ CopyToStdout \/ Retry \/ Death \/ Poison

\* The adapter is one sequential task: it always takes its next step.
Spec == Init /\ [][Next]_vars /\ WF_vars(Next)

-----------------------------------------------------------------------------
(* Properties                                                              *)

ByBasis(b) == {i \in 1..Len(how) : how[i] = b}

\* A statement is called valid only if the server's grammar accepts it, or it
\* is a COPY ... TO STDOUT by its text, or the server answered its probe with an
\* SQLSTATE: no silent failure of the transport, dead session or given-up
\* statement ever turns into "valid".
VerdictsSound ==
  \A i \in 1..Len(valid) :
    valid[i] => corpus[i].parses \/ corpus[i].copy \/ how[i] = "trouble"

\* A statement the server's grammar accepts is called invalid only after two
\* whole sessions of MaxStreak failing probes were spent on it, in a row:
\* deaths and blips at other statements never count against it.
InnocentInvalidEarned ==
  \A i \in 1..Len(valid) :
    ~valid[i] /\ corpus[i].parses => failed[i] = 2 * MaxStreak

\* Every given-up statement costs two of the reconnects the cap allows and
\* every COPY one, so a cache that is written holds at most MaxReconnects \div 2
\* given-up statements: an engine that is down for good cannot turn the rest of
\* the corpus into "invalid".
PendingDeath == IF deathIdx = cur THEN deathCount ELSE 0

ReconnectBudget ==
  /\ 2 * Cardinality(ByBasis("poison")) + Cardinality(ByBasis("copy"))
       + PendingDeath <= reconnects
  /\ pc # "aborted" => reconnects <= MaxReconnects

\* The adapter keeps the promise of a labelling adapter: one verdict per statement,
\* in order, and all of them or none; a verdict "valid" is the grammar's, or read
\* off the text of a COPY, as long as the server's SQLSTATEs are about the statements.
Abstract == INSTANCE Labelling WITH
  parses  <- [i \in Stmts |-> corpus[i].parses],
  textual <- IF "server" \in faults THEN Stmts ELSE {i \in Stmts : corpus[i].copy},
  labels  <- IF pc = "aborted" THEN <<>> ELSE valid,
  status  <- CASE pc = "done" -> "published"
               [] pc = "aborted" -> "abandoned"
               [] OTHER -> "running"

ImplementsLabelling == Abstract!Spec

\* The part of it that says what the adapter may never do.
LabellingSafety == Abstract!Init /\ [][Abstract!Next]_(Abstract!vars)

\* "An error with no code is a transport/connection failure, which must never be
\* recorded as valid" (the comment on the verdict): every verdict "valid" is of a
\* statement the server's grammar accepts.
ValidIsParsed == \A i \in 1..Len(valid) : valid[i] => corpus[i].parses

=============================================================================
