---------------------------- MODULE SqliteScript ----------------------------
(***************************************************************************)
(* The SQLite adapter of the oracle (label_sqlite): the statements that    *)
(* close their quotes are written to one script, a line each; the sqlite3  *)
(* CLI runs the script and prints an error with a line number for every    *)
(* piece it rejects; the line numbers are mapped back to the statements.   *)
(*                                                                         *)
(* A statement is a sequence of tokens.  Which statements the grammar      *)
(* rejects is given by `alone`; the CLI (external) reads the script line   *)
(* by line and runs a piece when a terminator outside quotes and comments  *)
(* ends a line.                                                            *)
(***************************************************************************)
EXTENDS Naturals, Sequences

CONSTANTS
  Corpora,        \* the corpora: sequences of statements, each a sequence of Tokens
  CliCrashes      \* may the CLI (or docker) end abnormally?

\* A quote of each kind, what opens and closes a bracket and a block comment,
\* the start of a line comment, and anything else.
Tokens == {"sq", "dq", "bt", "[", "]", "/*", "*/", "--", "x"}

ASSUME ScriptAssumption ==
  /\ \A c \in Corpora : c \in Seq(Seq(Tokens))
  /\ CliCrashes \in BOOLEAN

VARIABLES
  text,        \* the statements: stmts
  alone,       \* "ok", "missing" (an object) or "reject": what the CLI says of
               \* EXPLAIN of the statement
  pc,          \* "build" | "run" | "label" | "done" | "aborted"
  idx,         \* the statement to look at next
  valid,       \* Vec<bool>
  batch,       \* batch[k]: the statement on script line k + 2 (here k + 1)
  line,        \* the CLI: lines read
  inside,      \*   what the text read so far leaves open, or "none"
  pending,     \*   the statements read and not yet run
  startline,   \*   the line the pending text starts on
  errors       \* stderr: pairs of a line number and a class

Stmts == 1..Len(text)

cli == <<line, inside, pending, startline, errors>>
vars == <<text, alone, pc, idx, valid, batch, cli>>

-----------------------------------------------------------------------------
(* Lexing                                                                  *)

Openers == {"sq", "dq", "bt", "[", "/*", "--"}
Doubled == {"sq", "dq", "bt"}       \* closed by themselves, escaped by doubling
Closer(q) == CASE q = "[" -> "]" [] q = "/*" -> "*/" [] OTHER -> q

\* One iteration of is_sqlite_balanced: the new state, and whether the next
\* token is skipped (i += 1).
Step(q, tok, next) ==
  CASE q = "none" /\ tok \in Openers -> [q |-> tok, skip |-> FALSE]
    [] q \notin {"none", "--"} /\ tok = Closer(q) ->
         IF q \in Doubled /\ next = tok THEN [q |-> q, skip |-> TRUE]
                                        ELSE [q |-> "none", skip |-> FALSE]
    [] OTHER -> [q |-> q, skip |-> FALSE]

\* The state after the whole statement.
Scan(s) ==
  LET after[k \in 0..Len(s)] ==
        IF k = 0 THEN [q |-> "none", skip |-> FALSE]
        ELSE LET before == after[k - 1]
                 next   == IF k < Len(s) THEN s[k + 1] ELSE "x"
             IN  IF before.skip THEN [before EXCEPT !.skip = FALSE]
                 ELSE Step(before.q, s[k], next)
  IN  after[Len(s)].q

\* is_sqlite_balanced: a line comment ends the scan with `true`.
IsBalanced(s) == Scan(s) \in {"none", "--"}

\* How the CLI lexes (external): it toggles at quotes, looks no further than
\* the current token, and carries what is open over from line to line.
CliScan(q0, s) ==
  LET after[k \in 0..Len(s)] ==
        IF k = 0 THEN q0
        ELSE LET q == after[k - 1] IN
             IF q = "none" THEN (IF s[k] \in Openers THEN s[k] ELSE "none")
             ELSE IF q # "--" /\ s[k] = Closer(q) THEN "none" ELSE q
  IN  after[Len(s)]

-----------------------------------------------------------------------------

TypeOK ==
  /\ text \in Corpora
  /\ alone \in [Stmts -> {"ok", "missing", "reject"}]
  /\ pc \in {"build", "run", "label", "done", "aborted"}
  /\ idx \in 1..(Len(text) + 1)
  /\ valid \in [Stmts -> BOOLEAN]
  /\ batch \in Seq(Stmts)
  /\ line \in 0..(Len(batch) + 1)
  /\ inside \in Openers \cup {"none"}
  /\ pending \in Seq(Stmts)
  /\ \A e \in errors : e.line \in 2..(Len(batch) + 1) /\ e.class \in {"missing", "reject"}

Init ==
  /\ text \in Corpora
  /\ alone \in [Stmts -> {"ok", "missing", "reject"}]
  /\ pc = "build" /\ idx = 1
  /\ valid = [i \in Stmts |-> TRUE]
  /\ batch = <<>>
  /\ line = 0 /\ inside = "none" /\ pending = <<>> /\ startline = 0
  /\ errors = {}

-----------------------------------------------------------------------------
(* label_sqlite writes the script                                          *)

\* A statement that leaves something open is invalid, and kept out.
KeepOut ==
  /\ pc = "build" /\ idx <= Len(text)
  /\ ~IsBalanced(text[idx])
  /\ valid' = [valid EXCEPT ![idx] = FALSE]
  /\ idx' = idx + 1
  /\ UNCHANGED <<text, alone, pc, batch, cli>>

AddLine ==
  /\ pc = "build" /\ idx <= Len(text)
  /\ IsBalanced(text[idx])
  /\ batch' = Append(batch, idx)
  /\ idx' = idx + 1
  /\ UNCHANGED <<text, alone, pc, valid, cli>>

\* `docker run` is spawned; the first line of the script is `.bail off`.
Spawn ==
  /\ pc = "build" /\ idx > Len(text)
  /\ \/ pc' = "run" /\ line' = 1
     \/ CliCrashes /\ pc' = "aborted" /\ line' = line
  /\ UNCHANGED <<text, alone, idx, valid, batch, inside, pending, startline, errors>>

-----------------------------------------------------------------------------
(* The CLI runs it                                                         *)

\* A piece that is one statement is judged as that statement; one that merges
\* several lines may be accepted or rejected.
Outcomes(piece) ==
  IF Len(piece) = 1 THEN {alone[piece[1]]} ELSE {"ok", "missing", "reject"}

Run(piece, at) ==
  \E o \in Outcomes(piece) :
    errors' = IF o = "ok" THEN errors ELSE errors \cup {[line |-> at, class |-> o]}

\* `EXPLAIN {stmt};` is read; it is run if nothing is open at its terminator.
ReadLine ==
  LET i     == batch[line]
      open  == CliScan(inside, text[i])
      start == IF pending = <<>> THEN line + 1 ELSE startline
      piece == Append(pending, i)
  IN
  /\ pc = "run" /\ line <= Len(batch)
  /\ line' = line + 1
  /\ IF open = "none"
     THEN /\ Run(piece, start)
          /\ pending' = <<>> /\ startline' = 0 /\ inside' = "none"
     ELSE /\ pending' = piece /\ startline' = start
          /\ inside' = IF open = "--" THEN "none" ELSE open
          /\ UNCHANGED errors
  /\ UNCHANGED <<text, alone, pc, idx, valid, batch>>

\* At the end of the script what is still pending is run, too.
EndOfScript ==
  /\ pc = "run" /\ line > Len(batch)
  /\ IF pending = <<>> THEN UNCHANGED errors ELSE Run(pending, startline)
  /\ pending' = <<>> /\ startline' = 0
  /\ pc' = "label"
  /\ UNCHANGED <<text, alone, idx, valid, batch, line, inside>>

\* Mutant: the exit status of the CLI is not looked at.
AbortUnchecked == "label"

\* Any exit code but 0 and 1: the tail of the script was not run.
Abort == "aborted"

Crash ==
  /\ pc = "run"
  /\ CliCrashes
  /\ pc' = Abort
  /\ UNCHANGED <<text, alone, idx, valid, batch, cli>>

-----------------------------------------------------------------------------
(* The errors are mapped back                                              *)

\* batch[lineno - 2], counted from 0
StatementOn(l) == batch[l - 1]

\* is_sqlite_invalid: a missing object means the statement parsed.
Label ==
  /\ pc = "label"
  /\ valid' = [i \in Stmts |->
       /\ valid[i]
       /\ ~\E e \in errors :
            /\ e.line - 1 \in 1..Len(batch)
            /\ StatementOn(e.line) = i
            /\ e.class = "reject"]
  /\ pc' = "done"
  /\ UNCHANGED <<text, alone, idx, batch, cli>>

-----------------------------------------------------------------------------

Next ==
  \/ KeepOut \/ AddLine \/ Spawn \/ ReadLine \/ EndOfScript \/ Crash \/ Label

Spec == Init /\ [][Next]_vars

-----------------------------------------------------------------------------
(* Properties                                                              *)

\* A statement is invalid exactly if the CLI rejects it on its own, or it
\* leaves a quote or a comment open: no other line of the script, rejected,
\* malformed or commented, has a say in it.
Closes(s) == CliScan("none", s) \in {"none", "--"}

LabelsExact ==
  pc = "done" =>
    \A i \in Stmts : valid[i] <=> Closes(text[i]) /\ alone[i] # "reject"

\* A statement with an open quote is kept out of the batch because it "would
\* otherwise swallow every following EXPLAIN line [...], silently grading the lot
\* valid" (label_sqlite): what the CLI rejects is never labelled valid.
RejectedIsInvalid ==
  pc = "done" => \A i \in Stmts : alone[i] = "reject" => ~valid[i]

=============================================================================
