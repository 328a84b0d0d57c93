----------------------------- MODULE Labelling -----------------------------
(***************************************************************************)
(* What a labelling adapter of the oracle promises to write_cache: it goes *)
(* through the corpus in order and gives each statement one verdict; it    *)
(* calls a statement valid only if the engine parsed it (or if the         *)
(* statement is one of those the adapter may judge by its text); and it    *)
(* either hands over the verdicts of the whole corpus or nothing at all.   *)
(* A verdict "invalid" is not sound: an adapter may give up on a statement.*)
(***************************************************************************)
EXTENDS Naturals, Sequences

CONSTANT NumStmts       \* the number of statements of the corpus

VARIABLES
  parses,       \* which statements the engine's grammar accepts
  textual,      \* the statements a verdict may be read off the text of
  labels,       \* the verdicts so far: Vec<bool>
  status        \* "running", "published" or "abandoned"

vars == <<parses, textual, labels, status>>

Init ==
  /\ parses \in [1..NumStmts -> BOOLEAN]
  /\ textual \in SUBSET (1..NumStmts)
  /\ labels = <<>>
  /\ status = "running"

Record(v) ==
  LET i == Len(labels) + 1 IN
  /\ status = "running"
  /\ i <= NumStmts
  /\ v => (parses[i] \/ i \in textual)
  /\ labels' = Append(labels, v)
  /\ UNCHANGED <<parses, textual, status>>

Publish ==
  /\ status = "running"
  /\ Len(labels) = NumStmts
  /\ status' = "published"
  /\ UNCHANGED <<parses, textual, labels>>

\* An error is returned with `?`: the verdicts collected so far are dropped.
Abandon ==
  /\ status = "running"
  /\ status' = "abandoned"
  /\ labels' = <<>>
  /\ UNCHANGED <<parses, textual>>

Next == (\E v \in BOOLEAN : Record(v)) \/ Publish \/ Abandon

Spec == Init /\ [][Next]_vars /\ WF_vars(Next)

=============================================================================
