---------------------------- MODULE SqlitePipes ----------------------------
(***************************************************************************)
(* How label_sqlite talks to the sqlite3 process (oracle/src/main.rs): a   *)
(* thread writes the script into one bounded pipe while the main thread    *)
(* drains the other, in which the process reports errors, and waits for    *)
(* its end. The script is a sequence of lines, TRUE where the process      *)
(* reports an error.                                                       *)
(***************************************************************************)
EXTENDS Integers, Sequences, FiniteSets

CONSTANTS
  Scripts,      (* the scripts to consider                                 *)
  PipeSize      (* bound: lines that fit into a pipe                       *)

ASSUME PipesAssumption == Scripts \subseteq Seq(BOOLEAN) /\ PipeSize \in Nat \ {0}

VARIABLES
  script, written, stdin,   (* lines; how many are written; those in the pipe *)
  writer,                   (* "writing" or "done", which closes the pipe  *)
  child, report,            (* the process, and whether it has an error to report *)
  stderr,                   (* error lines in the pipe                     *)
  out,                      (* error lines read                            *)
  main                      (* "draining", "joining", "labelled", "bailed" *)

pipeVars == <<script, written, stdin, writer, child, report, stderr, out, main>>

PipesInit ==
  /\ script \in Scripts
  /\ written = 0 /\ stdin = <<>> /\ writer = "writing"
  /\ child = "running" /\ report = FALSE /\ stderr = 0 /\ out = 0 /\ main = "draining"

(* The writer thread: write_all, whose error is ignored, and the drop of   *)
(* the handle at its end.                                                  *)
Write ==
  /\ writer = "writing"
  /\ \/ /\ child = "running" /\ written < Len(script) /\ Len(stdin) < PipeSize
        /\ stdin' = Append(stdin, script[written + 1]) /\ written' = written + 1
        /\ UNCHANGED writer
     \/ /\ written = Len(script) \/ child # "running"
        /\ writer' = "done" /\ UNCHANGED <<stdin, written>>
  /\ UNCHANGED <<script, child, report, stderr, out, main>>

(* The process reads a line when it has nothing left to report, ends at    *)
(* the end of its input, and may crash anywhere.                           *)
ChildStep ==
  /\ child = "running"
  /\ \/ /\ ~report /\ stdin # <<>>
        /\ report' = Head(stdin) /\ stdin' = Tail(stdin) /\ UNCHANGED <<stderr, child>>
     \/ /\ report /\ stderr < PipeSize
        /\ stderr' = stderr + 1 /\ report' = FALSE /\ UNCHANGED <<stdin, child>>
     \/ /\ ~report /\ stdin = <<>> /\ writer = "done"
        /\ child' = "exited" /\ UNCHANGED <<stdin, stderr, report>>
  /\ UNCHANGED <<script, written, writer, out, main>>
Crash ==
  /\ child = "running" /\ child' = "crashed"
  /\ UNCHANGED <<script, written, stdin, writer, report, stderr, out, main>>

\* Mutant: the script is written before stderr is drained, by one thread.
MayDrainAfterwards == main = "draining" /\ writer = "done"

End == IF child = "exited" THEN "labelled" ELSE "bailed"

(* wait_with_output, the join of the writer, and the look at the status.   *)
(* Nothing keeps the main thread from draining while the writer writes.    *)
MayDrain == main = "draining"
Main ==
  /\ \/ /\ MayDrain /\ stderr > 0
        /\ stderr' = stderr - 1 /\ out' = out + 1 /\ UNCHANGED main
     \/ /\ MayDrain /\ stderr = 0 /\ child # "running"
        /\ main' = "joining" /\ UNCHANGED <<stderr, out>>
     \/ /\ main = "joining" /\ writer = "done"
        /\ main' = End
        /\ UNCHANGED <<stderr, out>>
  /\ UNCHANGED <<script, written, stdin, writer, child, report>>

PipesNext == Write \/ ChildStep \/ Crash \/ Main

(* If the statements are labelled, then by the errors of the whole script. *)
ErrorLines == {i \in 1..Len(script) : script[i]}
AnswerIsWhole == main = "labelled" => out = Cardinality(ErrorLines)
=============================================================================
