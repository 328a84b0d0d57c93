----------------------------- MODULE Benchmark -----------------------------
(***************************************************************************)
(* The benchmark as one system, of which a behaviour exercises one part:   *)
(* an algorithm that is fed its input, the pipeline that regenerates the   *)
(* site ("regen"), or the exchange with the sqlite3 process ("pipes").     *)
(***************************************************************************)
EXTENDS Algorithms, Regen, SqlitePipes

allVars == <<feedVars, regenVars, pipeVars>>

Init == FeedInit /\ RegenInit /\ PipesInit /\ (tool # "pipes" => script = <<>>)
Next ==
  \/ Feed /\ UNCHANGED <<regenVars, pipeVars>>
  \/ tool = "regen" /\ RegenNext /\ UNCHANGED <<feedVars, pipeVars>>
  \/ tool = "pipes" /\ PipesNext /\ UNCHANGED <<feedVars, regenVars>>

(* The two threads are scheduled, and the process gets on with its input   *)
(* while it runs; nothing obliges it to crash, and nobody to start regen.  *)
Fairness ==
  /\ WF_pipeVars(tool = "pipes" /\ Write /\ UNCHANGED <<feedVars, regenVars>>)
  /\ WF_pipeVars(tool = "pipes" /\ ChildStep /\ UNCHANGED <<feedVars, regenVars>>)
  /\ WF_pipeVars(tool = "pipes" /\ Main /\ UNCHANGED <<feedVars, regenVars>>)
Spec == Init /\ [][Next]_allVars /\ Fairness

(* However small the pipes and however many errors there are, the exchange *)
(* with sqlite3 ends, and if labels come of it then the errors of the      *)
(* whole script were read: neither side waits for the other forever, and a *)
(* process that dies early never leaves the rest of the script valid.      *)
ScriptIsAnswered ==
  tool = "pipes" ~>
    \/ main = "bailed" /\ child = "crashed"
    \/ main = "labelled" /\ AnswerIsWhole
=============================================================================
