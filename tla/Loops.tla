------------------------------- MODULE Loops --------------------------------
(***************************************************************************)
(* The two loops that the grading and the measurements are made of: what   *)
(* is at some of the positions is pushed to a list, and numbers are summed *)
(* up.                                                                     *)
(***************************************************************************)
EXTENDS Integers, Sequences, SequencesExt

Kept(s, at) ==
  LET Push(out, i) == IF i \in at THEN Append(out, s[i]) ELSE out
  IN  FoldLeft(Push, <<>>, [i \in DOMAIN s |-> i])
SumOf(s) == FoldLeft(LAMBDA n, x : n + x, 0, s)
=============================================================================
