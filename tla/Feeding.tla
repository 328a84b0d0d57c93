------------------------------ MODULE Feeding ------------------------------
(***************************************************************************)
(* How the parts that keep no state between calls are driven: each reads a *)
(* sequence and computes from it. A behaviour picks one of them and feeds  *)
(* it its input element by element, as a file is written or samples are    *)
(* taken, and the properties are about what it computes from every input   *)
(* so far.                                                                 *)
(***************************************************************************)
EXTENDS Integers, Sequences

CONSTANTS
  Alphabet,   (* the elements each part may be fed                         *)
  Bound,      (* how many of them at most                                  *)
  Openings,   (* the inputs it may start from                              *)
  Admits(_, _, _)   (* whether a part's input may go on with an element     *)

ASSUME FeedingAssumption ==
  /\ DOMAIN Bound = DOMAIN Alphabet
  /\ DOMAIN Openings = DOMAIN Alphabet

VARIABLES tool, input

feedVars == <<tool, input>>

FeedInit == \E t \in DOMAIN Alphabet : tool = t /\ input \in Openings[t]

Feed == /\ Len(input) < Bound[tool]
        /\ \E x \in Alphabet[tool] : /\ Admits(tool, input, x)
                                    /\ input' = Append(input, x)
        /\ UNCHANGED tool
=============================================================================
