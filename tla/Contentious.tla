---------------------------- MODULE Contentious ----------------------------
(***************************************************************************)
(* src/contentious.rs: the masked form a statement is matched in, and the  *)
(* first rule that fires. A statement is a sequence of tokens: "s" is the  *)
(* single quote (doubled, it reads as a literal closed and one opened),    *)
(* "d" the double quote, "x" the letter, "w" any other part of a word.     *)
(***************************************************************************)
EXTENDS Integers, Sequences, SequencesExt

LOCAL Text == INSTANCE CorpusText

\* Mutant: the word before the x is not looked at.
StartsBlobAnywhere(x, i) == x[i] = "x" /\ i < Len(x) /\ x[i + 1] = "s"

(* mask: literals and comments become a space. "mode" is where the scan    *)
(* is. An x before a quote starts a blob unless a word character precedes. *)
StartsBlob(x, i) == /\ x[i] = "x" /\ i < Len(x) /\ x[i + 1] = "s"
                    /\ i = 1 \/ x[i - 1] \notin {"w", "x"}
Blank(s, mode) == [s EXCEPT !.out = Append(@, " "), !.mode = mode]
MaskStep(x, s, i) ==
  CASE s.mode = "line"    -> IF x[i] = "nl" THEN [out |-> Append(s.out, " "), mode |-> "code"]
                             ELSE s
    [] s.mode = "block"   -> IF x[i] = "*/" THEN [s EXCEPT !.mode = "code"] ELSE s
    [] s.mode = "blob"    -> [s EXCEPT !.mode = "literal"]
    [] s.mode = "literal" -> IF x[i] = "s" THEN [s EXCEPT !.mode = "code"] ELSE s
    [] s.mode = "code" ->
         CASE x[i] = "--" -> Blank(s, "line")
           [] x[i] = "/*" -> Blank(s, "block")
           [] x[i] = "s"  -> Blank(s, "literal")
           [] StartsBlob(x, i) -> Blank(s, "blob")
           [] OTHER -> [s EXCEPT !.out = Append(@, x[i])]
Mask(x) ==
  LET Step(s, i) == MaskStep(x, s, i)
  IN  Text!Normalize(FoldLeft(Step, [out |-> <<>>, mode |-> "code"],
                              [i \in DOMAIN x |-> i]).out)

(* has_duplicate_identifier: an identifier named twice in a list, quotes   *)
(* and case aside.                                                         *)
Items(l) == LET Cut(is, t) == IF t = "," THEN Append(is, <<>>)
                              ELSE [is EXCEPT ![Len(is)] = Append(@, t)]
            IN  FoldLeft(Cut, << <<>> >>, l)
Bare(item) == LET p == Text!Normalize(item)
                  inner == {i \in DOMAIN p : p[i] # "d"}
              IN  IF inner = {} THEN <<>> ELSE SubSeq(p, Min(inner), Max(inner))
HasDuplicateIdentifier(l) ==
  \E i, j \in DOMAIN Items(l) :
    i < j /\ Bare(Items(l)[i]) = Bare(Items(l)[j]) /\ Bare(Items(l)[i]) # <<>>

(* duplicate_columns: in the list that follows USING (or INSERT INTO t, or *)
(* SET) in the masked form, up to the first closing parenthesis.           *)
DuplicateColumns(x) ==
  LET m == Mask(x)
  IN  \E i, j \in DOMAIN m :
        /\ i < j /\ m[i] = "using" /\ m[j] = ")"
        /\ \E o \in {i + 1, i + 2} :
             /\ o < j /\ m[o] = "(" /\ (o = i + 2 => m[i + 1] = " ")
             /\ \A k \in o + 1..j - 1 : m[k] # ")"
             /\ HasDuplicateIdentifier(SubSeq(m, o + 1, j - 1))

(* is_match, applies_to and classify: the first rule of the registry that  *)
(* is allowed in the dialect and fires. A regex rule is a word to look for *)
(* in the masked form.                                                     *)
IsMatch(rule, x) ==
  IF rule.kind = "regex" THEN rule.pattern \in ToSet(Mask(x)) ELSE DuplicateColumns(x)
AppliesTo(rule, dialect) == rule.dialects \cap {"all", dialect} # {}
Classify(rules, x, dialect) ==
  LET fires == {i \in DOMAIN rules : AppliesTo(rules[i], dialect) /\ IsMatch(rules[i], x)}
  IN  IF fires = {} THEN 0 ELSE CHOOSE i \in fires : \A j \in fires : i <= j
=============================================================================
