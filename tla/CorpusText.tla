----------------------------- MODULE CorpusText -----------------------------
(***************************************************************************)
(* The builders of the corpus in src/bin: text in, statements out, one per *)
(* line. A text is a sequence of tokens: "q" stands for each of the quotes *)
(* that are closed by their own character and escaped by doubling it (a    *)
(* doubled quote reads as one closed and one opened), "[" and "]" for the  *)
(* bracket quotes, "--", "/*" and "*/" for comments, " " and "nl" for      *)
(* white space; every other token is a word or a character of its own.     *)
(***************************************************************************)
EXTENDS Integers, Sequences, SequencesExt

Openers == {"q", "["}
Closer(t) == IF t = "[" THEN "]" ELSE t
White == {" ", "nl"}

(* split_whitespace().join(" "): runs of white space become one space, and *)
(* none is left at either end.                                             *)
PutSpace(b) == IF b = <<>> \/ Last(b) = " " THEN b ELSE Append(b, " ")
Collapse(b, t) == IF t \in White THEN PutSpace(b) ELSE Append(b, t)
Normalize(s) ==
  LET b == FoldLeft(Collapse, <<>>, s)
  IN  IF b # <<>> /\ Last(b) = " " THEN Front(b) ELSE b

(* Append a statement unless it is blank.                                  *)
Push(out, buf) == LET n == Normalize(buf)
                  IN  IF n = <<>> THEN out ELSE Append(out, n)

(* The lines of a text.                                                    *)
LineStep(ls, t) == IF t = "nl" THEN Append(ls, <<>>)
                   ELSE [ls EXCEPT ![Len(ls)] = Append(@, t)]
Lines(x) == FoldLeft(LineStep, << <<>> >>, x)

(* Drop what was seen before, in this suite or in the files seeded.        *)
Unseen(kept, s) == IF s \in ToSet(kept) THEN kept ELSE Append(kept, s)
Dedup(seen, stmts) ==
  SelectSeq(FoldLeft(Unseen, <<>>, stmts), LAMBDA s : s \notin seen)

-----------------------------------------------------------------------------
(* build_sqlite_suite: split_sql. "mode" is "code", "line" or "block" (a   *)
(* comment), or the opener of the quote the text is in. A word counts as   *)
(* soon as it is read: the code settles it at the next character, before   *)
(* it looks at a terminator.                                               *)
SplitStart == [out |-> <<>>, buf |-> <<>>, mode |-> "code",
               case |-> 0, block |-> 0, trigger |-> FALSE]

Classify(s, t) ==
  CASE t = "TRIGGER" -> [s EXCEPT !.trigger = TRUE]
    [] t = "CASE" -> [s EXCEPT !.case = @ + 1]
    [] t = "END" /\ s.case > 0 -> [s EXCEPT !.case = @ - 1]
    [] t = "END" /\ s.case = 0 /\ s.block > 0 -> [s EXCEPT !.block = @ - 1]
    [] t = "BEGIN" /\ s.trigger -> [s EXCEPT !.block = @ + 1]
    [] OTHER -> s

\* Mutant: the depths and the trigger flag survive the statement.
EndStatementKeepsTrigger(s) == [s EXCEPT !.out = Push(s.out, s.buf), !.buf = <<>>]

EndStatement(s) == [SplitStart EXCEPT !.out = Push(s.out, s.buf)]

SplitStep(s, t) ==
  CASE s.mode = "line" /\ t # "nl" -> s
    [] s.mode = "line" /\ t = "nl" -> [s EXCEPT !.mode = "code"]
    [] s.mode = "block" -> IF t = "*/" THEN [s EXCEPT !.mode = "code"] ELSE s
    [] s.mode \in Openers ->
         [s EXCEPT !.buf = Append(@, t),
                   !.mode = IF t = Closer(@) THEN "code" ELSE @]
    [] s.mode = "code" ->
         CASE t = "--" -> [s EXCEPT !.mode = "line", !.buf = PutSpace(@)]
           [] t = "/*" -> [s EXCEPT !.mode = "block", !.buf = PutSpace(@)]
           [] t \in Openers -> [s EXCEPT !.mode = t, !.buf = Append(@, t)]
           [] t = ";" /\ s.case = 0 /\ s.block = 0 -> EndStatement(s)
           [] t \in White -> [s EXCEPT !.buf = PutSpace(@)]
           [] OTHER -> Classify([s EXCEPT !.buf = Append(@, t)], t)

ScanSql(x) == FoldLeft(SplitStep, SplitStart, x)
SplitSql(x) == EndStatement(ScanSql(x)).out

(* is_balanced, the second lexer of the same file.                         *)
BalanceStep(m, t) ==
  CASE m = "done" -> "done"
    [] m = "code" /\ t \in Openers -> t
    [] m = "code" /\ t = "--" -> "done"
    [] m = "code" /\ t = "/*" -> "block"
    [] m = "code" -> "code"
    [] m = "block" -> IF t = "*/" THEN "code" ELSE "block"
    [] OTHER -> IF t = Closer(m) THEN "code" ELSE m
Balanced(s) == FoldLeft(BalanceStep, "code", s) \in {"code", "done"}

(* matching_brace: the place behind the brace that closes the one at o, or *)
(* 0. A backslash takes the next byte out of the count.                    *)
Escaped(x, o) == LET e[i \in Nat] == i > o /\ x[i - 1] = "\\" /\ ~e[i - 1]
                 IN  {i \in o..Len(x) : e[i]}
MatchingBrace(x, o) ==
  LET live == {i \in o..Len(x) : x[i] \in {"{", "}"}} \ Escaped(x, o)
      Count(b, e) == Cardinality({i \in live : i <= e /\ x[i] = b})
      ends == {e \in live : Count("{", e) = Count("}", e)}
  IN  IF ends = {} THEN 0 ELSE 1 + CHOOSE e \in ends : \A f \in ends : e <= f

(* extract_sql_bodies: for each keyword the brace group that opens on its  *)
(* logical line, unless a double quote comes first; a group taken is       *)
(* skipped as a whole, a keyword without one is only stepped over.         *)
BodyOpen(x, i) ==
  LET stops == {j \in i..Len(x) : \/ x[j] \in {"{", "\""}
                                  \/ x[j] = "nl" /\ x[j - 1] # "\\"}
      first == CHOOSE j \in stops : \A k \in stops : j <= k
  IN  IF stops # {} /\ x[first] = "{" THEN first ELSE 0
ExtractSqlBodies(x) ==
  LET from[i \in 1..Len(x) + 1] ==
        IF i = Len(x) + 1 THEN <<>>
        ELSE LET o == IF x[i] = "KW" THEN BodyOpen(x, i + 1) ELSE 0
                 e == IF o = 0 THEN 0 ELSE MatchingBrace(x, o)
             IN  IF e = 0 THEN from[i + 1]
                 ELSE <<SubSeq(x, o + 1, e - 2)>> \o from[e]
  IN  from[1]

(* main: the statements of a file that make it into the suite.             *)
BuildSuite(seen, masked, x) ==
  Dedup(seen, SelectSeq(FlattenSeq([i \in DOMAIN ExtractSqlBodies(x) |->
                                      SplitSql(ExtractSqlBodies(x)[i])]),
                        LAMBDA s : Balanced(s) /\ s \notin masked))

-----------------------------------------------------------------------------
(* build_proc_suites. Its lexers work line by line: a quote or a block     *)
(* comment left open ends with its line, and a comment leaves no space.    *)
(* "skip" is the rest of a line that is dropped.                           *)
Lex(s, t) ==
  CASE s.mode = "skip" -> s
    [] s.mode = "block" -> IF t = "*/" THEN [s EXCEPT !.mode = "code"] ELSE s
    [] OTHER -> [s EXCEPT !.buf = Append(@, t),
                          !.mode = IF t = Closer(@) THEN "code" ELSE @]
EndLine(s) == [s EXCEPT !.buf = Append(@, " "), !.mode = "code", !.bol = TRUE]

(* split_spark and strip_line_into. START and STOP are delimiter lines.    *)
SparkStart == [out |-> <<>>, buf |-> <<>>, mode |-> "code", bol |-> TRUE,
               region |-> FALSE]
Flush(s) == [s EXCEPT !.out = Push(@, s.buf), !.buf = <<>>]
SparkCode(s, t) ==
  CASE t = "START" -> [s EXCEPT !.mode = "skip", !.region = @ \/ s.bol]
    [] t = "STOP" /\ s.bol -> [Flush(s) EXCEPT !.mode = "skip", !.region = FALSE]
    [] t = "STOP" /\ ~s.bol -> [s EXCEPT !.mode = "skip"]
    [] t = "--" -> [s EXCEPT !.mode = "skip"]
    [] t = "/*" -> [s EXCEPT !.mode = "block", !.bol = FALSE]
    [] t = ";" /\ ~s.region -> [Flush(s) EXCEPT !.bol = FALSE]
    [] OTHER -> [s EXCEPT !.buf = Append(@, t), !.bol = @ /\ t = " ",
                          !.mode = IF t \in Openers THEN t ELSE @]
SparkStep(s, t) == CASE t = "nl" -> EndLine(s)
                     [] t # "nl" /\ s.mode = "code" -> SparkCode(s, t)
                     [] OTHER -> Lex(s, t)
SplitSpark(x) == Flush(FoldLeft(SparkStep, SparkStart, x)).out

(* split_semicolons and harvest_dml: the pieces of a block that are DML.   *)
PieceStep(s, t) ==
  CASE s.mode # "code" -> Lex(s, t)
    [] s.mode = "code" /\ t = ";" ->
         [s EXCEPT !.out = Append(@, s.buf), !.buf = <<>>]
    [] OTHER -> [s EXCEPT !.buf = Append(@, t),
                          !.mode = IF t \in Openers THEN t ELSE @]
SplitSemicolons(x) == LET s == FoldLeft(PieceStep, SparkStart, x)
                      IN  Append(s.out, s.buf)

\* Mutant: what follows BEGIN in a piece is not looked at.
UnwrappedNot(p) == p

Unwrapped(p) == IF Len(p) > 2 /\ p[1] = "BEGIN" /\ p[2] = " "
                THEN SubSeq(p, 3, Len(p)) ELSE p
HarvestDml(buf) ==
  LET pieces == SplitSemicolons(buf)
  IN  SelectSeq([i \in DOMAIN pieces |-> Unwrapped(Normalize(pieces[i]))],
                LAMBDA p : p # <<>> /\ p[1] = "INSERT")

(* split_oracle. SLASH is a line with only a slash; DIR is the first word  *)
(* of a client directive; PROCEDURE stands for the words that make a       *)
(* CREATE a block.                                                         *)
OracleStart == [normal |-> <<>>, special |-> <<>>, buf |-> <<>>,
                mode |-> "code", bol |-> TRUE, block |-> FALSE, anon |-> FALSE,
                started |-> FALSE]
OracleWords == {"w", "DIR", "DECLARE", "BEGIN", "END", "CREATE", "PROCEDURE",
                "INSERT"}
EndBlock(s) ==
  [OracleStart EXCEPT
     !.normal = IF s.anon THEN s.normal \o HarvestDml(s.buf)
                ELSE Push(s.normal, s.buf),
     !.special = IF s.anon THEN Push(s.special, s.buf) ELSE s.special]
Word(s, t) ==
  LET anon == ~s.started /\ t \in {"DECLARE", "BEGIN"}
      body == t = "PROCEDURE" /\ IsPrefix(<<"CREATE">>, Normalize(s.buf))
  IN  [s EXCEPT !.buf = Append(@, t), !.started = TRUE, !.bol = FALSE,
                !.anon = @ \/ anon, !.block = @ \/ anon \/ body]
OracleCode(s, t) ==
  CASE t = "SLASH" -> [EndBlock(s) EXCEPT !.mode = "skip"]
    [] t = "DIR" /\ s.bol /\ Normalize(s.buf) = <<>> -> [s EXCEPT !.mode = "skip"]
    [] t = "--" -> [s EXCEPT !.mode = "skip"]
    [] t = "/*" -> [s EXCEPT !.mode = "block", !.bol = FALSE]
    [] t = ";" /\ ~s.block ->
         [s EXCEPT !.normal = Push(@, s.buf), !.buf = <<>>, !.started = FALSE,
                   !.bol = FALSE]
    [] t \in Openers -> [s EXCEPT !.buf = Append(@, t), !.mode = t,
                                  !.started = TRUE, !.bol = FALSE]
    [] t \in OracleWords /\ ~(t = "DIR" /\ s.bol /\ Normalize(s.buf) = <<>>) ->
         Word(s, t)
    [] OTHER -> [s EXCEPT !.buf = Append(@, t), !.bol = @ /\ t = " "]
OracleStep(s, t) == CASE t = "nl" -> EndLine(s)
                      [] t # "nl" /\ s.mode = "code" -> OracleCode(s, t)
                      [] OTHER -> Lex(s, t)
SplitOracle(x) ==
  LET e == EndBlock(FoldLeft(OracleStep, OracleStart, x))
  IN  [normal |-> e.normal, special |-> e.special]

-----------------------------------------------------------------------------
(* repair_corpus: split_go. GO counts between white space or line ends,    *)
(* outside of quotes.                                                      *)
IsGo(x, i) == /\ x[i] = "GO"
              /\ i = 1 \/ x[i - 1] \in White
              /\ i = Len(x) \/ x[i + 1] \in White
SplitGo(x) ==
  LET Go(s, i) ==
        CASE s.mode # "code" -> Lex(s, x[i])
          [] s.mode = "code" /\ IsGo(x, i) ->
               [s EXCEPT !.out = Append(@, s.buf), !.buf = <<>>]
          [] OTHER -> [s EXCEPT !.buf = Append(@, x[i]),
                                !.mode = IF x[i] \in Openers THEN x[i] ELSE @]
      s == FoldLeft(Go, SparkStart, [i \in DOMAIN x |-> i])
  IN  Append(s.out, s.buf)

(* is_procedural_fragment, of a normalised piece. ELSE stands for the      *)
(* clause words; the block closers of two words are END with one token.    *)
Bare(n) == LET ends == {i \in 0..Len(n) : i = 0 \/ n[i] # ";"}
           IN  Normalize(SubSeq(n, 1, Max(ends)))
Fragment(n, d) ==
  LET bare == Bare(n)
      word == SubSeq(bare, 3, Len(bare))
  IN  IF bare = <<"END">> \/ (IsPrefix(<<"END", " ">>, bare) /\ " " \notin ToSet(word))
      THEN d # "sqlite" /\ word # <<"TRANSACTION">>
      ELSE \/ IsPrefix(<<"ELSE", " ">>, n)
           \/ d # "tsql" /\ IsPrefix(<<"PRINT(">>, n)
           \/ /\ d \in {"mysql", "multi"}
              /\ n = <<"//">> \/ IsSuffix(<<" ", "//">>, n)
                              \/ \E i \in 1..Len(n) - 2 :
                                   SubSeq(n, i, i + 2) = <<" ", "//", " ">>

\* Mutant: lines are judged before they are cut at GO.
RepairFileUncut(lines, d) ==
  LET normal == [i \in DOMAIN lines |-> Normalize(lines[i])]
      whole  == SelectSeq(normal, LAMBDA n : n # <<>> /\ ~Fragment(n, d))
  IN  Dedup({}, FlattenSeq([i \in DOMAIN whole |->
        IF d \in {"tsql", "multi"}
        THEN LET pieces == SplitGo(whole[i]) IN [j \in DOMAIN pieces |-> Normalize(pieces[j])]
        ELSE <<whole[i]>>]))

(* repair_file: the lines a corpus file is left with.                      *)
RepairFile(lines, d) ==
  LET pieces == FlattenSeq([i \in DOMAIN lines |->
                   IF d \in {"tsql", "multi"} THEN SplitGo(lines[i]) ELSE <<lines[i]>>])
      normal == [i \in DOMAIN pieces |-> Normalize(pieces[i])]
  IN  Dedup({}, SelectSeq(normal, LAMBDA n : n # <<>> /\ ~Fragment(n, d)))
=============================================================================
