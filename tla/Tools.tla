------------------------------- MODULE Tools -------------------------------
(***************************************************************************)
(* The programs around the benchmark, driven as in Feeding: the builders   *)
(* and the repair of the corpus, the mask of the contentious rules, the    *)
(* scan of the parsers' sources, and the scores and views of the site.     *)
(***************************************************************************)
EXTENDS Feeding, FiniteSets, SequencesExt

Text == INSTANCE CorpusText
Rules == INSTANCE Contentious
Source == INSTANCE FeatureScan
Site == INSTANCE Viewer
Ranking == INSTANCE Score WITH Attempted <- 10, DepthCeil <- 10

(* Texts are read token by token; some tools start behind a prologue.      *)
Texts == {"suite", "trigger", "tcl", "spark", "oracle", "plsql", "repair"}

(* Two words in a row would be one word, and a mark is a line of its own.  *)
Words == {"w", "v", "TRIGGER", "CASE", "BEGIN", "END", "KW", "DECLARE", "INSERT",
          "CREATE", "PROCEDURE", "DIR", "GO", "ELSE", "TRANSACTION"}
Marks == {"START", "STOP", "SLASH"}
MayFollow(x, before) ==
  /\ ~({x, before} \subseteq Words)
  /\ x \in Marks \cup {"DIR"} => before = "nl"
  /\ before \in Marks => x = "nl"

(* Code stands in functions and constants; impls and traits hold fns and   *)
(* constants, and only an open item can be closed.                         *)
Depth(lines) == Len(SelectSeq(lines, LAMBDA l : l.does = "open"))
                  - Len(SelectSeq(lines, LAMBDA l : l.does = "close"))
Innermost(lines) ==
  LET open == {i \in DOMAIN lines : \A k \in i..Len(lines) : Depth(SubSeq(lines, i, k)) > 0}
  IN  IF open = {} THEN "mod" ELSE lines[Max(open)].item
Stands(line, in) ==
  LET what == IF line.does = "open" THEN line.item ELSE "code"
  IN  CASE what \in {"mod", "impl", "trait"} -> in \in {"mod", "fn"}
        [] what = "fn"       -> in # "trait"
        [] what = "trait_fn" -> in = "trait"
        [] what = "code"     -> in \in {"fn", "trait_fn", "const"}
        [] OTHER             -> TRUE

(* A parser has one row for a dialect, and the order of the rows is of no  *)
(* matter, but that a snapshot holds the times in ascending order.         *)
Fits(t, read, x) ==
  /\ t \in Texts => MayFollow(x, IF read = <<>> THEN "nl" ELSE Last(read))
  /\ t = "scan" => IF x.does = "close" THEN Depth(read) > 0 ELSE Stands(x, Innermost(read))
  /\ t = "score" /\ read # <<>> =>
       LET r == Last(read) IN 3 * x.dialect + x.parser > 3 * r.dialect + r.parser
  /\ t = "table" =>
       \A r \in ToSet(read) : x.parser # r.parser /\ (x.median = -1 \/ x.median >= r.median)

-----------------------------------------------------------------------------
(* What the SQLite builder writes down is what its splitter reads back:    *)
(* from a script of the statements that are kept (and close their CASE and *)
(* BEGIN: an open one takes the next statements in) each is split off as   *)
(* it is; only the last statement of a script can be unbalanced, so        *)
(* is_balanced and split_sql agree on what a quote is; and the body of a   *)
(* TCL command is extracted again from a command around it.                *)
SuiteReadsBack ==
  /\ tool \in {"suite", "trigger"} =>
       LET out  == Text!SplitSql(input)
           kept == SelectSeq(Text!BuildSuite({}, {}, <<"KW", "{">> \o input \o <<"}">>),
                             LAMBDA s : LET e == Text!ScanSql(s)
                                        IN  e.case = 0 /\ e.block = 0)
       IN  /\ \A i \in 1..Len(out) - 1 : Text!Balanced(out[i])
           /\ Text!SplitSql(FlattenSeq([i \in DOMAIN kept |-> Append(kept[i], ";")]))
                = kept
  /\ tool = "tcl" =>
       \A b \in ToSet(Text!ExtractSqlBodies(input)) :
         Text!ExtractSqlBodies(<<"KW", " ", "{">> \o b \o <<"}">>) = <<b>>

(* The words of a script, and of some lines of it.                         *)
WordsOf(s) == SelectSeq(s, LAMBDA t : t \in Words)
CodeLines(marks) ==
  SelectSeq(Text!Lines(input), LAMBDA l : Text!Normalize(l) = <<>> \/
                                          Text!Normalize(l)[1] \notin marks)
Count(t, ss) == Cardinality({p \in {<<i, j>> : i \in DOMAIN ss, j \in 1..20} :
                               p[2] <= Len(ss[p[1]]) /\ ss[p[1]][p[2]] = t})

(* The Spark and Oracle splitters lose no code: without comments, the      *)
(* words of a Spark script are those of its statements, in order, and each *)
(* word of an Oracle script outside of directives is in a statement or a   *)
(* block. An inner terminator is kept only in a block, and what an         *)
(* anonymous block inserts is among the statements, too.                   *)
NothingIsLost ==
  tool \in {"spark", "oracle", "plsql"} /\ {"--", "/*"} \cap ToSet(input) = {} =>
    /\ tool = "spark" =>
         WordsOf(FlattenSeq(Text!SplitSpark(input)))
           = WordsOf(FlattenSeq(CodeLines(Marks)))
    /\ tool \in {"oracle", "plsql"} =>
         \A r \in {Text!SplitOracle(input)} :
             /\ \A t \in {"w", "INSERT"} :
                  Count(t, r.normal) + Count(t, r.special)
                    >= Count(t, CodeLines(Marks \cup {"DIR"}))
             /\ \A s \in ToSet(r.special) : s[1] \in {"BEGIN", "DECLARE"}
             /\ \A s \in ToSet(r.normal) :
                  (";" \in ToSet(s) /\ "q" \notin ToSet(s)) =>
                    s[1] = "CREATE" /\ "PROCEDURE" \in ToSet(s)
             /\ \A s \in ToSet(r.special) : Len(s) > 4 =>
                  (SubSeq(s, 1, 3) = <<"BEGIN", " ", "INSERT">> =>
                     \E n \in ToSet(r.normal) : n[1] = "INSERT")

(* Repairing a corpus twice is repairing it once, in every dialect: what   *)
(* repair_corpus --apply writes holds nothing it would still change.       *)
RepairIsIdempotent ==
  tool = "repair" =>
    \A d \in {"tsql", "multi", "mysql", "sqlite", "postgresql"} :
      LET once == Text!RepairFile(Text!Lines(input), d)
      IN  Text!RepairFile(once, d) = once

(* The mask hides literals and comments and nothing else, and so no rule   *)
(* can fire for what is in them: it is what a lexer that knows about       *)
(* double-quoted identifiers, too, blanks out. (mask does not: a quote or  *)
(* a comment opener inside of an identifier is taken for one.)             *)
Hidden(x) ==
  LET Step(s, i) ==
        CASE s.mode = "ident" -> [s EXCEPT !.mode = IF x[i] = "d" THEN "code" ELSE @,
                                           !.clash = @ \/ x[i] \in {"s", "--", "/*"}]
          [] s.mode \in {"s", "--", "/*"} ->
               [s EXCEPT !.at = @ \cup {i},
                         !.mode = IF <<@, x[i]>> \in {<<"s", "s">>, <<"--", "nl">>,
                                                     <<"/*", "*/">>} THEN "code" ELSE @]
          [] s.mode = "code" /\ x[i] \in {"s", "--", "/*"} ->
               [s EXCEPT !.mode = x[i],
                         !.at = @ \cup {i} \cup
                           IF x[i] = "s" /\ i > 1 /\ x[i - 1] = "x"
                              /\ (i > 2 => x[i - 2] \notin {"w", "x"}) THEN {i - 1} ELSE {}]
          [] s.mode = "code" /\ x[i] = "d" -> [s EXCEPT !.mode = "ident"]
          [] OTHER -> s
  IN  FoldLeft(Step, [mode |-> "code", at |-> {}, clash |-> FALSE], [i \in DOMAIN x |-> i])

Registry == << [kind |-> "structural", pattern |-> "", dialects |-> {"sqlite"}],
               [kind |-> "regex", pattern |-> "w", dialects |-> {"all"}] >>
MaskHidesLiterals ==
  tool \in {"mask", "list"} /\ ~Hidden(input).clash =>
    LET plain == [i \in DOMAIN input |-> IF i \in Hidden(input).at THEN " " ELSE input[i]]
    IN  /\ Rules!Mask(input) = Text!Normalize(plain)
        /\ \A d \in {"sqlite", "mysql"} :
             Rules!Classify(Registry, input, d) = Rules!Classify(Registry, plain, d)

(* The lines of the items that Leaves(_) names, with all that is in them.  *)
Close(lines) == lines \o [i \in 1..Depth(lines) |-> [does |-> "close"]]
LinesOf(lines, Leaves(_)) ==
  UNION {LET end == Min({k \in i..Len(lines) : Depth(SubSeq(lines, i, k)) = 0})
         IN  i..end : i \in {j \in DOMAIN lines : lines[j].does = "open" /\ Leaves(lines[j])}}
Without(lines, at) ==
  LET kept == SelectSeq([i \in DOMAIN lines |-> i], LAMBDA i : i \notin at)
  IN  [i \in DOMAIN kept |-> lines[kept[i]]]
SourceFile(lines, test) == [test_path |-> test, parses |-> TRUE, lines |-> lines]
Scanned(lines) ==
  Source!ScanSrc(<<SourceFile(lines, TRUE), SourceFile(lines, FALSE), SourceFile(lines, FALSE)>>)

(* The scan counts a line once or not at all, in whatever way items are    *)
(* nested: counts and lines of a crate are those of its source without the *)
(* items that are left out, which are mods, fns and impls under a cfg that *)
(* mentions test, not(test) included, and fns marked #[test]. Items of     *)
(* other kinds, traits and constants, are counted even when a cfg keeps    *)
(* them for the tests, though the header of scan.rs (lines 6-9) says that  *)
(* all such items are skipped. And the policy of a crate does not depend   *)
(* on the order in which its tables and attributes stand: a lint is banned *)
(* if any place bans it.                                                   *)
FeaturesAreOfTheLibrary ==
  /\ tool = "scan" =>
       LET lines == Close(input)
           Left(l) == \/ l.item = "fn" /\ l.attr # "none"
                      \/ l.item \in {"mod", "impl"} /\ l.attr \in {"cfg_test", "cfg_not_test"}
           kept  == Without(lines, LinesOf(lines, Left))
           whole == Scanned(lines)
           pure  == Source!ScanSrc(<<SourceFile(kept, FALSE)>>)
       IN  /\ whole.code_loc = 2 * Len(kept) /\ pure.code_loc = Len(kept)
           /\ \A c \in Source!Counted : whole.counts[c] = 2 * pure.counts[c]
  /\ tool = "lints" =>
       \A l \in Source!Relevant :
         /\ Source!IsBanned(Source!Collect(input), l)
              <=> \E e \in ToSet(input) : e.lint = l /\ e.level \in {"deny", "forbid"}
         /\ Source!Collect(Reverse(input)) = Source!Collect(input)

(* The score is a contest without perverse incentives: a parser that does  *)
(* better in one measurement never scores less for it, and no competitor   *)
(* more, although speed and memory are relative to the field, a footprint  *)
(* in which all are alike drops out of its pair, and what was not measured *)
(* out of the blend: the score lies between the least and the greatest     *)
(* part that applies. Nor does it score less for one more good practice,   *)
(* fewer panics in its source or a deeper nesting, with two exceptions:    *)
(* giving up the last unsafe code or the last dependency takes the         *)
(* sanitizers or the audits out of its health. Ranks are those of a        *)
(* competition, and a better rank or score has no duller badge.            *)
Practices == {"maintained", "tests", "benches", "license_ok", "crates_io", "cargo_mutants",
              "sanitizers", "cargo_audit", "cargo_deny"}
Plain == [crash_depth |-> -1, scanned |-> TRUE, forbids_unsafe |-> TRUE, unsafe_total |-> 0,
          bans |-> {"panic"}, prone |-> 0, code_loc |-> 1000, direct_deps |-> 0,
          maintained |-> 1, fuzz |-> "Yes", tests |-> 1, benches |-> 0, license_ok |-> 1,
          crates_io |-> 1, cargo_mutants |-> 0, cadence |-> "Quarterly", contributors |-> 12,
          sanitizers |-> 0, cargo_audit |-> 0, cargo_deny |-> 0]
Facts == <<Plain,
           [Plain EXCEPT !.crash_depth = 4, !.forbids_unsafe = FALSE, !.unsafe_total = 9,
              !.bans = {}, !.prone = 30, !.fuzz = "Upstream", !.contributors = 3,
              !.cadence = "Dormant", !.sanitizers = 1, !.direct_deps = 2, !.cargo_audit = 1],
           [Plain EXCEPT !.crash_depth = -2, !.scanned = FALSE, !.maintained = 0, !.fuzz = "No",
              !.bans = {}, !.prone = 7, !.contributors = 1, !.cadence = "Multiyear"]>>
Lower(value, values) == {value} \cup {v \in values : v < value}
Rates == {"recall_excl", "recall", "accept", "roundtrip"}
Better(r) ==
  {[r EXCEPT ![c] = 100] : c \in {e \in Rates : r[e] # -1}}
    \cup (IF r.fp > 0 THEN {[r EXCEPT !.fp = 0]} ELSE {})
    \cup {[r EXCEPT !.median = v] : v \in Lower(r.median, {1, 8})}
    \cup {[r EXCEPT !.peak = v] : v \in Lower(r.peak, {0, 8})}
    \cup {[r EXCEPT !.retained = v] : v \in Lower(r.retained, {0, 8})}
    \cup {[r EXCEPT !.panicked = 0]}
BetterFacts(f) ==
  {[f EXCEPT ![c] = 1] : c \in Practices}
    \cup {[f EXCEPT !.fuzz = v] : v \in IF f.fuzz = "No" THEN {"Upstream", "Yes"} ELSE {"Yes"}}
    \cup {[f EXCEPT !.cadence = "Monthly"], [f EXCEPT !.contributors = @ + 1],
          [f EXCEPT !.prone = 0], [f EXCEPT !.bans = @ \cup {"expect_used"}]}
    \cup {[f EXCEPT !.unsafe_total = v] : v \in Lower(f.unsafe_total, {1})}
    \cup {[f EXCEPT !.crash_depth = v] : v \in IF f.crash_depth >= 0
                                              THEN {-1, f.crash_depth + 1} ELSE {}}
ScoresAreFair ==
  tool = "score" =>
    LET Score(b, p, f) == Ranking!ParserScore(b, p, f)
        Scores(b) == [p \in DOMAIN Facts |-> Score(b, p, Facts[p])]
        mine == Scores(input)
        best == SetToSortSeq(DOMAIN Facts, LAMBDA a, b : mine[a] > mine[b])
    IN  /\ \A p \in DOMAIN Facts :
             /\ LET parts == {Ranking!CorrectnessScore(input, p), Ranking!SpeedScore(input, p),
                              Ranking!MemoryScore(input, p), Ranking!HealthScore(Facts[p]),
                              Ranking!RobustnessScore(input, p, Facts[p])} \ {-1}
                IN  parts \subseteq 0..1000 /\ mine[p] \in Min(parts)..Max(parts)
             /\ Ranking!Rank(mine, p) \in 1..Cardinality(DOMAIN Facts)
             /\ Ranking!Rank(mine, best[1]) = 1
             /\ \A d \in 1..2 : LET s == Ranking!DialectScore(input, p, d, Facts[p])
                                 IN  s \in -1..1000 /\ (s = -1 <=> \A r \in ToSet(input) :
                                                          <<r.parser, r.dialect>> # <<p, d>>)
             /\ \A f \in BetterFacts(Facts[p]) : Score(input, p, f) >= mine[p]
        /\ \A p, q \in DOMAIN Facts : mine[p] >= mine[q] =>
             /\ Ranking!ScoreColor(mine[p]) <= Ranking!ScoreColor(mine[q])
             /\ Ranking!RankColor(Ranking!Rank(mine, p), 3)
                  <= Ranking!RankColor(Ranking!Rank(mine, q), 3)
        /\ \A i \in DOMAIN input : \A x \in Better(input[i]) :
             LET then == Scores([input EXCEPT ![i] = x])
             IN  \A p \in DOMAIN Facts : IF p = x.parser THEN then[p] >= mine[p]
                                          ELSE then[p] <= mine[p]

(* A snapshot, of a parser one row: how many of 4 statements it accepted,  *)
(* and what was measured of it. A dialect is graded against its reference, *)
(* or has one that calls nothing valid, or has none.                       *)
DialectOf(kind) ==
  LET timed  == SelectSeq(input, LAMBDA r : r.median # -1)
      sorted == SortSeq(input, LAMBDA a, b : a.parser < b.parser)
      graded(r, k) == IF kind = k THEN 25 * r.accepted ELSE -1
  IN  [has_reference |-> kind # "provenance",
       perf |-> [i \in DOMAIN timed |->
                  [parser |-> timed[i].parser, n_total |-> 4,
                   n_accepted |-> timed[i].accepted, median |-> timed[i].median]],
       correctness |-> [i \in DOMAIN sorted |->
                         [parser |-> sorted[i].parser, recall |-> graded(sorted[i], "reference"),
                          accept |-> graded(sorted[i], "provenance")]],
       memory |-> [i \in DOMAIN sorted |-> [parser |-> sorted[i].parser,
                                            peak |-> 9 - sorted[i].accepted]],
       batch |-> SelectSeq([i \in DOMAIN sorted |-> [parser |-> sorted[i].parser,
                                                      accuracy |-> sorted[i].batch]],
                           LAMBDA b : b.accuracy # 0),
       coverage |-> Site!Names(sorted)]

(* The views of a snapshot agree. The missed share in a chart's legend is  *)
(* the one in the table; the tables list the parsers in one order, each    *)
(* once. Sorting a table by clicks loses no row, keeps what is missing at  *)
(* the bottom either way, and a second click reverses exactly the rows     *)
(* that differ.                                                            *)
TablesAgree ==
  tool = "table" =>
    \A kind \in {"reference", "unlabelled", "provenance"} :
      LET d == DialectOf(kind)
          perf == Site!PerfTable(d)
          corr == Site!CorrectnessTable(d)
          mem  == Site!MemoryTable(d)
          heads(t) == [i \in DOMAIN t |-> t[i].head]
      IN  /\ \A p \in ToSet(d.perf) : Site!ChartMissed(d, p) = Site!MissedVal(d, p)
          /\ IsInjective(heads(corr)) /\ Len(corr) = Len(input) /\ heads(mem) = heads(corr)
          /\ IsPrefix(heads(perf), heads(corr))
          /\ \A t \in {perf, corr, mem}, col \in 0..3 : \A asc \in BOOLEAN :
               col <= (IF t = <<>> THEN 0 ELSE Len(t[1].cells)) =>
                 LET sort  == Site!Click(IF asc THEN Site!Unsorted
                                         ELSE Site!Click(Site!Unsorted, col), col)
                     drawn == Site!SortTable(t, sort)
                     again == Site!SortTable(t, Site!Click(sort, col))
                     at(r) == CHOOSE k \in DOMAIN again : again[k] = r
                     key(i) == IF col = 0 THEN drawn[i].head ELSE drawn[i].cells[col]
                 IN  /\ sort.asc = asc
                     /\ ToSet(drawn) = ToSet(t) /\ Len(drawn) = Len(t)
                     /\ ToSet(again) = ToSet(t) /\ Len(again) = Len(t)
                     /\ \A i, j \in DOMAIN drawn : i < j =>
                          /\ key(i) = -1 => key(j) = -1
                          /\ -1 \notin {key(i), key(j)} =>
                               (at(drawn[i]) > at(drawn[j]) <=> key(i) # key(j))
                          /\ key(j) = -1 => at(drawn[i]) < at(drawn[j])

(* So do those of a history, whichever release is picked, though the pick  *)
(* may be left over from a parser with more releases: a trend has a point  *)
(* for every release that measured the dialect, the point of the release   *)
(* that is picked is the median of its box and the cell of its table, and  *)
(* the overview lies between the dialects. Trends and boxes are on their   *)
(* axes, and so is a distribution from its least value to its p99, but for *)
(* values below one where an axis is logarithmic. (The rest of the curve,  *)
(* up to the largest sample, may run off its axis.)                        *)
HistoryAgrees ==
  tool = "history" /\ input # <<>> =>
    LET time == Site!TimeSeries(input)
        good == Site!RecallSeries(input)
        wide == Site!CoverageSeries(input)
        over == Site!FamilyPoints(input)
        values(series) == UNION {{pt[2] : pt \in ToSet(series[d])} : d \in DOMAIN series}
        within(axis, scale, vs) == axis[1] < axis[2] /\
                                   \A v \in vs : scale * v \in axis[1]..axis[2]
        real(vs) == {v \in vs : v >= 1}
    IN  /\ \A selected \in {Site!None} \cup 1..5 :
             LET sel == Site!Sel(selected, Len(input))
                 box == Site!SelectedBoxes(input, selected)
                 row == Site!SelectedRows(input, selected)
                 cell(series, d) == {pt[2] : pt \in {q \in ToSet(series[d]) : q[1] = sel}}
             IN  /\ sel \in DOMAIN input /\ (selected = Site!None => sel = Len(input))
                 /\ \A d \in DOMAIN time : cell(time, d) = {box[e] : e \in DOMAIN box \cap {d}}
                 /\ \A d \in DOMAIN row \cap DOMAIN good : cell(good, d) = {row[d]} \ {-1}
        /\ \A d \in DOMAIN time : \A i, j \in DOMAIN time[d] :
             i < j => time[d][i][1] < time[d][j][1]
        /\ \A i \in DOMAIN input :
             LET of(What(_)) == {What(input[i][d]) : d \in DOMAIN input[i]} \ {-1}
                 recalls == of(LAMBDA v : v.recall)
                 medians == of(LAMBDA v : v.median)
             IN  /\ over[i].recall \in IF recalls = {} THEN {-1} ELSE Min(recalls)..Max(recalls)
                 /\ over[i].speed \in IF medians = {} THEN {-1} ELSE medians
        /\ LET v == values(time)
           IN  v # {} => /\ within(Site!TrendAxis(v), 10, real(v))
                         /\ \A lines \in SUBSET {e \in v \X v : e[1] <= e[2]} :
                              LET lows  == {e[1] : e \in lines}
                                  highs == {e[2] : e \in lines}
                                  drawn == real(lows \cup highs)
                              IN  lines # {} => /\ within(Site!BoxAxis(lows, highs), 10, drawn)
                                                /\ within(Site!EcdfAxis(lows, highs), 10, drawn)
        /\ values(good) # {} => within(Site!PctAxis(values(good)), 1, values(good))
        /\ values(wide) # {} => within(Site!CountAxis(values(wide)), 100, values(wide))
        /\ \A n \in 1..20 : LET g == Site!Glyphs(n)
                             IN  /\ ToSet(g) \subseteq 0..(n - 1)
                                 /\ \A j \in 2..Len(g) : g[j - 1] < g[j]

(* What the site shows of one run, it shows alike everywhere: in tables,   *)
(* legends, trends and overviews.                                          *)
ViewsAgree == TablesAgree /\ HistoryAgrees
=============================================================================
