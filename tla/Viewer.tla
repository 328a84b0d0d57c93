------------------------------- MODULE Viewer -------------------------------
(***************************************************************************)
(* What the site shows of a snapshot (web/src/components.rs) and the axes  *)
(* of its charts (viz/src/chart.rs). Percentages, times and sizes are      *)
(* integers, None is -1, and a parser or dialect is a number, its name.    *)
(* A dialect of a snapshot is a record with has_reference and, one row for *)
(* each parser, perf [parser, n_total, n_accepted, median], correctness    *)
(* [parser, recall, accept], memory [parser, peak], batch [parser,         *)
(* accuracy], and coverage, a sequence of parsers.                         *)
(***************************************************************************)
EXTENDS Integers, Sequences, FiniteSets
LOCAL INSTANCE SequencesExt
LOCAL INSTANCE FiniteSetsExt

None == -1
Of(rows, p) == SelectSeq(rows, LAMBDA r : r.parser = p)
Names(rows) == [i \in DOMAIN rows |-> rows[i].parser]
MinOf(a, b) == IF a < b THEN a ELSE b
MaxOf(a, b) == IF a > b THEN a ELSE b

(* The share of expected statements a parser missed: in the table of the   *)
(* viewer, and under its name in the legend of a chart.                    *)
RatioPct(n, base) == IF base = 0 THEN None ELSE (100 * n) \div base
MissedVal(d, p) ==
  LET m == Of(d.correctness, p.parser)
  IN  IF m # <<>> /\ m[1].recall # None THEN MaxOf(100 - m[1].recall, 0)
      ELSE RatioPct(MaxOf(p.n_total - p.n_accepted, 0), p.n_total)
ChartMissed(d, p) ==
  LET m      == Of(d.correctness, p.parser)
      graded == CASE m = <<>> -> None
                  [] m # <<>> /\ d.has_reference -> m[1].recall
                  [] OTHER -> m[1].accept
  IN  IF graded # None THEN MaxOf(100 - graded, 0)
      ELSE MaxOf(RatioPct(p.n_total - p.n_accepted, p.n_total), 0)

(* display_order, and the three tables of a dialect.                       *)
DisplayOrder(d) ==
  FoldLeft(LAMBDA order, n : IF n \in ToSet(order) THEN order ELSE Append(order, n),
           Names(d.perf), Names(d.correctness) \o d.coverage)
InOrder(d, rows) ==
  LET order == DisplayOrder(d)
  IN  FlattenSeq([i \in DOMAIN order |-> Of(rows, order[i])])
BatchOf(d, p) == LET b == Of(d.batch, p) IN IF b = <<>> THEN None ELSE b[1].accuracy
PerfTable(d) ==
  [i \in DOMAIN d.perf |->
    LET p == d.perf[i]
    IN  [head |-> p.parser, cells |-> <<p.median, BatchOf(d, p.parser), MissedVal(d, p)>>]]
MemoryTable(d) ==
  LET mems == InOrder(d, d.memory)
  IN  [i \in DOMAIN mems |-> [head |-> mems[i].parser, cells |-> <<mems[i].peak>>]]
CorrectnessTable(d) ==
  LET ms == InOrder(d, d.correctness)
  IN  [i \in DOMAIN ms |-> [head |-> ms[i].parser,
                            cells |-> <<IF d.has_reference THEN ms[i].recall
                                        ELSE ms[i].accept>>]]

(* cmp_rows: -1, 0 or 1, column 0 being the header.                        *)
Sign(n) == CASE n < 0 -> -1 [] n = 0 -> 0 [] n > 0 -> 1

\* Mutant: what is missing is reversed with the rest.
CmpRowsReversed(a, b, col, asc) ==
  LET base == IF col = 0 THEN Sign(a.head - b.head) ELSE Sign(a.cells[col] - b.cells[col])
  IN  IF asc THEN base ELSE -base

CmpRows(a, b, col, asc) ==
  LET x == IF col = 0 THEN a.head ELSE a.cells[col]
      y == IF col = 0 THEN b.head ELSE b.cells[col]
  IN  CASE col > 0 /\ x # None /\ y = None -> -1
        [] col > 0 /\ x = None /\ y # None -> 1
        [] OTHER -> IF asc THEN Sign(x - y) ELSE Sign(y - x)

(* SortTable: a click on a header sorts by it, a second one reverses, and  *)
(* what is drawn is a stable sort of the rows as they were given.          *)
Unsorted == [col |-> None, asc |-> TRUE]
Click(sort, col) == [col |-> col, asc |-> ~(sort.col = col /\ sort.asc)]
SortTable(rows, sort) ==
  LET Before(i, j) == LET c == CmpRows(rows[i], rows[j], sort.col, sort.asc)
                      IN  c < 0 \/ (c = 0 /\ i < j)
      order == SetToSortSeq(DOMAIN rows, Before)
  IN  IF sort.col = None THEN rows ELSE [k \in DOMAIN rows |-> rows[order[k]]]

-----------------------------------------------------------------------------
(* VersionHistory. A history is a sequence of releases, each a function    *)
(* from the dialects it was measured in to [median, recall, accepted],     *)
(* median None where nothing was accepted. Its position is its date.       *)
(* `selected` is kept when the page shows another parser; None stands for  *)
(* usize::MAX, the newest.                                                 *)
Sel(selected, n) == IF selected = None THEN n ELSE MinOf(selected, n)
Shown(hist) == IF hist = <<>> THEN {} ELSE DOMAIN hist[Len(hist)]
Points(hist, d, What(_)) ==
  LET at == SelectSeq([i \in DOMAIN hist |-> i],
                      LAMBDA i : d \in DOMAIN hist[i] /\ What(hist[i][d]) # None)
  IN  [k \in DOMAIN at |-> <<at[k], What(hist[at[k]][d])>>]
TimeSeries(hist) == [d \in Shown(hist) |-> Points(hist, d, LAMBDA v : v.median)]
RecallSeries(hist) ==
  LET all == [d \in Shown(hist) |-> Points(hist, d, LAMBDA v : v.recall)]
  IN  [d \in {e \in DOMAIN all : all[e] # <<>>} |-> all[d]]
CoverageSeries(hist) ==
  LET all == [d \in Shown(hist) |-> Points(hist, d, LAMBDA v : v.accepted)]
  IN  [d \in {e \in DOMAIN all : \E pt \in ToSet(all[e]) : pt[2] > 0} |-> all[d]]
SelectedBoxes(hist, selected) ==
  LET run == hist[Sel(selected, Len(hist))]
  IN  [d \in {e \in DOMAIN run : run[e].median # None} |-> run[d].median]
SelectedRows(hist, selected) ==
  LET run == hist[Sel(selected, Len(hist))] IN [d \in DOMAIN run |-> run[d].recall]

(* cross_family_section: the mean recall and the upper median of the times *)
(* of a release, over its dialects.                                        *)
MeanOf(xs) == IF xs = <<>> THEN None ELSE FoldLeft(LAMBDA n, x : n + x, 0, xs) \div Len(xs)
MedianOf(xs) == IF xs = <<>> THEN None ELSE SortSeq(xs, <)[Len(xs) \div 2 + 1]
AcrossDialects(run, What(_)) ==
  LET ds == SetToSeq({d \in DOMAIN run : What(run[d]) # None})
  IN  [i \in DOMAIN ds |-> What(run[ds[i]])]
FamilyPoints(hist) ==
  [i \in DOMAIN hist |-> [recall |-> MeanOf(AcrossDialects(hist[i], LAMBDA v : v.recall)),
                          speed  |-> MedianOf(AcrossDialects(hist[i], LAMBDA v : v.median))]]

-----------------------------------------------------------------------------
(* The axes, of charts with some data: values in tenths for the log axes,  *)
(* in hundredths for counts. A log axis starts below the least positive    *)
(* low end of what is drawn (f64::MAX is left where there is none, which   *)
(* the code takes for a number) and ends above the greatest high end: of   *)
(* boxes these are p10 and p90, of an eCDF the minimum and p99, although   *)
(* the curve is drawn up to the largest sample.                            *)
F64Max == 10^6
LogAxis(lows, highs, pad, room) ==
  LET lo == MaxOf(pad * Min({v \in lows : v > 0} \cup {F64Max}), 10)
  IN  <<lo, MaxOf(room * Max(highs \cup {0}), 10 * lo)>>
TrendAxis(values) == LogAxis(values, values, 8, 13)
BoxAxis(p10s, p90s) == LogAxis(p10s, p90s, 7, 15)
EcdfAxis(mins, p99s) == LogAxis(mins, p99s, 8, 13)
PctAxis(values) == LET lo == MaxOf(Min(values) - 2, 0)
                   IN  <<lo, MaxOf(MinOf(Max(values) + 2, 102), lo + 1)>>
CountAxis(values) == <<0, MaxOf(108 * Max(values), 100)>>

(* The points of a curve of n that get a glyph.                            *)
Glyphs(n) == LET count == MinOf(6, n)
             IN  [k \in 1..count |-> IF count = 1 THEN n \div 2
                                     ELSE ((k - 1) * (n - 1)) \div (count - 1)]
=============================================================================
