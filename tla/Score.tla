------------------------------- MODULE Score -------------------------------
(***************************************************************************)
(* The composite score of the viewer (web/src/score.rs, the totals of      *)
(* data.rs, the badge colours of badges.rs). Scores are in thousandths,    *)
(* rounded down, -1 for None. A bundle is a sequence of rows, one for each *)
(* parser and dialect:                                                     *)
(*   [parser, dialect, reference, recall_excl, recall, accept, fp,         *)
(*    roundtrip, median, peak, retained, panicked]                         *)
(* where the rates are in percent, and a field is None where the dialect   *)
(* does not have it or nothing was measured (peak and retained together).  *)
(* What is known of a parser itself are its facts, a record:               *)
(*   [crash_depth, scanned, forbids_unsafe, unsafe_total, bans, prone,     *)
(*    code_loc, direct_deps, maintained, fuzz, tests, benches, license_ok, *)
(*    crates_io, cargo_mutants, cadence, contributors, sanitizers,         *)
(*    cargo_audit, cargo_deny]                                             *)
(* with a crash_depth of None where it never crashed and Unprobed where    *)
(* it was not tried, and 0 or 1 for a practice it has not or has.          *)
(***************************************************************************)
EXTENDS Integers, Sequences, FiniteSets
LOCAL INSTANCE SequencesExt
LOCAL INSTANCE FiniteSetsExt

CONSTANTS Attempted, DepthCeil

None == -1
Unprobed == -2
Total(s) == FoldLeft(LAMBDA a, b : a + b, 0, s)
Clamped(x) == IF x < 0 THEN 0 ELSE IF x > 1000 THEN 1000 ELSE x

(* mean, and blend: <<score, weight>> pairs whose score applies.           *)
Mean(s) == IF s = <<>> THEN None ELSE Total(s) \div Len(s)

\* Mutant: the weight of what does not apply stays in the divisor.
BlendOverAll(parts) ==
  LET apply == SelectSeq(parts, LAMBDA p : p[1] # None)
  IN  Total([i \in DOMAIN apply |-> apply[i][1] * apply[i][2]])
        \div Total([i \in DOMAIN parts |-> parts[i][2]])

Blend(parts) ==
  LET apply == SelectSeq(parts, LAMBDA p : p[1] # None)
      w     == Total([i \in DOMAIN apply |-> apply[i][2]])
  IN  IF w = 0 THEN 0
      ELSE Total([i \in DOMAIN apply |-> apply[i][1] * apply[i][2]]) \div w

(* relative_log, for values that are 0 or powers of two: log2 stands for   *)
(* ln. (0 and 1 are equal to it, though not to its test for a spread.)     *)
Log(x) == CHOOSE k \in 0..20 : 2^k = Max({x, 1})
RelativeLog(value, field) ==
  LET lo == Min(field)
      hi == Max(field)
  IN  IF value = None \/ hi <= lo THEN None
      ELSE Clamped((1000 * (Log(hi) - Log(value))) \div (Log(hi) - Log(lo)))

RowsOf(b, parser) == SelectSeq(b, LAMBDA r : r.parser = parser)
InDialect(b, d) == {b[i] : i \in {j \in DOMAIN b : b[j].dialect = d}}
Known(s) == SelectSeq(s, LAMBDA x : x # None)

(* correctness_in_dialect: recall but for contentious constructs, strict   *)
(* recall, or acceptance, whichever there is.                              *)
Primary(r) == IF r.recall_excl # None THEN r.recall_excl
              ELSE IF r.recall # None THEN r.recall ELSE r.accept
CorrectnessInDialect(r) ==
  IF Primary(r) = None THEN None
  ELSE Blend(<< <<Primary(r) * 10, 50>>,
                <<IF r.fp = None THEN None ELSE 1000 - r.fp * 10, 20>>,
                <<IF r.roundtrip = None THEN None ELSE r.roundtrip * 10, 15>> >>)
CorrectnessScore(b, parser) ==
  LET rows   == RowsOf(b, parser)
      graded == SelectSeq(rows, LAMBDA r : CorrectnessInDialect(r) # None)
  IN  IF graded = <<>> THEN None
      ELSE Blend([i \in DOMAIN graded |-> <<CorrectnessInDialect(graded[i]),
                                            IF graded[i].reference THEN 10 ELSE 4>>])

SpeedInDialect(b, r) ==
  RelativeLog(r.median, {x.median : x \in InDialect(b, r.dialect)} \ {None})
SpeedScore(b, parser) ==
  LET rows == RowsOf(b, parser)
  IN  Mean(Known([i \in DOMAIN rows |-> SpeedInDialect(b, rows[i])]))

(* The two footprints, averaged, or the one that has a spread.             *)
MemoryInDialect(b, r) ==
  LET rows == {x \in InDialect(b, r.dialect) : x.peak # None}
  IN  Mean(Known(<<RelativeLog(r.peak, {x.peak : x \in rows}),
                   RelativeLog(r.retained, {x.retained : x \in rows})>>))
MemoryScore(b, parser) ==
  LET rows == RowsOf(b, parser)
  IN  Mean(Known([i \in DOMAIN rows |-> MemoryInDialect(b, rows[i])]))

(* robustness_score; panic_totals over every dialect.                      *)
PanicTotals(b, parser) ==
  LET rows == RowsOf(b, parser)
  IN  [panicked |-> Total([i \in DOMAIN rows |-> rows[i].panicked]),
       attempted |-> Attempted * Len(rows)]
RobustnessScore(b, parser, f) ==
  LET t == PanicTotals(b, parser)
      depth  == CASE f.crash_depth = Unprobed -> None
                  [] f.crash_depth = None -> 1000
                  [] OTHER -> (500 * Min({f.crash_depth, DepthCeil})) \div DepthCeil
      unsafe == IF f.forbids_unsafe THEN 1000 ELSE Clamped(1000 - 20 * f.unsafe_total)
      disc   == IF f.bans # {} THEN 1000
                ELSE Clamped(1000 - (50 * 1000 * f.prone) \div Max({f.code_loc, 1}))
  IN  Blend(<< <<IF t.attempted = 0 THEN None
                 ELSE 1000 - (1000 * t.panicked) \div t.attempted, 40>>,
               <<depth, 25>>,
               <<IF f.scanned THEN unsafe ELSE None, 20>>,
               <<IF f.scanned THEN disc ELSE None, 15>> >>)

(* health_score: the plain indicators, and those that apply only to a      *)
(* crate with unsafe code or with dependencies.                            *)
FuzzValue == [Yes |-> 1000, Upstream |-> 700, No |-> 0]
CadenceValue == [Rolling |-> 1000, Monthly |-> 1000, Quarterly |-> 800, Yearly |-> 500,
                 Irregular |-> 400, Multiyear |-> 300, Dormant |-> 0]
HealthScore(f) ==
  Mean(<<1000 * f.maintained, FuzzValue[f.fuzz], 1000 * f.tests, 1000 * f.benches,
         1000 * f.license_ok, 1000 * f.crates_io, 1000 * f.cargo_mutants,
         CadenceValue[f.cadence], Clamped(100 * f.contributors)>>
       \o (IF f.scanned /\ ~f.forbids_unsafe /\ f.unsafe_total > 0
           THEN <<1000 * f.sanitizers>> ELSE <<>>)
       \o (IF f.scanned /\ f.direct_deps > 0
           THEN <<1000 * f.cargo_audit, 1000 * f.cargo_deny>> ELSE <<>>))

Overall(c, r, s, m, h) ==
  Blend(<< <<c, 40>>, <<r, 30>>, <<h, 5>>, <<s, 18>>, <<m, 7>> >>)
ParserScore(b, parser, f) ==
  Overall(CorrectnessScore(b, parser), RobustnessScore(b, parser, f),
          SpeedScore(b, parser), MemoryScore(b, parser), HealthScore(f))

(* dialect_score: the rows of one dialect, what is of the parser as is.    *)
DialectScore(b, parser, d, f) ==
  LET rows == SelectSeq(RowsOf(b, parser), LAMBDA r : r.dialect = d)
  IN  IF rows = <<>> THEN None
      ELSE Overall(CorrectnessInDialect(rows[1]), RobustnessScore(b, parser, f),
                   SpeedInDialect(b, rows[1]), MemoryInDialect(b, rows[1]),
                   HealthScore(f))

(* rank among the scored parsers, ties share; and the badge colours, 0 is  *)
(* the brightest.                                                          *)
Rank(scores, parser) == 1 + Cardinality({q \in DOMAIN scores : scores[q] > scores[parser]})
RankColor(rank, total) ==
  IF rank <= 1 THEN 0
  ELSE LET span == IF total > 2 THEN total - 1 ELSE 1
       IN  Min({4, Max({1, (4 * (rank - 1) + span - 1) \div span})})
ScoreColor(v) ==
  CASE v >= 850 -> 0 [] v >= 700 /\ v < 850 -> 1 [] v >= 550 /\ v < 700 -> 2
    [] v >= 400 /\ v < 550 -> 3 [] OTHER -> 4
=============================================================================
