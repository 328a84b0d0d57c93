------------------------------ MODULE Measures ------------------------------
(***************************************************************************)
(* How time and memory are measured: the batches sampled from what a       *)
(* parser accepts (src/batch.rs, the batch benches), the windows of the    *)
(* process-wide allocation counters (src/mem.rs, membench), and the        *)
(* statistics of raw samples (src/stats.rs, src/bench_dist.rs, and         *)
(* benches/parsing.rs). A statement or script is a sequence of tokens:     *)
(*   "a", "b"  kinds of statements   "lone"  one no script can hold        *)
(*   "copy"    COPY ... FROM STDIN   "--" "nl"  a line comment and its end *)
(*   ";"       terminator            "bad"   what the parser rejects       *)
(***************************************************************************)
EXTENDS Loops, FiniteSets

CONSTANTS
  BatchM,   (* BATCH_M: statements per batch                               *)
  BatchK,   (* BATCH_K: batches per pair                                   *)
  MaxPts    (* the points of a curve                                       *)

ASSUME MeasuresAssumption == {BatchM, BatchK, MaxPts} \subseteq Nat \ {0}

MinOf(a, b) == IF a < b THEN a ELSE b
MaxOf(a, b) == IF a > b THEN a ELSE b

-----------------------------------------------------------------------------
(* sample_batches: a partial Fisher-Yates shuffle of one pool that is never*)
(* put back in order. below(n) is the next draw modulo n.                  *)
Swap(pool, i, j) == [pool EXCEPT ![i] = pool[j], ![j] = pool[i]]
Draw(draws, t) == IF draws = <<>> THEN 0 ELSE draws[((t - 1) % Len(draws)) + 1]
SampleBatches(n, draws) ==
  LET take == MinOf(BatchM, n)
      Pick(pool, t) == LET i == ((t - 1) % take) + 1
                       IN  Swap(pool, i, i + (Draw(draws, t) % (n - i + 1)))
      Batch(s, b) ==
        LET pool == FoldLeft(Pick, s.pool, [i \in 1..take |-> (b - 1) * take + i])
        IN  [pool |-> pool, out |-> Append(s.out, SubSeq(pool, 1, take))]
  IN  IF n = 0 THEN <<>>
      ELSE FoldLeft(Batch, [pool |-> [i \in 1..n |-> i], out |-> <<>>],
                    [b \in 1..BatchK |-> b]).out

(* join_batch: each terminator on a line of its own.                       *)
StripEnd(s) ==
  LET keep == {i \in DOMAIN s : s[i] # ";"}
  IN  IF keep = {} THEN <<>> ELSE SubSeq(s, 1, Max(keep))

\* Mutant: the terminator goes on the line of the statement.
JoinBatchOnOneLine(stmts) ==
  LET Push(out, i) == out \o (IF i > 1 THEN <<";", "nl">> ELSE <<>>) \o StripEnd(stmts[i])
  IN  FoldLeft(Push, <<>>, [i \in DOMAIN stmts |-> i])

JoinBatch(stmts) ==
  LET Push(out, i) == out \o (IF i > 1 THEN <<"nl", ";", "nl">> ELSE <<>>) \o StripEnd(stmts[i])
  IN  FoldLeft(Push, <<>>, [i \in DOMAIN stmts |-> i])
BatchEligible(s) == "copy" \notin ToSet(s)

(* What a parser makes of a script (its parse_batch, with panics as 0): a  *)
(* "types" parser reports the number of distinct kinds, not a count.       *)
Scan(s, t) ==
  CASE s.note \/ s.data -> [s EXCEPT !.note = @ /\ t # "nl"]
    [] ~s.note /\ ~s.data /\ t = "--" -> [s EXCEPT !.note = TRUE]
    [] ~s.note /\ ~s.data /\ t = ";" -> [s EXCEPT !.out = Append(@, <<>>)]
    [] ~s.note /\ ~s.data /\ t = "nl" -> s
    [] OTHER -> [s EXCEPT !.out[Len(s.out)] = Append(@, t), !.data = t = "copy"]
Unscanned == [out |-> <<<<>>>>, note |-> FALSE, data |-> FALSE]
Pieces(script) ==
  LET out == FoldLeft(Scan, Unscanned, script).out
  IN  Kept(out, {i \in DOMAIN out : out[i] # <<>>})
CountOf(parser, pieces) ==
  LET words == UNION {ToSet(pieces[i]) : i \in DOMAIN pieces}
  IN  CASE "bad" \in words \/ ("lone" \in words /\ Len(pieces) > 1) -> 0
        [] "bad" \notin words /\ ("lone" \in words => Len(pieces) = 1) ->
             IF parser = "types" THEN Cardinality(ToSet(pieces)) ELSE Len(pieces)
SafeCount(parser, script) == CountOf(parser, Pieces(script))
CountProbe == Pieces(<<"a", "nl", ";", "nl", "a", "nl", ";", "nl", "a">>)
ReportsStatementCount(parser) == CountOf(parser, CountProbe) = 3

(* The statements of a dialect that may be put into batches of a parser.   *)
Eligible(parser, stmts) ==
  Kept(stmts, {i \in DOMAIN stmts : /\ "bad" \notin ToSet(stmts[i])
                                    /\ BatchEligible(stmts[i])
                                    /\ SafeCount(parser, stmts[i]) = 1})
EvaluateBatches(parser, eligible, draws) ==
  LET batches == SampleBatches(Len(eligible), draws)
      size    == MinOf(BatchM, Len(eligible))
      scripts == [b \in DOMAIN batches |->
                    JoinBatch([i \in DOMAIN batches[b] |-> eligible[batches[b][i]]])]
      correct == Kept(scripts, {b \in DOMAIN scripts : SafeCount(parser, scripts[b]) = size})
  IN  [n_eligible |-> Len(eligible), effective_m |-> size, k |-> Len(batches),
       n_correct |-> Len(correct), correct_scripts |-> correct]

(* The rows of the two batch benches for a pair, none where it is skipped. *)
(* (The draws stand for the seed, a function of dialect and parser.) Each  *)
(* averages over the statements of the correct scripts.                    *)
Row(e) == [n_eligible |-> e.n_eligible, k |-> e.k, n_correct |-> e.n_correct,
           accuracy |-> IF e.k > 0 THEN (100 * e.n_correct) \div e.k ELSE -1,
           denom |-> e.n_correct * e.effective_m,
           counted |-> SumOf([i \in DOMAIN e.correct_scripts |-> Len(Pieces(e.correct_scripts[i]))])]
TimeRows(parser, stmts, draws) ==
  IF ~ReportsStatementCount(parser) THEN {}
  ELSE {Row(EvaluateBatches(parser, Eligible(parser, stmts), draws))}
MemRows(parser, stmts, draws) ==
  IF parser = "blind" \/ ~ReportsStatementCount(parser) THEN {}
  ELSE {Row(EvaluateBatches(parser, Eligible(parser, stmts), draws))}

-----------------------------------------------------------------------------
(* The counters, and the allocator that feeds them. A parse is a sequence  *)
(* of events: <<"alloc", n>>, <<"resize", n>> and <<"free">> of its newest *)
(* block, and <<"lazy", n>>: what only the first use in the process        *)
(* allocates, for good. `own` holds the blocks of the parse that are live. *)
Counters == [live |-> 0, peak |-> 0, own |-> <<>>, warm |-> FALSE]
RecordAlloc(c, n) == [c EXCEPT !.live = @ + n, !.peak = MaxOf(@, c.live + n)]
RecordDealloc(c, n) == [c EXCEPT !.live = @ - n]

\* Mutant: the peak is not reset before a window.
ResetPeakForgotten(c) == c

ResetPeak(c) == [c EXCEPT !.peak = c.live]
Realloc(c, old, new) ==
  IF new >= old THEN RecordAlloc(c, new - old) ELSE RecordDealloc(c, old - new)

Allocate(c, e) ==
  LET top == Len(c.own)
  IN  CASE e[1] = "alloc" -> [RecordAlloc(c, e[2]) EXCEPT !.own = Append(@, e[2])]
        [] e[1] = "lazy"  -> IF c.warm THEN c
                             ELSE [RecordAlloc(c, e[2]) EXCEPT !.warm = TRUE]
        [] e[1] = "resize" /\ top > 0 ->
             [Realloc(c, c.own[top], e[2]) EXCEPT !.own[top] = e[2]]
        [] e[1] = "free" /\ top > 0 ->
             [RecordDealloc(c, c.own[top]) EXCEPT !.own = Front(@)]
        [] OTHER -> c
DropAll(c) == [RecordDealloc(c, SumOf(c.own)) EXCEPT !.own = <<>>]

(* measure_mem: the window around one parse, and what it reports.          *)
Saturating(a, b) == IF a > b THEN a - b ELSE 0
Measure(c, events) ==
  LET after == FoldLeft(Allocate, ResetPeak(c), events)
  IN  [peak     |-> Saturating(after.peak, c.live),
       retained |-> Saturating(after.live, c.live),
       counters |-> DropAll(after)]

(* membench run, for one pair: the first accepted statement is measured    *)
(* twice before anything is recorded.                                      *)
MemRun(c, accepted) ==
  LET First == Measure(c, accepted[1]).counters
      Warm  == Measure(First, accepted[1]).counters
      Step(s, events) == LET r == Measure(s.counters, events)
                         IN  [counters |-> r.counters,
                              out |-> Append(s.out, <<r.peak, r.retained>>)]
  IN  IF accepted = <<>> THEN [counters |-> c, out |-> <<>>]
      ELSE FoldLeft(Step, [counters |-> Warm, out |-> <<>>], accepted)

-----------------------------------------------------------------------------
(* parse_times: ascending, without what is not positive.                   *)
Rank(v, i) == Cardinality({j \in DOMAIN v : v[j] < v[i] \/ (v[j] = v[i] /\ j <= i)})
Sorted(v) == [k \in DOMAIN v |-> v[CHOOSE i \in DOMAIN v : Rank(v, i) = k]]
ParseTimes(raw) == Sorted(Kept(raw, {i \in DOMAIN raw : raw[i] > 0}))

(* quantile at num/den: the nearest rank, halves away from zero.           *)
Quantile(s, num, den) ==
  IF s = <<>> THEN 0
  ELSE s[MinOf((2 * num * (Len(s) - 1) + den) \div (2 * den), Len(s) - 1) + 1]

\* Mutant: the last of the points is left out.
EcdfPointsShort(s) ==
  IF Len(s) <= MaxPts THEN [i \in DOMAIN s |-> <<s[i], i, Len(s)>>]
  ELSE [k \in 1..MaxPts |-> <<Quantile(s, k - 1, MaxPts), k - 1, MaxPts>>]

(* ecdf_points as <<value, numerator, denominator>>.                       *)
EcdfPoints(s) ==
  IF Len(s) <= MaxPts THEN [i \in DOMAIN s |-> <<s[i], i, Len(s)>>]
  ELSE [k \in 1..MaxPts + 1 |-> <<Quantile(s, k - 1, MaxPts), k - 1, MaxPts>>]
Mean(s) == IF s = <<>> THEN 0 ELSE SumOf(s) \div Len(s)
DistFrom(s) ==
  [q |-> <<IF s = <<>> THEN 0 ELSE s[1], Quantile(s, 10, 100), Quantile(s, 25, 100),
           Quantile(s, 50, 100), Quantile(s, 75, 100), Quantile(s, 90, 100),
           Quantile(s, 99, 100), IF s = <<>> THEN 0 ELSE Last(s)>>,
   mean |-> Mean(s), ecdf |-> EcdfPoints(s)]

(* run_pair of the time bench: a row without a sample when nothing is      *)
(* accepted, otherwise the summary of the times, which also go into a raw  *)
(* file; perf_for then takes the row, and the curve from the raw file.     *)
RunPair(times) == [n_accepted |-> Len(times), q |-> DistFrom(Sorted(times)).q,
                   raw |-> IF times = <<>> THEN "none" ELSE "written"]
=============================================================================
