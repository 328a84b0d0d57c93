------------------------------- MODULE Grading -------------------------------
(***************************************************************************)
(* src/report.rs and what src/export.rs publishes of it. A statement is a  *)
(* record: its label ("valid", "invalid", or "miss" if the cache does not  *)
(* cover it), whether a contentious rule matches it, and what each parser  *)
(* does with it: "stable" or "unstable" (accepted; how it reprints),       *)
(* "rejected", "panicked". A parser that does not model the dialect has    *)
(* "unsupported" for every statement.                                      *)
(***************************************************************************)
EXTENDS Loops

CONSTANTS
  AllParsers,     (* the sequence of all parsers                           *)
  Unsupporting,   (* those of them that do not model the dialect           *)
  Printers,       (* those that can reprint                                *)
  FailPreview,    (* FAIL_PREVIEW: failures shown                          *)
  FailCap         (* FAIL_CAP: failures written to a download              *)

ASSUME FailuresAssumption == FailPreview \in Nat /\ FailCap \in Nat /\ FailPreview <= FailCap

Accepted(s, p) == s.does[p] \in {"stable", "unstable"}
Supporting == SelectSeq(AllParsers, LAMBDA p : p \notin Unsupporting)

(* ParserStat, DialectReport and their merges, counter by counter. A       *)
(* report keeps the statistics of the supporting parsers by position.      *)
ZeroStat == [accepted_valid |-> 0, accepted_valid_contentious |-> 0,
             accepted_invalid |-> 0, roundtrip_ok |-> 0, attempted |-> 0,
             panicked |-> 0]
StatMerge(a, b) == [c \in DOMAIN ZeroStat |-> a[c] + b[c]]
EmptyReport == [valid_total |-> 0, contentious_valid |-> 0, invalid_total |-> 0,
                stats |-> [i \in DOMAIN Supporting |-> ZeroStat]]
ReportMerge(r, q) ==
  [valid_total |-> r.valid_total + q.valid_total,
   contentious_valid |-> r.contentious_valid + q.contentious_valid,
   invalid_total |-> r.invalid_total + q.invalid_total,
   stats |-> [i \in DOMAIN r.stats |-> StatMerge(r.stats[i], q.stats[i])]]

(* grade_chunk: what one statement adds to a report.                       *)
One(b) == IF b THEN 1 ELSE 0
IsValid(reference, s) == ~reference \/ s.label = "valid"

\* Mutant: the label is not looked at.
IsContentiousAnyLabel(reference, s) == reference /\ s.contentious

IsContentious(reference, s) == reference /\ s.label = "valid" /\ s.contentious
StatOf(reference, s, p) ==
  LET accepted == Accepted(s, p)
      valid == IsValid(reference, s)
  IN  [accepted_valid |-> One(accepted /\ valid),
       accepted_valid_contentious |-> One(accepted /\ IsContentious(reference, s)),
       accepted_invalid |-> One(accepted /\ ~valid),
       roundtrip_ok |-> One(valid /\ p \in Printers /\ s.does[p] = "stable"),
       attempted |-> One(s.does[p] # "unsupported"),
       panicked |-> One(s.does[p] = "panicked")]
GradeOne(reference, r, s) ==
  IF reference /\ s.label = "miss" THEN r
  ELSE ReportMerge(r, [valid_total |-> One(IsValid(reference, s)),
                       contentious_valid |-> One(IsContentious(reference, s)),
                       invalid_total |-> One(~IsValid(reference, s)),
                       stats |-> [i \in DOMAIN Supporting |->
                                    StatOf(reference, s, Supporting[i])]])
GradeChunk(reference, stmts) ==
  LET Grade(r, s) == GradeOne(reference, r, s)
  IN  FoldLeft(Grade, EmptyReport, stmts)

(* grade_dialect: chunks of equal size, one per thread, the last shorter.  *)
DivCeil(n, k) == (n + k - 1) \div k

\* Mutant: the statements left over by the division go to no thread.
ChunksWithoutRest(stmts, threads) ==
  LET size == Len(stmts) \div threads
  IN  IF size = 0 THEN <<stmts>>
      ELSE [c \in 1..threads |-> SubSeq(stmts, (c - 1) * size + 1, c * size)]

Chunks(stmts, threads) ==
  LET size == DivCeil(Len(stmts), threads)
  IN  [c \in 1..DivCeil(Len(stmts), size) |->
         SubSeq(stmts, (c - 1) * size + 1, Min({c * size, Len(stmts)}))]
GradeDialect(reference, stmts, threads) ==
  FoldLeft(ReportMerge, EmptyReport,
           [c \in DOMAIN Chunks(stmts, threads) |->
              GradeChunk(reference, Chunks(stmts, threads)[c])])

(* coverage_dialect, eval_file, count_accepted: each file by itself, what  *)
(* has no statement left out; build_coverage_matrix sums the columns.      *)
CountAccepted(file, p) == Cardinality({i \in DOMAIN file : Accepted(file[i], p)})
EvalFile(file) == [total |-> Len(file),
                   accepted |-> [i \in DOMAIN Supporting |->
                                   CountAccepted(file, Supporting[i])]]

\* Mutant: the files are read up to the first empty one.
CoverageUntilEmpty(files) ==
  LET kept == {i \in DOMAIN files : \A j \in 1..i : files[j] # <<>>}
  IN  [i \in kept |-> EvalFile(files[i])]

Coverage(files) == LET kept == Kept(files, {i \in DOMAIN files : files[i] # <<>>})
                   IN  [k \in DOMAIN kept |-> EvalFile(kept[k])]
CoverageMatrix(files) ==
  LET rows == Coverage(files)
      Column(i) == SumOf([k \in DOMAIN rows |-> rows[k].accepted[i]])
  IN  [subtotal_total |-> SumOf([k \in DOMAIN rows |-> rows[k].total]),
       subtotal_accepted |-> [i \in DOMAIN Supporting |-> Column(i)]]

\* Mutant: what the cache does not cover is expected to be accepted.
ExpectedIfUnknown(reference, stmts) ==
  Kept(stmts, {i \in DOMAIN stmts : ~reference \/ stmts[i].label # "invalid"})

(* failures_dialect: what a parser rejects, by error or panic, of what it  *)
(* is expected to accept.                                                  *)
Expected(reference, stmts) ==
  Kept(stmts, {i \in DOMAIN stmts : IsValid(reference, stmts[i])})
Failures(reference, stmts, p) ==
  LET expected == Expected(reference, stmts)
  IN  [rejected |-> Kept(expected, {i \in DOMAIN expected :
                                      expected[i].does[p] \in {"rejected", "panicked"}}),
       total |-> Len(expected)]

(* failures_for and format_failure_tsv: what is published of them. The     *)
(* download is left out if there is nothing in it or it cannot be written. *)
Take(s, n) == SubSeq(s, 1, Min({n, Len(s)}))
FailuresFor(reference, stmts, p, written) ==
  LET f == Failures(reference, stmts, p)
  IN  [rejected_total |-> Len(f.rejected), expected_total |-> f.total,
       preview |-> Take(f.rejected, FailPreview),
       tags |-> [i \in DOMAIN Take(f.rejected, FailPreview) |->
                   f.rejected[i].contentious],
       download |-> IF written THEN Take(f.rejected, FailCap) ELSE <<>>]

(* metrics: percentages, rounded down here; -1 stands for None.            *)
Pct(n, base) == IF base = 0 THEN -1 ELSE (100 * n) \div base
Metrics(reference, r, i) ==
  LET s == r.stats[i]
  IN  [recall |-> IF reference THEN Pct(s.accepted_valid, r.valid_total) ELSE -1,
       recall_excl |-> IF ~reference THEN -1
                       ELSE Pct(s.accepted_valid - s.accepted_valid_contentious,
                                r.valid_total - r.contentious_valid),
       false_positive |-> IF reference THEN Pct(s.accepted_invalid, r.invalid_total)
                          ELSE -1,
       roundtrip |-> IF Supporting[i] \in Printers
                     THEN Pct(s.roundtrip_ok, s.accepted_valid) ELSE -1,
       accept |-> IF reference THEN -1 ELSE Pct(s.accepted_valid, r.valid_total),
       panic |-> Pct(s.panicked, s.attempted)]
=============================================================================
