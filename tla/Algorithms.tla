----------------------------- MODULE Algorithms -----------------------------
(***************************************************************************)
(* What the benchmark computes of a corpus, a script or a list of samples: *)
(* the entry points of the parsers, the grading, the batches, the windows  *)
(* of the allocation counters and the statistics (see Feeding).            *)
(***************************************************************************)
EXTENDS Feeding, Grading, Measures, FiniteSets

CONSTANT MaxThreads   (* how many threads may share a corpus               *)

(* The parts that are driven here. None of them starts behind a prologue   *)
(* of another alphabet.                                                    *)
Algos == {"script", "grade", "batch", "memory", "samples"}

ASSUME AlgorithmsAssumption ==
  /\ MaxThreads \in Nat
  /\ \A t \in Algos \cap DOMAIN Alphabet : Openings[t] \subseteq Seq(Alphabet[t])

Lib == INSTANCE Adapters
Old == INSTANCE Versions

(* What a parser that models the dialect answers.                          *)
ASSUME GradedAssumption ==
  "grade" \in DOMAIN Alphabet =>
    \A s \in Alphabet["grade"], i \in DOMAIN Supporting :
      s.does[Supporting[i]] \in {"stable", "unstable", "rejected", "panicked"}

(* Statements are token by token; a parse allocates bytes; a clock does    *)
(* not run backwards.                                                      *)
ASSUME MeasuredAssumption ==
  /\ "batch" \in DOMAIN Alphabet => Alphabet["batch"] \subseteq Seq(STRING)
  /\ "memory" \in DOMAIN Alphabet =>
       \A e \in Alphabet["memory"] : \/ e \in {<<"free">>, <<"next">>}
                                    \/ e \in {"alloc", "resize", "lazy"} \X Nat
  /\ "samples" \in DOMAIN Alphabet => Alphabet["samples"] \subseteq Nat

-----------------------------------------------------------------------------
(* The entry points of a parser agree with its verdict on the script. What *)
(* is accepted can be timed and measured without a panic, and counts in    *)
(* full as a batch; what is not accepted never does; a gate that says no   *)
(* says so for the dialect, not for the script; and while a script is      *)
(* graded only a printer that is not guarded can take the thread down.     *)
CurrentAgree ==
  tool = "script" =>
    \A p \in Lib!Parsers, d \in Lib!Dialects :
      LET accepted == Lib!Accepts(p, input, d)
      IN  /\ Lib!Supports(p, d) <=> Lib!ParseOutcome(p, input, d) # "Unsupported"
          /\ accepted => /\ Lib!ParseOnce(p, input, d) = "true"
                         /\ Lib!MeasureMem(p, input, d) # "abort"
                         /\ Lib!ParseBatch(p, input, d) \in {-1, Len(input)}
          /\ ~accepted => /\ Lib!ParseBatch(p, input, d) < Len(input)
                          /\ Lib!Supports(p, d) => Lib!ParseOnce(p, input, d) # "true"
          /\ Lib!ParseBatch(p, input, d) = -1 <=> ~(Lib!CanBatch(p) /\ Lib!Supports(p, d))
          /\ Lib!MeasureMemBatch(p, input, d) = "Some" => Lib!ParseBatch(p, input, d) # -1
          /\ Lib!Roundtrips(p, input, d) = "None" <=> ~Lib!CanReprint(p, d)
          /\ Lib!CanReprint(p, d) => Lib!Supports(p, d)
          /\ accepted /\ Lib!Roundtrips(p, input, d) = "abort" =>
               ~Lib!Caught(p) /\ {"noprint", "panic"} \cap ToSet(input) # {}

(* So do those of every historical version, of which none aborts while it  *)
(* is graded and none parses what it does not support. And a trend ends at *)
(* the tables: run in the same mode, the newest version is graded, counted *)
(* and printed as the current build is, unless that takes the thread down. *)
VersionsAgree ==
  tool = "script" =>
    \A v \in ToSet(Old!Registered), d \in Lib!Dialects :
      LET accepted == Old!Accepts(v, input, d)
      IN  /\ Old!ParseOutcome(v, input, d) = "Unsupported" <=> ~Old!Supports(v, d)
          /\ Old!ParseOnce(v, input, d) = "true" <=> accepted
          /\ accepted => /\ Old!MeasureMem(v, input, d) = "Some"
                         /\ Old!ParseBatch(v, input, d) \in {-1, Len(input)}
          /\ ~accepted => Old!ParseBatch(v, input, d) < Len(input)
          /\ Old!Roundtrips(v, input, d) = "None" <=> ~Old!CanReprint(v, d)
          /\ ToSet(Old!Families) = {w.family : w \in ToSet(Old!Registered)}
          /\ v.era \in {0, 18} /\ Old!Mode(v, d) = Lib!Mode(v.family, d) =>
               /\ Old!ParseOutcome(v, input, d) = Lib!ParseOutcome(v.family, input, d)
               /\ Old!ParseBatch(v, input, d) = Lib!ParseBatch(v.family, input, d)
               /\ Lib!Roundtrips(v.family, input, d)
                    \in {Old!Roundtrips(v, input, d), "abort"}

(* Both, of every script: what grading, timing, batches, memory and        *)
(* printing make of it fits together, now and across versions.             *)
EntryPointsAgree == CurrentAgree /\ VersionsAgree

(* However many threads share a corpus, the merged counters are those of   *)
(* one pass over all of it.                                                *)
ChunksAddUp ==
  tool = "grade" /\ input # <<>> =>
    \A reference \in BOOLEAN, threads \in 1..MaxThreads :
      GradeDialect(reference, input, threads) = GradeChunk(reference, input)

(* However a corpus falls into files, some of them empty, the sums of the  *)
(* coverage matrix are those of the whole corpus.                          *)
FilesAddUp ==
  tool = "grade" /\ input # <<>> =>
    \A threads \in 1..MaxThreads :
      LET m == CoverageMatrix(<< <<>> >> \o Chunks(input, threads))
      IN  /\ m.subtotal_total = Len(input)
          /\ \A i \in DOMAIN Supporting :
               m.subtotal_accepted[i] = CountAccepted(input, Supporting[i])

(* Both: however a corpus is cut, into chunks for threads or into files,   *)
(* no statement of it is dropped or counted twice.                         *)
CorpusAddsUp == ChunksAddUp /\ FilesAddUp

(* The counters of a corpus, which different branches fill, fit together:  *)
(* no unsigned subtraction goes below zero, no percentage above 100; every *)
(* graded statement was attempted, and what panicked is not accepted.      *)
CountsFit ==
  tool = "grade" =>
    \A reference \in BOOLEAN :
      LET r == GradeChunk(reference, input)
      IN  \A i \in DOMAIN r.stats :
            LET s == r.stats[i]
                m == Metrics(reference, r, i)
            IN  /\ s.accepted_valid_contentious <= s.accepted_valid
                /\ r.contentious_valid <= r.valid_total
                /\ \A c \in DOMAIN m : m[c] \in -1..100
                /\ s.attempted = r.valid_total + r.invalid_total
                /\ s.accepted_valid + s.accepted_invalid + s.panicked <= s.attempted

(* The counters and the failure lists, from two passes over a corpus,      *)
(* agree: the valid statements are those accepted and those listed, and    *)
(* the contentious ones of a list are at most those the counters know of.  *)
ListsFit ==
  tool = "grade" =>
    \A reference \in BOOLEAN :
      LET r == GradeChunk(reference, input)
      IN  \A i \in DOMAIN r.stats :
            LET s == r.stats[i]
                f == FailuresFor(reference, input, Supporting[i], TRUE)
            IN  /\ s.accepted_valid + f.rejected_total = f.expected_total
                /\ f.expected_total = r.valid_total
                /\ Len(f.preview) = Len(f.tags) /\ IsPrefix(f.preview, f.download)
                /\ Cardinality({k \in DOMAIN f.download : f.download[k].contentious})
                     <= r.contentious_valid - s.accepted_valid_contentious
                        + (IF reference THEN 0 ELSE Len(input))

(* Both: the numbers published of a corpus agree.                          *)
PublishedCountsAgree == CountsFit /\ ListsFit

(* A batch holds distinct statements, however the pool was left by the one *)
(* before. Unless a statement cannot stand in a script at all, every batch *)
(* parses to its full count: no comment, terminator or inline data of one  *)
(* statement reaches into the next. A score is an average over exactly the *)
(* statements parsed, and the time and memory rows of a pair are about the *)
(* same batches.                                                           *)
BatchesAreWhole ==
  tool = "batch" =>
    \A parser \in {"full", "types", "blind"} :
      \A fit \in {Eligible(parser, input)}, draws \in {<<a, b, a>> : a, b \in 0..2} :
        \A eval \in {EvaluateBatches(parser, fit, draws)},
           time \in {TimeRows(parser, input, draws)},
           mem  \in {MemRows(parser, input, draws)} :
          /\ \A batch \in ToSet(SampleBatches(Len(fit), draws)) :
               /\ ToSet(batch) \subseteq DOMAIN fit
               /\ Cardinality(ToSet(batch)) = eval.effective_m /\ Len(batch) = eval.effective_m
          /\ parser # "types" /\ (\A s \in ToSet(input) : "lone" \notin ToSet(s)) =>
               eval.n_correct = eval.k
          /\ \A row \in time : row.counted = row.denom /\ row.accuracy \in -1..100
          /\ mem \subseteq time /\ (parser = "types" => time = {})

(* What membench reports of a statement is its own doing: the high-water   *)
(* mark and the rest of its own blocks, whatever was measured before it,   *)
(* and what only the first parse of a process allocates is in no sample if *)
(* the first statement already needs it.                                   *)
StatementsOf(s) ==
  FoldLeft(LAMBDA out, e : IF e = <<"next">> THEN Append(out, <<>>)
                           ELSE [out EXCEPT ![Len(out)] = Append(@, e)], <<<<>>>>, s)
MemoryIsOwn ==
  tool = "memory" =>
    LET stmts == StatementsOf(input)
        run   == MemRun(Counters, stmts)
        Own(k) == [i \in 0..Len(stmts[k]) |->
                     FoldLeft(Allocate, [Counters EXCEPT !.warm = TRUE],
                              SubSeq(stmts[k], 1, i)).own]
        lazy(k) == \E i \in DOMAIN stmts[k] : stmts[k][i][1] = "lazy"
    IN  \A k \in DOMAIN stmts :
          (lazy(k) => \E j \in {1} \cup 1..k - 1 : lazy(j)) =>
            /\ run.out[k][1] = Max({SumOf(Own(k)[i]) : i \in 0..Len(stmts[k])})
            /\ run.out[k][2] = SumOf(Own(k)[Len(stmts[k])])

(* A published distribution is one of a sample that was taken: quantiles   *)
(* are samples, in order, the mean lies between the ends, the curve climbs *)
(* from the left to the largest sample, at 1, and does not depend on the   *)
(* order of the file. The row of the summary and the raw file of the same  *)
(* run describe the same sample, if none of it rounds to zero.             *)
DistributionsAreSound ==
  tool = "samples" =>
    LET s == ParseTimes(input)
        d == DistFrom(s)
        row == RunPair(input)
    IN  /\ s # <<>> => /\ ToSet(d.q) \subseteq ToSet(input)
                       /\ d.mean \in d.q[1]..d.q[8]
                       /\ d.ecdf[Len(d.ecdf)][1] = d.q[8]
                       /\ d.ecdf[Len(d.ecdf)][2] = d.ecdf[Len(d.ecdf)][3]
                       /\ d.q[4] \in {s[i] : i \in {(Len(s) + 1) \div 2, (Len(s) + 2) \div 2}}
        /\ \A i \in 1..7 : d.q[i] <= d.q[i + 1]
        /\ \A i, j \in DOMAIN d.ecdf : i < j => /\ d.ecdf[i][1] <= d.ecdf[j][1]
                                               /\ d.ecdf[i][2] < d.ecdf[j][2]
        /\ Len(d.ecdf) <= MaxPts + 1
        /\ 0 \notin ToSet(input) => row.q = d.q
        /\ \A i \in DOMAIN input :
             ParseTimes(SubSeq(input, i, Len(input)) \o SubSeq(input, 1, i - 1)) = s
=============================================================================
