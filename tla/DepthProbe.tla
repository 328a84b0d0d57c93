----------------------------- MODULE DepthProbe -----------------------------
(***************************************************************************)
(* The recursion-depth probe of featurescan (run_parent, analyze,          *)
(* boundary).  Each trial of a depth runs in a child process, because a    *)
(* stack overflow cannot be caught; the trials of a parser are kept, and   *)
(* two binary searches share them: one for the smallest depth that         *)
(* overflows, one below it for the smallest depth that is not accepted.    *)
(*                                                                         *)
(* What the children of a parser do is any function of the depth; nothing  *)
(* makes it monotonic, as the searches assume.                             *)
(***************************************************************************)
EXTENDS Integers

CONSTANTS
  Ceil,          \* CEIL: 50,000 in the code
  NumParsers     \* BenchParser::all().len()

ASSUME DepthAssumption ==
  /\ Ceil \in Nat /\ Ceil >= 2
  /\ NumParsers \in Nat \ {0}

Depths == 1..Ceil
None == 0        \* Option::None of a depth

\* Accepted; Rejected, Panicked or Unsupported, which are told apart nowhere;
\* killed by a signal.
Trial == {"accepted", "refused", "crash"}

VARIABLES
  parser,       \* the parser that is probed
  outcome,      \* what its children do at each depth
  cache,        \* the trials made: HashMap<usize, Trial>
  pc,           \* "top" | "crash" | "shape" | "safe" | "limit" | "done"
  lo, hi,       \* the search that runs
  crash,        \* crash_depth
  rejected,     \* shape_rejected
  limit         \* limit_depth

vars == <<parser, outcome, cache, pc, lo, hi, crash, rejected, limit>>

TypeOK ==
  /\ parser \in 1..NumParsers
  /\ outcome \in [Depths -> Trial]
  /\ DOMAIN cache \subseteq Depths
  /\ pc \in {"top", "crash", "shape", "safe", "limit", "done"}
  /\ lo \in Depths /\ hi \in Depths
  /\ crash \in Depths \cup {None}
  /\ rejected \in BOOLEAN
  /\ limit \in Depths \cup {None}

NoTrials == [d \in {} |-> "accepted"]

\* What a parser starts from, with a cache of its own.
Fresh ==
  /\ outcome' \in [Depths -> Trial]
  /\ cache' = NoTrials
  /\ pc' = "top"
  /\ lo' = 1 /\ hi' = Ceil
  /\ crash' = None /\ rejected' = FALSE /\ limit' = None

Init ==
  /\ parser = 1
  /\ outcome \in [Depths -> Trial]
  /\ cache = NoTrials
  /\ pc = "top"
  /\ lo = 1 /\ hi = Ceil
  /\ crash = None /\ rejected = FALSE /\ limit = None

-----------------------------------------------------------------------------
(* Trials                                                                  *)

\* `trial(d)` returns t: from the cache, or from a child, whose answer is kept.
Tried(d, t) ==
  /\ t = IF d \in DOMAIN cache THEN cache[d] ELSE outcome[d]
  /\ cache' = [e \in DOMAIN cache \cup {d} |-> IF e = d THEN t ELSE cache[e]]

Crashes(t) == t = "crash"
Refuses(t) == t # "accepted"

\* Mutant: the middle is not above lo.
LowMiddle == (lo + hi) \div 2 - 1

Middle == lo + (hi - lo) \div 2

\* boundary: one iteration of its loop.
Halve(Pred(_)) ==
  /\ lo + 1 < hi
  /\ \E t \in Trial :
       /\ Tried(Middle, t)
       /\ IF Pred(t) THEN hi' = Middle /\ lo' = lo
                     ELSE lo' = Middle /\ hi' = hi

Search(top) == lo' = 1 /\ hi' = top

-----------------------------------------------------------------------------
(* analyze                                                                 *)

ProbeTop ==
  /\ pc = "top"
  /\ \E t \in Trial :
       /\ Tried(Ceil, t)
       /\ IF Crashes(t) THEN pc' = "crash" ELSE pc' = "shape"
  /\ Search(Ceil)
  /\ UNCHANGED <<parser, outcome, crash, rejected, limit>>

HalveCrash ==
  /\ pc = "crash"
  /\ Halve(Crashes)
  /\ UNCHANGED <<parser, outcome, pc, crash, rejected, limit>>

CrashFound ==
  /\ pc = "crash"
  /\ lo + 1 >= hi
  /\ crash' = hi
  /\ pc' = "shape"
  /\ UNCHANGED <<parser, outcome, cache, lo, hi, rejected, limit>>

ProbeShape ==
  /\ pc = "shape"
  /\ \E t \in Trial :
       /\ Tried(1, t)
       /\ rejected' = Refuses(t)
  /\ pc' = "safe"
  /\ UNCHANGED <<parser, outcome, lo, hi, crash, limit>>

\* Mutant: the search for the limit starts at the crash.
SafeTopIsCrash == IF crash = None THEN Ceil ELSE crash

SafeTop == IF crash = None THEN Ceil ELSE crash - 1

\* No limit can be read off the probe.
NoLimit ==
  /\ pc = "safe"
  /\ rejected \/ SafeTop < 2
  /\ pc' = "done"
  /\ UNCHANGED <<parser, outcome, cache, lo, hi, crash, rejected, limit>>

ProbeSafeTop ==
  /\ pc = "safe"
  /\ ~rejected /\ SafeTop >= 2
  /\ \E t \in Trial :
       /\ Tried(SafeTop, t)
       /\ IF Refuses(t) THEN pc' = "limit" ELSE pc' = "done"
  /\ Search(SafeTop)
  /\ UNCHANGED <<parser, outcome, crash, rejected, limit>>

HalveLimit ==
  /\ pc = "limit"
  /\ Halve(Refuses)
  /\ UNCHANGED <<parser, outcome, pc, crash, rejected, limit>>

LimitFound ==
  /\ pc = "limit"
  /\ lo + 1 >= hi
  /\ limit' = hi
  /\ pc' = "done"
  /\ UNCHANGED <<parser, outcome, cache, lo, hi, crash, rejected>>

\* Mutant: one cache for all parsers.
NextParserKeepsCache ==
  /\ pc = "done"
  /\ parser < NumParsers
  /\ parser' = parser + 1
  /\ outcome' \in [Depths -> Trial]
  /\ pc' = "top"
  /\ lo' = 1 /\ hi' = Ceil
  /\ crash' = None /\ rejected' = FALSE /\ limit' = None
  /\ UNCHANGED cache

\* The report is pushed; `cache` is declared inside the loop over the parsers.
NextParser ==
  /\ pc = "done"
  /\ parser < NumParsers
  /\ parser' = parser + 1
  /\ Fresh

-----------------------------------------------------------------------------

Next ==
  \/ ProbeTop \/ HalveCrash \/ CrashFound \/ ProbeShape
  \/ NoLimit \/ ProbeSafeTop \/ HalveLimit \/ LimitFound \/ NextParser

\* One sequential program; a child always ends, by itself or by a signal.
Spec == Init /\ [][Next]_vars /\ WF_vars(Next)

-----------------------------------------------------------------------------
(* Properties                                                              *)

\* Whatever the parser does at the depths in between, the reported crash depth is
\* one at which it overflows, right above one at which it survives.  (Depth 1 is
\* not tried by the search: 2 may be reported for a parser that overflows at 1.)
CrashIsBoundary ==
  pc = "done" /\ crash # None =>
    /\ outcome[crash] = "crash"
    /\ crash = 2 \/ outcome[crash - 1] # "crash"

\* ... and the reported limit is the first depth that is not accepted after one
\* that is, and below the crash depth.
LimitIsBoundary ==
  pc = "done" /\ limit # None =>
    /\ outcome[limit] # "accepted"
    /\ outcome[limit - 1] = "accepted"
    /\ crash # None => limit < crash

\* If an overflow is never survived by nesting deeper, and the parser survives
\* depth 1, the two numbers mean what they are published as: no depth below the
\* crash depth overflows, and the limit is one of a clean refusal.
CrashesMonotonic ==
  /\ outcome[1] # "crash"
  /\ \A d, e \in Depths : d < e /\ outcome[d] = "crash" => outcome[e] = "crash"

MeansWhatItSays ==
  pc = "done" /\ CrashesMonotonic =>
    /\ \A d \in Depths : outcome[d] = "crash" <=> crash # None /\ d >= crash
    /\ limit # None => outcome[limit] = "refused"

\* The probe of every parser ends: both searches close in on a boundary.
Terminates == <>(pc = "done" /\ parser = NumParsers)

=============================================================================
