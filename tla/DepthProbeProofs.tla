-------------------------- MODULE DepthProbeProofs --------------------------
(***************************************************************************)
(* Proofs about DepthProbe, for every ceiling and every parser: the two    *)
(* binary searches end on real boundaries, whatever the parser does.       *)
(***************************************************************************)
EXTENDS DepthProbe, TLAPS

\* The trials that are kept are this parser's.
CacheInv == \A d \in DOMAIN cache : cache[d] = outcome[d]

\* What is known of the parser at each point of analyze.
CrashInv ==
  /\ pc \in {"top", "crash"} => crash = None
  /\ pc = "crash" => /\ lo < hi /\ outcome[hi] = "crash"
                     /\ lo = 1 \/ outcome[lo] # "crash"
  /\ crash # None => /\ crash >= 2 /\ outcome[crash] = "crash"
                     /\ crash = 2 \/ outcome[crash - 1] # "crash"
  /\ pc \notin {"top", "crash"} /\ crash = None => outcome[Ceil] # "crash"

LimitInv ==
  /\ pc # "done" => limit = None
  /\ pc \in {"safe", "limit"} /\ ~rejected => outcome[1] = "accepted"
  /\ pc = "limit" => /\ ~rejected /\ lo < hi /\ hi <= SafeTop
                     /\ outcome[hi] # "accepted" /\ outcome[lo] = "accepted"
  /\ limit # None => /\ limit >= 2 /\ limit <= SafeTop
                     /\ outcome[limit] # "accepted"
                     /\ outcome[limit - 1] = "accepted"

IInv == TypeOK /\ CacheInv /\ CrashInv /\ LimitInv

-----------------------------------------------------------------------------

\* A trial answers what a child would, and what is kept stays this parser's.
LEMMA TrialIsOutcome ==
  ASSUME TypeOK, CacheInv, NEW d \in Depths, NEW t, Tried(d, t)
  PROVE  /\ t = outcome[d]
         /\ DOMAIN cache' \subseteq Depths
         /\ \A e \in DOMAIN cache' : cache'[e] = outcome[e]
<1>1. t = outcome[d]
  BY DEF Tried, CacheInv
<1>2. DOMAIN cache' = DOMAIN cache \cup {d}
  BY DEF Tried
<1>3. \A e \in DOMAIN cache' : cache'[e] = IF e = d THEN t ELSE cache[e]
  BY <1>2 DEF Tried
<1> QED
  BY <1>1, <1>2, <1>3 DEF TypeOK, CacheInv

\* The middle lies strictly inside an interval that can be halved.
LEMMA MiddleInside ==
  ASSUME TypeOK, lo + 1 < hi
  PROVE  Middle \in Depths /\ lo < Middle /\ Middle < hi
<1>1. lo \in Nat /\ hi \in Nat /\ lo >= 1 /\ hi <= Ceil
  BY DepthAssumption DEF TypeOK, Depths
<1> QED
  BY <1>1, DepthAssumption DEF Middle, Depths

\* Nothing is tried and nothing known of the parser at the start.
LEMMA InvInit == Init => IInv
<1> SUFFICES ASSUME Init PROVE IInv
  OBVIOUS
<1> USE DepthAssumption
<1>1. TypeOK
  <2>1. 1 \in Depths /\ Ceil \in Depths /\ 1 \in 1..NumParsers
    BY DEF Depths
  <2>2. DOMAIN cache \subseteq Depths
    BY DEF Init, NoTrials
  <2> QED
    BY <2>1, <2>2 DEF Init, TypeOK
<1>2. CacheInv /\ CrashInv /\ LimitInv
  BY DEF Init, CacheInv, CrashInv, LimitInv, NoTrials
<1> QED
  BY <1>1, <1>2 DEF IInv

\* One trial of the search for the crash depth.
LEMMA HalveCrashKeeps == IInv /\ HalveCrash => IInv'
<1> SUFFICES ASSUME IInv, HalveCrash PROVE IInv'
  OBVIOUS
<1> USE DepthAssumption
<1>1. /\ pc = "crash" /\ lo + 1 < hi
      /\ UNCHANGED <<parser, outcome, pc, crash, rejected, limit>>
  BY DEF HalveCrash, Halve
<1>2. PICK t \in Trial : /\ Tried(Middle, t)
                         /\ IF t = "crash" THEN hi' = Middle /\ lo' = lo
                                           ELSE lo' = Middle /\ hi' = hi
  BY DEF HalveCrash, Halve, Crashes
<1>3. Middle \in Depths /\ lo < Middle /\ Middle < hi
  BY <1>1, MiddleInside DEF IInv
<1>4. /\ t = outcome[Middle] /\ DOMAIN cache' \subseteq Depths
      /\ \A e \in DOMAIN cache' : cache'[e] = outcome[e]
  BY <1>2, <1>3, TrialIsOutcome DEF IInv
<1>5. TypeOK'
  BY <1>1, <1>2, <1>3, <1>4 DEF IInv, TypeOK
<1>6. CacheInv'
  BY <1>1, <1>4 DEF CacheInv
<1>7. lo' < hi' /\ outcome[hi'] = "crash" /\ (lo' = 1 \/ outcome[lo'] # "crash")
  BY <1>1, <1>2, <1>3, <1>4 DEF IInv, CrashInv, TypeOK, Depths
<1>8. CrashInv'
  BY <1>1, <1>7 DEF IInv, CrashInv
<1>9. LimitInv'
  BY <1>1 DEF IInv, LimitInv, SafeTop
<1> QED
  BY <1>5, <1>6, <1>8, <1>9 DEF IInv

\* One trial of the search for the limit.
LEMMA HalveLimitKeeps == IInv /\ HalveLimit => IInv'
<1> SUFFICES ASSUME IInv, HalveLimit PROVE IInv'
  OBVIOUS
<1> USE DepthAssumption
<1>1. /\ pc = "limit" /\ lo + 1 < hi
      /\ UNCHANGED <<parser, outcome, pc, crash, rejected, limit>>
  BY DEF HalveLimit, Halve
<1>2. PICK t \in Trial : /\ Tried(Middle, t)
                         /\ IF t # "accepted" THEN hi' = Middle /\ lo' = lo
                                              ELSE lo' = Middle /\ hi' = hi
  BY DEF HalveLimit, Halve, Refuses
<1>3. Middle \in Depths /\ lo < Middle /\ Middle < hi
  BY <1>1, MiddleInside DEF IInv
<1>4. /\ t = outcome[Middle] /\ DOMAIN cache' \subseteq Depths
      /\ \A e \in DOMAIN cache' : cache'[e] = outcome[e]
  BY <1>2, <1>3, TrialIsOutcome DEF IInv
<1>5. TypeOK'
  BY <1>1, <1>2, <1>3, <1>4 DEF IInv, TypeOK
<1>6. CacheInv'
  BY <1>1, <1>4 DEF CacheInv
<1>7. CrashInv'
  BY <1>1 DEF IInv, CrashInv
<1>8. /\ lo' < hi' /\ hi' <= SafeTop
      /\ outcome[hi'] # "accepted" /\ outcome[lo'] = "accepted"
  <2>1. SafeTop \in Int
    BY DEF IInv, TypeOK, SafeTop, Depths
  <2> QED
    BY <1>1, <1>2, <1>3, <1>4, <2>1 DEF IInv, LimitInv, TypeOK, Depths
<1>9. LimitInv'
  BY <1>1, <1>8 DEF IInv, LimitInv, SafeTop
<1> QED
  BY <1>5, <1>6, <1>7, <1>9 DEF IInv

\* Every step keeps the invariant.
LEMMA InvStep == IInv /\ [Next]_vars => IInv'
<1> SUFFICES ASSUME IInv, [Next]_vars PROVE IInv'
  OBVIOUS
<1> USE DepthAssumption
<1>0. 1 \in Depths /\ Ceil \in Depths
  BY DEF Depths
<1>1. CASE ProbeTop
  <2>1. PICK t \in Trial : /\ Tried(Ceil, t)
                           /\ IF t = "crash" THEN pc' = "crash" ELSE pc' = "shape"
    BY <1>1 DEF ProbeTop, Crashes
  <2>2. /\ t = outcome[Ceil] /\ DOMAIN cache' \subseteq Depths
        /\ \A e \in DOMAIN cache' : cache'[e] = outcome[e]
    BY <1>0, <2>1, TrialIsOutcome DEF IInv
  <2>3. /\ pc = "top" /\ lo' = 1 /\ hi' = Ceil
        /\ UNCHANGED <<parser, outcome, crash, rejected, limit>>
    BY <1>1 DEF ProbeTop, Search
  <2>4. TypeOK' /\ CacheInv'
    BY <1>0, <2>1, <2>2, <2>3 DEF IInv, TypeOK, CacheInv
  <2>5. CrashInv'
    <3>1. crash' = None
      BY <2>3 DEF IInv, CrashInv
    <3>2. CASE t = "crash"
      BY <2>1, <2>2, <2>3, <3>1, <3>2 DEF CrashInv
    <3>3. CASE t # "crash"
      BY <2>1, <2>2, <2>3, <3>1, <3>3 DEF CrashInv
    <3> QED
      BY <3>2, <3>3
  <2>6. LimitInv'
    BY <2>1, <2>3 DEF IInv, LimitInv, SafeTop
  <2> QED
    BY <2>4, <2>5, <2>6 DEF IInv
<1>2. CASE HalveCrash
  BY <1>2, HalveCrashKeeps
<1>3. CASE CrashFound
  <2>1. /\ pc = "crash" /\ pc' = "shape" /\ lo + 1 >= hi /\ crash' = hi
        /\ UNCHANGED <<parser, outcome, cache, lo, hi, rejected, limit>>
    BY <1>3 DEF CrashFound
  <2>2. TypeOK' /\ CacheInv'
    BY <2>1 DEF IInv, TypeOK, CacheInv
  <2>3. hi = lo + 1 /\ lo >= 1
    BY <2>1 DEF IInv, TypeOK, CrashInv, Depths
  <2>4. CrashInv'
    BY <2>1, <2>3 DEF IInv, CrashInv, TypeOK, Depths, None
  <2>5. LimitInv'
    BY <2>1 DEF IInv, LimitInv
  <2> QED
    BY <2>2, <2>4, <2>5 DEF IInv
<1>4. CASE ProbeShape
  <2>1. PICK t \in Trial : Tried(1, t) /\ rejected' = (t # "accepted")
    BY <1>4 DEF ProbeShape, Refuses
  <2>2. /\ t = outcome[1] /\ DOMAIN cache' \subseteq Depths
        /\ \A e \in DOMAIN cache' : cache'[e] = outcome[e]
    BY <1>0, <2>1, TrialIsOutcome DEF IInv
  <2>3. /\ pc = "shape" /\ pc' = "safe"
        /\ UNCHANGED <<parser, outcome, lo, hi, crash, limit>>
    BY <1>4 DEF ProbeShape
  <2>4. rejected' \in BOOLEAN
    BY <2>1
  <2>5. TypeOK' /\ CacheInv'
    BY <2>2, <2>3, <2>4 DEF IInv, TypeOK, CacheInv
  <2>6. CrashInv' /\ LimitInv'
    BY <2>1, <2>2, <2>3 DEF IInv, CrashInv, LimitInv
  <2> QED
    BY <2>5, <2>6 DEF IInv
<1>5. CASE NoLimit
  <2>1. /\ pc = "safe" /\ pc' = "done"
        /\ UNCHANGED <<parser, outcome, cache, lo, hi, crash, rejected, limit>>
    BY <1>5 DEF NoLimit
  <2>2. limit = None
    BY <2>1 DEF IInv, LimitInv
  <2> QED
    BY <2>1, <2>2 DEF IInv, TypeOK, CacheInv, CrashInv, LimitInv
<1>6. CASE ProbeSafeTop
  <2>1. PICK t \in Trial : /\ Tried(SafeTop, t)
                           /\ IF t # "accepted" THEN pc' = "limit" ELSE pc' = "done"
    BY <1>6 DEF ProbeSafeTop, Refuses
  <2>2. /\ pc = "safe" /\ ~rejected /\ SafeTop >= 2 /\ lo' = 1 /\ hi' = SafeTop
        /\ UNCHANGED <<parser, outcome, crash, rejected, limit>>
    BY <1>6 DEF ProbeSafeTop, Search
  <2>3. SafeTop \in Depths /\ SafeTop' = SafeTop
    BY <2>2 DEF IInv, TypeOK, SafeTop, Depths
  <2>4. /\ t = outcome[SafeTop] /\ DOMAIN cache' \subseteq Depths
        /\ \A e \in DOMAIN cache' : cache'[e] = outcome[e]
    BY <2>1, <2>3, TrialIsOutcome DEF IInv
  <2>5. TypeOK' /\ CacheInv'
    BY <1>0, <2>1, <2>2, <2>3, <2>4 DEF IInv, TypeOK, CacheInv
  <2>6. CrashInv'
    BY <2>1, <2>2 DEF IInv, CrashInv
  <2>7. limit = None /\ outcome[1] = "accepted"
    BY <2>2 DEF IInv, LimitInv
  <2>8. LimitInv'
    BY <2>1, <2>2, <2>3, <2>4, <2>7 DEF LimitInv, Depths
  <2> QED
    BY <2>5, <2>6, <2>8 DEF IInv
<1>7. CASE HalveLimit
  BY <1>7, HalveLimitKeeps
<1>8. CASE LimitFound
  <2>1. /\ pc = "limit" /\ pc' = "done" /\ lo + 1 >= hi /\ limit' = hi
        /\ UNCHANGED <<parser, outcome, cache, lo, hi, crash, rejected>>
    BY <1>8 DEF LimitFound
  <2>2. TypeOK' /\ CacheInv' /\ CrashInv'
    BY <2>1 DEF IInv, TypeOK, CacheInv, CrashInv
  <2>3. hi = lo + 1 /\ lo >= 1
    BY <2>1 DEF IInv, TypeOK, LimitInv, Depths
  <2>4. LimitInv'
    BY <2>1, <2>3 DEF IInv, LimitInv, TypeOK, Depths, SafeTop
  <2> QED
    BY <2>2, <2>4 DEF IInv
<1>9. CASE NextParser
  <2>1. TypeOK'
    <3>1. parser' \in 1..NumParsers
      BY <1>9 DEF NextParser, IInv, TypeOK
    <3>2. DOMAIN cache' \subseteq Depths
      BY <1>9 DEF NextParser, Fresh, NoTrials
    <3> QED
      BY <1>0, <1>9, <3>1, <3>2 DEF NextParser, Fresh, TypeOK
  <2>2. CacheInv' /\ CrashInv' /\ LimitInv'
    BY <1>9 DEF NextParser, Fresh, NoTrials, CacheInv, CrashInv, LimitInv
  <2> QED
    BY <2>1, <2>2 DEF IInv
<1>10. CASE UNCHANGED vars
  BY <1>10 DEF vars, IInv, TypeOK, CacheInv, CrashInv, LimitInv, SafeTop
<1> QED
  BY <1>1, <1>2, <1>3, <1>4, <1>5, <1>6, <1>7, <1>8, <1>9, <1>10 DEF Next

\* What is known of the parser at each point of analyze holds in every reachable state.
LEMMA Invariant == Spec => []IInv
  BY InvInit, InvStep, PTL DEF Spec

-----------------------------------------------------------------------------

\* Type correctness, for every ceiling and every number of parsers.
THEOREM DepthTypeCorrect == Spec => []TypeOK
<1>1. IInv => TypeOK
  BY DEF IInv
<1> QED
  BY <1>1, Invariant, PTL

\* For every ceiling and whatever a parser does, a reported crash depth is a
\* boundary between survival and overflow.
THEOREM CrashBoundary == Spec => []CrashIsBoundary
<1>1. IInv => CrashIsBoundary
  BY DEF IInv, CrashInv, CrashIsBoundary
<1> QED
  BY <1>1, Invariant, PTL

\* For every ceiling and whatever a parser does, a reported limit is a boundary
\* between acceptance and refusal, below the crash depth.
THEOREM LimitBoundary == Spec => []LimitIsBoundary
<1>1. IInv => LimitIsBoundary
  BY DEF IInv, LimitInv, TypeOK, LimitIsBoundary, SafeTop, Depths, None
<1> QED
  BY <1>1, Invariant, PTL

\* For every ceiling, if overflows are monotonic, the reported numbers separate
\* the depths that overflow from those that do not, and the limit is clean.
THEOREM PublishedMeaning == Spec => []MeansWhatItSays
<1>1. IInv => MeansWhatItSays
  <2> SUFFICES ASSUME IInv, pc = "done", CrashesMonotonic
               PROVE  /\ \A d \in Depths : outcome[d] = "crash" <=> crash # None /\ d >= crash
                      /\ limit # None => outcome[limit] = "refused"
    BY DEF MeansWhatItSays
  <2> USE DepthAssumption
  <2>1. /\ crash \in Depths \cup {None} /\ limit \in Depths \cup {None}
        /\ outcome \in [Depths -> Trial] /\ Ceil \in Depths /\ 1 \in Depths
    BY DEF IInv, TypeOK, Depths
  <2>2. CASE crash = None
    <3>1. outcome[Ceil] # "crash"
      BY <2>2 DEF IInv, CrashInv
    <3>2. \A d \in Depths : outcome[d] # "crash"
      BY <2>1, <3>1 DEF CrashesMonotonic, Depths
    <3>3. limit # None => limit \in Depths /\ outcome[limit] # "accepted"
      BY <2>1 DEF IInv, LimitInv
    <3> QED
      BY <2>1, <2>2, <3>2, <3>3 DEF Trial
  <2>3. CASE crash # None
    <3>1. /\ crash \in Depths /\ crash >= 2 /\ outcome[crash] = "crash"
          /\ crash = 2 \/ outcome[crash - 1] # "crash"
      BY <2>1, <2>3 DEF IInv, CrashInv
    <3>2. ASSUME NEW d \in Depths, d >= crash PROVE outcome[d] = "crash"
      BY <3>1, <3>2 DEF CrashesMonotonic, Depths
    <3>3. ASSUME NEW d \in Depths, d < crash PROVE outcome[d] # "crash"
      <4>1. CASE crash = 2
        BY <3>3, <4>1 DEF CrashesMonotonic, Depths
      <4>2. CASE crash # 2
        BY <3>1, <3>3, <4>2 DEF CrashesMonotonic, Depths
      <4> QED
        BY <4>1, <4>2
    <3>4. limit # None => limit \in Depths /\ limit < crash /\ outcome[limit] # "accepted"
      BY <2>1, <2>3, <3>1 DEF IInv, LimitInv, SafeTop, Depths
    <3> QED
      BY <2>1, <2>3, <3>1, <3>2, <3>3, <3>4 DEF Trial, Depths
  <2> QED
    BY <2>2, <2>3
<1> QED
  BY <1>1, Invariant, PTL

=============================================================================
