-------------------------- MODULE RetryLabelProofs --------------------------
(***************************************************************************)
(* Proofs about RetryLabel, for every corpus, either engine, every streak  *)
(* and every pattern of faults.                                            *)
(***************************************************************************)
EXTENDS RetryLabel, SequenceTheorems, TLAPS

\* Between SET and PREPARE the session holds the text of the statement whose
\* verdict comes next, and only MySQL is ever there.
TextInv == pc = "prepare" => engine = "mysql" /\ More /\ q = cur

\* The streak of a labelling that goes on is short of the limit.
StreakInv == pc # "aborted" => streak < MaxStreak

IInv == TypeOK /\ TextInv /\ StreakInv /\ VerdictsExact

-----------------------------------------------------------------------------
(* The verdicts                                                            *)

\* A verdict is added at the end, and leaves the earlier ones alone.
LEMMA VerdictAppends ==
  ASSUME TypeOK, More, NEW v \in BOOLEAN, Verdict(v)
  PROVE  /\ cur \in Stmts /\ cur = Len(valid) + 1 /\ Len(valid) \in Nat
         /\ valid' \in Seq(BOOLEAN) /\ Len(valid') = cur /\ Len(valid') <= NumStmts
         /\ valid'[cur] = v
         /\ \A i \in 1..Len(valid) : valid'[i] = valid[i]
<1>1. Len(valid) \in Nat /\ Len(valid) < NumStmts /\ cur = Len(valid) + 1
  BY DEF TypeOK, More, cur
<1>2. /\ valid' \in Seq(BOOLEAN)
      /\ Len(valid') = Len(valid) + 1
      /\ valid'[Len(valid) + 1] = v
      /\ \A i \in 1..Len(valid) : valid'[i] = valid[i]
  BY AppendProperties DEF Verdict, TypeOK
<1> QED
  BY <1>1, <1>2, RetryAssumption DEF Stmts

\* A verdict keeps the earlier ones exact, and is itself exact if it is the
\* grammar's or the engine's excuse for a statement that met trouble.
LEMMA VerdictKeepsExact ==
  ASSUME TypeOK, VerdictsExact, More, NEW v \in BOOLEAN, Verdict(v),
         UNCHANGED <<engine, parses>>, troubled \subseteq troubled',
         \/ v = parses[cur]
         \/ cur \in troubled' /\ v = (engine = "mysql")
  PROVE  VerdictsExact'
<1> SUFFICES ASSUME NEW i \in 1..Len(valid')
             PROVE  \/ valid'[i] = parses[i]
                    \/ i \in troubled' /\ valid'[i] = (engine = "mysql")
  BY DEF VerdictsExact
<1>0. /\ cur = Len(valid) + 1 /\ Len(valid) \in Nat /\ Len(valid') = cur /\ valid'[cur] = v
      /\ \A j \in 1..Len(valid) : valid'[j] = valid[j]
  BY VerdictAppends, Zenon
<1>1. CASE i = cur
  BY <1>0, <1>1, Zenon
<1>2. CASE i # cur
  <2>1. i \in 1..Len(valid) /\ valid'[i] = valid[i]
    BY <1>0, <1>2
  <2>2. \/ valid[i] = parses[i]
        \/ i \in troubled /\ valid[i] = (engine = "mysql")
    BY <2>1, Zenon DEF VerdictsExact
  <2> QED
    BY <2>1, <2>2, Zenon
<1> QED
  BY <1>1, <1>2

-----------------------------------------------------------------------------
(* The inductive invariant                                                 *)

\* The inductive invariant holds before the first statement.
LEMMA InvInit == Init => IInv
<1> SUFFICES ASSUME Init PROVE IInv
  OBVIOUS
<1>1. valid = <<>> /\ Len(valid) = 0 /\ valid \in Seq(BOOLEAN)
  BY DEF Init
<1>2. Len(valid) <= NumStmts /\ streak \in 0..MaxStreak
  BY <1>1, RetryAssumption DEF Init
<1>2a. TypeOK
  BY <1>1, <1>2 DEF Init, TypeOK
<1>3. TextInv /\ StreakInv
  BY RetryAssumption DEF Init, TextInv, StreakInv
<1>4. VerdictsExact
  BY <1>1 DEF VerdictsExact
<1> QED
  BY <1>2a, <1>3, <1>4 DEF IInv

\* Every answer, retry and abort keeps the inductive invariant.
LEMMA InvStep == IInv /\ [Next]_vars => IInv'
<1> SUFFICES ASSUME TypeOK, TextInv, StreakInv, VerdictsExact, [Next]_vars PROVE IInv'
  BY DEF IInv
<1>1. CASE Start \/ Finish \/ SetText \/ ProbeFails \/ UNCHANGED vars
  <2>1. UNCHANGED <<engine, parses, faults, valid, troubled>>
    BY <1>1 DEF Start, Finish, SetText, ProbeFails, NoVerdict, vars, env
  <2>2. VerdictsExact'
    BY <2>1 DEF VerdictsExact
  <2>3. CASE Start \/ Finish \/ UNCHANGED vars
    BY <2>1, <2>2, <2>3 DEF Start, Finish, vars, env, IInv, TypeOK, TextInv, StreakInv, More, cur
  <2>4. CASE SetText
    <3>1. cur \in Stmts
      BY <2>4, RetryAssumption DEF SetText, More, TypeOK, cur, Stmts
    <3> QED
      BY <2>1, <2>2, <2>4, <3>1 DEF SetText, env, IInv, TypeOK, TextInv, StreakInv, More, cur
  <2>5. CASE ProbeFails
    <3>1. streak < MaxStreak /\ up' \in BOOLEAN /\ streak' = streak + 1
      BY <2>5 DEF ProbeFails, NoVerdict, StreakInv
    <3>2. pc' \in {"probe", "aborted"} /\ (pc' = "probe" => streak' < MaxStreak)
      BY <2>5, <3>1 DEF ProbeFails, NoVerdict
    <3>3. q' = q
      BY <2>5 DEF ProbeFails
    <3> QED
      BY <2>1, <2>2, <3>1, <3>2, <3>3, RetryAssumption DEF IInv, TypeOK, TextInv, StreakInv
  <2> QED
    BY <1>1, <2>3, <2>4, <2>5
<1>2. CASE Answer
  <2> DEFINE v == parses[IF engine = "mysql" THEN q ELSE cur]
  <2>1. /\ More /\ Verdict(v) /\ up' \in BOOLEAN
        /\ UNCHANGED <<engine, parses, faults, q, troubled>>
    BY <1>2 DEF Answer, Asking, env
  <2>2. v = parses[cur]
    BY <1>2 DEF Answer, Asking, TextInv
  <2>3. v \in BOOLEAN
    BY <2>1, <2>2, RetryAssumption DEF TypeOK, More, cur, Stmts
  <2>4. VerdictsExact'
    <3> HIDE DEF v
    <3> QED
      BY <2>1, <2>2, <2>3, VerdictKeepsExact, Zenon
  <2>5. /\ valid' \in Seq(BOOLEAN) /\ Len(valid') <= NumStmts
        /\ streak' = 0 /\ pc' = "probe"
    BY <2>1, <2>3, VerdictAppends DEF Verdict
  <2> QED
    BY <2>1, <2>4, <2>5, RetryAssumption DEF IInv, TypeOK, TextInv, StreakInv
<1>3. CASE ServerTrouble
  <2> DEFINE v == engine = "mysql"
  <2>1. /\ More /\ Verdict(v) /\ troubled' = troubled \cup {cur}
        /\ UNCHANGED <<engine, parses, faults, up, q>>
    BY <1>3 DEF ServerTrouble, env
  <2>2. v \in BOOLEAN
    OBVIOUS
  <2>3. VerdictsExact'
    BY <2>1, <2>2, VerdictKeepsExact, Zenon
  <2>4. /\ valid' \in Seq(BOOLEAN) /\ Len(valid') <= NumStmts /\ cur \in Stmts
        /\ streak' = 0 /\ pc' = "probe"
    <3>1. valid' \in Seq(BOOLEAN) /\ Len(valid') <= NumStmts /\ cur \in Stmts
      BY <2>1, <2>2, VerdictAppends, Zenon
    <3> QED
      BY <2>1, <3>1, Zenon DEF Verdict
  <2> QED
    BY <2>1, <2>3, <2>4, RetryAssumption DEF IInv, TypeOK, TextInv, StreakInv
<1> QED
  BY <1>1, <1>2, <1>3 DEF Next

\* The inductive invariant holds in every reachable state.
LEMMA Invariance == Spec => []IInv
BY InvInit, InvStep, PTL DEF Spec

\* Type correctness, for every corpus and every streak; in particular the streak
\* never passes its limit and there is never a verdict more than statements.
THEOREM RetryTypeCorrect == Spec => []TypeOK
<1>1. IInv => TypeOK
  BY DEF IInv
<1> QED
  BY <1>1, Invariance, PTL

\* For every corpus and every pattern of faults, a verdict is what the grammar
\* says of that statement, or the engine's excuse for one that met trouble.
THEOREM RetryVerdicts == Spec => []VerdictsExact
<1>1. IInv => VerdictsExact
  BY DEF IInv
<1> QED
  BY <1>1, Invariance, PTL

-----------------------------------------------------------------------------
(* The adapters implement the abstract labelling                           *)

Running == pc \in {"start", "probe", "prepare"}

\* The labelling is given up: the verdicts so far are dropped.
LEMMA AbortAbandons ==
  ASSUME Running, pc' = "aborted", UNCHANGED <<parses, faults>>
  PROVE  Abstract!Abandon
BY DEF Running, Abstract!Abandon

\* A step that gives no verdict is not seen.
LEMMA QuietStutters ==
  ASSUME Running, Running', UNCHANGED <<parses, faults, valid>>
  PROVE  UNCHANGED Abstract!vars
BY DEF Running, Abstract!vars

\* A verdict is the abstract one, if it may be given.
LEMMA VerdictRecords ==
  ASSUME Running, Running', TypeOK, More, UNCHANGED <<parses, faults>>,
         NEW v \in BOOLEAN, Verdict(v), v => parses[cur] \/ "server" \in faults
  PROVE  Abstract!Record(v)
<1>1. cur \in Stmts /\ cur = Len(valid) + 1 /\ cur <= NumStmts
  BY RetryAssumption DEF More, TypeOK, cur, Stmts
<1>2. valid' = Append(valid, v)
  BY DEF Verdict
<1> QED
  BY <1>1, <1>2 DEF Running, Abstract!Record

\* The labeller's initial states are initial states of the abstract labeller.
LEMMA InitImplements == Init => Abstract!Init
BY DEF Init, Stmts, Abstract!Init

\* Every step of the labeller is a step of the abstract labeller or leaves it as it is.
LEMMA StepImplements == IInv /\ [Next]_vars => [Abstract!Next]_(Abstract!vars)
<1> SUFFICES ASSUME TypeOK, TextInv, [Next]_vars PROVE [Abstract!Next]_(Abstract!vars)
  BY DEF IInv
<1>1. CASE Start \/ SetText \/ ProbeFails
  <2>1. /\ Running /\ (Running' \/ pc' = "aborted")
        /\ UNCHANGED <<parses, faults, valid>>
    BY <1>1 DEF Start, SetText, ProbeFails, NoVerdict, Running, env
  <2> QED
    BY <2>1, QuietStutters, AbortAbandons DEF Abstract!Next
<1>2. CASE Finish
  <2>1. Len(valid) = NumStmts
    BY <1>2, RetryAssumption DEF Finish, More, TypeOK
  <2>2. Abstract!Publish
    BY <1>2, <2>1 DEF Finish, env, Abstract!Publish
  <2> QED
    BY <2>2 DEF Abstract!Next
<1>3. CASE Answer
  <2> DEFINE v == parses[IF engine = "mysql" THEN q ELSE cur]
  <2>1. /\ More /\ Verdict(v) /\ UNCHANGED <<parses, faults>>
        /\ Running /\ Running' /\ v = parses[cur]
    BY <1>3 DEF Answer, Asking, Verdict, TextInv, Running, env
  <2>2. v \in BOOLEAN
    BY <2>1, RetryAssumption DEF TypeOK, More, cur, Stmts
  <2>3. Abstract!Record(v)
    BY <2>1, <2>2, VerdictRecords
  <2> QED
    BY <2>2, <2>3 DEF Abstract!Next
<1>4. CASE ServerTrouble
  <2> DEFINE v == engine = "mysql"
  <2>1. /\ More /\ Verdict(v) /\ UNCHANGED <<parses, faults>> /\ "server" \in faults
        /\ Running /\ Running'
    BY <1>4 DEF ServerTrouble, Verdict, Running, env
  <2>2. v \in BOOLEAN
    OBVIOUS
  <2>3. Abstract!Record(v)
    BY <2>1, <2>2, VerdictRecords, Zenon
  <2> QED
    BY <2>2, <2>3 DEF Abstract!Next
<1>5. CASE UNCHANGED vars
  BY <1>5 DEF vars, env, Abstract!vars
<1> QED
  BY <1>1, <1>2, <1>3, <1>4, <1>5 DEF Next

\* For either engine, every corpus, streak and pattern of faults, each step of
\* the adapter is a step of the abstract labelling, or not seen by it.
THEOREM RetrySafelyImplements == Spec => LabellingSafety
<1>1. Init => Abstract!Init
  BY InitImplements
<1>2. IInv /\ [Next]_vars => [Abstract!Next]_(Abstract!vars)
  BY StepImplements
<1> QED
  BY <1>1, <1>2, Invariance, PTL DEF Spec, LabellingSafety

=============================================================================
