--------------------------- MODULE ChLabelProofs ---------------------------
(***************************************************************************)
(* Proofs about ChLabel, for every corpus, every cap, every number of      *)
(* attempts and every pattern of faults.                                   *)
(***************************************************************************)
EXTENDS ChLabel, FiniteSetTheorems, SequenceTheorems, TLAPS

\* A labelling that goes on has not used up its restarts; one that is done has
\* come to the end of the corpus.
LoopInv ==
  /\ pc # "aborted" => restarts <= MaxRestarts
  /\ pc = "done" => ~More

\* Without faults, what fails is what the current statement brought down: the
\* engine does not answer only at a statement that crashes it, and the one death
\* that may be pending is of the current statement.
EngineInv ==
  faults = {} =>
    /\ pc = "post" /\ More /\ ~up => corpus[cur].crashes
    /\ \/ deathIdx = None /\ deathCount = 0
       \/ deathIdx = cur /\ deathCount = 1 /\ More /\ corpus[cur].crashes

\* Without faults, every restart is one of the two that a poisoned statement
\* takes, and a labelling is aborted for want of restarts only.
RestartInv ==
  faults = {} =>
    /\ restarts = 2 * Len(poisoned) + deathCount
    /\ pc = "aborted" => restarts > MaxRestarts

\* Without faults, the poisoned statements are those that crash the engine.
CrashInv ==
  faults = {} => \A i \in 1..Len(valid) : corpus[i].crashes <=> i \in PoisonedSet

-----------------------------------------------------------------------------
(* Verdicts                                                                *)

\* A verdict is added at the end, and leaves the earlier ones alone.
LEMMA VerdictAppends ==
  ASSUME TypeOK, More, NEW v \in BOOLEAN, valid' = Append(valid, v)
  PROVE  /\ cur \in Stmts /\ cur = Len(valid) + 1 /\ Len(valid) \in Nat /\ cur' = cur + 1
         /\ valid' \in Seq(BOOLEAN) /\ Len(valid') = cur /\ Len(valid') <= NumStmts
         /\ valid'[cur] = v
         /\ \A i \in 1..Len(valid) : valid'[i] = valid[i]
<1>1. Len(valid) \in Nat /\ Len(valid) < NumStmts /\ cur = Len(valid) + 1
  BY DEF TypeOK, More, cur
<1>2. /\ valid' \in Seq(BOOLEAN)
      /\ Len(valid') = Len(valid) + 1
      /\ valid'[Len(valid) + 1] = v
      /\ \A i \in 1..Len(valid) : valid'[i] = valid[i]
  BY AppendProperties DEF TypeOK
<1> QED
  BY <1>1, <1>2, ChAssumption DEF Stmts, cur

\* The list of poisoned statements grows at its end.
LEMMA PoisonAppends ==
  ASSUME TypeOK, More, poisoned' = Append(poisoned, cur)
  PROVE  /\ poisoned' \in Seq(Stmts) /\ Len(poisoned') = Len(poisoned) + 1
         /\ Len(poisoned) \in Nat
         /\ poisoned'[Len(poisoned) + 1] = cur
         /\ \A k \in 1..Len(poisoned) : poisoned'[k] = poisoned[k]
         /\ PoisonedSet' = PoisonedSet \cup {cur}
<1>1. cur \in Stmts
  BY ChAssumption DEF TypeOK, More, cur, Stmts
<1>2. poisoned \in Seq(Stmts) /\ Len(poisoned) \in Nat
  BY DEF TypeOK
<1>3. /\ poisoned' \in Seq(Stmts)
      /\ Len(poisoned') = Len(poisoned) + 1
      /\ poisoned'[Len(poisoned) + 1] = cur
      /\ \A k \in 1..Len(poisoned) : poisoned'[k] = poisoned[k]
  BY <1>1, <1>2, AppendProperties
<1>4. PoisonedSet' = PoisonedSet \cup {cur}
  BY <1>2, <1>3 DEF PoisonedSet
<1> QED
  BY <1>2, <1>3, <1>4

\* A request that ends in neither a verdict nor a step of the loop: it is the
\* current statement that is being posted.
LEMMA FailedPost ==
  ASSUME TypeOK, PostFails
  PROVE  /\ pc = "post" /\ More /\ cur \in Stmts /\ up' \in BOOLEAN
         /\ EngineInv /\ faults = {} => ~up' /\ corpus[cur].crashes
<1>1. pc = "post" /\ More /\ cur \in Stmts
  BY ChAssumption DEF TypeOK, PostFails, Posting, More, cur, Stmts
<1>2. up' \in BOOLEAN
  BY Zenon DEF TypeOK, PostFails
<1>3. EngineInv /\ faults = {} => ~up' /\ corpus[cur].crashes
  BY <1>1, Zenon DEF PostFails, EngineInv
<1> QED
  BY <1>1, <1>2, <1>3

-----------------------------------------------------------------------------
(* Type correctness                                                        *)

\* At the start the state is typed and no restart is used up.
LEMMA TypeInit == Init => TypeOK /\ LoopInv
<1> SUFFICES ASSUME Init PROVE TypeOK /\ LoopInv
  OBVIOUS
<1>1. /\ valid \in Seq(BOOLEAN) /\ Len(valid) <= NumStmts
      /\ poisoned \in Seq(Stmts)
  BY EmptySeq, ChAssumption DEF Init
<1>2. /\ restarts \in 0..(MaxRestarts + 1) /\ restarts <= MaxRestarts
      /\ unreachable \in 0..(MaxStreak - 1) /\ attempt \in 0..(MaxAttempts - 1)
      /\ deathCount \in 0..1
  BY ChAssumption DEF Init
<1> QED
  BY <1>1, <1>2 DEF Init, TypeOK, LoopInv

\* Every step keeps the state typed and the restarts within their budget while labelling goes on.
LEMMA TypeStep == TypeOK /\ LoopInv /\ [Next]_vars => TypeOK' /\ LoopInv'
<1> SUFFICES ASSUME TypeOK, LoopInv, [Next]_vars PROVE TypeOK' /\ LoopInv'
  OBVIOUS
<1> USE ChAssumption DEF TypeOK, LoopInv, control, More
<1>1. CASE StartEngine
  BY <1>1 DEF StartEngine
<1>2. CASE StartFails \/ Finish
  BY <1>2 DEF StartFails, Finish
<1>3. ASSUME More, pc = "post", pc' = pc, NEW v \in BOOLEAN, Classified(v),
             UNCHANGED <<corpus, faults, control>>,
             up' \in BOOLEAN, garbled' \in SUBSET Stmts, troubled' \in SUBSET Stmts
      PROVE  TypeOK' /\ LoopInv'
  <2>1. valid' = Append(valid, v) /\ unreachable' = 0 /\ attempt' = 0
    BY <1>3 DEF Classified
  <2>2. valid' \in Seq(BOOLEAN) /\ Len(valid') <= NumStmts
    BY <1>3, <2>1, VerdictAppends, Zenon
  <2> QED
    BY <1>3, <2>1, <2>2
<1>4. Posting => cur \in Stmts /\ More /\ pc = "post"
  BY DEF Posting, More, cur, Stmts
<1>5. CASE Respond
  <2>1. corpus[cur].parses \in BOOLEAN
    BY <1>4, <1>5 DEF Respond, Statement
  <2>2. /\ Classified(corpus[cur].parses) /\ More /\ pc = "post"
        /\ UNCHANGED <<corpus, faults, pc, control, up, garbled, troubled>>
    BY <1>4, <1>5 DEF Respond
  <2> QED
    BY <1>3, <2>1, <2>2
<1>6. CASE RespondGarbled
  <2>1. /\ Classified(Unclassifiable) /\ More /\ pc = "post" /\ up' \in BOOLEAN
        /\ garbled' = garbled \cup {cur} /\ cur \in Stmts
        /\ UNCHANGED <<corpus, faults, pc, control, troubled>>
    BY <1>4, <1>6 DEF RespondGarbled
  <2>2. Unclassifiable \in BOOLEAN
    BY DEF Unclassifiable
  <2> QED
    BY <1>3, <2>1, <2>2
<1>7. CASE RespondTrouble
  <2>1. /\ Classified(TRUE) /\ More /\ pc = "post" /\ cur \in Stmts
        /\ troubled' = troubled \cup {cur}
        /\ UNCHANGED <<corpus, faults, pc, control, up, garbled>>
    BY <1>4, <1>7 DEF RespondTrouble
  <2> QED
    BY <1>3, <2>1
<1>8. CASE PostAgain
  BY <1>8, FailedPost DEF PostAgain, LastAttempt
<1>9. CASE Retry
  BY <1>9, FailedPost DEF Retry, Unreachable, LastAttempt
<1>10. CASE Crash
  BY <1>10, FailedPost DEF Crash, Crashed, Unreachable, Restart
<1>11. CASE Poison
  <2>1. /\ PostFails /\ GiveUp /\ deathIdx' = None /\ deathCount' = 0 /\ Restart
        /\ attempt' = 0 /\ UNCHANGED <<corpus, faults, unreachable, garbled, troubled>>
    BY <1>11 DEF Poison, Crashed, Unreachable
  <2>2. valid' = Append(valid, FALSE) /\ poisoned' = Append(poisoned, cur)
    BY <2>1 DEF GiveUp
  <2>3. pc = "post" /\ More /\ cur \in Stmts /\ up' \in BOOLEAN
    BY <2>1, FailedPost
  <2>4. /\ valid' \in Seq(BOOLEAN) /\ Len(valid') <= NumStmts
        /\ poisoned' \in Seq(Stmts)
    BY <2>2, <2>3, VerdictAppends, PoisonAppends
  <2> QED
    BY <2>1, <2>3, <2>4 DEF Restart
<1>12. CASE UNCHANGED vars
  BY <1>12 DEF vars
<1> QED
  BY <1>1, <1>2, <1>5, <1>6, <1>7, <1>8, <1>9, <1>10, <1>11, <1>12 DEF Next

\* Type correctness, for every value of the constants; in particular no engine
\* is posted to once its streak has reached the limit.
THEOREM ChTypeCorrect == Spec => []TypeOK
<1>1. Init => TypeOK /\ LoopInv
  BY TypeInit
<1>2. TypeOK /\ LoopInv /\ [Next]_vars => TypeOK' /\ LoopInv'
  BY TypeStep
<1> QED
  BY <1>1, <1>2, PTL DEF Spec

-----------------------------------------------------------------------------
(* The verdicts                                                            *)

\* A new verdict that is accounted for leaves all of them accounted for, if the
\* excuses of the earlier ones are kept.
LEMMA VerdictKeepsAccounts ==
  ASSUME TypeOK, VerdictsAccounted, More, NEW v \in BOOLEAN, valid' = Append(valid, v),
         UNCHANGED corpus, PoisonedSet \subseteq PoisonedSet',
         garbled \subseteq garbled', troubled \subseteq troubled',
         \/ v = corpus[cur].parses
         \/ ~v /\ cur \in PoisonedSet' \cup garbled'
         \/ v /\ cur \in troubled'
  PROVE  VerdictsAccounted'
<1> SUFFICES ASSUME NEW i \in 1..Len(valid')
             PROVE  \/ valid'[i] = corpus[i].parses
                    \/ ~valid'[i] /\ i \in PoisonedSet' \cup garbled'
                    \/ valid'[i] /\ i \in troubled'
  BY DEF VerdictsAccounted
<1>0. /\ cur = Len(valid) + 1 /\ Len(valid) \in Nat /\ Len(valid') = cur /\ valid'[cur] = v
      /\ \A j \in 1..Len(valid) : valid'[j] = valid[j]
  BY VerdictAppends, Zenon
<1>1. CASE i = cur
  BY <1>0, <1>1, Zenon
<1>2. CASE i # cur
  <2>1. i \in 1..Len(valid) /\ valid'[i] = valid[i]
    BY <1>0, <1>2
  <2>2. \/ valid[i] = corpus[i].parses
        \/ ~valid[i] /\ i \in PoisonedSet \cup garbled
        \/ valid[i] /\ i \in troubled
    BY <2>1, Zenon DEF VerdictsAccounted
  <2> QED
    BY <2>1, <2>2, Zenon
<1> QED
  BY <1>1, <1>2

\* Three of the four kinds of verdict leave the list of poisoned statements alone.
LEMMA AnswerKeepsOrder ==
  ASSUME TypeOK, PoisonedInOrder, More, NEW v \in BOOLEAN, valid' = Append(valid, v),
         UNCHANGED poisoned
  PROVE  PoisonedInOrder'
<1>0. /\ cur = Len(valid) + 1 /\ Len(valid) \in Nat /\ Len(valid') = cur
      /\ \A j \in 1..Len(valid) : valid'[j] = valid[j]
  BY VerdictAppends, Zenon
<1>1. ASSUME NEW k \in 1..Len(poisoned)
      PROVE  poisoned[k] <= Len(valid') /\ ~valid'[poisoned[k]]
  <2>1. poisoned[k] \in Stmts /\ poisoned[k] <= Len(valid) /\ ~valid[poisoned[k]]
    BY Zenon, ElementOfSeq DEF TypeOK, PoisonedInOrder
  <2>2. poisoned[k] \in 1..Len(valid) /\ poisoned[k] <= Len(valid')
    BY <1>0, <2>1, ChAssumption DEF Stmts
  <2> QED
    BY <1>0, <2>1, <2>2, Zenon
<1> QED
  BY <1>1, Zenon DEF PoisonedInOrder

\* A statement that is given up comes after all that were given up before.
LEMMA PoisonKeepsOrder ==
  ASSUME TypeOK, PoisonedInOrder, More, GiveUp
  PROVE  PoisonedInOrder'
<1>0. /\ cur = Len(valid) + 1 /\ Len(valid) \in Nat /\ Len(valid') = cur /\ valid'[cur] = FALSE
      /\ \A j \in 1..Len(valid) : valid'[j] = valid[j]
  BY VerdictAppends, Zenon DEF GiveUp
<1>1. /\ Len(poisoned') = Len(poisoned) + 1 /\ Len(poisoned) \in Nat
      /\ poisoned'[Len(poisoned) + 1] = cur
      /\ \A k \in 1..Len(poisoned) : poisoned'[k] = poisoned[k]
  BY PoisonAppends DEF GiveUp
<1>2. ASSUME NEW k \in 1..Len(poisoned)
      PROVE  /\ poisoned'[k] = poisoned[k] /\ poisoned[k] \in 1..Len(valid)
             /\ ~valid[poisoned[k]]
  <2>1. poisoned[k] \in Stmts /\ poisoned[k] <= Len(valid) /\ ~valid[poisoned[k]]
    BY Zenon, ElementOfSeq DEF TypeOK, PoisonedInOrder
  <2> QED
    BY <1>0, <1>1, <2>1, ChAssumption DEF Stmts
<1>3. ASSUME NEW j \in 1..Len(poisoned'), NEW k \in 1..Len(poisoned'), j < k
      PROVE  poisoned'[j] < poisoned'[k]
  <2>1. j \in 1..Len(poisoned) /\ poisoned'[j] = poisoned[j] /\ poisoned[j] \in 1..Len(valid)
    BY <1>1, <1>2, <1>3
  <2>2. CASE k = Len(poisoned) + 1
    BY <1>0, <1>1, <2>1, <2>2
  <2>3. CASE k # Len(poisoned) + 1
    <3>1. k \in 1..Len(poisoned) /\ poisoned'[k] = poisoned[k]
      BY <1>1, <1>2, <2>3
    <3> QED
      BY <1>3, <2>1, <3>1 DEF PoisonedInOrder
  <2> QED
    BY <2>2, <2>3
<1>4. ASSUME NEW k \in 1..Len(poisoned')
      PROVE  poisoned'[k] <= Len(valid') /\ ~valid'[poisoned'[k]]
  <2>1. CASE k = Len(poisoned) + 1
    <3>1. poisoned'[k] = cur /\ cur <= Len(valid')
      BY <1>0, <1>1, <2>1
    <3> QED
      BY <1>0, <3>1, Zenon
  <2>2. CASE k # Len(poisoned) + 1
    <3>1. k \in 1..Len(poisoned)
      BY <1>1, <2>2
    <3>2. /\ poisoned'[k] = poisoned[k] /\ poisoned[k] \in 1..Len(valid)
          /\ ~valid[poisoned[k]]
      BY <1>2, <3>1
    <3>3. poisoned'[k] <= Len(valid')
      BY <1>0, <3>2
    <3> QED
      BY <1>0, <3>2, <3>3, Zenon
  <2> QED
    BY <2>1, <2>2
<1> QED
  BY <1>3, <1>4, Zenon DEF PoisonedInOrder

\* What a step does to the verdicts: nothing, one verdict of an answer, or one of
\* a statement that is given up.
Quiet == UNCHANGED <<corpus, valid, poisoned, garbled, troubled>>

Answers(v) ==
  /\ More /\ valid' = Append(valid, v)
  /\ UNCHANGED <<corpus, poisoned>>
  /\ garbled \subseteq garbled' /\ troubled \subseteq troubled'
  /\ \/ v = corpus[cur].parses
     \/ ~v /\ cur \in garbled'
     \/ v /\ cur \in troubled'

Poisons == More /\ GiveUp /\ UNCHANGED <<corpus, garbled, troubled>>

\* A step answers one statement, sets one aside after a crash, or changes no verdict at all.
LEMMA StepKinds ==
  ASSUME TypeOK, [Next]_vars
  PROVE  Quiet \/ (\E v \in BOOLEAN : Answers(v)) \/ Poisons
<1>1. CASE StartEngine \/ StartFails \/ Finish \/ PostAgain \/ Retry \/ Crash \/ UNCHANGED vars
  BY <1>1 DEF StartEngine, StartFails, Finish, PostAgain, Retry, Crash, vars, control, Quiet
<1>2. CASE Respond
  <2>1. /\ valid' = Append(valid, corpus[cur].parses) /\ More
        /\ UNCHANGED <<corpus, poisoned, garbled, troubled>>
    BY <1>2 DEF Respond, Posting, Classified, control
  <2>2. corpus[cur].parses \in BOOLEAN
    BY <2>1, ChAssumption DEF TypeOK, More, cur, Stmts, Statement
  <2>3. Answers(corpus[cur].parses)
    BY <2>1, Zenon DEF Answers
  <2> QED
    BY <2>2, <2>3
<1>3. CASE RespondGarbled
  <2>1. /\ valid' = Append(valid, FALSE) /\ More /\ garbled' = garbled \cup {cur}
        /\ UNCHANGED <<corpus, poisoned, troubled>>
    BY <1>3 DEF RespondGarbled, Posting, Classified, Unclassifiable, control
  <2>2. Answers(FALSE)
    BY <2>1, Zenon DEF Answers
  <2> QED
    BY <2>2, Zenon
<1>4. CASE RespondTrouble
  <2>1. /\ valid' = Append(valid, TRUE) /\ More /\ troubled' = troubled \cup {cur}
        /\ UNCHANGED <<corpus, poisoned, garbled>>
    BY <1>4 DEF RespondTrouble, Posting, Classified, control
  <2>2. Answers(TRUE)
    BY <2>1, Zenon DEF Answers
  <2> QED
    BY <2>2, Zenon
<1>5. CASE Poison
  BY <1>5 DEF Poison, Crashed, Unreachable, PostFails, Posting, Poisons
<1> QED
  BY <1>1, <1>2, <1>3, <1>4, <1>5 DEF Next

\* Every step keeps each verdict the grammar's, or on a list of those that may not be.
LEMMA AccountStep == TypeOK /\ VerdictsAccounted /\ [Next]_vars => VerdictsAccounted'
<1> SUFFICES ASSUME TypeOK, VerdictsAccounted, [Next]_vars PROVE VerdictsAccounted'
  OBVIOUS
<1>1. CASE Quiet
  BY <1>1 DEF Quiet, VerdictsAccounted, PoisonedSet
<1>2. ASSUME NEW v \in BOOLEAN, Answers(v) PROVE VerdictsAccounted'
  <2>1. PoisonedSet' = PoisonedSet
    BY <1>2 DEF Answers, PoisonedSet
  <2> QED
    BY <1>2, <2>1, VerdictKeepsAccounts, Zenon DEF Answers
<1>3. CASE Poisons
  <2>1. /\ More /\ valid' = Append(valid, FALSE) /\ poisoned' = Append(poisoned, cur)
        /\ UNCHANGED <<corpus, garbled, troubled>>
    BY <1>3 DEF Poisons, GiveUp
  <2>2. PoisonedSet' = PoisonedSet \cup {cur}
    BY <2>1, PoisonAppends
  <2> QED
    BY <2>1, <2>2, VerdictKeepsAccounts, Zenon
<1> QED
  BY <1>1, <1>2, <1>3, StepKinds

\* Every step keeps the list of poisoned statements in the order of the corpus.
LEMMA OrderStep == TypeOK /\ PoisonedInOrder /\ [Next]_vars => PoisonedInOrder'
<1> SUFFICES ASSUME TypeOK, PoisonedInOrder, [Next]_vars PROVE PoisonedInOrder'
  OBVIOUS
<1>1. CASE Quiet
  BY <1>1 DEF Quiet, PoisonedInOrder
<1>2. ASSUME NEW v \in BOOLEAN, Answers(v) PROVE PoisonedInOrder'
  BY <1>2, AnswerKeepsOrder, Zenon DEF Answers
<1>3. CASE Poisons
  BY <1>3, PoisonKeepsOrder DEF Poisons
<1> QED
  BY <1>1, <1>2, <1>3, StepKinds

\* Before the first statement there is no verdict and nothing poisoned.
LEMMA NoVerdictYet == Init => VerdictsAccounted /\ PoisonedInOrder
<1> SUFFICES ASSUME Init PROVE VerdictsAccounted /\ PoisonedInOrder
  OBVIOUS
<1>1. valid = <<>> /\ poisoned = <<>> /\ Len(valid) = 0 /\ Len(poisoned) = 0
  BY DEF Init
<1> QED
  BY <1>1 DEF VerdictsAccounted, PoisonedInOrder

\* The bookkeeping of the labeller holds in every reachable state.
LEMMA Accounting == Spec => [](TypeOK /\ LoopInv /\ VerdictsAccounted /\ PoisonedInOrder)
<1>1. Init => TypeOK /\ LoopInv /\ VerdictsAccounted /\ PoisonedInOrder
  BY TypeInit, NoVerdictYet
<1>2. TypeOK /\ LoopInv /\ VerdictsAccounted /\ PoisonedInOrder /\ [Next]_vars
      => (TypeOK /\ LoopInv /\ VerdictsAccounted /\ PoisonedInOrder)'
  BY TypeStep, AccountStep, OrderStep
<1> QED
  BY <1>1, <1>2, PTL DEF Spec

\* For every corpus and every pattern of faults, a verdict that is not the
\* grammar's is on the list of poisoned statements, or of an answer that could
\* not be classified, or of one about the engine's own troubles.
THEOREM ChVerdicts == Spec => []VerdictsAccounted
BY Accounting, PTL

\* For every cap, the list of poisoned statements names distinct statements in the
\* order of the corpus, each with the verdict "invalid".
THEOREM ChPoisonOrder == Spec => []PoisonedInOrder
BY Accounting, PTL

-----------------------------------------------------------------------------
(* Without faults                                                          *)

FaultFree == EngineInv /\ RestartInv /\ CrashInv

\* Before the first statement nothing has failed.
LEMMA FaultFreeInit == Init => FaultFree
<1> SUFFICES ASSUME Init PROVE FaultFree
  OBVIOUS
<1>1. valid = <<>> /\ poisoned = <<>> /\ Len(valid) = 0 /\ Len(poisoned) = 0
  BY DEF Init
<1>2. EngineInv
  BY DEF Init, EngineInv
<1>3. RestartInv
  BY <1>1 DEF Init, RestartInv
<1>4. CrashInv
  BY <1>1 DEF CrashInv
<1> QED
  BY <1>2, <1>3, <1>4 DEF FaultFree

\* The poisoned statements have been dealt with; the current one has not.
LEMMA PoisonedAreDone ==
  ASSUME TypeOK, PoisonedInOrder
  PROVE  /\ PoisonedSet \subseteq 1..Len(valid) /\ cur \notin PoisonedSet
         /\ cur = Len(valid) + 1 /\ Len(valid) \in Nat
<1>1. Len(valid) \in Nat /\ cur = Len(valid) + 1
  BY DEF TypeOK, cur
<1>2. ASSUME NEW k \in 1..Len(poisoned) PROVE poisoned[k] \in 1..Len(valid)
  <2>1. poisoned[k] \in Stmts
    BY ElementOfSeq DEF TypeOK
  <2>2. poisoned[k] <= Len(valid)
    BY Zenon DEF PoisonedInOrder
  <2> QED
    BY <1>1, <2>1, <2>2, ChAssumption DEF Stmts
<1>3. PoisonedSet \subseteq 1..Len(valid)
  BY <1>2, Zenon DEF PoisonedSet
<1>4. cur \notin 1..Len(valid)
  BY <1>1
<1> QED
  BY <1>1, <1>3, <1>4

\* An answer, without faults, is of a statement that does not crash the engine.
LEMMA AnswerKeepsCrashes ==
  ASSUME TypeOK, FaultFree, faults = {}, PoisonedInOrder, More, NEW v \in BOOLEAN, ~corpus[cur].crashes,
         valid' = Append(valid, v), UNCHANGED <<corpus, faults, poisoned>>
  PROVE  CrashInv'
<1>0. /\ cur = Len(valid) + 1 /\ Len(valid) \in Nat /\ Len(valid') = cur
  BY VerdictAppends, Zenon
<1>1. PoisonedSet' = PoisonedSet
  BY DEF PoisonedSet
<1>2. cur \notin PoisonedSet
  BY PoisonedAreDone
<1>3. \A i \in 1..Len(valid) : corpus[i].crashes <=> i \in PoisonedSet
  BY DEF FaultFree, CrashInv
<1>4. \A i \in 1..Len(valid') : i = cur \/ i \in 1..Len(valid)
  BY <1>0
<1> QED
  BY <1>1, <1>2, <1>3, <1>4, Zenon DEF CrashInv

\* A statement that is given up without faults has crashed the engine.
LEMMA PoisonKeepsCrashes ==
  ASSUME TypeOK, FaultFree, faults = {}, PoisonedInOrder, More, corpus[cur].crashes, GiveUp,
         UNCHANGED <<corpus, faults>>
  PROVE  CrashInv'
<1>0. /\ cur = Len(valid) + 1 /\ Len(valid) \in Nat /\ Len(valid') = cur
  BY VerdictAppends, Zenon DEF GiveUp
<1>1. PoisonedSet' = PoisonedSet \cup {cur}
  BY PoisonAppends DEF GiveUp
<1>2. \A i \in 1..Len(valid) : corpus[i].crashes <=> i \in PoisonedSet
  BY DEF FaultFree, CrashInv
<1>3. \A i \in 1..Len(valid') : i = cur \/ (i \in 1..Len(valid) /\ i # cur)
  BY <1>0
<1> QED
  BY <1>1, <1>2, <1>3, Zenon DEF CrashInv

\* Without faults, every step keeps restarts and poisonings due to statements that crash the engine.
LEMMA FaultFreeStep ==
  TypeOK /\ LoopInv /\ PoisonedInOrder /\ FaultFree /\ [Next]_vars => FaultFree'
<1> SUFFICES ASSUME TypeOK, LoopInv, PoisonedInOrder, FaultFree, [Next]_vars PROVE FaultFree'
  OBVIOUS
<1>0. UNCHANGED <<corpus, faults>>
  BY DEF Next, StartEngine, StartFails, Finish, Respond, RespondGarbled, RespondTrouble,
     PostAgain, Retry, Crash, Poison, vars
<1>1. CASE faults # {}
  BY <1>0, <1>1 DEF FaultFree, EngineInv, RestartInv, CrashInv
<1>2. ASSUME faults = {} PROVE FaultFree'
  <2>0. /\ pc = "post" /\ More /\ ~up => corpus[cur].crashes
        /\ \/ deathIdx = None /\ deathCount = 0
           \/ deathIdx = cur /\ deathCount = 1 /\ More /\ corpus[cur].crashes
        /\ restarts = 2 * Len(poisoned) + deathCount
        /\ pc = "aborted" => restarts > MaxRestarts
        /\ \A i \in 1..Len(valid) : corpus[i].crashes <=> i \in PoisonedSet
    BY <1>2, Zenon DEF FaultFree, EngineInv, RestartInv, CrashInv
  <2>1. ASSUME UNCHANGED <<valid, poisoned, restarts, deathIdx, deathCount>>,
               pc' # "aborted" \/ pc' = pc,
               pc' = "post" /\ More /\ ~up' => corpus[cur].crashes
        PROVE  FaultFree'
    <3>1. cur' = cur /\ More' = More /\ PoisonedSet' = PoisonedSet
      BY <2>1 DEF cur, More, PoisonedSet
    <3>2. EngineInv'
      BY <1>0, <2>0, <2>1, <3>1, Zenon DEF EngineInv, None
    <3>3. RestartInv'
      BY <2>0, <2>1, Zenon DEF RestartInv
    <3>4. CrashInv'
      BY <1>0, <2>0, <2>1, <3>1, Zenon DEF CrashInv
    <3> QED
      BY <3>2, <3>3, <3>4 DEF FaultFree
  <2>2. CASE StartEngine
    BY <2>1, <2>2 DEF StartEngine, control
  <2>3. CASE Finish
    BY <2>1, <2>3 DEF Finish, control
  <2>4. CASE StartFails \/ RespondGarbled \/ RespondTrouble
    BY <1>2, <2>4 DEF StartFails, RespondGarbled, RespondTrouble
  <2>5. CASE Respond
    <3>1. /\ More /\ up /\ ~corpus[cur].crashes /\ valid' = Append(valid, corpus[cur].parses)
          /\ UNCHANGED <<pc, poisoned, restarts, deathIdx, deathCount, up>> /\ pc = "post"
      BY <2>5 DEF Respond, Posting, Classified, control
    <3>2. corpus[cur].parses \in BOOLEAN
      BY <3>1, ChAssumption DEF TypeOK, More, cur, Stmts, Statement
    <3>3. deathIdx = None /\ deathCount = 0
      BY <2>0, <3>1
    <3>4. EngineInv'
      BY <3>1, <3>3, Zenon DEF EngineInv, None
    <3>5. RestartInv'
      BY <2>0, <3>1 DEF RestartInv
    <3>6. CrashInv'
      BY <1>0, <1>2, <3>1, <3>2, AnswerKeepsCrashes, Zenon
    <3> QED
      BY <3>4, <3>5, <3>6 DEF FaultFree
  <2>6. CASE PostAgain \/ Retry
    <3>1. PostFails /\ UNCHANGED <<valid, poisoned, restarts, deathIdx, deathCount, pc>>
      BY <2>6 DEF PostAgain, Retry, Unreachable, control
    <3>2. corpus[cur].crashes
      BY <1>2, <3>1, FailedPost, Zenon DEF FaultFree
    <3> QED
      BY <2>1, <3>1, <3>2
  <2>7. CASE Crash
    <3>1. /\ PostFails /\ ~SecondCrash /\ deathIdx' = cur /\ deathCount' = 1 /\ Restart
          /\ UNCHANGED <<valid, poisoned>>
      BY <2>7 DEF Crash, Crashed, Unreachable
    <3>2. corpus[cur].crashes /\ More
      BY <1>2, <3>1, FailedPost, Zenon DEF FaultFree
    <3>3. cur' = cur /\ More' = More /\ PoisonedSet' = PoisonedSet
      BY <3>1 DEF cur, More, PoisonedSet
    <3>4. deathCount = 0
      BY <2>0, <3>1 DEF SecondCrash
    <3>5. restarts' = restarts + 1 /\ pc' \in {"start", "aborted"}
          /\ (pc' = "aborted" => restarts' > MaxRestarts)
      BY <3>1, ChAssumption DEF Restart, TypeOK
    <3>6. EngineInv'
      BY <1>0, <3>1, <3>2, <3>3, <3>5 DEF EngineInv
    <3>7. RestartInv'
      BY <2>0, <3>1, <3>4, <3>5 DEF RestartInv, TypeOK
    <3>8. CrashInv'
      BY <1>0, <2>0, <3>1, <3>3, Zenon DEF CrashInv
    <3> QED
      BY <3>6, <3>7, <3>8 DEF FaultFree
  <2>8. CASE Poison
    <3>1. /\ PostFails /\ SecondCrash /\ deathIdx' = None /\ deathCount' = 0 /\ Restart /\ GiveUp
      BY <2>8 DEF Poison, Crashed, Unreachable
    <3>2. corpus[cur].crashes /\ More
      BY <1>2, <3>1, FailedPost, Zenon DEF FaultFree
    <3>3. deathCount = 1
      BY <2>0, <3>1 DEF SecondCrash
    <3>4. restarts' = restarts + 1 /\ pc' \in {"start", "aborted"}
          /\ (pc' = "aborted" => restarts' > MaxRestarts)
      BY <3>1, ChAssumption DEF Restart, TypeOK
    <3>5. EngineInv'
      BY <3>1, <3>4 DEF EngineInv
    <3>6. Len(poisoned') = Len(poisoned) + 1 /\ Len(poisoned) \in Nat
      BY <3>1, <3>2, PoisonAppends DEF GiveUp
    <3>7. RestartInv'
      BY <2>0, <3>1, <3>3, <3>4, <3>6 DEF RestartInv, TypeOK
    <3>8. CrashInv'
      BY <1>0, <1>2, <3>1, <3>2, PoisonKeepsCrashes
    <3> QED
      BY <3>5, <3>7, <3>8 DEF FaultFree
  <2>9. CASE UNCHANGED vars
    BY <2>0, <2>1, <2>9 DEF vars, control
  <2> QED
    BY <2>2, <2>3, <2>4, <2>5, <2>6, <2>7, <2>8, <2>9 DEF Next
<1> QED
  BY <1>1, <1>2

\* No statement is poisoned twice: the list is as long as the set is large.
LEMMA PoisonedCount ==
  ASSUME TypeOK, PoisonedInOrder
  PROVE  IsFiniteSet(PoisonedSet) /\ Cardinality(PoisonedSet) = Len(poisoned)
<1>0. Len(poisoned) \in Nat
  BY DEF TypeOK
<1>1. /\ Len(poisoned) \in Nat /\ IsFiniteSet(1..Len(poisoned))
      /\ Cardinality(1..Len(poisoned)) = Len(poisoned)
  <2>1. /\ IsFiniteSet(1..Len(poisoned))
        /\ Cardinality(1..Len(poisoned)) =
             IF 1 > Len(poisoned) THEN 0 ELSE Len(poisoned) - 1 + 1
    BY <1>0, FS_Interval
  <2> QED
    BY <1>0, <2>1
<1>2. poisoned \in [1..Len(poisoned) -> PoisonedSet]
  BY LenProperties DEF TypeOK, PoisonedSet
<1>3. ASSUME NEW j \in 1..Len(poisoned), NEW k \in 1..Len(poisoned), poisoned[j] = poisoned[k]
      PROVE  j = k
  <2>0. poisoned[j] \in Stmts /\ poisoned[k] \in Stmts
    BY ElementOfSeq DEF TypeOK
  <2>1. poisoned[j] \in Nat /\ poisoned[k] \in Nat
    BY <2>0, ChAssumption DEF Stmts
  <2>2. (j < k => poisoned[j] < poisoned[k]) /\ (k < j => poisoned[k] < poisoned[j])
    BY Zenon DEF PoisonedInOrder
  <2> QED
    BY <1>1, <1>3, <2>1, <2>2
<1>4. poisoned \in Bijection(1..Len(poisoned), PoisonedSet)
  BY <1>2, <1>3, Zenon DEF Bijection, Injection, Surjection, IsInjective, PoisonedSet
<1>5. ExistsBijection(1..Len(poisoned), PoisonedSet)
  BY <1>4 DEF ExistsBijection
<1> QED
  BY <1>1, <1>5, FS_Bijection, FS_CountingElements

\* Without faults, an aborted labelling had more crashing statements than the
\* restarts allow.
LEMMA CrashersPay ==
  ASSUME TypeOK, PoisonedInOrder, FaultFree, faults = {}
  PROVE  restarts <= 2 * Cardinality({i \in Stmts : corpus[i].crashes})
<1> DEFINE crashers == {i \in Stmts : corpus[i].crashes}
<1>0. /\ restarts = 2 * Len(poisoned) + deathCount
      /\ \/ deathCount = 0
         \/ deathCount = 1 /\ More /\ corpus[cur].crashes
      /\ \A i \in 1..Len(valid) : corpus[i].crashes <=> i \in PoisonedSet
  BY Zenon DEF FaultFree, EngineInv, RestartInv, CrashInv
<1>1. /\ PoisonedSet \subseteq 1..Len(valid) /\ cur \notin PoisonedSet
      /\ cur = Len(valid) + 1 /\ Len(valid) \in Nat /\ Len(valid) <= NumStmts
  BY PoisonedAreDone DEF TypeOK
<1>2. PoisonedSet \subseteq crashers
  BY <1>0, <1>1, ChAssumption DEF Stmts
<1>3. IsFiniteSet(crashers)
  <2>1. IsFiniteSet(Stmts)
    BY FS_Interval, ChAssumption DEF Stmts
  <2>2. crashers \in SUBSET Stmts
    OBVIOUS
  <2> QED
    BY <2>1, <2>2, FS_Subset
<1>4. IsFiniteSet(PoisonedSet) /\ Cardinality(PoisonedSet) = Len(poisoned) /\ Len(poisoned) \in Nat
  BY PoisonedCount DEF TypeOK
<1>5. Cardinality(crashers) \in Nat
  BY <1>3, FS_CardinalityType
<1>6. CASE deathCount = 0
  <2>1. Cardinality(PoisonedSet) <= Cardinality(crashers)
    BY <1>2, <1>3, FS_Subset
  <2> QED
    BY <1>0, <1>4, <1>5, <1>6, <2>1
<1>7. CASE deathCount = 1 /\ More /\ corpus[cur].crashes
  <2>1. cur \in crashers
    BY <1>1, <1>7, ChAssumption DEF More, Stmts
  <2>2. Cardinality(PoisonedSet \cup {cur}) = Len(poisoned) + 1
    BY <1>1, <1>4, FS_AddElement
  <2>3. Cardinality(PoisonedSet \cup {cur}) <= Cardinality(crashers)
    BY <1>2, <1>3, <2>1, FS_Subset
  <2> QED
    BY <1>0, <1>4, <1>5, <1>7, <2>2, <2>3
<1> QED
  BY <1>0, <1>6, <1>7

\* For every corpus and every cap: an engine that fails only at the statements
\* that crash it poisons exactly those, at two restarts each, and the labelling is
\* aborted only if they are more than the restarts allow.
THEOREM ChFaultFree == Spec => []FaultFreeExact
<1>1. Init => TypeOK /\ LoopInv /\ PoisonedInOrder /\ FaultFree
  BY TypeInit, NoVerdictYet, FaultFreeInit
<1>2. TypeOK /\ LoopInv /\ PoisonedInOrder /\ FaultFree /\ [Next]_vars
      => (TypeOK /\ LoopInv /\ PoisonedInOrder /\ FaultFree)'
  BY TypeStep, OrderStep, FaultFreeStep
<1>3. TypeOK /\ LoopInv /\ PoisonedInOrder /\ FaultFree => FaultFreeExact
  <2> SUFFICES ASSUME TypeOK, LoopInv, PoisonedInOrder, FaultFree, faults = {}
               PROVE  /\ \A i \in 1..Len(valid) : corpus[i].crashes <=> i \in PoisonedSet
                      /\ pc = "done" => restarts = 2 * Len(poisoned)
                      /\ pc = "aborted" =>
                           2 * Cardinality({i \in Stmts : corpus[i].crashes}) > MaxRestarts
    BY DEF FaultFreeExact
  <2>1. /\ restarts = 2 * Len(poisoned) + deathCount
        /\ pc = "aborted" => restarts > MaxRestarts
        /\ deathCount = 0 \/ More
        /\ \A i \in 1..Len(valid) : corpus[i].crashes <=> i \in PoisonedSet
    BY Zenon DEF FaultFree, EngineInv, RestartInv, CrashInv
  <2>2. pc = "done" => restarts = 2 * Len(poisoned)
    BY <2>1 DEF LoopInv, TypeOK
  <2>3. restarts <= 2 * Cardinality({i \in Stmts : corpus[i].crashes})
    BY CrashersPay
  <2>4. Cardinality({i \in Stmts : corpus[i].crashes}) \in Nat
    <3>1. IsFiniteSet(Stmts)
      BY FS_Interval, ChAssumption DEF Stmts
    <3>2. {i \in Stmts : corpus[i].crashes} \in SUBSET Stmts
      OBVIOUS
    <3> QED
      BY <3>1, <3>2, FS_Subset, FS_CardinalityType
  <2>5. pc = "aborted" => 2 * Cardinality({i \in Stmts : corpus[i].crashes}) > MaxRestarts
    BY <2>1, <2>3, <2>4, ChAssumption DEF TypeOK
  <2> QED
    BY <2>1, <2>2, <2>5
<1> QED
  BY <1>1, <1>2, <1>3, PTL DEF Spec

-----------------------------------------------------------------------------
(* The adapter implements the abstract labelling                           *)

Running == pc \in {"start", "post"}

\* The labelling is given up: the verdicts so far are dropped.
LEMMA AbortAbandons ==
  ASSUME Running, pc' = "aborted", UNCHANGED <<corpus, faults>>
  PROVE  Abstract!Abandon
BY DEF Running, Abstract!Abandon

\* A step that gives no verdict is not seen.
LEMMA QuietStutters ==
  ASSUME Running, Running', UNCHANGED <<corpus, faults, valid>>
  PROVE  UNCHANGED Abstract!vars
BY DEF Running, Abstract!vars

\* A verdict is the abstract one, if it may be given.
LEMMA VerdictRecords ==
  ASSUME Running, Running', TypeOK, More, UNCHANGED <<corpus, faults>>,
         NEW v \in BOOLEAN, valid' = Append(valid, v),
         v => corpus[cur].parses \/ "server" \in faults
  PROVE  Abstract!Record(v)
<1>1. cur \in Stmts /\ cur = Len(valid) + 1 /\ cur <= NumStmts
  BY ChAssumption DEF More, TypeOK, cur, Stmts
<1> QED
  BY <1>1 DEF Running, Abstract!Record

\* The labeller's initial states are initial states of the abstract labeller.
LEMMA InitImplements == Init => Abstract!Init
<1> SUFFICES ASSUME Init PROVE Abstract!Init
  OBVIOUS
<1>1. [i \in Stmts |-> corpus[i].parses] \in [1..NumStmts -> BOOLEAN]
  BY DEF Init, Statement, Stmts
<1> QED
  BY <1>1 DEF Init, Stmts, Abstract!Init

\* Every step of the labeller is a step of the abstract labeller or leaves it as it is.
LEMMA StepImplements == TypeOK /\ [Next]_vars => [Abstract!Next]_(Abstract!vars)
<1> SUFFICES ASSUME TypeOK, [Next]_vars PROVE [Abstract!Next]_(Abstract!vars)
  OBVIOUS
<1>1. CASE StartEngine \/ StartFails \/ PostAgain \/ Retry \/ Crash
  <2>1. Running /\ UNCHANGED <<corpus, faults, valid>> /\ (Running' \/ pc' = "aborted")
    BY <1>1 DEF StartEngine, StartFails, PostAgain, Retry, Crash, Crashed, Unreachable,
       PostFails, Posting, Restart, Running
  <2> QED
    BY <2>1, QuietStutters, AbortAbandons DEF Abstract!Next
<1>2. CASE Finish
  <2>1. Len(valid) = NumStmts
    BY <1>2, ChAssumption DEF Finish, More, TypeOK
  <2>2. Abstract!Publish
    BY <1>2, <2>1 DEF Finish, Abstract!Publish
  <2> QED
    BY <2>2 DEF Abstract!Next
<1>3. CASE Respond
  <2>1. /\ Running /\ Running' /\ More /\ UNCHANGED <<corpus, faults>>
        /\ valid' = Append(valid, corpus[cur].parses)
    BY <1>3 DEF Respond, Posting, Classified, Running
  <2>2. corpus[cur].parses \in BOOLEAN
    BY <2>1, ChAssumption DEF TypeOK, More, cur, Stmts, Statement
  <2>3. Abstract!Record(corpus[cur].parses)
    BY <2>1, <2>2, VerdictRecords
  <2> QED
    BY <2>2, <2>3 DEF Abstract!Next
<1>4. CASE RespondGarbled
  <2>1. /\ Running /\ Running' /\ More /\ UNCHANGED <<corpus, faults>>
        /\ valid' = Append(valid, FALSE)
    BY <1>4 DEF RespondGarbled, Unclassifiable, Posting, Classified, Running
  <2>2. Abstract!Record(FALSE)
    BY <2>1, VerdictRecords
  <2> QED
    BY <2>2 DEF Abstract!Next
<1>5. CASE RespondTrouble
  <2>1. /\ Running /\ Running' /\ More /\ UNCHANGED <<corpus, faults>>
        /\ valid' = Append(valid, TRUE) /\ "server" \in faults
    BY <1>5 DEF RespondTrouble, Posting, Classified, Running
  <2>2. Abstract!Record(TRUE)
    BY <2>1, VerdictRecords
  <2> QED
    BY <2>2 DEF Abstract!Next
<1>6. CASE Poison
  <2>1. /\ Running /\ (Running' \/ pc' = "aborted") /\ More /\ UNCHANGED <<corpus, faults>>
        /\ valid' = Append(valid, FALSE)
    BY <1>6 DEF Poison, GiveUp, Crashed, Unreachable, PostFails, Posting, Restart, Running
  <2>2. CASE Running'
    <3>1. Abstract!Record(FALSE)
      BY <2>1, <2>2, VerdictRecords
    <3> QED
      BY <3>1 DEF Abstract!Next
  <2>3. CASE pc' = "aborted"
    BY <2>1, <2>3, AbortAbandons DEF Abstract!Next
  <2> QED
    BY <2>1, <2>2, <2>3
<1>7. CASE UNCHANGED vars
  BY <1>7 DEF vars, Abstract!vars
<1> QED
  BY <1>1, <1>2, <1>3, <1>4, <1>5, <1>6, <1>7 DEF Next

\* For every corpus, every cap and every pattern of faults, each step of the
\* adapter is a step of the abstract labelling, or not seen by it.
THEOREM ChSafelyImplements == Spec => LabellingSafety
<1>1. Init => Abstract!Init
  BY InitImplements
<1>2. TypeOK /\ [Next]_vars => [Abstract!Next]_(Abstract!vars)
  BY StepImplements
<1> QED
  BY <1>1, <1>2, ChTypeCorrect, PTL DEF Spec, LabellingSafety

=============================================================================
