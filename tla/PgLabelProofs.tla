--------------------------- MODULE PgLabelProofs ---------------------------
(***************************************************************************)
(* Proofs about PgLabel, for every corpus, every cap and every streak.     *)
(***************************************************************************)
EXTENDS PgLabel, FiniteSetTheorems, SequenceTheorems, TLAPS

\* What a verdict rests on determines the verdict.
BasisInv ==
  \A i \in 1..Len(valid) :
    /\ how[i] = "answer" => valid[i] = corpus[i].parses
    /\ how[i] = "copy"   => valid[i] /\ corpus[i].copy
    /\ how[i] = "trouble" => valid[i]
    /\ how[i] = "poison" => ~valid[i] /\ failed[i] = 2 * MaxStreak

\* A death on record is one death, of a statement that has been probed.
DeathInv ==
  /\ deathCount = 0 <=> deathIdx = None
  /\ deathIdx <= cur

\* The failing probes of the current statement: a whole streak if a session
\* already died at it, and the streak of this session.
PastStreak == IF deathIdx = cur THEN MaxStreak ELSE 0

FailedInv ==
  /\ \A j \in Stmts : j > cur => failed[j] = 0
  /\ More /\ pc = "probe" => failed[cur] = PastStreak + streak
  /\ More /\ pc \in {"start", "connect"} => failed[cur] = PastStreak


-----------------------------------------------------------------------------
(* Type correctness                                                        *)

\* A verdict is added at the end, and leaves the earlier ones alone.
LEMMA VerdictAppends ==
  ASSUME TypeOK, More, NEW v \in BOOLEAN, NEW b \in Basis, Verdict(v, b)
  PROVE  /\ valid' \in Seq(BOOLEAN) /\ how' \in Seq(Basis)
         /\ Len(valid') = Len(valid) + 1 /\ Len(how') = Len(how) + 1
         /\ Len(valid') <= NumStmts
         /\ valid'[cur] = v /\ how'[cur] = b
         /\ \A i \in 1..Len(valid) : valid'[i] = valid[i] /\ how'[i] = how[i]
<1>1. Len(valid) \in Nat /\ Len(valid) < NumStmts /\ Len(how) = Len(valid)
  BY DEF TypeOK, More
<1>2. /\ valid' \in Seq(BOOLEAN)
      /\ Len(valid') = Len(valid) + 1
      /\ valid'[Len(valid) + 1] = v
      /\ \A i \in 1..Len(valid) : valid'[i] = valid[i]
  BY AppendProperties DEF Verdict, TypeOK
<1>3. /\ how' \in Seq(Basis)
      /\ Len(how') = Len(how) + 1
      /\ how'[Len(how) + 1] = b
      /\ \A i \in 1..Len(how) : how'[i] = how[i]
  BY AppendProperties DEF Verdict, TypeOK
<1> QED
  BY <1>1, <1>2, <1>3, PgAssumption DEF cur, Stmts

\* A probe without an answer is booked to the current statement only.
LEMMA FailedProbe ==
  ASSUME TypeOK, NoSqlState
  PROVE  /\ cur \in Stmts /\ More /\ up' \in BOOLEAN
         /\ failed' \in [Stmts -> Nat]
         /\ failed'[cur] = failed[cur] + 1
         /\ \A j \in Stmts : j # cur => failed'[j] = failed[j]
<1>1. cur \in Stmts /\ More
  BY PgAssumption DEF TypeOK, NoSqlState, More, cur, Stmts
<1>2. up' \in BOOLEAN
  BY Zenon DEF TypeOK, NoSqlState
<1>3. failed \in [Stmts -> Nat] /\ failed' = [failed EXCEPT ![cur] = @ + 1]
  BY DEF TypeOK, NoSqlState
<1> QED
  BY <1>1, <1>2, <1>3

\* Every variable keeps its type; in particular `valid` never outgrows the
\* corpus and at most one reconnect beyond the cap is ever counted.
LEMMA TypeInit == Init => TypeOK
<1> SUFFICES ASSUME Init PROVE TypeOK
  OBVIOUS
<1>1. <<>> \in Seq(BOOLEAN) /\ <<>> \in Seq(Basis) /\ Len(<<>>) = 0
  OBVIOUS
<1>2. /\ valid \in Seq(BOOLEAN) /\ Len(valid) <= NumStmts
      /\ how \in Seq(Basis) /\ Len(how) = Len(valid)
  BY <1>1, PgAssumption DEF Init
<1>3. failed \in [Stmts -> Nat]
  BY DEF Init
<1>4. reconnects \in 0..(MaxReconnects + 1) /\ deathCount \in 0..1 /\ streak \in 0..(MaxStreak - 1)
  BY PgAssumption DEF Init
<1> QED
  BY <1>2, <1>3, <1>4 DEF Init, TypeOK

CapInv == pc # "aborted" => reconnects <= MaxReconnects

\* Every step keeps the state typed and the reconnects under their cap.
LEMMA TypeStep == TypeOK /\ CapInv /\ [Next]_vars => TypeOK' /\ CapInv'
<1> SUFFICES ASSUME TypeOK, CapInv, [Next]_vars PROVE TypeOK' /\ CapInv'
  OBVIOUS
<1> USE PgAssumption DEF TypeOK, CapInv, control
<1>1. CASE StartContainer
  BY <1>1 DEF StartContainer
<1>2. CASE Connect
  BY <1>2 DEF Connect, NewSession
<1>3. CASE ConnectFails
  BY <1>3 DEF ConnectFails
<1>4. CASE Finish
  BY <1>4 DEF Finish
<1>5. CASE Answer
  <2>1. corpus[cur].parses \in BOOLEAN /\ "answer" \in Basis /\ More
    BY <1>5 DEF Answer, cur, More, Stmts, Statement, Basis
  <2> QED
    BY <1>5, <2>1, VerdictAppends DEF Answer, Stmts
<1>5a. CASE ServerTrouble
  <2>1. /\ "trouble" \in Basis /\ More /\ Verdict(TRUE, "trouble")
        /\ UNCHANGED <<corpus, faults, pc, reconnects, deathIdx, deathCount, failed>>
        /\ streak' = 0 /\ up' \in BOOLEAN
    BY <1>5a DEF ServerTrouble, Basis
  <2>2. /\ valid' \in Seq(BOOLEAN) /\ Len(valid') <= NumStmts
        /\ how' \in Seq(Basis) /\ Len(how') = Len(how) + 1 /\ Len(valid') = Len(valid) + 1
    BY <2>1, VerdictAppends, Zenon
  <2> QED
    BY <2>1, <2>2
<1>6. CASE CopyToStdout
  <2>1. "copy" \in Basis /\ More /\ up' \in BOOLEAN /\ failed' \in [Stmts -> Nat]
    BY <1>6, FailedProbe DEF CopyToStdout, Basis
  <2>2. pc = "probe"
    BY <1>6 DEF CopyToStdout, NoSqlState
  <2>3. /\ valid' \in Seq(BOOLEAN) /\ Len(valid') <= NumStmts
        /\ how' \in Seq(Basis) /\ Len(how') = Len(how) + 1 /\ Len(valid') = Len(valid) + 1
    BY <1>6, <2>1, VerdictAppends, Zenon DEF CopyToStdout
  <2> QED
    BY <1>6, <2>1, <2>2, <2>3 DEF CopyToStdout, Reconnect
<1>7. CASE Retry
  BY <1>7, FailedProbe DEF Retry, MayRetry
<1>8. CASE Death
  <2>1. pc = "probe"
    BY <1>8 DEF Death, SessionGivenUp, NoSqlState
  <2> QED
    BY <1>8, <2>1, FailedProbe DEF Death, SessionGivenUp, Reconnect
<1>9. CASE Poison
  <2>1. "poison" \in Basis /\ More /\ up' \in BOOLEAN /\ failed' \in [Stmts -> Nat]
    BY <1>9, FailedProbe DEF Poison, SessionGivenUp, Basis
  <2>2. pc = "probe"
    BY <1>9 DEF Poison, SessionGivenUp, NoSqlState
  <2>3. /\ valid' \in Seq(BOOLEAN) /\ Len(valid') <= NumStmts
        /\ how' \in Seq(Basis) /\ Len(how') = Len(how) + 1 /\ Len(valid') = Len(valid) + 1
    BY <1>9, <2>1, VerdictAppends, Zenon DEF Poison, GiveUpVerdict
  <2> QED
    BY <1>9, <2>1, <2>2, <2>3 DEF Poison, Reconnect
<1>10. CASE UNCHANGED vars
  BY <1>10 DEF vars
<1> QED
  BY <1>1, <1>2, <1>3, <1>4, <1>5, <1>5a, <1>6, <1>7, <1>8, <1>9, <1>10 DEF Next

\* Type correctness.
THEOREM TypeCorrect == Spec => []TypeOK
<1>1. Init => TypeOK /\ CapInv
  BY TypeInit, PgAssumption DEF Init, CapInv
<1>2. TypeOK /\ CapInv /\ [Next]_vars => TypeOK' /\ CapInv'
  BY TypeStep
<1> QED
  BY <1>1, <1>2, PTL DEF Spec

-----------------------------------------------------------------------------
(* What the verdicts rest on                                               *)

History == BasisInv /\ DeathInv /\ FailedInv

\* Before the first statement there is no verdict to account for.
LEMMA HistoryInit == Init => History
<1> SUFFICES ASSUME Init PROVE History
  OBVIOUS
<1>1. valid = <<>> /\ Len(valid) = 0 /\ cur = 1
  BY DEF Init, cur
<1>2. BasisInv
  BY <1>1 DEF BasisInv
<1>3. DeathInv
  BY <1>1 DEF Init, DeathInv, None
<1>4. FailedInv
  BY <1>1, PgAssumption DEF Init, FailedInv, PastStreak, None, More, Stmts
<1> QED
  BY <1>2, <1>3, <1>4 DEF History

\* A step that gives no verdict and changes no count of failing probes keeps
\* what is known about the verdicts.
LEMMA NoVerdictKeepsBasis ==
  ASSUME TypeOK, BasisInv, UNCHANGED <<corpus, valid, how>>,
         \A j \in Stmts : j # cur => failed'[j] = failed[j]
  PROVE  BasisInv'
<1> SUFFICES ASSUME NEW i \in 1..Len(valid)
             PROVE  /\ how[i] = "answer" => valid[i] = corpus[i].parses
                    /\ how[i] = "copy"   => valid[i] /\ corpus[i].copy
                    /\ how[i] = "trouble" => valid[i]
                    /\ how[i] = "poison" => ~valid[i] /\ failed'[i] = 2 * MaxStreak
  BY DEF BasisInv
<1>1. i \in Stmts /\ i # cur
  BY PgAssumption DEF TypeOK, Stmts, cur
<1>2. failed'[i] = failed[i]
  BY <1>1
<1>3. /\ how[i] = "answer" => valid[i] = corpus[i].parses
      /\ how[i] = "copy"   => valid[i] /\ corpus[i].copy
      /\ how[i] = "trouble" => valid[i]
      /\ how[i] = "poison" => ~valid[i] /\ failed[i] = 2 * MaxStreak
  BY DEF BasisInv
<1> QED
  BY <1>2, <1>3

\* A new verdict keeps what is known of the others, and adds what it rests on.
LEMMA VerdictKeepsBasis ==
  ASSUME TypeOK, BasisInv, More, NEW v \in BOOLEAN, NEW b \in Basis, Verdict(v, b),
         UNCHANGED corpus,
         \A j \in Stmts : j # cur => failed'[j] = failed[j],
         b = "answer" => v = corpus[cur].parses,
         b = "copy"   => v /\ corpus[cur].copy,
         b = "trouble" => v,
         b = "poison" => ~v /\ failed'[cur] = 2 * MaxStreak
  PROVE  BasisInv'
<1> SUFFICES ASSUME NEW i \in 1..Len(valid')
             PROVE  /\ how'[i] = "answer" => valid'[i] = corpus[i].parses
                    /\ how'[i] = "copy"   => valid'[i] /\ corpus[i].copy
                    /\ how'[i] = "trouble" => valid'[i]
                    /\ how'[i] = "poison" => ~valid'[i] /\ failed'[i] = 2 * MaxStreak
  BY DEF BasisInv
<1>1. /\ Len(valid') = Len(valid) + 1
      /\ valid'[cur] = v /\ how'[cur] = b
      /\ \A j \in 1..Len(valid) : valid'[j] = valid[j] /\ how'[j] = how[j]
  BY VerdictAppends, Zenon
<1>2. CASE i = cur
  BY <1>1, <1>2, Zenon
<1>3. CASE i # cur
  <2>1. i \in 1..Len(valid) /\ i \in Stmts
    BY <1>1, <1>3, PgAssumption DEF TypeOK, cur, Stmts
  <2>2. valid'[i] = valid[i] /\ how'[i] = how[i] /\ failed'[i] = failed[i]
    BY <1>1, <1>3, <2>1
  <2>3. /\ how[i] = "answer" => valid[i] = corpus[i].parses
        /\ how[i] = "copy"   => valid[i] /\ corpus[i].copy
        /\ how[i] = "trouble" => valid[i]
        /\ how[i] = "poison" => ~valid[i] /\ failed[i] = 2 * MaxStreak
    BY <2>1 DEF BasisInv
  <2> QED
    BY <2>2, <2>3, Zenon
<1> QED
  BY <1>2, <1>3

\* After a verdict the next statement has a clean record: no failing probe is
\* booked to it, and no death either.
LEMMA VerdictMovesOn ==
  ASSUME TypeOK, DeathInv, FailedInv, Len(valid') = Len(valid) + 1,
         \A j \in Stmts : j # cur => failed'[j] = failed[j],
         deathIdx' = None \/ deathIdx' = deathIdx,
         pc' = "probe" => streak' = 0
  PROVE  FailedInv'
<1>1. Len(valid) \in Nat /\ cur' = cur + 1 /\ cur \in Nat /\ cur # 0
  BY DEF TypeOK, cur
<1>2. PastStreak' = 0
  BY <1>1, PgAssumption DEF PastStreak, DeathInv, TypeOK, None, Stmts
<1>3. \A j \in Stmts : j > cur => failed'[j] = 0
  BY <1>1, PgAssumption DEF FailedInv, Stmts
<1>4. More' => cur' \in Stmts
  BY <1>1, PgAssumption DEF More, cur, Stmts
<1>5. \A j \in Stmts : j > cur' => failed'[j] = 0
  BY <1>1, <1>3, PgAssumption DEF Stmts
<1>6. More' => failed'[cur'] = 0
  BY <1>1, <1>3, <1>4
<1> QED
  BY <1>2, <1>5, <1>6 DEF FailedInv

\* Every step keeps the bookkeeping of verdicts, deaths and failing probes.
LEMMA HistoryStep == TypeOK /\ History /\ [Next]_vars => History'
<1> SUFFICES ASSUME TypeOK, History, [Next]_vars PROVE History'
  OBVIOUS
<1>0. BasisInv /\ DeathInv /\ FailedInv
  BY DEF History
<1>1. CASE StartContainer
  BY <1>0, <1>1 DEF StartContainer, control, History, BasisInv, DeathInv, FailedInv,
     PastStreak, cur, More
<1>2. CASE Connect
  <2>1. BasisInv' /\ DeathInv'
    BY <1>0, <1>2 DEF Connect, NewSession, control, BasisInv, DeathInv, cur
  <2>2. PastStreak \in Nat
    BY PgAssumption DEF PastStreak
  <2>3. FailedInv'
    BY <1>0, <1>2, <2>2 DEF Connect, NewSession, control, FailedInv, PastStreak, cur, More
  <2> QED
    BY <2>1, <2>3 DEF History
<1>3. CASE ConnectFails
  BY <1>0, <1>3 DEF ConnectFails, control, History, BasisInv, DeathInv, FailedInv,
     PastStreak, cur, More
<1>4. CASE Finish
  BY <1>0, <1>4 DEF Finish, control, History, BasisInv, DeathInv, FailedInv,
     PastStreak, cur, More
<1>5. CASE Answer
  <2>1. More /\ corpus[cur].parses \in BOOLEAN /\ "answer" \in Basis
    BY <1>5, PgAssumption DEF Answer, More, TypeOK, cur, Stmts, Statement, Basis
  <2>2. Len(valid') = Len(valid) + 1
    BY <1>5, <2>1, VerdictAppends DEF Answer
  <2>3. BasisInv'
    BY <1>0, <1>5, <2>1, VerdictKeepsBasis DEF Answer
  <2>4. DeathInv'
    BY <1>0, <1>5, <2>2, PgAssumption DEF Answer, control, DeathInv, cur, TypeOK, Stmts, None
  <2>5. FailedInv'
    BY <1>0, <1>5, <2>2, VerdictMovesOn DEF Answer, control
  <2> QED
    BY <2>3, <2>4, <2>5 DEF History
<1>5a. CASE ServerTrouble
  <2>1. /\ More /\ "trouble" \in Basis /\ Verdict(TRUE, "trouble")
        /\ UNCHANGED <<corpus, failed, deathIdx, deathCount>> /\ streak' = 0
    BY <1>5a DEF ServerTrouble, control, Basis
  <2>2. Len(valid') = Len(valid) + 1
    BY <2>1, VerdictAppends, Zenon
  <2>3. BasisInv'
    BY <1>0, <2>1, VerdictKeepsBasis, Zenon
  <2>4. DeathInv'
    BY <1>0, <2>1, <2>2, PgAssumption DEF DeathInv, cur, TypeOK, Stmts, None
  <2>5. FailedInv'
    BY <1>0, <2>1, <2>2, VerdictMovesOn
  <2> QED
    BY <2>3, <2>4, <2>5 DEF History
<1>6. CASE CopyToStdout
  <2>1. /\ cur \in Stmts /\ More /\ "copy" \in Basis
        /\ \A j \in Stmts : j # cur => failed'[j] = failed[j]
    BY <1>6, FailedProbe DEF CopyToStdout, Basis
  <2>2. /\ corpus[cur].copy /\ Verdict(TRUE, "copy") /\ UNCHANGED corpus
        /\ deathIdx' = None /\ deathCount' = 0
    BY <1>6 DEF CopyToStdout
  <2>3. Len(valid') = Len(valid) + 1
    BY <2>1, <2>2, VerdictAppends, Zenon
  <2>4. BasisInv'
    BY <1>0, <2>1, <2>2, VerdictKeepsBasis, Zenon
  <2>5. DeathInv'
    BY <2>2, <2>3 DEF DeathInv, None, cur, TypeOK
  <2>6. pc' # "probe"
    BY <1>6 DEF CopyToStdout, Reconnect
  <2>7. FailedInv'
    BY <1>0, <2>1, <2>2, <2>3, <2>6, VerdictMovesOn
  <2> QED
    BY <2>4, <2>5, <2>7 DEF History
<1>7. CASE Retry
  <2>1. /\ cur \in Stmts /\ failed'[cur] = failed[cur] + 1
        /\ \A j \in Stmts : j # cur => failed'[j] = failed[j]
    BY <1>7, FailedProbe DEF Retry
  <2>2. /\ UNCHANGED <<corpus, pc, valid, how, deathIdx, deathCount>>
        /\ streak' = streak + 1 /\ pc = "probe" /\ More /\ cur' = cur
    BY <1>7 DEF Retry, NoSqlState, control, cur
  <2>3. BasisInv'
    BY <1>0, <2>1, <2>2, NoVerdictKeepsBasis
  <2>4. DeathInv'
    BY <1>0, <2>2 DEF DeathInv
  <2>5. failed[cur] = PastStreak + streak /\ PastStreak' = PastStreak /\ PastStreak \in Nat
    BY <1>0, <2>2, PgAssumption DEF FailedInv, PastStreak
  <2>6. failed'[cur'] = PastStreak' + streak'
    BY <2>1, <2>2, <2>5 DEF TypeOK
  <2>7. FailedInv'
    BY <1>0, <2>1, <2>2, <2>6, PgAssumption DEF FailedInv, Stmts
  <2> QED
    BY <2>3, <2>4, <2>7 DEF History
<1>8. CASE Death
  <2>1. /\ cur \in Stmts /\ failed'[cur] = failed[cur] + 1
        /\ \A j \in Stmts : j # cur => failed'[j] = failed[j]
    BY <1>8, FailedProbe DEF Death, SessionGivenUp
  <2>2. /\ UNCHANGED <<corpus, valid, how>> /\ ~(streak + 1 < MaxStreak)
        /\ deathIdx' = cur /\ deathCount' = 1 /\ pc = "probe" /\ More /\ cur' = cur
    BY <1>8 DEF Death, SessionGivenUp, MayRetry, NoSqlState, cur
  <2>3. BasisInv'
    BY <1>0, <2>1, <2>2, NoVerdictKeepsBasis
  <2>4. DeathInv'
    BY <2>1, <2>2, PgAssumption DEF DeathInv, Stmts, None
  <2>5. deathIdx # cur
    BY <1>0, <1>8, <2>1, PgAssumption DEF Death, FirstDeath, SecondDeath, DeathInv, TypeOK, Stmts, None
  <2>6. failed'[cur'] = MaxStreak /\ PastStreak' = MaxStreak
    BY <1>0, <2>1, <2>2, <2>5, PgAssumption DEF FailedInv, PastStreak, TypeOK
  <2>7. pc' # "probe"
    BY <1>8 DEF Death, Reconnect
  <2>8. FailedInv'
    BY <1>0, <2>1, <2>2, <2>6, <2>7, PgAssumption DEF FailedInv, Stmts
  <2> QED
    BY <2>3, <2>4, <2>8 DEF History
<1>9. CASE Poison
  <2>1. /\ cur \in Stmts /\ More /\ "poison" \in Basis /\ failed'[cur] = failed[cur] + 1
        /\ \A j \in Stmts : j # cur => failed'[j] = failed[j]
    BY <1>9, FailedProbe DEF Poison, SessionGivenUp, Basis
  <2>2. /\ Verdict(FALSE, "poison") /\ UNCHANGED corpus /\ ~(streak + 1 < MaxStreak)
        /\ deathIdx' = None /\ deathCount' = 0 /\ pc = "probe" /\ deathIdx = cur
    BY <1>9 DEF Poison, SessionGivenUp, MayRetry, NoSqlState, GiveUpVerdict, SecondDeath
  <2>3. Len(valid') = Len(valid) + 1
    BY <2>1, <2>2, VerdictAppends, Zenon
  <2>4. failed'[cur] = 2 * MaxStreak
    BY <1>0, <2>1, <2>2, PgAssumption DEF FailedInv, PastStreak, TypeOK
  <2>5. BasisInv'
    BY <1>0, <2>1, <2>2, <2>4, VerdictKeepsBasis, Zenon
  <2>6. DeathInv'
    BY <2>2, <2>3 DEF DeathInv, None, cur, TypeOK
  <2>7. pc' # "probe"
    BY <1>9 DEF Poison, Reconnect
  <2>8. FailedInv'
    BY <1>0, <2>1, <2>2, <2>3, <2>7, VerdictMovesOn
  <2> QED
    BY <2>5, <2>6, <2>8 DEF History
<1>10. CASE UNCHANGED vars
  BY <1>0, <1>10 DEF vars, control, History, BasisInv, DeathInv, FailedInv,
     PastStreak, cur, More
<1> QED
  BY <1>1, <1>2, <1>3, <1>4, <1>5, <1>5a, <1>6, <1>7, <1>8, <1>9, <1>10 DEF Next

\* The bookkeeping of the labeller holds in every reachable state.
LEMMA Bookkeeping == Spec => [](TypeOK /\ CapInv /\ History)
<1>1. Init => TypeOK /\ CapInv /\ History
  BY TypeInit, HistoryInit, PgAssumption DEF Init, CapInv
<1>2. TypeOK /\ CapInv /\ History /\ [Next]_vars => (TypeOK /\ CapInv /\ History)'
  BY TypeStep, HistoryStep
<1> QED
  BY <1>1, <1>2, PTL DEF Spec

\* For every corpus and every behaviour of the server and the network, a
\* statement called valid is accepted by the grammar, is a COPY by its text, or
\* was answered with an SQLSTATE.
THEOREM Soundness == Spec => []VerdictsSound
<1>1. TypeOK /\ History => VerdictsSound
  <2> SUFFICES ASSUME TypeOK, BasisInv, NEW i \in 1..Len(valid), valid[i]
               PROVE  corpus[i].parses \/ corpus[i].copy \/ how[i] = "trouble"
    BY DEF History, VerdictsSound
  <2>1. how[i] \in Basis
    BY DEF TypeOK
  <2> QED
    BY <2>1, Zenon DEF BasisInv, Basis
<1> QED
  BY <1>1, Bookkeeping, PTL

\* For every cap and every streak, a statement the grammar accepts is called
\* invalid only after two whole streaks of failing probes at it.
THEOREM InvalidIsEarned == Spec => []InnocentInvalidEarned
<1>1. TypeOK /\ History => InnocentInvalidEarned
  <2> SUFFICES ASSUME TypeOK, BasisInv, NEW i \in 1..Len(valid), ~valid[i], corpus[i].parses
               PROVE  failed[i] = 2 * MaxStreak
    BY DEF History, InnocentInvalidEarned
  <2>1. how[i] \in Basis
    BY DEF TypeOK
  <2> QED
    BY <2>1, Zenon DEF BasisInv, Basis
<1> QED
  BY <1>1, Bookkeeping, PTL

-----------------------------------------------------------------------------
(* The budget of reconnects                                                *)

\* The statements labelled on one basis are finitely many, so they can be counted.
LEMMA ByBasisFinite ==
  ASSUME TypeOK, NEW b
  PROVE  /\ ByBasis(b) \in SUBSET (1..Len(how)) /\ IsFiniteSet(ByBasis(b))
         /\ Cardinality(ByBasis(b)) \in Nat
<1>1. ByBasis(b) \in SUBSET (1..Len(how)) /\ Len(how) \in Nat
  BY DEF ByBasis, TypeOK
<1>2. IsFiniteSet(1..Len(how))
  BY <1>1, FS_Interval
<1> QED
  BY <1>1, <1>2, FS_Subset, FS_CardinalityType

\* A verdict adds one element to the set of its basis, and none to the others.
LEMMA VerdictCounts ==
  ASSUME TypeOK, More, NEW v \in BOOLEAN, NEW b \in Basis, Verdict(v, b), NEW c
  PROVE  Cardinality(ByBasis(c)') = Cardinality(ByBasis(c)) + (IF c = b THEN 1 ELSE 0)
<1>1. /\ Len(how') = Len(how) + 1 /\ how'[cur] = b
      /\ \A i \in 1..Len(valid) : how'[i] = how[i]
  BY VerdictAppends, Zenon
<1>2. Len(how) = Len(valid) /\ Len(how) \in Nat
  BY DEF TypeOK
<1>3. ByBasis(c)' = IF c = b THEN ByBasis(c) \cup {cur} ELSE ByBasis(c)
  BY <1>1, <1>2 DEF ByBasis, cur
<1>4. cur \notin ByBasis(c)
  BY <1>2 DEF ByBasis, cur
<1>5. IsFiniteSet(ByBasis(c)) /\ Cardinality(ByBasis(c)) \in Nat
  BY ByBasisFinite
<1>6. Cardinality(ByBasis(c) \cup {cur}) = Cardinality(ByBasis(c)) + 1
  BY <1>4, <1>5, FS_AddElement
<1>7. CASE c = b
  BY <1>3, <1>6, <1>7
<1>8. CASE c # b
  BY <1>3, <1>5, <1>8
<1> QED
  BY <1>7, <1>8

\* Before the first statement no reconnect is spent.
LEMMA BudgetInit == Init => ReconnectBudget
<1> SUFFICES ASSUME Init PROVE ReconnectBudget
  OBVIOUS
<1>1. ByBasis("poison") = {} /\ ByBasis("copy") = {}
  BY DEF Init, ByBasis
<1>2. Cardinality(ByBasis("poison")) = 0 /\ Cardinality(ByBasis("copy")) = 0
  BY <1>1, FS_EmptySet, Zenon
<1>3. PendingDeath = 0
  BY DEF Init, PendingDeath
<1> QED
  BY <1>2, <1>3, PgAssumption DEF Init, ReconnectBudget

\* Every step keeps the given-up statements and the COPYs within the reconnects counted.
LEMMA BudgetStep ==
  TypeOK /\ CapInv /\ History /\ ReconnectBudget /\ [Next]_vars => ReconnectBudget'
<1> SUFFICES ASSUME TypeOK, CapInv, History, ReconnectBudget, [Next]_vars
             PROVE  ReconnectBudget'
  OBVIOUS
<1> DEFINE poisons == Cardinality(ByBasis("poison"))
           copies  == Cardinality(ByBasis("copy"))
<1>0. /\ poisons \in Nat /\ copies \in Nat /\ reconnects \in Nat
      /\ deathCount \in 0..1 /\ Len(valid) \in Nat
      /\ 2 * poisons + copies + PendingDeath <= reconnects
      /\ deathCount = 0 <=> deathIdx = None
      /\ deathIdx <= cur
  BY ByBasisFinite, PgAssumption DEF TypeOK, ReconnectBudget, History, DeathInv
<1>00. CapInv'
  BY TypeStep
<1>1. ASSUME UNCHANGED <<valid, how, control>> PROVE ReconnectBudget'
  <2>1. PendingDeath' = PendingDeath /\ reconnects' = reconnects
    BY <1>1 DEF PendingDeath, cur, control
  <2>2. poisons' = poisons /\ copies' = copies
    BY <1>1 DEF ByBasis
  <2> QED
    BY <1>0, <1>00, <2>1, <2>2 DEF ReconnectBudget, CapInv
<1>2. CASE StartContainer \/ Connect \/ ConnectFails \/ Finish \/ Retry \/ UNCHANGED vars
  BY <1>1, <1>2 DEF StartContainer, Connect, ConnectFails, Finish, Retry, vars
<1>3. CASE Answer \/ ServerTrouble
  <2>0. /\ corpus[cur].parses \in BOOLEAN /\ "answer" \in Basis /\ "trouble" \in Basis
        /\ More /\ UNCHANGED control
    <3>1. More /\ UNCHANGED control
      BY <1>3 DEF Answer, ServerTrouble
    <3>2. cur \in Stmts
      BY <3>1, PgAssumption DEF More, TypeOK, cur, Stmts
    <3>3. corpus[cur].parses \in BOOLEAN
      BY <3>2 DEF TypeOK, Statement
    <3> QED
      BY <3>1, <3>3 DEF Basis
  <2>1. PICK v \in BOOLEAN, b \in Basis : b \in {"answer", "trouble"} /\ Verdict(v, b)
    BY <1>3, <2>0, Zenon DEF Answer, ServerTrouble
  <2>2. poisons' = poisons /\ copies' = copies
    <3>1. /\ Cardinality(ByBasis("poison")') = poisons + (IF "poison" = b THEN 1 ELSE 0)
          /\ Cardinality(ByBasis("copy")') = copies + (IF "copy" = b THEN 1 ELSE 0)
      BY <2>0, <2>1, VerdictCounts, Zenon
    <3> QED
      BY <1>0, <2>1, <3>1
  <2>3. Len(valid') = Len(valid) + 1
    BY <2>0, <2>1, VerdictAppends, Zenon
  <2>4. PendingDeath' = 0 /\ PendingDeath \in Nat
    BY <1>0, <2>0, <2>3 DEF PendingDeath, control, cur, TypeOK, None
  <2> QED
    BY <1>0, <1>00, <2>0, <2>2, <2>4 DEF ReconnectBudget, CapInv, control
<1>4. CASE CopyToStdout
  <2>1. /\ More /\ "copy" \in Basis /\ Verdict(TRUE, "copy")
        /\ deathCount' = 0 /\ reconnects' = reconnects + 1
    BY <1>4, FailedProbe DEF CopyToStdout, Reconnect, Basis
  <2>2. /\ Cardinality(ByBasis("poison")') = poisons + (IF "poison" = "copy" THEN 1 ELSE 0)
        /\ Cardinality(ByBasis("copy")') = copies + (IF "copy" = "copy" THEN 1 ELSE 0)
    BY <2>1, VerdictCounts, Zenon
  <2>3. PendingDeath' = 0 /\ PendingDeath \in Nat
    BY <1>0, <2>1 DEF PendingDeath
  <2> QED
    BY <1>0, <1>00, <2>1, <2>2, <2>3 DEF ReconnectBudget, CapInv
<1>5. CASE Death
  <2>1. /\ UNCHANGED <<valid, how>> /\ deathIdx' = cur /\ deathCount' = 1 /\ cur' = cur
        /\ reconnects' = reconnects + 1 /\ FirstDeath
    BY <1>5 DEF Death, Reconnect, cur
  <2>2. PendingDeath = 0 /\ PendingDeath' = 1
    BY <1>0, <2>1 DEF PendingDeath, FirstDeath, SecondDeath
  <2>3. poisons' = poisons /\ copies' = copies
    BY <2>1 DEF ByBasis
  <2> QED
    BY <1>0, <1>00, <2>1, <2>2, <2>3 DEF ReconnectBudget, CapInv
<1>6. CASE Poison
  <2>1. /\ More /\ "poison" \in Basis /\ Verdict(FALSE, "poison")
        /\ deathCount' = 0 /\ reconnects' = reconnects + 1 /\ SecondDeath
    BY <1>6, FailedProbe DEF Poison, SessionGivenUp, GiveUpVerdict, Reconnect, Basis
  <2>2. /\ Cardinality(ByBasis("poison")') = poisons + (IF "poison" = "poison" THEN 1 ELSE 0)
        /\ Cardinality(ByBasis("copy")') = copies + (IF "copy" = "poison" THEN 1 ELSE 0)
    BY <2>1, VerdictCounts, Zenon
  <2>3. PendingDeath' = 0 /\ PendingDeath = 1
    BY <1>0, <2>1 DEF PendingDeath, SecondDeath
  <2> QED
    BY <1>0, <1>00, <2>1, <2>2, <2>3 DEF ReconnectBudget, CapInv
<1> QED
  BY <1>2, <1>3, <1>4, <1>5, <1>6 DEF Next

\* For every cap: given-up statements and COPY statements are paid for with
\* reconnects, two and one each, and a labelling that is not abandoned stays
\* within the cap.
THEOREM Budget == Spec => []ReconnectBudget
<1>1. Init => ReconnectBudget
  BY BudgetInit
<1>2. /\ TypeOK /\ CapInv /\ History /\ ReconnectBudget /\ [Next]_vars
      => ReconnectBudget'
  BY BudgetStep
<1> QED
  BY <1>1, <1>2, Bookkeeping, PTL DEF Spec

-----------------------------------------------------------------------------
(* The adapter implements the abstract labelling                           *)

Running == pc \in {"start", "connect", "probe"}

\* The labelling is given up: the verdicts so far are dropped.
LEMMA AbortAbandons ==
  ASSUME Running, pc' = "aborted", UNCHANGED <<corpus, faults>>
  PROVE  Abstract!Abandon
BY DEF Running, Abstract!Abandon

\* A step that gives no verdict is not seen.
LEMMA QuietStutters ==
  ASSUME Running, Running', UNCHANGED <<corpus, faults, valid>>
  PROVE  UNCHANGED Abstract!vars
BY DEF Running, Abstract!vars

\* A verdict is the abstract one, if it may be given.
LEMMA VerdictRecords ==
  ASSUME Running, Running', TypeOK, More, UNCHANGED <<corpus, faults>>,
         NEW v \in BOOLEAN, NEW b, Verdict(v, b),
         v => corpus[cur].parses \/ corpus[cur].copy \/ "server" \in faults
  PROVE  Abstract!Record(v)
<1>1. cur \in Stmts /\ cur = Len(valid) + 1 /\ cur <= NumStmts
  BY PgAssumption DEF More, TypeOK, cur, Stmts
<1>2. valid' = Append(valid, v)
  BY DEF Verdict
<1> QED
  BY <1>1, <1>2 DEF Running, Abstract!Record

\* The labeller's initial states are initial states of the abstract labeller.
LEMMA InitImplements == Init => Abstract!Init
<1> SUFFICES ASSUME Init PROVE Abstract!Init
  OBVIOUS
<1>1. [i \in Stmts |-> corpus[i].parses] \in [1..NumStmts -> BOOLEAN]
  BY DEF Init, Statement, Stmts
<1> QED
  BY <1>1 DEF Init, Stmts, Abstract!Init

\* Every step of the labeller is a step of the abstract labeller or leaves it as it is.
LEMMA StepImplements == TypeOK /\ [Next]_vars => [Abstract!Next]_(Abstract!vars)
<1> SUFFICES ASSUME TypeOK, [Next]_vars PROVE [Abstract!Next]_(Abstract!vars)
  OBVIOUS
<1>1. CASE StartContainer \/ Connect \/ ConnectFails \/ Retry
  <2>1. Running /\ UNCHANGED <<corpus, faults, valid>> /\ (Running' \/ pc' = "aborted")
    BY <1>1 DEF StartContainer, Connect, NewSession, ConnectFails, Retry, NoSqlState, Running
  <2> QED
    BY <2>1, QuietStutters, AbortAbandons DEF Abstract!Next
<1>2. CASE Finish
  <2>1. Running /\ pc' = "done" /\ UNCHANGED <<corpus, faults, valid>> /\ Len(valid) = NumStmts
    BY <1>2, PgAssumption DEF Finish, Running, More, TypeOK
  <2>2. Abstract!Publish
    BY <2>1 DEF Running, Abstract!Publish
  <2> QED
    BY <2>2 DEF Abstract!Next
<1>3. CASE Answer
  <2>1. /\ Running /\ Running' /\ More /\ UNCHANGED <<corpus, faults>>
        /\ Verdict(corpus[cur].parses, "answer")
    BY <1>3 DEF Answer, Running
  <2>2. corpus[cur].parses \in BOOLEAN
    BY <2>1, PgAssumption DEF TypeOK, More, cur, Stmts, Statement
  <2>3. Abstract!Record(corpus[cur].parses)
    BY <2>1, <2>2, VerdictRecords
  <2> QED
    BY <2>2, <2>3 DEF Abstract!Next
<1>4. CASE ServerTrouble
  <2>1. /\ Running /\ Running' /\ More /\ UNCHANGED <<corpus, faults>>
        /\ Verdict(TRUE, "trouble") /\ "server" \in faults
    BY <1>4 DEF ServerTrouble, Running
  <2>2. Abstract!Record(TRUE)
    BY <2>1, VerdictRecords
  <2> QED
    BY <2>2 DEF Abstract!Next
<1>5. CASE CopyToStdout
  <2>1. /\ Running /\ (Running' \/ pc' = "aborted") /\ More /\ UNCHANGED <<corpus, faults>>
        /\ Verdict(TRUE, "copy") /\ corpus[cur].copy
    BY <1>5 DEF CopyToStdout, NoSqlState, Reconnect, Running
  <2>2. CASE Running'
    <3>1. Abstract!Record(TRUE)
      BY <2>1, <2>2, VerdictRecords
    <3> QED
      BY <3>1 DEF Abstract!Next
  <2>3. CASE pc' = "aborted"
    BY <2>1, <2>3, AbortAbandons DEF Abstract!Next
  <2> QED
    BY <2>1, <2>2, <2>3
<1>6. CASE Death
  <2>1. Running /\ UNCHANGED <<corpus, faults, valid>> /\ (Running' \/ pc' = "aborted")
    BY <1>6 DEF Death, SessionGivenUp, NoSqlState, Reconnect, Running
  <2> QED
    BY <2>1, QuietStutters, AbortAbandons DEF Abstract!Next
<1>7. CASE Poison
  <2>1. /\ Running /\ (Running' \/ pc' = "aborted") /\ More /\ UNCHANGED <<corpus, faults>>
        /\ Verdict(FALSE, "poison")
    BY <1>7 DEF Poison, GiveUpVerdict, SessionGivenUp, NoSqlState, Reconnect, Running
  <2>2. CASE Running'
    <3>1. Abstract!Record(FALSE)
      BY <2>1, <2>2, VerdictRecords
    <3> QED
      BY <3>1 DEF Abstract!Next
  <2>3. CASE pc' = "aborted"
    BY <2>1, <2>3, AbortAbandons DEF Abstract!Next
  <2> QED
    BY <2>1, <2>2, <2>3
<1>8. CASE UNCHANGED vars
  BY <1>8 DEF vars, Abstract!vars
<1> QED
  BY <1>1, <1>2, <1>3, <1>4, <1>5, <1>6, <1>7, <1>8 DEF Next

\* For every corpus, every cap and every pattern of faults, each step of the
\* adapter is a step of the abstract labelling, or not seen by it.
THEOREM SafelyImplements == Spec => LabellingSafety
<1>1. Init => Abstract!Init
  BY InitImplements
<1>2. TypeOK /\ [Next]_vars => [Abstract!Next]_(Abstract!vars)
  BY StepImplements
<1> QED
  BY <1>1, <1>2, TypeCorrect, PTL DEF Spec, LabellingSafety

=============================================================================
