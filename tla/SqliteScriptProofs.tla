------------------------- MODULE SqliteScriptProofs -------------------------
(***************************************************************************)
(* Proofs about SqliteScript, for corpora of any number of statements of   *)
(* any length. The lexers are recursive functions: that they are total,    *)
(* and agree, is shown by induction, which takes the form that a set of    *)
(* numbers with 0 and every successor is the set of all numbers.           *)
(***************************************************************************)
EXTENDS SqliteScript, SequenceTheorems, WellFoundedInduction, TLAPS

\* Only the last statement of a corpus leaves a line comment open.
CommentsLast ==
  \A c \in Corpora : \A i \in 1..Len(c) : CliScan("none", c[i]) = "--" => i = Len(c)

-----------------------------------------------------------------------------
(* Induction                                                               *)

Below == {p \in Nat \X Nat : p[1] < p[2]}

\* Induction over the naturals, stated for a set.
LEMMA SetInduction ==
  ASSUME NEW S, 0 \in S, \A n \in Nat : n \in S => n + 1 \in S
  PROVE  Nat \subseteq S
<1> DEFINE T == {n \in Nat : n \notin S}
<1>1. ASSUME T # {} PROVE FALSE
  <2>1. IsWellFoundedOn(Below, Nat)
    BY NatLessThanWellFounded DEF OpToRel, Below
  <2>2. T \in SUBSET Nat
    OBVIOUS
  <2> HIDE DEF T
  <2>3. PICK m \in T : \A n \in T : ~(<<n, m>> \in Below)
    BY <1>1, <2>1, <2>2, WFMin, Zenon
  <2> USE DEF T
  <2>4. m \in Nat /\ m # 0 /\ m - 1 \in Nat
    BY <2>3
  <2>5. <<m - 1, m>> \in Below
    BY <2>4 DEF Below
  <2>6. m - 1 \in S /\ m \notin S
    BY <2>3, <2>4, <2>5
  <2>7. (m - 1) + 1 \in S
    BY <2>4, <2>6
  <2> QED
    BY <2>4, <2>6, <2>7
<1> QED
  BY <1>1

\* A machine with states Q that steps n times has a run.
Machines(Q, n) == [1..n -> [Q -> Q]]
Runs(Q, q0, n, F) ==
  {g \in [0..n -> Q] : g[0] = q0 /\ \A k \in 1..n : g[k] = F[k][g[k - 1]]}

\* A machine that is given for every place has a run from every state.
LEMMA RunExists ==
  ASSUME NEW Q, NEW q0 \in Q, NEW n \in Nat, NEW F \in Machines(Q, n)
  PROVE  \E g : g \in Runs(Q, q0, n, F)
<1> USE DEF Machines
<1> DEFINE RunTo(g, m) == /\ g \in [0..m -> Q] /\ g[0] = q0
                          /\ \A k \in 1..m : g[k] = F[k][g[k - 1]]
           S == {m \in Nat : m <= n => \E g : RunTo(g, m)}
<1>1. 0 \in S
  <2>1. RunTo([k \in 0..0 |-> q0], 0)
    OBVIOUS
  <2> QED
    BY <2>1
<1>2. ASSUME NEW m \in Nat, m \in S PROVE m + 1 \in S
  <2> SUFFICES ASSUME m + 1 <= n PROVE \E g : RunTo(g, m + 1)
    OBVIOUS
  <2>1. PICK g : RunTo(g, m)
    BY <1>2
  <2> DEFINE h == [k \in 0..(m + 1) |-> IF k = m + 1 THEN F[m + 1][g[m]] ELSE g[k]]
  <2>2. F[m + 1][g[m]] \in Q
    BY <2>1
  <2>3. h \in [0..(m + 1) -> Q] /\ h[0] = q0
    BY <2>1, <2>2
  <2>4. ASSUME NEW k \in 1..(m + 1) PROVE h[k] = F[k][h[k - 1]]
    <3>1. CASE k = m + 1
      <4>1. h[k] = F[m + 1][g[m]] /\ h[m] = g[m] /\ k - 1 = m
        BY <3>1
      <4> QED
        BY <3>1, <4>1
    <3>2. CASE k # m + 1
      <4>1. k \in 1..m /\ k - 1 \in 0..m /\ h[k] = g[k] /\ h[k - 1] = g[k - 1]
        BY <3>2
      <4> QED
        BY <2>1, <4>1
    <3> QED
      BY <3>1, <3>2
  <2>5. RunTo(h, m + 1)
    BY <2>3, <2>4
  <2> QED
    BY <2>5
<1> HIDE DEF S
<1>3. n \in S
  BY <1>1, <1>2, SetInduction
<1> USE DEF S
<1> QED
  BY <1>3 DEF Runs

-----------------------------------------------------------------------------
(* The lexers                                                              *)

States == Openers \cup {"none"}

\* The CLI's lexer toggles.
Toggle(q, tok) ==
  IF q = "none" THEN (IF tok \in Openers THEN tok ELSE "none")
  ELSE IF q # "--" /\ tok = Closer(q) THEN "none" ELSE q

CliRuns(q0, s) ==
  {g \in [0..Len(s) -> States] :
     g[0] = q0 /\ \A k \in 1..Len(s) : g[k] = Toggle(g[k - 1], s[k])}

\* The shell's scan of a list of tokens is a run of its machine.
LEMMA CliRun ==
  ASSUME NEW q0 \in States, NEW s \in Seq(Tokens)
  PROVE  \E g \in CliRuns(q0, s) : CliScan(q0, s) = g[Len(s)]
<1> DEFINE IsRun(g) == g = [k \in 0..Len(s) |->
             IF k = 0 THEN q0
             ELSE LET q == g[k - 1] IN
                  IF q = "none" THEN (IF s[k] \in Openers THEN s[k] ELSE "none")
                  ELSE IF q # "--" /\ s[k] = Closer(q) THEN "none" ELSE q]
<1>1. \E f : CliScan(q0, s) = f[Len(s)] /\ ((\E g : IsRun(g)) => IsRun(f))
  BY DEF CliScan
<1>2. Len(s) \in Nat
  OBVIOUS
<1> DEFINE F == [k \in 1..Len(s) |-> [q \in States |-> Toggle(q, s[k])]]
<1>3. F \in Machines(States, Len(s))
  BY DEF Toggle, States, Machines
<1>4. PICK g : g \in Runs(States, q0, Len(s), F)
  <2> HIDE DEF F
  <2> QED
    BY <1>2, <1>3, RunExists
<1>5. /\ g \in [0..Len(s) -> States] /\ g[0] = q0
       /\ \A k \in 1..Len(s) : g[k] = F[k][g[k - 1]]
  BY <1>4, Zenon DEF Runs
<1>6. \A k \in 1..Len(s) : g[k - 1] \in States /\ g[k] = Toggle(g[k - 1], s[k])
  BY <1>2, <1>5
<1>7. IsRun(g)
  BY <1>2, <1>5, <1>6 DEF Toggle
<1>8. PICK f : CliScan(q0, s) = f[Len(s)] /\ IsRun(f)
  BY <1>1, <1>7
<1>9. /\ f[0] = q0 /\ f = [k \in 0..Len(s) |-> f[k]]
      /\ \A k \in 1..Len(s) : f[k] = Toggle(f[k - 1], s[k])
  BY <1>2, <1>8 DEF Toggle
<1> DEFINE S == {k \in Nat : k <= Len(s) => f[k] \in States}
<1>10. 0 \in S
  BY <1>9
<1>11. ASSUME NEW n \in Nat, n \in S PROVE n + 1 \in S
  <2> SUFFICES ASSUME n + 1 <= Len(s) PROVE f[n + 1] \in States
    OBVIOUS
  <2>1. n + 1 \in 1..Len(s) /\ (n + 1) - 1 = n /\ f[n] \in States
    BY <1>2, <1>11
  <2>2. f[n + 1] = Toggle(f[n], s[n + 1])
    BY <1>9, <2>1
  <2> QED
    BY <2>1, <2>2 DEF Toggle, States
<1>12. \A k \in 0..Len(s) : f[k] \in States
  <2> HIDE DEF S
  <2>1. Nat \subseteq S
    BY <1>10, <1>11, SetInduction
  <2> USE DEF S
  <2> QED
    BY <1>2, <2>1
<1> QED
  BY <1>8, <1>9, <1>12 DEF CliRuns

\* The adapter's lexer looks one token ahead, and skips the second of two quotes.
Next2(s, k) == IF k < Len(s) THEN s[k + 1] ELSE "x"
Look(b, s, k) ==
  IF b.skip THEN [b EXCEPT !.skip = FALSE] ELSE Step(b.q, s[k], Next2(s, k))

\* The program's scan of a statement is a run that looks at one token at a time.
LEMMA ScanRun ==
  ASSUME NEW s \in Seq(Tokens)
  PROVE  \E f : /\ Scan(s) = f[Len(s)].q
                /\ f[0] = [q |-> "none", skip |-> FALSE]
                /\ \A k \in 1..Len(s) : f[k] = Look(f[k - 1], s, k)
<1> DEFINE q0 == [q |-> "none", skip |-> FALSE]
           IsRun(g) == g = [k \in 0..Len(s) |-> IF k = 0 THEN q0 ELSE Look(g[k - 1], s, k)]
<1>1. \E f : Scan(s) = f[Len(s)].q /\ ((\E g : IsRun(g)) => IsRun(f))
  BY DEF Scan, Look, Next2
<1>2. Len(s) \in Nat
  OBVIOUS
<1> DEFINE Q == [q : States, skip : BOOLEAN]
           F == [k \in 1..Len(s) |-> [b \in Q |-> Look(b, s, k)]]
<1>3. \A k \in 1..Len(s), b \in Q : Look(b, s, k) \in Q
  BY DEF Look, Step, States
<1>4. q0 \in Q
  BY DEF States
<1> HIDE DEF Q, q0
<1>5. F \in Machines(Q, Len(s))
  BY <1>3 DEF Machines
<1>6. PICK g : g \in Runs(Q, q0, Len(s), F)
  <2> HIDE DEF F
  <2> QED
    BY <1>2, <1>4, <1>5, RunExists
<1>7. /\ g \in [0..Len(s) -> Q] /\ g[0] = q0
      /\ \A k \in 1..Len(s) : g[k] = F[k][g[k - 1]]
  BY <1>6, Zenon DEF Runs
<1>8. \A k \in 1..Len(s) : g[k] = Look(g[k - 1], s, k)
  BY <1>2, <1>7
<1>9. IsRun(g)
  BY <1>2, <1>7, <1>8
<1>10. PICK f : Scan(s) = f[Len(s)].q /\ IsRun(f)
  BY <1>1, <1>9
<1>11. f[0] = q0 /\ \A k \in 1..Len(s) : f[k] = Look(f[k - 1], s, k)
  BY <1>2, <1>10
<1> QED
  BY <1>10, <1>11 DEF q0

\* A statement is balanced for the adapter exactly if the CLI finds it closed: two
\* quotes in a row, which the adapter skips, close and open for the CLI.
LEMMA LexersAgree ==
  ASSUME NEW s \in Seq(Tokens)
  PROVE  /\ Scan(s) = CliScan("none", s) /\ Scan(s) \in States
         /\ IsBalanced(s) <=> Closes(s)
<1>1. PICK f : /\ Scan(s) = f[Len(s)].q
               /\ f[0] = [q |-> "none", skip |-> FALSE]
               /\ \A k \in 1..Len(s) : f[k] = Look(f[k - 1], s, k)
  BY ScanRun
<1>2. "none" \in States
  BY DEF States
<1>0. PICK g \in CliRuns("none", s) : CliScan("none", s) = g[Len(s)]
  BY <1>2, CliRun
<1>3. /\ g \in [0..Len(s) -> States] /\ g[0] = "none"
      /\ \A k \in 1..Len(s) : g[k] = Toggle(g[k - 1], s[k])
  BY <1>0, Zenon DEF CliRuns
<1>4. Len(s) \in Nat /\ \A k \in 1..Len(s) : s[k] \in Tokens
  BY ElementOfSeq
<1> DEFINE Agree(k) ==
      /\ f[k] \in [q : States, skip : BOOLEAN]
      /\ IF f[k].skip
         THEN g[k] = "none" /\ k < Len(s) /\ s[k + 1] = f[k].q /\ f[k].q \in Doubled
         ELSE g[k] = f[k].q
      S == {k \in Nat : k <= Len(s) => Agree(k)}
<1>5. 0 \in S
  <2>1. f[0] \in [q : States, skip : BOOLEAN] /\ f[0].q = "none" /\ ~f[0].skip
    BY <1>1, <1>2
  <2>2. Agree(0)
    BY <1>3, <2>1
  <2> QED
    BY <2>2
<1>6. ASSUME NEW n \in Nat, n \in S PROVE n + 1 \in S
  <2> SUFFICES ASSUME n + 1 <= Len(s) PROVE Agree(n + 1)
    OBVIOUS
  <2> DEFINE k == n + 1
             tok == s[k]
             next == Next2(s, k)
  <2>1. k \in 1..Len(s) /\ k - 1 = n /\ n < Len(s) /\ tok \in Tokens /\ next \in Tokens
    BY <1>4 DEF Next2, Tokens
  <2>2. Agree(n)
    BY <1>6, <2>1
  <2>3. f[k] = Look(f[n], s, k) /\ g[k] = Toggle(g[n], tok)
    BY <1>1, <1>3, <2>1
  <2>4. CASE f[n].skip
    <3>1. /\ f[k] = [f[n] EXCEPT !.skip = FALSE] /\ f[n] \in [q : States, skip : BOOLEAN]
          /\ g[n] = "none" /\ tok = f[n].q /\ f[n].q \in Doubled
      BY <2>2, <2>3, <2>4 DEF Look
    <3>2. g[k] = tok
      BY <2>3, <3>1 DEF Toggle, Doubled, Openers
    <3>3. f[k] = [q |-> f[n].q, skip |-> FALSE]
      BY <3>1
    <3> QED
      BY <3>1, <3>2, <3>3
  <2>5. CASE ~f[n].skip
    <3> DEFINE q == f[n].q
    <3>1. /\ f[k] = Step(q, tok, next) /\ g[n] = q /\ q \in States
          /\ g[k] = Toggle(q, tok)
      BY <2>2, <2>3, <2>5 DEF Look
    <3> HIDE DEF q, tok, next
    <3>2. CASE q = "none" /\ tok \in Openers
      BY <3>1, <3>2 DEF Step, Toggle, States
    <3>3. CASE q \notin {"none", "--"} /\ tok = Closer(q)
      <4>1. CASE q \in Doubled /\ next = tok
        <5>1. /\ f[k] = [q |-> q, skip |-> TRUE] /\ g[k] = "none" /\ tok = q
          BY <3>1, <3>3, <4>1 DEF Step, Toggle, Closer, Doubled
        <5>2. k < Len(s) /\ s[k + 1] = next
          BY <2>1, <4>1, <5>1 DEF next, Next2, Doubled
        <5>3. f[k] \in [q : States, skip : BOOLEAN] /\ f[k].q = q /\ f[k].skip
          BY <3>1, <5>1
        <5> QED
          BY <4>1, <5>1, <5>2, <5>3 DEF tok
      <4>2. CASE ~(q \in Doubled /\ next = tok)
        <5>1. f[k] = [q |-> "none", skip |-> FALSE] /\ g[k] = "none"
          BY <3>1, <3>3, <4>2 DEF Step, Toggle
        <5> QED
          BY <1>2, <5>1
      <4> QED
        BY <4>1, <4>2
    <3>4. CASE ~(q = "none" /\ tok \in Openers) /\ ~(q \notin {"none", "--"} /\ tok = Closer(q))
      <4>1. f[k] = [q |-> q, skip |-> FALSE] /\ g[k] = q
        BY <3>1, <3>4 DEF Step, Toggle
      <4> QED
        BY <3>1, <4>1
    <3> QED
      BY <3>2, <3>3, <3>4
  <2> QED
    BY <2>4, <2>5
<1>7. Agree(Len(s))
  <2> HIDE DEF S
  <2>1. Len(s) \in S
    BY <1>4, <1>5, <1>6, SetInduction
  <2> USE DEF S
  <2> QED
    BY <1>4, <2>1
<1>8. Scan(s) = CliScan("none", s) /\ Scan(s) \in States
  BY <1>0, <1>1, <1>3, <1>4, <1>7
<1> QED
  BY <1>8 DEF IsBalanced, Closes

-----------------------------------------------------------------------------
(* The invariant                                                           *)

TypeInv ==
  /\ TypeOK
  /\ pc = "build" => errors = {} /\ line = 0 /\ pending = <<>> /\ inside = "none"
  /\ pc = "run" => line # 0
  /\ pending # <<>> => startline \in 2..(Len(batch) + 1)

\* The script has the closed statements looked at, in order; the others are invalid.
ScriptInv ==
  /\ pc # "build" => idx = Len(text) + 1
  /\ pc # "done" => \A i \in Stmts : valid[i] <=> (i < idx => IsBalanced(text[i]))
  /\ \A k \in 1..Len(batch) : batch[k] < idx /\ IsBalanced(text[batch[k]])
  /\ \A j, k \in 1..Len(batch) : j < k => batch[j] < batch[k]
  /\ \A i \in Stmts : i < idx /\ IsBalanced(text[i]) => \E k \in 1..Len(batch) : batch[k] = i

\* Has the CLI judged the statement on line k + 1?
Judged(k) == k < line /\ (pending # <<>> => k # Len(batch))

\* The CLI runs every line on its own: between two lines nothing is open, only the
\* last may be pending, and it has an error for each statement it rejects, and only
\* for those.
CliInv ==
  /\ pc = "run" => inside = "none"
  /\ pc = "run" /\ pending # <<>> =>
       /\ Len(batch) # 0 /\ line = Len(batch) + 1 /\ startline = line
       /\ pending = <<batch[Len(batch)]>>
  /\ pc = "label" => line = Len(batch) + 1 /\ pending = <<>>
  /\ pc \in {"run", "label"} =>
       /\ \A e \in errors :
            e.line - 1 \in 1..Len(batch) /\ e.class = alone[batch[e.line - 1]]
       /\ \A k \in 1..Len(batch) : Judged(k) /\ alone[batch[k]] # "ok" =>
            [line |-> k + 1, class |-> alone[batch[k]]] \in errors

-----------------------------------------------------------------------------
(* Type correctness                                                        *)

\* The statements of the corpus are lists of tokens.
LEMMA CorpusText ==
  ASSUME TypeOK
  PROVE  /\ text \in Seq(Seq(Tokens)) /\ Len(text) \in Nat
         /\ \A i \in Stmts : text[i] \in Seq(Tokens)
<1>1. text \in Seq(Seq(Tokens))
  BY ScriptAssumption DEF TypeOK
<1>2. Len(text) \in Nat
  BY <1>1
<1> QED
  BY <1>1, <1>2, ElementOfSeq DEF Stmts

\* The shell's scan ends in a state of its machine.
LEMMA CliScanState ==
  ASSUME NEW q0 \in States, NEW s \in Seq(Tokens)
  PROVE  CliScan(q0, s) \in States
<1>1. PICK g \in CliRuns(q0, s) : CliScan(q0, s) = g[Len(s)]
  BY CliRun
<1>2. g \in [0..Len(s) -> States] /\ Len(s) \in Nat
  BY Zenon, LenProperties DEF CliRuns
<1> QED
  BY <1>1, <1>2

\* At the start the state is typed.
LEMMA TypeInit == Init => TypeInv
<1> SUFFICES ASSUME Init PROVE TypeInv
  OBVIOUS
<1>1. text \in Seq(Seq(Tokens)) /\ Len(text) \in Nat
  BY ScriptAssumption DEF Init
<1>2. batch = <<>> /\ pending = <<>> /\ <<>> \in Seq(Stmts) /\ Len(batch) = 0
  BY DEF Init
<1>3. idx \in 1..(Len(text) + 1) /\ line \in 0..(Len(batch) + 1)
  BY <1>1, <1>2 DEF Init
<1>4. valid \in [Stmts -> BOOLEAN]
  BY Zenon DEF Init
<1>5. TypeOK
  BY <1>2, <1>3, <1>4 DEF Init, TypeOK
<1> QED
  BY <1>2, <1>5 DEF Init, TypeInv

\* An error is reported at the line a piece starts on.
LEMMA RunErrors ==
  ASSUME TypeOK, NEW piece \in Seq(Stmts), piece # <<>>, NEW at \in 2..(Len(batch) + 1),
         Run(piece, at)
  PROVE  \A e \in errors' : e.line \in 2..(Len(batch) + 1) /\ e.class \in {"missing", "reject"}
<1>1. piece[1] \in Stmts
  BY EmptySeq, LenProperties, ElementOfSeq
<1>2. Outcomes(piece) \subseteq {"ok", "missing", "reject"}
  BY <1>1 DEF Outcomes, TypeOK
<1>3. PICK o \in Outcomes(piece) :
        errors' = IF o = "ok" THEN errors ELSE errors \cup {[line |-> at, class |-> o]}
  BY DEF Run
<1> QED
  BY <1>2, <1>3 DEF TypeOK

\* Every step of the program or of the shell keeps the state typed.
LEMMA TypeStep == TypeInv /\ [Next]_vars => TypeInv'
<1> SUFFICES ASSUME TypeInv, [Next]_vars PROVE TypeInv'
  OBVIOUS
<1>0. TypeOK /\ Len(text) \in Nat /\ Len(batch) \in Nat /\ batch \in Seq(Stmts)
  BY CorpusText DEF TypeInv, TypeOK
<1> USE DEF TypeInv
<1>1. CASE KeepOut
  <2>1. idx + 1 \in 1..(Len(text) + 1) /\ idx \in Stmts
    BY <1>0, <1>1 DEF KeepOut, TypeOK, Stmts
  <2> QED
    BY <1>1, <2>1 DEF KeepOut, TypeOK, cli, Stmts
<1>2. CASE AddLine
  <2>1. idx + 1 \in 1..(Len(text) + 1) /\ idx \in Stmts
    BY <1>0, <1>2 DEF AddLine, TypeOK, Stmts
  <2>2. batch' \in Seq(Stmts) /\ Len(batch') = Len(batch) + 1
    BY <1>0, <1>2, <2>1 DEF AddLine
  <2>3. /\ line' \in 0..(Len(batch') + 1) /\ errors' = {} /\ pending' = <<>>
    BY <1>0, <1>2, <2>2 DEF AddLine, cli
  <2> QED
    BY <1>2, <2>1, <2>2, <2>3 DEF AddLine, TypeOK, cli, Stmts
<1>3. CASE Spawn
  BY <1>0, <1>3 DEF Spawn, TypeOK, Stmts
<1>4. CASE ReadLine
  <2> DEFINE i     == batch[line]
             open  == CliScan(inside, text[i])
             start == IF pending = <<>> THEN line + 1 ELSE startline
             piece == Append(pending, i)
  <2>1. line \in 1..Len(batch) /\ line + 1 \in 2..(Len(batch) + 1) /\ i \in Stmts
    BY <1>0, <1>4, ElementOfSeq DEF ReadLine, TypeOK
  <2>2. start \in 2..(Len(batch) + 1) /\ piece \in Seq(Stmts) /\ piece # <<>>
    <3>1. start \in 2..(Len(batch) + 1)
      BY <2>1
    <3>2. pending \in Seq(Stmts)
      BY DEF TypeOK
    <3> QED
      BY <2>1, <3>1, <3>2, AppendProperties
  <2>3. open \in States
    BY <1>0, <2>1, CorpusText, CliScanState DEF TypeOK, States
  <2>4. /\ pc = "run" /\ line' = line + 1 /\ UNCHANGED <<text, alone, pc, idx, valid, batch>>
        /\ IF open = "none"
           THEN /\ Run(piece, start)
                /\ pending' = <<>> /\ startline' = 0 /\ inside' = "none"
           ELSE /\ pending' = piece /\ startline' = start
                /\ inside' = IF open = "--" THEN "none" ELSE open
                /\ UNCHANGED errors
    BY <1>4 DEF ReadLine
  <2> HIDE DEF i, open, start, piece
  <2>5. \A e \in errors' : e.line \in 2..(Len(batch) + 1) /\ e.class \in {"missing", "reject"}
    BY <1>0, <2>2, <2>4, RunErrors DEF TypeOK
  <2>6. /\ inside' \in Openers \cup {"none"} /\ pending' \in Seq(Stmts)
        /\ pending' # <<>> => startline' \in 2..(Len(batch) + 1)
    <3>1. CASE open = "none"
      BY <2>4, <3>1, EmptySeq
    <3>2. CASE open # "none"
      BY <2>2, <2>3, <2>4, <3>2 DEF States
    <3> QED
      BY <3>1, <3>2
  <2>7. line' \in 0..(Len(batch) + 1) /\ line' # 0
    BY <2>1, <2>4
  <2> QED
    BY <2>4, <2>5, <2>6, <2>7 DEF TypeOK, Stmts
<1>5. CASE EndOfScript
  <2>1. \A e \in errors' : e.line \in 2..(Len(batch) + 1) /\ e.class \in {"missing", "reject"}
    BY <1>0, <1>5, RunErrors DEF EndOfScript, TypeOK
  <2> QED
    BY <1>0, <1>5, <2>1, EmptySeq DEF EndOfScript, TypeOK, Stmts
<1>6. CASE Crash
  BY <1>0, <1>6 DEF Crash, Abort, cli, TypeOK, Stmts
<1>7. CASE Label
  <2>1. valid' \in [Stmts -> BOOLEAN]
    BY <1>7, Zenon DEF Label
  <2> QED
    BY <1>0, <1>7, <2>1 DEF Label, cli, TypeOK, Stmts
<1>8. CASE UNCHANGED vars
  BY <1>0, <1>8 DEF vars, cli, TypeOK, Stmts
<1> QED
  BY <1>1, <1>2, <1>3, <1>4, <1>5, <1>6, <1>7, <1>8 DEF Next

-----------------------------------------------------------------------------
(* The script                                                              *)

\* Every step keeps the script the closed statements looked at so far, in order.
LEMMA ScriptStep == TypeInv /\ ScriptInv /\ [Next]_vars => ScriptInv'
<1> SUFFICES ASSUME TypeInv, ScriptInv, [Next]_vars PROVE ScriptInv'
  OBVIOUS
<1>0. /\ Len(text) \in Nat /\ Len(batch) \in Nat /\ batch \in Seq(Stmts)
      /\ idx \in 1..(Len(text) + 1) /\ valid \in [Stmts -> BOOLEAN]
  BY CorpusText DEF TypeInv, TypeOK
<1>1. CASE KeepOut
  <2>1. /\ idx \in Stmts /\ pc = "build" /\ ~IsBalanced(text[idx]) /\ idx' = idx + 1
        /\ valid' = [valid EXCEPT ![idx] = FALSE] /\ UNCHANGED <<text, pc, batch>>
    BY <1>0, <1>1 DEF KeepOut, Stmts
  <2>2. \A i \in Stmts : i \in Nat /\ (i < idx' <=> i < idx \/ i = idx)
    BY <1>0, <2>1 DEF Stmts
  <2>3. \A i \in Stmts : valid'[i] <=> (i < idx' => IsBalanced(text[i]))
    BY <1>0, <2>1, <2>2 DEF ScriptInv
  <2>4. \A k \in 1..Len(batch) : batch[k] \in Stmts
    BY <1>0, ElementOfSeq
  <2>5. \A k \in 1..Len(batch) : batch[k] < idx' /\ IsBalanced(text[batch[k]])
    BY <2>2, <2>4 DEF ScriptInv
  <2>6. \A i \in Stmts : i < idx' /\ IsBalanced(text[i]) => \E k \in 1..Len(batch) : batch[k] = i
    BY <2>1, <2>2 DEF ScriptInv
  <2> QED
    BY <2>1, <2>3, <2>5, <2>6 DEF ScriptInv, Stmts
<1>2. CASE AddLine
  <2>1. /\ idx \in Stmts /\ pc = "build" /\ IsBalanced(text[idx]) /\ idx' = idx + 1
        /\ batch' = Append(batch, idx) /\ UNCHANGED <<text, pc, valid>>
    BY <1>0, <1>2 DEF AddLine, Stmts
  <2>2. \A i \in Stmts : i \in Nat /\ (i < idx' <=> i < idx \/ i = idx)
    BY <1>0, <2>1 DEF Stmts
  <2>3. \A i \in Stmts : valid[i] <=> (i < idx' => IsBalanced(text[i]))
    BY <1>0, <2>1, <2>2 DEF ScriptInv
  <2>4. /\ Len(batch') = Len(batch) + 1 /\ batch'[Len(batch) + 1] = idx
        /\ \A k \in 1..Len(batch) : batch'[k] = batch[k] /\ batch[k] \in Stmts
        /\ \A k \in 1..Len(batch') : k \in 1..Len(batch) \/ k = Len(batch) + 1
    BY <1>0, <2>1, AppendProperties, ElementOfSeq
  <2>5. \A k \in 1..Len(batch') : batch'[k] < idx' /\ IsBalanced(text[batch'[k]])
    BY <2>1, <2>2, <2>4 DEF ScriptInv
  <2>6. \A j, k \in 1..Len(batch') : j < k => batch'[j] < batch'[k]
    <3> SUFFICES ASSUME NEW j \in 1..Len(batch'), NEW k \in 1..Len(batch'), j < k
                 PROVE  batch'[j] < batch'[k]
      OBVIOUS
    <3>1. j \in 1..Len(batch) /\ batch'[j] = batch[j] /\ batch[j] < idx
      BY <1>0, <2>4 DEF ScriptInv
    <3> QED
      BY <2>4, <3>1 DEF ScriptInv
  <2>7. ASSUME NEW i \in Stmts, i < idx', IsBalanced(text[i])
        PROVE  \E k \in 1..Len(batch') : batch'[k] = i
    <3>1. CASE i = idx
      <4>1. Len(batch) + 1 \in 1..Len(batch')
        BY <1>0, <2>4
      <4> QED
        BY <2>4, <3>1, <4>1
    <3>2. CASE i # idx
      <4>1. PICK k \in 1..Len(batch) : batch[k] = i
        BY <2>2, <2>7, <3>2 DEF ScriptInv
      <4>2. k \in 1..Len(batch')
        BY <1>0, <2>4
      <4> QED
        BY <2>4, <4>1, <4>2
    <3> QED
      BY <3>1, <3>2
  <2> QED
    BY <2>1, <2>3, <2>5, <2>6, <2>7 DEF ScriptInv, Stmts
<1>3. CASE Spawn
  <2>1. idx = Len(text) + 1 /\ pc = "build" /\ UNCHANGED <<text, idx, valid, batch>> /\ pc' # "done"
    BY <1>0, <1>3 DEF Spawn
  <2> QED
    BY <2>1 DEF ScriptInv, Stmts
<1>4. CASE Label
  BY <1>4 DEF Label, ScriptInv, Stmts
<1>5. CASE ReadLine \/ EndOfScript \/ Crash
  BY <1>5 DEF ReadLine, EndOfScript, Crash, Abort, ScriptInv, Stmts
<1>6. CASE UNCHANGED vars
  BY <1>6 DEF vars, ScriptInv, Stmts
<1> QED
  BY <1>1, <1>2, <1>3, <1>4, <1>5, <1>6 DEF Next

-----------------------------------------------------------------------------
(* The CLI                                                                 *)

\* A piece of one statement is judged as that statement.
LEMMA RunOne ==
  ASSUME NEW i, NEW at, Run(<<i>>, at)
  PROVE  errors' = IF alone[i] = "ok" THEN errors
                   ELSE errors \cup {[line |-> at, class |-> alone[i]]}
<1>1. Len(<<i>>) = 1 /\ <<i>>[1] = i
  OBVIOUS
<1>2. Outcomes(<<i>>) = {alone[i]}
  BY <1>1 DEF Outcomes
<1> QED
  BY <1>2 DEF Run

\* If only the last statement leaves a comment open, the shell runs every line on its own.
LEMMA CliStep ==
  ASSUME CommentsLast
  PROVE  TypeInv /\ ScriptInv /\ CliInv /\ [Next]_vars => CliInv'
<1> SUFFICES ASSUME TypeInv, ScriptInv, CliInv, [Next]_vars PROVE CliInv'
  OBVIOUS
<1>0. /\ Len(text) \in Nat /\ Len(batch) \in Nat /\ text \in Corpora
      /\ \A k \in 1..Len(batch) : batch[k] \in Stmts /\ text[batch[k]] \in Seq(Tokens)
      /\ line \in 0..(Len(batch) + 1)
  BY CorpusText, ElementOfSeq DEF TypeInv, TypeOK
<1>1. CASE KeepOut \/ AddLine
  BY <1>1 DEF KeepOut, AddLine, CliInv
<1>2. CASE Spawn
  <2>1. /\ pc' \in {"run", "aborted"} /\ pc' = "run" => line' = 1
        /\ inside' = "none" /\ pending' = <<>> /\ errors' = {}
    BY <1>2 DEF Spawn, TypeInv
  <2>2. \A k \in 1..Len(batch) : ~(k < 1)
    BY <1>0
  <2> QED
    BY <1>2, <2>1, <2>2 DEF CliInv, Judged, Spawn
<1>3. CASE ReadLine
  <2>1. /\ pc = "run" /\ line \in 1..Len(batch) /\ line' = line + 1 /\ inside = "none"
        /\ UNCHANGED <<text, alone, pc, batch>>
    BY <1>0, <1>3 DEF ReadLine, TypeInv, CliInv
  <2>2. pending = <<>>
    BY <1>0, <2>1 DEF CliInv
  <2> DEFINE i == batch[line]
             open == CliScan("none", text[i])
  <2>3. /\ Append(pending, i) = <<i>>
        /\ IF open = "none"
           THEN /\ Run(<<i>>, line + 1)
                /\ pending' = <<>> /\ inside' = "none"
           ELSE /\ pending' = <<i>> /\ startline' = line + 1
                /\ inside' = IF open = "--" THEN "none" ELSE open
                /\ UNCHANGED errors
    <3>1. Append(pending, i) = <<i>>
      BY <2>2
    <3> QED
      BY <1>3, <2>1, <2>2, <3>1 DEF ReadLine
  <2>4. open \in {"none", "--"}
    BY <1>0, <2>1, LexersAgree DEF ScriptInv, Closes
  <2>5. open = "--" => line = Len(batch)
    <3> SUFFICES ASSUME open = "--" PROVE line = Len(batch)
      OBVIOUS
    <3>1. i \in 1..Len(text)
      BY <1>0, <2>1 DEF Stmts
    <3>2. i = Len(text)
      BY <1>0, <3>1 DEF CommentsLast
    <3>3. batch[Len(batch)] \in 1..Len(text) /\ Len(batch) \in 1..Len(batch)
      BY <1>0, <2>1 DEF Stmts
    <3>4. line < Len(batch) => i < batch[Len(batch)]
      BY <2>1, <3>3 DEF ScriptInv
    <3> QED
      BY <1>0, <2>1, <3>1, <3>2, <3>3, <3>4
  <2>6. ASSUME NEW k \in 1..Len(batch)
        PROVE  /\ k < line' <=> k < line \/ k = line
               /\ Judged(k) <=> k < line
    BY <1>0, <2>1, <2>2 DEF Judged
  <2>7. CASE open = "none"
    <3>1. errors' = IF alone[i] = "ok" THEN errors
                    ELSE errors \cup {[line |-> line + 1, class |-> alone[i]]}
      BY <2>3, <2>7, RunOne
    <3>2. pending' = <<>> /\ inside' = "none"
      BY <2>3, <2>7
    <3> HIDE DEF i, open
    <3>3. \A e \in errors : e.line - 1 \in 1..Len(batch) /\ e.class = alone[batch[e.line - 1]]
      BY <2>1 DEF CliInv
    <3>4. \A e \in errors' : e.line - 1 \in 1..Len(batch) /\ e.class = alone[batch[e.line - 1]]
      <4>1. (line + 1) - 1 = line
        BY <2>1
      <4> QED
        BY <2>1, <3>1, <3>3, <4>1 DEF i
    <3>5. ASSUME NEW k \in 1..Len(batch), Judged(k)', alone[batch[k]] # "ok"
          PROVE  [line |-> k + 1, class |-> alone[batch[k]]] \in errors'
      <4>1. k < line \/ k = line
        BY <2>6, <3>5 DEF Judged
      <4>2. CASE k = line
        BY <3>1, <3>5, <4>2 DEF i
      <4>3. CASE k < line
        BY <2>1, <2>6, <3>1, <3>5, <4>3 DEF CliInv
      <4> QED
        BY <4>1, <4>2, <4>3
    <3> QED
      BY <2>1, <3>2, <3>4, <3>5 DEF CliInv
  <2>8. CASE open = "--"
    <3>1. /\ pending' = <<i>> /\ startline' = line + 1 /\ inside' = "none" /\ UNCHANGED errors
          /\ line = Len(batch) /\ <<i>> # <<>>
      BY <2>3, <2>5, <2>8
    <3> HIDE DEF i, open
    <3>2. \A k \in 1..Len(batch) : Judged(k)' => Judged(k)
      BY <1>0, <2>1, <2>6, <3>1 DEF Judged
    <3> QED
      BY <2>1, <3>1, <3>2 DEF CliInv, i
  <2> QED
    BY <2>4, <2>7, <2>8
<1>4. CASE EndOfScript
  <2>1. /\ pc = "run" /\ pc' = "label" /\ line = Len(batch) + 1 /\ pending' = <<>>
        /\ UNCHANGED <<text, alone, batch, line>>
    BY <1>0, <1>4 DEF EndOfScript
  <2>2. CASE pending = <<>>
    BY <1>4, <2>1, <2>2 DEF EndOfScript, CliInv, Judged
  <2>3. CASE pending # <<>>
    <3> DEFINE i == batch[Len(batch)]
    <3>1. Len(batch) # 0 /\ pending = <<i>> /\ startline = Len(batch) + 1
      BY <2>1, <2>3 DEF CliInv
    <3>2. Run(<<i>>, Len(batch) + 1)
      BY <1>4, <2>3, <3>1 DEF EndOfScript
    <3>3. errors' = IF alone[i] = "ok" THEN errors
                    ELSE errors \cup {[line |-> Len(batch) + 1, class |-> alone[i]]}
      BY <3>2, RunOne
    <3>4. \A e \in errors : e.line - 1 \in 1..Len(batch) /\ e.class = alone[batch[e.line - 1]]
      BY <2>1 DEF CliInv
    <3>5. \A e \in errors' : e.line - 1 \in 1..Len(batch) /\ e.class = alone[batch[e.line - 1]]
      <4>1. (Len(batch) + 1) - 1 = Len(batch) /\ Len(batch) \in 1..Len(batch)
        BY <1>0, <3>1
      <4> QED
        BY <3>3, <3>4, <4>1
    <3>6. ASSUME NEW k \in 1..Len(batch), alone[batch[k]] # "ok"
          PROVE  [line |-> k + 1, class |-> alone[batch[k]]] \in errors'
      <4>1. CASE k = Len(batch)
        BY <3>3, <3>6, <4>1
      <4>2. CASE k # Len(batch)
        <5>1. Judged(k)
          BY <1>0, <2>1, <4>2 DEF Judged
        <5> QED
          BY <2>1, <3>3, <3>6, <5>1 DEF CliInv
      <4> QED
        BY <4>1, <4>2
    <3> QED
      BY <2>1, <3>5, <3>6 DEF CliInv
  <2> QED
    BY <2>2, <2>3
<1>5. CASE Crash
  BY <1>5 DEF Crash, Abort, CliInv
<1>6. CASE Label
  BY <1>6 DEF Label, CliInv
<1>7. CASE UNCHANGED vars
  BY <1>7 DEF vars, cli, CliInv, Judged
<1> QED
  BY <1>1, <1>2, <1>3, <1>4, <1>5, <1>6, <1>7 DEF Next

-----------------------------------------------------------------------------
(* The labels                                                              *)

\* Before the first statement the script is empty and nothing is run.
LEMMA ScriptInit == Init => ScriptInv /\ CliInv
<1> SUFFICES ASSUME Init PROVE ScriptInv /\ CliInv
  OBVIOUS
<1>1. text \in Seq(Seq(Tokens)) /\ Len(text) \in Nat
  BY ScriptAssumption DEF Init
<1>2. \A i \in Stmts : valid[i] /\ ~(i < idx)
  BY <1>1 DEF Init, Stmts
<1>3. Len(batch) = 0 /\ \A k \in 1..Len(batch) : FALSE
  BY DEF Init
<1>4. ScriptInv
  BY <1>2, <1>3 DEF Init, ScriptInv
<1> QED
  BY <1>4 DEF Init, CliInv

\* Once the CLI has run the whole script, exactly the statements of the batch that it
\* rejects on their own have an error that makes them invalid.
LEMMA ErrorsExact ==
  ASSUME TypeInv, ScriptInv, CliInv, pc = "label", NEW i \in Stmts
  PROVE  (\E e \in errors : /\ e.line - 1 \in 1..Len(batch)
                            /\ StatementOn(e.line) = i
                            /\ e.class = "reject")
         <=> (Closes(text[i]) /\ alone[i] = "reject")
<1>0. /\ Len(text) \in Nat /\ Len(batch) \in Nat /\ idx = Len(text) + 1
      /\ \A k \in 1..Len(batch) : batch[k] \in Stmts /\ text[batch[k]] \in Seq(Tokens)
      /\ text[i] \in Seq(Tokens) /\ i < idx
  <2>1. /\ Len(text) \in Nat /\ Len(batch) \in Nat /\ text[i] \in Seq(Tokens)
        /\ \A k \in 1..Len(batch) : batch[k] \in Stmts /\ text[batch[k]] \in Seq(Tokens)
    BY CorpusText, ElementOfSeq DEF TypeInv, TypeOK
  <2>2. idx = Len(text) + 1
    BY DEF ScriptInv
  <2>3. i < idx
    BY <2>1, <2>2 DEF Stmts
  <2> QED
    BY <2>1, <2>2, <2>3
<1>1. ASSUME NEW e \in errors, e.line - 1 \in 1..Len(batch), StatementOn(e.line) = i,
             e.class = "reject"
      PROVE  Closes(text[i]) /\ alone[i] = "reject"
  <2>1. batch[e.line - 1] = i /\ alone[i] = "reject"
    BY <1>1 DEF StatementOn, CliInv
  <2>2. IsBalanced(text[i])
    BY <1>1, <2>1 DEF ScriptInv
  <2> QED
    BY <1>0, <2>1, <2>2, LexersAgree
<1>2. ASSUME Closes(text[i]), alone[i] = "reject"
      PROVE  \E e \in errors : /\ e.line - 1 \in 1..Len(batch)
                               /\ StatementOn(e.line) = i
                               /\ e.class = "reject"
  <2>1. IsBalanced(text[i])
    BY <1>0, <1>2, LexersAgree
  <2>2. PICK k \in 1..Len(batch) : batch[k] = i
    BY <1>0, <2>1 DEF ScriptInv
  <2>3. Judged(k)
    BY <1>0, <2>2 DEF CliInv, Judged
  <2>4. [line |-> k + 1, class |-> "reject"] \in errors
    BY <1>2, <2>2, <2>3 DEF CliInv
  <2>5. (k + 1) - 1 = k
    BY <1>0
  <2> DEFINE e == [line |-> k + 1, class |-> "reject"]
  <2>6. e.line = k + 1 /\ e.class = "reject"
    OBVIOUS
  <2> HIDE DEF e
  <2>7. e.line - 1 \in 1..Len(batch) /\ StatementOn(e.line) = i
    BY <2>2, <2>5, <2>6 DEF StatementOn
  <2> QED
    BY <2>4, <2>6, <2>7 DEF e
<1> QED
  BY <1>1, <1>2

\* Every step keeps the labels exact: labelling reads off the errors what each statement does alone.
LEMMA LabelsStep ==
  ASSUME TypeInv, ScriptInv, CliInv, LabelsExact, [Next]_vars
  PROVE  LabelsExact'
<1>0. /\ Len(text) \in Nat /\ valid \in [Stmts -> BOOLEAN]
      /\ \A i \in Stmts : text[i] \in Seq(Tokens)
  BY CorpusText DEF TypeInv, TypeOK
<1>1. CASE Label
  <2>1. /\ pc = "label" /\ UNCHANGED <<text, alone>>
        /\ valid' = [i \in Stmts |->
             /\ valid[i]
             /\ ~\E e \in errors : /\ e.line - 1 \in 1..Len(batch)
                                   /\ StatementOn(e.line) = i
                                   /\ e.class = "reject"]
    BY <1>1 DEF Label
  <2>2. ASSUME NEW i \in Stmts
        PROVE  valid'[i] <=> (Closes(text[i]) /\ alone[i] # "reject")
    <3>1. valid'[i] <=> (valid[i] /\ ~(Closes(text[i]) /\ alone[i] = "reject"))
      BY <2>1, ErrorsExact, Zenon
    <3>2. i < idx
      BY <1>0, <2>1 DEF ScriptInv, Stmts
    <3>3. valid[i] <=> IsBalanced(text[i])
      BY <2>1, <3>2, Zenon DEF ScriptInv
    <3>4. IsBalanced(text[i]) <=> Closes(text[i])
      BY <1>0, LexersAgree
    <3> QED
      BY <3>1, <3>3, <3>4, Zenon
  <2> QED
    BY <2>1, <2>2 DEF LabelsExact, Stmts
<1>2. CASE ~Label
  <2>1. CASE pc' = "done"
    <3>1. pc = "done" /\ UNCHANGED <<text, alone, valid>>
      BY <1>2, <2>1 DEF Next, KeepOut, AddLine, Spawn, ReadLine, EndOfScript, Crash, Abort, vars
    <3> QED
      BY <3>1 DEF LabelsExact, Stmts
  <2> QED
    BY <2>1 DEF LabelsExact
<1> QED
  BY <1>1, <1>2

\* The script, the CLI and the labels keep their types, whatever the corpora.
THEOREM SqliteTypeCorrect == Spec => []TypeOK
<1>1. Init => TypeInv
  BY TypeInit
<1>2. TypeInv /\ [Next]_vars => TypeInv'
  BY TypeStep
<1>3. TypeInv => TypeOK
  BY DEF TypeInv
<1> QED
  BY <1>1, <1>2, <1>3, PTL DEF Spec

\* If only the last statement of a corpus leaves a line comment open, label_sqlite's
\* labels are exact whatever the corpora: a statement is invalid exactly if it leaves
\* something open or the CLI rejects it on its own, however the script is batched.
THEOREM SqliteLabels ==
  ASSUME CommentsLast
  PROVE  Spec => []LabelsExact
<1> DEFINE IInv == TypeInv /\ ScriptInv /\ CliInv /\ LabelsExact
<1>1. Init => IInv
  <2>1. Init => LabelsExact
    BY DEF Init, LabelsExact
  <2> QED
    BY <2>1, TypeInit, ScriptInit
<1>2. IInv /\ [Next]_vars => IInv'
  BY TypeStep, ScriptStep, CliStep, LabelsStep
<1>3. IInv => LabelsExact
  OBVIOUS
<1> QED
  BY <1>1, <1>2, <1>3, PTL DEF Spec

=============================================================================
