---------------------------- MODULE PolicyProofs ----------------------------
(***************************************************************************)
(* What holds of the policy for any rules and commands.                    *)
(*                                                                         *)
(* The decisions (PolicyDecisions), of any state: the order of the rules   *)
(* decides nothing; one more never loosens; an exemption keeps to its      *)
(* paths; a project's rules stay on this machine; and a command that runs  *)
(* is decided no more strictly than the line was.  The last of these goes  *)
(* through every operator of the evaluator: what is known of a value stays *)
(* so when more gets known.                                                *)
(***************************************************************************)
EXTENDS PolicyDecisions, SequenceTheorems, NatRecursion

-----------------------------------------------------------------------------
\* Passes over the rules

\* What may be exempted of each of n rules.
Exempted(n, facts) == [1..n -> [whole : BOOLEAN, paths : SUBSET KnownPaths(facts)]]

\* The rules are numbered from 1.
LEMMA RulePlaces ==
    ASSUME NEW R, NEW rs \in Seq(R)
    PROVE  Len(rs) \in Nat /\ DOMAIN rs = 1..Len(rs)
BY LenProperties

\* A rule's exemptions are known paths, and whole rules.
LEMMA ExemptByType ==
    ASSUME NEW R, NEW rs \in Seq(R), NEW ms, NEW facts, NEW i \in 1..Len(rs),
           NEW ex \in Exempted(Len(rs), facts)
    PROVE  ExemptBy(rs, ms, facts, ex, i) \in Exempted(Len(rs), facts)
<1> DEFINE N == Len(rs)
           T == [whole : BOOLEAN, paths : SUBSET KnownPaths(facts)]
           whole == ~PerPath(rs[i]) \/ (ex[i].paths = {} /\ SureOnEvery(ms[i]))
           next(j) == IF ~Exempts(ms[i], ex[i]) \/ rs[j].id \notin rs[i].exempts THEN ex[j]
                      ELSE IF PerPath(rs[j])
                        THEN [ex[j] EXCEPT !.paths = @ \cup SurePaths(ms[i], ex[i], facts)]
                        ELSE [ex[j] EXCEPT !.whole = @ \/ whole]
<1>1. DOMAIN rs = 1..N
  BY RulePlaces
<1>2. ExemptBy(rs, ms, facts, ex, i) = [j \in 1..N |-> next(j)]
  BY <1>1, Zenon DEF ExemptBy
<1>3. ASSUME NEW j \in 1..N
      PROVE  next(j) \in T
  <2>1. ex[j] \in T
    BY DEF Exempted
  <2>2. SurePaths(ms[i], ex[i], facts) \in SUBSET KnownPaths(facts)
    BY DEF SurePaths
  <2> HIDE DEF whole
  <2>3. [ex[j] EXCEPT !.paths = @ \cup SurePaths(ms[i], ex[i], facts)] \in T
    BY <2>1, <2>2
  <2>4. (ex[j].whole \/ whole) \in BOOLEAN
    OBVIOUS
  <2>5. [ex[j] EXCEPT !.whole = @ \/ whole] \in T
    BY <2>1, <2>4
  <2> QED
    BY <2>1, <2>3, <2>5
<1> HIDE DEF next, T
<1>4. [j \in 1..N |-> next(j)] \in [1..N -> T]
  BY <1>3
<1> QED
  BY <1>2, <1>4 DEF Exempted, T

\* f are the exemptions of a pass after each rule.
Passes(f, rs, ms, facts, start, actions) ==
    /\ f[0] = start
    /\ \A n \in 1..Len(rs) :
          f[n] = IF rs[n].action \in actions
                   THEN ExemptBy(rs, ms, facts, f[n - 1], n) ELSE f[n - 1]
    /\ Pass(rs, ms, facts, start, actions) = f[Len(rs)]

\* A pass goes over the rules one by one.
LEMMA PassSteps ==
    ASSUME NEW R, NEW rs \in Seq(R), NEW ms, NEW facts, NEW actions,
           NEW start \in Exempted(Len(rs), facts)
    PROVE  \E f \in [0..Len(rs) -> Exempted(Len(rs), facts)] :
              Passes(f, rs, ms, facts, start, actions)
<1> DEFINE N == Len(rs)
           X == Exempted(N, facts)
           next(n, ex) == IF rs[n].action \in actions
                            THEN ExemptBy(rs, ms, facts, ex, n) ELSE ex
           rec(f) == [n \in 0..N |-> IF n = 0 THEN start ELSE next(n, f[n - 1])]
           step == [n \in 1..N |-> [ex \in X |-> next(n, ex)]]
           g == CHOOSE g : g = rec(g)
<1>0. N \in Nat
  BY RulePlaces
<1>1. \A n \in 1..N, ex \in X : next(n, ex) \in X
  BY ExemptByType
<1>2. \E f \in [0..N -> X] : f = rec(f)
  <2>1. start \in X /\ step \in [1..N -> [X -> X]]
    BY <1>1
  <2> HIDE DEF step, X
  <2>2. PICK f \in [0..N -> X] : Follows(f, N, start, step)
    BY <1>0, <2>1, Recursion
  <2>3. f[0] = start /\ \A n \in 1..N : f[n] = step[n][f[n - 1]]
    BY <2>2 DEF Follows
  <2>4. \A n \in 1..N : n - 1 \in 0..N /\ f[n - 1] \in X
    BY <1>0
  <2>5. \A n \in 1..N : f[n] = next(n, f[n - 1])
    <3> HIDE DEF next
    <3> QED
      BY <2>3, <2>4 DEF step
  <2> HIDE DEF next
  <2>6. \A n \in 0..N : f[n] = IF n = 0 THEN start ELSE next(n, f[n - 1])
    <3>1. \A n \in 0..N : n = 0 \/ n \in 1..N
      BY <1>0
    <3> QED
      BY <2>3, <2>5, <3>1
  <2>7. f = [n \in 0..N |-> f[n]]
    OBVIOUS
  <2>8. f = rec(f)
    BY <2>6, <2>7
  <2> QED
    BY <2>8
<1>3. g = rec(g)
  <2> HIDE DEF rec
  <2> QED
    BY <1>2
<1>4. Pass(rs, ms, facts, start, actions) = g[N]
  BY Zenon DEF Pass
<1>5. \A n \in 0..N : g[n] = IF n = 0 THEN start ELSE next(n, g[n - 1])
  <2>1. \A n \in 0..N : rec(g)[n] = IF n = 0 THEN start ELSE next(n, g[n - 1])
    <3> HIDE DEF next
    <3> QED
      OBVIOUS
  <2> HIDE DEF rec, g
  <2> QED
    BY <1>3, <2>1
<1>6. DOMAIN g = 0..N
  <2>1. DOMAIN rec(g) = 0..N
    OBVIOUS
  <2> HIDE DEF rec, g
  <2> QED
    BY <1>3, <2>1
<1>7. g = [n \in 0..N |-> g[n]]
  <2> HIDE DEF g
  <2> QED
    BY <1>3, <1>6
<1>8. \A n \in 0..N : g[n] \in X
  <2> DEFINE S == {n \in 0..N : g[n] \in X}
  <2>1. 0 \in S
    BY <1>0, <1>5
  <2>2. ASSUME NEW n \in 1..N, n - 1 \in S
        PROVE  n \in S
    BY <1>0, <1>1, <1>5, <2>2
  <2> HIDE DEF S
  <2>3. \A n \in 0..N : n \in S
    BY <1>0, <2>1, <2>2, UpTo
  <2> QED
    BY <2>3 DEF S
<1> QED
  <2> HIDE DEF g
  <2>1. g \in [0..N -> X]
    BY <1>7, <1>8
  <2>2. g[0] = start /\ \A n \in 1..N : g[n] = next(n, g[n - 1])
    BY <1>0, <1>5
  <2>3. Passes(g, rs, ms, facts, start, actions)
    BY <1>4, <2>2 DEF Passes
  <2> QED
    BY <2>1, <2>3

-----------------------------------------------------------------------------
\* Leaving rules out, and adding them

\* F are the rules of rs at the places e, in the same order.
Embeds(e, F, rs) ==
    /\ e \in [1..Len(F) -> 1..Len(rs)]
    /\ \A p, q \in 1..Len(F) : p < q => e[p] < e[q]
    /\ \A q \in 1..Len(F) : F[q] = rs[e[q]]

\* What a says of the rules at e is what b says of those of F.
Along(e, F, a, b) == \A q \in 1..Len(F) : a[e[q]] = b[q]

\* A rule that neither exempts nor matches, whatever else does.
Inert(rule, meeting) == rule.exempts = {} \/ meeting.command = "False"
\* What F leaves out of rs are inert rules.
LeavesOutInert(e, F, rs, ms) ==
    \A n \in 1..Len(rs) : (\A q \in 1..Len(F) : e[q] # n) => Inert(rs[n], ms[n])

\* What is False on the command is False.
LEMMA FalseCommand ==
    ASSUME NEW m, NEW paths, m.command = "False"
    PROVE  TruthOf(m, paths) = "False"
BY DEF TruthOf, Every

\* An inert rule exempts nothing.
LEMMA InertExempts ==
    ASSUME NEW R, NEW rs \in Seq(R), NEW ms, NEW facts, NEW i \in 1..Len(rs), NEW ex,
           Inert(rs[i], ms[i]), NEW j \in 1..Len(rs)
    PROVE  ExemptBy(rs, ms, facts, ex, i)[j] = ex[j]
<1>1. DOMAIN rs = 1..Len(rs)
  BY RulePlaces
<1>2. ~Exempts(ms[i], ex[i]) \/ rs[j].id \notin rs[i].exempts
  <2>1. CASE rs[i].exempts = {}
    BY <2>1
  <2>2. CASE ms[i].command = "False"
    <3>1. TruthOf(ms[i], ex[i].paths) = "False"
      BY <2>2, FalseCommand
    <3> QED
      BY <3>1 DEF Exempts
  <2> QED
    BY <2>1, <2>2 DEF Inert
<1> QED
  BY <1>1, <1>2 DEF ExemptBy

\* A rule exempts the same of another one, wherever the two stand.
LEMMA SameExempts ==
    ASSUME NEW R, NEW rs \in Seq(R), NEW F \in Seq(R),
           NEW a \in 1..Len(rs), NEW b \in 1..Len(rs), NEW p \in 1..Len(F), NEW q \in 1..Len(F),
           NEW ms, NEW mF, NEW facts, NEW ex, NEW exF,
           F[p] = rs[a], F[q] = rs[b], mF[p] = ms[a], exF[p] = ex[a], exF[q] = ex[b]
    PROVE  ExemptBy(rs, ms, facts, ex, a)[b] = ExemptBy(F, mF, facts, exF, p)[q]
<1>1. DOMAIN rs = 1..Len(rs) /\ DOMAIN F = 1..Len(F)
  BY RulePlaces
<1> QED
  BY <1>1, Zenon DEF ExemptBy

\* A pass exempts the same of the rules, with and without the inert ones.
LEMMA PassEmbeds ==
    ASSUME NEW R, NEW rs \in Seq(R), NEW F \in Seq(R), NEW e, Embeds(e, F, rs),
           NEW ms, NEW mF, NEW facts, NEW actions,
           LeavesOutInert(e, F, rs, ms),
           NEW start \in Exempted(Len(rs), facts), NEW startF \in Exempted(Len(F), facts),
           Along(e, F, ms, mF), Along(e, F, start, startF)
    PROVE  Along(e, F, Pass(rs, ms, facts, start, actions), Pass(F, mF, facts, startF, actions))
<1> DEFINE N == Len(rs)
           M == Len(F)
<1>0. N \in Nat /\ M \in Nat
  BY RulePlaces
<1>f. PICK f \in [0..N -> Exempted(N, facts)] : Passes(f, rs, ms, facts, start, actions)
  BY PassSteps
<1>h. PICK h \in [0..M -> Exempted(M, facts)] : Passes(h, F, mF, facts, startF, actions)
  BY PassSteps
<1>1. /\ f[0] = start
      /\ \A n \in 1..N :
            f[n] = IF rs[n].action \in actions
                     THEN ExemptBy(rs, ms, facts, f[n - 1], n) ELSE f[n - 1]
      /\ Pass(rs, ms, facts, start, actions) = f[N]
  BY <1>f DEF Passes
<1>2. /\ h[0] = startF
      /\ \A n \in 1..M :
            h[n] = IF F[n].action \in actions
                     THEN ExemptBy(F, mF, facts, h[n - 1], n) ELSE h[n - 1]
      /\ Pass(F, mF, facts, startF, actions) = h[M]
  BY <1>h DEF Passes
<1>3. \A q \in 1..M : e[q] \in 1..N /\ F[q] = rs[e[q]]
  BY DEF Embeds
<1>4. \A p, q \in 1..M : p < q => e[p] < e[q]
  BY DEF Embeds
<1> DEFINE Passed(n, k) == \A q \in 1..M : q <= k <=> e[q] <= n
           Agree(n, k) == \A q \in 1..M : f[n][e[q]] = h[k][q]
           S == {n \in 0..N : \E k \in 0..M : Passed(n, k) /\ Agree(n, k)}
<1>5. 0 \in S
  <2>1. Passed(0, 0)
    BY <1>0, <1>3
  <2>2. Agree(0, 0)
    BY <1>1, <1>2 DEF Along
  <2> HIDE DEF Passed, Agree
  <2> QED
    BY <1>0, <2>1, <2>2
<1>6. ASSUME NEW n \in 1..N, n - 1 \in S
      PROVE  n \in S
  <2>1. PICK k \in 0..M : Passed(n - 1, k) /\ Agree(n - 1, k)
    BY <1>6
  <2>2. n - 1 \in 0..N /\ n \in 0..N /\ k \in Nat
    BY <1>0
  <2>3. CASE \A q \in 1..M : e[q] # n
    <3>1. Passed(n, k)
      <4>1. ASSUME NEW q \in 1..M
            PROVE  q <= k <=> e[q] <= n
        <5>1. e[q] \in Nat /\ n \in Nat /\ e[q] # n
          <6>1. e[q] \in 1..N
            BY <1>3
          <6>2. e[q] # n
            BY <2>3
          <6> QED
            BY <1>0, <6>1, <6>2
        <5>2. q <= k <=> e[q] <= n - 1
          BY <2>1
        <5> QED
          BY <5>1, <5>2
      <4> QED
        BY <4>1
    <3>2. Inert(rs[n], ms[n])
      BY <2>3 DEF LeavesOutInert
    <3>3. \A j \in 1..N : f[n][j] = f[n - 1][j]
      <4>1. \A j \in 1..N : ExemptBy(rs, ms, facts, f[n - 1], n)[j] = f[n - 1][j]
        BY <3>2, InertExempts
      <4>2. f[n] = ExemptBy(rs, ms, facts, f[n - 1], n) \/ f[n] = f[n - 1]
        BY <1>1
      <4> QED
        BY <4>1, <4>2
    <3>4. Agree(n, k)
      BY <1>3, <2>1, <3>3
    <3> HIDE DEF Passed, Agree
    <3> QED
      BY <2>2, <3>1, <3>4
  <2>4. CASE \E q \in 1..M : e[q] = n
    <3>1. PICK p \in 1..M : e[p] = n
      BY <2>4
    <3>2. \A q \in 1..M : e[q] <= n <=> q <= p
      <4>1. \A q \in 1..M : q < p => e[q] < n
        BY <1>4, <3>1
      <4>2. \A q \in 1..M : p < q => n < e[q]
        BY <1>4, <3>1
      <4>3. \A q \in 1..M : q < p \/ q = p \/ p < q
        BY <1>0
      <4>4. \A q \in 1..M : e[q] \in Nat
        BY <1>0, <1>3
      <4> QED
        BY <1>0, <2>2, <3>1, <4>1, <4>2, <4>3, <4>4
    <3>3. k = p - 1
      <4>1. ~(p <= k)
        BY <1>0, <2>1, <2>2, <3>1
      <4>2. p - 1 \in 1..M => p - 1 <= k
        <5>1. SUFFICES ASSUME p - 1 \in 1..M PROVE p - 1 <= k
          OBVIOUS
        <5>2. e[p - 1] < n
          BY <1>4, <3>1, <5>1
        <5>3. e[p - 1] <= n - 1
          BY <1>0, <1>3, <5>1, <5>2
        <5> QED
          BY <2>1, <5>1, <5>3
      <4> QED
        BY <1>0, <2>2, <4>1, <4>2
    <3>4. Passed(n, p)
      BY <3>2
    <3>5. Agree(n, p)
      <4>1. \A q \in 1..M : f[n - 1][e[q]] = h[p - 1][q]
        BY <2>1, <3>3
      <4>2. \A q \in 1..M : ExemptBy(rs, ms, facts, f[n - 1], e[p])[e[q]]
                              = ExemptBy(F, mF, facts, h[p - 1], p)[q]
        <5>1. \A q \in 1..Len(F) : mF[q] = ms[e[q]] /\ f[n - 1][e[q]] = h[p - 1][q]
          BY <4>1 DEF Along
        <5> HIDE DEF Passed, Agree, S
        <5>2. ASSUME NEW q \in 1..M
              PROVE  ExemptBy(rs, ms, facts, f[n - 1], e[p])[e[q]]
                       = ExemptBy(F, mF, facts, h[p - 1], p)[q]
          <6>1. e[p] \in 1..N /\ e[q] \in 1..N /\ F[p] = rs[e[p]] /\ F[q] = rs[e[q]]
            BY <1>3
          <6>2. /\ mF[p] = ms[e[p]]
                /\ h[p - 1][p] = f[n - 1][e[p]] /\ h[p - 1][q] = f[n - 1][e[q]]
            BY <5>1
          <6> DEFINE a == e[p]
                     b == e[q]
                     ex == f[n - 1]
                     exF == h[p - 1]
          <6>3. a \in 1..Len(rs) /\ b \in 1..Len(rs) /\ p \in 1..Len(F) /\ q \in 1..Len(F)
            BY <6>1
          <6>4. F[p] = rs[a] /\ F[q] = rs[b] /\ mF[p] = ms[a] /\ exF[p] = ex[a] /\ exF[q] = ex[b]
            BY <6>1, <6>2
          <6> HIDE DEF a, b, ex, exF
          <6>5. ExemptBy(rs, ms, facts, ex, a)[b] = ExemptBy(F, mF, facts, exF, p)[q]
            BY <6>3, <6>4, SameExempts
          <6> QED
            BY <6>5 DEF a, b, ex, exF
        <5> QED
          BY <5>2
      <4>3. rs[n] = F[p]
        BY <1>3, <3>1
      <4>4. f[n] = IF F[p].action \in actions
                     THEN ExemptBy(rs, ms, facts, f[n - 1], e[p]) ELSE f[n - 1]
        BY <1>1, <3>1, <4>3
      <4>5. h[p] = IF F[p].action \in actions
                     THEN ExemptBy(F, mF, facts, h[p - 1], p) ELSE h[p - 1]
        BY <1>2
      <4> QED
        BY <4>1, <4>2, <4>4, <4>5
    <3>6. p \in 0..M
      BY <1>0
    <3> HIDE DEF Passed, Agree
    <3> QED
      BY <2>2, <3>4, <3>5, <3>6
  <2> QED
    BY <2>3, <2>4
<1>7. N \in S
  <2> HIDE DEF S
  <2>1. \A n \in 0..N : n \in S
    BY <1>0, <1>5, <1>6, UpTo
  <2> QED
    BY <1>0, <2>1
<1>8. PICK k \in 0..M : Passed(N, k) /\ Agree(N, k)
  BY <1>7
<1>9. \A q \in 1..M : f[N][e[q]] = h[M][q]
  <2>1. k = M
    <3>1. M \in 1..M => M <= k
      BY <1>0, <1>3, <1>8
    <3> QED
      BY <1>0, <3>1
  <2> QED
    BY <1>8, <2>1
<1> QED
  BY <1>1, <1>2, <1>9 DEF Along

\* A pass keeps to known paths.
LEMMA PassType ==
    ASSUME NEW R, NEW rs \in Seq(R), NEW ms, NEW facts, NEW actions,
           NEW start \in Exempted(Len(rs), facts)
    PROVE  Pass(rs, ms, facts, start, actions) \in Exempted(Len(rs), facts)
<1>1. PICK f \in [0..Len(rs) -> Exempted(Len(rs), facts)] :
              Passes(f, rs, ms, facts, start, actions)
  BY PassSteps
<1>2. Len(rs) \in 0..Len(rs)
  BY RulePlaces
<1> QED
  BY <1>1, <1>2 DEF Passes

\* Nothing is exempted at first.
LEMMA UnexemptedType ==
    ASSUME NEW R, NEW rs \in Seq(R), NEW facts
    PROVE  /\ Unexempted(rs) \in Exempted(Len(rs), facts)
           /\ \A j \in 1..Len(rs) : Unexempted(rs)[j] = NotExempted
<1>1. DOMAIN rs = 1..Len(rs)
  BY RulePlaces
<1>2. NotExempted \in [whole : BOOLEAN, paths : SUBSET KnownPaths(facts)]
  BY DEF NotExempted
<1> QED
  BY <1>1, <1>2 DEF Unexempted, Exempted

\* exemptions is a pass of the allows and then one of the asks.
LEMMA ExemptionsAre ==
    ASSUME NEW rs, NEW ms, NEW facts
    PROVE  Exemptions(rs, ms, facts)
             = Pass(rs, ms, facts, Pass(rs, ms, facts, Unexempted(rs), {"Allow"}), {"Ask"})
BY DEF Exemptions, Once

\* The rules are exempted of the same, with and without the inert ones.
LEMMA ExemptionsEmbed ==
    ASSUME NEW R, NEW rs \in Seq(R), NEW F \in Seq(R), NEW e, Embeds(e, F, rs),
           NEW ms, NEW mF, NEW facts, LeavesOutInert(e, F, rs, ms), Along(e, F, ms, mF)
    PROVE  Along(e, F, Exemptions(rs, ms, facts), Exemptions(F, mF, facts))
<1> DEFINE s == Unexempted(rs)
           sF == Unexempted(F)
           t == Pass(rs, ms, facts, s, {"Allow"})
           tF == Pass(F, mF, facts, sF, {"Allow"})
<1>1. \A q \in 1..Len(F) : e[q] \in 1..Len(rs)
  BY DEF Embeds
<1>2. s \in Exempted(Len(rs), facts) /\ sF \in Exempted(Len(F), facts)
  BY UnexemptedType
<1>3. Along(e, F, s, sF)
  BY <1>1, UnexemptedType DEF Along
<1>4. t \in Exempted(Len(rs), facts) /\ tF \in Exempted(Len(F), facts)
  <2> HIDE DEF s, sF
  <2> QED
    BY <1>2, PassType
<1>5. Along(e, F, t, tF)
  <2> HIDE DEF s, sF
  <2> QED
    BY <1>2, <1>3, PassEmbeds
<1>6. Along(e, F, Pass(rs, ms, facts, t, {"Ask"}), Pass(F, mF, facts, tF, {"Ask"}))
  <2> HIDE DEF t, tF
  <2> QED
    BY <1>4, <1>5, PassEmbeds
<1>7. Exemptions(rs, ms, facts) = Pass(rs, ms, facts, t, {"Ask"})
      /\ Exemptions(F, mF, facts) = Pass(F, mF, facts, tF, {"Ask"})
  BY ExemptionsAre
<1> QED
  BY <1>6, <1>7

\* What matches is what counts under the exemptions.
LEMMA MatchedIs ==
    ASSUME NEW rs, NEW cmd, NEW env
    PROVE  LET facts == FactsOf(cmd, env)
               ms == Meetings(rs, facts, env)
           IN  Matched(rs, cmd, env) = Counted(rs, ms, Exemptions(rs, ms, facts))
BY DEF Matched, Once

\* A meeting is of its own rule.
LEMMA MeetingsAre ==
    ASSUME NEW R, NEW rs \in Seq(R), NEW facts, NEW env
    PROVE  \A i \in 1..Len(rs) : Meetings(rs, facts, env)[i] = Meet(rs[i], facts, env)
BY RulePlaces DEF Meetings

\* decide is the strictest of what matches.
LEMMA DecideIs ==
    ASSUME NEW rs, NEW cmd, NEW env, NEW default
    PROVE  /\ Matched(rs, cmd, env) # {}
                => Decide(rs, cmd, env, default) = Strictest(Matched(rs, cmd, env))
           /\ Matched(rs, cmd, env) = {}
                => Decide(rs, cmd, env, default)
                     = IF env.via = "tmux" THEN default ELSE "Passthrough"
<1> DEFINE m == Matched(rs, cmd, env)
<1>1. Decide(rs, cmd, env, default)
        = IF m # {} THEN Strictest(m) ELSE IF env.via = "tmux" THEN default ELSE "Passthrough"
  BY DEF Decide, Once
<1> QED
  BY <1>1

\* A decision is as strict as one of 0..3.
LEMMA SeverityType ==
    ASSUME NEW d
    PROVE  Severity(d) \in 0..3
BY DEF Severity

\* The strictest of some decisions is one of them, and as strict as each.
LEMMA StrictestIs ==
    ASSUME NEW D, D # {}
    PROVE  Strictest(D) \in D /\ \A d \in D : Severity(d) <= Severity(Strictest(D))
<1> DEFINE T == {Severity(d) : d \in D}
<1>1. T \in SUBSET (0..3) /\ T # {}
  BY SeverityType
<1>2. PICK n \in T : \A m \in T : m <= n
  <2> HIDE DEF T
  <2> QED
    BY <1>1, NatMax
<1>3. \E d \in D : \A c \in D : Severity(c) <= Severity(d)
  <2>1. PICK d \in D : n = Severity(d)
    OBVIOUS
  <2>2. \A c \in D : Severity(c) \in T
    OBVIOUS
  <2> HIDE DEF T
  <2> QED
    BY <1>2, <2>1, <2>2
<1> QED
  BY <1>3 DEF Strictest

\* What F leaves out of rs is False on the command.
LeavesOutFalse(e, F, rs, ms) ==
    \A n \in 1..Len(rs) : (\A q \in 1..Len(F) : e[q] # n) => ms[n].command = "False"

\* The embedded rules that match match among all of them, and the others do
\* not match when they are False.
LEMMA MatchedEmbeds ==
    ASSUME NEW R, NEW rs \in Seq(R), NEW F \in Seq(R), NEW e, Embeds(e, F, rs), NEW cmd, NEW env,
           LeavesOutInert(e, F, rs, Meetings(rs, FactsOf(cmd, env), env))
    PROVE  /\ Matched(F, cmd, env) \subseteq Matched(rs, cmd, env)
           /\ LeavesOutFalse(e, F, rs, Meetings(rs, FactsOf(cmd, env), env))
                => Matched(rs, cmd, env) = Matched(F, cmd, env)
<1> DEFINE facts == FactsOf(cmd, env)
           ms == Meetings(rs, facts, env)
           mF == Meetings(F, facts, env)
           ex == Exemptions(rs, ms, facts)
           exF == Exemptions(F, mF, facts)
<1>1. DOMAIN rs = 1..Len(rs) /\ DOMAIN F = 1..Len(F)
  BY RulePlaces
<1>2. \A q \in 1..Len(F) : e[q] \in 1..Len(rs) /\ F[q] = rs[e[q]]
  BY DEF Embeds
<1>3. \A n \in 1..Len(rs) : ms[n] = Meet(rs[n], facts, env)
  BY MeetingsAre
<1>4. \A q \in 1..Len(F) : mF[q] = Meet(F[q], facts, env)
  BY MeetingsAre
<1> HIDE DEF ms, mF
<1>5. Along(e, F, ms, mF)
  BY <1>2, <1>3, <1>4 DEF Along
<1>6. LeavesOutInert(e, F, rs, ms)
  BY DEF ms
<1> HIDE DEF facts
<1>7. Along(e, F, ex, exF)
  BY <1>5, <1>6, ExemptionsEmbed
<1>8. Matched(rs, cmd, env) = Counted(rs, ms, ex) /\ Matched(F, cmd, env) = Counted(F, mF, exF)
  BY MatchedIs DEF facts, ms, mF
<1> HIDE DEF ex, exF
<1>9. Counted(F, mF, exF) \subseteq Counted(rs, ms, ex)
  <2>1. ASSUME NEW q \in 1..Len(F), ~exF[q].whole, Counts(F[q], TruthOf(mF[q], exF[q].paths))
        PROVE  F[q].action \in Counted(rs, ms, ex)
    <3>1. e[q] \in 1..Len(rs) /\ F[q] = rs[e[q]] /\ mF[q] = ms[e[q]] /\ exF[q] = ex[e[q]]
      BY <1>2, <1>5, <1>7 DEF Along
    <3>2. /\ ~ex[e[q]].whole
          /\ Counts(rs[e[q]], TruthOf(ms[e[q]], ex[e[q]].paths))
          /\ F[q].action = rs[e[q]].action
      BY <2>1, <3>1
    <3> QED
      BY <1>1, <3>1, <3>2, Zenon DEF Counted
  <2> QED
    BY <1>1, <2>1, Zenon DEF Counted
<1>10. ASSUME LeavesOutFalse(e, F, rs, ms)
       PROVE  Counted(rs, ms, ex) \subseteq Counted(F, mF, exF)
  <2>1. ASSUME NEW n \in 1..Len(rs), ~ex[n].whole, Counts(rs[n], TruthOf(ms[n], ex[n].paths))
        PROVE  rs[n].action \in Counted(F, mF, exF)
    <3>1. PICK q \in 1..Len(F) : e[q] = n
      <4>1. SUFFICES ASSUME \A q \in 1..Len(F) : e[q] # n PROVE FALSE
        OBVIOUS
      <4>2. ms[n].command = "False"
        BY <1>10, <4>1 DEF LeavesOutFalse
      <4>3. TruthOf(ms[n], ex[n].paths) = "False"
        BY <4>2, FalseCommand
      <4> QED
        BY <2>1, <4>3 DEF Counts
    <3>2. F[q] = rs[n] /\ mF[q] = ms[n] /\ exF[q] = ex[n]
      BY <1>2, <1>5, <1>7, <3>1 DEF Along
    <3>3. ~exF[q].whole /\ Counts(F[q], TruthOf(mF[q], exF[q].paths)) /\ rs[n].action = F[q].action
      BY <2>1, <3>2
    <3> QED
      BY <1>1, <3>3, Zenon DEF Counted
  <2> QED
    BY <1>1, <2>1, Zenon DEF Counted
<1> QED
  <2>1. LeavesOutFalse(e, F, rs, ms) => Matched(rs, cmd, env) = Matched(F, cmd, env)
    <3>1. SUFFICES ASSUME LeavesOutFalse(e, F, rs, ms)
                   PROVE  Matched(rs, cmd, env) = Matched(F, cmd, env)
      OBVIOUS
    <3>2. Counted(rs, ms, ex) \subseteq Counted(F, mF, exF)
      BY <1>10, <3>1
    <3>3. Counted(rs, ms, ex) = Counted(F, mF, exF)
      BY <1>9, <3>2
    <3> QED
      BY <1>8, <3>3
  <2> QED
    BY <1>8, <1>9, <2>1 DEF facts, ms

\* F are the elements of s at the places of which up to n, at e.
Picks(e, F, s, which, n) ==
    /\ e \in [1..Len(F) -> 1..n]
    /\ \A p, q \in 1..Len(F) : p < q => e[p] < e[q]
    /\ \A q \in 1..Len(F) : F[q] = s[e[q]] /\ e[q] \in which
    /\ \A m \in 1..n : m \in which => \E q \in 1..Len(F) : e[q] = m

\* One element more, or none.
LEMMA PicksNext ==
    ASSUME NEW R, NEW s \in Seq(R), NEW F \in Seq(R), NEW which, NEW n \in 1..Len(s), NEW e,
           Picks(e, F, s, which, n - 1)
    PROVE  LET G == IF n \in which THEN Append(F, s[n]) ELSE F
           IN  G \in Seq(R) /\ \E d : Picks(d, G, s, which, n)
<1>0. n \in Nat /\ Len(F) \in Nat /\ s[n] \in R
  BY RulePlaces, ElementOfSeq
<1>1. CASE n \notin which
  <2>1. \A m \in 1..n : m # n => m \in 1..(n - 1)
    BY <1>0
  <2>2. e \in [1..Len(F) -> 1..(n - 1)]
    BY DEF Picks
  <2>3. e \in [1..Len(F) -> 1..n]
    BY <1>0, <2>2
  <2>4. \A m \in 1..n : m \in which => \E q \in 1..Len(F) : e[q] = m
    BY <1>1, <2>1 DEF Picks
  <2>5. Picks(e, F, s, which, n)
    BY <2>3, <2>4 DEF Picks
  <2> QED
    BY <1>1, <2>5
<1>2. CASE n \in which
  <2> DEFINE k == Len(F) + 1
             G == Append(F, s[n])
             d == [q \in 1..k |-> IF q = k THEN n ELSE e[q]]
  <2>1. G \in Seq(R) /\ Len(G) = k /\ G[k] = s[n] /\ \A q \in 1..Len(F) : G[q] = F[q]
    BY <1>0, AppendProperties
  <2>2. k \in 1..k /\ \A q \in 1..k : q # k => q \in 1..Len(F)
    BY <1>0
  <2>3. \A q \in 1..Len(F) : q \in 1..k /\ q # k /\ q < k
    BY <1>0
  <2>4. d[k] = n /\ \A q \in 1..Len(F) : d[q] = e[q]
    BY <2>2, <2>3
  <2>5. e \in [1..Len(F) -> 1..(n - 1)]
    BY DEF Picks
  <2>6. d \in [1..k -> 1..n]
    <3>1. \A q \in 1..Len(F) : e[q] \in 1..n
      BY <1>0, <2>5
    <3>2. n \in 1..n
      BY <1>0
    <3> QED
      BY <2>2, <3>1, <3>2
  <2> HIDE DEF d, G
  <2>7. ASSUME NEW p \in 1..k, NEW q \in 1..k, p < q
        PROVE  d[p] < d[q]
    <3>1. p \in 1..Len(F)
      BY <1>0, <2>7
    <3>2. e[p] \in 1..(n - 1)
      BY <2>5, <3>1
    <3>3. CASE q = k
      BY <1>0, <2>4, <3>1, <3>2, <3>3
    <3>4. CASE q # k
      <4>1. q \in 1..Len(F)
        BY <2>2, <3>4
      <4>2. e[p] < e[q]
        BY <2>7, <3>1, <4>1 DEF Picks
      <4> QED
        BY <2>4, <3>1, <4>1, <4>2
    <3> QED
      BY <3>3, <3>4
  <2>8. ASSUME NEW q \in 1..k
        PROVE  G[q] = s[d[q]] /\ d[q] \in which
    <3>1. CASE q = k
      BY <1>2, <2>1, <2>4, <3>1
    <3>2. CASE q # k
      <4>1. q \in 1..Len(F)
        BY <2>2, <3>2
      <4>2. F[q] = s[e[q]] /\ e[q] \in which
        BY <4>1 DEF Picks
      <4> QED
        BY <2>1, <2>4, <4>1, <4>2
    <3> QED
      BY <3>1, <3>2
  <2>9. ASSUME NEW m \in 1..n, m \in which
        PROVE  \E q \in 1..k : d[q] = m
    <3>1. CASE m = n
      BY <2>2, <2>4, <3>1
    <3>2. CASE m # n
      <4>1. m \in 1..(n - 1)
        BY <1>0, <3>2
      <4>2. PICK q \in 1..Len(F) : e[q] = m
        BY <2>9, <4>1 DEF Picks
      <4> QED
        BY <2>3, <2>4, <4>2
    <3> QED
      BY <3>1, <3>2
  <2>10. Picks(d, G, s, which, n)
    <3> HIDE DEF k
    <3> QED
      BY <2>1, <2>6, <2>7, <2>8, <2>9 DEF Picks
  <2> QED
    BY <1>2, <2>1, <2>10 DEF G
<1> QED
  BY <1>1, <1>2

\* The elements of a sequence at some places are there in their order.
LEMMA ThoseAre ==
    ASSUME NEW R, NEW s \in Seq(R), NEW which
    PROVE  Those(s, which) \in Seq(R) /\ \E e : Picks(e, Those(s, which), s, which, Len(s))
<1> DEFINE N == Len(s)
           X == Seq(R)
           next(n, F) == IF n \in which THEN Append(F, s[n]) ELSE F
           rec(f) == [n \in 0..N |-> IF n = 0 THEN <<>> ELSE next(n, f[n - 1])]
           step == [n \in 1..N |-> [F \in X |-> next(n, F)]]
           g == CHOOSE g : g = rec(g)
<1>0. N \in Nat
  BY RulePlaces
<1>1. \A n \in 1..N, F \in X : next(n, F) \in X
  <2>1. \A n \in 1..N : s[n] \in R
    BY ElementOfSeq
  <2> QED
    BY <2>1, AppendProperties
<1>2. \E f : f = rec(f)
  <2> DEFINE base == <<>>
  <2>0. base \in X
    BY EmptySeq
  <2>1. step \in [1..N -> [X -> X]]
    BY <1>1
  <2> HIDE DEF step, X, base
  <2>2. PICK f \in [0..N -> X] : Follows(f, N, base, step)
    BY <1>0, <2>0, <2>1, Recursion
  <2>3. f[0] = <<>> /\ \A n \in 1..N : f[n] = step[n][f[n - 1]]
    BY <2>2 DEF Follows, base
  <2>4. \A n \in 1..N : n - 1 \in 0..N /\ f[n - 1] \in X
    BY <1>0
  <2> HIDE DEF next
  <2>5. \A n \in 1..N : f[n] = next(n, f[n - 1])
    BY <2>3, <2>4 DEF step
  <2>6. \A n \in 0..N : f[n] = IF n = 0 THEN <<>> ELSE next(n, f[n - 1])
    <3>1. \A n \in 0..N : n = 0 \/ n \in 1..N
      BY <1>0
    <3> QED
      BY <2>3, <2>5, <3>1
  <2>7. f = [n \in 0..N |-> f[n]]
    OBVIOUS
  <2>8. f = rec(f)
    BY <2>6, <2>7
  <2> QED
    BY <2>8
<1>3. g = rec(g)
  <2> HIDE DEF rec
  <2> QED
    BY <1>2
<1>4. Those(s, which) = g[N]
  BY Zenon DEF Those
<1>5. \A n \in 0..N : g[n] = IF n = 0 THEN <<>> ELSE next(n, g[n - 1])
  <2>1. \A n \in 0..N : rec(g)[n] = IF n = 0 THEN <<>> ELSE next(n, g[n - 1])
    <3> HIDE DEF next
    <3> QED
      OBVIOUS
  <2> HIDE DEF rec, g
  <2> QED
    BY <1>3, <2>1
<1> HIDE DEF g, rec, step
<1> DEFINE S == {n \in 0..N : g[n] \in Seq(R) /\ \E e : Picks(e, g[n], s, which, n)}
<1>6. 0 \in S
  <2>1. g[0] = <<>> /\ 0 \in 0..N
    BY <1>0, <1>5
  <2> DEFINE z == <<>>
  <2>2. z \in Seq(R) /\ Len(z) = 0
    BY EmptySeq
  <2> DEFINE e == [q \in 1..0 |-> 1]
  <2>3. 1..0 = {}
    OBVIOUS
  <2>4. e \in [1..0 -> 1..0]
    BY <2>3
  <2> HIDE DEF z, e
  <2>5. Picks(e, z, s, which, 0)
    BY <2>2, <2>3, <2>4 DEF Picks
  <2>6. g[0] = z
    BY <2>1 DEF z
  <2> QED
    BY <2>1, <2>2, <2>5, <2>6
<1>7. ASSUME NEW n \in 1..N, n - 1 \in S
      PROVE  n \in S
  <2>1. g[n - 1] \in Seq(R)
    BY <1>7
  <2>2. PICK e : Picks(e, g[n - 1], s, which, n - 1)
    BY <1>7
  <2>3. n \in 0..N /\ g[n] = next(n, g[n - 1])
    BY <1>0, <1>5
  <2> DEFINE F == g[n - 1]
  <2>4. F \in Seq(R) /\ Picks(e, F, s, which, n - 1) /\ g[n] = next(n, F)
    BY <2>1, <2>2, <2>3
  <2> HIDE DEF F
  <2>5. next(n, F) \in Seq(R) /\ \E d : Picks(d, next(n, F), s, which, n)
    BY <2>4, PicksNext
  <2> QED
    BY <2>3, <2>4, <2>5
<1>8. N \in S
  <2> HIDE DEF S
  <2>1. \A n \in 0..N : n \in S
    BY <1>0, <1>6, <1>7, UpTo
  <2> QED
    BY <1>0, <2>1
<1> QED
  BY <1>4, <1>8

\* A sequence without one of its elements.
LEMMA WithoutEmbeds ==
    ASSUME NEW R, rules \in Seq(R), NEW i \in 1..Len(rules)
    PROVE  Without(i) \in Seq(R) /\ \E e : /\ Embeds(e, Without(i), rules)
                                           /\ \A n \in 1..Len(rules) : n # i =>
                                                \E q \in 1..Len(Without(i)) : e[q] = n
<1> DEFINE N == Len(rules)
           a == SubSeq(rules, 1, i - 1)
           b == SubSeq(rules, i + 1, N)
           F == a \o b
           e == [q \in 1..(N - 1) |-> IF q < i THEN q ELSE q + 1]
<1>0. N \in Nat /\ i \in Nat
  BY RulePlaces
<1>1. a \in Seq(R) /\ Len(a) = i - 1 /\ \A q \in 1..(i - 1) : a[q] = rules[q]
  <2>1. 1 \in 1..(N + 1) /\ i - 1 \in 0..N
    BY <1>0
  <2> QED
    BY <1>0, <2>1, SubSeqProperties
<1>2. b \in Seq(R) /\ Len(b) = N - i /\ \A q \in 1..(N - i) : b[q] = rules[i + q]
  BY <1>0, SubSeqProperties
<1> HIDE DEF a, b
<1>3. F \in Seq(R) /\ Len(F) = N - 1
  <2>1. F \in Seq(R) /\ Len(F) = Len(a) + Len(b)
    BY <1>1, <1>2, ConcatProperties
  <2> HIDE DEF F
  <2> QED
    BY <1>0, <1>1, <1>2, <2>1
<1>4. \A q \in 1..(N - 1) : F[q] = IF q < i THEN rules[q] ELSE rules[q + 1]
  <2>1. \A q \in 1..(Len(a) + Len(b)) : F[q] = IF q <= Len(a) THEN a[q] ELSE b[q - Len(a)]
    BY <1>1, <1>2, ConcatProperties
  <2>2. ASSUME NEW q \in 1..(N - 1)
        PROVE  F[q] = IF q < i THEN rules[q] ELSE rules[q + 1]
    <3>1. F[q] = IF q <= i - 1 THEN a[q] ELSE b[q - (i - 1)]
      BY <1>0, <1>1, <1>2, <2>1
    <3>2. CASE q < i
      BY <1>0, <1>1, <3>1, <3>2
    <3>3. CASE ~(q < i)
      <4>1. q - (i - 1) \in 1..(N - i) /\ i + (q - (i - 1)) = q + 1 /\ ~(q <= i - 1)
        BY <1>0, <3>3
      <4> QED
        BY <1>2, <3>1, <3>3, <4>1
    <3> QED
      BY <3>2, <3>3
  <2> QED
    BY <2>2
<1>5. e \in [1..(N - 1) -> 1..N] /\ \A q \in 1..(N - 1) : e[q] = IF q < i THEN q ELSE q + 1
  BY <1>0
<1> HIDE DEF F, e
<1>6. \A p, q \in 1..(N - 1) : p < q => e[p] < e[q]
  BY <1>0, <1>5
<1>7. \A q \in 1..(N - 1) : F[q] = rules[e[q]]
  BY <1>4, <1>5
<1>8. Embeds(e, F, rules)
  BY <1>3, <1>5, <1>6, <1>7 DEF Embeds
<1>9. ASSUME NEW n \in 1..N, n # i
      PROVE  \E q \in 1..(N - 1) : e[q] = n
  <2>1. CASE n < i
    <3>1. n \in 1..(N - 1) /\ e[n] = n
      BY <1>0, <1>5, <2>1
    <3> QED
      BY <3>1
  <2>2. CASE ~(n < i)
    <3>1. n - 1 \in 1..(N - 1) /\ e[n - 1] = n
      BY <1>0, <1>5, <1>9, <2>2
    <3> QED
      BY <3>1
  <2> QED
    BY <2>1, <2>2
<1>10. Without(i) = F
  BY DEF Without, F, a, b
<1> QED
  BY <1>3, <1>8, <1>9, <1>10

\* For any rules and any command: "adding a rule never loosens".  Where other
\* rules match, one more that exempts nothing leaves the decision as strict or
\* makes it stricter (decide, exemptions).
THEOREM AddingNeverLoosensHolds ==
    ASSUME NEW R, rules \in Seq(R)
    PROVE  AddingNeverLoosens
<1>1. DOMAIN rules = 1..Len(rules)
  BY RulePlaces
<1>2. ASSUME NEW i \in 1..Len(rules), rules[i].exempts = {}, NEW cmd,
             Matched(Without(i), cmd, last.env) # {}
      PROVE  Severity(Decide(Without(i), cmd, last.env, Default))
                    <= Severity(Decide(rules, cmd, last.env, Default))
  <2> DEFINE F == Without(i)
             env == last.env
             ms == Meetings(rules, FactsOf(cmd, env), env)
  <2>1. F \in Seq(R)
    BY WithoutEmbeds
  <2>2. PICK e : /\ Embeds(e, F, rules)
                 /\ \A n \in 1..Len(rules) : n # i => \E q \in 1..Len(F) : e[q] = n
    BY WithoutEmbeds
  <2> HIDE DEF F, env
  <2>3. LeavesOutInert(e, F, rules, ms)
    BY <1>2, <2>2 DEF LeavesOutInert, Inert
  <2>4. Matched(F, cmd, env) \subseteq Matched(rules, cmd, env)
    BY <2>1, <2>2, <2>3, MatchedEmbeds
  <2>5. Matched(F, cmd, env) # {}
    BY <1>2 DEF F, env
  <2>6. Matched(rules, cmd, env) # {}
    BY <2>4, <2>5
  <2>7. /\ Decide(F, cmd, env, Default) = Strictest(Matched(F, cmd, env))
        /\ Decide(rules, cmd, env, Default) = Strictest(Matched(rules, cmd, env))
    BY <2>5, <2>6, DecideIs
  <2>8. Strictest(Matched(F, cmd, env)) \in Matched(rules, cmd, env)
    BY <2>4, <2>5, StrictestIs
  <2>9. \A d \in Matched(rules, cmd, env) :
            Severity(d) <= Severity(Strictest(Matched(rules, cmd, env)))
    BY <2>6, StrictestIs
  <2>10. Severity(Decide(F, cmd, env, Default)) <= Severity(Decide(rules, cmd, env, Default))
    BY <2>7, <2>8, <2>9
  <2> QED
    BY <2>10 DEF F, env
<1> QED
  BY <1>1, <1>2 DEF AddingNeverLoosens

\* A rule of the project is False on a command that runs elsewhere.
LEMMA ElsewhereFalse ==
    ASSUME NEW rule, rule.project, NEW facts, NEW env, facts.host = "there"
    PROVE  Meet(rule, facts, env).command = "False"
<1>1. HostMatch(rule, facts, env) = "False"
  BY Zenon DEF HostMatch
<1>2. \E truths : "False" \in truths /\ Meet(rule, facts, env).command = Every(truths)
  BY <1>1 DEF Meet
<1> QED
  BY <1>2 DEF Every

\* For any rules and any command: "a project rule applies only on this
\* machine", by its host key too.  For a command that runs elsewhere the rules
\* of the project neither decide nor exempt (host_match).
THEOREM ProjectStaysHereHolds ==
    ASSUME NEW R, rules \in Seq(R)
    PROVE  ProjectStaysHere
<1> DEFINE which == {i \in DOMAIN rules : ~rules[i].project}
           F == Those(rules, which)
           env == last.env
<1>1. DOMAIN rules = 1..Len(rules)
  BY RulePlaces
<1>2. F \in Seq(R)
  BY ThoseAre
<1>3. PICK e : Picks(e, F, rules, which, Len(rules))
  BY ThoseAre
<1>4. ASSUME NEW n \in 1..Len(rules), \A q \in 1..Len(F) : e[q] # n
      PROVE  rules[n].project
  BY <1>1, <1>3, <1>4 DEF Picks
<1> HIDE DEF F, which
<1>5. Embeds(e, F, rules)
  BY <1>3 DEF Picks, Embeds
<1>6. ASSUME NEW cmd, HostOf(cmd.context.host, env) = "there"
      PROVE  Matched(rules, cmd, env) = Matched(F, cmd, env)
  <2> DEFINE facts == FactsOf(cmd, env)
             ms == Meetings(rules, facts, env)
  <2>1. facts.host = "there"
    BY <1>6 DEF FactsOf
  <2> HIDE DEF facts
  <2>2. \A n \in 1..Len(rules) : ms[n] = Meet(rules[n], facts, env)
    BY MeetingsAre
  <2> HIDE DEF ms
  <2>3. LeavesOutFalse(e, F, rules, ms)
    <3>1. ASSUME NEW n \in 1..Len(rules), \A q \in 1..Len(F) : e[q] # n
          PROVE  ms[n].command = "False"
      BY <1>4, <2>1, <2>2, <3>1, ElsewhereFalse
    <3> QED
      BY <3>1 DEF LeavesOutFalse
  <2>4. LeavesOutInert(e, F, rules, ms)
    BY <2>3 DEF LeavesOutFalse, LeavesOutInert, Inert
  <2> QED
    BY <1>2, <1>5, <2>3, <2>4, MatchedEmbeds DEF facts, ms
<1> QED
  BY <1>6 DEF ProjectStaysHere, F, which, env

-----------------------------------------------------------------------------
\* Exemptions on paths

\* The elements of a sequence at some places are those of its places.
LEMMA ThoseRange ==
    ASSUME NEW R, NEW s \in Seq(R), NEW which \in SUBSET (1..Len(s))
    PROVE  IsSequence(Those(s, which)) /\ Range(Those(s, which)) = {s[i] : i \in which}
<1> DEFINE F == Those(s, which)
<1>1. F \in Seq(R)
  BY ThoseAre
<1>2. PICK e : Picks(e, F, s, which, Len(s))
  BY ThoseAre
<1> HIDE DEF F
<1>3. IsSequence(F) /\ Range(F) = {F[q] : q \in 1..Len(F)}
  BY <1>1, SeqOfRange, RangeEquality DEF IsSequence
<1>4. \A q \in 1..Len(F) : F[q] = s[e[q]] /\ e[q] \in which
  BY <1>2 DEF Picks
<1>5. \A m \in which : \E q \in 1..Len(F) : e[q] = m
  BY <1>2 DEF Picks
<1>6. Range(F) = {s[i] : i \in which}
  <2>1. \A q \in 1..Len(F) : F[q] \in {s[i] : i \in which}
    BY <1>4
  <2>2. \A m \in which : s[m] \in {F[q] : q \in 1..Len(F)}
    BY <1>4, <1>5
  <2> QED
    BY <1>3, <2>1, <2>2
<1> QED
  BY <1>3, <1>6 DEF F

\* A sequence is one of any elements it has.
LEMMA SequenceOf ==
    ASSUME NEW R, NEW s \in Seq(R)
    PROVE  IsSequence(s) /\ Range(s) = {s[i] : i \in 1..Len(s)}
BY SeqOfRange, RangeEquality DEF IsSequence

\* The elements of two sequences, one after the other.
LEMMA ConcatRange ==
    ASSUME NEW a, NEW b, IsSequence(a), IsSequence(b)
    PROVE  IsSequence(a \o b) /\ Range(a \o b) = Range(a) \cup Range(b)
<1> DEFINE R == Range(a) \cup Range(b)
           A == Range(a)
           B == Range(b)
<1>1. a \in Seq(A) /\ b \in Seq(B) /\ A \subseteq R /\ B \subseteq R
  BY DEF IsSequence
<1> HIDE DEF A, B, R
<1>2. a \in Seq(R) /\ b \in Seq(R)
  BY <1>1, SeqMonotonic
<1>3. a \o b \in Seq(R)
  BY <1>2, ConcatProperties
<1>4. IsSequence(a \o b)
  BY <1>3, SequenceOf
<1>5. Range(a \o b) = Range(a) \cup Range(b)
  BY <1>2, RangeConcatenation
<1> QED
  BY <1>4, <1>5

\* A function on 1..n is a sequence.
LEMMA FunctionSequence ==
    ASSUME NEW n \in Nat, NEW f, f = [i \in 1..n |-> f[i]]
    PROVE  IsSequence(f) /\ Len(f) = n
<1> DEFINE R == {f[i] : i \in 1..n}
<1>1. f \in [1..n -> R]
  OBVIOUS
<1> HIDE DEF R
<1>2. f \in Seq(R)
  BY <1>1, SeqDef
<1>3. Len(f) = n
  BY <1>1, <1>2, LenProperties
<1> QED
  BY <1>2, <1>3, SequenceOf

\* The paths of a command are what it reads and writes and the files its
\* redirects open; those it writes, the ones of these it writes.
LEMMA FactsLists ==
    ASSUME NEW cmd, NEW env, Typed(cmd)
    PROVE  LET facts == FactsOf(cmd, env)
               opened == {i \in 1..Len(cmd.redirects) : cmd.redirects[i].target.t # "null"}
           IN  /\ IsSequence(facts.paths.v.elements) /\ IsSequence(facts.writes.v.elements)
               /\ Range(facts.paths.v.elements)
                    = Range(cmd.reads.v.elements) \cup Range(cmd.writes.v.elements)
                        \cup {cmd.redirects[i].target : i \in opened}
               /\ Range(facts.writes.v.elements)
                    = Range(cmd.writes.v.elements)
                        \cup {cmd.redirects[i].target : i \in {i \in opened : cmd.redirects[i].isWrite}}
<1> DEFINE rs == cmd.redirects
           r == cmd.reads.v.elements
           w == cmd.writes.v.elements
           n == Len(rs)
           opened == {i \in 1..n : rs[i].target.t # "null"}
           written == {i \in opened : rs[i].isWrite}
           targets == [i \in 1..n |-> rs[i].target]
           facts == FactsOf(cmd, env)
<1>1. IsSequence(r) /\ IsSequence(w) /\ IsSequence(rs)
  BY DEF Typed, IsListOfWords
<1>2. n \in Nat /\ DOMAIN rs = 1..n
  BY <1>1, RulePlaces DEF IsSequence
<1>3. /\ facts.paths.v.elements = r \o w \o Those(targets, opened)
      /\ facts.writes.v.elements = w \o Those(targets, written)
  BY <1>2 DEF FactsOf, ListOf
<1>4. IsSequence(targets) /\ Len(targets) = n
  BY <1>2, FunctionSequence
<1>5. targets \in Seq(Range(targets))
  BY <1>4 DEF IsSequence
<1>6. opened \in SUBSET (1..Len(targets)) /\ written \in SUBSET (1..Len(targets))
  BY <1>4
<1>7. \A i \in 1..n : targets[i] = rs[i].target
  OBVIOUS
<1> HIDE DEF targets, opened, written
<1>8. /\ IsSequence(Those(targets, opened))
      /\ Range(Those(targets, opened)) = {targets[i] : i \in opened}
      /\ IsSequence(Those(targets, written))
      /\ Range(Those(targets, written)) = {targets[i] : i \in written}
  BY <1>5, <1>6, ThoseRange
<1>9. /\ {targets[i] : i \in opened} = {rs[i].target : i \in opened}
      /\ {targets[i] : i \in written} = {rs[i].target : i \in written}
  BY <1>4, <1>6, <1>7
<1>10. IsSequence(r \o w) /\ Range(r \o w) = Range(r) \cup Range(w)
  BY <1>1, ConcatRange
<1>11. /\ IsSequence((r \o w) \o Those(targets, opened))
       /\ Range((r \o w) \o Those(targets, opened)) = Range(r \o w) \cup Range(Those(targets, opened))
  BY <1>8, <1>10, ConcatRange
<1>12. /\ IsSequence(w \o Those(targets, written))
       /\ Range(w \o Those(targets, written)) = Range(w) \cup Range(Those(targets, written))
  BY <1>1, <1>8, ConcatRange
<1>13. /\ IsSequence(facts.paths.v.elements)
       /\ Range(facts.paths.v.elements) = Range(r) \cup Range(w) \cup {rs[i].target : i \in opened}
  BY <1>3, <1>8, <1>9, <1>10, <1>11
<1>14. /\ IsSequence(facts.writes.v.elements)
       /\ Range(facts.writes.v.elements) = Range(w) \cup {rs[i].target : i \in written}
  BY <1>3, <1>8, <1>9, <1>12
<1> QED
  BY <1>13, <1>14 DEF opened, written

\* A pass spares a path that none of the exempting rules surely holds on.
Spared(exempted, i, p) == ~exempted[i].whole /\ p \notin exempted[i].paths

\* One pass keeps a spared path spared.
LEMMA PassSpares ==
    ASSUME NEW R, NEW rs \in Seq(R), NEW ms, NEW facts, NEW actions, NEW p, NEW i \in 1..Len(rs),
           PerPath(rs[i]),
           \A j \in 1..Len(rs) : rs[i].id \in rs[j].exempts => ~SureOn(ms[j], p),
           NEW start \in Exempted(Len(rs), facts), Spared(start, i, p)
    PROVE  Spared(Pass(rs, ms, facts, start, actions), i, p)
<1> DEFINE N == Len(rs)
<1>0. N \in Nat /\ DOMAIN rs = 1..N
  BY RulePlaces
<1>1. PICK f \in [0..N -> Exempted(N, facts)] : Passes(f, rs, ms, facts, start, actions)
  BY PassSteps
<1> DEFINE S == {n \in 0..N : Spared(f[n], i, p)}
<1>2. 0 \in S
  BY <1>0, <1>1 DEF Passes
<1>3. ASSUME NEW n \in 1..N, n - 1 \in S
      PROVE  n \in S
  <2> DEFINE ex == f[n - 1]
  <2>1. n \in 0..N /\ n - 1 \in 0..N /\ Spared(ex, i, p)
    BY <1>0, <1>3
  <2>2. ex \in Exempted(N, facts)
    BY <2>1
  <2>3. f[n] = ExemptBy(rs, ms, facts, ex, n) \/ f[n] = ex
    BY <1>1 DEF Passes
  <2> HIDE DEF ex
  <2>4. Spared(ExemptBy(rs, ms, facts, ex, n), i, p)
    <3> DEFINE new == [ex[i] EXCEPT !.paths = @ \cup SurePaths(ms[n], ex[n], facts)]
    <3>1. \/ ExemptBy(rs, ms, facts, ex, n)[i] = ex[i]
          \/ rs[i].id \in rs[n].exempts /\ ExemptBy(rs, ms, facts, ex, n)[i] = new
      BY <1>0, Zenon DEF ExemptBy
    <3>2. CASE rs[i].id \in rs[n].exempts /\ ExemptBy(rs, ms, facts, ex, n)[i] = new
      <4>1. p \notin SurePaths(ms[n], ex[n], facts)
        BY <3>2 DEF SurePaths
      <4>2. ex[i] \in [whole : BOOLEAN, paths : SUBSET KnownPaths(facts)]
        BY <2>2 DEF Exempted
      <4>3. new.whole = ex[i].whole /\ new.paths = ex[i].paths \cup SurePaths(ms[n], ex[n], facts)
        BY <4>2
      <4> QED
        BY <2>1, <3>2, <4>1, <4>3 DEF Spared
    <3> QED
      BY <2>1, <3>1, <3>2 DEF Spared
  <2> QED
    BY <2>1, <2>3, <2>4
<1>4. N \in S
  <2> HIDE DEF S
  <2>1. \A n \in 0..N : n \in S
    BY <1>0, <1>2, <1>3, UpTo
  <2> QED
    BY <1>0, <2>1
<1> QED
  BY <1>1, <1>4 DEF Passes

\* A rule that surely holds on a path holds while the path is not exempted.
LEMMA SureHolds ==
    ASSUME NEW m, NEW p, NEW exempted, SureOn(m, p), p \notin exempted,
           IsSequence(m.path.paths), IsSequence(m.write.paths)
    PROVE  TruthOf(m, exempted) = "True"
<1>1. ASSUME NEW key \in JudgedKeys(m)
      PROVE  AnyPath(key, exempted) = "True"
  <2> DEFINE here == {i \in DOMAIN key.paths : IsText(key.paths[i]) /\ key.paths[i].v = p}
             k == CHOOSE i \in here : \A j \in here : i <= j
  <2>1. AtPath(key, p) = "True"
    BY DEF SureOn
  <2>2. IsSequence(key.paths)
    BY DEF JudgedKeys
  <2>3. DOMAIN key.paths = 1..Len(key.paths) /\ Len(key.paths) \in Nat
    BY <2>2, RulePlaces DEF IsSequence
  <2>4. here # {} /\ key.truths[k] = "True"
    BY <2>1 DEF AtPath
  <2>5. here \in SUBSET Nat
    BY <2>3
  <2>6. \E i \in here : \A j \in here : i <= j
    <3> HIDE DEF here
    <3> QED
      BY <2>4, <2>5, NatMin
  <2>7. k \in here
    <3> HIDE DEF here
    <3> QED
      BY <2>6
  <2> HIDE DEF k
  <2> DEFINE truths == {key.truths[i] : i \in {i \in DOMAIN key.paths :
                            ~(IsText(key.paths[i]) /\ key.paths[i].v \in exempted)}}
             more == IF key.exhaustive THEN {} ELSE {"Unknown"}
  <2>8. "True" \in truths
    BY <2>4, <2>7
  <2>9. AnyPath(key, exempted) = Some(truths \cup more)
    BY DEF AnyPath
  <2> HIDE DEF truths, more
  <2> QED
    BY <2>8, <2>9 DEF Some
<1>2. m.command = "True"
  BY DEF SureOn
<1> DEFINE each == {AnyPath(key, exempted) : key \in JudgedKeys(m)} \cup {m.command}
<1>3. "False" \notin each /\ "Unknown" \notin each
  BY <1>1, <1>2
<1>4. TruthOf(m, exempted) = Every(each)
  BY DEF TruthOf
<1> HIDE DEF each
<1> QED
  BY <1>3, <1>4 DEF Every

\* A rule meets a command by the paths the command shows.
LEMMA MeetKeys ==
    ASSUME NEW rule, NEW facts, NEW env
    PROVE  LET m == Meet(rule, facts, env)
               site == Site(facts, env)
           IN  /\ m.path = JudgedPaths(rule.path, facts.paths, site)
               /\ m.write = JudgedPaths(rule.write, facts.writes, site)
               /\ m.path.paths = facts.paths.v.elements
               /\ m.write.paths = facts.writes.v.elements
<1> DEFINE m == Meet(rule, facts, env)
           site == Site(facts, env)
<1>1. /\ m.path = JudgedPaths(rule.path, facts.paths, site)
      /\ m.write = JudgedPaths(rule.write, facts.writes, site)
  BY DEF Meet
<1> HIDE DEF m, site
<1>2. /\ JudgedPaths(rule.path, facts.paths, site).paths = facts.paths.v.elements
      /\ JudgedPaths(rule.write, facts.writes, site).paths = facts.writes.v.elements
  BY DEF JudgedPaths
<1> QED
  BY <1>1, <1>2 DEF m, site

\* For any rules and any command: an exemption is of the paths its own rule
\* surely holds on.  A path rule that surely holds on another path still
\* decides, so the line is at least as strict as it is (SurePaths, exemptions).
THEOREM ExemptionsKeepToTheirPathsHolds ==
    ASSUME TypeOK
    PROVE  ExemptionsKeepToTheirPaths
<1> DEFINE env == last.env
<1>0. rules \in Seq(Range(rules)) /\ DOMAIN rules = 1..Len(rules)
  BY RulePlaces DEF TypeOK, IsSequence
<1>1. ASSUME NEW cmd \in Judged, NEW i \in 1..Len(rules), PerPath(rules[i]), NEW p,
             SureOn(Meet(rules[i], FactsOf(cmd, env), env), p),
             \A j \in 1..Len(rules) : rules[i].id \in rules[j].exempts =>
                ~SureOn(Meet(rules[j], FactsOf(cmd, env), env), p)
      PROVE  Severity(rules[i].action) <= Severity(Decide(rules, cmd, env, Default))
  <2> DEFINE facts == FactsOf(cmd, env)
             ms == Meetings(rules, facts, env)
             none == Unexempted(rules)
             one == Pass(rules, ms, facts, none, {"Allow"})
             ex == Pass(rules, ms, facts, one, {"Ask"})
  <2>1. IsSequence(facts.paths.v.elements) /\ IsSequence(facts.writes.v.elements)
    BY FactsLists DEF TypeOK
  <2> HIDE DEF facts
  <2>2. \A j \in 1..Len(rules) : ms[j] = Meet(rules[j], facts, env)
    BY <1>0, MeetingsAre
  <2>3. ms[i].path.paths = facts.paths.v.elements /\ ms[i].write.paths = facts.writes.v.elements
    BY <2>2, MeetKeys
  <2> HIDE DEF ms
  <2>4. SureOn(ms[i], p)
        /\ \A j \in 1..Len(rules) : rules[i].id \in rules[j].exempts => ~SureOn(ms[j], p)
    BY <1>1, <2>2 DEF facts
  <2>5. none \in Exempted(Len(rules), facts) /\ Spared(none, i, p)
    BY <1>0, UnexemptedType DEF Spared, NotExempted
  <2> HIDE DEF none
  <2>6. one \in Exempted(Len(rules), facts)
    BY <1>0, <2>5, PassType
  <2>7. Spared(one, i, p)
    BY <1>0, <1>1, <2>4, <2>5, PassSpares
  <2> HIDE DEF one
  <2>8. Spared(ex, i, p)
    BY <1>0, <1>1, <2>4, <2>6, <2>7, PassSpares
  <2>9. ex = Exemptions(rules, ms, facts)
    BY ExemptionsAre DEF none, one
  <2> HIDE DEF ex
  <2>10. TruthOf(ms[i], ex[i].paths) = "True"
    BY <2>1, <2>3, <2>4, <2>8, SureHolds DEF Spared
  <2>11. rules[i].action \in Counted(rules, ms, ex)
    <3>1. ~ex[i].whole /\ Counts(rules[i], TruthOf(ms[i], ex[i].paths))
      BY <2>8, <2>10 DEF Spared, Counts
    <3> QED
      BY <1>0, <3>1, Zenon DEF Counted
  <2>12. rules[i].action \in Matched(rules, cmd, env)
    BY <2>9, <2>11, MatchedIs DEF ms, facts
  <2> QED
    BY <2>12, DecideIs, StrictestIs
<1>2. ASSUME NEW cmd \in Judged, NEW i \in DOMAIN rules, PerPath(rules[i]),
             NEW p \in {q \in KnownPaths(FactsOf(cmd, env)) :
                          SureOn(Meet(rules[i], FactsOf(cmd, env), env), q)},
             \A j \in DOMAIN rules : rules[i].id \in rules[j].exempts =>
                p \notin {q \in KnownPaths(FactsOf(cmd, env)) :
                            SureOn(Meet(rules[j], FactsOf(cmd, env), env), q)}
      PROVE  Severity(rules[i].action) <= Severity(Decide(rules, cmd, env, Default))
  BY <1>0, <1>1, <1>2
<1> QED
  BY <1>2, Zenon DEF ExemptionsKeepToTheirPaths

-----------------------------------------------------------------------------
\* The order of the rules

\* A map of 1..n to itself that joins no two is onto.
LEMMA OneToOneOnto ==
    ASSUME NEW n \in Nat, NEW p \in [1..n -> 1..n], \A i, j \in 1..n : p[i] = p[j] => i = j
    PROVE  \A k \in 1..n : \E i \in 1..n : p[i] = k
<1> DEFINE S == 1..n
           T == {p[i] : i \in S}
<1>1. IsFiniteSet(S) /\ Cardinality(S) = n
  BY FS_Interval
<1>2. p \in [S -> T] /\ \A t \in T : \E s \in S : p[s] = t
  OBVIOUS
<1>3. p \in Surjection(S, T)
  <2> HIDE DEF T, S
  <2> QED
    BY <1>2 DEF Surjection
<1>4. p \in Injection(S, T)
  <2>1. \A i, j \in S : p[i] = p[j] => i = j
    OBVIOUS
  <2> HIDE DEF T, S
  <2> QED
    BY <1>2, <2>1 DEF Injection, IsInjective
<1>5. T \in SUBSET S
  OBVIOUS
<1> HIDE DEF S, T
<1>6. Cardinality(T) = Cardinality(S)
  BY <1>1, <1>3, <1>4, FS_Surjection
<1>7. T = S
  BY <1>1, <1>5, <1>6, FS_Subset
<1> QED
  BY <1>7 DEF S, T

\* What rule i exempts rule j of, whole or on a path q, under exemptions ex.
ExemptsWhole(rs, ms, ex, i, j) ==
    /\ Exempts(ms[i], ex[i]) /\ rs[j].id \in rs[i].exempts /\ ~PerPath(rs[j])
    /\ ~PerPath(rs[i]) \/ (ex[i].paths = {} /\ SureOnEvery(ms[i]))
ExemptsOn(rs, ms, facts, ex, i, j, q) ==
    /\ Exempts(ms[i], ex[i]) /\ rs[j].id \in rs[i].exempts /\ PerPath(rs[j])
    /\ q \in SurePaths(ms[i], ex[i], facts)

\* ex adds to start what the acting rules up to n exempt under start.
Adds(rs, ms, facts, actions, start, ex, n) ==
    \A j \in 1..Len(rs) :
       /\ ex[j].whole <=> \/ start[j].whole
                          \/ \E i \in 1..n : /\ rs[i].action \in actions
                                             /\ ExemptsWhole(rs, ms, start, i, j)
       /\ \A q : q \in ex[j].paths
                   <=> \/ q \in start[j].paths
                       \/ \E i \in 1..n : /\ rs[i].action \in actions
                                          /\ ExemptsOn(rs, ms, facts, start, i, j, q)

\* No rule with one of the actions exempts another one of them.
Apart(rs, actions) ==
    \A i, j \in 1..Len(rs) :
       rs[i].action \in actions /\ rs[j].action \in actions => rs[j].id \notin rs[i].exempts

\* What is exempted of one rule.
LEMMA ExemptionType ==
    ASSUME NEW n, NEW facts, NEW ex \in Exempted(n, facts), NEW j \in 1..n
    PROVE  /\ ex[j].whole \in BOOLEAN /\ ex[j].paths \in SUBSET KnownPaths(facts)
           /\ ex[j] = [whole |-> ex[j].whole, paths |-> ex[j].paths]
<1>1. ex[j] \in [whole : BOOLEAN, paths : SUBSET KnownPaths(facts)]
  BY DEF Exempted
<1> QED
  BY <1>1

\* One rule adds its own.
LEMMA ExemptByAdds ==
    ASSUME NEW R, NEW rs \in Seq(R), NEW ms, NEW facts, NEW i \in 1..Len(rs),
           NEW ex \in Exempted(Len(rs), facts), NEW j \in 1..Len(rs)
    PROVE  LET new == ExemptBy(rs, ms, facts, ex, i)
           IN  /\ new[j].whole <=> ex[j].whole \/ ExemptsWhole(rs, ms, ex, i, j)
               /\ \A q : q \in new[j].paths
                           <=> q \in ex[j].paths \/ ExemptsOn(rs, ms, facts, ex, i, j, q)
<1> DEFINE new == ExemptBy(rs, ms, facts, ex, i)
           whole == ~PerPath(rs[i]) \/ (ex[i].paths = {} /\ SureOnEvery(ms[i]))
           more == [ex[j] EXCEPT !.paths = @ \cup SurePaths(ms[i], ex[i], facts)]
           all == [ex[j] EXCEPT !.whole = @ \/ whole]
<1>0. DOMAIN rs = 1..Len(rs)
  BY RulePlaces
<1>1. ex[j] \in [whole : BOOLEAN, paths : SUBSET KnownPaths(facts)]
  BY DEF Exempted
<1>2. new[j] = IF ~Exempts(ms[i], ex[i]) \/ rs[j].id \notin rs[i].exempts THEN ex[j]
               ELSE IF PerPath(rs[j]) THEN more ELSE all
  BY <1>0, Zenon DEF ExemptBy
<1>3. more.whole = ex[j].whole /\ more.paths = ex[j].paths \cup SurePaths(ms[i], ex[i], facts)
  BY <1>1
<1>4. all.whole = (ex[j].whole \/ whole) /\ all.paths = ex[j].paths
  <2> HIDE DEF whole
  <2> QED
    BY <1>1
<1> HIDE DEF new, more, all
<1>5. CASE ~Exempts(ms[i], ex[i]) \/ rs[j].id \notin rs[i].exempts
  <2>1. new[j] = ex[j]
    BY <1>2, <1>5
  <2>2. ~ExemptsWhole(rs, ms, ex, i, j) /\ \A q : ~ExemptsOn(rs, ms, facts, ex, i, j, q)
    BY <1>5, Zenon DEF ExemptsWhole, ExemptsOn
  <2> QED
    BY <2>1, <2>2 DEF new
<1>6. CASE Exempts(ms[i], ex[i]) /\ rs[j].id \in rs[i].exempts /\ PerPath(rs[j])
  <2>1. new[j].whole = ex[j].whole /\ new[j].paths = ex[j].paths \cup SurePaths(ms[i], ex[i], facts)
    BY <1>2, <1>3, <1>6
  <2>2. ~ExemptsWhole(rs, ms, ex, i, j)
    BY <1>6, Zenon DEF ExemptsWhole
  <2>3. \A q : ExemptsOn(rs, ms, facts, ex, i, j, q) <=> q \in SurePaths(ms[i], ex[i], facts)
    BY <1>6, Zenon DEF ExemptsOn
  <2> QED
    BY <2>1, <2>2, <2>3 DEF new
<1>7. CASE Exempts(ms[i], ex[i]) /\ rs[j].id \in rs[i].exempts /\ ~PerPath(rs[j])
  <2>1. new[j].whole = (ex[j].whole \/ whole) /\ new[j].paths = ex[j].paths
    <3> HIDE DEF whole
    <3> QED
      BY <1>2, <1>4, <1>7
  <2>2. ExemptsWhole(rs, ms, ex, i, j) <=> whole
    BY <1>7, Zenon DEF ExemptsWhole
  <2>3. \A q : ~ExemptsOn(rs, ms, facts, ex, i, j, q)
    BY <1>7, Zenon DEF ExemptsOn
  <2> HIDE DEF whole
  <2> QED
    BY <2>1, <2>2, <2>3 DEF new
<1> QED
  BY <1>5, <1>6, <1>7

\* A pass over rules that do not exempt each other adds what each exempts.
LEMMA PassAdds ==
    ASSUME NEW R, NEW rs \in Seq(R), NEW ms, NEW facts, NEW actions, Apart(rs, actions),
           NEW start \in Exempted(Len(rs), facts)
    PROVE  Adds(rs, ms, facts, actions, start, Pass(rs, ms, facts, start, actions), Len(rs))
<1> DEFINE N == Len(rs)
<1>0. N \in Nat
  BY RulePlaces
<1>1. PICK f \in [0..N -> Exempted(N, facts)] : Passes(f, rs, ms, facts, start, actions)
  BY PassSteps
<1> DEFINE S == {n \in 0..N : Adds(rs, ms, facts, actions, start, f[n], n)}
<1>2. 0 \in S
  <2>1. f[0] = start /\ 0 \in 0..N
    BY <1>0, <1>1 DEF Passes
  <2>2. \A i \in 1..0 : FALSE
    OBVIOUS
  <2>3. Adds(rs, ms, facts, actions, start, f[0], 0)
    BY <2>1, <2>2 DEF Adds
  <2> QED
    BY <2>1, <2>3
<1>3. ASSUME NEW n \in 1..N, n - 1 \in S
      PROVE  n \in S
  <2> DEFINE old == f[n - 1]
             new == f[n]
  <2>1. n \in 0..N /\ n - 1 \in 0..N /\ n \in 1..n
    BY <1>0
  <2>2. Adds(rs, ms, facts, actions, start, old, n - 1)
    BY <1>3
  <2>3. old \in Exempted(N, facts)
    BY <2>1
  <2>4. new = IF rs[n].action \in actions THEN ExemptBy(rs, ms, facts, old, n) ELSE old
    BY <1>1 DEF Passes
  <2> HIDE DEF old, new
  <2>5. \A i : i \in 1..n <=> i \in 1..(n - 1) \/ i = n
    BY <1>0
  <2>6. CASE rs[n].action \notin actions
    <3>1. new = old
      BY <2>4, <2>6
    <3>2. \A i \in 1..n : rs[i].action \in actions => i \in 1..(n - 1)
      BY <2>5, <2>6
    <3>3. \A i \in 1..(n - 1) : i \in 1..n
      BY <2>5
    <3>4. Adds(rs, ms, facts, actions, start, new, n)
      BY <2>2, <3>1, <3>2, <3>3, Zenon DEF Adds
    <3> QED
      BY <2>1, <3>4 DEF new
  <2>7. CASE rs[n].action \in actions
    <3>1. new = ExemptBy(rs, ms, facts, old, n)
      BY <2>4, <2>7
    <3>2. old[n] = start[n]
      <4>1. \A i \in 1..(n - 1) : rs[i].action \in actions => rs[n].id \notin rs[i].exempts
        <5>1. \A i \in 1..(n - 1) : i \in 1..N
          BY <1>0
        <5> QED
          BY <2>7, <5>1 DEF Apart
      <4>2. \A i \in 1..(n - 1) : rs[i].action \in actions =>
                /\ ~ExemptsWhole(rs, ms, start, i, n)
                /\ \A q : ~ExemptsOn(rs, ms, facts, start, i, n, q)
        BY <4>1, Zenon DEF ExemptsWhole, ExemptsOn
      <4>3. /\ old[n].whole <=> start[n].whole
            /\ \A q : q \in old[n].paths <=> q \in start[n].paths
        BY <2>2, <4>2, Zenon DEF Adds
      <4>4. /\ old[n].whole \in BOOLEAN /\ old[n] = [whole |-> old[n].whole, paths |-> old[n].paths]
            /\ old[n].paths \in SUBSET KnownPaths(facts)
        BY <2>3, ExemptionType
      <4>5. /\ start[n].whole \in BOOLEAN
            /\ start[n] = [whole |-> start[n].whole, paths |-> start[n].paths]
            /\ start[n].paths \in SUBSET KnownPaths(facts)
        BY ExemptionType
      <4>6. old[n].whole = start[n].whole
        BY <4>3, <4>4, <4>5
      <4>7. old[n].paths = start[n].paths
        BY <4>3
      <4> QED
        BY <4>4, <4>5, <4>6, <4>7
    <3>3. ASSUME NEW j \in 1..N
          PROVE  /\ new[j].whole <=> old[j].whole \/ ExemptsWhole(rs, ms, start, n, j)
                 /\ \A q : q \in new[j].paths
                             <=> q \in old[j].paths \/ ExemptsOn(rs, ms, facts, start, n, j, q)
      <4>1. /\ new[j].whole <=> old[j].whole \/ ExemptsWhole(rs, ms, old, n, j)
            /\ \A q : q \in new[j].paths
                        <=> q \in old[j].paths \/ ExemptsOn(rs, ms, facts, old, n, j, q)
        BY <2>3, <3>1, ExemptByAdds
      <4>2. ExemptsWhole(rs, ms, old, n, j) <=> ExemptsWhole(rs, ms, start, n, j)
        BY <3>2 DEF ExemptsWhole
      <4>3. \A q : ExemptsOn(rs, ms, facts, old, n, j, q) <=> ExemptsOn(rs, ms, facts, start, n, j, q)
        BY <3>2 DEF ExemptsOn
      <4> QED
        BY <4>1, <4>2, <4>3
    <3>4. ASSUME NEW j \in 1..N
          PROVE  /\ new[j].whole <=> \/ start[j].whole
                          \/ \E i \in 1..n : /\ rs[i].action \in actions
                                             /\ ExemptsWhole(rs, ms, start, i, j)
                 /\ \A q : q \in new[j].paths
                   <=> \/ q \in start[j].paths
                       \/ \E i \in 1..n : /\ rs[i].action \in actions
                                          /\ ExemptsOn(rs, ms, facts, start, i, j, q)
      <4>1. /\ old[j].whole <=> \/ start[j].whole
                          \/ \E i \in 1..(n - 1) : /\ rs[i].action \in actions
                                             /\ ExemptsWhole(rs, ms, start, i, j)
            /\ \A q : q \in old[j].paths
                   <=> \/ q \in start[j].paths
                       \/ \E i \in 1..(n - 1) : /\ rs[i].action \in actions
                                          /\ ExemptsOn(rs, ms, facts, start, i, j, q)
        BY <2>2, Zenon DEF Adds
      <4>2. (\E i \in 1..n : rs[i].action \in actions /\ ExemptsWhole(rs, ms, start, i, j))
              <=> \/ \E i \in 1..(n - 1) : rs[i].action \in actions /\ ExemptsWhole(rs, ms, start, i, j)
                  \/ ExemptsWhole(rs, ms, start, n, j)
        BY <2>5, <2>7, Zenon
      <4>3. \A q : (\E i \in 1..n : rs[i].action \in actions /\ ExemptsOn(rs, ms, facts, start, i, j, q))
              <=> \/ \E i \in 1..(n - 1) :
                        rs[i].action \in actions /\ ExemptsOn(rs, ms, facts, start, i, j, q)
                  \/ ExemptsOn(rs, ms, facts, start, n, j, q)
        BY <2>5, <2>7, Zenon
      <4>4. new[j].whole <=> \/ start[j].whole
                          \/ \E i \in 1..n : /\ rs[i].action \in actions
                                             /\ ExemptsWhole(rs, ms, start, i, j)
        BY <3>3, <4>1, <4>2, Zenon
      <4>5. \A q : q \in new[j].paths
                   <=> \/ q \in start[j].paths
                       \/ \E i \in 1..n : /\ rs[i].action \in actions
                                          /\ ExemptsOn(rs, ms, facts, start, i, j, q)
        BY <3>3, <4>1, <4>3, Zenon
      <4> QED
        BY <4>4, <4>5, Zenon
    <3>5. Adds(rs, ms, facts, actions, start, new, n)
      BY <3>4, Zenon DEF Adds
    <3> QED
      BY <2>1, <3>5 DEF new
  <2> QED
    BY <2>6, <2>7
<1>4. N \in S
  <2> HIDE DEF S
  <2>1. \A n \in 0..N : n \in S
    BY <1>0, <1>2, <1>3, UpTo
  <2> QED
    BY <1>0, <2>1
<1>5. Pass(rs, ms, facts, start, actions) = f[N]
  BY <1>1 DEF Passes
<1> QED
  BY <1>4, <1>5

\* F are the rules of rs in the order p.
Reorders(p, F, rs) ==
    /\ Len(F) = Len(rs) /\ p \in [1..Len(F) -> 1..Len(rs)]
    /\ \A k \in 1..Len(rs) : \E i \in 1..Len(F) : p[i] = k
    /\ \A i \in 1..Len(F) : F[i] = rs[p[i]]

\* A pass exempts the same of the rules in any order.
LEMMA PassReorders ==
    ASSUME NEW R, NEW rs \in Seq(R), NEW F \in Seq(R), NEW p, Reorders(p, F, rs),
           NEW ms, NEW mF, NEW facts, NEW actions, Apart(rs, actions),
           NEW start \in Exempted(Len(rs), facts), NEW startF \in Exempted(Len(F), facts),
           Along(p, F, ms, mF), Along(p, F, start, startF)
    PROVE  Along(p, F, Pass(rs, ms, facts, start, actions), Pass(F, mF, facts, startF, actions))
<1> DEFINE N == Len(rs)
           r == Pass(rs, ms, facts, start, actions)
           rF == Pass(F, mF, facts, startF, actions)
<1>0. N = Len(F) /\ N \in Nat
  BY RulePlaces DEF Reorders
<1>1. \A i \in 1..N : /\ p[i] \in 1..N /\ F[i] = rs[p[i]] /\ mF[i] = ms[p[i]]
                      /\ startF[i] = start[p[i]]
  BY <1>0 DEF Reorders, Along
<1>2. \A k \in 1..N : \E i \in 1..N : p[i] = k
  BY <1>0 DEF Reorders
<1>3. Apart(F, actions)
  BY <1>0, <1>1 DEF Apart
<1>4. Adds(rs, ms, facts, actions, start, r, N)
  BY PassAdds
<1>5. Adds(F, mF, facts, actions, startF, rF, N)
  BY <1>0, <1>3, PassAdds
<1>6. r \in Exempted(N, facts) /\ rF \in Exempted(N, facts)
  BY <1>0, PassType
<1> HIDE DEF r, rF
<1>7. ASSUME NEW i \in 1..N, NEW j \in 1..N
      PROVE  /\ ExemptsWhole(F, mF, startF, i, j) <=> ExemptsWhole(rs, ms, start, p[i], p[j])
             /\ \A q : ExemptsOn(F, mF, facts, startF, i, j, q)
                         <=> ExemptsOn(rs, ms, facts, start, p[i], p[j], q)
  <2>1. F[i] = rs[p[i]] /\ F[j] = rs[p[j]] /\ mF[i] = ms[p[i]] /\ startF[i] = start[p[i]]
    BY <1>1
  <2> QED
    BY <2>1 DEF ExemptsWhole, ExemptsOn
<1>8. ASSUME NEW j \in 1..N
      PROVE  r[p[j]] = rF[j]
  <2>1. p[j] \in 1..N /\ startF[j] = start[p[j]]
    BY <1>1
  <2>2. (\E i \in 1..N : F[i].action \in actions /\ ExemptsWhole(F, mF, startF, i, j))
          <=> (\E k \in 1..N : rs[k].action \in actions /\ ExemptsWhole(rs, ms, start, k, p[j]))
    <3>1. ASSUME NEW i \in 1..N, F[i].action \in actions, ExemptsWhole(F, mF, startF, i, j)
          PROVE  \E k \in 1..N : rs[k].action \in actions /\ ExemptsWhole(rs, ms, start, k, p[j])
      <4>1. p[i] \in 1..N /\ F[i] = rs[p[i]]
        BY <1>1
      <4>2. rs[p[i]].action \in actions /\ ExemptsWhole(rs, ms, start, p[i], p[j])
        BY <1>7, <3>1, <4>1
      <4> QED
        BY <4>1, <4>2
    <3>2. ASSUME NEW k \in 1..N, rs[k].action \in actions, ExemptsWhole(rs, ms, start, k, p[j])
          PROVE  \E i \in 1..N : F[i].action \in actions /\ ExemptsWhole(F, mF, startF, i, j)
      <4>1. PICK i \in 1..N : p[i] = k
        BY <1>2
      <4>2. F[i].action \in actions /\ ExemptsWhole(F, mF, startF, i, j)
        BY <1>1, <1>7, <3>2, <4>1
      <4> QED
        BY <4>2
    <3> QED
      BY <3>1, <3>2
  <2>3. ASSUME NEW q
        PROVE  (\E i \in 1..N : F[i].action \in actions /\ ExemptsOn(F, mF, facts, startF, i, j, q))
          <=> (\E k \in 1..N : rs[k].action \in actions /\ ExemptsOn(rs, ms, facts, start, k, p[j], q))
    <3>1. ASSUME NEW i \in 1..N, F[i].action \in actions, ExemptsOn(F, mF, facts, startF, i, j, q)
          PROVE  \E k \in 1..N : rs[k].action \in actions /\ ExemptsOn(rs, ms, facts, start, k, p[j], q)
      <4>1. p[i] \in 1..N /\ F[i] = rs[p[i]]
        BY <1>1
      <4>2. rs[p[i]].action \in actions /\ ExemptsOn(rs, ms, facts, start, p[i], p[j], q)
        BY <1>7, <3>1, <4>1
      <4> QED
        BY <4>1, <4>2
    <3>2. ASSUME NEW k \in 1..N, rs[k].action \in actions, ExemptsOn(rs, ms, facts, start, k, p[j], q)
          PROVE  \E i \in 1..N : F[i].action \in actions /\ ExemptsOn(F, mF, facts, startF, i, j, q)
      <4>1. PICK i \in 1..N : p[i] = k
        BY <1>2
      <4>2. F[i].action \in actions /\ ExemptsOn(F, mF, facts, startF, i, j, q)
        BY <1>1, <1>7, <3>2, <4>1
      <4> QED
        BY <4>2
    <3> QED
      BY <3>1, <3>2
  <2>4. rF[j].whole <=> r[p[j]].whole
    <3>1. rF[j].whole <=> \/ startF[j].whole
             \/ \E i \in 1..N : F[i].action \in actions /\ ExemptsWhole(F, mF, startF, i, j)
      BY <1>0, <1>5, Zenon DEF Adds
    <3>2. r[p[j]].whole <=> \/ start[p[j]].whole
             \/ \E k \in 1..N : rs[k].action \in actions /\ ExemptsWhole(rs, ms, start, k, p[j])
      BY <1>4, <2>1, Zenon DEF Adds
    <3> QED
      BY <2>1, <2>2, <3>1, <3>2
  <2>5. rF[j].paths = r[p[j]].paths
    <3>1. \A q : q \in rF[j].paths <=> \/ q \in startF[j].paths
             \/ \E i \in 1..N : F[i].action \in actions /\ ExemptsOn(F, mF, facts, startF, i, j, q)
      BY <1>0, <1>5, Zenon DEF Adds
    <3>2. \A q : q \in r[p[j]].paths <=> \/ q \in start[p[j]].paths
             \/ \E k \in 1..N : rs[k].action \in actions /\ ExemptsOn(rs, ms, facts, start, k, p[j], q)
      BY <1>4, <2>1, Zenon DEF Adds
    <3>3. \A q : q \in rF[j].paths <=> q \in r[p[j]].paths
      BY <2>1, <2>3, <3>1, <3>2
    <3>4. rF[j].paths \in SUBSET KnownPaths(facts) /\ r[p[j]].paths \in SUBSET KnownPaths(facts)
      BY <1>6, <2>1, ExemptionType
    <3> QED
      BY <3>3, <3>4
  <2>6. /\ rF[j].whole \in BOOLEAN /\ rF[j] = [whole |-> rF[j].whole, paths |-> rF[j].paths]
        /\ r[p[j]].whole \in BOOLEAN
        /\ r[p[j]] = [whole |-> r[p[j]].whole, paths |-> r[p[j]].paths]
    BY <1>6, <2>1, ExemptionType
  <2>7. rF[j].whole = r[p[j]].whole
    BY <2>4, <2>6
  <2> QED
    BY <2>5, <2>6, <2>7
<1> QED
  BY <1>0, <1>8 DEF Along, r, rF

\* Rules that compile exempt stricter ones only: none with its own action.
LEMMA CompilesApart ==
    ASSUME NEW R, NEW rs \in Seq(R), Compiles(rs), NEW a
    PROVE  Apart(rs, {a})
<1>1. DOMAIN rs = 1..Len(rs)
  BY RulePlaces
<1>2. ASSUME NEW i \in 1..Len(rs), NEW j \in 1..Len(rs), rs[i].action = a, rs[j].action = a,
             rs[j].id \in rs[i].exempts
      PROVE  FALSE
  <2>1. Exemptible(rs, i, rs[j].id)
    BY <1>1, <1>2, Zenon DEF Compiles
  <2>2. PICK k \in 1..Len(rs) : rs[k].id = rs[j].id /\ Severity(rs[k].action) > Severity(rs[i].action)
    BY <1>1, <2>1, Zenon DEF Exemptible
  <2>3. k = j
    BY <1>1, <2>2, Zenon DEF Compiles
  <2>4. Severity(a) \in 0..3
    BY SeverityType
  <2> QED
    BY <1>2, <2>2, <2>3, <2>4
<1> QED
  BY <1>2 DEF Apart

\* The same actions match, whatever the order.
LEMMA MatchedReorders ==
    ASSUME NEW R, NEW rs \in Seq(R), Compiles(rs), NEW F \in Seq(R), NEW p, Reorders(p, F, rs),
           NEW cmd, NEW env
    PROVE  Matched(F, cmd, env) = Matched(rs, cmd, env)
<1> DEFINE N == Len(rs)
           facts == FactsOf(cmd, env)
           ms == Meetings(rs, facts, env)
           mF == Meetings(F, facts, env)
           s == Unexempted(rs)
           sF == Unexempted(F)
           t == Pass(rs, ms, facts, s, {"Allow"})
           tF == Pass(F, mF, facts, sF, {"Allow"})
           ex == Exemptions(rs, ms, facts)
           exF == Exemptions(F, mF, facts)
<1>0. N = Len(F) /\ DOMAIN rs = 1..N /\ DOMAIN F = 1..N
  BY RulePlaces DEF Reorders
<1>1. \A i \in 1..N : p[i] \in 1..N /\ F[i] = rs[p[i]]
  BY <1>0 DEF Reorders
<1>2. \A k \in 1..N : \E i \in 1..N : p[i] = k
  BY <1>0 DEF Reorders
<1> HIDE DEF facts
<1>3. Along(p, F, ms, mF)
  <2>1. \A i \in 1..N : ms[i] = Meet(rs[i], facts, env)
    BY MeetingsAre
  <2>2. \A i \in 1..N : mF[i] = Meet(F[i], facts, env)
    BY <1>0, MeetingsAre
  <2> HIDE DEF ms, mF
  <2> QED
    BY <1>0, <1>1, <2>1, <2>2 DEF Along
<1> HIDE DEF ms, mF
<1>4. s \in Exempted(Len(rs), facts) /\ sF \in Exempted(Len(F), facts)
  BY UnexemptedType
<1>5. Along(p, F, s, sF)
  <2>1. \A i \in 1..N : s[i] = NotExempted
    BY UnexemptedType
  <2>2. \A i \in 1..N : sF[i] = NotExempted
    BY <1>0, UnexemptedType
  <2> HIDE DEF s, sF
  <2> QED
    BY <1>0, <1>1, <2>1, <2>2 DEF Along
<1> HIDE DEF s, sF
<1>6. Apart(rs, {"Allow"}) /\ Apart(rs, {"Ask"})
  BY CompilesApart
<1>7. t \in Exempted(Len(rs), facts) /\ tF \in Exempted(Len(F), facts)
  BY <1>4, PassType
<1>8. Along(p, F, t, tF)
  BY <1>3, <1>4, <1>5, <1>6, PassReorders
<1>9. ex = Pass(rs, ms, facts, t, {"Ask"}) /\ exF = Pass(F, mF, facts, tF, {"Ask"})
  BY ExemptionsAre DEF s, sF
<1> HIDE DEF t, tF, ex, exF
<1>10. Along(p, F, ex, exF)
  BY <1>3, <1>6, <1>7, <1>8, <1>9, PassReorders
<1>11. ASSUME NEW i \in 1..N
       PROVE  /\ p[i] \in 1..N /\ F[i] = rs[p[i]] /\ mF[i] = ms[p[i]] /\ exF[i] = ex[p[i]]
  BY <1>0, <1>1, <1>3, <1>10 DEF Along
<1>12. Counted(F, mF, exF) = Counted(rs, ms, ex)
  <2>1. Counted(F, mF, exF) = {F[i].action : i \in {i \in 1..N :
                   ~exF[i].whole /\ Counts(F[i], TruthOf(mF[i], exF[i].paths))}}
    BY <1>0, Zenon DEF Counted
  <2>2. Counted(rs, ms, ex) = {rs[i].action : i \in {i \in 1..N :
                   ~ex[i].whole /\ Counts(rs[i], TruthOf(ms[i], ex[i].paths))}}
    BY <1>0, Zenon DEF Counted
  <2>3. ASSUME NEW i \in 1..N, ~exF[i].whole, Counts(F[i], TruthOf(mF[i], exF[i].paths))
        PROVE  F[i].action \in Counted(rs, ms, ex)
    <3>1. p[i] \in 1..N /\ ~ex[p[i]].whole /\ F[i].action = rs[p[i]].action
          /\ Counts(rs[p[i]], TruthOf(ms[p[i]], ex[p[i]].paths))
      BY <1>11, <2>3
    <3> QED
      BY <2>2, <3>1, Zenon
  <2>4. ASSUME NEW k \in 1..N, ~ex[k].whole, Counts(rs[k], TruthOf(ms[k], ex[k].paths))
        PROVE  rs[k].action \in Counted(F, mF, exF)
    <3>1. PICK i \in 1..N : p[i] = k
      BY <1>2
    <3>2. ~exF[i].whole /\ Counts(F[i], TruthOf(mF[i], exF[i].paths)) /\ F[i].action = rs[k].action
      BY <1>11, <2>4, <3>1
    <3> QED
      BY <2>1, <3>2, Zenon
  <2> QED
    BY <2>1, <2>2, <2>3, <2>4, Zenon
<1> QED
  BY <1>12, MatchedIs DEF facts, ms, mF, ex, exF

\* For any rules that compile and any command: "file order decides nothing".
\* A rule never exempts one of its own action, so within a pass what is
\* exempted does not depend on who was asked first (exemptions, decide).
THEOREM OrderDecidesNothingHolds ==
    ASSUME TypeOK
    PROVE  OrderDecidesNothing
<1> DEFINE N == Len(rules)
           R == Range(rules)
<1>0. rules \in Seq(R)
  BY DEF TypeOK, IsSequence
<1> HIDE DEF R
<1>1. DOMAIN rules = 1..N /\ N \in Nat
  BY <1>0, RulePlaces
<1>2. ASSUME Compiles(rules), NEW cmd, NEW p \in Orders
      PROVE  Decide(Permuted(p), cmd, last.env, Default) = Decide(rules, cmd, last.env, Default)
  <2> DEFINE F == Permuted(p)
  <2>1. p \in [1..N -> 1..N] /\ \A i, j \in 1..N : p[i] = p[j] => i = j
    BY <1>1 DEF Orders
  <2>2. F \in [1..N -> R] /\ \A i \in 1..N : F[i] = rules[p[i]]
    <3>1. F = [i \in 1..N |-> rules[p[i]]]
      BY <1>1 DEF Permuted
    <3>2. \A i \in 1..N : rules[i] \in R
      BY <1>0, ElementOfSeq
    <3> HIDE DEF F
    <3> QED
      BY <2>1, <3>1, <3>2
  <2> HIDE DEF F
  <2>3. F \in Seq(R)
    BY <1>1, <2>2, SeqDef
  <2>4. Len(F) = N
    BY <1>1, <2>2, <2>3, LenProperties
  <2>5. \A k \in 1..N : \E i \in 1..N : p[i] = k
    BY <1>1, <2>1, OneToOneOnto
  <2>6. Reorders(p, F, rules)
    BY <2>1, <2>2, <2>4, <2>5 DEF Reorders
  <2>7. Matched(F, cmd, last.env) = Matched(rules, cmd, last.env)
    BY <1>0, <1>2, <2>3, <2>6, MatchedReorders
  <2>8. Decide(F, cmd, last.env, Default) = Decide(rules, cmd, last.env, Default)
    BY <2>7 DEF Decide, Once
  <2> QED
    BY <2>8 DEF F
<1> QED
  BY <1>2, Zenon DEF OrderDecidesNothing

-----------------------------------------------------------------------------
\* What is known stays known: truths and values

\* b is what a may turn out to be, as a truth and as a value that is no list.
Firm(a, b) == a = "Unknown" \/ a = b
\* w is what v may turn out to be.
Turns(v, w) == IsUnknown(v) \/ v = w
\* TriBool
Truths == {"True", "False", "Unknown"}

\* and over many truths is firm when each of them is.
LEMMA EveryFirm ==
    ASSUME NEW A, NEW B, \A a \in A : \E b \in B : Firm(a, b), \A b \in B : \E a \in A : Firm(a, b)
    PROVE  Firm(Every(A), Every(B))
BY DEF Firm, Every

\* So is or.
LEMMA SomeFirm ==
    ASSUME NEW A, NEW B, \A a \in A : \E b \in B : Firm(a, b), \A b \in B : \E a \in A : Firm(a, b)
    PROVE  Firm(Some(A), Some(B))
BY DEF Firm, Some

\* What the operators on truths return.
LEMMA TruthTypes ==
    /\ \A A : Every(A) \in Truths /\ Some(A) \in Truths
    /\ \A v : Truthy(v) \in Truths
    /\ \A b : Of(b) \in Truths
<1>1. \A A : Every(A) \in Truths /\ Some(A) \in Truths
  BY DEF Every, Some, Truths
<1>2. \A b : Of(b) \in Truths
  BY DEF Of, Truths
<1>3. \A v : Truthy(v) \in Truths
  BY <1>2, Zenon DEF Truthy, Truths
<1> QED
  BY <1>1, <1>2, <1>3

\* A truth as a value is that truth.
LEMMA TruthyTri ==
    ASSUME NEW a
    PROVE  Truthy(ToTriVal(a)) = IF a = "Unknown" THEN "Unknown"
                                 ELSE IF a = "True" THEN "True" ELSE "False"
<1>1. CASE a = "Unknown"
  BY <1>1 DEF Truthy, ToTriVal, Unknown, IsUnknown
<1>2. CASE a # "Unknown"
  <2>1. ToTriVal(a).t = "bool" /\ ToTriVal(a).v = (a = "True")
    BY <1>2 DEF ToTriVal, Boolean
  <2>2. Truthy(ToTriVal(a)) = Of(ToTriVal(a).v)
    BY <2>1 DEF Truthy, IsUnknown
  <2> QED
    BY <1>2, <2>1, <2>2 DEF Of
<1> QED
  BY <1>1, <1>2

\* A Boolean is as truthy as it is true.
LEMMA TruthyBoolean ==
    ASSUME NEW b \in BOOLEAN
    PROVE  Truthy(Boolean(b)) = IF b THEN "True" ELSE "False"
<1>1. Boolean(b).t = "bool" /\ Boolean(b).v = b
  BY DEF Boolean
<1> QED
  BY <1>1 DEF Truthy, IsUnknown, Of

\* The operators on truths keep what is known.
LEMMA TriFirm ==
    ASSUME NEW a, NEW b, NEW c, NEW d, Firm(a, b), Firm(c, d)
    PROVE  /\ Firm(And(a, c), And(b, d)) /\ Firm(Or(a, c), Or(b, d)) /\ Firm(Not(a), Not(b))
           /\ Firm(Truthy(ToTriVal(a)), Truthy(ToTriVal(b)))
<1>1. Firm(And(a, c), And(b, d)) /\ Firm(Or(a, c), Or(b, d))
  BY DEF Firm, And, Or
<1>2. Firm(Not(a), Not(b))
  BY DEF Firm, Not
<1>3. Firm(Truthy(ToTriVal(a)), Truthy(ToTriVal(b)))
  BY TruthyTri DEF Firm
<1> QED
  BY <1>1, <1>2, <1>3

\* Values of a text, and of nothing.
LEMMA ValueKinds ==
    /\ \A s : IsText(Text(s)) /\ ~IsList(Text(s)) /\ ~IsUnknown(Text(s))
    /\ IsUnknown(Unknown) /\ ~IsList(Unknown)
    /\ ~IsUnknown(Null) /\ ~IsList(Null) /\ ~IsText(Null)
    /\ \A e, x : IsList(ListOf(e, x)) /\ ~IsUnknown(ListOf(e, x))
    /\ \A v : IsList(v) => ~IsUnknown(v) /\ ~IsText(v)
BY DEF IsText, IsList, IsUnknown, Text, Unknown, Null, ListOf

\* tri_eq with a value keeps what is known.
LEMMA TriEqFirm ==
    ASSUME NEW v, NEW w, NEW u, Turns(v, w)
    PROVE  Firm(TriEq(v, u), TriEq(w, u)) /\ Firm(TriEq(u, v), TriEq(u, w))
<1>1. CASE IsUnknown(v)
  BY <1>1 DEF TriEq, Firm, IsUnknown, IsList
<1>2. CASE v = w
  BY <1>2 DEF Firm
<1> QED
  BY <1>1, <1>2 DEF Turns

\* Two lists, w with what v may turn out to be.
ListTurns(v, w) ==
    /\ IsList(v) /\ IsList(w) /\ IsSequence(v.v.elements) /\ IsSequence(w.v.elements)
    /\ v.v.exhaustive \in BOOLEAN /\ w.v.exhaustive \in BOOLEAN
    /\ Len(v.v.elements) \in Nat /\ Len(w.v.elements) \in Nat
    /\ DOMAIN v.v.elements = 1..Len(v.v.elements) /\ DOMAIN w.v.elements = 1..Len(w.v.elements)
    /\ Len(v.v.elements) <= Len(w.v.elements)
    /\ \A i \in 1..Len(v.v.elements) : Turns(v.v.elements[i], w.v.elements[i])
    /\ v.v.exhaustive => w.v.exhaustive /\ Len(v.v.elements) = Len(w.v.elements)

\* The truths of a test of each element that keeps what is known.
TestsTurn(A, B, exhaustive) ==
    /\ Some(A) = "True" => Some(B) = "True"
    /\ Every(A) = "False" => Every(B) = "False"
    /\ exhaustive => Firm(Some(A), Some(B)) /\ Firm(Every(A), Every(B))
\* A are the truths of the n elements.
TestsOf(A, f, n) == A = {f[i] : i \in 1..n}
\* Each truth stays once it is known.
AllFirm(f, g, n) == \A i \in 1..n : Firm(f[i], g[i])

\* A test that keeps what is known does so over a list.
LEMMA TestsFirm ==
    ASSUME NEW v, NEW w, ListTurns(v, w), NEW f, NEW g, AllFirm(f, g, Len(v.v.elements)),
           NEW A, TestsOf(A, f, Len(v.v.elements)), NEW B, TestsOf(B, g, Len(w.v.elements))
    PROVE  TestsTurn(A, B, v.v.exhaustive)
<1>0. /\ A = {f[i] : i \in 1..Len(v.v.elements)}
      /\ B = {g[i] : i \in 1..Len(w.v.elements)}
  BY DEF TestsOf
<1>1. \A i \in 1..Len(v.v.elements) : i \in 1..Len(w.v.elements)
  BY DEF ListTurns
<1>2. \A a \in A : \E b \in B : Firm(a, b)
  BY <1>0, <1>1 DEF AllFirm
<1>3. ASSUME v.v.exhaustive
      PROVE  \A b \in B : \E a \in A : Firm(a, b)
  <2>1. Len(v.v.elements) = Len(w.v.elements)
    BY <1>3 DEF ListTurns
  <2> QED
    BY <1>0, <2>1 DEF AllFirm
<1>4. v.v.exhaustive => Firm(Some(A), Some(B)) /\ Firm(Every(A), Every(B))
  BY <1>2, <1>3, SomeFirm, EveryFirm
<1>5. Some(A) = "True" => Some(B) = "True"
  <2>1. Some(A) = "True" => "True" \in A
    BY DEF Some
  <2>2. "True" \in A => "True" \in B
    BY <1>2 DEF Firm
  <2> QED
    BY <2>1, <2>2 DEF Some
<1>6. Every(A) = "False" => Every(B) = "False"
  <2>1. Every(A) = "False" => "False" \in A
    BY DEF Every
  <2>2. "False" \in A => "False" \in B
    BY <1>2 DEF Firm
  <2> QED
    BY <2>1, <2>2 DEF Every
<1> QED
  BY <1>4, <1>5, <1>6 DEF TestsTurn

\* Two sites, the second one what the first may turn out to be.
SiteTurns(s, r) ==
    /\ s.temp = r.temp
    /\ s.host = "unknown" \/ (s.host = r.host /\ (s.host = "here" => s.dirs = r.dirs))

\* What a value may turn out to be, word or list.
MayBe(v, w) == Turns(v, w) \/ ListTurns(v, w)

\* Where a path lies is as known as the path and the site are.
LEMMA PlacesFirm ==
    ASSUME NEW v, NEW w, MayBe(v, w), NEW s, NEW r, SiteTurns(s, r)
    PROVE  /\ Firm(Truthy(InProject(v, s.host, s.dirs)), Truthy(InProject(w, r.host, r.dirs)))
           /\ Firm(Truthy(IsTemp(v, s.host, s.temp)), Truthy(IsTemp(w, r.host, r.temp)))
<1> DEFINE P == InProject(v, s.host, s.dirs)
           Q == InProject(w, r.host, r.dirs)
           S == IsTemp(v, s.host, s.temp)
           T == IsTemp(w, r.host, r.temp)
<1>0. Truthy(Unknown) = "Unknown"
  BY DEF Truthy, Unknown, IsUnknown
<1>1. CASE IsUnknown(v) \/ IsList(v)
  <2>1. P = Unknown /\ S = Unknown
    BY <1>1 DEF InProject, IsTemp, IsUnknown, IsList, IsText
  <2> QED
    BY <1>0, <2>1 DEF Firm
<1>2. CASE v = w /\ s.host = "unknown"
  <2>1. P \in {Null, Unknown} /\ (v.t = "null" => P = Null /\ Q = Null) /\ (v.t # "null" => P = Unknown)
    BY <1>2 DEF InProject, IsText
  <2>2. \/ S = T
        \/ S = Unknown
    BY <1>2 DEF IsTemp, IsText, SiteTurns
  <2> QED
    BY <1>0, <2>1, <2>2 DEF Firm
<1>3. CASE v = w /\ s.host # "unknown"
  <2>1. s.host = r.host /\ s.temp = r.temp /\ (s.host = "here" => s.dirs = r.dirs)
    BY <1>3 DEF SiteTurns
  <2>2. S = T
    BY <1>3, <2>1
  <2>3. P = Q
    <3>1. CASE s.host = "here"
      BY <1>3, <2>1, <3>1
    <3>2. CASE s.host # "here"
      <4>1. (s.host = "here" /\ \E d \in s.dirs : IsPrefix(d, v.v))
              = (r.host = "here" /\ \E d \in r.dirs : IsPrefix(d, w.v))
        BY <2>1, <3>2
      <4> QED
        BY <1>3, <2>1, <4>1, Zenon DEF InProject
    <3> QED
      BY <3>1, <3>2
  <2> QED
    BY <2>2, <2>3 DEF Firm
<1> QED
  BY <1>1, <1>2, <1>3 DEF MayBe, Turns, ListTurns

\* Nothing is known of a key of which the variable is not known.
LEMMA JudgeUnknown ==
    ASSUME NEW key, key.op \in KeyOps \ {"none"}, NEW v, IsUnknown(v), NEW s
    PROVE  Judge(key, v, s) = "Unknown"
<1> DEFINE h == Holds(key, v, s)
<1>0. ~IsList(v) /\ v.t = "unknown" /\ ~IsText(v)
  BY DEF IsUnknown, IsList, IsText
<1>1. \A u : TriEq(v, u) = "Unknown"
  BY DEF TriEq, IsList, IsUnknown
<1>u. \A u : EvalEq(v, u) = Unknown /\ EvalNe(v, u) = Unknown
  BY <1>1 DEF EvalEq, EvalNe, ToTriVal, Not
<1>2. IsUnknown(Unknown) /\ \A u : TriEq(Unknown, u) = "Unknown"
  BY DEF TriEq, IsUnknown, Unknown, IsList
<1>3. CASE key.op \in {"eq", "ne", "nothing"}
  <2>1. h = Unknown
    BY <1>u, <1>3, Zenon DEF Holds
  <2> QED
    BY <2>1 DEF Judge, Truthy, Unknown, IsUnknown
<1>4. CASE key.op = "in"
  <2>1. h = EvalIn(Text(key.text), v)
    BY <1>4, Zenon DEF Holds
  <2>2. h = Unknown
    BY <1>0, <2>1 DEF EvalIn
  <2> QED
    BY <2>2 DEF Judge, Truthy, Unknown, IsUnknown
<1>5. CASE key.op \in {"exists", "all"}
  <2>1. \E tests : h = EvalExists(v, tests) \/ h = EvalAll(v, tests)
    BY <1>5, Zenon DEF Holds
  <2>2. h = Unknown
    BY <1>0, <2>1 DEF EvalExists, EvalAll
  <2> QED
    BY <2>2 DEF Judge, Truthy, Unknown, IsUnknown
<1>6. CASE key.op = "starts"
  <2>1. h = StartsWith(v, key.text)
    BY <1>6, Zenon DEF Holds
  <2>2. h = Unknown
    BY <1>0, <2>1 DEF StartsWith, StringTest, IsText, IsUnknown
  <2> QED
    BY <2>2 DEF Judge, Truthy, Unknown, IsUnknown
<1>7. CASE key.op = "last"
  <2>1. h = EvalEq(EvalLast(v), Text(key.text))
    BY <1>7, Zenon DEF Holds
  <2>2. EvalLast(v) = Unknown
    BY <1>0 DEF EvalLast
  <2>3. h = Unknown
    BY <1>2, <2>1, <2>2 DEF EvalEq, ToTriVal
  <2> QED
    BY <2>3 DEF Judge, Truthy, Unknown, IsUnknown
<1>8. CASE key.op = "alone"
  <2> DEFINE c == EvalLess(EvalSize(v), Number(2))
             a == EvalEq(EvalIndex(v, 0), Text(key.text))
             b == Boolean(FALSE)
  <2>1. h = EvalTernary(c, a, b)
    BY <1>8, Zenon DEF Holds
  <2>2. c = Unknown
    BY <1>0 DEF EvalLess, EvalSize, Unknown
  <2>3. Truthy(c) = "Unknown"
    BY <2>2 DEF Truthy, Unknown, IsUnknown
  <2> HIDE DEF a, b, c
  <2>4. h = Unknown
    BY <2>1, <2>3 DEF EvalTernary
  <2> QED
    BY <2>4 DEF Judge, Truthy, Unknown, IsUnknown
<1>9. CASE key.op = "true"
  <2>1. h = v
    BY <1>9, Zenon DEF Holds
  <2> QED
    BY <1>0, <2>1 DEF Judge, Truthy, IsUnknown
<1>10. CASE key.op \in {"inside", "outside"}
  <2>1. InProject(v, s.host, s.dirs) = Unknown /\ IsTemp(v, s.host, s.temp) = Unknown
    BY <1>0 DEF InProject, IsTemp
  <2>2. h = EvalOr(Unknown, Unknown) \/ h = EvalAnd(EvalNot(Unknown), EvalNot(Unknown))
    BY <1>10, <2>1, Zenon DEF Holds
  <2>3. Truthy(Unknown) = "Unknown"
    BY DEF Truthy, Unknown, IsUnknown
  <2>4. EvalNot(Unknown) = Unknown
    BY <2>3 DEF EvalNot, Not, ToTriVal
  <2>5. h = Unknown
    BY <2>2, <2>3, <2>4 DEF EvalOr, EvalAnd, And, Or, ToTriVal
  <2> QED
    BY <2>3, <2>5 DEF Judge
<1> QED
  BY <1>3, <1>4, <1>5, <1>6, <1>7, <1>8, <1>9, <1>10 DEF KeyOps

\* exists and all, over what a list may turn out to be.
LEMMA OverListFirm ==
    ASSUME NEW v, NEW w, ListTurns(v, w), NEW f, NEW g,
           DOMAIN f = DOMAIN v.v.elements, DOMAIN g = DOMAIN w.v.elements,
           \A i \in 1..Len(v.v.elements) : Firm(Truthy(f[i]), Truthy(g[i]))
    PROVE  /\ Firm(Truthy(EvalExists(v, f)), Truthy(EvalExists(w, g)))
           /\ Firm(Truthy(EvalAll(v, f)), Truthy(EvalAll(w, g)))
<1> DEFINE n == Len(v.v.elements)
           m == Len(w.v.elements)
           F == [i \in 1..n |-> Truthy(f[i])]
           G == [i \in 1..m |-> Truthy(g[i])]
           A == {F[i] : i \in 1..n}
           B == {G[i] : i \in 1..m}
<1>1. /\ DOMAIN f = 1..n /\ DOMAIN g = 1..m /\ IsList(v) /\ IsList(w)
      /\ v.v.exhaustive => w.v.exhaustive
      /\ \A i \in 1..n : i \in 1..m
  BY DEF ListTurns
<1>2. /\ {Truthy(f[i]) : i \in DOMAIN f} = A
      /\ {Truthy(g[i]) : i \in DOMAIN g} = B
  BY <1>1
<1>3. AllFirm(F, G, n)
  BY <1>1 DEF AllFirm
<1> HIDE DEF F, G
<1>4. TestsTurn(A, B, v.v.exhaustive)
  <2> HIDE DEF A, B
  <2>1. TestsOf(A, F, n) /\ TestsOf(B, G, m)
    BY DEF A, B, TestsOf
  <2> QED
    BY <1>3, <2>1, TestsFirm
<1>5. /\ EvalExists(v, f) = Definite(Some(A), "True", v)
      /\ EvalExists(w, g) = Definite(Some(B), "True", w)
      /\ EvalAll(v, f) = Definite(Every(A), "False", v)
      /\ EvalAll(w, g) = Definite(Every(B), "False", w)
  BY <1>1, <1>2 DEF EvalExists, EvalAll
<1> HIDE DEF A, B
<1>6. Truthy(Unknown) = "Unknown"
  BY DEF Truthy, Unknown, IsUnknown
<1>7. ASSUME NEW a, NEW b, NEW c, a = c => b = c, v.v.exhaustive => Firm(a, b)
      PROVE  Firm(Truthy(Definite(a, c, v)), Truthy(Definite(b, c, w)))
  <2>1. CASE ~v.v.exhaustive /\ a # c
    BY <1>6, <2>1 DEF Definite, Firm
  <2>2. CASE v.v.exhaustive \/ a = c
    <3>1. Definite(a, c, v) = ToTriVal(a)
      BY <2>2 DEF Definite
    <3>2. Definite(b, c, w) = ToTriVal(b)
      BY <1>1, <1>7, <2>2 DEF Definite
    <3>3. Firm(a, b)
      BY <1>7, <2>2 DEF Firm
    <3> QED
      BY <3>1, <3>2, <3>3, TriFirm
  <2> QED
    BY <2>1, <2>2
<1> QED
  BY <1>4, <1>5, <1>7 DEF TestsTurn

\* in, over what a list may turn out to be.
LEMMA InListFirm ==
    ASSUME NEW v, NEW w, ListTurns(v, w), NEW u, ~IsUnknown(u)
    PROVE  Firm(Truthy(EvalIn(u, v)), Truthy(EvalIn(u, w)))
<1> DEFINE n == Len(v.v.elements)
           m == Len(w.v.elements)
           F == [i \in 1..n |-> TriEq(u, v.v.elements[i])]
           G == [i \in 1..m |-> TriEq(u, w.v.elements[i])]
           A == {F[i] : i \in 1..n}
           B == {G[i] : i \in 1..m}
<1>1. /\ DOMAIN v.v.elements = 1..n /\ DOMAIN w.v.elements = 1..m /\ IsList(v) /\ IsList(w)
      /\ v.v.exhaustive => w.v.exhaustive
      /\ \A i \in 1..n : i \in 1..m /\ Turns(v.v.elements[i], w.v.elements[i])
  BY DEF ListTurns
<1>2. /\ {TriEq(u, v.v.elements[i]) : i \in DOMAIN v.v.elements} = A
      /\ {TriEq(u, w.v.elements[i]) : i \in DOMAIN w.v.elements} = B
  BY <1>1
<1>3. AllFirm(F, G, n)
  BY <1>1, TriEqFirm DEF AllFirm
<1> HIDE DEF F, G
<1>4. TestsTurn(A, B, v.v.exhaustive)
  <2> HIDE DEF A, B
  <2>1. TestsOf(A, F, n) /\ TestsOf(B, G, m)
    BY DEF A, B, TestsOf
  <2> QED
    BY <1>3, <2>1, TestsFirm
<1>5. /\ EvalIn(u, v) = IF Some(A) = "False" /\ ~v.v.exhaustive THEN Unknown ELSE ToTriVal(Some(A))
      /\ EvalIn(u, w) = IF Some(B) = "False" /\ ~w.v.exhaustive THEN Unknown ELSE ToTriVal(Some(B))
  BY <1>1, <1>2 DEF EvalIn
<1>6. Some(A) \in Truths /\ Some(B) \in Truths
  BY TruthTypes
<1> HIDE DEF A, B
<1>7. Truthy(Unknown) = "Unknown"
  BY DEF Truthy, Unknown, IsUnknown
<1>8. CASE v.v.exhaustive
  <2>1. EvalIn(u, v) = ToTriVal(Some(A)) /\ EvalIn(u, w) = ToTriVal(Some(B))
    BY <1>1, <1>5, <1>8
  <2> QED
    BY <1>4, <1>8, <2>1, TriFirm DEF TestsTurn
<1>9. CASE ~v.v.exhaustive /\ Some(A) = "True"
  <2>1. EvalIn(u, v) = ToTriVal("True") /\ EvalIn(u, w) = ToTriVal("True")
    BY <1>4, <1>5, <1>9 DEF TestsTurn
  <2> QED
    BY <2>1 DEF Firm
<1>10. CASE ~v.v.exhaustive /\ Some(A) # "True"
  <2>1. Some(A) = "False" \/ Some(A) = "Unknown"
    BY <1>6, <1>10 DEF Truths
  <2>2. ToTriVal("Unknown") = Unknown
    BY DEF ToTriVal
  <2>3. EvalIn(u, v) = Unknown
    BY <1>5, <1>10, <2>1, <2>2
  <2> QED
    BY <1>7, <2>3 DEF Firm
<1> QED
  BY <1>8, <1>9, <1>10

\* A list equals the empty one by its length, once it shows it all.
LEMMA EqualsEmpty ==
    ASSUME NEW v, IsList(v), Len(v.v.elements) \in Nat, v.v.exhaustive \in BOOLEAN
    PROVE  TriEq(v, ListOf(<<>>, TRUE))
             = IF Len(v.v.elements) > 0 THEN "False"
               ELSE IF v.v.exhaustive THEN "True" ELSE "Unknown"
<1> DEFINE x == v.v
           y == [elements |-> <<>>, exhaustive |-> TRUE]
           k == IF Len(x.elements) < Len(y.elements) THEN Len(x.elements) ELSE Len(y.elements)
           truths == {ScalarEq(x.elements[i], y.elements[i]) : i \in 1..k}
           complete == CASE Len(x.elements) < Len(y.elements) -> x.exhaustive
                         [] Len(x.elements) > Len(y.elements) -> y.exhaustive
                         [] OTHER -> x.exhaustive /\ y.exhaustive
           eq == CASE Every(truths) = "False" -> "False"
                   [] complete /\ Len(x.elements) # Len(y.elements) -> "False"
                   [] complete /\ Len(x.elements) = Len(y.elements) -> Every(truths)
                   [] OTHER -> And("Unknown", Every(truths))
           e == ListOf(<<>>, TRUE)
           n == Len(x.elements)
<1>1. TriEq(v, e) = ListEq(x, y)
  BY DEF TriEq, ListOf, IsList, IsUnknown
<1> HIDE DEF e
<1>2. ListEq(x, y) = eq
  BY Zenon DEF ListEq
<1>3. Len(y.elements) = 0 /\ y.exhaustive = TRUE
  BY EmptySeq
<1> HIDE DEF y
<1>4. k = 0
  BY <1>3
<1> HIDE DEF k
<1>5. truths = {}
  BY <1>4
<1> HIDE DEF truths
<1>6. Every(truths) = "True"
  BY <1>5 DEF Every
<1>7. /\ Len(x.elements) > 0 => complete = TRUE
      /\ Len(x.elements) = 0 => complete = x.exhaustive
  BY <1>3
<1> HIDE DEF complete
<1>8. ASSUME n > 0 PROVE TriEq(v, e) = "False"
  <2>1. complete = TRUE /\ Len(x.elements) # Len(y.elements)
    BY <1>3, <1>7, <1>8
  <2>2. eq = "False"
    BY <1>6, <2>1
  <2> QED
    BY <1>1, <1>2, <1>8, <2>2
<1>9. ASSUME n = 0 PROVE TriEq(v, e) = IF x.exhaustive THEN "True" ELSE "Unknown"
  <2>1. complete = x.exhaustive /\ Len(x.elements) = Len(y.elements)
    BY <1>3, <1>7, <1>9
  <2>2. eq = IF x.exhaustive THEN "True" ELSE "Unknown"
    BY <1>6, <2>1 DEF And
  <2> HIDE DEF eq
  <2> QED
    BY <1>1, <1>2, <1>9, <2>2
<1> HIDE DEF eq
<1>10. TriEq(v, e) = IF n > 0 THEN "False" ELSE IF x.exhaustive THEN "True" ELSE "Unknown"
  BY <1>8, <1>9
<1> QED
  BY <1>10, Zenon DEF e

\* The last element, the first one alone, and none.
LEMMA EndsFirm ==
    ASSUME NEW v, NEW w, ListTurns(v, w), NEW u
    PROVE  /\ Turns(EvalLast(v), EvalLast(w))
           /\ Firm(TriEq(v, ListOf(<<>>, TRUE)), TriEq(w, ListOf(<<>>, TRUE)))
           /\ ~IsList(u) => TriEq(v, u) = "Unknown"
           /\ \/ IsUnknown(EvalSize(v))
              \/ EvalSize(v) = EvalSize(w) /\ Turns(EvalIndex(v, 0), EvalIndex(w, 0))
<1> DEFINE n == Len(v.v.elements)
           m == Len(w.v.elements)
<1>1. /\ DOMAIN v.v.elements = 1..n /\ DOMAIN w.v.elements = 1..m /\ v.t = "list" /\ w.t = "list"
      /\ v.v.exhaustive => w.v.exhaustive /\ n = m
      /\ n \in Nat /\ m \in Nat /\ n <= m
      /\ \A i \in 1..n : i \in 1..m /\ Turns(v.v.elements[i], w.v.elements[i])
  BY DEF ListTurns, IsList
<1>2. (v.v.elements = <<>> <=> n = 0) /\ (w.v.elements = <<>> <=> m = 0)
  <2>1. v.v.elements \in Seq(Range(v.v.elements)) /\ w.v.elements \in Seq(Range(w.v.elements))
    BY DEF ListTurns, IsSequence
  <2> QED
    BY <2>1, EmptySeq
<1>3. Turns(EvalLast(v), EvalLast(w))
  <2>1. CASE ~v.v.exhaustive
    BY <1>1, <2>1 DEF EvalLast, Turns, IsList, IsUnknown, Unknown
  <2>2. CASE v.v.exhaustive /\ n = 0
    <3>1. EvalLast(v) = Null /\ EvalLast(w) = Null
      BY <1>1, <1>2, <2>2 DEF EvalLast, IsList
    <3> QED
      BY <3>1 DEF Turns
  <2>3. CASE v.v.exhaustive /\ n # 0
    <3>1. EvalLast(v) = v.v.elements[n] /\ EvalLast(w) = w.v.elements[n]
      BY <1>1, <1>2, <2>3 DEF EvalLast, IsList, Last
    <3>2. n \in 1..n
      BY <1>1, <2>3
    <3> QED
      BY <1>1, <3>1, <3>2
  <2> QED
    BY <2>1, <2>2, <2>3
<1>4. Firm(TriEq(v, ListOf(<<>>, TRUE)), TriEq(w, ListOf(<<>>, TRUE)))
  <2>1. /\ IsList(v) /\ IsList(w)
        /\ v.v.exhaustive \in BOOLEAN /\ w.v.exhaustive \in BOOLEAN
    BY DEF ListTurns
  <2> DEFINE e == ListOf(<<>>, TRUE)
  <2>2. TriEq(v, e) = IF n > 0 THEN "False"
                                       ELSE IF v.v.exhaustive THEN "True" ELSE "Unknown"
    BY <1>1, <2>1, EqualsEmpty
  <2>3. TriEq(w, e) = IF m > 0 THEN "False"
                                       ELSE IF w.v.exhaustive THEN "True" ELSE "Unknown"
    BY <1>1, <2>1, EqualsEmpty
  <2> HIDE DEF e
  <2>4. Firm(TriEq(v, e), TriEq(w, e))
    BY <1>1, <2>1, <2>2, <2>3 DEF Firm
  <2> QED
    BY <2>4, Zenon DEF e
<1>5. ~IsList(u) => TriEq(v, u) = "Unknown"
  BY <1>1 DEF TriEq, IsList, IsUnknown
<1>6. \/ IsUnknown(EvalSize(v))
      \/ EvalSize(v) = EvalSize(w) /\ Turns(EvalIndex(v, 0), EvalIndex(w, 0))
  <2>1. CASE ~v.v.exhaustive
    BY <1>1, <2>1 DEF EvalSize, IsList, IsUnknown, Unknown
  <2>2. CASE v.v.exhaustive
    <3>1. EvalSize(v) = EvalSize(w)
      BY <1>1, <2>2 DEF EvalSize, IsList
    <3>2. CASE n = 0
      <4>1. EvalIndex(v, 0) = Null /\ EvalIndex(w, 0) = Null
        BY <1>1, <2>2, <3>2 DEF EvalIndex, IsList
      <4> QED
        BY <3>1, <4>1 DEF Turns
    <3>3. CASE n # 0
      <4>1. EvalIndex(v, 0) = v.v.elements[1] /\ EvalIndex(w, 0) = w.v.elements[1]
        BY <1>1, <2>2, <3>3 DEF EvalIndex, IsList
      <4>2. 1 \in 1..n
        BY <1>1, <3>3
      <4> HIDE DEF n
      <4>3. Turns(v.v.elements[1], w.v.elements[1])
        BY <1>1, <4>2
      <4> QED
        BY <3>1, <4>1, <4>3
    <3> QED
      BY <3>1, <3>2, <3>3
  <2> QED
    BY <2>1, <2>2
<1> QED
  BY <1>3, <1>4, <1>5, <1>6

\* A key judged on a list is as known as the list is.
LEMMA JudgeListFirm ==
    ASSUME NEW key, key.op \in KeyOps \ {"none", "inside", "outside"}, NEW s, NEW r,
           NEW v, NEW w, ListTurns(v, w)
    PROVE  Firm(Judge(key, v, s), Judge(key, w, r))
<1> DEFINE h == Holds(key, v, s)
           g == Holds(key, w, r)
           text == Text(key.text)
<1>0. Judge(key, v, s) = Truthy(h) /\ Judge(key, w, r) = Truthy(g)
  BY DEF Judge
<1>1. IsList(v) /\ IsList(w) /\ v.t = "list" /\ w.t = "list" /\ ~IsList(text) /\ ~IsUnknown(text)
  BY ValueKinds DEF ListTurns, IsList
<1>2. Truthy(Unknown) = "Unknown"
  BY DEF Truthy, Unknown, IsUnknown
<1> HIDE DEF text
<1>3. TriEq(v, text) = "Unknown"
  BY <1>1, EndsFirm
<1>4. CASE key.op \in {"eq", "ne"}
  <2>1. h = EvalEq(v, text) \/ h = EvalNe(v, text)
    BY <1>4, Zenon DEF Holds, text
  <2>2. h = Unknown
    BY <1>3, <2>1 DEF EvalEq, EvalNe, Not, ToTriVal
  <2> QED
    BY <1>0, <1>2, <2>2 DEF Firm
<1>5. CASE key.op = "in"
  <2>1. h = EvalIn(text, v) /\ g = EvalIn(text, w)
    BY <1>5, Zenon DEF Holds, text
  <2> HIDE DEF h, g
  <2> QED
    BY <1>0, <1>1, <2>1, InListFirm
<1>6. CASE key.op \in {"exists", "all"}
  <2> DEFINE a(e) == IF key.op = "exists" THEN EvalEq(e, text) ELSE StartsWith(e, key.text)
             f == [i \in DOMAIN v.v.elements |-> a(v.v.elements[i])]
             k == [i \in DOMAIN w.v.elements |-> a(w.v.elements[i])]
  <2>1. ASSUME NEW b, NEW c, Turns(b, c)
        PROVE  Firm(Truthy(a(b)), Truthy(a(c)))
    <3>1. Firm(Truthy(EvalEq(b, text)), Truthy(EvalEq(c, text)))
      BY <2>1, TriEqFirm, TriFirm DEF EvalEq
    <3>2. IsUnknown(b) => StartsWith(b, key.text) = Unknown
      BY DEF StartsWith, StringTest, IsUnknown, IsText
    <3>3. Firm(Truthy(StartsWith(b, key.text)), Truthy(StartsWith(c, key.text)))
      BY <1>2, <2>1, <3>2 DEF Firm, Turns
    <3> QED
      BY <3>1, <3>3
  <2>2. /\ key.op = "exists" => h = EvalExists(v, f) /\ g = EvalExists(w, k)
        /\ key.op = "all" => h = EvalAll(v, f) /\ g = EvalAll(w, k)
    <3>1. ASSUME key.op = "exists"
          PROVE  h = EvalExists(v, f) /\ g = EvalExists(w, k)
      <4>1. /\ f = [i \in DOMAIN v.v.elements |-> EvalEq(v.v.elements[i], text)]
            /\ k = [i \in DOMAIN w.v.elements |-> EvalEq(w.v.elements[i], text)]
        BY <3>1
      <4> HIDE DEF f, k
      <4> QED
        BY <3>1, <4>1, Zenon DEF Holds, text
    <3>2. ASSUME key.op = "all"
          PROVE  h = EvalAll(v, f) /\ g = EvalAll(w, k)
      <4>1. /\ f = [i \in DOMAIN v.v.elements |-> StartsWith(v.v.elements[i], key.text)]
            /\ k = [i \in DOMAIN w.v.elements |-> StartsWith(w.v.elements[i], key.text)]
        BY <3>2
      <4> HIDE DEF f, k
      <4> QED
        BY <3>2, <4>1, Zenon DEF Holds
    <3> QED
      BY <3>1, <3>2
  <2> HIDE DEF a, h, g
  <2>3. DOMAIN v.v.elements = 1..Len(v.v.elements) /\ DOMAIN w.v.elements = 1..Len(w.v.elements)
        /\ \A i \in 1..Len(v.v.elements) :
              i \in 1..Len(w.v.elements) /\ Turns(v.v.elements[i], w.v.elements[i])
    BY DEF ListTurns
  <2>4. \A i \in 1..Len(v.v.elements) : Firm(Truthy(f[i]), Truthy(k[i]))
    BY <2>1, <2>3
  <2>5. DOMAIN f = DOMAIN v.v.elements /\ DOMAIN k = DOMAIN w.v.elements
    OBVIOUS
  <2> HIDE DEF f, k
  <2>6. /\ Firm(Truthy(EvalExists(v, f)), Truthy(EvalExists(w, k)))
        /\ Firm(Truthy(EvalAll(v, f)), Truthy(EvalAll(w, k)))
    BY <2>4, <2>5, OverListFirm
  <2> QED
    BY <1>0, <1>6, <2>2, <2>6
<1>7. CASE key.op = "starts"
  <2>1. h = StartsWith(v, key.text) /\ g = StartsWith(w, key.text)
    BY <1>7, Zenon DEF Holds
  <2>2. h = Boolean(FALSE) /\ g = Boolean(FALSE)
    BY <1>1, <2>1 DEF StartsWith, StringTest, IsText, IsUnknown
  <2> QED
    BY <1>0, <2>2 DEF Firm
<1>8. CASE key.op = "last"
  <2>1. h = EvalEq(EvalLast(v), text) /\ g = EvalEq(EvalLast(w), text)
    BY <1>8, Zenon DEF Holds, text
  <2> HIDE DEF h, g
  <2>2. Turns(EvalLast(v), EvalLast(w))
    BY EndsFirm
  <2>3. Firm(TriEq(EvalLast(v), text), TriEq(EvalLast(w), text))
    BY <2>2, TriEqFirm
  <2> QED
    BY <1>0, <2>1, <2>3, TriFirm DEF EvalEq
<1>9. CASE key.op = "nothing"
  <2> DEFINE e == ListOf(<<>>, TRUE)
  <2>1. h = EvalEq(v, e) /\ g = EvalEq(w, e)
    BY <1>9, Zenon DEF Holds
  <2>2. Firm(TriEq(v, e), TriEq(w, e))
    BY EndsFirm, Zenon
  <2> HIDE DEF h, g, e
  <2> QED
    BY <1>0, <2>1, <2>2, TriFirm DEF EvalEq
<1>10. CASE key.op = "alone"
  <2> DEFINE c == EvalLess(EvalSize(v), Number(2))
             d == EvalLess(EvalSize(w), Number(2))
             a == EvalEq(EvalIndex(v, 0), text)
             b == EvalEq(EvalIndex(w, 0), text)
             n == Boolean(FALSE)
  <2>1. h = EvalTernary(c, a, n) /\ g = EvalTernary(d, b, n)
    BY <1>10, Zenon DEF Holds, text
  <2> HIDE DEF h, g, n
  <2>2. CASE IsUnknown(EvalSize(v))
    <3>1. c = Unknown
      BY <2>2 DEF EvalLess, IsUnknown
    <3>2. Truthy(c) = "Unknown"
      BY <1>2, <3>1
    <3> HIDE DEF a, b, c, d
    <3>3. h = Unknown
      BY <2>1, <3>2 DEF EvalTernary
    <3> QED
      BY <1>0, <1>2, <3>3 DEF Firm
  <2>3. CASE EvalSize(v) = EvalSize(w) /\ Turns(EvalIndex(v, 0), EvalIndex(w, 0))
    <3>1. c = d
      BY <2>3
    <3>2. Firm(TriEq(EvalIndex(v, 0), text), TriEq(EvalIndex(w, 0), text))
      BY <2>3, TriEqFirm
    <3>3. Firm(Truthy(a), Truthy(b))
      BY <3>2, TriFirm DEF EvalEq
    <3> HIDE DEF a, b, c, d
    <3>4. (h = a /\ g = b) \/ (h = n /\ g = n) \/ h = Unknown
      BY <2>1, <3>1 DEF EvalTernary
    <3> QED
      BY <1>0, <1>2, <3>3, <3>4 DEF Firm
  <2> QED
    BY <2>2, <2>3, EndsFirm
<1>11. CASE key.op = "true"
  <2>1. h = v /\ g = w
    BY <1>11, Zenon DEF Holds
  <2>2. Truthy(v) = "False" /\ Truthy(w) = "False"
    BY <1>1 DEF Truthy, IsUnknown
  <2> QED
    BY <1>0, <2>1, <2>2 DEF Firm
<1> QED
  BY <1>4, <1>5, <1>6, <1>7, <1>8, <1>9, <1>10, <1>11 DEF KeyOps

\* A key is as known as what it is judged on, and where.
LEMMA JudgeFirm ==
    ASSUME NEW key, key.op \in KeyOps \ {"none"}, NEW v, NEW w, MayBe(v, w),
           NEW s, NEW r, SiteTurns(s, r)
    PROVE  Firm(Judge(key, v, s), Judge(key, w, r))
<1>1. CASE IsUnknown(v)
  BY <1>1, JudgeUnknown DEF Firm
<1>2. CASE key.op \in {"inside", "outside"}
  <2> DEFINE a == InProject(v, s.host, s.dirs)
             b == InProject(w, r.host, r.dirs)
             c == IsTemp(v, s.host, s.temp)
             d == IsTemp(w, r.host, r.temp)
  <2>1. Firm(Truthy(a), Truthy(b)) /\ Firm(Truthy(c), Truthy(d))
    BY PlacesFirm
  <2>2. \/ Holds(key, v, s) = EvalOr(a, c) /\ Holds(key, w, r) = EvalOr(b, d)
        \/ /\ Holds(key, v, s) = EvalAnd(EvalNot(a), EvalNot(c))
           /\ Holds(key, w, r) = EvalAnd(EvalNot(b), EvalNot(d))
    BY <1>2, Zenon DEF Holds
  <2> HIDE DEF a, b, c, d
  <2>3. Firm(Truthy(EvalOr(a, c)), Truthy(EvalOr(b, d)))
    BY <2>1, TriFirm DEF EvalOr
  <2>4. Firm(Truthy(EvalNot(a)), Truthy(EvalNot(b))) /\ Firm(Truthy(EvalNot(c)), Truthy(EvalNot(d)))
    BY <2>1, TriFirm DEF EvalNot
  <2>5. Firm(Truthy(EvalAnd(EvalNot(a), EvalNot(c))), Truthy(EvalAnd(EvalNot(b), EvalNot(d))))
    BY <2>4, TriFirm DEF EvalAnd
  <2> QED
    BY <2>2, <2>3, <2>5 DEF Judge
<1>3. CASE key.op \notin {"inside", "outside"} /\ v = w
  <2>1. Holds(key, v, s) = Holds(key, w, r)
    <3>1. key.op \in KeyOps \ {"none", "inside", "outside"}
      BY <1>3
    <3> QED
      BY <1>3, <3>1 DEF Holds, KeyOps
  <2> QED
    BY <2>1 DEF Judge, Firm
<1>4. CASE key.op \notin {"inside", "outside"} /\ ListTurns(v, w)
  BY <1>4, JudgeListFirm
<1> QED
  BY <1>1, <1>2, <1>3, <1>4 DEF MayBe, Turns

-----------------------------------------------------------------------------
\* What is known stays known: facts and keys

\* A word, and a list of words, resolve to what they may turn out to be.
LEMMA WordTurns ==
    ASSUME NEW v, NEW w, ~IsList(v), Resolves(v, w)
    PROVE  Turns(v, w)
BY DEF Resolves, Turns

\* A list of words resolves word by word.
LEMMA WordsTurn ==
    ASSUME NEW v, NEW w, IsListOfWords(v), IsListOfWords(w), Resolves(v, w)
    PROVE  ListTurns(v, w)
<1>1. /\ IsList(v) /\ IsList(w) /\ IsSequence(v.v.elements) /\ IsSequence(w.v.elements)
      /\ v.v.exhaustive \in BOOLEAN /\ w.v.exhaustive \in BOOLEAN
  BY DEF IsListOfWords
<1>2. /\ Len(v.v.elements) \in Nat /\ DOMAIN v.v.elements = 1..Len(v.v.elements)
      /\ Len(w.v.elements) \in Nat /\ DOMAIN w.v.elements = 1..Len(w.v.elements)
  BY <1>1, RulePlaces DEF IsSequence
<1>3. ~IsUnknown(v)
  BY <1>1, ValueKinds
<1>4. CASE v = w
  BY <1>1, <1>2, <1>4 DEF ListTurns, Turns
<1>5. CASE v # w
  <2>1. /\ Len(v.v.elements) <= Len(w.v.elements)
        /\ \A i \in DOMAIN v.v.elements :
              IsUnknown(v.v.elements[i]) \/ v.v.elements[i] = w.v.elements[i]
        /\ v.v.exhaustive => w.v.exhaustive /\ Len(v.v.elements) = Len(w.v.elements)
    BY <1>3, <1>5 DEF Resolves
  <2> QED
    BY <1>1, <1>2, <2>1 DEF ListTurns, Turns
<1> QED
  BY <1>4, <1>5

\* A host is not known, or stays the same.
LEMMA HostTurns ==
    ASSUME NEW v, NEW w, Turns(v, w), NEW env, NEW to, env.thisHost = to.thisHost
    PROVE  HostOf(v, env) = "unknown" \/ HostOf(v, env) = HostOf(w, to)
<1>1. CASE IsUnknown(v)
  BY <1>1 DEF HostOf, IsUnknown, Text
<1>2. CASE v = w
  BY <1>2 DEF HostOf
<1> QED
  BY <1>1, <1>2 DEF Turns

\* A path resolves from a directory that may turn out to be another one.
LEMMA ResolveTurns ==
    ASSUME NEW word, NEW d, NEW b, Turns(d, b)
    PROVE  Turns(Resolve(word, d), Resolve(word, b))
<1>1. CASE d = b
  BY <1>1 DEF Turns
<1>2. CASE IsUnknown(d)
  <2>1. ~IsText(d)
    BY <1>2 DEF IsUnknown, IsText
  <2>2. CASE Head(word) \in {"~", "/"}
    BY <2>2 DEF Resolve, Turns
  <2>3. CASE Head(word) \notin {"~", "/"}
    <3>1. Resolve(word, d) = Unknown
      BY <2>1, <2>3 DEF Resolve
    <3> QED
      BY <3>1, ValueKinds DEF Turns
  <2> QED
    BY <2>2, <2>3
<1> QED
  BY <1>1, <1>2 DEF Turns

\* What a name is, where it runs.
LEMMA IdentityTurns ==
    ASSUME NEW name, NEW h, NEW k, NEW a, NEW b, NEW d, NEW e, Turns(d, e),
           h = "unknown" \/ (h = k /\ (h = "here" => a = b)),
           h = "unknown" => ~(IsText(name) /\ Len(name.v) # 1 /\ Head(name.v) = "/")
    PROVE  Turns(Identity(name, h, a, d), Identity(name, k, b, e))
<1> DEFINE bare == Text(<<Last(name.v)>>)
           p == Resolve(name.v, d)
           q == Resolve(name.v, e)
           here(anchor, path) ==
              CASE IsUnknown(path) -> Unknown
                [] IsText(anchor) /\ IsText(path) /\ IsPrefix(anchor.v, path.v) ->
                      Text(<<".">> \o SubSeq(path.v, Len(anchor.v) + 1, Len(path.v)))
                [] ~IsUnknown(path) /\ ~(IsText(anchor) /\ IsText(path) /\ IsPrefix(anchor.v, path.v)) ->
                      IF WrittenAbsolute(name.v) THEN bare
                      ELSE IF IsText(anchor) THEN Text(RelativePath(anchor.v, path.v))
                      ELSE Unknown
           i(host, anchor, path) ==
              CASE host # "here" \/ Head(name.v) = "~" ->
                      IF WrittenAbsolute(name.v) THEN bare ELSE Unknown
                [] host = "here" /\ Head(name.v) # "~" -> here(anchor, path)
<1>1. CASE ~IsText(name) \/ Len(name.v) = 1
  BY <1>1 DEF Identity, Turns
<1>2. CASE IsText(name) /\ Len(name.v) # 1
  <2>1. Identity(name, h, a, d) = i(h, a, p) /\ Identity(name, k, b, e) = i(k, b, q)
    BY <1>2, Zenon DEF Identity
  <2>2. Turns(p, q)
    BY ResolveTurns
  <2>3. \A anchor, path : IsUnknown(path) => here(anchor, path) = Unknown
    BY DEF IsText, IsUnknown
  <2> HIDE DEF here, bare, p, q
  <2>4. CASE Head(name.v) = "~"
    <3>1. i(h, a, p) = bare /\ i(k, b, q) = bare
      BY <2>4 DEF WrittenAbsolute
    <3> QED
      BY <2>1, <3>1 DEF Turns
  <2>5. CASE Head(name.v) # "~" /\ h = "unknown"
    <3>1. ~WrittenAbsolute(name.v)
      BY <1>2, <2>5 DEF WrittenAbsolute
    <3>2. i(h, a, p) = Unknown
      BY <2>5, <3>1
    <3> QED
      BY <2>1, <3>2, ValueKinds DEF Turns
  <2>6. CASE Head(name.v) # "~" /\ h # "unknown" /\ h # "here"
    <3>1. i(h, a, p) = i(k, b, q)
      BY <2>6
    <3> QED
      BY <2>1, <3>1 DEF Turns
  <2>7. CASE Head(name.v) # "~" /\ h = "here"
    <3>1. i(h, a, p) = here(a, p) /\ i(k, b, q) = here(a, q)
      BY <2>7
    <3>2. here(a, p) = Unknown \/ here(a, p) = here(a, q)
      BY <2>2, <2>3 DEF Turns
    <3> QED
      BY <2>1, <3>1, <3>2, ValueKinds DEF Turns
  <2> QED
    BY <2>4, <2>5, <2>6, <2>7
<1> QED
  BY <1>1, <1>2

\* A subcommand word that is not there stays away.
LEMMA BelowTurns ==
    ASSUME NEW info, NEW real, Typed(info), Typed(real), Shows(info, real), NEW n \in Nat \ {0}
    PROVE  Turns(Below(info, n), Below(real, n))
<1>1. /\ IsSequence(info.subcommands) /\ IsSequence(real.subcommands)
      /\ \A word \in Range(info.subcommands) : IsWord(word)
  BY DEF Typed
<1>2. /\ Len(info.subcommands) \in Nat /\ DOMAIN info.subcommands = 1..Len(info.subcommands)
      /\ Len(real.subcommands) \in Nat
      /\ Range(info.subcommands) = {info.subcommands[i] : i \in 1..Len(info.subcommands)}
  <2>1. /\ info.subcommands \in Seq(Range(info.subcommands))
        /\ real.subcommands \in Seq(Range(real.subcommands))
    BY <1>1 DEF IsSequence
  <2> QED
    BY <2>1, RulePlaces, SequenceOf
<1>3. /\ Len(real.subcommands) <= Len(info.subcommands)
      /\ \A depth \in DOMAIN info.subcommands : Resolves(Below(info, depth), Below(real, depth))
  BY DEF Shows
<1>4. CASE n <= Len(info.subcommands)
  <2>1. n \in DOMAIN info.subcommands /\ Below(info, n) \in Range(info.subcommands)
    BY <1>2, <1>4 DEF Below
  <2>2. ~IsList(Below(info, n))
    BY <1>1, <2>1 DEF IsWord
  <2> QED
    BY <1>3, <2>1, <2>2, WordTurns
<1>5. CASE ~(n <= Len(info.subcommands))
  BY <1>2, <1>3, <1>5 DEF Below, Turns
<1> QED
  BY <1>4, <1>5

\* The facts of a command, with what they may turn out to be.
FactsTurn(f, g) ==
    /\ f.host \in {"here", "there", "unknown"} /\ (f.host = "unknown" \/ f.host = g.host)
    /\ Turns(f.identity, g.identity) /\ f.relative = g.relative
    /\ \A depth \in Nat \ {0} : Turns(Below(f.cmd, depth), Below(g.cmd, depth))
    /\ ListTurns(f.cmd.args, g.cmd.args)
    /\ Turns(f.cmd.context.host, g.cmd.context.host)
    /\ Turns(f.cmd.context.user, g.cmd.context.user)
    /\ f.cmd.context.own => g.cmd.context.own
    /\ f.cmd.top = g.cmd.top /\ f.cmd.before = g.cmd.before /\ f.cmd.after = g.cmd.after

\* The host key, and where a rule without it holds.
LEMMA HostMatchFirm ==
    ASSUME NEW rule, IsRule(rule), NEW f, NEW g, FactsTurn(f, g), NEW env, NEW to,
           SiteTurns(Site(f, env), Site(g, to))
    PROVE  Firm(HostMatch(rule, f, env), HostMatch(rule, g, to))
<1> DEFINE a == Judge(rule.host, f.cmd.context.host, Site(f, env))
           b == Judge(rule.host, g.cmd.context.host, Site(g, to))
<1>1. /\ f.host \in {"here", "there", "unknown"} /\ (f.host = "unknown" \/ f.host = g.host)
      /\ Turns(f.cmd.context.host, g.cmd.context.host)
  BY DEF FactsTurn
<1>2. Given(rule.host) => Firm(a, b)
  <2>1. Given(rule.host) => rule.host.op \in KeyOps \ {"none"}
    BY DEF IsRule, Given
  <2> QED
    BY <1>1, <2>1, JudgeFirm DEF MayBe
<1> HIDE DEF a, b
<1>3. CASE f.host = "unknown" /\ rule.project
  BY <1>3 DEF HostMatch, Firm
<1>4. CASE f.host = "unknown" /\ ~rule.project /\ ~Given(rule.host) /\ rule.action # "Allow"
  BY <1>4 DEF HostMatch, Firm
<1>5. CASE f.host = "unknown" /\ ~rule.project /\ (Given(rule.host) \/ rule.action = "Allow")
  BY <1>5 DEF HostMatch, Firm
<1>6. CASE f.host # "unknown" /\ rule.project /\ f.host # "here"
  <2>1. f.host = "there" /\ g.host = "there"
    BY <1>1, <1>6
  <2> QED
    BY <1>6, <2>1 DEF HostMatch, Firm
<1>7. CASE f.host # "unknown" /\ (~rule.project \/ f.host = "here") /\ ~Given(rule.host)
  BY <1>1, <1>7 DEF HostMatch, Firm
<1>8. CASE f.host # "unknown" /\ (~rule.project \/ f.host = "here") /\ Given(rule.host)
  <2>1. HostMatch(rule, f, env) = a
    BY <1>8, Zenon DEF HostMatch, a
  <2>2. HostMatch(rule, g, to) = b
    BY <1>1, <1>8, Zenon DEF HostMatch, b
  <2> QED
    BY <1>2, <1>8, <2>1, <2>2
<1> QED
  BY <1>3, <1>4, <1>5, <1>6, <1>7, <1>8

\* The user key; a user that is not known to be one's own may be.
LEMMA UserMatchTurns ==
    ASSUME NEW rule, IsRule(rule), NEW f, NEW g, FactsTurn(f, g), NEW env, NEW to,
           SiteTurns(Site(f, env), Site(g, to))
    PROVE  /\ UserMatch(rule, f, env) = "True" => UserMatch(rule, g, to) = "True"
           /\ rule.action # "Allow" => Firm(UserMatch(rule, f, env), UserMatch(rule, g, to))
           /\ UserMatch(rule, f, env) \in Truths
<1> DEFINE a == Judge(rule.user, f.cmd.context.user, Site(f, env))
           b == Judge(rule.user, g.cmd.context.user, Site(g, to))
<1>1. Turns(f.cmd.context.user, g.cmd.context.user) /\ (f.cmd.context.own => g.cmd.context.own)
  BY DEF FactsTurn
<1>2. CASE Given(rule.user)
  <2>1. rule.user.op \in KeyOps \ {"none"}
    BY <1>2 DEF IsRule, Given
  <2>2. Firm(a, b)
    BY <1>1, <2>1, JudgeFirm DEF MayBe
  <2>3. a \in Truths
    BY TruthTypes DEF Judge
  <2> HIDE DEF a, b
  <2>4. UserMatch(rule, f, env) = a /\ UserMatch(rule, g, to) = b
    BY <1>2, Zenon DEF UserMatch, a, b
  <2> QED
    BY <2>2, <2>3, <2>4 DEF Firm
<1>3. CASE ~Given(rule.user) /\ rule.action # "Allow"
  <2>1. UserMatch(rule, f, env) = "True" /\ UserMatch(rule, g, to) = "True"
    BY <1>3 DEF UserMatch
  <2> QED
    BY <2>1 DEF Firm, Truths
<1>4. CASE ~Given(rule.user) /\ rule.action = "Allow"
  BY <1>1, <1>4 DEF UserMatch, Truths
<1> QED
  BY <1>2, <1>3, <1>4

\* The command paths.
LEMMA CommandMatchFirm ==
    ASSUME NEW rule, IsRule(rule), NEW f, NEW g, FactsTurn(f, g)
    PROVE  Firm(CommandMatch(rule, f), CommandMatch(rule, g))
<1>1. /\ Turns(f.identity, g.identity) /\ f.relative = g.relative
      /\ \A depth \in Nat \ {0} : Turns(Below(f.cmd, depth), Below(g.cmd, depth))
  BY DEF FactsTurn
<1>2. ASSUME NEW path \in rule.command
      PROVE  Firm(PathMatch(path, f), PathMatch(path, g))
  <2> DEFINE n == Len(path)
             p == TriEq(f.identity, Text(path[1]))
             q == TriEq(g.identity, Text(path[1]))
             S == {TriEq(Below(f.cmd, i - 1), Text(path[i])) : i \in 2..n}
             T == {TriEq(Below(g.cmd, i - 1), Text(path[i])) : i \in 2..n}
  <2>0. n \in Nat
    BY RulePlaces DEF IsRule, IsSequence
  <2> HIDE DEF n
  <2>1. Firm(p, q)
    BY <1>1, TriEqFirm
  <2>2. \A i \in 2..n : Firm(TriEq(Below(f.cmd, i - 1), Text(path[i])),
                             TriEq(Below(g.cmd, i - 1), Text(path[i])))
    <3>1. \A i \in 2..n : i - 1 \in Nat \ {0}
      BY <2>0
    <3> QED
      BY <1>1, <3>1, TriEqFirm
  <2> HIDE DEF p, q
  <2>3. /\ \A a \in {p} \cup S : \E b \in {q} \cup T : Firm(a, b)
        /\ \A b \in {q} \cup T : \E a \in {p} \cup S : Firm(a, b)
    BY <2>1, <2>2
  <2> HIDE DEF S, T
  <2>4. Firm(Every({p} \cup S), Every({q} \cup T))
    BY <2>3, EveryFirm
  <2>5. /\ PathMatch(path, f) = IF f.relative /\ Len(path[1]) = 1 THEN "False" ELSE Every({p} \cup S)
        /\ PathMatch(path, g) = IF g.relative /\ Len(path[1]) = 1 THEN "False" ELSE Every({q} \cup T)
    BY Zenon DEF PathMatch, p, q, S, T, n
  <2> QED
    BY <1>1, <2>4, <2>5 DEF Firm
<1>3. CASE rule.command = {}
  BY <1>3 DEF CommandMatch, Firm
<1>4. CASE rule.command # {}
  <2> DEFINE S == {PathMatch(path, f) : path \in rule.command}
             T == {PathMatch(path, g) : path \in rule.command}
  <2>1. /\ \A a \in S : \E b \in T : Firm(a, b)
        /\ \A b \in T : \E a \in S : Firm(a, b)
    BY <1>2
  <2>2. CommandMatch(rule, f) = Some(S) /\ CommandMatch(rule, g) = Some(T)
    BY <1>4 DEF CommandMatch
  <2> HIDE DEF S, T
  <2> QED
    BY <2>1, <2>2, SomeFirm
<1> QED
  BY <1>3, <1>4

\* The variable of a when key.
LEMMA WhenTurns ==
    ASSUME NEW rule, IsRule(rule), Given(rule.when),
           rule.when.var \in {"args", "subcommand"} => rule.command # {},
           NEW f, NEW g, FactsTurn(f, g)
    PROVE  MayBe(WhenValue(rule, f), WhenValue(rule, g))
<1>1. CASE rule.when.var = "args"
  <2>1. WhenValue(rule, f) = f.cmd.args /\ WhenValue(rule, g) = g.cmd.args
    BY <1>1 DEF WhenValue
  <2> QED
    BY <2>1 DEF FactsTurn, MayBe
<1>2. CASE rule.when.var = "name"
  <2>1. WhenValue(rule, f) = f.identity /\ WhenValue(rule, g) = g.identity
    BY <1>2 DEF WhenValue
  <2> QED
    BY <2>1 DEF FactsTurn, MayBe
<1>3. CASE rule.when.var = "subcommand"
  <2> DEFINE n == Len(CHOOSE path \in rule.command : TRUE)
  <2>1. PICK first \in rule.command : first = CHOOSE path \in rule.command : TRUE
    BY <1>3
  <2>2. IsSequence(first) /\ first # <<>>
    BY DEF IsRule
  <2>3. n \in Nat \ {0}
    BY <2>1, <2>2, EmptySeq DEF IsSequence
  <2> HIDE DEF n
  <2>4. WhenValue(rule, f) = Below(f.cmd, n) /\ WhenValue(rule, g) = Below(g.cmd, n)
    BY <1>3, Zenon DEF WhenValue, n
  <2> QED
    BY <2>3, <2>4 DEF FactsTurn, MayBe
<1>4. CASE rule.when.var = "piped"
  <2>1. f.cmd.top = g.cmd.top /\ f.cmd.before = g.cmd.before /\ f.cmd.after = g.cmd.after
    BY DEF FactsTurn
  <2>2. WhenValue(rule, f) = WhenValue(rule, g)
    BY <1>4, <2>1 DEF WhenValue
  <2> QED
    BY <2>2 DEF MayBe, Turns
<1> QED
  BY <1>1, <1>2, <1>3, <1>4 DEF IsRule

\* A host key, the command paths and a when key are true, false or unknown.
LEMMA MatchTypes ==
    ASSUME NEW rule, NEW f, NEW env, f.host \in {"here", "there", "unknown"}
    PROVE  HostMatch(rule, f, env) \in Truths /\ CommandMatch(rule, f) \in Truths
<1>1. CommandMatch(rule, f) \in Truths
  BY TruthTypes DEF CommandMatch, Truths
<1> DEFINE a == Judge(rule.host, f.cmd.context.host, Site(f, env))
<1>2. a \in Truths
  BY TruthTypes DEF Judge
<1> HIDE DEF a
<1>3. HostMatch(rule, f, env) \in {"True", "False", "Unknown", a, Of(f.host = "here")}
  BY Zenon DEF HostMatch, a
<1>4. HostMatch(rule, f, env) \in Truths
  BY <1>2, <1>3, TruthTypes DEF Truths
<1> QED
  BY <1>1, <1>4

\* All of them hold when each does.
LEMMA EveryTrue ==
    ASSUME NEW A, A \subseteq Truths
    PROVE  Every(A) = "True" <=> \A a \in A : a = "True"
BY DEF Every, Truths

\* What a rule says of a command is as known as the command is; and a rule
\* that surely is about it stays so.
LEMMA CommandTurns ==
    ASSUME NEW rule, IsRule(rule),
           Given(rule.when) => (rule.when.var \in {"args", "subcommand"} => rule.command # {}),
           NEW f, NEW g, FactsTurn(f, g), NEW env, NEW to, env.via = to.via,
           SiteTurns(Site(f, env), Site(g, to))
    PROVE  /\ Meet(rule, f, env).command = "True" => Meet(rule, g, to).command = "True"
           /\ rule.action # "Allow" => Firm(Meet(rule, f, env).command, Meet(rule, g, to).command)
           /\ Meet(rule, f, env).command \in Truths /\ Meet(rule, g, to).command \in Truths
<1> DEFINE on == Of(env.via \in rule.via)
           h == HostMatch(rule, f, env)
           i == HostMatch(rule, g, to)
           u == UserMatch(rule, f, env)
           v == UserMatch(rule, g, to)
           c == CommandMatch(rule, f)
           d == CommandMatch(rule, g)
           w == IF Given(rule.when) THEN Judge(rule.when, WhenValue(rule, f), Site(f, env)) ELSE "True"
           x == IF Given(rule.when) THEN Judge(rule.when, WhenValue(rule, g), Site(g, to)) ELSE "True"
<1>1. /\ Meet(rule, f, env).command = Every({on, h, u, c, w})
      /\ Meet(rule, g, to).command = Every({on, i, v, d, x})
  BY DEF Meet
<1>2. Firm(h, i)
  BY HostMatchFirm
<1>3. /\ u = "True" => v = "True"
      /\ rule.action # "Allow" => Firm(u, v)
      /\ u \in Truths
  BY UserMatchTurns
<1>4. Firm(c, d)
  BY CommandMatchFirm
<1>5. Firm(w, x)
  <2>1. CASE Given(rule.when)
    <3>1. rule.when.op \in KeyOps \ {"none"}
      BY <2>1 DEF IsRule, Given
    <3>2. MayBe(WhenValue(rule, f), WhenValue(rule, g))
      BY <2>1, WhenTurns
    <3> QED
      BY <2>1, <3>1, <3>2, JudgeFirm
  <2>2. CASE ~Given(rule.when)
    BY <2>2 DEF Firm
  <2> QED
    BY <2>1, <2>2
<1>6. on \in Truths /\ w \in Truths
  <2>1. on \in Truths
    BY TruthTypes
  <2>2. w \in Truths
    <3>1. Judge(rule.when, WhenValue(rule, f), Site(f, env)) \in Truths
      BY TruthTypes DEF Judge
    <3> QED
      BY <3>1 DEF Truths
  <2> QED
    BY <2>1, <2>2
<1>7. h \in Truths /\ c \in Truths
  BY MatchTypes DEF FactsTurn
<1>8. Meet(rule, f, env).command \in Truths /\ Meet(rule, g, to).command \in Truths
  BY <1>1, TruthTypes
<1> HIDE DEF on, h, i, u, v, c, d, w, x
<1>9. ASSUME Every({on, h, u, c, w}) = "True"
      PROVE  Every({on, i, v, d, x}) = "True"
  <2>1. {on, h, u, c, w} \subseteq Truths
    BY <1>3, <1>6, <1>7
  <2>2. on = "True" /\ h = "True" /\ u = "True" /\ c = "True" /\ w = "True"
    BY <1>9, <2>1, EveryTrue
  <2>3. on = "True" /\ i = "True" /\ v = "True" /\ d = "True" /\ x = "True"
    BY <1>2, <1>3, <1>4, <1>5, <2>2 DEF Firm
  <2> QED
    BY <2>3 DEF Every
<1>10. ASSUME rule.action # "Allow"
       PROVE  Firm(Every({on, h, u, c, w}), Every({on, i, v, d, x}))
  <2> DEFINE A == {on, h, u, c, w}
             B == {on, i, v, d, x}
  <2>1. Firm(on, on) /\ Firm(u, v)
    BY <1>3, <1>10 DEF Firm
  <2>2. (\A a \in A : \E b \in B : Firm(a, b)) /\ (\A b \in B : \E a \in A : Firm(a, b))
    BY <1>2, <1>4, <1>5, <2>1
  <2> HIDE DEF A, B
  <2> QED
    BY <2>2, EveryFirm DEF A, B
<1> QED
  BY <1>1, <1>8, <1>9, <1>10

\* The facts of a command turn into those of the one that runs.
LEMMA FactsTurns ==
    ASSUME NEW info, NEW real, Typed(info), Typed(real), Shows(info, real), ~IsUnknown(info.name),
           NEW env, NEW to, env.thisHost = to.thisHost, env.temp = to.temp,
           Placed(info, env, to)
    PROVE  /\ FactsTurn(FactsOf(info, env), FactsOf(real, to))
           /\ SiteTurns(Site(FactsOf(info, env), env), Site(FactsOf(real, to), to))
<1> DEFINE f == FactsOf(info, env)
           g == FactsOf(real, to)
           h == HostOf(info.context.host, env)
           k == HostOf(real.context.host, to)
<1>1. /\ f.host = h /\ g.host = k /\ f.cmd = info /\ g.cmd = real
      /\ f.identity = Identity(info.name, h, env.anchor, info.context.cwd)
      /\ g.identity = Identity(real.name, k, to.anchor, real.context.cwd)
      /\ f.relative = (IsText(info.name) /\ WrittenRelative(info.name.v))
      /\ g.relative = (IsText(real.name) /\ WrittenRelative(real.name.v))
  BY DEF FactsOf
<1>2. /\ ~IsList(info.name) /\ ~IsList(info.context.cwd) /\ ~IsList(info.context.host)
      /\ ~IsList(info.context.user) /\ IsListOfWords(info.args) /\ IsListOfWords(real.args)
  BY DEF Typed, IsWord
<1>3. /\ Resolves(info.name, real.name) /\ Resolves(info.args, real.args)
      /\ Resolves(info.context.cwd, real.context.cwd)
      /\ Resolves(info.context.host, real.context.host)
      /\ Resolves(info.context.user, real.context.user)
      /\ info.context.own => real.context.own
      /\ info.top = real.top /\ info.before = real.before /\ info.after = real.after
  BY Zenon DEF Shows
<1>4. /\ info.name = real.name /\ Turns(info.context.cwd, real.context.cwd)
      /\ Turns(info.context.host, real.context.host) /\ Turns(info.context.user, real.context.user)
      /\ ListTurns(info.args, real.args)
  BY <1>2, <1>3, WordTurns, WordsTurn DEF Turns
<1>5. h = "unknown" \/ h = k
  BY <1>4, HostTurns
<1>6. h \in {"here", "there", "unknown"}
  BY DEF HostOf
<1>7. /\ h = "here" => env = to
      /\ h = "unknown" => ~(IsText(info.name) /\ Len(info.name.v) # 1 /\ Head(info.name.v) = "/")
  BY Zenon DEF Placed
<1> HIDE DEF f, g, h, k
<1>8. Turns(f.identity, g.identity)
  <2>1. h = "unknown" \/ (h = k /\ (h = "here" => env.anchor = to.anchor))
    BY <1>5, <1>7
  <2>2. Turns(Identity(info.name, h, env.anchor, info.context.cwd),
              Identity(info.name, k, to.anchor, real.context.cwd))
    BY <1>4, <1>7, <2>1, IdentityTurns
  <2> QED
    BY <1>1, <1>4, <2>2
<1>9. \A depth \in Nat \ {0} : Turns(Below(info, depth), Below(real, depth))
  BY BelowTurns
<1>10. FactsTurn(f, g)
  BY <1>1, <1>3, <1>4, <1>5, <1>6, <1>8, <1>9 DEF FactsTurn
<1>11. SiteTurns(Site(f, env), Site(g, to))
  BY <1>1, <1>5, <1>7 DEF SiteTurns, Site
<1> QED
  BY <1>10, <1>11 DEF f, g

-----------------------------------------------------------------------------
\* What is known stays known: paths

\* A path that is not exempted.
Free(e, exempted) == ~(IsText(e) /\ e.v \in exempted)
\* A list of paths.
IsPaths(list) ==
    /\ IsSequence(list.v.elements) /\ list.v.exhaustive \in BOOLEAN
    /\ \A e \in Range(list.v.elements) : IsWord(e)

\* What a path key says, path by path.
KeyIs(x, list, key, s) ==
    LET Paths == Range(list.v.elements)
    IN  /\ x.given
        /\ \A E : AnyPath(x, E) = "True"
                    <=> \E e \in Paths : Free(e, E) /\ Judge(key, e, s) = "True"
        /\ \A E : AnyPath(x, E) = "False"
                    <=> list.v.exhaustive /\ \A e \in Paths : Free(e, E) => Judge(key, e, s) = "False"
        /\ \A p : AtPath(x, p) = "True"
                    <=> \E e \in Paths : IsText(e) /\ e.v = p /\ Judge(key, e, s) = "True"
        /\ (x.exhaustive /\ \A i \in DOMAIN x.truths : x.truths[i] = "True")
                    <=> list.v.exhaustive /\ \A e \in Paths : Judge(key, e, s) = "True"

\* A judged key says what its test says of each path.
LEMMA JudgedPathsAre ==
    ASSUME NEW list, IsPaths(list), NEW key, Given(key), NEW s
    PROVE  KeyIs(JudgedPaths(key, list, s), list, key, s)
<1> DEFINE es == list.v.elements
           n == Len(es)
           x == JudgedPaths(key, list, s)
           J(e) == Judge(key, e, s)
<1>1. IsSequence(es) /\ list.v.exhaustive \in BOOLEAN /\ \A e \in Range(es) : IsWord(e)
  BY DEF IsPaths
<1>2. n \in Nat /\ DOMAIN es = 1..n /\ Range(es) = {es[i] : i \in 1..n}
  <2>1. es \in Seq(Range(es))
    BY <1>1 DEF IsSequence
  <2> HIDE DEF es
  <2> QED
    BY <2>1, RulePlaces, SequenceOf
<1>3. /\ x.given /\ x.paths = es /\ x.exhaustive = list.v.exhaustive
      /\ x.truths = [i \in 1..n |-> J(es[i])]
  <2>1. x = [given |-> Given(key), paths |-> es, exhaustive |-> list.v.exhaustive,
             truths |-> [i \in DOMAIN es |-> J(es[i])]]
    BY DEF JudgedPaths
  <2>2. [i \in DOMAIN es |-> J(es[i])] = [i \in 1..n |-> J(es[i])]
    BY <1>2
  <2> HIDE DEF x, J, es, n
  <2> QED
    BY <2>1, <2>2
<1>4. \A e : J(e) \in Truths
  BY TruthTypes DEF Judge
<1> HIDE DEF x, J
<1>5. \A i \in 1..n : x.truths[i] = J(es[i])
  BY <1>3
<1>6. ASSUME NEW E
      PROVE  /\ AnyPath(x, E) = "True" <=> \E e \in Range(es) : Free(e, E) /\ J(e) = "True"
             /\ AnyPath(x, E) = "False"
                  <=> list.v.exhaustive /\ \A e \in Range(es) : Free(e, E) => J(e) = "False"
  <2> DEFINE S == {J(e) : e \in {e \in Range(es) : Free(e, E)}}
             more == IF list.v.exhaustive THEN {} ELSE {"Unknown"}
             T == {x.truths[i] : i \in {i \in 1..n : Free(es[i], E)}}
  <2>1. AnyPath(x, E) = Some({x.truths[i] : i \in {i \in DOMAIN es :
                                   ~(IsText(es[i]) /\ es[i].v \in E)}} \cup more)
    BY <1>3, Zenon DEF AnyPath
  <2>2. {i \in DOMAIN es : ~(IsText(es[i]) /\ es[i].v \in E)} = {i \in 1..n : Free(es[i], E)}
    BY <1>2 DEF Free
  <2>3. AnyPath(x, E) = Some(T \cup more)
    BY <2>1, <2>2
  <2>4. T = S
    BY <1>2, <1>5
  <2>5. AnyPath(x, E) = Some(S \cup more)
    BY <2>3, <2>4
  <2>6. S \subseteq Truths
    BY <1>4
  <2>7. "True" \in S <=> \E e \in Range(es) : Free(e, E) /\ J(e) = "True"
    OBVIOUS
  <2>8. ("True" \notin S /\ "Unknown" \notin S)
           <=> \A e \in Range(es) : Free(e, E) => J(e) = "False"
    BY <1>4 DEF Truths
  <2> HIDE DEF S, T
  <2>9. AnyPath(x, E) = "True" <=> "True" \in S
    BY <2>5 DEF Some
  <2>10. AnyPath(x, E) = "False" <=> list.v.exhaustive /\ "True" \notin S /\ "Unknown" \notin S
    BY <1>1, <2>5 DEF Some
  <2> QED
    BY <2>7, <2>8, <2>9, <2>10
<1>7. ASSUME NEW p
      PROVE  AtPath(x, p) = "True" <=> \E e \in Range(es) : IsText(e) /\ e.v = p /\ J(e) = "True"
  <2> DEFINE here == {i \in 1..n : IsText(es[i]) /\ es[i].v = p}
             k == CHOOSE i \in here : \A j \in here : i <= j
  <2>1. AtPath(x, p) = IF here = {} THEN "False" ELSE x.truths[k]
    <3> DEFINE H == {i \in DOMAIN x.paths : IsText(x.paths[i]) /\ x.paths[i].v = p}
    <3>1. AtPath(x, p) = IF H = {} THEN "False"
                         ELSE x.truths[CHOOSE i \in H : \A j \in H : i <= j]
      BY Zenon DEF AtPath
    <3>2. H = here
      BY <1>2, <1>3
    <3> HIDE DEF H, here
    <3> QED
      BY <3>1, <3>2
  <2>2. here \in SUBSET Nat
    BY <1>2
  <2>3. here # {} => \E i \in here : \A j \in here : i <= j
    <3> HIDE DEF here
    <3> QED
      BY <2>2, NatMin
  <2>4. here # {} => k \in here
    <3> HIDE DEF here
    <3> QED
      BY <2>3
  <2>5. \A i, j \in here : es[i] = es[j]
    <3>1. \A i \in here : es[i] = [t |-> "string", v |-> p]
      <4>1. \A i \in here : IsWord(es[i]) /\ es[i].t = "string" /\ es[i].v = p
        BY <1>1, <1>2 DEF IsText
      <4> HIDE DEF here
      <4> QED
        BY <4>1 DEF IsWord
    <3> HIDE DEF here
    <3> QED
      BY <3>1
  <2> HIDE DEF k
  <2>6. ASSUME NEW e \in Range(es), IsText(e), e.v = p, J(e) = "True"
        PROVE  AtPath(x, p) = "True"
    <3>1. PICK i \in 1..n : e = es[i]
      BY <1>2
    <3>2. i \in here
      BY <2>6, <3>1
    <3>3. k \in here /\ es[k] = e /\ k \in 1..n
      BY <2>4, <2>5, <3>1, <3>2
    <3> QED
      BY <1>5, <2>1, <2>6, <3>2, <3>3
  <2>7. ASSUME AtPath(x, p) = "True"
        PROVE  \E e \in Range(es) : IsText(e) /\ e.v = p /\ J(e) = "True"
    <3>1. here # {} /\ x.truths[k] = "True"
      BY <2>1, <2>7
    <3>2. k \in 1..n /\ IsText(es[k]) /\ es[k].v = p
      BY <2>4, <3>1
    <3>3. J(es[k]) = "True" /\ es[k] \in Range(es)
      BY <1>2, <1>5, <3>1, <3>2
    <3> QED
      BY <3>2, <3>3
  <2> QED
    BY <2>6, <2>7
<1>8. (x.exhaustive /\ \A i \in DOMAIN x.truths : x.truths[i] = "True")
         <=> list.v.exhaustive /\ \A e \in Range(es) : J(e) = "True"
  <2>1. DOMAIN x.truths = 1..n
    BY <1>3
  <2>2. x.exhaustive = list.v.exhaustive
    BY <1>3
  <2>3. (\A i \in 1..n : x.truths[i] = "True") <=> \A e \in Range(es) : J(e) = "True"
    <3> HIDE DEF es, n
    <3> QED
      BY <1>2, <1>5
  <2> QED
    BY <2>1, <2>2, <2>3
<1> QED
  BY <1>3, <1>6, <1>7, <1>8, Zenon DEF KeyIs, x, J

\* The paths of a list, with what they may turn out to be.
Reveals(a, b) ==
    /\ \A e \in Range(a.v.elements) : IsUnknown(e) \/ e \in Range(b.v.elements)
    /\ a.v.exhaustive =>
          /\ b.v.exhaustive
          /\ \A e \in Range(b.v.elements) : \E d \in Range(a.v.elements) : Turns(d, e)

\* The words of a list turn into those of the other one.
LEMMA ListReveals ==
    ASSUME NEW a, NEW b, ListTurns(a, b)
    PROVE  Reveals(a, b)
<1> DEFINE n == Len(a.v.elements)
           m == Len(b.v.elements)
<1>1. /\ \A i \in 1..n : i \in 1..m /\ Turns(a.v.elements[i], b.v.elements[i])
      /\ a.v.exhaustive => b.v.exhaustive /\ n = m
      /\ IsSequence(a.v.elements) /\ IsSequence(b.v.elements)
  BY DEF ListTurns
<1>2. /\ Range(a.v.elements) = {a.v.elements[i] : i \in 1..n}
      /\ Range(b.v.elements) = {b.v.elements[i] : i \in 1..m}
  <2>1. /\ a.v.elements \in Seq(Range(a.v.elements))
        /\ b.v.elements \in Seq(Range(b.v.elements))
    BY <1>1 DEF IsSequence
  <2> QED
    BY <2>1, SequenceOf
<1> HIDE DEF n, m
<1>3. \A e \in Range(a.v.elements) : IsUnknown(e) \/ e \in Range(b.v.elements)
  BY <1>1, <1>2 DEF Turns
<1>4. ASSUME a.v.exhaustive, NEW e \in Range(b.v.elements)
      PROVE  \E d \in Range(a.v.elements) : Turns(d, e)
  <2>1. n = m
    BY <1>1, <1>4
  <2>2. PICK i \in 1..n : e = b.v.elements[i]
    BY <1>2, <2>1
  <2> QED
    BY <1>1, <1>2, <2>2
<1> QED
  BY <1>1, <1>3, <1>4 DEF Reveals

\* What the paths of a command that runs are, of those it was judged with.
LEMMA PathsReveal ==
    ASSUME NEW info, NEW real, Typed(info), Typed(real), Shows(info, real), NEW env, NEW to
    PROVE  LET f == FactsOf(info, env)
               g == FactsOf(real, to)
           IN  /\ IsPaths(f.paths) /\ IsPaths(g.paths) /\ IsPaths(f.writes) /\ IsPaths(g.writes)
               /\ Reveals(f.paths, g.paths) /\ Reveals(f.writes, g.writes)
<1> DEFINE f == FactsOf(info, env)
           g == FactsOf(real, to)
           n == Len(info.redirects)
           a(i) == info.redirects[i].target
           b(i) == real.redirects[i].target
           A == {a(i) : i \in {i \in 1..n : a(i).t # "null"}}
           B == {b(i) : i \in {i \in 1..n : b(i).t # "null"}}
           AW == {a(i) : i \in {i \in {i \in 1..n : a(i).t # "null"} : info.redirects[i].isWrite}}
           BW == {b(i) : i \in {i \in {i \in 1..n : b(i).t # "null"} : real.redirects[i].isWrite}}
           R == Range(info.reads.v.elements)
           S == Range(real.reads.v.elements)
           V == Range(info.writes.v.elements)
           W == Range(real.writes.v.elements)
<1>1. /\ Len(real.redirects) = n
      /\ \A i \in DOMAIN info.redirects :
            Resolves(a(i), b(i)) /\ info.redirects[i].isWrite = real.redirects[i].isWrite
      /\ Resolves(info.reads, real.reads) /\ Resolves(info.writes, real.writes)
  BY Zenon DEF Shows
<1>2. /\ IsListOfWords(info.reads) /\ IsListOfWords(info.writes)
      /\ IsListOfWords(real.reads) /\ IsListOfWords(real.writes)
      /\ IsSequence(info.redirects) /\ IsSequence(real.redirects)
      /\ \A r \in Range(info.redirects) : IsWord(r.target)
      /\ \A r \in Range(real.redirects) : IsWord(r.target)
  BY DEF Typed
<1>3. /\ info.redirects \in Seq(Range(info.redirects))
      /\ real.redirects \in Seq(Range(real.redirects))
  BY <1>2 DEF IsSequence
<1>4. /\ n \in Nat /\ DOMAIN info.redirects = 1..n
      /\ \A i \in 1..n : info.redirects[i] \in Range(info.redirects)
      /\ \A i \in 1..n : real.redirects[i] \in Range(real.redirects)
  BY <1>1, <1>3, LenProperties, ElementOfSeq
<1>5. /\ \A i \in 1..n : IsWord(a(i)) /\ IsWord(b(i)) /\ Turns(a(i), b(i))
      /\ \A i \in 1..n : info.redirects[i].isWrite = real.redirects[i].isWrite
  BY <1>1, <1>2, <1>4, WordTurns DEF IsWord
<1>6. /\ IsSequence(f.paths.v.elements) /\ IsSequence(f.writes.v.elements)
      /\ IsSequence(g.paths.v.elements) /\ IsSequence(g.writes.v.elements)
      /\ Range(f.paths.v.elements) = R \cup V \cup A /\ Range(f.writes.v.elements) = V \cup AW
      /\ Range(g.paths.v.elements) = S \cup W \cup B /\ Range(g.writes.v.elements) = W \cup BW
  <2>1. /\ IsSequence(f.paths.v.elements) /\ IsSequence(f.writes.v.elements)
        /\ Range(f.paths.v.elements) = R \cup V \cup A /\ Range(f.writes.v.elements) = V \cup AW
    BY FactsLists
  <2>2. /\ IsSequence(g.paths.v.elements) /\ IsSequence(g.writes.v.elements)
        /\ Range(g.paths.v.elements) = S \cup W \cup B /\ Range(g.writes.v.elements) = W \cup BW
    <3> DEFINE m == Len(real.redirects)
               C == {b(i) : i \in {i \in 1..m : b(i).t # "null"}}
               CW == {b(i) : i \in {i \in {i \in 1..m : b(i).t # "null"} : real.redirects[i].isWrite}}
    <3>1. /\ IsSequence(g.paths.v.elements) /\ IsSequence(g.writes.v.elements)
          /\ Range(g.paths.v.elements) = S \cup W \cup C /\ Range(g.writes.v.elements) = W \cup CW
      BY FactsLists
    <3>2. m = n
      BY <1>1
    <3> HIDE DEF m, n, g, b
    <3> QED
      BY <3>1, <3>2
  <2> QED
    BY <2>1, <2>2
<1>7. /\ f.paths.v.exhaustive = (info.reads.v.exhaustive /\ info.writes.v.exhaustive)
      /\ f.writes.v.exhaustive = info.writes.v.exhaustive
      /\ g.paths.v.exhaustive = (real.reads.v.exhaustive /\ real.writes.v.exhaustive)
      /\ g.writes.v.exhaustive = real.writes.v.exhaustive
  BY DEF FactsOf, ListOf
<1>8. Reveals(info.reads, real.reads) /\ Reveals(info.writes, real.writes)
  BY <1>1, <1>2, WordsTurn, ListReveals
<1>9. /\ \A e \in R \cup V \cup S \cup W : IsWord(e)
      /\ info.reads.v.exhaustive \in BOOLEAN /\ info.writes.v.exhaustive \in BOOLEAN
      /\ real.reads.v.exhaustive \in BOOLEAN /\ real.writes.v.exhaustive \in BOOLEAN
  BY <1>2 DEF IsListOfWords
<1> HIDE DEF f, g, n, a, b
<1>10. /\ \A e \in A : IsWord(e) /\ (IsUnknown(e) \/ e \in B)
       /\ \A e \in B : IsWord(e) /\ \E d \in A : Turns(d, e)
       /\ AW \subseteq A /\ BW \subseteq B
       /\ \A e \in AW : IsUnknown(e) \/ e \in BW
       /\ \A e \in BW : \E d \in AW : Turns(d, e)
  <2>1. \A i \in 1..n : b(i).t # "null" => a(i).t # "null"
    BY <1>5 DEF Turns, IsUnknown
  <2>2. \A i \in 1..n : a(i).t # "null" /\ ~IsUnknown(a(i)) => b(i).t # "null" /\ a(i) = b(i)
    BY <1>5 DEF Turns
  <2> QED
    BY <1>5, <2>1, <2>2
<1> HIDE DEF A, B, AW, BW, R, S, V, W
<1>11. IsPaths(f.paths) /\ IsPaths(g.paths) /\ IsPaths(f.writes) /\ IsPaths(g.writes)
  <2>1. /\ f.paths.v.exhaustive \in BOOLEAN /\ f.writes.v.exhaustive \in BOOLEAN
        /\ g.paths.v.exhaustive \in BOOLEAN /\ g.writes.v.exhaustive \in BOOLEAN
    BY <1>7, <1>9
  <2>2. /\ \A e \in Range(f.paths.v.elements) : IsWord(e)
        /\ \A e \in Range(g.paths.v.elements) : IsWord(e)
        /\ \A e \in Range(f.writes.v.elements) : IsWord(e)
        /\ \A e \in Range(g.writes.v.elements) : IsWord(e)
    BY <1>6, <1>9, <1>10
  <2> QED
    BY <1>6, <2>1, <2>2 DEF IsPaths
<1>12. /\ \A e \in R : IsUnknown(e) \/ e \in S
       /\ \A e \in V : IsUnknown(e) \/ e \in W
       /\ info.reads.v.exhaustive => real.reads.v.exhaustive /\ \A e \in S : \E d \in R : Turns(d, e)
       /\ info.writes.v.exhaustive => real.writes.v.exhaustive /\ \A e \in W : \E d \in V : Turns(d, e)
  BY <1>8 DEF Reveals, R, S, V, W
<1>13. Reveals(f.paths, g.paths)
  <2>1. \A e \in R \cup V \cup A : IsUnknown(e) \/ e \in S \cup W \cup B
    BY <1>10, <1>12
  <2>2. info.reads.v.exhaustive /\ info.writes.v.exhaustive =>
          /\ real.reads.v.exhaustive /\ real.writes.v.exhaustive
          /\ \A e \in S \cup W \cup B : \E d \in R \cup V \cup A : Turns(d, e)
    BY <1>10, <1>12
  <2> QED
    BY <1>6, <1>7, <2>1, <2>2, Zenon DEF Reveals
<1>14. Reveals(f.writes, g.writes)
  <2>1. \A e \in V \cup AW : IsUnknown(e) \/ e \in W \cup BW
    BY <1>10, <1>12
  <2>2. info.writes.v.exhaustive =>
          /\ real.writes.v.exhaustive
          /\ \A e \in W \cup BW : \E d \in V \cup AW : Turns(d, e)
    BY <1>10, <1>12
  <2> QED
    BY <1>6, <1>7, <2>1, <2>2, Zenon DEF Reveals
<1> QED
  BY <1>11, <1>13, <1>14 DEF f, g

\* What a path key says of the paths, and of what they may turn out to be.
SureEvery(x) == x.exhaustive /\ \A i \in DOMAIN x.truths : x.truths[i] = "True"
KeyTurns(x, y) ==
    /\ AnyPath(x, {}) = "True" => AnyPath(y, {}) = "True"
    /\ \A E, F : E \subseteq F /\ AnyPath(x, E) = "False" => AnyPath(y, F) = "False"
    /\ \A p : AtPath(x, p) = "True" => AtPath(y, p) = "True"
    /\ SureEvery(x) => SureEvery(y)

\* A path key that is sure stays sure, and what is False stays False.
LEMMA KeyTurning ==
    ASSUME NEW a, NEW b, IsPaths(a), IsPaths(b), Reveals(a, b),
           NEW key, key.op \in KeyOps, Given(key), NEW s, NEW r, SiteTurns(s, r)
    PROVE  KeyTurns(JudgedPaths(key, a, s), JudgedPaths(key, b, r))
<1> DEFINE x == JudgedPaths(key, a, s)
           y == JudgedPaths(key, b, r)
           A == Range(a.v.elements)
           B == Range(b.v.elements)
           J(e) == Judge(key, e, s)
           K(e) == Judge(key, e, r)
<1>1. KeyIs(x, a, key, s) /\ KeyIs(y, b, key, r)
  BY JudgedPathsAre
<1>2. key.op \in KeyOps \ {"none"}
  BY DEF Given
<1>3. \A e : J(e) = "Unknown" \/ J(e) = K(e)
  <2>1. \A e : MayBe(e, e)
    BY DEF MayBe, Turns
  <2> QED
    BY <1>2, <2>1, JudgeFirm DEF Firm
<1>4. \A e : IsUnknown(e) => J(e) = "Unknown"
  BY <1>2, JudgeUnknown
<1>5. /\ \A e \in A : IsUnknown(e) \/ e \in B
      /\ a.v.exhaustive => b.v.exhaustive /\ \A e \in B : \E d \in A : d = e \/ IsUnknown(d)
  BY DEF Reveals, Turns
<1>x. /\ \A E : AnyPath(x, E) = "True" <=> \E e \in A : Free(e, E) /\ J(e) = "True"
      /\ \A E : AnyPath(x, E) = "False"
                    <=> a.v.exhaustive /\ \A e \in A : Free(e, E) => J(e) = "False"
      /\ \A p : AtPath(x, p) = "True" <=> \E e \in A : IsText(e) /\ e.v = p /\ J(e) = "True"
      /\ SureEvery(x) <=> a.v.exhaustive /\ \A e \in A : J(e) = "True"
  BY <1>1, Zenon DEF KeyIs, SureEvery
<1>y. /\ \A E : AnyPath(y, E) = "True" <=> \E e \in B : Free(e, E) /\ K(e) = "True"
      /\ \A E : AnyPath(y, E) = "False"
                    <=> b.v.exhaustive /\ \A e \in B : Free(e, E) => K(e) = "False"
      /\ \A p : AtPath(y, p) = "True" <=> \E e \in B : IsText(e) /\ e.v = p /\ K(e) = "True"
      /\ SureEvery(y) <=> b.v.exhaustive /\ \A e \in B : K(e) = "True"
  BY <1>1, Zenon DEF KeyIs, SureEvery
<1> HIDE DEF x, y, A, B, J, K
<1>6. \A e \in A : J(e) = "True" => e \in B /\ K(e) = "True"
  BY <1>3, <1>4, <1>5
<1>7. AnyPath(x, {}) = "True" => AnyPath(y, {}) = "True"
  BY <1>6, <1>x, <1>y
<1>8. ASSUME NEW E, NEW F, E \subseteq F, AnyPath(x, E) = "False"
      PROVE  AnyPath(y, F) = "False"
  <2>1. a.v.exhaustive /\ \A e \in A : Free(e, E) => J(e) = "False"
    BY <1>8, <1>x
  <2>2. ASSUME NEW e \in B, Free(e, F)
        PROVE  K(e) = "False"
    <3>1. PICK d \in A : d = e \/ IsUnknown(d)
      BY <1>5, <2>1
    <3>2. Free(e, E)
      BY <1>8, <2>2 DEF Free
    <3>3. ~IsUnknown(d)
      <4>1. IsUnknown(d) => Free(d, E)
        BY DEF Free, IsUnknown, IsText
      <4> QED
        BY <1>4, <2>1, <3>1, <4>1
    <3> QED
      BY <1>3, <2>1, <3>1, <3>2, <3>3
  <2> QED
    BY <1>5, <1>y, <2>1, <2>2
<1>9. \A p : AtPath(x, p) = "True" => AtPath(y, p) = "True"
  BY <1>6, <1>x, <1>y
<1>10. SureEvery(x) => SureEvery(y)
  BY <1>4, <1>5, <1>6, <1>x, <1>y
<1>11. KeyTurns(x, y)
  BY <1>7, <1>8, <1>9, <1>10 DEF KeyTurns
<1> QED
  BY <1>11 DEF x, y

\* What a rule says of a command, and of what it may turn out to be: what is
\* sure stays sure, and what is False stays False but for an allow.
MeetTurns(rule, m, k) ==
    /\ TruthOf(m, {}) = "True" => TruthOf(k, {}) = "True"
    /\ rule.action # "Allow" =>
          \A E, F : E \subseteq F /\ TruthOf(m, E) = "False" => TruthOf(k, F) = "False"
    /\ \A p : SureOn(m, p) => SureOn(k, p)
    /\ SureOnEvery(m) => SureOnEvery(k)

\* The keys of two meetings, two by two.
KeysTurn(m, k) ==
    /\ \A y \in JudgedKeys(k) : \E x \in JudgedKeys(m) : KeyTurns(x, y)
    /\ \A x \in JudgedKeys(m) : \E y \in JudgedKeys(k) : KeyTurns(x, y)

\* Both path keys of a rule do.
LEMMA KeysTurning ==
    ASSUME NEW rule, IsRule(rule), NEW f, NEW g, NEW env, NEW to,
           IsPaths(f.paths), IsPaths(g.paths), IsPaths(f.writes), IsPaths(g.writes),
           Reveals(f.paths, g.paths), Reveals(f.writes, g.writes),
           SiteTurns(Site(f, env), Site(g, to))
    PROVE  KeysTurn(Meet(rule, f, env), Meet(rule, g, to))
<1> DEFINE m == Meet(rule, f, env)
           k == Meet(rule, g, to)
           s == Site(f, env)
           r == Site(g, to)
<1>1. /\ m.path = JudgedPaths(rule.path, f.paths, s) /\ m.write = JudgedPaths(rule.write, f.writes, s)
      /\ k.path = JudgedPaths(rule.path, g.paths, r) /\ k.write = JudgedPaths(rule.write, g.writes, r)
  BY MeetKeys
<1> HIDE DEF m, k, s, r
<1>2. \A key, list, site : JudgedPaths(key, list, site).given = Given(key)
  BY DEF JudgedPaths
<1>3. /\ m.path.given = Given(rule.path) /\ k.path.given = Given(rule.path)
      /\ m.write.given = Given(rule.write) /\ k.write.given = Given(rule.write)
  BY <1>1, <1>2
<1>4. rule.path.op \in KeyOps /\ rule.write.op \in KeyOps
  BY DEF IsRule
<1>5. Given(rule.path) => KeyTurns(m.path, k.path)
  BY <1>1, <1>4, KeyTurning DEF s, r
<1>6. Given(rule.write) => KeyTurns(m.write, k.write)
  BY <1>1, <1>4, KeyTurning DEF s, r
<1>7. KeysTurn(m, k)
  BY <1>3, <1>5, <1>6, Zenon DEF KeysTurn, JudgedKeys
<1> QED
  BY <1>7 DEF m, k

\* So does the whole meeting, the exempted paths growing or not.
LEMMA MeetTurning ==
    ASSUME NEW rule, NEW m, NEW k, KeysTurn(m, k),
           m.command \in Truths, k.command \in Truths,
           m.command = "True" => k.command = "True",
           rule.action # "Allow" => Firm(m.command, k.command)
    PROVE  MeetTurns(rule, m, k)
<1> DEFINE M(E) == {AnyPath(x, E) : x \in JudgedKeys(m)} \cup {m.command}
           K(E) == {AnyPath(x, E) : x \in JudgedKeys(k)} \cup {k.command}
<1>1. \A E : TruthOf(m, E) = Every(M(E)) /\ TruthOf(k, E) = Every(K(E))
  BY DEF TruthOf
<1>2. \A x, E : AnyPath(x, E) \in Truths
  BY TruthTypes DEF AnyPath
<1>3. \A E : M(E) \subseteq Truths /\ K(E) \subseteq Truths
  BY <1>2
<1>4. ASSUME TruthOf(m, {}) = "True"
      PROVE  TruthOf(k, {}) = "True"
  <2>1. \A t \in M({}) : t = "True"
    <3> HIDE DEF M
    <3> QED
      BY <1>1, <1>3, <1>4, EveryTrue
  <2>2. \A x \in JudgedKeys(m) : AnyPath(x, {}) = "True"
    BY <2>1
  <2>3. \A y \in JudgedKeys(k) : AnyPath(y, {}) = "True"
    BY <2>2 DEF KeysTurn, KeyTurns
  <2>4. k.command = "True"
    BY <2>1
  <2>5. \A t \in K({}) : t = "True"
    BY <2>3, <2>4
  <2> HIDE DEF K
  <2> QED
    BY <1>1, <1>3, <2>5, EveryTrue
<1>5. ASSUME rule.action # "Allow", NEW E, NEW F, E \subseteq F, TruthOf(m, E) = "False"
      PROVE  TruthOf(k, F) = "False"
  <2>1. "False" \in M(E)
    <3> HIDE DEF M
    <3> QED
      BY <1>1, <1>5 DEF Every
  <2>2. "False" \in K(F)
    <3>1. CASE m.command = "False"
      <4>1. k.command = "False"
        BY <1>5, <3>1 DEF Firm
      <4> QED
        BY <4>1
    <3>2. CASE \E x \in JudgedKeys(m) : AnyPath(x, E) = "False"
      <4>1. PICK x \in JudgedKeys(m) : AnyPath(x, E) = "False"
        BY <3>2
      <4>2. PICK y \in JudgedKeys(k) : KeyTurns(x, y)
        BY DEF KeysTurn
      <4>3. AnyPath(y, F) = "False"
        BY <1>5, <4>1, <4>2, Zenon DEF KeyTurns
      <4> QED
        BY <4>3
    <3> QED
      BY <2>1, <3>1, <3>2
  <2> HIDE DEF K
  <2> QED
    BY <1>1, <2>2 DEF Every
<1>6. ASSUME NEW p, SureOn(m, p)
      PROVE  SureOn(k, p)
  <2>1. m.command = "True" /\ \A x \in JudgedKeys(m) : AtPath(x, p) = "True"
    BY <1>6 DEF SureOn
  <2>2. \A y \in JudgedKeys(k) : AtPath(y, p) = "True"
    BY <2>1, Zenon DEF KeysTurn, KeyTurns
  <2> QED
    BY <2>1, <2>2 DEF SureOn
<1>7. ASSUME SureOnEvery(m)
      PROVE  SureOnEvery(k)
  <2>1. m.command = "True" /\ \A x \in JudgedKeys(m) : SureEvery(x)
    BY <1>7, Zenon DEF SureOnEvery, SureEvery
  <2>2. \A y \in JudgedKeys(k) : SureEvery(y)
    BY <2>1, Zenon DEF KeysTurn, KeyTurns
  <2> QED
    BY <2>1, <2>2, Zenon DEF SureOnEvery, SureEvery
<1> QED
  BY <1>4, <1>5, <1>6, <1>7, Zenon DEF MeetTurns

\* What one rule exempts another one of stays exempted.
LEMMA ExemptsTurn ==
    ASSUME NEW rs, NEW ms, NEW ns, NEW f, NEW g, NEW ex, NEW en, NEW i,
           ex[i] = NotExempted, en[i] = NotExempted,
           MeetTurns(rs[i], ms[i], ns[i]), KnownPaths(f) \subseteq KnownPaths(g), NEW j
    PROVE  /\ ExemptsWhole(rs, ms, ex, i, j) => ExemptsWhole(rs, ns, en, i, j)
           /\ \A q : ExemptsOn(rs, ms, f, ex, i, j, q) => ExemptsOn(rs, ns, g, en, i, j, q)
<1>1. /\ NotExempted.whole = FALSE /\ NotExempted.paths = {}
  BY DEF NotExempted
<1>2. Exempts(ms[i], ex[i]) => Exempts(ns[i], en[i])
  BY <1>1 DEF Exempts, MeetTurns
<1>3. SureOnEvery(ms[i]) => SureOnEvery(ns[i])
  BY DEF MeetTurns
<1>4. \A q : q \in SurePaths(ms[i], ex[i], f) => q \in SurePaths(ns[i], en[i], g)
  BY <1>1 DEF SurePaths, MeetTurns
<1>5. ExemptsWhole(rs, ms, ex, i, j) => ExemptsWhole(rs, ns, en, i, j)
  BY <1>1, <1>2, <1>3 DEF ExemptsWhole
<1>6. \A q : ExemptsOn(rs, ms, f, ex, i, j, q) => ExemptsOn(rs, ns, g, en, i, j, q)
  BY <1>2, <1>4 DEF ExemptsOn
<1> QED
  BY <1>5, <1>6

\* What the allows and the asks exempt rule j of, when none is exempted itself.
WholeOf(rs, ms, j) ==
    \E i \in 1..Len(rs) : /\ rs[i].action \in {"Allow", "Ask"}
                          /\ ExemptsWhole(rs, ms, Unexempted(rs), i, j)
OnOf(rs, ms, facts, j, q) ==
    \E i \in 1..Len(rs) : /\ rs[i].action \in {"Allow", "Ask"}
                          /\ ExemptsOn(rs, ms, facts, Unexempted(rs), i, j, q)

\* With no chain of exemptions these are all.
LEMMA ExemptionsAdd ==
    ASSUME NEW R, NEW rs \in Seq(R), Compiles(rs), Unchained(rs), NEW ms, NEW facts,
           NEW j \in 1..Len(rs)
    PROVE  LET ex == Exemptions(rs, ms, facts)
           IN  /\ ex[j].whole <=> WholeOf(rs, ms, j)
               /\ \A q : q \in ex[j].paths <=> OnOf(rs, ms, facts, j, q)
<1> DEFINE N == Len(rs)
           s == Unexempted(rs)
           t == Pass(rs, ms, facts, s, {"Allow"})
           x == Pass(rs, ms, facts, t, {"Ask"})
           ex == Exemptions(rs, ms, facts)
<1>0. DOMAIN rs = 1..N
  BY RulePlaces
<1>1. s \in Exempted(N, facts) /\ \A i \in 1..N : s[i] = NotExempted
  BY UnexemptedType
<1>2. ex = x
  BY ExemptionsAre
<1>3. Apart(rs, {"Allow"}) /\ Apart(rs, {"Ask"})
  BY CompilesApart
<1> HIDE DEF s, ex
<1>4. t \in Exempted(N, facts)
  BY <1>1, PassType
<1>5. Adds(rs, ms, facts, {"Allow"}, s, t, N)
  BY <1>1, <1>3, PassAdds
<1> HIDE DEF t
<1>6. Adds(rs, ms, facts, {"Ask"}, t, x, N)
  BY <1>3, <1>4, PassAdds
<1> HIDE DEF x
<1>7. ASSUME NEW i \in 1..N, rs[i].exempts # {}
      PROVE  t[i] = s[i]
  <2>1. \A k \in 1..N : rs[i].id \notin rs[k].exempts
    BY <1>0, <1>7 DEF Unchained
  <2>2. \A k \in 1..N : /\ ~ExemptsWhole(rs, ms, s, k, i)
                        /\ \A q : ~ExemptsOn(rs, ms, facts, s, k, i, q)
    BY <2>1, Zenon DEF ExemptsWhole, ExemptsOn
  <2>3. (t[i].whole <=> s[i].whole) /\ \A q : q \in t[i].paths <=> q \in s[i].paths
    BY <1>5, <2>2, Zenon DEF Adds
  <2>4. /\ t[i].whole \in BOOLEAN /\ t[i] = [whole |-> t[i].whole, paths |-> t[i].paths]
        /\ t[i].paths \in SUBSET KnownPaths(facts)
    BY <1>4, ExemptionType
  <2>5. /\ s[i].whole \in BOOLEAN /\ s[i] = [whole |-> s[i].whole, paths |-> s[i].paths]
        /\ s[i].paths \in SUBSET KnownPaths(facts)
    BY <1>1, ExemptionType
  <2>6. t[i].whole = s[i].whole /\ t[i].paths = s[i].paths
    BY <2>3, <2>4, <2>5
  <2> QED
    BY <2>4, <2>5, <2>6
<1>8. ASSUME NEW i \in 1..N
      PROVE  /\ ExemptsWhole(rs, ms, t, i, j) <=> ExemptsWhole(rs, ms, s, i, j)
             /\ \A q : ExemptsOn(rs, ms, facts, t, i, j, q) <=> ExemptsOn(rs, ms, facts, s, i, j, q)
  <2>1. CASE rs[i].exempts = {}
    BY <2>1 DEF ExemptsWhole, ExemptsOn
  <2>2. CASE rs[i].exempts # {}
    <3>1. t[i] = s[i]
      BY <1>7, <2>2
    <3> QED
      BY <3>1 DEF ExemptsWhole, ExemptsOn
  <2> QED
    BY <2>1, <2>2
<1>9. ~s[j].whole /\ \A q : q \notin s[j].paths
  BY <1>1 DEF NotExempted
<1>10. /\ t[j].whole <=> \E i \in 1..N : rs[i].action = "Allow" /\ ExemptsWhole(rs, ms, s, i, j)
       /\ \A q : q \in t[j].paths
                   <=> \E i \in 1..N : rs[i].action = "Allow" /\ ExemptsOn(rs, ms, facts, s, i, j, q)
  <2>1. \A a : a \in {"Allow"} <=> a = "Allow"
    OBVIOUS
  <2> QED
    BY <1>5, <1>9, <2>1, Zenon DEF Adds
<1>11. /\ x[j].whole <=> \/ t[j].whole
             \/ \E i \in 1..N : rs[i].action = "Ask" /\ ExemptsWhole(rs, ms, s, i, j)
       /\ \A q : q \in x[j].paths <=> \/ q \in t[j].paths
             \/ \E i \in 1..N : rs[i].action = "Ask" /\ ExemptsOn(rs, ms, facts, s, i, j, q)
  <2>1. \A a : a \in {"Ask"} <=> a = "Ask"
    OBVIOUS
  <2>2. /\ x[j].whole <=> \/ t[j].whole
             \/ \E i \in 1..N : rs[i].action = "Ask" /\ ExemptsWhole(rs, ms, t, i, j)
        /\ \A q : q \in x[j].paths <=> \/ q \in t[j].paths
             \/ \E i \in 1..N : rs[i].action = "Ask" /\ ExemptsOn(rs, ms, facts, t, i, j, q)
    BY <1>6, <2>1, Zenon DEF Adds
  <2> QED
    BY <1>8, <2>2, Zenon
<1>12. \A a : a \in {"Allow", "Ask"} <=> a = "Allow" \/ a = "Ask"
  OBVIOUS
<1>13. x[j].whole <=> WholeOf(rs, ms, j)
  BY <1>10, <1>11, <1>12, Zenon DEF WholeOf, s
<1>14. \A q : q \in x[j].paths <=> OnOf(rs, ms, facts, j, q)
  BY <1>10, <1>11, <1>12, Zenon DEF OnOf, s
<1> QED
  BY <1>2, <1>13, <1>14 DEF ex

\* An allow is never exempted: exempting takes a rule less strict.
LEMMA AllowsStand ==
    ASSUME NEW R, NEW rs \in Seq(R), Compiles(rs), Unchained(rs), NEW ms, NEW facts,
           NEW j \in 1..Len(rs), rs[j].action = "Allow"
    PROVE  ~Exemptions(rs, ms, facts)[j].whole /\ Exemptions(rs, ms, facts)[j].paths = {}
<1>1. DOMAIN rs = 1..Len(rs)
  BY RulePlaces
<1>2. \A i \in 1..Len(rs) : rs[j].id \notin rs[i].exempts
  <2>1. ASSUME NEW i \in 1..Len(rs), rs[j].id \in rs[i].exempts
        PROVE  FALSE
    <3>1. Exemptible(rs, i, rs[j].id)
      BY <1>1, <2>1, Zenon DEF Compiles
    <3>2. PICK k \in 1..Len(rs) : rs[k].id = rs[j].id /\ Severity(rs[k].action) > Severity(rs[i].action)
      BY <1>1, <3>1, Zenon DEF Exemptible
    <3>3. k = j
      BY <1>1, <3>2, Zenon DEF Compiles
    <3>4. Severity("Allow") = 0 /\ Severity(rs[i].action) \in 0..3
      BY SeverityType DEF Severity
    <3> QED
      BY <3>2, <3>3, <3>4
  <2> QED
    BY <2>1
<1>3. ~WholeOf(rs, ms, j) /\ \A q : ~OnOf(rs, ms, facts, j, q)
  BY <1>2, Zenon DEF WholeOf, OnOf, ExemptsWhole, ExemptsOn
<1> DEFINE ex == Exemptions(rs, ms, facts)
<1>4. (ex[j].whole <=> WholeOf(rs, ms, j)) /\ \A q : q \in ex[j].paths <=> OnOf(rs, ms, facts, j, q)
  BY ExemptionsAdd
<1>5. ex \in Exempted(Len(rs), facts)
  <2> DEFINE s == Unexempted(rs)
             t == Pass(rs, ms, facts, s, {"Allow"})
  <2>1. s \in Exempted(Len(rs), facts)
    BY UnexemptedType
  <2> HIDE DEF s
  <2>2. t \in Exempted(Len(rs), facts)
    BY <2>1, PassType
  <2>3. ex = Pass(rs, ms, facts, t, {"Ask"})
    BY ExemptionsAre DEF s
  <2> HIDE DEF t, ex
  <2> QED
    BY <2>2, <2>3, PassType
<1> HIDE DEF ex
<1>6. ex[j].paths \in SUBSET KnownPaths(facts)
  BY <1>5, ExemptionType
<1>7. ex[j].paths = {}
  BY <1>3, <1>4, <1>6
<1> QED
  BY <1>3, <1>4, <1>7 DEF ex

\* More gets exempted as more gets known.
LEMMA ExemptionsTurn ==
    ASSUME NEW R, NEW rs \in Seq(R), Compiles(rs), Unchained(rs), NEW ms, NEW ns, NEW f, NEW g,
           \A i \in 1..Len(rs) : MeetTurns(rs[i], ms[i], ns[i]),
           KnownPaths(f) \subseteq KnownPaths(g), NEW j \in 1..Len(rs)
    PROVE  /\ Exemptions(rs, ms, f)[j].whole => Exemptions(rs, ns, g)[j].whole
           /\ \A q : q \in Exemptions(rs, ms, f)[j].paths => q \in Exemptions(rs, ns, g)[j].paths
<1> DEFINE s == Unexempted(rs)
           ex == Exemptions(rs, ms, f)
           en == Exemptions(rs, ns, g)
<1>1. \A i \in 1..Len(rs) : s[i] = NotExempted
  BY UnexemptedType
<1> HIDE DEF s
<1>2. \A i \in 1..Len(rs) :
         /\ ExemptsWhole(rs, ms, s, i, j) => ExemptsWhole(rs, ns, s, i, j)
         /\ \A q : ExemptsOn(rs, ms, f, s, i, j, q) => ExemptsOn(rs, ns, g, s, i, j, q)
  BY <1>1, ExemptsTurn
<1>3. /\ WholeOf(rs, ms, j) => WholeOf(rs, ns, j)
      /\ \A q : OnOf(rs, ms, f, j, q) => OnOf(rs, ns, g, j, q)
  BY <1>2, Zenon DEF WholeOf, OnOf, s
<1>4. (ex[j].whole <=> WholeOf(rs, ms, j)) /\ \A q : q \in ex[j].paths <=> OnOf(rs, ms, f, j, q)
  BY ExemptionsAdd
<1>5. (en[j].whole <=> WholeOf(rs, ns, j)) /\ \A q : q \in en[j].paths <=> OnOf(rs, ns, g, j, q)
  BY ExemptionsAdd
<1> QED
  BY <1>3, <1>4, <1>5

-----------------------------------------------------------------------------
\* The command judged and the command that runs

\* Every rule meets the command that runs as it met the command judged, with
\* what was not known then.
LEMMA MeetingsTurn ==
    ASSUME NEW R, NEW rs \in Seq(R), Compiles(rs), \A i \in DOMAIN rs : IsRule(rs[i]),
           NEW info, NEW real, Typed(info), Typed(real), Shows(info, real), ~IsUnknown(info.name),
           NEW env, NEW to, env.thisHost = to.thisHost, env.temp = to.temp, env.via = to.via,
           Placed(info, env, to)
    PROVE  LET f == FactsOf(info, env)
               g == FactsOf(real, to)
           IN  /\ \A i \in 1..Len(rs) :
                     MeetTurns(rs[i], Meetings(rs, f, env)[i], Meetings(rs, g, to)[i])
               /\ KnownPaths(f) \subseteq KnownPaths(g)
<1> DEFINE f == FactsOf(info, env)
           g == FactsOf(real, to)
<1>1. FactsTurn(f, g) /\ SiteTurns(Site(f, env), Site(g, to))
  BY FactsTurns
<1>2. /\ IsPaths(f.paths) /\ IsPaths(g.paths) /\ IsPaths(f.writes) /\ IsPaths(g.writes)
      /\ Reveals(f.paths, g.paths) /\ Reveals(f.writes, g.writes)
  BY PathsReveal
<1> HIDE DEF f, g
<1>3. ASSUME NEW i \in 1..Len(rs)
      PROVE  MeetTurns(rs[i], Meetings(rs, f, env)[i], Meetings(rs, g, to)[i])
  <2> DEFINE rule == rs[i]
             m == Meet(rule, f, env)
             k == Meet(rule, g, to)
  <2>1. i \in DOMAIN rs
    BY <1>3, RulePlaces
  <2>2. IsRule(rule)
    BY <2>1
  <2>3. Given(rule.when) => (rule.when.var \in {"args", "subcommand"} => rule.command # {})
    BY <2>1, Zenon DEF Compiles
  <2>4. Meetings(rs, f, env)[i] = m /\ Meetings(rs, g, to)[i] = k
    BY <1>3, MeetingsAre
  <2> HIDE DEF rule
  <2>5. /\ m.command = "True" => k.command = "True"
        /\ rule.action # "Allow" => Firm(m.command, k.command)
        /\ m.command \in Truths /\ k.command \in Truths
    BY <1>1, <2>2, <2>3, CommandTurns
  <2>6. KeysTurn(m, k)
    BY <1>1, <1>2, <2>2, KeysTurning
  <2> HIDE DEF m, k
  <2>7. MeetTurns(rule, m, k)
    BY <2>5, <2>6, MeetTurning
  <2> QED
    BY <2>4, <2>7 DEF rule
<1>4. KnownPaths(f) \subseteq KnownPaths(g)
  <2>1. \A e \in Range(f.paths.v.elements) : IsText(e) => e \in Range(g.paths.v.elements)
    BY <1>2 DEF Reveals, IsText, IsUnknown
  <2> QED
    BY <2>1 DEF KnownPaths
<1> QED
  BY <1>3, <1>4 DEF f, g

\* The command that runs is decided no more strictly than the one judged.
LEMMA DecideTurns ==
    ASSUME NEW R, NEW rs \in Seq(R), Compiles(rs), Unchained(rs),
           \A i \in DOMAIN rs : IsRule(rs[i]), NEW default \in {"Allow", "Ask"},
           NEW info, NEW real, Typed(info), Typed(real), Shows(info, real), ~IsUnknown(info.name),
           NEW env, NEW to, env.thisHost = to.thisHost, env.temp = to.temp,
           env.via = "tmux", to.via = "tmux", Placed(info, env, to)
    PROVE  Severity(Decide(rs, real, to, default)) <= Severity(Decide(rs, info, env, default))
<1> DEFINE f == FactsOf(info, env)
           g == FactsOf(real, to)
           ms == Meetings(rs, f, env)
           ns == Meetings(rs, g, to)
           ex == Exemptions(rs, ms, f)
           en == Exemptions(rs, ns, g)
           M == Matched(rs, info, env)
           K == Matched(rs, real, to)
           N == Len(rs)
<1>1. /\ \A i \in 1..N : MeetTurns(rs[i], ms[i], ns[i])
      /\ KnownPaths(f) \subseteq KnownPaths(g)
  BY MeetingsTurn
<1>2. M = Counted(rs, ms, ex) /\ K = Counted(rs, ns, en)
  BY MatchedIs
<1>3. /\ M # {} => Decide(rs, info, env, default) = Strictest(M)
      /\ M = {} => Decide(rs, info, env, default) = default
      /\ K # {} => Decide(rs, real, to, default) = Strictest(K)
      /\ K = {} => Decide(rs, real, to, default) = default
  BY DecideIs
<1>4. DOMAIN rs = 1..N
  BY RulePlaces
<1> HIDE DEF f, g, ms, ns, M, K
<1>5. ASSUME NEW j \in 1..N
      PROVE  /\ ex[j].whole => en[j].whole
             /\ \A q : q \in ex[j].paths => q \in en[j].paths
  BY <1>1, ExemptionsTurn
<1>6. ASSUME NEW j \in 1..N, rs[j].action = "Allow"
      PROVE  ~ex[j].whole /\ ex[j].paths = {} /\ ~en[j].whole /\ en[j].paths = {}
  BY <1>6, AllowsStand
<1> HIDE DEF ex, en
<1>7. \A m, E : TruthOf(m, E) \in Truths
  BY TruthTypes DEF TruthOf
<1>8. \A i \in 1..N : rs[i].action \in {"Allow", "Ask", "Deny"}
  BY <1>4, Zenon DEF Compiles
<1>9. \A d : /\ d \in M <=> \E i \in 1..N : /\ rs[i].action = d /\ ~ex[i].whole
                                            /\ Counts(rs[i], TruthOf(ms[i], ex[i].paths))
             /\ d \in K <=> \E i \in 1..N : /\ rs[i].action = d /\ ~en[i].whole
                                            /\ Counts(rs[i], TruthOf(ns[i], en[i].paths))
  BY <1>2, <1>4 DEF Counted
<1>10. \A d \in K : d # "Allow" => d \in M
  <2>1. ASSUME NEW j \in 1..N, rs[j].action # "Allow", ~en[j].whole,
               Counts(rs[j], TruthOf(ns[j], en[j].paths))
        PROVE  ~ex[j].whole /\ Counts(rs[j], TruthOf(ms[j], ex[j].paths))
    <3>1. ~ex[j].whole /\ ex[j].paths \subseteq en[j].paths
      BY <1>5, <2>1
    <3>2. TruthOf(ns[j], en[j].paths) # "False"
      BY <2>1 DEF Counts
    <3>3. TruthOf(ms[j], ex[j].paths) # "False"
      BY <1>1, <2>1, <3>1, <3>2, Zenon DEF MeetTurns
    <3>4. TruthOf(ms[j], ex[j].paths) \in {"True", "Unknown"}
      BY <1>7, <3>3 DEF Truths
    <3> QED
      BY <2>1, <3>1, <3>4 DEF Counts
  <2> QED
    BY <1>9, <2>1
<1>11. "Allow" \in M => "Allow" \in K
  <2>1. ASSUME NEW j \in 1..N, rs[j].action = "Allow", Counts(rs[j], TruthOf(ms[j], ex[j].paths))
        PROVE  ~en[j].whole /\ Counts(rs[j], TruthOf(ns[j], en[j].paths))
    <3>1. ex[j].paths = {} /\ ~en[j].whole /\ en[j].paths = {}
      BY <1>6, <2>1
    <3>2. TruthOf(ms[j], {}) = "True"
      BY <2>1, <3>1 DEF Counts
    <3>3. TruthOf(ns[j], {}) = "True"
      BY <1>1, <3>2, Zenon DEF MeetTurns
    <3> QED
      BY <3>1, <3>3 DEF Counts
  <2> QED
    BY <1>9, <2>1
<1>12. /\ \A d : Severity(d) \in 0..3
       /\ Severity("Allow") = 0 /\ Severity("Ask") = 2 /\ Severity("Deny") = 3
  BY SeverityType DEF Severity
<1>13. /\ M # {} => Strictest(M) \in M /\ \A d \in M : Severity(d) <= Severity(Strictest(M))
       /\ K # {} => Strictest(K) \in K
  BY StrictestIs
<1>14. \A d \in M : d \in {"Allow", "Ask", "Deny"}
  BY <1>8, <1>9
<1>15. CASE K = {}
  <2>1. CASE M = {}
    BY <1>3, <1>12, <1>15, <2>1
  <2>2. CASE M # {}
    <3>1. Strictest(M) \in {"Ask", "Deny"}
      BY <1>11, <1>13, <1>14, <1>15, <2>2
    <3>2. Severity(default) <= Severity(Strictest(M))
      BY <1>12, <3>1
    <3> QED
      BY <1>3, <1>15, <2>2, <3>2
  <2> QED
    BY <2>1, <2>2
<1>16. CASE K # {}
  <2>1. CASE Strictest(K) = "Allow"
    BY <1>3, <1>12, <1>16, <2>1
  <2>2. CASE Strictest(K) # "Allow"
    <3>1. Strictest(K) \in M
      BY <1>10, <1>13, <1>16, <2>2
    <3> QED
      BY <1>3, <1>13, <1>16, <3>1
  <2> QED
    BY <2>1, <2>2
<1> QED
  BY <1>15, <1>16

\* What the projects of two evaluations share.
LEMMA EnvIs ==
    \A b : Env(b).thisHost = ThisHost /\ Env(b).temp = <<"/", "var", "tmp">> /\ Env(b).via = "tmux"
BY DEF Env

\* rule_match fails closed: a command that runs is decided no more strictly than
\* the line that showed it was.  What was known of it stays so, and each test
\* keeps the answer it gave of what was known; an unknown lets an ask and a deny
\* count and an allow not, and an exemption only of what is sure.
THEOREM JudgedAsRunHolds ==
    ASSUME TypeOK
    PROVE  JudgedAsRun
<1> DEFINE now == Env(shell.host = ThisHost)
           D == {Decide(rules, last.commands[k], last.env, Default) : k \in DOMAIN last.commands}
<1>1. /\ rules \in Seq(Range(rules)) /\ \A i \in DOMAIN rules : IsRule(rules[i])
      /\ \A cmd \in Judged \cup last.ran : Typed(cmd)
      /\ \E b : last.env = Env(b)
      /\ last.decision = "none" \/ last.decision = Evaluate(last.commands, last.env)
  BY DEF TypeOK, IsSequence
<1>2. /\ last.env.thisHost = now.thisHost /\ last.env.temp = now.temp
      /\ last.env.via = "tmux" /\ now.via = "tmux"
  BY <1>1, EnvIs
<1>3. /\ \A d : Severity(d) \in 0..3
      /\ Severity("none") = 3 /\ Severity("Deny") = 3
  BY SeverityType DEF Severity
<1> HIDE DEF now
<1>4. ASSUME Unchained(rules), Default # "Deny", NEW real \in last.ran, NEW info \in Judged,
             Shows(info, real), Placed(info, last.env, now)
      PROVE  Severity(Decide(rules, real, now, Default)) <= Severity(last.decision)
  <2>1. PICK i \in DOMAIN last.commands : info = last.commands[i]
    BY DEF Judged
  <2>2. Default \in {"Allow", "Ask"}
    BY <1>4, DefaultAssumption
  <2>3. CASE last.decision \in {"none", "Deny"}
    BY <1>3, <2>3
  <2>4. CASE last.decision \notin {"none", "Deny"}
    <3>1. last.decision = LineDecision(last.commands, last.env) /\ Compiles(rules)
      /\ ~Dispatches(last.commands)
      BY <1>1, <2>4, Zenon DEF Evaluate
    <3>2. last.commands # <<>>
      BY <2>1
    <3>3. last.decision = Strictest(D)
      BY <3>1, <3>2 DEF LineDecision
    <3>4. ~IsUnknown(info.name)
      BY <2>1, <3>1 DEF Dispatches
    <3>5. Decide(rules, info, last.env, Default) \in D
      BY <2>1
    <3>6. Typed(info) /\ Typed(real)
      BY <1>1
    <3> HIDE DEF D
    <3>7. Severity(Decide(rules, real, now, Default)) <= Severity(Decide(rules, info, last.env, Default))
      BY <1>1, <1>2, <1>4, <2>2, <3>1, <3>4, <3>6, DecideTurns
    <3>8. Severity(Decide(rules, info, last.env, Default)) <= Severity(Strictest(D))
      BY <3>5, StrictestIs
    <3> QED
      BY <1>3, <3>3, <3>7, <3>8
  <2> QED
    BY <2>3, <2>4
<1> QED
  BY <1>4, Zenon DEF JudgedAsRun, now
=============================================================================
