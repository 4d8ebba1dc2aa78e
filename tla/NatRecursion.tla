---------------------------- MODULE NatRecursion -----------------------------
(***************************************************************************)
(* Induction and recursion on the natural numbers up to a bound, in first- *)
(* order form: over a set, not over a predicate, so that the provers can   *)
(* apply it.  Both come from the library's theorem that the finite subsets *)
(* of a set are well-founded under inclusion: n stands for 1..n.           *)
(***************************************************************************)
EXTENDS FiniteSetTheorems, WellFoundedInduction, Integers, TLAPS

\* A set of natural numbers that is not empty has a least element.
LEMMA NatMin ==
    ASSUME NEW T \in SUBSET Nat, T # {}
    PROVE  \E n \in T : \A m \in T : n <= m
<1> DEFINE R == StrictSubsetOrdering(Nat)
           B == {1..n : n \in T}
<1>1. IsWellFoundedOn(R, FiniteSubsetsOf(Nat))
  BY FS_StrictSubsetOrderingWellFounded
<1>2. B \subseteq FiniteSubsetsOf(Nat) /\ B # {}
  <2>1. \A n \in T : IsFiniteSet(1..n) /\ 1..n \in SUBSET Nat
    BY FS_Interval
  <2> QED
    BY <2>1 DEF FiniteSubsetsOf
<1>3. PICK x \in B : \A y \in B : ~(<<y, x>> \in R)
  <2> HIDE DEF B, R
  <2> QED
    BY <1>1, <1>2, WFMin
<1>4. PICK n \in T : x = 1..n
  OBVIOUS
<1>5. ASSUME NEW m \in T
      PROVE n <= m
  <2>1. 1..m \in B /\ ~(<<1..m, 1..n>> \in R)
    BY <1>3, <1>4
  <2>2. CASE m < n
    <3>1. n \in 1..n /\ n \notin 1..m /\ 1..m \subseteq 1..n
      BY <2>2
    <3>2. <<1..m, 1..n>> \in R
      BY <3>1 DEF StrictSubsetOrdering
    <3> QED
      BY <2>1, <3>2
  <2> QED
    BY <2>2
<1> QED
  BY <1>5

\* One that is not empty and has a bound has a greatest element.
LEMMA NatMax ==
    ASSUME NEW N \in Nat, NEW T \in SUBSET (0..N), T # {}
    PROVE  \E n \in T : \A m \in T : m <= n
<1> DEFINE D == {N - k : k \in T}
<1>1. D \in SUBSET Nat /\ D # {}
  <2>1. \A k \in T : N - k \in Nat
    OBVIOUS
  <2>2. \E k \in T : N - k \in D
    OBVIOUS
  <2> QED
    BY <2>1, <2>2
<1> HIDE DEF D
<1>2. PICK d \in D : \A e \in D : d <= e
  BY <1>1, NatMin
<1>3. PICK k \in T : d = N - k
  BY <1>2 DEF D
<1>4. ASSUME NEW m \in T
      PROVE  m <= k
  <2>1. N - m \in D
    BY DEF D
  <2>2. N - k <= N - m
    BY <1>2, <1>3, <2>1
  <2> QED
    BY <2>2
<1> QED
  BY <1>4

\* Induction up to N: a set with zero and with the successor of what it has.
LEMMA UpTo ==
    ASSUME NEW N \in Nat, NEW S, 0 \in S, \A k \in 1..N : k - 1 \in S => k \in S
    PROVE  \A k \in 0..N : k \in S
<1> SUFFICES ASSUME NEW b \in 0..N, b \notin S
             PROVE  FALSE
  OBVIOUS
<1> DEFINE T == {k \in 0..N : k \notin S}
<1>1. PICK n \in T : \A m \in T : n <= m
  <2>1. T \in SUBSET Nat /\ T # {}
    OBVIOUS
  <2> HIDE DEF T
  <2> QED
    BY <2>1, NatMin
<1>2. n \in 1..N /\ n - 1 \in 0..N /\ n - 1 \notin T
  BY <1>1
<1> QED
  BY <1>2

Follows(f, N, base, step) == f[0] = base /\ \A k \in 1..N : f[k] = step[k][f[k - 1]]

\* A function given by its first value and by each value from the one before.
LEMMA Recursion ==
    ASSUME NEW N \in Nat, NEW X, NEW base \in X, NEW step \in [1..N -> [X -> X]]
    PROVE  \E f \in [0..N -> X] : Follows(f, N, base, step)
<1> DEFINE Good(n, f) == /\ f[0] = base
                         /\ \A k \in 1..n : f[k] = step[k][f[k - 1]]
           S == {n \in 0..N : \E f \in [0..n -> X] : Good(n, f)}
<1>1. 0 \in S
  <2> DEFINE f == [k \in 0..0 |-> base]
  <2>1. f \in [0..0 -> X] /\ Good(0, f)
    OBVIOUS
  <2> HIDE DEF f
  <2> QED
    BY <2>1
<1>2. ASSUME NEW n \in 1..N, n - 1 \in S
      PROVE  n \in S
  <2>1. PICK f \in [0..(n - 1) -> X] : Good(n - 1, f)
    BY <1>2
  <2> DEFINE g == [k \in 0..n |-> IF k = n THEN step[n][f[n - 1]] ELSE f[k]]
  <2>2. n - 1 \in 0..(n - 1) /\ n \in 1..N
    OBVIOUS
  <2>3. f[n - 1] \in X
    BY <2>2
  <2>4. step[n][f[n - 1]] \in X
    BY <2>2, <2>3
  <2>5. \A k \in 0..n : k # n => k \in 0..(n - 1)
    OBVIOUS
  <2>6. g \in [0..n -> X]
    BY <2>4, <2>5
  <2>7. g[0] = base
    BY <2>1
  <2>8. ASSUME NEW k \in 1..n
        PROVE  g[k] = step[k][g[k - 1]]
    <3>1. k - 1 \in 0..n /\ k - 1 # n /\ k \in 0..n /\ g[k - 1] = f[k - 1]
      OBVIOUS
    <3>2. CASE k = n
      BY <3>1, <3>2
    <3>3. CASE k # n
      <4>1. k \in 1..(n - 1)
        BY <3>3
      <4>2. g[k] = f[k]
        BY <3>1, <3>3
      <4>3. f[k] = step[k][f[k - 1]]
        BY <2>1, <4>1
      <4> QED
        BY <3>1, <4>2, <4>3
    <3> QED
      BY <3>2, <3>3
  <2> HIDE DEF g
  <2> QED
    BY <2>6, <2>7, <2>8
<1>3. N \in S
  <2> HIDE DEF S
  <2>1. \A k \in 0..N : k \in S
    BY <1>1, <1>2, UpTo
  <2> QED
    BY <2>1
<1> QED
  BY <1>3 DEF Follows

=============================================================================
