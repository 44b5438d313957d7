---------------------------- MODULE NaturalLemmas ----------------------------
(***************************************************************************)
(* Facts about the natural numbers that the proofs about the components    *)
(* use: a set of them has a least element, and a function defined by       *)
(* recursion from n - 1 exists.  The induction theorems of the library     *)
(* take an operator, which the provers cannot instantiate; these take sets *)
(* and functions.                                                          *)
(***************************************************************************)
EXTENDS Integers, FiniteSetTheorems, WellFoundedInduction, TLAPS

(* Among the intervals 0..n with n in U there is one that is minimal.      *)
LEMMA LeastNatural ==
  ASSUME NEW U \in SUBSET Nat, U # {}
  PROVE  \E m \in U : \A k \in U : m <= k
<1> DEFINE T == {0..n : n \in U}
           R == StrictSubsetOrdering(Nat)
           F == FiniteSubsetsOf(Nat)
<1>1. IsWellFoundedOn(R, F)
  BY FS_StrictSubsetOrderingWellFounded
<1>2. T \subseteq F
  <2> SUFFICES ASSUME NEW n \in U PROVE 0..n \in F
    OBVIOUS
  <2>1. n \in Int /\ 0..n \subseteq Nat
    OBVIOUS
  <2>2. IsFiniteSet(0..n)
    BY <2>1, FS_Interval
  <2> QED
    BY <2>1, <2>2 DEF FiniteSubsetsOf
<1>3. T # {}
  OBVIOUS
<1>4. PICK x \in T : \A y \in T : ~ (<<y, x>> \in R)
  <2> HIDE DEF T, R, F
  <2> QED
    BY <1>1, <1>2, <1>3, WFMin
<1>5. PICK m \in U : x = 0..m
  BY <1>4
<1>6. ASSUME NEW k \in U, k < m PROVE FALSE
  <2>1. m \in Nat /\ k \in Nat
    OBVIOUS
  <2>2. 0..k \subseteq 0..m /\ m \in 0..m /\ m \notin 0..k
    BY <1>6, <2>1
  <2>3. 0..k \in SUBSET Nat /\ 0..m \in SUBSET Nat /\ 0..k # 0..m
    BY <2>1, <2>2
  <2>4. <<0..k, 0..m>> \in R
    BY <2>2, <2>3 DEF StrictSubsetOrdering
  <2> QED
    BY <1>4, <1>5, <2>4
<1> QED
  BY <1>6

-----------------------------------------------------------------------------
(* The values of a recursion up to n.                                      *)
Partial(S, b, step, n) ==
  {h \in [0..n -> S] : h[0] = b /\ \A i \in 1..n : h[i] = step[h[i - 1]]}

LEMMA PartialExists ==
  ASSUME NEW S, NEW b \in S, NEW step \in [S -> S], NEW n \in Nat
  PROVE  Partial(S, b, step, n) # {}
<1> DEFINE U == {k \in Nat : Partial(S, b, step, k) = {}}
<1> SUFFICES ASSUME U # {} PROVE FALSE
  OBVIOUS
<1>1. PICK m \in U : \A k \in U : m <= k
  <2>1. U \in SUBSET Nat
    OBVIOUS
  <2> HIDE DEF U
  <2> QED
    BY <2>1, LeastNatural
<1>2. CASE m = 0
  <2>1. [i \in 0..0 |-> b] \in Partial(S, b, step, 0)
    BY DEF Partial
  <2> QED
    BY <1>2, <2>1
<1>3. CASE m # 0
  <2>1. m - 1 \in Nat /\ m - 1 \notin U
    BY <1>1, <1>3
  <2>2. PICK h : h \in Partial(S, b, step, m - 1)
    BY <2>1
  <2>3. /\ h \in [0..(m - 1) -> S] /\ h[0] = b
        /\ \A i \in 1..(m - 1) : h[i] = step[h[i - 1]]
    BY <2>2 DEF Partial
  <2> DEFINE f == [i \in 0..m |-> IF i = m THEN step[h[m - 1]] ELSE h[i]]
  <2>4. f \in [0..m -> S] /\ f[0] = b
    BY <1>3, <2>1, <2>3
  <2>5. ASSUME NEW i \in 1..m PROVE f[i] = step[f[i - 1]]
    <3>1. f[i - 1] = h[i - 1] /\ (i # m => i \in 1..(m - 1))
      BY <2>1, <2>3
    <3> QED
      BY <2>1, <2>3, <3>1
  <2>6. f \in Partial(S, b, step, m)
    BY <2>4, <2>5 DEF Partial
  <2> QED
    BY <2>6
<1> QED
  BY <1>2, <1>3

LEMMA PartialUnique ==
  ASSUME NEW S, NEW b \in S, NEW step \in [S -> S], NEW n \in Nat, NEW m \in Nat, m <= n,
         NEW g \in Partial(S, b, step, m), NEW h \in Partial(S, b, step, n)
  PROVE  \A i \in 0..m : g[i] = h[i]
<1> DEFINE U == {i \in 0..m : g[i] # h[i]}
<1> SUFFICES ASSUME U # {} PROVE FALSE
  OBVIOUS
<1>1. PICK i \in U : \A k \in U : i <= k
  <2>1. U \in SUBSET Nat
    OBVIOUS
  <2> HIDE DEF U
  <2> QED
    BY <2>1, LeastNatural
<1>2. i # 0
  BY DEF Partial
<1>3. i \in 1..m /\ i \in 1..n /\ i - 1 \in 0..m /\ i - 1 \notin U
  BY <1>1, <1>2
<1>4. g[i - 1] = h[i - 1]
  BY <1>3
<1> QED
  BY <1>3, <1>4 DEF Partial

(* f is the function f[n] == IF n = 0 THEN b ELSE step[f[n - 1]].          *)
IsRecursion(f, S, b, step) ==
  /\ f \in [Nat -> S]
  /\ f[0] = b
  /\ \A n \in Nat \ {0} : f[n] = step[f[n - 1]]

LEMMA RecursionExists ==
  ASSUME NEW S, NEW b \in S, NEW step \in [S -> S]
  PROVE  \E f : IsRecursion(f, S, b, step)
<1> DEFINE H(n) == CHOOSE h \in Partial(S, b, step, n) : TRUE
           f == [n \in Nat |-> H(n)[n]]
<1>1. ASSUME NEW n \in Nat PROVE H(n) \in Partial(S, b, step, n)
  BY PartialExists
<1>2. ASSUME NEW n \in Nat PROVE f[n] \in S
  <2>1. H(n) \in [0..n -> S] /\ n \in 0..n
    <3>1. H(n) \in Partial(S, b, step, n)
      BY <1>1
    <3> HIDE DEF H
    <3> QED
      BY <3>1 DEF Partial
  <2> QED
    BY <2>1
<1>3. f \in [Nat -> S]
  BY <1>2
<1>4. ASSUME NEW n \in Nat PROVE f[n] = IF n = 0 THEN b ELSE step[f[n - 1]]
  <2>1. CASE n = 0
    <3>1. H(0) \in Partial(S, b, step, 0)
      BY <1>1
    <3>2. H(0)[0] = b
      <4> HIDE DEF H
      <4> QED
        BY <3>1 DEF Partial
    <3> QED
      BY <2>1, <3>2
  <2>2. CASE n # 0
    <3>1. n - 1 \in Nat /\ n - 1 <= n /\ n - 1 \in 0..(n - 1) /\ n \in 1..n
      BY <2>2
    <3>2. H(n) \in Partial(S, b, step, n) /\ H(n - 1) \in Partial(S, b, step, n - 1)
      BY <1>1, <3>1
    <3>3. H(n - 1)[n - 1] = H(n)[n - 1]
      <4> HIDE DEF H
      <4> QED
        BY <3>1, <3>2, PartialUnique
    <3>4. H(n)[n] = step[H(n)[n - 1]]
      <4> HIDE DEF H
      <4> QED
        BY <3>1, <3>2 DEF Partial
    <3> QED
      BY <2>2, <3>1, <3>3, <3>4
  <2> QED
    BY <2>1, <2>2
<1> HIDE DEF f
<1> QED
  BY <1>3, <1>4 DEF IsRecursion
=============================================================================
