------------------------------ MODULE NatSets ------------------------------
(***************************************************************************)
(* Least and greatest numbers, and induction over numbers, as facts about  *)
(* sets.  The provers cannot instantiate an induction theorem that takes a *)
(* predicate, but they can give SetInduction the set of numbers for which  *)
(* a predicate holds.                                                      *)
(***************************************************************************)
EXTENDS Integers, FiniteSetsExt, WellFoundedInduction, TLAPS

\* Every set of natural numbers but the empty one has a least element.
LEMMA LeastExists == \A T \in SUBSET Nat : T # {} => \E x \in T : \A y \in T : x <= y
<1> DEFINE R == OpToRel(<, Nat)
<1>1. IsWellFoundedOn(R, Nat)
  BY NatLessThanWellFounded
<1>2. ASSUME NEW a \in Nat, NEW b \in Nat, a < b PROVE <<a, b>> \in R
  BY <1>2 DEF OpToRel
<1> HIDE DEF R
<1>3. ASSUME NEW T \in SUBSET Nat, T # {} PROVE \E x \in T : \A y \in T : ~(<<y, x>> \in R)
  BY <1>1, <1>3, WFMin
<1>4. ASSUME NEW T \in SUBSET Nat, T # {} PROVE \E x \in T : \A y \in T : x <= y
  <2>1. PICK x \in T : \A y \in T : ~(<<y, x>> \in R)
    BY <1>3, <1>4
  <2>2. \A y \in T : ~(y < x)
    BY <2>1, <1>2
  <2> QED
    BY <2>2
<1> QED
  BY <1>4

\* The principle of induction: a set with 0 and with the successor of each of
\* its numbers has them all.
LEMMA SetInduction ==
    ASSUME NEW S, 0 \in S, \A n \in Nat : n \in S => n + 1 \in S
    PROVE  Nat \subseteq S
<1>1. SUFFICES ASSUME Nat \ S # {} PROVE FALSE
  OBVIOUS
<1>2. PICK x \in Nat \ S : \A y \in Nat \ S : x <= y
  BY <1>1, LeastExists
<1>3. x # 0 /\ x - 1 \in Nat /\ x - 1 \in S
  BY <1>2
<1> QED
  BY <1>2, <1>3

\* A value and a step from each value to the next define a sequence of values.
LEMMA RecursionExists ==
    ASSUME NEW T, NEW base \in T, NEW step \in [Nat \X T -> T]
    PROVE  \E f \in [Nat -> T] :
              f[0] = base /\ \A n \in Nat : f[n + 1] = step[<<n, f[n]>>]
<1> DEFINE Follows(g, n) ==
        /\ g \in [0..n -> T] /\ g[0] = base
        /\ \A k \in 0..(n - 1) : g[k + 1] = step[<<k, g[k]>>]
<1>1. \A n \in Nat : \E g : Follows(g, n)
  <2> DEFINE S == {n \in Nat : \E g : Follows(g, n)}
  <2>1. 0 \in S
    <3>1. Follows([k \in 0..0 |-> base], 0)
      OBVIOUS
    <3> QED
      BY <3>1
  <2>2. ASSUME NEW n \in Nat, n \in S PROVE n + 1 \in S
    <3>1. PICK g : Follows(g, n)
      BY <2>2
    <3> DEFINE h == [k \in 0..(n + 1) |-> IF k = n + 1 THEN step[<<n, g[n]>>] ELSE g[k]]
    <3>2. g[n] \in T /\ step[<<n, g[n]>>] \in T
      BY <3>1
    <3>3. h \in [0..(n + 1) -> T] /\ h[0] = base
      BY <3>1, <3>2
    <3>4. \A k \in 0..n : h[k + 1] = step[<<k, h[k]>>]
      <4> SUFFICES ASSUME NEW k \in 0..n PROVE h[k + 1] = step[<<k, h[k]>>]
        OBVIOUS
      <4>1. h[k] = g[k] /\ k + 1 \in 0..(n + 1)
        OBVIOUS
      <4>2. CASE k = n
        BY <4>1, <4>2
      <4>3. CASE k # n
        <5>1. k \in 0..(n - 1) /\ h[k + 1] = g[k + 1]
          BY <4>3
        <5> QED
          BY <5>1, <4>1, <3>1
      <4> QED
        BY <4>2, <4>3
    <3>5. Follows(h, n + 1)
      <4>1. (n + 1) - 1 = n
        OBVIOUS
      <4> HIDE DEF h
      <4> QED
        BY <3>3, <3>4, <4>1
    <3> HIDE DEF Follows
    <3> QED
      BY <3>5
  <2> QED
    BY <2>1, <2>2, SetInduction
<1>2. ASSUME NEW m \in Nat, NEW n \in Nat, NEW g, NEW h, Follows(g, m), Follows(h, n)
      PROVE  \A k \in Nat : (k <= m /\ k <= n) => g[k] = h[k]
  <2> DEFINE S == {k \in Nat : (k <= m /\ k <= n) => g[k] = h[k]}
  <2>1. 0 \in S
    BY <1>2
  <2>2. ASSUME NEW k \in Nat, k \in S PROVE k + 1 \in S
    <3>1. CASE k + 1 <= m /\ k + 1 <= n
      <4>1. k \in 0..(m - 1) /\ k \in 0..(n - 1) /\ g[k] = h[k]
        BY <3>1, <2>2
      <4>2. g[k + 1] = step[<<k, g[k]>>]
        BY <4>1, <1>2
      <4>3. h[k + 1] = step[<<k, h[k]>>]
        BY <4>1, <1>2
      <4> QED
        BY <4>1, <4>2, <4>3
    <3> QED
      BY <3>1
  <2> QED
    BY <2>1, <2>2, SetInduction
<1> DEFINE at == [n \in Nat |-> CHOOSE g : Follows(g, n)]
           f  == [n \in Nat |-> at[n][n]]
<1>3. ASSUME NEW n \in Nat PROVE Follows(at[n], n)
  <2> HIDE DEF Follows
  <2> QED
    BY <1>1
<1> HIDE DEF at
<1>4. f \in [Nat -> T] /\ f[0] = base
  <2>1. ASSUME NEW n \in Nat PROVE at[n][n] \in T
    BY <1>3
  <2>2. at[0][0] = base
    BY <1>3
  <2> QED
    BY <2>1, <2>2
<1>5. ASSUME NEW n \in Nat PROVE f[n + 1] = step[<<n, f[n]>>]
  <2>1. Follows(at[n], n) /\ Follows(at[n + 1], n + 1)
    BY <1>3
  <2>2. at[n][n] = at[n + 1][n]
    <3> HIDE DEF Follows
    <3>1. n + 1 \in Nat /\ n <= n /\ n <= n + 1
      OBVIOUS
    <3> QED
      BY <2>1, <1>2, <3>1
  <2>3. at[n + 1][n + 1] = step[<<n, at[n + 1][n]>>]
    <3>1. n \in 0..((n + 1) - 1)
      OBVIOUS
    <3> QED
      BY <2>1, <3>1
  <2> QED
    BY <2>2, <2>3
<1> QED
  BY <1>4, <1>5

\* The same up to a bound.
LEMMA FiniteRecursion ==
    ASSUME NEW T, NEW N \in Nat, NEW base \in T, NEW next \in [(1..N) \X T -> T]
    PROVE  \E g \in [0..N -> T] :
              g[0] = base /\ \A n \in 1..N : g[n] = next[<<n, g[n - 1]>>]
<1> DEFINE step == [q \in Nat \X T |-> IF q[1] < N THEN next[<<q[1] + 1, q[2]>>] ELSE q[2]]
<1>1. step \in [Nat \X T -> T]
  <2>1. ASSUME NEW q \in Nat \X T, q[1] < N PROVE next[<<q[1] + 1, q[2]>>] \in T
    <3>1. q[1] + 1 \in 1..N /\ q[2] \in T
      BY <2>1
    <3> QED
      BY <3>1
  <2> QED
    BY <2>1
<1>2. \A n \in Nat, t \in T : n < N => step[<<n, t>>] = next[<<n + 1, t>>]
  OBVIOUS
<1> HIDE DEF step
<1>3. PICK f \in [Nat -> T] : f[0] = base /\ \A n \in Nat : f[n + 1] = step[<<n, f[n]>>]
  <2> DEFINE Possible(V) ==
          \A b \in V : \A st \in [Nat \X V -> V] :
              \E f \in [Nat -> V] : f[0] = b /\ \A n \in Nat : f[n + 1] = st[<<n, f[n]>>]
  <2>0. \A V : Possible(V)
    BY RecursionExists
  <2> HIDE DEF Possible
  <2>1. \A b \in T : \A st \in [Nat \X T -> T] :
            \E f \in [Nat -> T] : f[0] = b /\ \A n \in Nat : f[n + 1] = st[<<n, f[n]>>]
    <3>1. Possible(T)
      BY <2>0
    <3> QED
      BY <3>1 DEF Possible
  <2> QED
    BY <1>1, <2>1, Zenon
<1> DEFINE g == [n \in 0..N |-> f[n]]
<1>4. g \in [0..N -> T] /\ g[0] = base
  BY <1>3
<1>5. ASSUME NEW n \in 1..N PROVE g[n] = next[<<n, g[n - 1]>>]
  <2>1. n - 1 \in Nat /\ n - 1 < N /\ (n - 1) + 1 = n /\ n \in 0..N /\ n - 1 \in 0..N
    OBVIOUS
  <2>2. f[(n - 1) + 1] = step[<<n - 1, f[n - 1]>>]
    BY <1>3, <2>1
  <2>3. step[<<n - 1, f[n - 1]>>] = next[<<(n - 1) + 1, f[n - 1]>>]
    BY <1>2, <1>3, <2>1
  <2> QED
    BY <2>1, <2>2, <2>3
<1> QED
  BY <1>4, <1>5

\* Min is the least element.
LEMMA MinIsLeast ==
    ASSUME NEW S \in SUBSET Nat, S # {}
    PROVE  Min(S) \in S /\ \A y \in S : Min(S) <= y
<1>1. \E x \in S : \A y \in S : x <= y
  BY LeastExists
<1> QED
  BY <1>1 DEF Min

\* Max is the greatest element, where there is a bound.
LEMMA MaxIsGreatest ==
    ASSUME NEW S \in SUBSET Nat, S # {}, NEW n \in Nat, \A x \in S : x <= n
    PROVE  Max(S) \in S /\ \A y \in S : y <= Max(S)
<1> DEFINE T == {m \in Nat : \A x \in S : x <= m}
<1>1. PICK m \in T : \A y \in T : m <= y
  BY LeastExists
<1>2. m \in S
  <2>1. SUFFICES ASSUME m \notin S PROVE FALSE
    OBVIOUS
  <2>2. \A x \in S : x <= m - 1
    BY <1>1, <2>1
  <2>3. m - 1 \in Nat
    <3>1. PICK x : x \in S
      OBVIOUS
    <3> QED
      BY <3>1, <2>2
  <2> QED
    BY <2>2, <2>3, <1>1
<1>3. \E x \in S : \A y \in S : x >= y
  BY <1>1, <1>2
<1> QED
  BY <1>3 DEF Max

=============================================================================
