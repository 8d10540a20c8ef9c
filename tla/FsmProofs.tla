----------------------------- MODULE FsmProofs -----------------------------
(***************************************************************************)
(* Proofs about the free space map, for any page size, number of slots and *)
(* depth: its pages are numbered without gaps or clashes, its leaves are   *)
(* up to date, a descent that the root starts comes out at a heap page,    *)
(* one with the bytes asked for, and space that is given back is offered.  *)
(***************************************************************************)
EXTENDS Fsm, NatSets

---------------------------------------------------------------------------
(* Addresses. *)

\* Dividing by the number of slots.
LEMMA Division ==
    /\ \A n \in Nat : /\ n \div Slots \in Nat /\ n % Slots \in SlotIds
                      /\ n = (n \div Slots) * Slots + (n % Slots)
    /\ \A n \in Nat : \A s \in SlotIds :
          /\ n * Slots + s \in Nat
          /\ (n * Slots + s) \div Slots = n /\ (n * Slots + s) % Slots = s
<1>1. Slots \in Nat /\ Slots > 1
  BY FsmAssumption
<1>2. ASSUME NEW n \in Nat
      PROVE  /\ n \div Slots \in Nat /\ n % Slots \in SlotIds
             /\ n = (n \div Slots) * Slots + (n % Slots)
  BY <1>1 DEF SlotIds
<1>3. ASSUME NEW n \in Nat, NEW s \in SlotIds
      PROVE  /\ n * Slots + s \in Nat
             /\ (n * Slots + s) \div Slots = n /\ (n * Slots + s) % Slots = s
  <2>1. s \in Nat /\ s < Slots /\ n * Slots \in Nat
    BY <1>1 DEF SlotIds
  <2>2. n * Slots + s \in Nat
    BY <2>1
  <2> QED
    BY <1>1, <2>1, <2>2
<1> QED
  BY <1>2, <1>3

\* The next number is in the next node or in the same one.
LEMMA NextNode ==
    ASSUME NEW n \in Nat
    PROVE  \/ (n + 1) \div Slots = n \div Slots
           \/ /\ (n + 1) \div Slots = n \div Slots + 1
              /\ ((n + 1) \div Slots) * Slots = n + 1
<1>1. Slots \in Nat /\ Slots > 1
  BY FsmAssumption
<1> DEFINE q == n \div Slots
           r == n % Slots
<1>2. q \in Nat /\ r \in SlotIds /\ n = q * Slots + r
  BY Division
<1>3. CASE r + 1 \in SlotIds
  <2>1. n + 1 = q * Slots + (r + 1)
    BY <1>1, <1>2 DEF SlotIds
  <2> HIDE DEF q, r
  <2>2. (n + 1) \div Slots = q
    BY <2>1, <1>2, <1>3, Division
  <2> QED
    BY <2>2 DEF q
<1>4. CASE r + 1 \notin SlotIds
  <2>1. r + 1 = Slots /\ 0 \in SlotIds
    BY <1>1, <1>2, <1>4 DEF SlotIds
  <2> HIDE DEF q, r
  <2>2. n + 1 = q * Slots + Slots /\ q * Slots \in Nat
    BY <1>1, <1>2, <2>1 DEF SlotIds
  <2>3. (q + 1) * Slots = q * Slots + Slots
    BY <1>1, <1>2
  <2>4. n + 1 = (q + 1) * Slots + 0 /\ q + 1 \in Nat
    BY <1>2, <2>2, <2>3
  <2>5. (n + 1) \div Slots = q + 1
    BY <2>4, <2>1, Division
  <2>6. (q + 1) * Slots = n + 1
    BY <2>2, <2>3
  <2>7. (n + 1) \div Slots = q + 1 /\ ((n + 1) \div Slots) * Slots = n + 1
    BY <2>5, <2>6
  <2> QED
    BY <2>7 DEF q
<1> QED
  BY <1>3, <1>4

\* Recursion on numbers, with values in Nat.
LEMMA NatRecursion ==
    ASSUME NEW base \in Nat, NEW step \in [Nat \X Nat -> Nat]
    PROVE  \E f \in [Nat -> Nat] :
              f[0] = base /\ \A n \in Nat : f[n + 1] = step[<<n, f[n]>>]
<1> DEFINE Possible(T) ==
        \A b \in T : \A st \in [Nat \X T -> T] :
            \E f \in [Nat -> T] : f[0] = b /\ \A n \in Nat : f[n + 1] = st[<<n, f[n]>>]
<1>1. \A T : Possible(T)
  BY RecursionExists
<1> HIDE DEF Possible
<1>2. Possible(Nat)
  BY <1>1
<1> QED
  BY <1>2 DEF Possible

LEMMA AboveDef ==
    ASSUME NEW n \in Nat
    PROVE  /\ Above(n) \in [Nat -> Nat] /\ Above(n)[0] = n
           /\ \A k \in Nat : Above(n)[k + 1] = Above(n)[k] \div Slots
<1> DEFINE Body(g) == [k \in Nat |-> IF k = 0 THEN n ELSE g[k - 1] \div Slots]
<1>1. \E g : g = Body(g)
  <2> DEFINE step == [p \in Nat \X Nat |-> p[2] \div Slots]
  <2>1. step \in [Nat \X Nat -> Nat]
    BY Division
  <2> HIDE DEF step
  <2>0. \E f \in [Nat -> Nat] : f[0] = n /\ \A k \in Nat : f[k + 1] = step[<<k, f[k]>>]
    BY <2>1, NatRecursion
  <2>2. PICK g \in [Nat -> Nat] : g[0] = n /\ \A k \in Nat : g[k + 1] = step[<<k, g[k]>>]
    BY <2>0
  <2>3. \A k \in Nat : g[k + 1] = g[k] \div Slots
    BY <2>2 DEF step
  <2>4. g = Body(g)
    BY <2>2, <2>3
  <2> QED
    BY <2>4
<1>2. Above(n) = Body(Above(n))
  BY <1>1 DEF Above
<1>3. Above(n)[0] = n /\ \A k \in Nat : Above(n)[k + 1] = Above(n)[k] \div Slots
  BY <1>2
<1>4. \A k \in Nat : Above(n)[k] \in Nat
  <2> DEFINE S == {k \in Nat : Above(n)[k] \in Nat}
  <2>1. 0 \in S
    BY <1>3
  <2>0. ASSUME NEW k \in Nat, k \in S PROVE k + 1 \in S
    <3>1. Above(n)[k] \in Nat /\ Above(n)[k] \div Slots \in Nat
      BY <2>0, Division
    <3>2. Above(n)[k + 1] \in Nat
      BY <3>1, <1>3
    <3> QED
      BY <3>2
  <2> HIDE DEF S
  <2>2. Nat \subseteq S
    BY <2>0, <2>1, SetInduction
  <2> QED
    BY <2>2 DEF S
<1> QED
  BY <1>2, <1>3, <1>4

\* The parent of a number, and the number above both.
LEMMA AboveParent ==
    ASSUME NEW n \in Nat, NEW k \in Nat
    PROVE  Above(n)[k + 1] = Above(n \div Slots)[k]
<1> DEFINE S == {j \in Nat : Above(n)[j + 1] = Above(n \div Slots)[j]}
<1>1. n \div Slots \in Nat
  BY Division
<1>2. 0 \in S
  <2>1. Above(n)[0 + 1] = n \div Slots
    BY AboveDef
  <2> QED
    BY <1>1, <2>1, AboveDef
<1>3. ASSUME NEW j \in Nat, j \in S PROVE j + 1 \in S
  <2>1. Above(n)[j + 1 + 1] = Above(n)[j + 1] \div Slots
    BY AboveDef
  <2>2. Above(n \div Slots)[j + 1] = Above(n \div Slots)[j] \div Slots
    BY <1>1, AboveDef
  <2> QED
    BY <1>3, <2>1, <2>2
<1> HIDE DEF S
<1>4. Nat \subseteq S
  BY <1>2, <1>3, SetInduction
<1> QED
  BY <1>4 DEF S

LEMMA FirstBelowDef ==
    ASSUME NEW n \in Nat
    PROVE  /\ FirstBelow(0, n) = n
           /\ \A k \in Nat : /\ FirstBelow(k, n) \in Nat
                            /\ FirstBelow(k + 1, n) = FirstBelow(k, n) * Slots
<1> DEFINE Body(g) == [j \in Nat |-> IF j = 0 THEN n ELSE g[j - 1] * Slots]
           down    == CHOOSE g : g = Body(g)
<1>0. \A m \in Nat : m * Slots \in Nat
  BY FsmAssumption
<1>1. \E g : g = Body(g)
  <2> DEFINE step == [p \in Nat \X Nat |-> p[2] * Slots]
  <2>1. step \in [Nat \X Nat -> Nat]
    BY <1>0
  <2> HIDE DEF step
  <2>2. \E f \in [Nat -> Nat] : f[0] = n /\ \A k \in Nat : f[k + 1] = step[<<k, f[k]>>]
    BY <2>1, NatRecursion
  <2>3. PICK g \in [Nat -> Nat] : g[0] = n /\ \A k \in Nat : g[k + 1] = step[<<k, g[k]>>]
    BY <2>2
  <2>4. \A k \in Nat : g[k + 1] = g[k] * Slots
    BY <2>3 DEF step
  <2>5. g = Body(g)
    BY <2>3, <2>4
  <2> QED
    BY <2>5
<1>2. down = Body(down)
  BY <1>1
<1>3. \A k : FirstBelow(k, n) = down[k]
  BY DEF FirstBelow
<1> HIDE DEF down
<1>4. down[0] = n /\ \A k \in Nat : down[k + 1] = down[k] * Slots
  BY <1>2
<1>5. \A k \in Nat : down[k] \in Nat
  <2> DEFINE S == {k \in Nat : down[k] \in Nat}
  <2>1. 0 \in S
    BY <1>4
  <2>2. ASSUME NEW k \in Nat, k \in S PROVE k + 1 \in S
    BY <2>2, <1>0, <1>4
  <2> HIDE DEF S
  <2>3. Nat \subseteq S
    BY <2>1, <2>2, SetInduction
  <2> QED
    BY <2>3 DEF S
<1> QED
  BY <1>3, <1>4, <1>5

\* First numbers, one level at a time from above.
LEMMA FirstBelowFirst ==
    ASSUME NEW n \in Nat, NEW k \in Nat
    PROVE  FirstBelow(k, n * Slots) = FirstBelow(k, n) * Slots
<1> DEFINE S == {j \in Nat : FirstBelow(j, n * Slots) = FirstBelow(j, n) * Slots}
<1>1. n * Slots \in Nat
  BY FsmAssumption
<1>2. 0 \in S
  BY <1>1, FirstBelowDef
<1>3. ASSUME NEW j \in Nat, j \in S PROVE j + 1 \in S
  <2>1. FirstBelow(j + 1, n * Slots) = FirstBelow(j, n * Slots) * Slots
    BY <1>1, FirstBelowDef
  <2>2. FirstBelow(j + 1, n) = FirstBelow(j, n) * Slots
    BY FirstBelowDef
  <2> QED
    BY <1>3, <2>1, <2>2
<1> HIDE DEF S
<1>4. Nat \subseteq S
  BY <1>2, <1>3, SetInduction
<1> QED
  BY <1>4 DEF S

\* The first number below a number is below it, and no number below is smaller.
LEMMA FirstIsFirst ==
    ASSUME NEW n \in Nat, NEW k \in Nat
    PROVE  Above(FirstBelow(k, n))[k] = n /\ FirstBelow(k, Above(n)[k]) <= n
<1> DEFINE S == {j \in Nat : \A m \in Nat :
                    Above(FirstBelow(j, m))[j] = m /\ FirstBelow(j, Above(m)[j]) <= m}
<1>1. 0 \in S
  <2>1. SUFFICES ASSUME NEW m \in Nat
                 PROVE  Above(FirstBelow(0, m))[0] = m /\ FirstBelow(0, Above(m)[0]) <= m
    OBVIOUS
  <2>2. Above(m)[0] = m /\ FirstBelow(0, m) = m
    BY AboveDef, FirstBelowDef
  <2> QED
    BY <2>2
<1>2. ASSUME NEW j \in Nat, j \in S PROVE j + 1 \in S
  <2>1. SUFFICES ASSUME NEW m \in Nat
                 PROVE  /\ Above(FirstBelow(j + 1, m))[j + 1] = m
                        /\ FirstBelow(j + 1, Above(m)[j + 1]) <= m
    OBVIOUS
  <2>2. Above(FirstBelow(j + 1, m))[j + 1] = m
    <3> DEFINE first == FirstBelow(j, m)
    <3>1. first \in Nat /\ FirstBelow(j + 1, m) = first * Slots /\ 0 \in SlotIds
      BY FirstBelowDef, FsmAssumption DEF SlotIds
    <3> HIDE DEF first
    <3>2. first * Slots + 0 \in Nat /\ (first * Slots + 0) \div Slots = first
      BY <3>1, Division
    <3>3. first * Slots + 0 = first * Slots
      BY <3>1, FsmAssumption
    <3>4. Above(first * Slots)[j + 1] = Above(first)[j]
      BY <3>2, <3>3, AboveParent
    <3>5. Above(first)[j] = m
      BY <1>2 DEF first
    <3> QED
      BY <3>1, <3>4, <3>5
  <2>3. FirstBelow(j + 1, Above(m)[j + 1]) <= m
    <3> DEFINE q == m \div Slots
               a == Above(q)[j]
    <3>1. q \in Nat /\ m % Slots \in SlotIds /\ m = q * Slots + (m % Slots)
      BY Division
    <3>2. Above(m)[j + 1] = a
      BY AboveParent
    <3> HIDE DEF q
    <3>0. a \in Nat
      BY <3>1, AboveDef
    <3>7. FirstBelow(j, a) <= q
      BY <1>2, <3>1
    <3>8. FirstBelow(j, a) \in Nat
      BY <3>0, FirstBelowDef
    <3>3. a \in Nat /\ FirstBelow(j, a) <= q /\ FirstBelow(j, a) \in Nat
      BY <3>0, <3>7, <3>8
    <3> HIDE DEF a
    <3>4. FirstBelow(j + 1, a) = FirstBelow(j, a) * Slots
      BY <3>3, FirstBelowDef
    <3>5. FirstBelow(j, a) * Slots <= q * Slots
      BY <3>1, <3>3, FsmAssumption
    <3>6. q * Slots <= m /\ q * Slots \in Nat /\ FirstBelow(j, a) * Slots \in Nat
      BY <3>1, <3>3, FsmAssumption DEF SlotIds
    <3> QED
      BY <3>2, <3>4, <3>5, <3>6
  <2> QED
    BY <2>2, <2>3
<1> HIDE DEF S
<1>3. Nat \subseteq S
  BY <1>1, <1>2, SetInduction
<1> QED
  BY <1>3 DEF S

\* From one number to the next: up to some level both the numbers above and
\* their first numbers move on, from there on the numbers above are the same.
LEMMA Carry ==
    ASSUME NEW n \in Nat, NEW k \in Nat
    PROVE  \/ Above(n + 1)[k] = Above(n)[k] + 1 /\ FirstBelow(k, Above(n + 1)[k]) = n + 1
           \/ Above(n + 1)[k] = Above(n)[k] /\ Above(n + 1)[k + 1] = Above(n)[k + 1]
<1> DEFINE New(j)  == Above(n + 1)[j] = Above(n)[j] + 1 /\ FirstBelow(j, Above(n + 1)[j]) = n + 1
           Same(j) == Above(n + 1)[j] = Above(n)[j]
           S       == {j \in Nat : New(j) \/ Same(j)}
<1>1. \A j \in Nat : /\ Above(n)[j] \in Nat /\ Above(n + 1)[j] \in Nat
                     /\ Above(n)[j + 1] = Above(n)[j] \div Slots
                     /\ Above(n + 1)[j + 1] = Above(n + 1)[j] \div Slots
  <2>1. n + 1 \in Nat
    OBVIOUS
  <2>2. ASSUME NEW m \in Nat, NEW j \in Nat
        PROVE  Above(m)[j] \in Nat /\ Above(m)[j + 1] = Above(m)[j] \div Slots
    BY AboveDef
  <2> QED
    BY <2>1, <2>2
<1>2. ASSUME NEW j \in Nat, Same(j) PROVE Same(j + 1)
  BY <1>1, <1>2
<1>3. ASSUME NEW j \in Nat, New(j) PROVE New(j + 1) \/ Same(j + 1)
  <2>1. PICK a : a = Above(n)[j]
    OBVIOUS
  <2>2. a \in Nat /\ Above(n + 1)[j] = a + 1 /\ FirstBelow(j, a + 1) = n + 1
    BY <1>1, <1>3, <2>1
  <2>3. Above(n)[j + 1] = a \div Slots /\ Above(n + 1)[j + 1] = (a + 1) \div Slots
    BY <1>1, <2>1, <2>2
  <2>4. CASE (a + 1) \div Slots = a \div Slots
    BY <2>3, <2>4
  <2>5. CASE (a + 1) \div Slots = a \div Slots + 1 /\ ((a + 1) \div Slots) * Slots = a + 1
    <3>1. PICK b : b = (a + 1) \div Slots
      OBVIOUS
    <3>2. b \in Nat /\ b * Slots = a + 1
      BY <2>2, <2>5, <3>1, Division
    <3>3. FirstBelow(j + 1, b) = FirstBelow(j, b) * Slots
      BY <3>2, FirstBelowDef
    <3>4. FirstBelow(j, b * Slots) = FirstBelow(j, b) * Slots
      BY <3>2, FirstBelowFirst
    <3>5. FirstBelow(j + 1, b) = n + 1
      BY <2>2, <3>2, <3>3, <3>4
    <3>6. New(j + 1)
      BY <2>3, <2>5, <3>1, <3>5
    <3> QED
      BY <3>6
  <2> QED
    BY <2>2, <2>4, <2>5, NextNode
<1>4. 0 \in S
  <2>1. n + 1 \in Nat
    OBVIOUS
  <2>2. Above(n)[0] = n
    BY AboveDef
  <2>3. Above(n + 1)[0] = n + 1
    BY <2>1, AboveDef
  <2>4. FirstBelow(0, n + 1) = n + 1
    BY <2>1, FirstBelowDef
  <2> QED
    BY <2>2, <2>3, <2>4
<1>5. ASSUME NEW j \in Nat, j \in S PROVE j + 1 \in S
  BY <1>2, <1>3, <1>5
<1> HIDE DEF S
<1>6. k \in S
  BY <1>4, <1>5, SetInduction
<1> USE DEF S
<1> QED
  BY <1>2, <1>6

---------------------------------------------------------------------------
(* Pages. *)

LEMMA PagesUpToDef ==
    ASSUME NEW leaf \in Nat
    PROVE  \E pages \in [Nat -> Nat] :
              /\ pages[0] = 0
              /\ \A k \in Nat : pages[k + 1] = pages[k] + Above(leaf)[k] + 1
              /\ PagesUpTo(leaf) = pages[Depth]
<1> DEFINE Body(g) == [k \in Nat |-> IF k = 0 THEN 0 ELSE g[k - 1] + Above(leaf)[k - 1] + 1]
           pages   == CHOOSE g : g = Body(g)
<1>0. \A k \in Nat : Above(leaf)[k] \in Nat
  BY AboveDef
<1>1. \E g : g = Body(g)
  <2> DEFINE step == [p \in Nat \X Nat |-> p[2] + Above(leaf)[p[1]] + 1]
  <2>1. step \in [Nat \X Nat -> Nat]
    BY <1>0
  <2> HIDE DEF step
  <2>6. \A base \in Nat : \E f \in [Nat -> Nat] :
            f[0] = base /\ \A k \in Nat : f[k + 1] = step[<<k, f[k]>>]
    BY <2>1, NatRecursion
  <2>2. \E f \in [Nat -> Nat] : f[0] = 0 /\ \A k \in Nat : f[k + 1] = step[<<k, f[k]>>]
    BY <2>6
  <2>3. PICK g \in [Nat -> Nat] : g[0] = 0 /\ \A k \in Nat : g[k + 1] = step[<<k, g[k]>>]
    BY <2>2
  <2>4. \A k \in Nat : g[k + 1] = g[k] + Above(leaf)[k] + 1
    BY <2>3 DEF step
  <2>5. g = Body(g)
    BY <2>3, <2>4
  <2> QED
    BY <2>5
<1>2. pages = Body(pages)
  BY <1>1
<1>3. PagesUpTo(leaf) = pages[Depth]
  BY DEF PagesUpTo
<1> HIDE DEF pages
<1>4. pages[0] = 0 /\ \A k \in Nat : pages[k + 1] = pages[k] + Above(leaf)[k] + 1
  BY <1>2
<1>5. \A k \in Nat : pages[k] \in Nat
  <2> DEFINE S == {k \in Nat : pages[k] \in Nat}
  <2>1. 0 \in S
    BY <1>4
  <2>2. ASSUME NEW k \in Nat, k \in S PROVE k + 1 \in S
    BY <2>2, <1>0, <1>4
  <2> HIDE DEF S
  <2>3. Nat \subseteq S
    BY <2>1, <2>2, SetInduction
  <2> QED
    BY <2>3 DEF S
<1>6. pages \in [Nat -> Nat]
  BY <1>2, <1>5
<1> QED
  BY <1>3, <1>4, <1>6

\* There is a page of each level up to a leaf, and above the first leaf no more.
LEMMA PageOfEachLevel ==
    /\ \A leaf \in Nat : PagesUpTo(leaf) \in Nat /\ PagesUpTo(leaf) >= Depth
    /\ PagesUpTo(0) = Depth
    /\ \A k \in Nat : Above(0)[k] = 0 /\ FirstBelow(k, 0) = 0
<1>1. Depth \in Nat
  BY FsmAssumption
<1>2. ASSUME NEW leaf \in Nat PROVE PagesUpTo(leaf) \in Nat /\ PagesUpTo(leaf) >= Depth
  <2>1. PICK pages \in [Nat -> Nat] :
              /\ pages[0] = 0
              /\ \A k \in Nat : pages[k + 1] = pages[k] + Above(leaf)[k] + 1
              /\ PagesUpTo(leaf) = pages[Depth]
    BY PagesUpToDef
  <2>2. \A k \in Nat : Above(leaf)[k] \in Nat
    BY AboveDef
  <2> DEFINE S == {k \in Nat : pages[k] >= k}
  <2>3. 0 \in S
    BY <2>1
  <2>4. ASSUME NEW k \in Nat, k \in S PROVE k + 1 \in S
    <3>1. pages[k] \in Nat /\ Above(leaf)[k] \in Nat /\ pages[k] >= k
      BY <2>2, <2>4
    <3>2. pages[k + 1] = pages[k] + Above(leaf)[k] + 1
      BY <2>1
    <3> QED
      BY <3>1, <3>2
  <2> HIDE DEF S
  <2>5. Nat \subseteq S
    BY <2>3, <2>4, SetInduction
  <2>6. pages[Depth] >= Depth /\ pages[Depth] \in Nat
    BY <1>1, <2>5 DEF S
  <2> QED
    BY <2>1, <2>6
<1>3. \A k \in Nat : Above(0)[k] = 0
  <2> DEFINE S == {k \in Nat : Above(0)[k] = 0}
  <2>1. 0 \div Slots = 0
    BY FsmAssumption
  <2>2. 0 \in S
    BY AboveDef
  <2>3. ASSUME NEW k \in Nat, k \in S PROVE k + 1 \in S
    <3>1. Above(0)[k + 1] = Above(0)[k] \div Slots
      BY AboveDef
    <3> QED
      BY <2>1, <2>3, <3>1
  <2> HIDE DEF S
  <2>4. Nat \subseteq S
    BY <2>2, <2>3, SetInduction
  <2> QED
    BY <2>4 DEF S
<1>4. \A k \in Nat : FirstBelow(k, 0) = 0
  <2> DEFINE S == {k \in Nat : FirstBelow(k, 0) = 0}
  <2>1. 0 * Slots = 0
    BY FsmAssumption
  <2>2. 0 \in S
    BY FirstBelowDef
  <2>3. ASSUME NEW k \in Nat, k \in S PROVE k + 1 \in S
    <3>1. FirstBelow(k + 1, 0) = FirstBelow(k, 0) * Slots
      BY FirstBelowDef
    <3> QED
      BY <2>1, <2>3, <3>1
  <2> HIDE DEF S
  <2>4. Nat \subseteq S
    BY <2>2, <2>3, SetInduction
  <2> QED
    BY <2>4 DEF S
<1>5. PagesUpTo(0) = Depth
  <2>1. PICK pages \in [Nat -> Nat] :
              /\ pages[0] = 0
              /\ \A k \in Nat : pages[k + 1] = pages[k] + Above(0)[k] + 1
              /\ PagesUpTo(0) = pages[Depth]
    BY PagesUpToDef
  <2> DEFINE S == {k \in Nat : pages[k] = k}
  <2>2. 0 \in S
    BY <2>1
  <2>3. ASSUME NEW k \in Nat, k \in S PROVE k + 1 \in S
    <3>1. pages[k + 1] = pages[k] + Above(0)[k] + 1
      BY <2>1
    <3> QED
      BY <1>3, <2>3, <3>1
  <2> HIDE DEF S
  <2>4. Nat \subseteq S
    BY <2>2, <2>3, SetInduction
  <2>5. pages[Depth] = Depth
    BY <1>1, <2>4 DEF S
  <2> QED
    BY <2>1, <2>5
<1> QED
  BY <1>2, <1>3, <1>4, <1>5

\* With the next leaf come the pages of the nodes it is the first leaf of.
LEMMA NextLeaf ==
    ASSUME NEW n \in Nat
    PROVE  \E c \in 1..Depth :
              /\ PagesUpTo(n + 1) = PagesUpTo(n) + c
              /\ \A k \in 0..(c - 1) : FirstBelow(k, Above(n + 1)[k]) = n + 1
              /\ \A k \in c..(Depth - 1) : Above(n + 1)[k] = Above(n)[k]
<1>1. PICK pages \in [Nat -> Nat] :
              /\ pages[0] = 0
              /\ \A k \in Nat : pages[k + 1] = pages[k] + Above(n)[k] + 1
              /\ PagesUpTo(n) = pages[Depth]
  BY PagesUpToDef
<1>2. PICK more \in [Nat -> Nat] :
              /\ more[0] = 0
              /\ \A k \in Nat : more[k + 1] = more[k] + Above(n + 1)[k] + 1
              /\ PagesUpTo(n + 1) = more[Depth]
  <2>1. n + 1 \in Nat
    OBVIOUS
  <2> QED
    BY <2>1, PagesUpToDef
<1>3. \A k \in Nat : Above(n)[k] \in Nat /\ Above(n + 1)[k] \in Nat
  <2>1. n + 1 \in Nat
    OBVIOUS
  <2>2. ASSUME NEW m \in Nat, NEW k \in Nat PROVE Above(m)[k] \in Nat
    BY AboveDef
  <2> QED
    BY <2>1, <2>2
<1> DEFINE Comes(c, k) ==
        /\ more[k] = pages[k] + c
        /\ \A j \in 0..(c - 1) : FirstBelow(j, Above(n + 1)[j]) = n + 1
        /\ \A j \in c..(k - 1) : Above(n + 1)[j] = Above(n)[j]
        /\ c < k => Above(n + 1)[k] = Above(n)[k]
           S == {k \in Nat : \E c \in 0..k : (k > 0 => c > 0) /\ Comes(c, k)}
<1>4. 0 \in S
  <2>1. Comes(0, 0)
    BY <1>1, <1>2
  <2> QED
    BY <2>1
<1>5. ASSUME NEW k \in Nat, k \in S PROVE k + 1 \in S
  <2>1. PICK c \in 0..k : (k > 0 => c > 0) /\ Comes(c, k)
    BY <1>5
  <2>2. /\ more[k + 1] = more[k] + Above(n + 1)[k] + 1
        /\ pages[k + 1] = pages[k] + Above(n)[k] + 1
        /\ more[k] \in Nat /\ pages[k] \in Nat
        /\ Above(n)[k] \in Nat /\ Above(n + 1)[k] \in Nat
    BY <1>1, <1>2, <1>3
  <2>3. CASE Above(n + 1)[k] = Above(n)[k] /\ Above(n + 1)[k + 1] = Above(n)[k + 1]
    <3>1. k > 0
      <4>1. n + 1 \in Nat /\ Above(n)[0] = n
        BY AboveDef
      <4>2. Above(n + 1)[0] = n + 1
        BY <4>1, AboveDef
      <4> QED
        BY <2>3, <4>1, <4>2
    <3>2. more[k + 1] = pages[k + 1] + c
      BY <2>1, <2>2, <2>3
    <3>3. \A j \in c..k : Above(n + 1)[j] = Above(n)[j]
      <4>1. \A j \in c..k : j = k \/ j \in c..(k - 1)
        OBVIOUS
      <4> QED
        BY <2>1, <2>3, <4>1
    <3>4. Comes(c, k + 1)
      <4>1. (k + 1) - 1 = k
        OBVIOUS
      <4> QED
        BY <2>1, <2>3, <3>2, <3>3, <4>1
    <3>5. c \in 0..(k + 1) /\ c > 0
      BY <2>1, <3>1
    <3> HIDE DEF Comes
    <3> QED
      BY <3>4, <3>5
  <2>4. CASE Above(n + 1)[k] = Above(n)[k] + 1 /\ FirstBelow(k, Above(n + 1)[k]) = n + 1
    <3>1. c = k
      BY <2>1, <2>2, <2>4
    <3>2. more[k + 1] = pages[k + 1] + (k + 1)
      BY <2>1, <2>2, <2>4, <3>1
    <3>3. \A j \in 0..k : FirstBelow(j, Above(n + 1)[j]) = n + 1
      <4>1. \A j \in 0..k : j = k \/ j \in 0..(c - 1)
        BY <3>1
      <4> QED
        BY <2>1, <2>4, <4>1
    <3>4. Comes(k + 1, k + 1)
      <4>1. (k + 1) - 1 = k /\ (k + 1)..k = {}
        OBVIOUS
      <4> QED
        BY <3>2, <3>3, <4>1
    <3> HIDE DEF Comes
    <3> QED
      BY <3>4
  <2> QED
    BY <2>3, <2>4, Carry
<1> HIDE DEF S
<1>6. Nat \subseteq S
  BY <1>4, <1>5, SetInduction
<1>7. Depth \in Nat /\ Depth > 0
  BY FsmAssumption
<1> USE DEF S
<1>8. PICK c \in 0..Depth : c > 0 /\ Comes(c, Depth)
  BY <1>6, <1>7
<1>9. c \in 1..Depth
  BY <1>7, <1>8
<1>10. PagesUpTo(n + 1) = PagesUpTo(n) + c
  BY <1>1, <1>2, <1>8
<1> QED
  BY <1>8, <1>9, <1>10

LEMMA PagesGrow ==
    ASSUME NEW m \in Nat, NEW n \in Nat, m <= n
    PROVE  PagesUpTo(m) <= PagesUpTo(n)
<1> DEFINE S == {k \in Nat : m <= k => PagesUpTo(m) <= PagesUpTo(k)}
<1>1. \A k \in Nat : PagesUpTo(k) \in Nat
  BY PageOfEachLevel
<1>2. 0 \in S
  BY <1>1
<1>3. ASSUME NEW k \in Nat, k \in S PROVE k + 1 \in S
  <2>1. CASE m <= k
    <3>1. PICK c \in 1..Depth : PagesUpTo(k + 1) = PagesUpTo(k) + c
      BY NextLeaf
    <3>2. PagesUpTo(m) <= PagesUpTo(k) /\ PagesUpTo(k) \in Nat /\ PagesUpTo(m) \in Nat
      BY <1>1, <1>3, <2>1
    <3>3. PagesUpTo(m) <= PagesUpTo(k + 1)
      BY <3>1, <3>2, FsmAssumption
    <3> QED
      BY <3>3
  <2>2. CASE m = k + 1
    BY <1>1, <2>2
  <2> QED
    BY <2>1, <2>2
<1> HIDE DEF S
<1>4. Nat \subseteq S
  BY <1>2, <1>3, SetInduction
<1> QED
  BY <1>4 DEF S

\* Nodes have numbers in the order of their first leaves,
LEMMA IdsInOrder ==
    ASSUME NEW l \in Levels, NEW m \in Levels, NEW a \in Nat, NEW b \in Nat,
           FirstBelow(l, a) < FirstBelow(m, b)
    PROVE  FsmPageId(l, a) < FsmPageId(m, b)
<1>1. /\ l \in Nat /\ m \in Nat /\ Depth \in Nat /\ m < Depth
      /\ FirstBelow(l, a) \in Nat /\ FirstBelow(m, b) \in Nat
  BY FsmAssumption, FirstBelowDef DEF Levels
<1>2. PICK z \in Nat : FirstBelow(m, b) = z + 1
  <2>1. FirstBelow(m, b) - 1 \in Nat /\ FirstBelow(m, b) = (FirstBelow(m, b) - 1) + 1
    BY <1>1
  <2> QED
    BY <2>1
<1>3. PICK c \in 1..Depth :
          /\ PagesUpTo(z + 1) = PagesUpTo(z) + c
          /\ \A k \in c..(Depth - 1) : Above(z + 1)[k] = Above(z)[k]
  BY NextLeaf
<1>4. m < c
  <2>1. SUFFICES ASSUME m \in c..(Depth - 1) PROVE FALSE
    BY <1>1, <1>3
  <2>2. Above(z + 1)[m] = b
    BY <1>1, <1>2, FirstIsFirst
  <2>3. Above(z)[m] = b
    BY <1>3, <2>1, <2>2
  <2>4. FirstBelow(m, b) <= z
    BY <1>1, <2>3, FirstIsFirst
  <2> QED
    BY <1>2, <2>4
<1>5. PagesUpTo(FirstBelow(l, a)) <= PagesUpTo(z)
  <2>1. FirstBelow(l, a) <= z
    BY <1>1, <1>2
  <2> QED
    BY <1>1, <2>1, PagesGrow
<1>6. PagesUpTo(FirstBelow(l, a)) \in Nat /\ PagesUpTo(z) \in Nat
  BY <1>1, PageOfEachLevel
<1>7. FsmPageId(l, a) = PagesUpTo(FirstBelow(l, a)) - l /\ FsmPageId(m, b) = PagesUpTo(z + 1) - m
  BY <1>2 DEF FsmPageId
<1> QED
  BY <1>1, <1>3, <1>4, <1>5, <1>6, <1>7

\* ... so that no two of them have the same.
LEMMA IdsDiffer ==
    ASSUME NEW l \in Levels, NEW m \in Levels, NEW a \in Nat, NEW b \in Nat,
           FsmPageId(l, a) = FsmPageId(m, b)
    PROVE  l = m /\ a = b
<1>1. /\ l \in Nat /\ m \in Nat
      /\ FirstBelow(l, a) \in Nat /\ FirstBelow(m, b) \in Nat
  BY FsmAssumption, FirstBelowDef DEF Levels
<1>2. PagesUpTo(FirstBelow(l, a)) \in Nat /\ PagesUpTo(FirstBelow(m, b)) \in Nat
  BY <1>1, PageOfEachLevel
<1>3. FsmPageId(l, a) \in Int /\ FsmPageId(m, b) \in Int
  BY <1>1, <1>2 DEF FsmPageId
<1>4. ~(FirstBelow(l, a) < FirstBelow(m, b)) /\ ~(FirstBelow(m, b) < FirstBelow(l, a))
  <2>1. ~(FirstBelow(l, a) < FirstBelow(m, b))
    BY <1>3, IdsInOrder
  <2>2. ~(FirstBelow(m, b) < FirstBelow(l, a))
    BY <1>3, IdsInOrder
  <2> QED
    BY <2>1, <2>2
<1>5. FirstBelow(l, a) = FirstBelow(m, b)
  BY <1>1, <1>4
<1>6. l = m
  BY <1>1, <1>2, <1>5 DEF FsmPageId
<1>7. Above(FirstBelow(l, a))[l] = a /\ Above(FirstBelow(m, b))[m] = b
  BY <1>1, FirstIsFirst
<1> QED
  BY <1>5, <1>6, <1>7

\* A page id is a positive number, that of the root is 1.
LEMMA IdsArePositive ==
    /\ \A l \in Levels, a \in Nat : FsmPageId(l, a) \in Nat /\ FsmPageId(l, a) > 0
    /\ \A l \in Levels : FsmPageId(l, 0) = Depth - l
<1>1. ASSUME NEW l \in Levels, NEW a \in Nat
      PROVE  FsmPageId(l, a) \in Nat /\ FsmPageId(l, a) > 0
  <2>1. l \in Nat /\ l < Depth /\ Depth \in Nat /\ FirstBelow(l, a) \in Nat
    BY FsmAssumption, FirstBelowDef DEF Levels
  <2>2. PagesUpTo(FirstBelow(l, a)) \in Nat /\ PagesUpTo(FirstBelow(l, a)) >= Depth
    BY <2>1, PageOfEachLevel
  <2> QED
    BY <2>1, <2>2 DEF FsmPageId
<1>2. ASSUME NEW l \in Levels PROVE FsmPageId(l, 0) = Depth - l
  <2>1. l \in Nat
    BY DEF Levels
  <2>2. FirstBelow(l, 0) = 0 /\ PagesUpTo(0) = Depth
    BY <2>1, PageOfEachLevel
  <2> QED
    BY <2>2 DEF FsmPageId
<1> QED
  BY <1>1, <1>2

LEMMA NodesAreNumbers ==
    ASSUME NEW h \in Nat \ {0}, NEW l \in Levels
    PROVE  /\ NodeAt(h, l) \in Nat /\ SlotAt(h, l) \in SlotIds
           /\ Above(h - 1)[l] \in Nat
           /\ NodeAt(h, l) = Above(h - 1)[l] \div Slots /\ SlotAt(h, l) = Above(h - 1)[l] % Slots
<1>1. l \in Nat /\ h - 1 \in Nat
  BY DEF Levels
<1>2. Above(h - 1)[l] \in Nat /\ Above(h - 1)[l + 1] = Above(h - 1)[l] \div Slots
  BY <1>1, AboveDef
<1> QED
  BY <1>2, Division DEF NodeAt, SlotAt

\* A node comes after the nodes above it.
LEMMA AncestorsComeFirst ==
    ASSUME NEW h \in Nat \ {0}, NEW l \in Levels, NEW m \in Levels, l < m
    PROVE  FsmPageId(m, NodeAt(h, m)) < FsmPageId(l, NodeAt(h, l))
<1>1. h - 1 \in Nat /\ l \in Nat /\ m \in Nat /\ l + 1 \in Nat /\ m + 1 \in Nat
  BY DEF Levels
<1>2. NodeAt(h, l) \in Nat /\ NodeAt(h, m) \in Nat
  BY NodesAreNumbers
<1> DEFINE leaf  == FirstBelow(l, NodeAt(h, l))
           first == FirstBelow(m, NodeAt(h, m))
<1>3. leaf \in Nat /\ first \in Nat
  BY <1>1, <1>2, FirstBelowDef
<1>4. first <= leaf
  <2> DEFINE S == {k \in Nat : Above(leaf)[l + k] = NodeAt(h, l + k)}
  <2>1. \A k \in Nat : l + k \in Nat /\ (l + k) + 1 = l + (k + 1) /\ (l + k) + 1 \in Nat
    BY <1>1
  <2>2. 0 \in S
    <3>1. Above(leaf)[l] = NodeAt(h, l) /\ l + 0 = l
      BY <1>1, <1>2, FirstIsFirst
    <3> QED
      BY <3>1
  <2>3. ASSUME NEW k \in Nat, k \in S PROVE k + 1 \in S
    <3>1. PICK j : j = l + k
      OBVIOUS
    <3>2. j \in Nat /\ j + 1 \in Nat /\ l + (k + 1) = j + 1
      BY <2>1, <3>1
    <3>3. Above(leaf)[j + 1] = Above(leaf)[j] \div Slots
      BY <1>3, <3>2, AboveDef
    <3>4. Above(h - 1)[j + 1 + 1] = Above(h - 1)[j + 1] \div Slots
      BY <1>1, <3>2, AboveDef
    <3>5. Above(leaf)[j + 1] = NodeAt(h, j + 1)
      BY <2>3, <3>1, <3>3, <3>4 DEF NodeAt
    <3> QED
      BY <3>2, <3>5
  <2> HIDE DEF S
  <2>4. m - l \in S
    BY <1>1, <2>2, <2>3, SetInduction
  <2>5. l + (m - l) = m
    BY <1>1
  <2>6. Above(leaf)[m] = NodeAt(h, m)
    BY <2>4, <2>5 DEF S
  <2> QED
    BY <1>1, <1>3, <2>6, FirstIsFirst
<1>5. CASE first < leaf
  BY <1>2, <1>5, IdsInOrder
<1>6. CASE first = leaf
  <2>1. PagesUpTo(leaf) \in Nat
    BY <1>3, PageOfEachLevel
  <2>2. /\ FsmPageId(m, NodeAt(h, m)) = PagesUpTo(leaf) - m
        /\ FsmPageId(l, NodeAt(h, l)) = PagesUpTo(leaf) - l
    BY <1>6 DEF FsmPageId
  <2> QED
    BY <1>1, <2>1, <2>2
<1> QED
  BY <1>3, <1>4, <1>5, <1>6

\* ... so that there are all of them once there is the leaf.
LEMMA LeafIsLast ==
    ASSUME NEW h \in Nat \ {0}, NEW l \in Levels
    PROVE  FsmPageId(l, NodeAt(h, l)) <= FsmPageId(0, NodeAt(h, 0))
<1>1. 0 \in Levels /\ l \in Nat
  BY FsmAssumption DEF Levels
<1>2. FsmPageId(l, NodeAt(h, l)) \in Nat /\ FsmPageId(0, NodeAt(h, 0)) \in Nat
  BY <1>1, NodesAreNumbers, IdsArePositive
<1>3. CASE l = 0
  BY <1>2, <1>3
<1>4. CASE l # 0
  <2>1. 0 < l
    BY <1>1, <1>4
  <2>2. FsmPageId(l, NodeAt(h, l)) < FsmPageId(0, NodeAt(h, 0))
    BY <1>1, <2>1, AncestorsComeFirst
  <2> QED
    BY <1>2, <2>2
<1> QED
  BY <1>3, <1>4

\* The numbering of logical_addr_to_fms_page_id: no two nodes of the map share an
\* FSM page, and a node comes after its parent.
THEOREM NodesAreApart == NodesHaveDistinctPages
<1> SUFFICES ASSUME NEW h \in 1..Capacity, NEW g \in 1..Capacity, NEW l \in Levels, NEW m \in Levels
             PROVE  /\ FsmPageId(l, NodeAt(h, l)) = FsmPageId(m, NodeAt(g, m))
                           => l = m /\ NodeAt(h, l) = NodeAt(g, m)
                    /\ l < m => FsmPageId(m, NodeAt(h, m)) < FsmPageId(l, NodeAt(h, l))
  BY DEF NodesHaveDistinctPages
<1>1. h \in Nat \ {0} /\ g \in Nat \ {0}
  OBVIOUS
<1>2. NodeAt(h, l) \in Nat /\ NodeAt(g, m) \in Nat
  BY <1>1, NodesAreNumbers
<1>3. FsmPageId(l, NodeAt(h, l)) = FsmPageId(m, NodeAt(g, m))
          => l = m /\ NodeAt(h, l) = NodeAt(g, m)
  BY <1>2, IdsDiffer
<1> QED
  BY <1>1, <1>3, AncestorsComeFirst

\* Every page up to that of a leaf is the page of a node.
LEMMA PagesAreNodes ==
    ASSUME NEW n \in Nat, NEW id \in 1..PagesUpTo(n)
    PROVE  \E leaf \in 0..n, l \in Levels : id = FsmPageId(l, Above(leaf)[l])
<1>0. Depth \in Nat /\ Depth > 0
  BY FsmAssumption
<1>1. \A k \in Nat : PagesUpTo(k) \in Nat
  BY PageOfEachLevel
<1> DEFINE S == {k \in Nat : \A i \in 1..PagesUpTo(k) :
                    \E leaf \in 0..k, l \in Levels : i = FsmPageId(l, Above(leaf)[l])}
<1>2. 0 \in S
  <2>1. SUFFICES ASSUME NEW i \in 1..Depth
                 PROVE  \E l \in Levels : i = FsmPageId(l, Above(0)[l])
    BY PageOfEachLevel
  <2>2. Depth - i \in Levels /\ Depth - i \in Nat /\ Depth - (Depth - i) = i
    BY <1>0 DEF Levels
  <2>3. FsmPageId(Depth - i, Above(0)[Depth - i]) = i
    BY <2>2, PageOfEachLevel, IdsArePositive
  <2> QED
    BY <2>2, <2>3
<1>3. ASSUME NEW k \in Nat, k \in S PROVE k + 1 \in S
  <2>1. SUFFICES ASSUME NEW i \in 1..PagesUpTo(k + 1)
                 PROVE  \E leaf \in 0..(k + 1), l \in Levels : i = FsmPageId(l, Above(leaf)[l])
    OBVIOUS
  <2>2. PICK c \in 1..Depth :
            /\ PagesUpTo(k + 1) = PagesUpTo(k) + c
            /\ \A l \in 0..(c - 1) : FirstBelow(l, Above(k + 1)[l]) = k + 1
    BY NextLeaf
  <2>3. CASE i \in 1..PagesUpTo(k)
    <3>1. PICK leaf \in 0..k, l \in Levels : i = FsmPageId(l, Above(leaf)[l])
      BY <1>3, <2>3
    <3>2. leaf \in 0..(k + 1)
      OBVIOUS
    <3> QED
      BY <3>1, <3>2
  <2>4. CASE i \notin 1..PagesUpTo(k)
    <3> DEFINE l == PagesUpTo(k + 1) - i
    <3>1. PagesUpTo(k) \in Nat /\ PagesUpTo(k + 1) \in Nat
      BY <1>1
    <3>2. l \in 0..(c - 1) /\ l \in Levels
      BY <1>0, <2>2, <2>4, <3>1 DEF Levels
    <3>3. PagesUpTo(k + 1) - l = i
      BY <3>1
    <3> HIDE DEF l
    <3>4. FsmPageId(l, Above(k + 1)[l]) = i
      BY <2>2, <3>2, <3>3 DEF FsmPageId
    <3>5. k + 1 \in 0..(k + 1)
      OBVIOUS
    <3> QED
      BY <3>2, <3>4, <3>5
  <2> QED
    BY <2>3, <2>4
<1> HIDE DEF S
<1>4. Nat \subseteq S
  BY <1>2, <1>3, SetInduction
<1>5. n \in S
  BY <1>4
<1> QED
  BY <1>5 DEF S

\* The heap pages that have slots are those below the root.
LEMMA BelowTheRoot ==
    /\ Capacity \in Nat /\ Capacity > 0
    /\ \A h \in 1..Capacity : NodeAt(h, RootLevel) = 0
<1>0. Depth \in Nat /\ 1 \in Nat
  BY FsmAssumption
<1>1. \A a \in Nat, k \in Nat : FirstBelow(k, a) \in Nat
  BY FirstBelowDef
<1>2. \A k \in Nat : /\ FirstBelow(k, 1) > 0
                    /\ \A a \in Nat \ {0} : FirstBelow(k, 1) <= FirstBelow(k, a)
  <2> DEFINE S == {k \in Nat : /\ FirstBelow(k, 1) > 0
                             /\ \A a \in Nat \ {0} : FirstBelow(k, 1) <= FirstBelow(k, a)}
  <2>1. 0 \in S
    <3>1. \A a \in Nat : FirstBelow(0, a) = a
      BY FirstBelowDef
    <3> QED
      BY <3>1
  <2>2. ASSUME NEW k \in Nat, k \in S PROVE k + 1 \in S
    <3>1. \A a \in Nat : FirstBelow(k + 1, a) = FirstBelow(k, a) * Slots
      BY FirstBelowDef
    <3>2. \A x \in Nat, y \in Nat : x <= y => x * Slots <= y * Slots
      BY FsmAssumption
    <3>3. \A x \in Nat : x > 0 => x * Slots > 0
      BY FsmAssumption
    <3>4. FirstBelow(k + 1, 1) > 0
      BY <1>1, <2>2, <3>1, <3>3
    <3>5. ASSUME NEW a \in Nat \ {0} PROVE FirstBelow(k + 1, 1) <= FirstBelow(k + 1, a)
      BY <1>1, <2>2, <3>1, <3>2
    <3> QED
      BY <3>4, <3>5
  <2> HIDE DEF S
  <2>3. Nat \subseteq S
    BY <2>1, <2>2, SetInduction
  <2> QED
    BY <2>3 DEF S
<1>3. Capacity \in Nat /\ Capacity > 0
  BY <1>0, <1>1, <1>2 DEF Capacity
<1>4. ASSUME NEW h \in 1..Capacity PROVE NodeAt(h, RootLevel) = 0
  <2>1. h - 1 \in Nat /\ h - 1 < Capacity /\ RootLevel + 1 = Depth
    BY <1>0, <1>3 DEF RootLevel
  <2> DEFINE a == Above(h - 1)[Depth]
  <2>2. a \in Nat
    BY <1>0, <2>1, AboveDef
  <2>3. FirstBelow(Depth, a) <= h - 1
    BY <1>0, <2>1, FirstIsFirst
  <2>4. NodeAt(h, RootLevel) = a
    BY <2>1 DEF NodeAt
  <2> HIDE DEF a
  <2>5. a # 0 => Capacity <= FirstBelow(Depth, a)
    BY <1>0, <1>2, <2>2 DEF Capacity
  <2>6. FirstBelow(Depth, a) \in Nat
    BY <1>0, <1>1, <2>2
  <2> QED
    BY <1>3, <2>1, <2>2, <2>3, <2>4, <2>5, <2>6
<1> QED
  BY <1>3, <1>4

---------------------------------------------------------------------------
(* The categories of the map, by level and number. *)

Entry(f, l, n) ==
    IF FsmPageId(l, n \div Slots) \in DOMAIN f
    THEN f[FsmPageId(l, n \div Slots)][n % Slots] ELSE 0

Map == Seq([SlotIds -> Space])

LEMMA ExtendedMap ==
    ASSUME NEW f \in Map, NEW id \in Nat
    PROVE  /\ Extended(f, id) \in Map
           /\ Len(Extended(f, id)) >= id /\ Len(Extended(f, id)) >= Len(f)
           /\ Len(Extended(f, id)) \in {id, Len(f)}
           /\ \A l \in Levels, n \in Nat : Entry(Extended(f, id), l, n) = Entry(f, l, n)
<1> DEFINE last == Max({id, Len(f)})
<1>1. last \in {id, Len(f)} /\ last >= id /\ last >= Len(f)
  <2>1. Len(f) \in Nat
    BY DEF Map
  <2>2. {id, Len(f)} \in SUBSET Nat /\ {id, Len(f)} # {} /\ id + Len(f) \in Nat
        /\ \A x \in {id, Len(f)} : x <= id + Len(f)
    BY <2>1
  <2> QED
    BY <2>2, MaxIsGreatest
<1>2. Extended(f, id) = [i \in 1..last |-> IF i <= Len(f) THEN f[i] ELSE EmptyFsmPage]
  BY DEF Extended
<1> HIDE DEF last
<1>3. last \in Nat
  BY <1>1 DEF Map
<1>4. EmptyFsmPage \in [SlotIds -> Space]
  BY DEF EmptyFsmPage, Space
<1>5. Extended(f, id) \in Map /\ Len(Extended(f, id)) = last
  <2>1. \A i \in 1..last : (IF i <= Len(f) THEN f[i] ELSE EmptyFsmPage) \in [SlotIds -> Space]
    BY <1>3, <1>4 DEF Map
  <2> QED
    BY <1>2, <1>3, <2>1 DEF Map
<1>6. ASSUME NEW l \in Levels, NEW n \in Nat PROVE Entry(Extended(f, id), l, n) = Entry(f, l, n)
  <2> DEFINE i == FsmPageId(l, n \div Slots)
  <2>1. i \in Nat /\ i > 0 /\ n % Slots \in SlotIds
    BY Division, IdsArePositive
  <2>2. DOMAIN Extended(f, id) = 1..last /\ DOMAIN f = 1..Len(f) /\ Len(f) \in Nat
    BY <1>5 DEF Map
  <2> HIDE DEF i
  <2>3. CASE i \in DOMAIN f
    <3>2. i \in 1..Len(f)
      BY <2>2, <2>3
    <3>3. PICK n1, n2 : n1 = Len(f) /\ n2 = last
      OBVIOUS
    <3>4. n1 \in Nat /\ n2 \in Nat /\ n1 <= n2 /\ i \in 1..n1
      BY <1>1, <1>3, <2>2, <3>2, <3>3
    <3>0. i \in 1..last /\ i <= Len(f)
      BY <3>3, <3>4
    <3>1. i \in DOMAIN Extended(f, id) /\ Extended(f, id)[i] = f[i]
      BY <1>2, <3>0
    <3> QED
      BY <2>3, <3>1 DEF Entry, i
  <2>4. CASE i \notin DOMAIN f /\ i \in DOMAIN Extended(f, id)
    <3>1. Extended(f, id)[i] = EmptyFsmPage
      BY <1>2, <2>1, <2>2, <2>4
    <3>2. Extended(f, id)[i][n % Slots] = 0
      BY <2>1, <3>1 DEF EmptyFsmPage
    <3> QED
      BY <2>4, <3>2 DEF Entry, i
  <2>5. CASE i \notin DOMAIN f /\ i \notin DOMAIN Extended(f, id)
    BY <2>5 DEF Entry, i
  <2> QED
    BY <2>3, <2>4, <2>5
<1> QED
  BY <1>1, <1>5, <1>6

\* update puts the category of the heap page over all the numbers above it.
LEMMA UpdatedMap ==
    ASSUME NEW f \in Map, NEW h \in Nat \ {0}, NEW p, Category(p) \in Space
    PROVE  /\ Updated(f, h, p) \in Map
           /\ Len(Updated(f, h, p)) \in {FsmPageId(0, NodeAt(h, 0)), Len(f)}
           /\ \A l \in Levels, n \in Nat :
                 Entry(Updated(f, h, p), l, n) =
                     IF n = Above(h - 1)[l] THEN Category(p) ELSE Entry(f, l, n)
<1> DEFINE leaf      == FsmPageId(0, NodeAt(h, 0))
           extended  == Extended(f, leaf)
           OnPath(id, s) == \E l \in Levels : id = FsmPageId(l, NodeAt(h, l)) /\ s = SlotAt(h, l)
<1>1. 0 \in Levels /\ leaf \in Nat
  <2>1. 0 \in Levels
    BY FsmAssumption DEF Levels
  <2> QED
    BY <2>1, NodesAreNumbers, IdsArePositive
<1>2. Updated(f, h, p) = [id \in DOMAIN extended |-> [s \in SlotIds |->
           IF OnPath(id, s) THEN Category(p) ELSE extended[id][s]]]
  BY DEF Updated
<1> HIDE DEF leaf
<1>3. /\ extended \in Map /\ Len(extended) >= leaf /\ Len(extended) \in {leaf, Len(f)}
      /\ \A l \in Levels, n \in Nat : Entry(extended, l, n) = Entry(f, l, n)
  BY <1>1, ExtendedMap
<1> HIDE DEF extended, OnPath
<1>4. Updated(f, h, p) \in Map /\ Len(Updated(f, h, p)) = Len(extended)
      /\ DOMAIN Updated(f, h, p) = DOMAIN extended
  <2>1. DOMAIN extended = 1..Len(extended) /\ Len(extended) \in Nat
    BY <1>3 DEF Map
  <2>2. \A id \in DOMAIN extended : extended[id] \in [SlotIds -> Space]
    BY <1>3 DEF Map
  <2>3. \A id \in DOMAIN extended :
            [s \in SlotIds |-> IF OnPath(id, s) THEN Category(p) ELSE extended[id][s]]
                \in [SlotIds -> Space]
    BY <2>2
  <2>4. Updated(f, h, p) \in [1..Len(extended) -> [SlotIds -> Space]]
    BY <1>2, <2>1, <2>3
  <2> QED
    BY <2>1, <2>4 DEF Map
<1>5. ASSUME NEW l \in Levels, NEW n \in Nat
      PROVE  Entry(Updated(f, h, p), l, n) =
                 IF n = Above(h - 1)[l] THEN Category(p) ELSE Entry(f, l, n)
  <2>1. PICK id, s : id = FsmPageId(l, n \div Slots) /\ s = n % Slots
    OBVIOUS
  <2>2. n \div Slots \in Nat /\ s \in SlotIds /\ n = (n \div Slots) * Slots + s
    BY <2>1, Division
  <2>3. Entry(Updated(f, h, p), l, n) =
            IF id \in DOMAIN extended
            THEN IF OnPath(id, s) THEN Category(p) ELSE extended[id][s] ELSE 0
    BY <1>2, <1>4, <2>1, <2>2 DEF Entry
  <2>4. Entry(f, l, n) = IF id \in DOMAIN extended THEN extended[id][s] ELSE 0
    BY <1>3, <2>1 DEF Entry
  <2>5. OnPath(id, s) <=> n = Above(h - 1)[l]
    <3>1. ASSUME OnPath(id, s) PROVE n = Above(h - 1)[l]
      <4>1. PICK m \in Levels : id = FsmPageId(m, NodeAt(h, m)) /\ s = SlotAt(h, m)
        BY <3>1 DEF OnPath
      <4>2. NodeAt(h, m) \in Nat
        BY NodesAreNumbers
      <4>3. l = m /\ n \div Slots = NodeAt(h, m)
        BY <2>1, <2>2, <4>1, <4>2, IdsDiffer
      <4>4. n \div Slots = Above(h - 1)[l] \div Slots /\ s = Above(h - 1)[l] % Slots
            /\ Above(h - 1)[l] \in Nat
        BY <4>1, <4>3, NodesAreNumbers
      <4>5. Above(h - 1)[l] =
                (Above(h - 1)[l] \div Slots) * Slots + (Above(h - 1)[l] % Slots)
        BY <4>4, Division
      <4> QED
        BY <2>2, <4>4, <4>5
    <3>2. ASSUME n = Above(h - 1)[l] PROVE OnPath(id, s)
      <4>1. NodeAt(h, l) = n \div Slots /\ SlotAt(h, l) = n % Slots
        BY <3>2, NodesAreNumbers
      <4> QED
        BY <2>1, <4>1 DEF OnPath
    <3> QED
      BY <3>1, <3>2
  <2>6. n = Above(h - 1)[l] => id \in DOMAIN extended
    <3>1. SUFFICES ASSUME n = Above(h - 1)[l] PROVE id \in DOMAIN extended
      OBVIOUS
    <3>2. id = FsmPageId(l, NodeAt(h, l))
      BY <2>1, <3>1, NodesAreNumbers
    <3>3. id \in Nat /\ id > 0
      BY <2>1, <2>2, IdsArePositive
    <3>4. id <= leaf
      BY <3>2, LeafIsLast DEF leaf
    <3>5. DOMAIN extended = 1..Len(extended) /\ Len(extended) \in Nat
      BY <1>3 DEF Map
    <3> QED
      <4>1. leaf \in Nat /\ leaf <= Len(extended)
        BY <1>1, <1>3, <3>5
      <4>2. id <= Len(extended)
        BY <3>3, <3>4, <3>5, <4>1
      <4> QED
        BY <3>3, <3>5, <4>2
  <2> QED
    BY <2>3, <2>4, <2>5, <2>6
<1> QED
  BY <1>3, <1>4, <1>5 DEF leaf

---------------------------------------------------------------------------
(* Heap pages. *)

Slot     == [length : 1..PageDataSize, deleted : BOOLEAN]
HeapPage == Seq(Slot)

LEMMA SlotsOfPage ==
    ASSUME NEW p \in HeapPage
    PROVE  /\ Len(p) \in Nat /\ DOMAIN p = 1..Len(p)
           /\ \A i \in 1..Len(p) : /\ p[i] \in Slot /\ p[i].length \in Nat
                                  /\ p[i].length <= PageDataSize
<1>1. Len(p) \in Nat /\ DOMAIN p = 1..Len(p) /\ \A i \in 1..Len(p) : p[i] \in Slot
  BY DEF HeapPage
<1>2. \A slot \in Slot : slot.length \in 1..PageDataSize
  BY DEF Slot
<1>3. \A x \in 1..PageDataSize : x \in Nat /\ x <= PageDataSize
  BY HeapPageAssumption
<1> QED
  BY <1>1, <1>2, <1>3

LEMMA SumIsInt ==
    ASSUME NEW p \in HeapPage
    PROVE  SumOfLengths(p) \in Int
<1> DEFINE Body(g) == [i \in 0..Len(p) |-> IF i = 0 THEN 0 ELSE g[i - 1] + p[i].length]
           sum     == CHOOSE g : g = Body(g)
<1>0. Len(p) \in Nat /\ \A i \in 1..Len(p) : p[i].length \in Int
  BY SlotsOfPage
<1>1. \E g : g = Body(g)
  <2> DEFINE step == [q \in Nat \X Int |->
                         IF q[1] < Len(p) THEN q[2] + p[q[1] + 1].length ELSE q[2]]
             Possible(T) ==
                 \A b \in T : \A st \in [Nat \X T -> T] :
                     \E f \in [Nat -> T] : f[0] = b /\ \A n \in Nat : f[n + 1] = st[<<n, f[n]>>]
  <2>1. step \in [Nat \X Int -> Int]
    <3>1. \A q \in Nat \X Int : q[1] < Len(p) => p[q[1] + 1].length \in Int
      BY <1>0
    <3> QED
      BY <3>1
  <2> HIDE DEF step
  <2>2. \A T : Possible(T)
    BY RecursionExists
  <2> HIDE DEF Possible
  <2>3. Possible(Int)
    BY <2>2
  <2>4. \A b \in Int : \E f \in [Nat -> Int] :
            f[0] = b /\ \A n \in Nat : f[n + 1] = step[<<n, f[n]>>]
    BY <2>1, <2>3 DEF Possible
  <2>8. \E f \in [Nat -> Int] : f[0] = 0 /\ \A n \in Nat : f[n + 1] = step[<<n, f[n]>>]
    <3>1. 0 \in Int
      OBVIOUS
    <3> QED
      BY <2>4, <3>1, Zenon
  <2>5. PICK f \in [Nat -> Int] : f[0] = 0 /\ \A n \in Nat : f[n + 1] = step[<<n, f[n]>>]
    BY <2>8
  <2> DEFINE g == [i \in 0..Len(p) |-> f[i]]
  <2>6. ASSUME NEW i \in 0..Len(p), i # 0 PROVE f[i] = f[i - 1] + p[i].length
    <3>1. i - 1 \in Nat /\ i - 1 < Len(p) /\ (i - 1) + 1 = i
      BY <1>0, <2>6
    <3>2. f[(i - 1) + 1] = step[<<i - 1, f[i - 1]>>]
      BY <2>5, <3>1
    <3>3. step[<<i - 1, f[i - 1]>>] = f[i - 1] + p[(i - 1) + 1].length
      BY <3>1 DEF step
    <3> QED
      BY <3>1, <3>2, <3>3
  <2>7. g = Body(g)
    <3>1. ASSUME NEW i \in 0..Len(p)
          PROVE  g[i] = IF i = 0 THEN 0 ELSE g[i - 1] + p[i].length
      <4>1. CASE i = 0
        BY <2>5, <4>1
      <4>2. CASE i # 0
        <5>1. i - 1 \in 0..Len(p)
          BY <1>0, <4>2
        <5> QED
          BY <2>6, <4>2, <5>1
      <4> QED
        BY <4>1, <4>2
    <3> QED
      BY <3>1
  <2> QED
    BY <2>7
<1>2. sum = Body(sum)
  BY <1>1
<1>3. SumOfLengths(p) = sum[Len(p)]
  BY DEF SumOfLengths
<1> HIDE DEF sum
<1>4. sum[0] = 0 /\ \A i \in 1..Len(p) : sum[i] = sum[i - 1] + p[i].length
  BY <1>0, <1>2
<1> DEFINE S == {i \in Nat : i <= Len(p) => sum[i] \in Int}
<1>5. 0 \in S
  BY <1>4
<1>6. ASSUME NEW i \in Nat, i \in S PROVE i + 1 \in S
  <2>1. CASE i + 1 <= Len(p)
    <3>1. i + 1 \in 1..Len(p) /\ (i + 1) - 1 = i /\ sum[i] \in Int
      BY <1>0, <1>6, <2>1
    <3>2. sum[i + 1] = sum[i] + p[i + 1].length
      BY <1>4, <3>1
    <3> QED
      BY <1>0, <3>1, <3>2
  <2> QED
    BY <2>1
<1> HIDE DEF S
<1>7. Len(p) \in S
  BY <1>0, <1>5, <1>6, SetInduction
<1> QED
  BY <1>0, <1>3, <1>7 DEF S

LEMMA SpaceIsNat ==
    ASSUME NEW p \in HeapPage
    PROVE  MaxAvailableSpace(p) \in Nat
<1> DEFINE free  == (PageDataSize - SumOfLengths(p) - SlotSize * Len(p)) % AddressSpace
           sizes == {free} \cup {p[i].length : i \in Deleted(p)}
<1>1. PageDataSize \in Nat /\ AddressSpace \in Nat /\ AddressSpace > PageDataSize
  BY HeapPageAssumption
<1>2. free \in Nat /\ free <= AddressSpace
  <2>1. SumOfLengths(p) \in Int /\ Len(p) \in Nat /\ SlotSize \in Nat
    BY SumIsInt DEF HeapPage, SlotSize
  <2>2. PICK x : x = PageDataSize - SumOfLengths(p) - SlotSize * Len(p)
    OBVIOUS
  <2>3. x \in Int
    BY <1>1, <2>1, <2>2
  <2>4. x % AddressSpace \in Nat /\ x % AddressSpace <= AddressSpace
    BY <1>1, <2>3
  <2> QED
    BY <2>2, <2>4
<1>3. \A i \in Deleted(p) : p[i].length \in Nat /\ p[i].length <= AddressSpace
  <2>1. \A i \in Deleted(p) : i \in 1..Len(p)
    BY SlotsOfPage DEF Deleted
  <2>2. \A i \in 1..Len(p) : p[i].length \in Nat /\ p[i].length <= PageDataSize
    BY SlotsOfPage
  <2>3. \A x \in Nat : x <= PageDataSize => x <= AddressSpace
    BY <1>1
  <2> QED
    BY <2>1, <2>2, <2>3
<1> HIDE DEF free
<1>4. sizes \in SUBSET Nat /\ sizes # {} /\ \A x \in sizes : x <= AddressSpace
  BY <1>2, <1>3
<1>5. MaxAvailableSpace(p) = Max(sizes)
  BY DEF MaxAvailableSpace, free
<1> HIDE DEF sizes
<1>6. Max(sizes) \in sizes
  BY <1>1, <1>4, MaxIsGreatest
<1> QED
  BY <1>4, <1>5, <1>6

\* The category of a page is one.
LEMMA CategoryIsOne ==
    ASSUME NEW p \in HeapPage
    PROVE  Category(p) \in Space
<1>5. MaxAvailableSpace(p) \in Nat
  BY SpaceIsNat
<1>6. ASSUME NEW available \in Nat PROVE CategoryOfSpace(available) \in Space
  <2> DEFINE cat == available \div CategoryStep
  <2>1. cat \in Nat
    BY FsmAssumption
  <2> HIDE DEF cat
  <2>2. {cat, 254} \in SUBSET Nat /\ {cat, 254} # {}
    BY <2>1
  <2>3. Min({cat, 254}) \in {cat, 254} /\ \A y \in {cat, 254} : Min({cat, 254}) <= y
    BY <2>2, MinIsLeast
  <2>4. Min({cat, 254}) \in 0..255
    BY <2>1, <2>3
  <2> QED
    BY <2>4 DEF CategoryOfSpace, Space, cat
<1> QED
  BY <1>5, <1>6 DEF Category

\* The space of a page is rounded down, the space that is needed up.
LEMMA CategoryCovers ==
    ASSUME NEW available \in Nat, NEW len \in 1..MaxTuple
    PROVE  /\ Needed(len) \in Nat \ {0}
           /\ CategoryOfSpace(available) >= Needed(len) => len <= available
<1>1. /\ CategoryStep \in Nat \ {0} /\ len \in Nat /\ len > 0 /\ len <= MaxTuple
      /\ MaxTuple \in Int
  BY FsmAssumption, HeapPageAssumption DEF MaxTuple, SlotSize
<1> DEFINE cat == available \div CategoryStep
           num == (len + CategoryStep - 1) \div CategoryStep
<1>2. cat \in Nat /\ num \in Nat /\ cat * CategoryStep <= available
  BY <1>1
<1>3. len + CategoryStep - 1 <= num * CategoryStep + (CategoryStep - 1)
  BY <1>1
<1>4. Needed(len) = Min({num, 255})
  BY DEF Needed
<1>5. CategoryOfSpace(available) = IF available >= MaxTuple THEN 255 ELSE Min({cat, 254})
  BY DEF CategoryOfSpace
<1> HIDE DEF cat, num
<1>6. num * CategoryStep \in Nat /\ len <= num * CategoryStep
  BY <1>1, <1>2, <1>3
<1>7. num # 0
  BY <1>1, <1>2, <1>6
<1>8. {num, 255} \in SUBSET Nat /\ {cat, 254} \in SUBSET Nat
  BY <1>2
<1>9. Min({num, 255}) \in {num, 255} /\ \A y \in {num, 255} : Min({num, 255}) <= y
  BY <1>8, MinIsLeast
<1>10. Min({cat, 254}) \in {cat, 254} /\ \A y \in {cat, 254} : Min({cat, 254}) <= y
  BY <1>8, MinIsLeast
<1>11. Needed(len) \in Nat \ {0}
  BY <1>2, <1>4, <1>7, <1>9
<1>12. ASSUME CategoryOfSpace(available) >= Needed(len) PROVE len <= available
  <2>1. CASE available >= MaxTuple
    BY <1>1, <2>1
  <2>2. CASE ~(available >= MaxTuple)
    <3>1. cat >= Needed(len) /\ 254 >= Needed(len)
      BY <1>2, <1>5, <1>10, <1>11, <1>12, <2>2
    <3>2. Needed(len) = num
      BY <1>4, <1>9, <3>1
    <3>3. num * CategoryStep <= cat * CategoryStep
      <4>1. PICK more \in Nat : cat = num + more
        <5>1. cat - num \in Nat /\ cat = num + (cat - num)
          BY <1>2, <3>1, <3>2
        <5> QED
          BY <5>1
      <4>2. cat * CategoryStep = num * CategoryStep + more * CategoryStep
        BY <1>1, <1>2, <4>1
      <4>3. more * CategoryStep \in Nat
        BY <1>1, <4>1
      <4> QED
        BY <1>6, <4>2, <4>3
    <3>4. cat * CategoryStep \in Nat
      BY <1>1, <1>2
    <3> QED
      BY <1>1, <1>2, <1>6, <3>3, <3>4
  <2> QED
    BY <2>1, <2>2
<1> QED
  BY <1>11, <1>12

\* insert_record and delete_record on a slot directory.
LEMMA WithRecordIsPage ==
    ASSUME NEW p \in HeapPage, NEW slot \in Slot
    PROVE  WithRecord(p, slot) \in HeapPage
<1> DEFINE len    == slot.length
           exact  == {i \in Deleted(p) : p[i].length = len}
           longer == {i \in Deleted(p) : p[i].length > len}
<1>1. PICK i : i = SlotFor(p, len)
  OBVIOUS
<1>2. PageDataSize \in Nat /\ Len(p) \in Nat /\ DOMAIN p = 1..Len(p) /\ len \in 1..PageDataSize
  BY HeapPageAssumption DEF HeapPage, Slot
<1>3. exact \in SUBSET Nat /\ longer \in SUBSET Nat
  BY <1>2 DEF Deleted
<1>4. i \in exact \/ i \in longer \/ i = Len(p) + 1
  <2>1. i = IF exact # {} THEN Min(exact) ELSE IF longer # {} THEN Min(longer) ELSE Len(p) + 1
    BY <1>1 DEF SlotFor
  <2> HIDE DEF exact, longer
  <2>2. exact # {} => Min(exact) \in exact
    BY <1>3, MinIsLeast
  <2>3. longer # {} => Min(longer) \in longer
    BY <1>3, MinIsLeast
  <2> QED
    BY <2>1, <2>2, <2>3
<1>5. WithRecord(p, slot) =
          IF i > Len(p) THEN Append(p, slot)
          ELSE IF p[i].length = len THEN [p EXCEPT ![i] = slot]
          ELSE Append([p EXCEPT ![i] = slot], [p[i] EXCEPT !.length = @ - len])
  BY <1>1 DEF WithRecord
<1>6. CASE i = Len(p) + 1
  BY <1>2, <1>5, <1>6 DEF HeapPage
<1>7. CASE i \in exact
  <2>1. i \in 1..Len(p) /\ p[i].length = len
    BY <1>2, <1>7 DEF Deleted
  <2>2. [p EXCEPT ![i] = slot] \in HeapPage
    BY <2>1 DEF HeapPage
  <2> QED
    BY <1>2, <1>5, <2>1, <2>2
<1>8. CASE i \in longer
  <2>1. i \in 1..Len(p) /\ p[i].length > len
    BY <1>2, <1>8 DEF Deleted
  <2>2. p[i] \in Slot
    BY <2>1 DEF HeapPage
  <2>3. [p[i] EXCEPT !.length = @ - len] \in Slot
    <3>1. p[i].length \in 1..PageDataSize
      BY <2>2 DEF Slot
    <3>2. p[i].length - len \in 1..PageDataSize
      BY <1>2, <2>1, <3>1
    <3> HIDE DEF len
    <3> QED
      BY <2>2, <3>2 DEF Slot
  <2>4. [p EXCEPT ![i] = slot] \in HeapPage
    BY <2>1 DEF HeapPage
  <2>5. Append([p EXCEPT ![i] = slot], [p[i] EXCEPT !.length = @ - len]) \in HeapPage
    <3> HIDE DEF len
    <3> QED
      BY <2>3, <2>4 DEF HeapPage
  <2>6. ~(i > Len(p)) /\ p[i].length # len
    BY <1>2, <2>1, <2>2 DEF Slot
  <2> QED
    BY <1>5, <2>5, <2>6
<1> QED
  BY <1>4, <1>6, <1>7, <1>8

LEMMA WithoutRecordIsPage ==
    ASSUME NEW p \in HeapPage, NEW i \in DOMAIN p
    PROVE  WithoutRecord(p, i) \in HeapPage
<1>1. p[i] \in Slot
  BY DEF HeapPage
<1>2. [p[i] EXCEPT !.deleted = TRUE] \in Slot
  BY <1>1 DEF Slot
<1> QED
  BY <1>2 DEF WithoutRecord, HeapPage

---------------------------------------------------------------------------
(* The inductive invariant.                                                *)
(*                                                                         *)
(* The categories of a number and of the numbers above it need not agree:  *)
(* update puts the category of one heap page over all of them, also when a *)
(* page beside it has more space.  What holds is that a category above is  *)
(* always the category of some number below, so that a descent goes on.    *)

Typed ==
    /\ heap \in Seq(HeapPage) /\ Len(heap) <= MaxPages
    /\ fsm \in Map

\* The FSM pages are those up to some leaf that is below the root.
Fits(f) == \E leaf \in Nat : leaf * Slots < Capacity /\ Len(f) <= PagesUpTo(leaf)

LeavesUpToDate ==
    \A h \in HeapIds :
        \/ Entry(fsm, 0, h - 1) = Category(heap[h])
        \/ Entry(fsm, 0, h - 1) = 0 /\ heap[h] = << >>

LeavesHaveHeapPages == \A n \in Nat : Entry(fsm, 0, n) # 0 => n + 1 \in HeapIds

DescentGoesOn ==
    \A l \in Levels \ {0}, n \in Nat :
        Entry(fsm, l, n) # 0 =>
            \E s \in SlotIds : Entry(fsm, l - 1, n * Slots + s) = Entry(fsm, l, n)

FsmInv == Typed /\ Fits(fsm) /\ LeavesUpToDate /\ LeavesHaveHeapPages /\ DescentGoesOn

\* A map with the same categories, that may have more pages.
SameMap(f) ==
    /\ f \in Map /\ Fits(f)
    /\ \A l \in Levels, n \in Nat : Entry(f, l, n) = Entry(fsm, l, n)

LEMMA OpenedIsSame ==
    ASSUME FsmInv
    PROVE  SameMap(fsm) /\ SameMap(Opened(fsm))
<1>1. fsm \in Map /\ Depth \in Nat /\ Len(fsm) \in Nat
  BY FsmAssumption DEF FsmInv, Typed, Map
<1>2. PICK leaf \in Nat : leaf * Slots < Capacity /\ Len(fsm) <= PagesUpTo(leaf)
  BY DEF FsmInv, Fits
<1>3. PagesUpTo(leaf) \in Nat /\ PagesUpTo(leaf) >= Depth
  BY PageOfEachLevel
<1>4. /\ Opened(fsm) \in Map /\ Len(Opened(fsm)) \in {Depth, Len(fsm)}
      /\ \A l \in Levels, n \in Nat : Entry(Opened(fsm), l, n) = Entry(fsm, l, n)
  BY <1>1, ExtendedMap DEF Opened
<1>5. Len(Opened(fsm)) <= PagesUpTo(leaf)
  BY <1>1, <1>2, <1>3, <1>4
<1> QED
  BY <1>1, <1>2, <1>4, <1>5 DEF SameMap, Fits

\* The steps: a heap page is stored and the map told of it, or the map is opened.
Stores ==
    \E h \in 1..MaxPages, p \in HeapPage, f \in {fsm, Opened(fsm)} :
        h <= Len(heap) + 1 /\ Store(h, p, f)

Opens ==
    /\ fsm' = Opened(fsm)
    /\ heap' = heap \/ (Len(heap) < MaxPages /\ heap' = Append(heap, << >>))

LEMMA StepsAre ==
    ASSUME FsmInv, Next
    PROVE  Stores \/ Opens
<1>1. /\ Len(heap) \in Nat /\ MaxPages \in Nat /\ HeapIds = 1..Len(heap) /\ Len(heap) <= MaxPages
      /\ \A h \in HeapIds : h \in 1..MaxPages /\ h <= Len(heap) + 1 /\ heap[h] \in HeapPage
  BY FsmAssumption DEF FsmInv, Typed, HeapIds
<1>2. ASSUME NEW len \in Lengths, NEW p \in HeapPage PROVE WithRow(p, len) \in HeapPage
  <2>1. [length |-> len, deleted |-> FALSE] \in Slot
    <3>1. len \in 1..PageDataSize
      BY FsmAssumption, HeapPageAssumption DEF MaxTuple, SlotSize
    <3> QED
      BY <3>1 DEF Slot
  <2> QED
    BY <2>1, WithRecordIsPage DEF WithRow
<1>3. << >> \in HeapPage
  BY DEF HeapPage
<1>4. ASSUME NEW len \in Lengths, InsertFound(len) PROVE Stores
  <2>1. PICK h \in HeapIds : Store(h, WithRow(heap[h], len), Opened(fsm))
    BY <1>4 DEF InsertFound, Found
  <2>2. WithRow(heap[h], len) \in HeapPage
    BY <1>1, <1>2
  <2> QED
    BY <1>1, <2>1, <2>2 DEF Stores
<1>5. ASSUME NEW len \in Lengths, InsertAllocated(len) PROVE Stores
  <2>1. Len(heap) + 1 \in 1..MaxPages /\ Store(Len(heap) + 1, WithRow(<< >>, len), Opened(fsm))
    BY <1>1, <1>5 DEF InsertAllocated
  <2>2. WithRow(<< >>, len) \in HeapPage
    BY <1>2, <1>3
  <2>3. Len(heap) + 1 <= Len(heap) + 1
    BY <1>1
  <2> QED
    BY <2>1, <2>2, <2>3 DEF Stores
<1>6. ASSUME NEW len \in Lengths, InsertCritical(len) PROVE Opens
  BY <1>6 DEF InsertCritical, Opens
<1>7. ASSUME NEW len \in Lengths, InsertRejected(len) PROVE Opens
  BY <1>7 DEF InsertRejected, Opens
<1>8. ASSUME NEW len \in Lengths, InsertWithoutPage(len) PROVE Opens
  BY <1>8 DEF InsertWithoutPage, Opens
<1>9. ASSUME NEW h \in HeapIds, NEW i \in DOMAIN heap[h], Delete(h, i) PROVE Stores
  <2>1. WithoutRecord(heap[h], i) \in HeapPage
    BY <1>1, WithoutRecordIsPage
  <2> QED
    BY <1>1, <1>9, <2>1 DEF Delete, Stores
<1>10. ASSUME NEW h \in HeapIds, NEW i \in DOMAIN heap[h], NEW len \in Lengths, Update(h, i, len)
       PROVE  Stores
  <2>1. WithRow(WithoutRecord(heap[h], i), len) \in HeapPage
    BY <1>1, <1>2, WithoutRecordIsPage
  <2> QED
    BY <1>1, <1>10, <2>1 DEF Update, Stores
<1> QED
  BY <1>4, <1>5, <1>6, <1>7, <1>8, <1>9, <1>10 DEF Next

LEMMA HeapAfterStore ==
    ASSUME FsmInv, NEW h \in 1..MaxPages, NEW p \in HeapPage, NEW f, h <= Len(heap) + 1, Store(h, p, f)
    PROVE  /\ heap' \in Seq(HeapPage) /\ Len(heap') <= MaxPages
           /\ HeapIds' = HeapIds \cup {h} /\ h \in HeapIds' /\ heap'[h] = p
           /\ \A g \in HeapIds : g # h => heap'[g] = heap[g]
<1>1. heap \in Seq(HeapPage) /\ Len(heap) \in Nat /\ MaxPages \in Nat /\ Len(heap) <= MaxPages
  BY FsmAssumption DEF FsmInv, Typed
<1>2. CASE h \in HeapIds
  <2>1. heap' = [heap EXCEPT ![h] = p]
    BY <1>2 DEF Store
  <2>2. h \in 1..Len(heap)
    BY <1>2 DEF HeapIds
  <2>3. heap' \in Seq(HeapPage) /\ Len(heap') = Len(heap)
    BY <1>1, <2>1, <2>2
  <2>4. heap'[h] = p /\ \A g \in 1..Len(heap) : g # h => heap'[g] = heap[g]
    BY <1>1, <2>1, <2>2
  <2> QED
    BY <1>1, <2>2, <2>3, <2>4 DEF HeapIds
<1>3. CASE h \notin HeapIds
  <2>1. heap' = Append(heap, p)
    BY <1>3 DEF Store
  <2>2. h = Len(heap) + 1
    BY <1>1, <1>3 DEF HeapIds
  <2>3. heap' \in Seq(HeapPage) /\ Len(heap') = Len(heap) + 1
    BY <1>1, <2>1
  <2>4. heap'[h] = p /\ \A g \in 1..Len(heap) : g # h => heap'[g] = heap[g]
    BY <1>1, <2>1, <2>2
  <2>5. Len(heap') <= MaxPages
    BY <1>1, <2>2, <2>3
  <2>6. 1..Len(heap') = 1..Len(heap) \cup {h} /\ h \in 1..Len(heap')
    BY <1>1, <2>2, <2>3
  <2> QED
    BY <2>3, <2>4, <2>5, <2>6 DEF HeapIds
<1> QED
  BY <1>2, <1>3

LEMMA StoresKeep ==
    ASSUME FsmInv, NEW h \in 1..MaxPages, NEW p \in HeapPage, NEW f \in {fsm, Opened(fsm)},
           h <= Len(heap) + 1, Store(h, p, f)
    PROVE  FsmInv'
<1>1. /\ heap' \in Seq(HeapPage) /\ Len(heap') <= MaxPages
      /\ HeapIds' = HeapIds \cup {h} /\ h \in HeapIds' /\ heap'[h] = p
      /\ \A g \in HeapIds : g # h => heap'[g] = heap[g]
  BY HeapAfterStore
<1>2. SameMap(f) /\ Category(p) \in Space /\ h \in Nat \ {0}
  BY OpenedIsSame, CategoryIsOne
<1>3. HeapIds \subseteq Nat \ {0} /\ MaxPages \in Nat
  BY FsmAssumption DEF FsmInv, Typed, HeapIds
<1>4. fsm' = Updated(f, h, p)
  BY DEF Store
<1>5. /\ fsm' \in Map
      /\ Len(fsm') \in {FsmPageId(0, NodeAt(h, 0)), Len(f)}
      /\ \A l \in Levels, n \in Nat :
            Entry(fsm', l, n) = IF n = Above(h - 1)[l] THEN Category(p) ELSE Entry(fsm, l, n)
  <2>1. f \in Map /\ \A l \in Levels, n \in Nat : Entry(f, l, n) = Entry(fsm, l, n)
    BY <1>2 DEF SameMap
  <2> QED
    BY <1>2, <1>4, <2>1, UpdatedMap
<1>6. 0 \in Levels /\ h - 1 \in Nat /\ Above(h - 1)[0] = h - 1
  <2>1. 0 \in Levels
    BY FsmAssumption DEF Levels
  <2>2. h - 1 \in Nat
    BY <1>2
  <2> QED
    BY <2>1, <2>2, AboveDef
<1>7. Typed'
  BY <1>1, <1>5 DEF Typed
<1>8. Fits(fsm')
  <2>1. CASE Len(fsm') = Len(f)
    BY <1>2, <2>1 DEF SameMap, Fits
  <2>2. CASE Len(fsm') = FsmPageId(0, NodeAt(h, 0))
    <3> DEFINE leaf == NodeAt(h, 0)
    <3>1. leaf \in Nat /\ leaf = (h - 1) \div Slots
      BY <1>2, <1>6, NodesAreNumbers
    <3>2. leaf * Slots <= h - 1
      <4>1. h - 1 = leaf * Slots + ((h - 1) % Slots) /\ (h - 1) % Slots \in SlotIds
        BY <1>6, <3>1, Division
      <4> HIDE DEF leaf
      <4>2. leaf * Slots \in Nat /\ (h - 1) % Slots \in Nat
        BY <3>1, <4>1, FsmAssumption DEF SlotIds
      <4> QED
        BY <1>6, <4>1, <4>2
    <3>3. FsmPageId(0, leaf) = PagesUpTo(leaf)
      <4>1. FirstBelow(0, leaf) = leaf
        BY <3>1, FirstBelowDef
      <4>2. PagesUpTo(leaf) \in Nat
        BY <3>1, PageOfEachLevel
      <4> QED
        BY <4>1, <4>2 DEF FsmPageId
    <3> HIDE DEF leaf
    <3>4. PagesUpTo(leaf) \in Nat /\ leaf * Slots \in Nat
      <4>1. PagesUpTo(leaf) \in Nat
        BY <3>1, PageOfEachLevel
      <4>2. leaf * Slots \in Nat
        BY <3>1, FsmAssumption
      <4> QED
        BY <4>1, <4>2
    <3>5. leaf * Slots < Capacity
      BY <1>2, <1>3, <3>2, <3>4, BelowTheRoot, CapacityAssumption
    <3>6. Len(fsm') <= PagesUpTo(leaf)
      BY <2>2, <3>3, <3>4 DEF leaf
    <3> QED
      BY <3>1, <3>5, <3>6 DEF Fits
  <2> QED
    BY <1>5, <2>1, <2>2
<1>9. LeavesUpToDate'
  <2>1. SUFFICES ASSUME NEW g \in HeapIds'
                 PROVE  \/ Entry(fsm', 0, g - 1) = Category(heap'[g])
                        \/ Entry(fsm', 0, g - 1) = 0 /\ heap'[g] = << >>
    BY DEF LeavesUpToDate
  <2>2. CASE g = h
    BY <1>1, <1>5, <1>6, <2>2
  <2>3. CASE g # h
    <3>1. g \in HeapIds /\ heap'[g] = heap[g]
      BY <1>1, <2>1, <2>3
    <3>4. g \in Nat \ {0}
      BY <1>3, <3>1
    <3>2. g - 1 \in Nat /\ g - 1 # h - 1
      BY <1>2, <2>3, <3>4
    <3>3. Entry(fsm', 0, g - 1) = Entry(fsm, 0, g - 1)
      BY <1>5, <1>6, <3>2
    <3> QED
      BY <3>1, <3>3 DEF FsmInv, LeavesUpToDate
  <2> QED
    BY <2>2, <2>3
<1>10. LeavesHaveHeapPages'
  <2>1. SUFFICES ASSUME NEW n \in Nat, Entry(fsm', 0, n) # 0 PROVE n + 1 \in HeapIds'
    BY DEF LeavesHaveHeapPages
  <2>2. CASE n = h - 1
    <3>1. n + 1 = h
      BY <1>6, <2>2, <1>2
    <3> QED
      BY <1>1, <3>1
  <2>3. CASE n # h - 1
    <3>1. Entry(fsm, 0, n) # 0
      BY <1>5, <1>6, <2>1, <2>3
    <3> QED
      BY <1>1, <3>1 DEF FsmInv, LeavesHaveHeapPages
  <2> QED
    BY <2>2, <2>3
<1>11. DescentGoesOn'
  <2>1. SUFFICES ASSUME NEW l \in Levels \ {0}, NEW n \in Nat, Entry(fsm', l, n) # 0
                 PROVE  \E s \in SlotIds : Entry(fsm', l - 1, n * Slots + s) = Entry(fsm', l, n)
    BY DEF DescentGoesOn
  <2>2. l - 1 \in Levels /\ l - 1 \in Nat /\ (l - 1) + 1 = l /\ l \in Levels
    BY FsmAssumption DEF Levels
  <2> DEFINE below == Above(h - 1)[l - 1]
  <2>3. below \in Nat /\ Above(h - 1)[l] = below \div Slots
    <3>1. Above(h - 1)[(l - 1) + 1] = below \div Slots /\ below \in Nat
      BY <1>6, <2>2, AboveDef
    <3> QED
      BY <2>2, <3>1
  <2>4. \A m \in Nat : Entry(fsm', l - 1, m) = IF m = below THEN Category(p) ELSE Entry(fsm, l - 1, m)
    BY <1>5, <2>2
  <2>5. Entry(fsm', l, n) = IF n = below \div Slots THEN Category(p) ELSE Entry(fsm, l, n)
    BY <1>5, <2>2, <2>3
  <2> HIDE DEF below
  <2>6. CASE n = below \div Slots
    <3>1. below % Slots \in SlotIds /\ n * Slots + (below % Slots) = below
      BY <2>3, <2>6, Division
    <3>2. Entry(fsm', l - 1, n * Slots + (below % Slots)) = Entry(fsm', l, n)
      BY <2>3, <2>4, <2>5, <2>6, <3>1
    <3> QED
      BY <3>1, <3>2
  <2>7. CASE n # below \div Slots
    <3>1. Entry(fsm', l, n) = Entry(fsm, l, n) /\ Entry(fsm, l, n) # 0
      BY <2>1, <2>5, <2>7
    <3>2. PICK s \in SlotIds : Entry(fsm, l - 1, n * Slots + s) = Entry(fsm, l, n)
      BY <3>1 DEF FsmInv, DescentGoesOn
    <3>3. n * Slots + s \in Nat /\ (n * Slots + s) \div Slots = n
      BY Division
    <3>4. n * Slots + s # below
      BY <2>7, <3>3
    <3>5. Entry(fsm', l - 1, n * Slots + s) = Entry(fsm, l - 1, n * Slots + s)
      BY <2>4, <3>3, <3>4
    <3> QED
      BY <3>1, <3>2, <3>5
  <2> QED
    BY <2>6, <2>7
<1>12. (Fits(fsm))'
  BY <1>8 DEF Fits
<1> QED
  BY <1>7, <1>9, <1>10, <1>11, <1>12 DEF FsmInv

LEMMA OpensKeep ==
    ASSUME FsmInv, Opens
    PROVE  FsmInv'
<1>1. fsm' \in Map /\ Fits(fsm') /\ \A l \in Levels, n \in Nat : Entry(fsm', l, n) = Entry(fsm, l, n)
  BY OpenedIsSame DEF Opens, SameMap
<1>2. /\ heap \in Seq(HeapPage) /\ Len(heap) \in Nat /\ Len(heap) <= MaxPages /\ MaxPages \in Nat
      /\ HeapIds = 1..Len(heap)
  BY FsmAssumption DEF FsmInv, Typed, HeapIds
<1>3. 0 \in Levels
  BY FsmAssumption DEF Levels
<1>4. /\ heap' \in Seq(HeapPage) /\ Len(heap') <= MaxPages
      /\ HeapIds \subseteq HeapIds'
      /\ \A g \in HeapIds : heap'[g] = heap[g]
      /\ \A g \in HeapIds' : g \notin HeapIds => heap'[g] = << >> /\ g \in Nat \ {0}
  <2>1. CASE heap' = heap
    BY <1>2, <2>1 DEF HeapIds
  <2>2. CASE Len(heap) < MaxPages /\ heap' = Append(heap, << >>)
    <3>1. << >> \in HeapPage
      BY DEF HeapPage
    <3>2. heap' \in Seq(HeapPage) /\ Len(heap') = Len(heap) + 1
      BY <1>2, <2>2, <3>1
    <3>3. heap'[Len(heap) + 1] = << >> /\ \A g \in 1..Len(heap) : heap'[g] = heap[g]
      BY <1>2, <2>2
    <3>4. HeapIds' = 1..(Len(heap) + 1)
      BY <3>2 DEF HeapIds
    <3>5. \A g \in 1..(Len(heap) + 1) : g \in 1..Len(heap) \/ g = Len(heap) + 1
      BY <1>2
    <3>6. Len(heap') <= MaxPages
      BY <1>2, <2>2, <3>2
    <3>7. 1..Len(heap) \subseteq 1..(Len(heap) + 1) /\ Len(heap) + 1 \in Nat \ {0}
      BY <1>2
    <3> QED
      BY <1>2, <3>2, <3>3, <3>4, <3>5, <3>6, <3>7
  <2> QED
    BY <2>1, <2>2 DEF Opens
<1>5. Typed' /\ (Fits(fsm))'
  BY <1>1, <1>4 DEF Typed, Fits
<1>6. LeavesUpToDate'
  <2>1. SUFFICES ASSUME NEW g \in HeapIds'
                 PROVE  \/ Entry(fsm', 0, g - 1) = Category(heap'[g])
                        \/ Entry(fsm', 0, g - 1) = 0 /\ heap'[g] = << >>
    BY DEF LeavesUpToDate
  <2>2. CASE g \in HeapIds
    <3>1. g - 1 \in Nat
      BY <1>2, <2>2
    <3> QED
      BY <1>1, <1>3, <1>4, <2>2, <3>1 DEF FsmInv, LeavesUpToDate
  <2>3. CASE g \notin HeapIds
    <3>1. heap'[g] = << >> /\ g - 1 \in Nat /\ (g - 1) + 1 = g
      BY <1>4, <2>3
    <3>2. Entry(fsm, 0, g - 1) = 0
      BY <2>3, <3>1 DEF FsmInv, LeavesHaveHeapPages
    <3> QED
      BY <1>1, <1>3, <3>1, <3>2
  <2> QED
    BY <2>2, <2>3
<1>7. LeavesHaveHeapPages'
  BY <1>1, <1>3, <1>4 DEF FsmInv, LeavesHaveHeapPages
<1>8. DescentGoesOn'
  <2>1. SUFFICES ASSUME NEW l \in Levels \ {0}, NEW n \in Nat, Entry(fsm', l, n) # 0
                 PROVE  \E s \in SlotIds : Entry(fsm', l - 1, n * Slots + s) = Entry(fsm', l, n)
    BY DEF DescentGoesOn
  <2>2. l - 1 \in Levels /\ l \in Levels
    BY FsmAssumption DEF Levels
  <2>3. Entry(fsm', l, n) = Entry(fsm, l, n)
    BY <1>1, <2>2
  <2>4. PICK s \in SlotIds : Entry(fsm, l - 1, n * Slots + s) = Entry(fsm, l, n)
    BY <2>1, <2>3 DEF FsmInv, DescentGoesOn
  <2>5. n * Slots + s \in Nat
    BY Division
  <2>6. Entry(fsm', l - 1, n * Slots + s) = Entry(fsm, l - 1, n * Slots + s)
    BY <1>1, <2>2, <2>5
  <2> QED
    BY <2>3, <2>4, <2>6
<1> QED
  BY <1>5, <1>6, <1>7, <1>8 DEF FsmInv

LEMMA FsmInvHolds == Spec => []FsmInv
<1>1. Init => FsmInv
  <2> SUFFICES ASSUME Init PROVE FsmInv
    OBVIOUS
  <2>1. heap = << >> /\ fsm = << >> /\ HeapIds = {} /\ DOMAIN fsm = {} /\ Len(heap) = 0 /\ Len(fsm) = 0
    <3>1. heap = << >> /\ fsm = << >>
      BY DEF Init
    <3>2. Len(<< >>) = 0 /\ DOMAIN << >> = {} /\ 1..0 = {}
      OBVIOUS
    <3> QED
      BY <3>1, <3>2 DEF HeapIds
  <2>2. \A l \in Levels, n \in Nat : Entry(fsm, l, n) = 0
    BY <2>1 DEF Entry
  <2>3. 0 \in Levels
    BY FsmAssumption DEF Levels
  <2>4. Typed
    BY <2>1, FsmAssumption DEF Typed, Map
  <2>5. Fits(fsm)
    <3>1. 0 \in Nat /\ 0 * Slots < Capacity /\ PagesUpTo(0) \in Nat
      BY BelowTheRoot, PageOfEachLevel, FsmAssumption
    <3>2. Len(fsm) <= PagesUpTo(0)
      BY <2>1, <3>1
    <3> QED
      BY <3>1, <3>2 DEF Fits
  <2>6. LeavesUpToDate
    BY <2>1 DEF LeavesUpToDate
  <2>7. LeavesHaveHeapPages
    BY <2>2, <2>3 DEF LeavesHaveHeapPages
  <2>8. DescentGoesOn
    BY <2>2 DEF DescentGoesOn
  <2> QED
    BY <2>4, <2>5, <2>6, <2>7, <2>8 DEF FsmInv
<1>2. FsmInv /\ [Next]_vars => FsmInv'
  <2> SUFFICES ASSUME FsmInv, [Next]_vars PROVE FsmInv'
    OBVIOUS
  <2>1. CASE Next
    <3>1. CASE Stores
      BY <3>1, StoresKeep DEF Stores
    <3>2. CASE Opens
      BY <3>2, OpensKeep
    <3> QED
      BY <2>1, <3>1, <3>2, StepsAre
  <2>2. CASE UNCHANGED vars
    <3>1. heap' = heap /\ fsm' = fsm
      BY <2>2 DEF vars
    <3> QED
      BY <3>1 DEF FsmInv, Typed, Fits, LeavesUpToDate, LeavesHaveHeapPages, DescentGoesOn, HeapIds
  <2> QED
    BY <2>1, <2>2
<1> QED
  BY <1>1, <1>2, PTL DEF Spec

---------------------------------------------------------------------------
(* What follows from it. *)

\* Slots of heap pages and categories of FSM pages keep their ranges.
THEOREM FsmTypes == Spec => []TypeOK
<1>1. FsmInv => TypeOK
  <2> SUFFICES ASSUME FsmInv PROVE TypeOK
    OBVIOUS
  <2>1. ASSUME NEW h \in HeapIds, NEW i \in DOMAIN heap[h]
        PROVE  heap[h][i].length \in 1..PageDataSize /\ heap[h][i].deleted \in BOOLEAN
    <3>1. heap[h] \in HeapPage
      BY DEF FsmInv, Typed, HeapIds
    <3>2. heap[h][i] \in Slot
      BY <3>1, SlotsOfPage
    <3> QED
      BY <3>2 DEF Slot
  <2>2. \A id \in DOMAIN fsm : fsm[id] \in [SlotIds -> Space]
    BY DEF FsmInv, Typed, Map
  <2> QED
    BY <2>1, <2>2 DEF TypeOK
<1> QED
  BY <1>1, FsmInvHolds, PTL

\* On level 0 a page that was ever written has the category of its space.
THEOREM LeavesStayUpToDate == Spec => []LeafUpToDate
<1>1. FsmInv => LeafUpToDate
  <2> SUFFICES ASSUME FsmInv, NEW h \in HeapIds
               PROVE  LET id  == FsmPageId(0, NodeAt(h, 0))
                          cat == IF id \in DOMAIN fsm THEN fsm[id][SlotAt(h, 0)] ELSE 0
                      IN cat = Category(heap[h]) \/ (cat = 0 /\ heap[h] = << >>)
    BY DEF LeafUpToDate
  <2>1. 0 \in Levels /\ h \in Nat \ {0} /\ h - 1 \in Nat
    BY FsmAssumption DEF FsmInv, Typed, HeapIds, Levels
  <2>2. Above(h - 1)[0] = h - 1
    BY <2>1, AboveDef
  <2>3. NodeAt(h, 0) = (h - 1) \div Slots /\ SlotAt(h, 0) = (h - 1) % Slots
    BY <2>1, <2>2, NodesAreNumbers
  <2>4. \/ Entry(fsm, 0, h - 1) = Category(heap[h])
        \/ Entry(fsm, 0, h - 1) = 0 /\ heap[h] = << >>
    BY DEF FsmInv, LeavesUpToDate
  <2> QED
    BY <2>3, <2>4 DEF Entry
<1> QED
  BY <1>1, FsmInvHolds, PTL

\* A page the map leads to has as many bytes in one piece as were asked for.
THEOREM FoundPagesHaveBytes == Spec => []FoundPageHasBytes
<1>1. FsmInv => FoundPageHasBytes
  <2> SUFFICES ASSUME FsmInv, NEW len \in Lengths, NEW h \in Found(Opened(fsm), Needed(len))
               PROVE  len <= MaxAvailableSpace(heap[h])
    BY DEF FoundPageHasBytes
  <2>1. h \in HeapIds /\ LeadsTo(Opened(fsm), h, Needed(len))
    BY DEF Found
  <2>2. 0 \in Levels /\ h \in Nat \ {0} /\ h - 1 \in Nat /\ len \in 1..MaxTuple
    BY <2>1, FsmAssumption DEF FsmInv, Typed, HeapIds, Levels
  <2>3. heap[h] \in HeapPage
    BY <2>1 DEF FsmInv, Typed, HeapIds
  <2>4. MaxAvailableSpace(heap[h]) \in Nat
    BY <2>3, SpaceIsNat
  <2>5. /\ FsmPageId(0, NodeAt(h, 0)) \in DOMAIN Opened(fsm)
        /\ Opened(fsm)[FsmPageId(0, NodeAt(h, 0))][SlotAt(h, 0)] >= Needed(len)
    BY <2>1, <2>2 DEF LeadsTo, IsFirst
  <2>6. Above(h - 1)[0] = h - 1
    BY <2>2, AboveDef
  <2>7. NodeAt(h, 0) = (h - 1) \div Slots /\ SlotAt(h, 0) = (h - 1) % Slots
    BY <2>2, <2>6, NodesAreNumbers
  <2>8. Entry(Opened(fsm), 0, h - 1) >= Needed(len)
    BY <2>5, <2>7 DEF Entry
  <2>9. Entry(fsm, 0, h - 1) >= Needed(len)
    BY <2>2, <2>8, OpenedIsSame DEF SameMap
  <2>10. Needed(len) \in Nat \ {0}
    BY <2>2, <2>4, CategoryCovers
  <2>11. Entry(fsm, 0, h - 1) # 0
    BY <2>9, <2>10
  <2>12. Entry(fsm, 0, h - 1) = Category(heap[h])
    BY <2>1, <2>11 DEF FsmInv, LeavesUpToDate
  <2> QED
    BY <2>2, <2>4, <2>9, <2>12, CategoryCovers DEF Category
<1> QED
  BY <1>1, FsmInvHolds, PTL

\* The pages of the map's file are the pages of its nodes.
THEOREM PagesFormATree == Spec => []FsmPagesAreATree
<1>1. FsmInv => FsmPagesAreATree
  <2> SUFFICES ASSUME FsmInv, NEW id \in DOMAIN fsm PROVE id \in NodePages
    BY NodesAreApart DEF FsmPagesAreATree
  <2>1. PICK last \in Nat : last * Slots < Capacity /\ Len(fsm) <= PagesUpTo(last)
    BY DEF FsmInv, Fits
  <2>2. PagesUpTo(last) \in Nat /\ Capacity \in Nat
    BY PageOfEachLevel, BelowTheRoot
  <2>3. id \in 1..PagesUpTo(last)
    BY <2>1, <2>2 DEF FsmInv, Typed, Map
  <2>4. PICK leaf \in 0..last, l \in Levels : id = FsmPageId(l, Above(leaf)[l])
    BY <2>3, PagesAreNodes
  <2> DEFINE h == leaf * Slots + 1
  <2>5. h \in 1..Capacity
    <3>1. Slots \in Nat
      BY FsmAssumption
    <3>2. leaf * Slots <= last * Slots /\ leaf * Slots \in Nat /\ last * Slots \in Nat
      BY <3>1
    <3> QED
      BY <2>1, <2>2, <3>2
  <2>6. Above(h - 1)[l + 1] = Above(leaf)[l]
    <3>1. 0 \in SlotIds /\ leaf \in Nat /\ l \in Nat /\ leaf * Slots \in Nat
      BY FsmAssumption DEF SlotIds, Levels
    <3>2. (leaf * Slots + 0) \div Slots = leaf /\ leaf * Slots + 0 = h - 1 /\ h - 1 \in Nat
      BY <3>1, Division
    <3> HIDE DEF h
    <3>3. (h - 1) \div Slots = leaf
      BY <3>2
    <3>4. Above(h - 1)[l + 1] = Above((h - 1) \div Slots)[l]
      BY <3>1, <3>2, AboveParent
    <3> QED
      BY <3>3, <3>4
  <2> HIDE DEF h
  <2>7. id = FsmPageId(l, NodeAt(h, l))
    BY <2>4, <2>6 DEF NodeAt
  <2> QED
    BY <2>5, <2>7 DEF NodePages
<1> QED
  BY <1>1, FsmInvHolds, PTL

\* A search for cat that started at the root is at number n of level l.
SearchIsAt(cat, l, n) ==
    \A m \in l..RootLevel :
        LET above == Above(n)[m - l]
            id    == FsmPageId(m, above \div Slots)
        IN id \in DOMAIN fsm /\ IsFirst(fsm[id], above % Slots, cat)

\* A page with a slot that has the space has a first one.
LEMMA FirstExists ==
    ASSUME NEW page \in [SlotIds -> Space], NEW cat \in Nat, \E s \in SlotIds : page[s] >= cat
    PROVE  \E s \in SlotIds : IsFirst(page, s, cat)
<1> DEFINE T == {s \in SlotIds : page[s] >= cat}
<1>1. T \in SUBSET Nat /\ T # {} /\ Slots \in Nat
  BY FsmAssumption DEF SlotIds
<1>2. PICK s \in T : \A t \in T : s <= t
  BY <1>1, LeastExists
<1>3. ASSUME NEW t \in 0..(s - 1) PROVE page[t] < cat
  <2>1. s \in Nat /\ s < Slots /\ t \in Nat /\ t < s
    BY <1>1, <1>2 DEF SlotIds
  <2>2. t \in SlotIds /\ t \notin T
    BY <1>1, <1>2, <2>1 DEF SlotIds
  <2>3. page[t] \in Nat
    BY <2>2 DEF Space
  <2> QED
    BY <2>2, <2>3
<1> QED
  BY <1>2, <1>3 DEF IsFirst

LEMMA SearchStarts ==
    ASSUME FsmInv, NEW cat \in Nat, DOMAIN fsm # {}, RootHas(fsm, cat)
    PROVE  \E n \in Nat : SearchIsAt(cat, RootLevel, n)
<1>1. /\ RootLevel \in Levels /\ RootLevel \in Nat /\ Depth - RootLevel = 1 /\ Slots \in Nat \ {0}
      /\ RootLevel - RootLevel = 0
  BY FsmAssumption DEF RootLevel, Levels
<1>2. 1 \in DOMAIN fsm /\ fsm[1] \in [SlotIds -> Space]
  BY DEF FsmInv, Typed, Map
<1>3. PICK s \in SlotIds : IsFirst(fsm[1], s, cat)
  BY <1>2, FirstExists DEF RootHas
<1>4. s \in Nat /\ s \div Slots = 0 /\ s % Slots = s
  <2>1. 0 * Slots + s = s /\ s \in Nat
    BY <1>1 DEF SlotIds
  <2>2. (0 * Slots + s) \div Slots = 0 /\ (0 * Slots + s) % Slots = s
    BY Division
  <2> QED
    BY <2>1, <2>2
<1>5. FsmPageId(RootLevel, 0) = 1
  BY <1>1, IdsArePositive
<1>6. Above(s)[0] = s
  BY <1>4, AboveDef
<1>7. RootLevel..RootLevel = {RootLevel}
  BY <1>1
<1>8. SearchIsAt(cat, RootLevel, s)
  BY <1>1, <1>2, <1>3, <1>4, <1>5, <1>6, <1>7 DEF SearchIsAt
<1> QED
  BY <1>4, <1>8

\* "If the root points to enough space, the next iterations must not fail".
LEMMA SearchGoesOn ==
    ASSUME FsmInv, NEW cat \in Nat \ {0}, NEW l \in Levels \ {0}, NEW n \in Nat,
           SearchIsAt(cat, l, n)
    PROVE  \E below \in Nat : SearchIsAt(cat, l - 1, below)
<1>1. /\ l \in Levels /\ l - 1 \in Levels /\ l \in Nat /\ l - 1 \in Nat /\ RootLevel \in Nat
      /\ l <= RootLevel /\ l \in l..RootLevel /\ l - l = 0
  BY FsmAssumption DEF Levels, RootLevel
<1>2. Above(n)[0] = n
  BY AboveDef
<1> DEFINE id   == FsmPageId(l, n \div Slots)
           down == FsmPageId(l - 1, n)
<1>3. id \in DOMAIN fsm /\ fsm[id][n % Slots] >= cat
  BY <1>1, <1>2 DEF SearchIsAt, IsFirst
<1>4. Entry(fsm, l, n) >= cat
  BY <1>3 DEF Entry
<1>5. fsm[id] \in [SlotIds -> Space] /\ n % Slots \in SlotIds
  <2>1. \A i \in DOMAIN fsm : fsm[i] \in [SlotIds -> Space]
    BY DEF FsmInv, Typed, Map
  <2> HIDE DEF id
  <2> QED
    BY <1>3, <2>1, Division
<1>6. Entry(fsm, l, n) \in Nat
  BY <1>3, <1>5 DEF Entry, Space
<1>7. PICK t \in SlotIds : Entry(fsm, l - 1, n * Slots + t) = Entry(fsm, l, n)
  <2>1. Entry(fsm, l, n) # 0
    BY <1>4, <1>6
  <2> QED
    BY <2>1 DEF FsmInv, DescentGoesOn
<1>8. down \in DOMAIN fsm /\ fsm[down][t] >= cat
  <2>1. (n * Slots + t) \div Slots = n /\ (n * Slots + t) % Slots = t
    BY Division
  <2>2. Entry(fsm, l - 1, n * Slots + t) = IF down \in DOMAIN fsm THEN fsm[down][t] ELSE 0
    BY <2>1 DEF Entry
  <2>3. Entry(fsm, l - 1, n * Slots + t) >= cat /\ Entry(fsm, l - 1, n * Slots + t) # 0
    BY <1>4, <1>6, <1>7
  <2> QED
    BY <2>2, <2>3
<1>9. fsm[down] \in [SlotIds -> Space]
  BY <1>8 DEF FsmInv, Typed, Map
<1>10. PICK s \in SlotIds : IsFirst(fsm[down], s, cat)
  BY <1>8, <1>9, FirstExists
<1> DEFINE below == n * Slots + s
<1>11. below \in Nat /\ below \div Slots = n /\ below % Slots = s
  BY Division
<1>12. Above(below)[0] = below
  BY <1>11, AboveDef
<1> HIDE DEF below
<1>13. ASSUME NEW m \in (l - 1)..RootLevel
       PROVE  LET above == Above(below)[m - (l - 1)]
                  at    == FsmPageId(m, above \div Slots)
              IN at \in DOMAIN fsm /\ IsFirst(fsm[at], above % Slots, cat)
  <2>1. CASE m = l - 1
    <3>1. m - (l - 1) = 0
      BY <1>1, <2>1
    <3> QED
      BY <1>8, <1>10, <1>11, <1>12, <2>1, <3>1
  <2>2. CASE m # l - 1
    <3>1. m \in l..RootLevel /\ m - l \in Nat /\ m - (l - 1) = (m - l) + 1
      BY <1>1, <2>2
    <3>2. Above(below)[(m - l) + 1] = Above(n)[m - l]
      BY <1>11, <3>1, AboveParent
    <3> QED
      BY <3>1, <3>2 DEF SearchIsAt
  <2> QED
    BY <2>1, <2>2
<1> QED
  BY <1>11, <1>13 DEF SearchIsAt

\* When the root has a slot with the space the search comes out at a heap page.
THEOREM RootNeverLiesHolds == Spec => []RootNeverLies
<1>1. FsmInv => RootNeverLies
  <2> SUFFICES ASSUME FsmInv, NEW cat \in Categories \ {0}, RootHas(fsm, cat)
               PROVE  Found(fsm, cat) # {}
    BY DEF RootNeverLies
  <2>1. cat \in Nat \ {0} /\ DOMAIN fsm # {}
    <3>1. \A id \in DOMAIN fsm : fsm[id] \in [SlotIds -> Space]
      BY DEF FsmInv, Typed, Map
    <3>2. Space \subseteq Nat
      BY DEF Space
    <3>3. PICK page \in {{fsm[id][s] : s \in SlotIds} : id \in DOMAIN fsm} : cat \in page
      BY DEF Categories
    <3>4. PICK id \in DOMAIN fsm : page = {fsm[id][s] : s \in SlotIds}
      BY <3>3
    <3>5. PICK s \in SlotIds : cat = fsm[id][s]
      BY <3>3, <3>4
    <3>6. fsm[id][s] \in Nat
      BY <3>1, <3>2, <3>4, <3>5
    <3> QED
      BY <3>4, <3>5, <3>6
  <2>2. RootLevel \in Nat /\ Levels = 0..RootLevel
    BY FsmAssumption DEF RootLevel, Levels
  <2> DEFINE S == {k \in Nat : k <= RootLevel => \E n \in Nat : SearchIsAt(cat, RootLevel - k, n)}
  <2>3. 0 \in S
    <3>1. RootLevel - 0 = RootLevel
      BY <2>2
    <3> QED
      BY <2>1, <3>1, SearchStarts
  <2>4. ASSUME NEW k \in Nat, k \in S PROVE k + 1 \in S
    <3>1. SUFFICES ASSUME k + 1 <= RootLevel
                   PROVE  \E n \in Nat : SearchIsAt(cat, RootLevel - (k + 1), n)
      OBVIOUS
    <3>2. PICK l : l = RootLevel - k
      OBVIOUS
    <3>3. l \in Levels \ {0} /\ RootLevel - (k + 1) = l - 1 /\ k <= RootLevel
      BY <2>2, <3>1, <3>2
    <3>4. PICK n \in Nat : SearchIsAt(cat, l, n)
      BY <2>4, <3>2, <3>3
    <3> QED
      BY <2>1, <3>3, <3>4, SearchGoesOn
  <2> HIDE DEF S
  <2>5. RootLevel \in S
    BY <2>2, <2>3, <2>4, SetInduction
  <2>6. PICK n \in Nat : SearchIsAt(cat, 0, n)
    <3>1. RootLevel - RootLevel = 0 /\ RootLevel <= RootLevel
      BY <2>2
    <3> QED
      BY <2>5, <3>1 DEF S
  <2> DEFINE h == n + 1
  <2>7. h \in Nat \ {0} /\ h - 1 = n
    OBVIOUS
  <2> HIDE DEF h
  <2>8. ASSUME NEW m \in Levels
        PROVE  /\ FsmPageId(m, NodeAt(h, m)) \in DOMAIN fsm
               /\ IsFirst(fsm[FsmPageId(m, NodeAt(h, m))], SlotAt(h, m), cat)
    <3>1. m \in 0..RootLevel /\ m - 0 = m
      BY <2>2
    <3>2. NodeAt(h, m) = Above(n)[m] \div Slots /\ SlotAt(h, m) = Above(n)[m] % Slots
      BY <2>7, NodesAreNumbers
    <3> QED
      BY <2>6, <3>1, <3>2 DEF SearchIsAt
  <2>9. h \in HeapIds
    <3>1. 0 \in Levels
      BY <2>2
    <3>2. NodeAt(h, 0) = n \div Slots /\ SlotAt(h, 0) = n % Slots
      <4>1. Above(n)[0] = n
        BY AboveDef
      <4> QED
        BY <2>7, <3>1, <4>1, NodesAreNumbers
    <3>3. Entry(fsm, 0, n) >= cat
      BY <2>8, <3>1, <3>2 DEF IsFirst, Entry
    <3>4. Entry(fsm, 0, n) # 0
      BY <2>1, <3>3
    <3>5. n + 1 \in HeapIds
      BY <3>4 DEF FsmInv, LeavesHaveHeapPages
    <3> QED
      BY <3>5 DEF h
  <2> QED
    BY <2>8, <2>9 DEF Found, LeadsTo
<1> QED
  BY <1>1, FsmInvHolds, PTL

\* After a change of a heap page the root has its category.
THEOREM SpaceIsAlwaysOffered == Spec => SpaceIsOffered
<1>1. FsmInv /\ [Next]_vars =>
          [\A h \in HeapIds : heap'[h] # heap[h] => RootHas(fsm', Category(heap'[h]))]_vars
  <2> SUFFICES ASSUME FsmInv, Next, NEW g \in HeapIds, heap'[g] # heap[g]
               PROVE  RootHas(fsm', Category(heap'[g]))
    BY DEF vars
  <2>1. CASE Opens
    <3>1. Len(heap) \in Nat /\ heap \in Seq(HeapPage) /\ g \in 1..Len(heap)
      BY DEF FsmInv, Typed, HeapIds
    <3>2. heap'[g] = heap[g]
      BY <2>1, <3>1 DEF Opens
    <3> QED
      BY <3>2
  <2>2. CASE Stores
    <3>1. PICK h \in 1..MaxPages, p \in HeapPage, f \in {fsm, Opened(fsm)} :
              h <= Len(heap) + 1 /\ Store(h, p, f)
      BY <2>2 DEF Stores
    <3>2. g = h /\ heap'[h] = p
      BY <3>1, HeapAfterStore
    <3>3. SameMap(f) /\ Category(p) \in Space /\ h \in Nat \ {0} /\ h \in 1..Capacity
      <4>1. h \in 1..Capacity
        BY CapacityAssumption, BelowTheRoot, FsmAssumption
      <4> QED
        BY <4>1, OpenedIsSame, CategoryIsOne
    <3>4. RootLevel \in Levels /\ Depth - RootLevel = 1
      BY FsmAssumption DEF RootLevel, Levels
    <3> DEFINE root == Above(h - 1)[RootLevel]
    <3>5. NodeAt(h, RootLevel) = 0 /\ root \in Nat /\ root \div Slots = 0 /\ root % Slots \in SlotIds
      <4>1. NodeAt(h, RootLevel) = 0
        BY <3>3, BelowTheRoot
      <4>2. root \in Nat /\ NodeAt(h, RootLevel) = root \div Slots
        BY <3>3, <3>4, NodesAreNumbers
      <4> QED
        BY <4>1, <4>2, Division
    <3>6. Entry(fsm', RootLevel, root) = Category(p)
      <4>1. fsm' = Updated(f, h, p) /\ f \in Map
        BY <3>1, <3>3 DEF Store, SameMap
      <4> QED
        BY <3>3, <3>4, <3>5, <4>1, UpdatedMap
    <3> HIDE DEF root
    <3>7. FsmPageId(RootLevel, root \div Slots) = 1
      BY <3>4, <3>5, IdsArePositive
    <3>8. Entry(fsm', RootLevel, root) = IF 1 \in DOMAIN fsm' THEN fsm'[1][root % Slots] ELSE 0
      BY <3>7 DEF Entry
    <3>9. 1 \in DOMAIN fsm'
      <4>1. fsm' = Updated(f, h, p) /\ f \in Map
        BY <3>1, <3>3 DEF Store, SameMap
      <4>2. DOMAIN fsm' = DOMAIN Extended(f, FsmPageId(0, NodeAt(h, 0)))
        BY <4>1 DEF Updated
      <4>3. 0 \in Levels
        BY FsmAssumption DEF Levels
      <4>4. FsmPageId(0, NodeAt(h, 0)) \in Nat /\ FsmPageId(0, NodeAt(h, 0)) > 0
        BY <3>3, <4>3, NodesAreNumbers, IdsArePositive
      <4>5. PICK more : more = Extended(f, FsmPageId(0, NodeAt(h, 0)))
        OBVIOUS
      <4>6. more \in Map /\ Len(more) >= FsmPageId(0, NodeAt(h, 0))
        BY <4>1, <4>4, <4>5, ExtendedMap
      <4>7. DOMAIN more = 1..Len(more) /\ Len(more) \in Nat
        BY <4>6 DEF Map
      <4>8. 1 \in DOMAIN more
        BY <4>4, <4>6, <4>7
      <4> QED
        BY <4>2, <4>5, <4>8
    <3>10. fsm'[1][root % Slots] = Category(p) /\ Category(p) \in Nat
      BY <3>3, <3>6, <3>8, <3>9 DEF Space
    <3>11. Category(heap'[g]) = Category(p)
      BY <3>2
    <3> QED
      BY <3>5, <3>10, <3>11 DEF RootHas
  <2> QED
    BY <2>1, <2>2, StepsAre
<1> QED
  BY <1>1, FsmInvHolds, PTL DEF Spec, SpaceIsOffered

=============================================================================
