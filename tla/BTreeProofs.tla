---------------------------- MODULE BTreeProofs ----------------------------
(***************************************************************************)
(* Proofs about BTree.tla, for every degree, every set of keys and trees   *)
(* of any height.                                                          *)
(***************************************************************************)
EXTENDS BTree, NatSets, SequenceTheorems, FiniteSetTheorems

---------------------------------------------------------------------------
(* What is taken from, put into and left out of a sequence. *)

\* t is the n elements of s that come after the first ones.
Slice(t, s, first, n) ==
    Len(t) = n /\ \A i \in 1..n : t[i] = s[first + i]

\* t is s with e at position at.
Inserted(t, s, at, e) ==
    /\ Len(t) = Len(s) + 1
    /\ \A i \in 1..Len(s) + 1 : t[i] = IF i < at THEN s[i] ELSE IF i = at THEN e ELSE s[i - 1]

\* t is s without the element at position at.
Removed(t, s, at) ==
    /\ Len(t) = Len(s) - 1
    /\ \A i \in 1..Len(s) - 1 : t[i] = IF i < at THEN s[i] ELSE s[i + 1]

\* t is s followed by u.
Joined(t, s, u) ==
    /\ Len(t) = Len(s) + Len(u)
    /\ \A i \in 1..Len(s) + Len(u) : t[i] = IF i <= Len(s) THEN s[i] ELSE u[i - Len(s)]

LEMMA SliceIs ==
    ASSUME NEW S, NEW s \in Seq(S), NEW first \in Nat, NEW last \in Nat,
           first <= last, last <= Len(s)
    PROVE  /\ SubSeq(s, first + 1, last) \in Seq(S)
           /\ Slice(SubSeq(s, first + 1, last), s, first, last - first)
<1>1. \A i \in first + 1..last : s[i] \in S
  BY LenProperties
<1>2. /\ SubSeq(s, first + 1, last) \in Seq(S)
      /\ Len(SubSeq(s, first + 1, last)) = IF first + 1 <= last THEN last - (first + 1) + 1 ELSE 0
      /\ \A i \in 1..last - (first + 1) + 1 :
            SubSeq(s, first + 1, last)[i] = s[first + 1 + i - 1]
  BY <1>1, SubSeqProperties
<1>3. /\ (IF first + 1 <= last THEN last - (first + 1) + 1 ELSE 0) = last - first
      /\ last - (first + 1) + 1 = last - first
      /\ \A i \in 1..last - first : first + 1 + i - 1 = first + i
  OBVIOUS
<1> QED
  BY <1>2, <1>3 DEF Slice

LEMMA JoinedIs ==
    ASSUME NEW S, NEW s \in Seq(S), NEW u \in Seq(S)
    PROVE  s \o u \in Seq(S) /\ Joined(s \o u, s, u)
  BY ConcatProperties DEF Joined

LEMMA InsertedIs ==
    ASSUME NEW S, NEW s \in Seq(S), NEW at \in 1..Len(s) + 1, NEW e \in S
    PROVE  InsertAt(s, at, e) \in Seq(S) /\ Inserted(InsertAt(s, at, e), s, at, e)
<1>1. Len(s) \in Nat /\ at - 1 \in Nat /\ at - 1 <= Len(s)
  BY LenProperties
<1>2. PICK low : low = SubSeq(s, 1, at - 1)
  OBVIOUS
<1>3. PICK high : high = SubSeq(s, at, Len(s))
  OBVIOUS
<1>4. low \in Seq(S) /\ Slice(low, s, 0, at - 1)
  <2>1. 0 \in Nat /\ 0 <= at - 1 /\ 0 + 1 = 1 /\ (at - 1) - 0 = at - 1
    BY <1>1
  <2> QED
    BY <1>1, <1>2, <2>1, SliceIs
<1>5. high \in Seq(S) /\ Slice(high, s, at - 1, Len(s) - at + 1)
  <2>1. (at - 1) + 1 = at /\ Len(s) - (at - 1) = Len(s) - at + 1
    BY <1>1
  <2> QED
    BY <1>1, <1>3, <2>1, SliceIs
<1>6. <<e>> \in Seq(S) /\ Len(<<e>>) = 1 /\ <<e>>[1] = e
  OBVIOUS
<1>7. PICK t : t = low \o <<e>>
  OBVIOUS
<1>8. t \in Seq(S) /\ Joined(t, low, <<e>>)
  BY <1>4, <1>6, <1>7, JoinedIs
<1>9. PICK w : w = t \o high
  OBVIOUS
<1>10. w \in Seq(S) /\ Joined(w, t, high)
  BY <1>5, <1>8, <1>9, JoinedIs
<1>11. InsertAt(s, at, e) = w
  BY <1>2, <1>3, <1>7, <1>9 DEF InsertAt
<1>12. Len(low) = at - 1 /\ Len(t) = at /\ Len(high) = Len(s) - at + 1
  BY <1>1, <1>4, <1>5, <1>6, <1>8 DEF Slice, Joined
<1>13. Inserted(w, s, at, e)
  <2>1. Len(w) = Len(s) + 1
    BY <1>1, <1>10, <1>12 DEF Joined
  <2>2. ASSUME NEW i \in 1..Len(s) + 1
        PROVE  w[i] = IF i < at THEN s[i] ELSE IF i = at THEN e ELSE s[i - 1]
    <3>1. CASE i < at
      <4>1. i \in 1..at - 1 /\ i <= Len(t) /\ i <= Len(low) /\ 0 + i = i
        BY <1>1, <1>12, <3>1
      <4>2. w[i] = t[i]
        BY <1>1, <1>10, <1>12, <4>1 DEF Joined
      <4>3. t[i] = low[i]
        BY <1>1, <1>6, <1>8, <1>12, <4>1 DEF Joined
      <4> QED
        BY <1>4, <3>1, <4>1, <4>2, <4>3 DEF Slice
    <3>2. CASE i = at
      <4>1. w[i] = t[i]
        BY <1>1, <1>10, <1>12, <3>2 DEF Joined
      <4>2. t[i] = <<e>>[1]
        BY <1>1, <1>6, <1>8, <1>12, <3>2 DEF Joined
      <4> QED
        BY <1>6, <3>2, <4>1, <4>2
    <3>3. CASE i > at
      <4>1. /\ i - at \in 1..Len(s) - at + 1
            /\ (at - 1) + (i - at) = i - 1
            /\ ~(i <= Len(t))
        BY <1>1, <1>12, <3>3
      <4>2. w[i] = high[i - at]
        BY <1>1, <1>10, <1>12, <4>1 DEF Joined
      <4>3. high[i - at] = s[i - 1]
        BY <1>5, <4>1 DEF Slice
      <4> QED
        BY <1>1, <3>3, <4>2, <4>3
    <3> QED
      BY <1>1, <3>1, <3>2, <3>3
  <2> QED
    BY <2>1, <2>2 DEF Inserted
<1> QED
  BY <1>10, <1>11, <1>13

LEMMA RemovedIs ==
    ASSUME NEW S, NEW s \in Seq(S), NEW at \in 1..Len(s)
    PROVE  RemoveAt(s, at) \in Seq(S) /\ Removed(RemoveAt(s, at), s, at)
<1>1. Len(s) \in Nat /\ at - 1 \in Nat /\ at - 1 <= Len(s) /\ at \in Nat /\ at <= Len(s)
  BY LenProperties
<1>2. PICK low : low = SubSeq(s, 1, at - 1)
  OBVIOUS
<1>3. PICK high : high = SubSeq(s, at + 1, Len(s))
  OBVIOUS
<1>4. low \in Seq(S) /\ Slice(low, s, 0, at - 1)
  <2>1. 0 \in Nat /\ 0 <= at - 1 /\ 0 + 1 = 1 /\ (at - 1) - 0 = at - 1
    BY <1>1
  <2> QED
    BY <1>1, <1>2, <2>1, SliceIs
<1>5. high \in Seq(S) /\ Slice(high, s, at, Len(s) - at)
  BY <1>1, <1>3, SliceIs
<1>6. PICK w : w = low \o high
  OBVIOUS
<1>7. w \in Seq(S) /\ Joined(w, low, high)
  BY <1>4, <1>5, <1>6, JoinedIs
<1>8. RemoveAt(s, at) = w
  BY <1>2, <1>3, <1>6 DEF RemoveAt
<1>9. Len(low) = at - 1 /\ Len(high) = Len(s) - at
  BY <1>4, <1>5 DEF Slice
<1>10. Len(w) = Len(s) - 1
  BY <1>1, <1>7, <1>9 DEF Joined
<1>11. ASSUME NEW i \in 1..Len(s) - 1
       PROVE  w[i] = IF i < at THEN s[i] ELSE s[i + 1]
  <2>0. w[i] = IF i <= Len(low) THEN low[i] ELSE high[i - Len(low)]
    BY <1>1, <1>7, <1>9 DEF Joined
  <2>1. CASE i < at
    <3>1. i \in 1..at - 1 /\ i <= Len(low) /\ 0 + i = i
      BY <1>1, <1>9, <2>1
    <3> QED
      BY <1>4, <2>0, <2>1, <3>1 DEF Slice
  <2>2. CASE ~(i < at)
    <3>1. /\ i - (at - 1) \in 1..Len(s) - at
          /\ at + (i - (at - 1)) = i + 1
          /\ ~(i <= Len(low))
      BY <1>1, <1>9, <2>2
    <3> QED
      BY <1>5, <1>9, <2>0, <2>2, <3>1 DEF Slice
  <2> QED
    BY <2>1, <2>2
<1> QED
  BY <1>7, <1>8, <1>10, <1>11 DEF Removed

LEMMA AppendedIs ==
    ASSUME NEW S, NEW s \in Seq(S), NEW e \in S
    PROVE  Append(s, e) \in Seq(S) /\ Inserted(Append(s, e), s, Len(s) + 1, e)
<1>1. /\ Append(s, e) \in Seq(S) /\ Len(Append(s, e)) = Len(s) + 1 /\ Len(s) \in Nat
      /\ \A i \in 1..Len(s) : Append(s, e)[i] = s[i]
      /\ Append(s, e)[Len(s) + 1] = e
  BY AppendProperties, LenProperties
<1>2. \A i \in 1..Len(s) + 1 : i = Len(s) + 1 \/ (i \in 1..Len(s) /\ i < Len(s) + 1)
  BY <1>1
<1> QED
  BY <1>1, <1>2 DEF Inserted

LEMMA PrependedIs ==
    ASSUME NEW S, NEW s \in Seq(S), NEW e \in S
    PROVE  <<e>> \o s \in Seq(S) /\ Inserted(<<e>> \o s, s, 1, e)
<1>1. <<e>> \in Seq(S) /\ Len(<<e>>) = 1 /\ <<e>>[1] = e /\ Len(s) \in Nat
  BY LenProperties
<1>2. <<e>> \o s \in Seq(S) /\ Joined(<<e>> \o s, <<e>>, s)
  BY <1>1, JoinedIs
<1>3. Len(<<e>> \o s) = Len(s) + 1
  BY <1>1, <1>2 DEF Joined
<1>4. ASSUME NEW i \in 1..Len(s) + 1
      PROVE  (<<e>> \o s)[i] = IF i < 1 THEN s[i] ELSE IF i = 1 THEN e ELSE s[i - 1]
  BY <1>1, <1>2 DEF Joined
<1> QED
  BY <1>2, <1>3, <1>4 DEF Inserted

LEMMA FrontIs ==
    ASSUME NEW S, NEW s \in Seq(S), Len(s) > 0
    PROVE  /\ Front(s) \in Seq(S) /\ Removed(Front(s), s, Len(s))
           /\ Last(s) = s[Len(s)] /\ Last(s) \in S
<1>1. Len(s) \in Nat /\ s[Len(s)] \in S
  BY LenProperties
<1>2. Front(s) = SubSeq(s, 0 + 1, Len(s) - 1) /\ Last(s) = s[Len(s)]
  BY DEF Front, Last
<1>3. Front(s) \in Seq(S) /\ Slice(Front(s), s, 0, Len(s) - 1)
  <2>1. 0 \in Nat /\ Len(s) - 1 \in Nat /\ 0 <= Len(s) - 1 /\ Len(s) - 1 <= Len(s)
        /\ (Len(s) - 1) - 0 = Len(s) - 1
    BY <1>1
  <2> QED
    BY <1>2, <2>1, SliceIs
<1>4. \A i \in 1..Len(s) - 1 : i < Len(s) /\ 0 + i = i
  BY <1>1
<1> QED
  BY <1>1, <1>2, <1>3, <1>4 DEF Removed, Slice

LEMMA TailIs ==
    ASSUME NEW S, NEW s \in Seq(S), Len(s) > 0
    PROVE  /\ Tail(s) \in Seq(S) /\ Removed(Tail(s), s, 1)
           /\ Head(s) = s[1] /\ s[1] \in S
<1>1. Len(s) \in Nat /\ s[1] \in S /\ s # << >>
  BY LenProperties
<1>2. /\ Tail(s) \in Seq(S) /\ Len(Tail(s)) = Len(s) - 1
      /\ \A i \in 1..Len(Tail(s)) : Tail(s)[i] = s[i + 1]
  BY <1>1, HeadTailProperties
<1>3. Head(s) = s[1]
  BY <1>1
<1> QED
  BY <1>1, <1>2, <1>3 DEF Removed

---------------------------------------------------------------------------
(* Nodes. *)

Pointers == {PointerOf[key] : key \in AllKeys}

\* The nodes that refer to these pages.
Nodes(ids) ==
    [keys : Seq(AllKeys), children : Seq(ids), values : Seq(Pointers),
     next_leaf : ids \cup {NoPage}, next_deleted_page : {NoPage}]

\* n is as filled as a node of this height may be: the leaves have height 0.
Fits(n, height) ==
    /\ Len(n.keys) <= MaxKeys
    /\ height = 0 => n.children = << >> /\ Len(n.values) = Len(n.keys)
    /\ height # 0 => n.values = << >> /\ Len(n.children) = Len(n.keys) + 1

LEMMA DegreeIs ==
    /\ MinKeys \in Nat /\ MinKeys >= 1
    /\ MaxKeys = 2 * MinKeys + 1
    /\ MaxDegree = 2 * MinKeys + 2
  BY DegreeAssumption DEF MinKeys, MaxKeys

LEMMA NodeIs ==
    ASSUME NEW ids, NEW n \in Nodes(ids)
    PROVE  /\ n.keys \in Seq(AllKeys) /\ n.children \in Seq(ids) /\ n.values \in Seq(Pointers)
           /\ n.next_leaf \in ids \cup {NoPage} /\ n.next_deleted_page = NoPage
           /\ Len(n.keys) \in Nat /\ Len(n.children) \in Nat /\ Len(n.values) \in Nat
           /\ DOMAIN n.keys = 1..Len(n.keys) /\ DOMAIN n.children = 1..Len(n.children)
<1>1. /\ n.keys \in Seq(AllKeys) /\ n.children \in Seq(ids) /\ n.values \in Seq(Pointers)
      /\ n.next_leaf \in ids \cup {NoPage} /\ n.next_deleted_page = NoPage
  BY DEF Nodes
<1>2. Len(n.keys) \in Nat /\ DOMAIN n.keys = 1..Len(n.keys)
  BY <1>1, LenProperties
<1>3. Len(n.children) \in Nat /\ DOMAIN n.children = 1..Len(n.children)
  BY <1>1, LenProperties
<1>4. Len(n.values) \in Nat
  BY <1>1, LenProperties
<1> QED
  BY <1>1, <1>2, <1>3, <1>4

LEMMA LeafIs ==
    ASSUME NEW ids, NEW n \in Nodes(ids), NEW height \in Nat, Fits(n, height)
    PROVE  IsLeaf(n) <=> height = 0
<1>1. Len(n.children) \in Nat /\ Len(n.keys) \in Nat
  BY NodeIs
<1>2. height # 0 => Len(n.children) > 0
  BY <1>1 DEF Fits
<1>3. Len(<< >>) = 0
  OBVIOUS
<1> QED
  BY <1>2, <1>3 DEF Fits, IsLeaf

LEMMA EmptyNodeIs == \A ids : EmptyNode \in Nodes(ids) /\ Fits(EmptyNode, 0)
<1>1. << >> \in Seq(AllKeys) /\ << >> \in Seq(Pointers) /\ Len(<< >>) = 0
  OBVIOUS
<1>2. ASSUME NEW ids PROVE << >> \in Seq(ids)
  OBVIOUS
<1>3. 0 <= MaxKeys
  BY DegreeIs
<1> QED
  BY <1>1, <1>2, <1>3 DEF EmptyNode, Nodes, Fits

---------------------------------------------------------------------------
(* Splitting. *)

\* l is the left half of n, a full node.
IsLeftHalf(l, n, height, right) ==
    /\ Fits(l, height)
    /\ Slice(l.keys, n.keys, 0, MinKeys)
    /\ height = 0 => Slice(l.values, n.values, 0, MinKeys) /\ l.next_leaf = right
    /\ height # 0 => Slice(l.children, n.children, 0, MinKeys + 1) /\ l.next_leaf = n.next_leaf

LEMMA LeftHalfIs ==
    ASSUME NEW ids, NEW n \in Nodes(ids), NEW height \in Nat, Fits(n, height), IsFull(n),
           NEW right \in ids
    PROVE  LeftHalf(n, right) \in Nodes(ids) /\ IsLeftHalf(LeftHalf(n, right), n, height, right)
<1> DEFINE l == LeftHalf(n, right)
<1> SUFFICES l \in Nodes(ids) /\ IsLeftHalf(l, n, height, right)
  OBVIOUS
<1>1. /\ MinKeys \in Nat /\ MinKeys >= 1 /\ MaxKeys = 2 * MinKeys + 1
      /\ Len(n.keys) \in Nat /\ Len(n.keys) = MaxKeys
  BY DegreeIs, NodeIs DEF Fits, IsFull
<1>2. Middle(n) = MinKeys
  BY <1>1 DEF Middle
<1>3. /\ n.keys \in Seq(AllKeys) /\ n.children \in Seq(ids) /\ n.values \in Seq(Pointers)
  BY NodeIs
<1>4. PICK keys : keys = SubSeq(n.keys, 1, MinKeys)
  OBVIOUS
<1>5. keys \in Seq(AllKeys) /\ Slice(keys, n.keys, 0, MinKeys)
  <2>1. /\ 0 \in Nat /\ 0 + 1 = 1 /\ 0 <= MinKeys /\ MinKeys <= Len(n.keys) /\ MinKeys - 0 = MinKeys
    BY <1>1
  <2> QED
    BY <1>1, <1>3, <1>4, <2>1, SliceIs
<1>6. CASE height = 0
  <2>1. IsLeaf(n) /\ n.children = << >> /\ Len(n.values) = Len(n.keys)
    BY <1>6, LeafIs DEF Fits
  <2>2. PICK values : values = SubSeq(n.values, 1, MinKeys)
    OBVIOUS
  <2>3. values \in Seq(Pointers) /\ Slice(values, n.values, 0, MinKeys)
    <3>1. /\ 0 \in Nat /\ 0 + 1 = 1 /\ 0 <= MinKeys /\ MinKeys <= Len(n.values)
          /\ MinKeys - 0 = MinKeys
      BY <1>1, <2>1
    <3> QED
      BY <1>1, <1>3, <2>2, <3>1, SliceIs
  <2>4. l = [n EXCEPT !.keys = keys, !.children = n.children, !.values = values,
                      !.next_leaf = right]
    BY <1>2, <1>4, <2>1, <2>2 DEF LeftHalf
  <2>5. /\ l \in Nodes(ids) /\ l.keys = keys /\ l.children = << >> /\ l.values = values
        /\ l.next_leaf = right
    BY <1>3, <1>5, <2>1, <2>3, <2>4 DEF Nodes
  <2> HIDE DEF l
  <2> QED
    BY <1>1, <1>5, <1>6, <2>3, <2>5 DEF IsLeftHalf, Fits, Slice
<1>7. CASE height # 0
  <2>1. ~IsLeaf(n) /\ n.values = << >> /\ Len(n.children) = Len(n.keys) + 1
    BY <1>7, LeafIs DEF Fits
  <2>2. PICK children : children = SubSeq(n.children, 1, MinKeys + 1)
    OBVIOUS
  <2>3. children \in Seq(ids) /\ Slice(children, n.children, 0, MinKeys + 1)
    <3>1. /\ 0 \in Nat /\ 0 + 1 = 1 /\ MinKeys + 1 \in Nat /\ 0 <= MinKeys + 1
          /\ MinKeys + 1 <= Len(n.children) /\ (MinKeys + 1) - 0 = MinKeys + 1
      BY <1>1, <2>1
    <3> QED
      BY <1>3, <2>2, <3>1, SliceIs
  <2>4. l = [n EXCEPT !.keys = keys, !.children = children, !.values = n.values,
                      !.next_leaf = n.next_leaf]
    BY <1>2, <1>4, <2>1, <2>2 DEF LeftHalf
  <2>5. /\ l \in Nodes(ids) /\ l.keys = keys /\ l.children = children /\ l.values = << >>
        /\ l.next_leaf = n.next_leaf
    BY <1>3, <1>5, <2>1, <2>3, <2>4 DEF Nodes
  <2> HIDE DEF l
  <2> QED
    BY <1>1, <1>5, <1>7, <2>3, <2>5 DEF IsLeftHalf, Fits, Slice
<1> QED
  BY <1>6, <1>7

\* r is the right half of n, whose promoted key stays only in a leaf.
IsRightHalf(r, n, height) ==
    /\ Fits(r, height)
    /\ height = 0 =>
          /\ Slice(r.keys, n.keys, MinKeys, MinKeys + 1)
          /\ Slice(r.values, n.values, MinKeys, MinKeys + 1)
          /\ r.next_leaf = n.next_leaf
    /\ height # 0 =>
          /\ Slice(r.keys, n.keys, MinKeys + 1, MinKeys)
          /\ Slice(r.children, n.children, MinKeys + 1, MinKeys + 1)
          /\ r.next_leaf = NoPage

LEMMA RightHalfIs ==
    ASSUME NEW ids, NEW n \in Nodes(ids), NEW height \in Nat, Fits(n, height), IsFull(n)
    PROVE  /\ RightHalf(n, EmptyNode) \in Nodes(ids)
           /\ IsRightHalf(RightHalf(n, EmptyNode), n, height)
<1> DEFINE r == RightHalf(n, EmptyNode)
<1> SUFFICES r \in Nodes(ids) /\ IsRightHalf(r, n, height)
  OBVIOUS
<1>1. /\ MinKeys \in Nat /\ MinKeys >= 1 /\ MaxKeys = 2 * MinKeys + 1
      /\ Len(n.keys) \in Nat /\ Len(n.keys) = 2 * MinKeys + 1
  <2>1. Len(n.keys) \in Nat /\ MaxKeys \in Nat /\ Len(n.keys) <= MaxKeys /\ Len(n.keys) >= MaxKeys
    BY DegreeIs, NodeIs DEF Fits, IsFull
  <2> QED
    BY <2>1, DegreeIs
<1>2. Middle(n) = MinKeys
  BY <1>1 DEF Middle
<1>3. /\ n.keys \in Seq(AllKeys) /\ n.children \in Seq(ids) /\ n.values \in Seq(Pointers)
      /\ n.next_leaf \in ids \cup {NoPage}
  BY NodeIs
<1>4. CASE height = 0
  <2>1. IsLeaf(n) /\ n.children = << >> /\ Len(n.values) = Len(n.keys)
    BY <1>4, LeafIs DEF Fits
  <2>2. PICK keys : keys = SubSeq(n.keys, MinKeys + 1, Len(n.keys))
    OBVIOUS
  <2>3. PICK values : values = SubSeq(n.values, MinKeys + 1, Len(n.values))
    OBVIOUS
  <2>4. /\ MinKeys <= Len(n.keys) /\ Len(n.keys) - MinKeys = MinKeys + 1
    BY <1>1
  <2>5. keys \in Seq(AllKeys) /\ Slice(keys, n.keys, MinKeys, MinKeys + 1)
    <3>1. Len(n.keys) <= Len(n.keys)
      BY <1>1
    <3> QED
      BY <1>1, <1>3, <2>2, <2>4, <3>1, SliceIs
  <2>6. values \in Seq(Pointers) /\ Slice(values, n.values, MinKeys, MinKeys + 1)
    <3>1. Len(n.values) \in Nat /\ Len(n.values) <= Len(n.values) /\ MinKeys <= Len(n.values)
          /\ Len(n.values) - MinKeys = MinKeys + 1
      BY <1>1, <2>1, <2>4
    <3> QED
      BY <1>1, <1>3, <2>3, <3>1, SliceIs
  <2>0. EmptyNode \in Nodes(ids)
    BY EmptyNodeIs
  <2>7. r = [EmptyNode EXCEPT !.keys = keys, !.values = values, !.next_leaf = n.next_leaf]
    BY <1>2, <2>1, <2>2, <2>3 DEF RightHalf
  <2>8. /\ r \in Nodes(ids) /\ r.keys = keys /\ r.children = << >> /\ r.values = values
        /\ r.next_leaf = n.next_leaf
    BY <1>3, <2>0, <2>5, <2>6, <2>7 DEF Nodes, EmptyNode
  <2> HIDE DEF r
  <2> QED
    BY <1>1, <1>4, <2>5, <2>6, <2>8 DEF IsRightHalf, Fits, Slice
<1>5. CASE height # 0
  <2>1. ~IsLeaf(n) /\ Len(n.children) = Len(n.keys) + 1
    BY <1>5, LeafIs DEF Fits
  <2>2. PICK keys : keys = SubSeq(n.keys, MinKeys + 2, Len(n.keys))
    OBVIOUS
  <2>3. PICK children : children = SubSeq(n.children, MinKeys + 2, Len(n.children))
    OBVIOUS
  <2>4. keys \in Seq(AllKeys) /\ Slice(keys, n.keys, MinKeys + 1, MinKeys)
    <3>1. /\ MinKeys + 1 \in Nat /\ MinKeys + 1 <= Len(n.keys) /\ Len(n.keys) <= Len(n.keys)
          /\ (MinKeys + 1) + 1 = MinKeys + 2 /\ Len(n.keys) - (MinKeys + 1) = MinKeys
      BY <1>1
    <3> QED
      BY <1>1, <1>3, <2>2, <3>1, SliceIs
  <2>5. children \in Seq(ids) /\ Slice(children, n.children, MinKeys + 1, MinKeys + 1)
    <3>1. /\ MinKeys + 1 \in Nat /\ Len(n.children) \in Nat /\ MinKeys + 1 <= Len(n.children)
          /\ Len(n.children) <= Len(n.children)
          /\ (MinKeys + 1) + 1 = MinKeys + 2 /\ Len(n.children) - (MinKeys + 1) = MinKeys + 1
      BY <1>1, <2>1
    <3> QED
      BY <1>3, <2>3, <3>1, SliceIs
  <2>0. EmptyNode \in Nodes(ids)
    BY EmptyNodeIs
  <2>6. r = [EmptyNode EXCEPT !.keys = keys, !.children = children]
    BY <1>2, <2>1, <2>2, <2>3 DEF RightHalf
  <2>7. /\ r \in Nodes(ids) /\ r.keys = keys /\ r.children = children /\ r.values = << >>
        /\ r.next_leaf = NoPage
    BY <1>3, <2>0, <2>4, <2>5, <2>6 DEF Nodes, EmptyNode
  <2> HIDE DEF r
  <2> QED
    BY <1>1, <1>5, <2>4, <2>5, <2>7 DEF IsRightHalf, Fits, Slice
<1> QED
  BY <1>4, <1>5

LEMMA ReplacedIs ==
    ASSUME NEW S, NEW s \in Seq(S), NEW i \in 1..Len(s), NEW e \in S
    PROVE  [s EXCEPT ![i] = e] \in Seq(S) /\ Len([s EXCEPT ![i] = e]) = Len(s)
  BY LenProperties, ExceptSeq

\* q is the inner node n with right as one more child, after the one at idx.
IsParentOfSplit(q, n, idx, right, height) ==
    /\ Fits(q, height)
    /\ Len(q.keys) = Len(n.keys) + 1
    /\ Inserted(q.children, n.children, idx + 1, right)

LEMMA ParentOfSplitIs ==
    ASSUME NEW ids, NEW n \in Nodes(ids), NEW height \in Nat, height # 0, Fits(n, height),
           ~IsFull(n), NEW idx \in 1..Len(n.children), NEW promoted \in AllKeys,
           NEW right \in ids
    PROVE  /\ ParentOfSplit(n, idx, promoted, right) \in Nodes(ids)
           /\ IsParentOfSplit(ParentOfSplit(n, idx, promoted, right), n, idx, right, height)
<1> DEFINE q == ParentOfSplit(n, idx, promoted, right)
<1> SUFFICES q \in Nodes(ids) /\ IsParentOfSplit(q, n, idx, right, height)
  OBVIOUS
<1>1. /\ n.keys \in Seq(AllKeys) /\ n.children \in Seq(ids) /\ n.values \in Seq(Pointers)
      /\ Len(n.keys) \in Nat /\ Len(n.children) \in Nat
  BY NodeIs
<1>2. /\ Len(n.children) = Len(n.keys) + 1 /\ n.values = << >> /\ Len(n.keys) < MaxKeys
      /\ MaxKeys \in Nat
  BY <1>1, DegreeIs DEF Fits, IsFull
<1>3. PICK keys : keys = InsertAt(n.keys, idx, promoted)
  OBVIOUS
<1>4. PICK children : children = InsertAt(n.children, idx + 1, right)
  OBVIOUS
<1>5. keys \in Seq(AllKeys) /\ Len(keys) = Len(n.keys) + 1
  <2>1. idx \in 1..Len(n.keys) + 1
    BY <1>1, <1>2
  <2> QED
    BY <1>1, <1>3, <2>1, InsertedIs DEF Inserted
<1>6. /\ children \in Seq(ids) /\ Inserted(children, n.children, idx + 1, right)
      /\ Len(children) = Len(n.children) + 1
  <2>1. idx + 1 \in 1..Len(n.children) + 1
    BY <1>1
  <2>2. children \in Seq(ids) /\ Inserted(children, n.children, idx + 1, right)
    BY <1>1, <1>4, <2>1, InsertedIs
  <2> QED
    BY <2>2 DEF Inserted
<1>7. q = [n EXCEPT !.keys = keys, !.children = children]
  BY <1>3, <1>4 DEF ParentOfSplit
<1>8. q \in Nodes(ids) /\ q.keys = keys /\ q.children = children /\ q.values = << >>
  BY <1>2, <1>5, <1>6, <1>7 DEF Nodes
<1> HIDE DEF q
<1>9. Fits(q, height)
  BY <1>1, <1>2, <1>5, <1>6, <1>8 DEF Fits
<1> QED
  BY <1>5, <1>6, <1>8, <1>9 DEF IsParentOfSplit

---------------------------------------------------------------------------
(* Lending. *)

\* After a loan, g is what was the node giver and t what was taker, both of this
\* height, and q what was their parent p.  An inner node gives its child at from, which
\* is put at to.
IsLoan(g, giver, t, taker, q, p, height, from, to) ==
    /\ Fits(g, height) /\ Len(g.keys) = Len(giver.keys) - 1
    /\ Fits(t, height) /\ Len(t.keys) = Len(taker.keys) + 1
    /\ Fits(q, height + 1) /\ Len(q.keys) = Len(p.keys) /\ q.children = p.children
    /\ height # 0 =>
          /\ from \in 1..Len(giver.children)
          /\ to \in 1..Len(taker.children) + 1
          /\ Removed(g.children, giver.children, from)
          /\ Inserted(t.children, taker.children, to, giver.children[from])

LEMMA LendFromLeftIs ==
    ASSUME NEW ids, NEW p \in Nodes(ids), NEW left \in Nodes(ids), NEW t \in Nodes(ids),
           NEW height \in Nat, Fits(p, height + 1), Fits(left, height), Fits(t, height),
           NEW idx \in 2..Len(p.children), CanLendKeys(left), IsLessThanMinimal(t)
    PROVE  /\ LendFromLeft(p, idx, left, t).left \in Nodes(ids)
           /\ LendFromLeft(p, idx, left, t).target \in Nodes(ids)
           /\ LendFromLeft(p, idx, left, t).parent \in Nodes(ids)
           /\ IsLoan(LendFromLeft(p, idx, left, t).left, left,
                     LendFromLeft(p, idx, left, t).target, t,
                     LendFromLeft(p, idx, left, t).parent, p, height, Len(left.children), 1)
<1> DEFINE l == LendFromLeft(p, idx, left, t).left
           g == LendFromLeft(p, idx, left, t).target
           q == LendFromLeft(p, idx, left, t).parent
<1> SUFFICES /\ l \in Nodes(ids) /\ g \in Nodes(ids) /\ q \in Nodes(ids)
             /\ IsLoan(l, left, g, t, q, p, height, Len(left.children), 1)
  OBVIOUS
<1>1. /\ left.keys \in Seq(AllKeys) /\ left.children \in Seq(ids) /\ left.values \in Seq(Pointers)
      /\ Len(left.keys) \in Nat /\ Len(left.children) \in Nat /\ Len(left.values) \in Nat
  BY NodeIs
<1>2. /\ t.keys \in Seq(AllKeys) /\ t.children \in Seq(ids) /\ t.values \in Seq(Pointers)
      /\ Len(t.keys) \in Nat /\ Len(t.children) \in Nat /\ Len(t.values) \in Nat
  BY NodeIs
<1>3. /\ p.keys \in Seq(AllKeys) /\ p.children \in Seq(ids) /\ p.values \in Seq(Pointers)
      /\ Len(p.keys) \in Nat /\ Len(p.children) \in Nat
      /\ Len(p.children) = Len(p.keys) + 1 /\ Len(p.keys) <= MaxKeys /\ p.values = << >>
  <2>1. height + 1 # 0
    OBVIOUS
  <2> QED
    BY <2>1, NodeIs DEF Fits
<1>4. /\ MinKeys \in Nat /\ MinKeys >= 1 /\ MaxKeys = 2 * MinKeys + 1
      /\ Len(left.keys) > MinKeys /\ Len(t.keys) < MinKeys
      /\ Len(left.keys) <= MaxKeys
  BY DegreeIs DEF CanLendKeys, IsLessThanMinimal, Fits
<1>5. idx - 1 \in 1..Len(p.keys)
  BY <1>3
<1>6. PICK key : key = Last(left.keys)
  OBVIOUS
<1>7. PICK front : front = Front(left.keys)
  OBVIOUS
<1>8. /\ front \in Seq(AllKeys) /\ Removed(front, left.keys, Len(left.keys)) /\ key \in AllKeys
      /\ Len(front) = Len(left.keys) - 1
  <2>1. Len(left.keys) > 0
    BY <1>1, <1>4
  <2> QED
    BY <1>1, <1>6, <1>7, <2>1, FrontIs DEF Removed
<1>9. PICK separators : separators = [p.keys EXCEPT ![idx - 1] = key]
  OBVIOUS
<1>10. separators \in Seq(AllKeys) /\ Len(separators) = Len(p.keys)
  BY <1>3, <1>5, <1>8, <1>9, ReplacedIs
<1>11. PICK parent : parent = [p EXCEPT !.keys = separators]
  OBVIOUS
<1>12. /\ parent \in Nodes(ids) /\ parent.keys = separators /\ parent.children = p.children
       /\ parent.values = << >>
  BY <1>3, <1>10, <1>11 DEF Nodes
<1>13. /\ Fits(parent, height + 1) /\ Len(parent.keys) = Len(p.keys)
  BY <1>3, <1>10, <1>12 DEF Fits
<1>14. CASE height = 0
  <2>1. /\ IsLeaf(t) /\ t.children = << >> /\ Len(t.values) = Len(t.keys)
        /\ left.children = << >> /\ Len(left.values) = Len(left.keys)
    BY <1>14, LeafIs DEF Fits
  <2>2. PICK rest : rest = Front(left.values)
    OBVIOUS
  <2>3. PICK value : value = Last(left.values)
    OBVIOUS
  <2>4. /\ rest \in Seq(Pointers) /\ Removed(rest, left.values, Len(left.values))
        /\ value \in Pointers /\ Len(rest) = Len(left.values) - 1
    <3>1. Len(left.values) > 0
      BY <1>1, <1>4, <2>1
    <3> QED
      BY <1>1, <2>2, <2>3, <3>1, FrontIs DEF Removed
  <2>5. PICK keys : keys = <<key>> \o t.keys
    OBVIOUS
  <2>6. PICK values : values = <<value>> \o t.values
    OBVIOUS
  <2>7. keys \in Seq(AllKeys) /\ Len(keys) = Len(t.keys) + 1
    BY <1>2, <1>8, <2>5, PrependedIs DEF Inserted
  <2>8. values \in Seq(Pointers) /\ Len(values) = Len(t.values) + 1
    BY <1>2, <2>4, <2>6, PrependedIs DEF Inserted
  <2>9. l = [left EXCEPT !.keys = front, !.values = rest]
    BY <1>7, <2>1, <2>2 DEF LendFromLeft
  <2>10. g = [t EXCEPT !.keys = keys, !.values = values]
    BY <1>6, <2>1, <2>3, <2>5, <2>6 DEF LendFromLeft
  <2>11. q = parent
    BY <1>6, <1>9, <1>11, <2>1 DEF LendFromLeft
  <2>12. l \in Nodes(ids) /\ l.keys = front /\ l.children = << >> /\ l.values = rest
    BY <1>8, <2>1, <2>4, <2>9 DEF Nodes
  <2>13. g \in Nodes(ids) /\ g.keys = keys /\ g.children = << >> /\ g.values = values
    BY <2>1, <2>7, <2>8, <2>10 DEF Nodes
  <2> HIDE DEF l, g, q
  <2>14. Fits(l, height) /\ Len(l.keys) = Len(left.keys) - 1
    BY <1>1, <1>4, <1>8, <1>14, <2>1, <2>4, <2>12 DEF Fits
  <2>15. Fits(g, height) /\ Len(g.keys) = Len(t.keys) + 1
    BY <1>2, <1>4, <1>14, <2>1, <2>7, <2>8, <2>13 DEF Fits
  <2> QED
    BY <1>12, <1>13, <1>14, <2>11, <2>12, <2>13, <2>14, <2>15 DEF IsLoan
<1>15. CASE height # 0
  <2>1. /\ ~IsLeaf(t) /\ Len(t.children) = Len(t.keys) + 1 /\ t.values = << >>
        /\ left.values = << >> /\ Len(left.children) = Len(left.keys) + 1
    BY <1>15, LeafIs DEF Fits
  <2>2. PICK rest : rest = Front(left.children)
    OBVIOUS
  <2>3. PICK child : child = Last(left.children)
    OBVIOUS
  <2>4. /\ rest \in Seq(ids) /\ Removed(rest, left.children, Len(left.children))
        /\ child \in ids /\ child = left.children[Len(left.children)]
        /\ Len(rest) = Len(left.children) - 1
    <3>1. Len(left.children) > 0
      BY <1>1, <2>1
    <3> QED
      BY <1>1, <2>2, <2>3, <3>1, FrontIs DEF Removed
  <2>5. PICK keys : keys = <<p.keys[idx - 1]>> \o t.keys
    OBVIOUS
  <2>6. PICK children : children = <<child>> \o t.children
    OBVIOUS
  <2>7. keys \in Seq(AllKeys) /\ Len(keys) = Len(t.keys) + 1
    <3>1. p.keys[idx - 1] \in AllKeys
      BY <1>3, <1>5, LenProperties
    <3> QED
      BY <1>2, <2>5, <3>1, PrependedIs DEF Inserted
  <2>8. /\ children \in Seq(ids) /\ Len(children) = Len(t.children) + 1
        /\ Inserted(children, t.children, 1, child)
    BY <1>2, <2>4, <2>6, PrependedIs DEF Inserted
  <2>9. l = [left EXCEPT !.keys = front, !.children = rest]
    BY <1>7, <2>1, <2>2 DEF LendFromLeft
  <2>10. g = [t EXCEPT !.keys = keys, !.children = children]
    BY <2>1, <2>3, <2>5, <2>6 DEF LendFromLeft
  <2>11. q = parent
    BY <1>6, <1>9, <1>11, <2>1 DEF LendFromLeft
  <2>12. l \in Nodes(ids) /\ l.keys = front /\ l.children = rest /\ l.values = << >>
    BY <1>8, <2>1, <2>4, <2>9 DEF Nodes
  <2>13. g \in Nodes(ids) /\ g.keys = keys /\ g.children = children /\ g.values = << >>
    BY <2>1, <2>7, <2>8, <2>10 DEF Nodes
  <2> HIDE DEF l, g, q
  <2>14. Fits(l, height) /\ Len(l.keys) = Len(left.keys) - 1
    BY <1>1, <1>4, <1>8, <1>15, <2>1, <2>4, <2>12 DEF Fits
  <2>15. Fits(g, height) /\ Len(g.keys) = Len(t.keys) + 1
    BY <1>2, <1>4, <1>15, <2>1, <2>7, <2>8, <2>13 DEF Fits
  <2>16. Len(left.children) \in 1..Len(left.children) /\ 1 \in 1..Len(t.children) + 1
    BY <1>1, <1>2, <2>1
  <2>17. /\ Removed(l.children, left.children, Len(left.children))
         /\ Inserted(g.children, t.children, 1, left.children[Len(left.children)])
    BY <2>4, <2>8, <2>12, <2>13
  <2> QED
    BY <1>12, <1>13, <2>11, <2>12, <2>13, <2>14, <2>15, <2>16, <2>17 DEF IsLoan
<1> QED
  BY <1>14, <1>15

LEMMA LendFromRightIs ==
    ASSUME NEW ids, NEW p \in Nodes(ids), NEW right \in Nodes(ids), NEW t \in Nodes(ids),
           NEW height \in Nat, Fits(p, height + 1), Fits(right, height), Fits(t, height),
           NEW idx \in Nat, idx >= 1, idx < Len(p.children), CanLendKeys(right),
           IsLessThanMinimal(t)
    PROVE  /\ LendFromRight(p, idx, right, t).right \in Nodes(ids)
           /\ LendFromRight(p, idx, right, t).target \in Nodes(ids)
           /\ LendFromRight(p, idx, right, t).parent \in Nodes(ids)
           /\ IsLoan(LendFromRight(p, idx, right, t).right, right,
                     LendFromRight(p, idx, right, t).target, t,
                     LendFromRight(p, idx, right, t).parent, p, height,
                     1, Len(t.children) + 1)
<1> DEFINE r == LendFromRight(p, idx, right, t).right
           g == LendFromRight(p, idx, right, t).target
           q == LendFromRight(p, idx, right, t).parent
<1> SUFFICES /\ r \in Nodes(ids) /\ g \in Nodes(ids) /\ q \in Nodes(ids)
             /\ IsLoan(r, right, g, t, q, p, height, 1, Len(t.children) + 1)
  OBVIOUS
<1>1. /\ right.keys \in Seq(AllKeys) /\ right.children \in Seq(ids)
      /\ right.values \in Seq(Pointers)
      /\ Len(right.keys) \in Nat /\ Len(right.children) \in Nat /\ Len(right.values) \in Nat
  BY NodeIs
<1>2. /\ t.keys \in Seq(AllKeys) /\ t.children \in Seq(ids) /\ t.values \in Seq(Pointers)
      /\ Len(t.keys) \in Nat /\ Len(t.children) \in Nat /\ Len(t.values) \in Nat
  BY NodeIs
<1>3. /\ p.keys \in Seq(AllKeys) /\ p.children \in Seq(ids) /\ p.values \in Seq(Pointers)
      /\ Len(p.keys) \in Nat /\ Len(p.children) \in Nat
      /\ Len(p.children) = Len(p.keys) + 1 /\ Len(p.keys) <= MaxKeys /\ p.values = << >>
  <2>1. height + 1 # 0
    OBVIOUS
  <2> QED
    BY <2>1, NodeIs DEF Fits
<1>4. /\ MinKeys \in Nat /\ MinKeys >= 1 /\ MaxKeys = 2 * MinKeys + 1
      /\ Len(right.keys) > MinKeys /\ Len(t.keys) < MinKeys
      /\ Len(right.keys) <= MaxKeys
  BY DegreeIs DEF CanLendKeys, IsLessThanMinimal, Fits
<1>5. idx \in 1..Len(p.keys)
  BY <1>3
<1>6. PICK back : back = Tail(right.keys)
  OBVIOUS
<1>7. PICK first : first = Head(right.keys)
  OBVIOUS
<1>8. /\ back \in Seq(AllKeys) /\ Len(back) = Len(right.keys) - 1
      /\ first \in AllKeys /\ right.keys[2] \in AllKeys
  <2>1. Len(right.keys) > 0 /\ 2 \in 1..Len(right.keys)
    BY <1>1, <1>4
  <2>2. /\ back \in Seq(AllKeys) /\ Removed(back, right.keys, 1)
        /\ first = right.keys[1] /\ right.keys[1] \in AllKeys
    BY <1>1, <1>6, <1>7, <2>1, TailIs
  <2>3. right.keys[2] \in AllKeys
    BY <1>1, <2>1, LenProperties
  <2> QED
    BY <2>2, <2>3 DEF Removed
<1>9. ASSUME NEW key \in AllKeys
      PROVE  /\ [p EXCEPT !.keys[idx] = key] \in Nodes(ids)
             /\ Fits([p EXCEPT !.keys[idx] = key], height + 1)
             /\ Len([p EXCEPT !.keys[idx] = key].keys) = Len(p.keys)
             /\ [p EXCEPT !.keys[idx] = key].children = p.children
  <2>1. PICK separators : separators = [p.keys EXCEPT ![idx] = key]
    OBVIOUS
  <2>2. separators \in Seq(AllKeys) /\ Len(separators) = Len(p.keys)
    BY <1>3, <1>5, <2>1, ReplacedIs
  <2>3. PICK parent : parent = [p EXCEPT !.keys = separators]
    OBVIOUS
  <2>4. /\ parent \in Nodes(ids) /\ parent.keys = separators /\ parent.children = p.children
        /\ parent.values = << >>
    BY <1>3, <2>2, <2>3 DEF Nodes
  <2>5. /\ Fits(parent, height + 1) /\ Len(parent.keys) = Len(p.keys)
    BY <1>3, <2>2, <2>4 DEF Fits
  <2>6. [p EXCEPT !.keys[idx] = key] = parent
    BY <2>1, <2>3
  <2> QED
    BY <2>4, <2>5, <2>6
<1>14. CASE height = 0
  <2>1. /\ IsLeaf(t) /\ t.children = << >> /\ Len(t.values) = Len(t.keys)
        /\ right.children = << >> /\ Len(right.values) = Len(right.keys)
    BY <1>14, LeafIs DEF Fits
  <2>2. PICK rest : rest = Tail(right.values)
    OBVIOUS
  <2>3. PICK value : value = Head(right.values)
    OBVIOUS
  <2>4. /\ rest \in Seq(Pointers) /\ value \in Pointers /\ Len(rest) = Len(right.values) - 1
    <3>1. Len(right.values) > 0
      BY <1>1, <1>4, <2>1
    <3>2. /\ rest \in Seq(Pointers) /\ Removed(rest, right.values, 1)
          /\ value = right.values[1] /\ right.values[1] \in Pointers
      BY <1>1, <2>2, <2>3, <3>1, TailIs
    <3> QED
      BY <3>2 DEF Removed
  <2>5. PICK keys : keys = Append(t.keys, first)
    OBVIOUS
  <2>6. PICK values : values = Append(t.values, value)
    OBVIOUS
  <2>7. keys \in Seq(AllKeys) /\ Len(keys) = Len(t.keys) + 1
    BY <1>2, <1>8, <2>5, AppendProperties
  <2>8. values \in Seq(Pointers) /\ Len(values) = Len(t.values) + 1
    BY <1>2, <2>4, <2>6, AppendProperties
  <2>9. r = [right EXCEPT !.keys = back, !.values = rest]
    BY <1>6, <2>1, <2>2 DEF LendFromRight
  <2>10. g = [t EXCEPT !.keys = keys, !.values = values]
    BY <1>7, <2>1, <2>3, <2>5, <2>6 DEF LendFromRight
  <2>11. q = [p EXCEPT !.keys[idx] = right.keys[2]]
    BY <2>1 DEF LendFromRight
  <2>12. r \in Nodes(ids) /\ r.keys = back /\ r.children = << >> /\ r.values = rest
    BY <1>8, <2>1, <2>4, <2>9 DEF Nodes
  <2>13. g \in Nodes(ids) /\ g.keys = keys /\ g.children = << >> /\ g.values = values
    BY <2>1, <2>7, <2>8, <2>10 DEF Nodes
  <2> HIDE DEF r, g, q
  <2>14. Fits(r, height) /\ Len(r.keys) = Len(right.keys) - 1
    BY <1>1, <1>4, <1>8, <1>14, <2>1, <2>4, <2>12 DEF Fits
  <2>15. Fits(g, height) /\ Len(g.keys) = Len(t.keys) + 1
    BY <1>2, <1>4, <1>14, <2>1, <2>7, <2>8, <2>13 DEF Fits
  <2>16. /\ q \in Nodes(ids) /\ Fits(q, height + 1) /\ Len(q.keys) = Len(p.keys)
         /\ q.children = p.children
    BY <1>8, <1>9, <2>11
  <2> QED
    BY <1>14, <2>12, <2>13, <2>14, <2>15, <2>16 DEF IsLoan
<1>15. CASE height # 0
  <2>1. /\ ~IsLeaf(t) /\ Len(t.children) = Len(t.keys) + 1 /\ t.values = << >>
        /\ right.values = << >> /\ Len(right.children) = Len(right.keys) + 1
    BY <1>15, LeafIs DEF Fits
  <2>2. PICK rest : rest = Tail(right.children)
    OBVIOUS
  <2>3. PICK child : child = Head(right.children)
    OBVIOUS
  <2>4. /\ rest \in Seq(ids) /\ Removed(rest, right.children, 1)
        /\ child \in ids /\ child = right.children[1]
        /\ Len(rest) = Len(right.children) - 1
    <3>1. Len(right.children) > 0
      BY <1>1, <2>1
    <3>2. /\ rest \in Seq(ids) /\ Removed(rest, right.children, 1)
          /\ child = right.children[1] /\ right.children[1] \in ids
      BY <1>1, <2>2, <2>3, <3>1, TailIs
    <3> QED
      BY <3>2 DEF Removed
  <2>5. PICK keys : keys = Append(t.keys, p.keys[idx])
    OBVIOUS
  <2>6. PICK children : children = Append(t.children, child)
    OBVIOUS
  <2>7. keys \in Seq(AllKeys) /\ Len(keys) = Len(t.keys) + 1
    <3>1. p.keys[idx] \in AllKeys
      BY <1>3, <1>5, LenProperties
    <3> QED
      BY <1>2, <2>5, <3>1, AppendProperties
  <2>8. /\ children \in Seq(ids) /\ Inserted(children, t.children, Len(t.children) + 1, child)
        /\ Len(children) = Len(t.children) + 1
    <3>1. /\ children \in Seq(ids)
          /\ Inserted(children, t.children, Len(t.children) + 1, child)
      BY <1>2, <2>4, <2>6, AppendedIs
    <3> QED
      BY <3>1 DEF Inserted
  <2>9. r = [right EXCEPT !.keys = back, !.children = rest]
    BY <1>6, <2>1, <2>2 DEF LendFromRight
  <2>10. g = [t EXCEPT !.keys = keys, !.children = children]
    BY <2>1, <2>3, <2>5, <2>6 DEF LendFromRight
  <2>11. q = [p EXCEPT !.keys[idx] = first]
    BY <1>7, <2>1 DEF LendFromRight
  <2>12. r \in Nodes(ids) /\ r.keys = back /\ r.children = rest /\ r.values = << >>
    BY <1>8, <2>1, <2>4, <2>9 DEF Nodes
  <2>13. g \in Nodes(ids) /\ g.keys = keys /\ g.children = children /\ g.values = << >>
    BY <2>1, <2>7, <2>8, <2>10 DEF Nodes
  <2> HIDE DEF r, g, q
  <2>14. Fits(r, height) /\ Len(r.keys) = Len(right.keys) - 1
    BY <1>1, <1>4, <1>8, <1>15, <2>1, <2>4, <2>12 DEF Fits
  <2>15. Fits(g, height) /\ Len(g.keys) = Len(t.keys) + 1
    BY <1>2, <1>4, <1>15, <2>1, <2>7, <2>8, <2>13 DEF Fits
  <2>16. 1 \in 1..Len(right.children) /\ Len(t.children) + 1 \in 1..Len(t.children) + 1
    BY <1>1, <1>2, <2>1
  <2>17. /\ Removed(r.children, right.children, 1)
         /\ Inserted(g.children, t.children, Len(t.children) + 1, right.children[1])
    BY <2>4, <2>8, <2>12, <2>13
  <2>18. /\ q \in Nodes(ids) /\ Fits(q, height + 1) /\ Len(q.keys) = Len(p.keys)
         /\ q.children = p.children
    BY <1>8, <1>9, <2>11
  <2> QED
    BY <2>12, <2>13, <2>14, <2>15, <2>16, <2>17, <2>18 DEF IsLoan
<1> QED
  BY <1>14, <1>15

---------------------------------------------------------------------------
(* Merging. *)

\* m is left and right, nodes of this height, in one; an inner node takes the
\* separator between the two.
IsMerger(m, left, right, height) ==
    /\ Fits(m, height)
    /\ Len(m.keys) >= Len(left.keys) + Len(right.keys)
    /\ height # 0 => Len(m.keys) = Len(left.keys) + Len(right.keys) + 1
    /\ Joined(m.children, left.children, right.children)

LEMMA MergedIs ==
    ASSUME NEW ids, NEW p \in Nodes(ids), NEW left \in Nodes(ids), NEW right \in Nodes(ids),
           NEW height \in Nat, Fits(p, height + 1), Fits(left, height), Fits(right, height),
           NEW idx \in Nat, idx >= 1, idx < Len(p.children),
           NEW a \in Nat, NEW b \in Nat, a = Len(left.keys), b = Len(right.keys), a + b < MaxKeys
    PROVE  /\ Merged(p, idx, left, right) \in Nodes(ids)
           /\ IsMerger(Merged(p, idx, left, right), left, right, height)
<1> DEFINE m == Merged(p, idx, left, right)
<1> SUFFICES m \in Nodes(ids) /\ IsMerger(m, left, right, height)
  OBVIOUS
<1>1. /\ left.keys \in Seq(AllKeys) /\ left.children \in Seq(ids)
      /\ left.values \in Seq(Pointers)
      /\ Len(left.keys) \in Nat /\ Len(left.children) \in Nat /\ Len(left.values) \in Nat
  BY NodeIs
<1>2. /\ right.keys \in Seq(AllKeys) /\ right.children \in Seq(ids)
      /\ right.values \in Seq(Pointers) /\ right.next_leaf \in ids \cup {NoPage}
      /\ Len(right.keys) \in Nat /\ Len(right.children) \in Nat /\ Len(right.values) \in Nat
  BY NodeIs
<1>3. p.keys[idx] \in AllKeys
  <2>1. /\ p.keys \in Seq(AllKeys) /\ Len(p.keys) \in Nat
        /\ Len(p.children) = Len(p.keys) + 1
    <3>1. height + 1 # 0
      OBVIOUS
    <3> QED
      BY <3>1, NodeIs DEF Fits
  <2>2. idx \in 1..Len(p.keys)
    BY <2>1
  <2> QED
    BY <2>1, <2>2, LenProperties
<1>4. MaxKeys \in Nat
  BY DegreeIs
<1>5. PICK children : children = left.children \o right.children
  OBVIOUS
<1>6. /\ children \in Seq(ids) /\ Joined(children, left.children, right.children)
      /\ Len(children) = Len(left.children) + Len(right.children)
  <2>1. children \in Seq(ids) /\ Joined(children, left.children, right.children)
    BY <1>1, <1>2, <1>5, JoinedIs
  <2> QED
    BY <2>1 DEF Joined
<1>7. CASE height = 0
  <2>1. /\ IsLeaf(left) /\ left.children = << >> /\ Len(left.values) = a
        /\ right.children = << >> /\ Len(right.values) = b
    BY <1>7, LeafIs DEF Fits
  <2>2. PICK keys : keys = left.keys \o right.keys
    OBVIOUS
  <2>3. PICK values : values = left.values \o right.values
    OBVIOUS
  <2>4. keys \in Seq(AllKeys) /\ Len(keys) = a + b
    BY <1>1, <1>2, <2>2, ConcatProperties
  <2>5. values \in Seq(Pointers) /\ Len(values) = Len(left.values) + Len(right.values)
    BY <1>1, <1>2, <2>3, ConcatProperties
  <2>6. m = [left EXCEPT !.keys = keys, !.values = values, !.next_leaf = right.next_leaf]
    BY <2>1, <2>2, <2>3 DEF Merged
  <2>7. m \in Nodes(ids) /\ m.keys = keys /\ m.children = << >> /\ m.values = values
    BY <1>2, <2>1, <2>4, <2>5, <2>6 DEF Nodes
  <2> HIDE DEF m
  <2>8. children = << >>
    BY <1>5, <2>1
  <2>9. Len(m.keys) = a + b /\ Len(m.values) = Len(m.keys)
    BY <2>1, <2>4, <2>5, <2>7
  <2>10. Fits(m, height)
    <3>1. Len(m.keys) <= MaxKeys
      BY ONLY <1>4, <2>9, a \in Nat, b \in Nat, a + b < MaxKeys
    <3> QED
      BY <1>7, <2>7, <2>9, <3>1 DEF Fits
  <2>11. Len(m.keys) >= a + b
    BY ONLY <2>9, a \in Nat, b \in Nat
  <2>12. Joined(m.children, left.children, right.children)
    BY <1>6, <2>7, <2>8
  <2>13. Len(m.keys) >= Len(left.keys) + Len(right.keys)
    BY <2>11
  <2> QED
    BY <1>7, <2>7, <2>10, <2>12, <2>13 DEF IsMerger
<1>8. CASE height # 0
  <2>1. /\ ~IsLeaf(left) /\ left.values = << >> /\ Len(left.children) = a + 1
        /\ Len(right.children) = b + 1
    BY <1>8, LeafIs DEF Fits
  <2>2. PICK lower : lower = Append(left.keys, p.keys[idx])
    OBVIOUS
  <2>3. lower \in Seq(AllKeys) /\ Len(lower) = a + 1
    BY <1>1, <1>3, <2>2, AppendProperties
  <2>4. PICK keys : keys = lower \o right.keys
    OBVIOUS
  <2>5. keys \in Seq(AllKeys) /\ Len(keys) = a + b + 1
    <3>1. keys \in Seq(AllKeys) /\ Len(keys) = Len(lower) + b
      BY <1>2, <2>3, <2>4, ConcatProperties
    <3> QED
      BY ONLY <2>3, <3>1, a \in Nat, b \in Nat
  <2>6. m = [left EXCEPT !.keys = keys, !.children = children]
    BY <1>5, <2>1, <2>2, <2>4 DEF Merged
  <2>7. m \in Nodes(ids) /\ m.keys = keys /\ m.children = children /\ m.values = << >>
    BY <1>6, <2>1, <2>5, <2>6 DEF Nodes
  <2> HIDE DEF m
  <2>8. Len(m.keys) = a + b + 1
    BY <2>5, <2>7
  <2>9. Len(m.children) = Len(m.keys) + 1
    <3>1. Len(m.children) = (a + 1) + (b + 1)
      BY <1>6, <2>1, <2>7
    <3> QED
      BY ONLY <2>8, <3>1, a \in Nat, b \in Nat
  <2>10. Len(m.keys) <= MaxKeys /\ Len(m.keys) >= a + b
    BY ONLY <1>4, <2>8, a \in Nat, b \in Nat, a + b < MaxKeys
  <2>11. Fits(m, height)
    BY <1>8, <2>7, <2>9, <2>10 DEF Fits
  <2> QED
    BY <1>6, <1>8, <2>7, <2>8, <2>10, <2>11 DEF IsMerger
<1> QED
  BY <1>7, <1>8

\* q is the inner node p without the separator at idx and the child right of it.
IsParentOfMerged(q, p, idx, height) ==
    /\ Fits(q, height)
    /\ Len(q.keys) = Len(p.keys) - 1
    /\ Removed(q.children, p.children, idx + 1)

LEMMA ParentOfMergedIs ==
    ASSUME NEW ids, NEW p \in Nodes(ids), NEW height \in Nat, height # 0, Fits(p, height),
           NEW idx \in Nat, idx >= 1, idx < Len(p.children)
    PROVE  /\ ParentOfMerged(p, idx) \in Nodes(ids)
           /\ IsParentOfMerged(ParentOfMerged(p, idx), p, idx, height)
<1> DEFINE q == ParentOfMerged(p, idx)
<1> SUFFICES q \in Nodes(ids) /\ IsParentOfMerged(q, p, idx, height)
  OBVIOUS
<1>1. /\ p.keys \in Seq(AllKeys) /\ p.children \in Seq(ids) /\ p.values \in Seq(Pointers)
      /\ Len(p.keys) \in Nat /\ Len(p.children) \in Nat
  BY NodeIs
<1>2. /\ Len(p.children) = Len(p.keys) + 1 /\ p.values = << >> /\ Len(p.keys) <= MaxKeys
      /\ MaxKeys \in Nat
  BY DegreeIs DEF Fits
<1>3. PICK keys : keys = RemoveAt(p.keys, idx)
  OBVIOUS
<1>4. PICK children : children = RemoveAt(p.children, idx + 1)
  OBVIOUS
<1>5. keys \in Seq(AllKeys) /\ Len(keys) = Len(p.keys) - 1
  <2>1. idx \in 1..Len(p.keys)
    BY <1>1, <1>2
  <2>2. keys \in Seq(AllKeys) /\ Removed(keys, p.keys, idx)
    BY <1>1, <1>3, <2>1, RemovedIs
  <2> QED
    BY <2>2 DEF Removed
<1>6. /\ children \in Seq(ids) /\ Removed(children, p.children, idx + 1)
      /\ Len(children) = Len(p.children) - 1
  <2>1. idx + 1 \in 1..Len(p.children)
    BY <1>1
  <2>2. children \in Seq(ids) /\ Removed(children, p.children, idx + 1)
    BY <1>1, <1>4, <2>1, RemovedIs
  <2> QED
    BY <2>2 DEF Removed
<1>7. q = [p EXCEPT !.keys = keys, !.children = children]
  BY <1>3, <1>4 DEF ParentOfMerged
<1>8. q \in Nodes(ids) /\ q.keys = keys /\ q.children = children /\ q.values = << >>
  BY <1>2, <1>5, <1>6, <1>7 DEF Nodes
<1> HIDE DEF q
<1>9. Fits(q, height)
  BY <1>1, <1>2, <1>5, <1>6, <1>8 DEF Fits
<1> QED
  BY <1>5, <1>6, <1>8, <1>9 DEF IsParentOfMerged

---------------------------------------------------------------------------
(* Keys of leaves, and the way down. *)

\* So many of the keys of a node at most are up to, or below, a key.
LEMMA KeysCounted ==
    ASSUME NEW ids, NEW n \in Nodes(ids), NEW key
    PROVE  KeysUpTo(n, key) \in 0..Len(n.keys) /\ KeysBelow(n, key) \in 0..Len(n.keys)
<1>1. Len(n.keys) \in Nat /\ DOMAIN n.keys = 1..Len(n.keys)
  BY NodeIs
<1>2. IsFiniteSet(1..Len(n.keys)) /\ Cardinality(1..Len(n.keys)) = Len(n.keys)
  <2>1. 1 \in Int /\ Len(n.keys) \in Int
    BY <1>1
  <2>2. Cardinality(1..Len(n.keys)) = IF 1 > Len(n.keys) THEN 0 ELSE Len(n.keys) - 1 + 1
    BY <2>1, FS_Interval
  <2> QED
    BY <1>1, <2>1, <2>2, FS_Interval
<1>3. ASSUME NEW S, S \subseteq 1..Len(n.keys) PROVE Cardinality(S) \in 0..Len(n.keys)
  <2>1. /\ IsFiniteSet(S) /\ Cardinality(S) <= Len(n.keys)
    BY <1>2, <1>3, FS_Subset
  <2>2. Cardinality(S) \in Nat
    BY <2>1, FS_CardinalityType
  <2> QED
    BY <1>1, <2>1, <2>2
<1>4. PICK S : S = {i \in DOMAIN n.keys : n.keys[i] <= key}
  OBVIOUS
<1>5. PICK T : T = {i \in DOMAIN n.keys : n.keys[i] < key}
  OBVIOUS
<1>6. S \subseteq 1..Len(n.keys) /\ T \subseteq 1..Len(n.keys)
  BY <1>1, <1>4, <1>5
<1>7. Cardinality(S) \in 0..Len(n.keys) /\ Cardinality(T) \in 0..Len(n.keys)
  BY <1>3, <1>6
<1> QED
  BY <1>4, <1>5, <1>7 DEF KeysUpTo, KeysBelow

LEMMA WithKeyIs ==
    ASSUME NEW ids, NEW n \in Nodes(ids), Fits(n, 0), ~IsFull(n),
           NEW key \in AllKeys, NEW value \in Pointers
    PROVE  /\ WithKey(n, key, value) \in Nodes(ids) /\ Fits(WithKey(n, key, value), 0)
           /\ Len(WithKey(n, key, value).keys) = Len(n.keys) + 1
<1> DEFINE w == WithKey(n, key, value)
<1> SUFFICES w \in Nodes(ids) /\ Fits(w, 0) /\ Len(w.keys) = Len(n.keys) + 1
  OBVIOUS
<1>1. /\ n.keys \in Seq(AllKeys) /\ n.values \in Seq(Pointers) /\ n.children \in Seq(ids)
      /\ Len(n.keys) \in Nat /\ Len(n.values) = Len(n.keys) /\ n.children = << >>
      /\ Len(n.keys) < MaxKeys /\ MaxKeys \in Nat
  BY NodeIs, DegreeIs DEF Fits, IsFull
<1>2. KeysBelow(n, key) \in 0..Len(n.keys)
  BY KeysCounted
<1>3. PICK at : at = KeysBelow(n, key) + 1
  OBVIOUS
<1>4. at \in 1..Len(n.keys) + 1 /\ at \in 1..Len(n.values) + 1
  BY <1>1, <1>2, <1>3
<1>5. PICK keys : keys = InsertAt(n.keys, at, key)
  OBVIOUS
<1>6. PICK values : values = InsertAt(n.values, at, value)
  OBVIOUS
<1>7. keys \in Seq(AllKeys) /\ Len(keys) = Len(n.keys) + 1
  <2>1. keys \in Seq(AllKeys) /\ Inserted(keys, n.keys, at, key)
    BY <1>1, <1>4, <1>5, InsertedIs
  <2> QED
    BY <2>1 DEF Inserted
<1>8. values \in Seq(Pointers) /\ Len(values) = Len(n.values) + 1
  <2>1. values \in Seq(Pointers) /\ Inserted(values, n.values, at, value)
    BY <1>1, <1>4, <1>6, InsertedIs
  <2> QED
    BY <2>1 DEF Inserted
<1>9. w = [n EXCEPT !.keys = keys, !.values = values]
  BY <1>3, <1>5, <1>6 DEF WithKey
<1>10. w \in Nodes(ids) /\ w.keys = keys /\ w.values = values /\ w.children = << >>
  BY <1>1, <1>7, <1>8, <1>9 DEF Nodes
<1> HIDE DEF w
<1> QED
  BY <1>1, <1>7, <1>8, <1>10 DEF Fits

LEMMA WithoutKeyIs ==
    ASSUME NEW ids, NEW n \in Nodes(ids), Fits(n, 0), NEW key, key \in KeySet(n)
    PROVE  /\ WithoutKey(n, key) \in Nodes(ids) /\ Fits(WithoutKey(n, key), 0)
           /\ Len(WithoutKey(n, key).keys) = Len(n.keys) - 1
<1> DEFINE w == WithoutKey(n, key)
<1> SUFFICES w \in Nodes(ids) /\ Fits(w, 0) /\ Len(w.keys) = Len(n.keys) - 1
  OBVIOUS
<1>1. /\ n.keys \in Seq(AllKeys) /\ n.values \in Seq(Pointers) /\ n.children \in Seq(ids)
      /\ Len(n.keys) \in Nat /\ Len(n.values) = Len(n.keys) /\ n.children = << >>
      /\ Len(n.keys) <= MaxKeys /\ MaxKeys \in Nat /\ DOMAIN n.keys = 1..Len(n.keys)
  BY NodeIs, DegreeIs DEF Fits
<1>2. \E i \in DOMAIN n.keys : n.keys[i] = key
  BY DEF KeySet, ToSet
<1>3. PICK at : at = PositionOf(n, key)
  OBVIOUS
<1>4. at \in 1..Len(n.keys) /\ at \in 1..Len(n.values)
  BY <1>1, <1>2, <1>3 DEF PositionOf
<1>5. PICK keys : keys = RemoveAt(n.keys, at)
  OBVIOUS
<1>6. PICK values : values = RemoveAt(n.values, at)
  OBVIOUS
<1>7. keys \in Seq(AllKeys) /\ Len(keys) = Len(n.keys) - 1
  <2>1. keys \in Seq(AllKeys) /\ Removed(keys, n.keys, at)
    BY <1>1, <1>4, <1>5, RemovedIs
  <2> QED
    BY <2>1 DEF Removed
<1>8. values \in Seq(Pointers) /\ Len(values) = Len(n.values) - 1
  <2>1. values \in Seq(Pointers) /\ Removed(values, n.values, at)
    BY <1>1, <1>4, <1>6, RemovedIs
  <2> QED
    BY <2>1 DEF Removed
<1>9. w = [n EXCEPT !.keys = keys, !.values = values]
  BY <1>3, <1>5, <1>6 DEF WithoutKey
<1>10. w \in Nodes(ids) /\ w.keys = keys /\ w.values = values /\ w.children = << >>
  BY <1>1, <1>7, <1>8, <1>9 DEF Nodes
<1> HIDE DEF w
<1> QED
  BY <1>1, <1>7, <1>8, <1>10 DEF Fits

\* insert and delete go to a child of the node.
LEMMA ChildIndexIs ==
    ASSUME NEW ids, NEW n \in Nodes(ids), NEW height \in Nat, height # 0, Fits(n, height),
           NEW key
    PROVE  ChildIndex(n, key) \in 1..Len(n.children)
<1>1. Len(n.keys) \in Nat /\ Len(n.children) = Len(n.keys) + 1
  BY NodeIs DEF Fits
<1>2. KeysUpTo(n, key) \in 0..Len(n.keys)
  BY KeysCounted
<1> QED
  BY <1>1, <1>2 DEF ChildIndex

LEMMA SideOfSplitIs ==
    \A p, idx, promoted, key : SideOfSplit(p, idx, promoted, key) \in {idx, idx + 1}
  BY DEF SideOfSplit

---------------------------------------------------------------------------
(* Trees. *)

\* x is the i-th child of id: a page of the tree one level below, not the root,
\* and noted as the child at that place.
Leads(x, id, i, root, tree, height, above, place) ==
    /\ x \in tree /\ x # root
    /\ height[id] = height[x] + 1
    /\ above[x] = id /\ place[x] = i

\* The pages in tree are a balanced tree below root, of the pages ids of a file: each
\* has a height, each but the root has one parent and one place among its
\* children, and is at most one key short.
IsTree(pages, ids, root, tree, height, above, place) ==
    /\ pages \in [ids -> Nodes(ids)] /\ height \in [ids -> Nat]
    /\ tree \subseteq ids /\ root \in tree
    /\ \A id \in ids : Fits(pages[id], height[id])
    /\ \A id \in tree \ {root} : Len(pages[id].keys) >= MinKeys - 1
    /\ \A id \in tree : \A i \in 1..Len(pages[id].children) :
          Leads(pages[id].children[i], id, i, root, tree, height, above, place)

LEMMA TreeNodeIs ==
    ASSUME NEW P, NEW ids, NEW root, NEW tree, NEW height, NEW above, NEW place,
           IsTree(P, ids, root, tree, height, above, place), NEW id \in ids
    PROVE  /\ P[id] \in Nodes(ids) /\ height[id] \in Nat /\ Fits(P[id], height[id])
           /\ Len(P[id].keys) \in Nat /\ Len(P[id].children) \in Nat
           /\ height[id] = 0 => Len(P[id].children) = 0
           /\ height[id] # 0 => Len(P[id].children) = Len(P[id].keys) + 1
<1>1. P[id] \in Nodes(ids) /\ height[id] \in Nat /\ Fits(P[id], height[id])
  BY DEF IsTree
<1>2. Len(P[id].keys) \in Nat /\ Len(P[id].children) \in Nat
  BY <1>1, NodeIs
<1>3. Len(<< >>) = 0
  OBVIOUS
<1> QED
  BY <1>1, <1>2, <1>3 DEF Fits

\* There is a tree of one page more, r, of height h.
IsTreeWith(Q, ids, root, tree, height, r, h) ==
    \E height2, above2, place2 :
        /\ IsTree(Q, ids \cup {r}, root, tree \cup {r}, height2, above2, place2)
        /\ height2[r] = h /\ \A x \in ids : height2[x] = height[x]

\* In Q the child c of p, at idx, is split into c and the new page r.
IsSplit(Q, P, ids, height, p, idx, c, r) ==
    /\ idx \in 1..Len(P[p].children) /\ c = P[p].children[idx] /\ IsFull(P[c]) /\ r \notin ids
    /\ Q \in [ids \cup {r} -> Nodes(ids \cup {r})]
    /\ \A x \in ids \ {p, c} : Q[x] = P[x]
    /\ IsLeftHalf(Q[c], P[c], height[c], r)
    /\ IsRightHalf(Q[r], P[c], height[c])
    /\ IsParentOfSplit(Q[p], P[p], idx, r, height[p])

LEMMA SplitKeepsTree ==
    ASSUME NEW P, NEW ids, NEW root, NEW tree, NEW height, NEW above, NEW place,
           IsTree(P, ids, root, tree, height, above, place),
           NEW p \in tree, NEW idx, NEW c, NEW r, NEW Q, IsSplit(Q, P, ids, height, p, idx, c, r)
    PROVE  IsTreeWith(Q, ids, root, tree, height, r, height[c])
<1> DEFINE ids2    == ids \cup {r}
           tree2   == tree \cup {r}
           height2 == [x \in ids2 |-> IF x = r THEN height[c] ELSE height[x]]
           above2  == [x \in ids2 |-> IF x = r THEN p
                                      ELSE IF above[x] = c /\ place[x] > MinKeys + 1 THEN r
                                      ELSE above[x]]
           place2  == [x \in ids2 |-> IF x = r THEN idx + 1
                                      ELSE IF above[x] = p /\ place[x] > idx THEN place[x] + 1
                                      ELSE IF above[x] = c /\ place[x] > MinKeys + 1
                                      THEN place[x] - (MinKeys + 1)
                                      ELSE place[x]]
<1> SUFFICES /\ IsTree(Q, ids2, root, tree2, height2, above2, place2)
             /\ height2[r] = height[c] /\ \A x \in ids : height2[x] = height[x]
  BY DEF IsTreeWith
<1>0. MinKeys \in Nat /\ MinKeys >= 1 /\ MaxKeys = 2 * MinKeys + 1
  BY DegreeIs
<1>1. /\ tree \subseteq ids /\ root \in tree /\ height \in [ids -> Nat]
      /\ \A id \in ids : Fits(P[id], height[id])
      /\ \A id \in tree \ {root} : Len(P[id].keys) >= MinKeys - 1
  BY DEF IsTree
<1>2. \A id \in tree : \A i \in 1..Len(P[id].children) :
         Leads(P[id].children[i], id, i, root, tree, height, above, place)
  BY DEF IsTree
<1>3. /\ c \in tree /\ c # root /\ height[p] = height[c] + 1 /\ above[c] = p /\ place[c] = idx
      /\ c \in ids /\ p \in ids /\ height[c] \in Nat /\ c # p /\ r # p /\ r # c /\ r # root
      /\ r \notin tree /\ r \notin ids
      /\ idx \in Nat /\ idx >= 1 /\ idx <= Len(P[p].children)
  <2>1. idx \in 1..Len(P[p].children) /\ c = P[p].children[idx] /\ r \notin ids
    BY DEF IsSplit
  <2>2. Leads(c, p, idx, root, tree, height, above, place)
    BY <1>2, <2>1
  <2>3. Len(P[p].children) \in Nat
    BY <1>1, TreeNodeIs
  <2> QED
    BY <1>1, <2>1, <2>2, <2>3 DEF Leads
<1>4. /\ Len(P[c].keys) \in Nat /\ Len(P[c].children) \in Nat
      /\ height[c] # 0 => Len(P[c].children) = 2 * MinKeys + 2
  <2>1. /\ Len(P[c].keys) \in Nat /\ Len(P[c].children) \in Nat
        /\ height[c] # 0 => Len(P[c].children) = Len(P[c].keys) + 1
    BY <1>3, TreeNodeIs
  <2>2. Len(P[c].keys) <= MaxKeys
    BY <1>1, <1>3 DEF Fits
  <2> QED
    <3>1. Len(P[c].keys) >= MaxKeys
      BY DEF IsSplit, IsFull
    <3> QED
      BY ONLY <1>0, <2>1, <2>2, <3>1
<1>5. /\ Len(P[p].keys) \in Nat /\ Len(P[p].children) \in Nat
  BY <1>3, TreeNodeIs
<1>6. /\ Q \in [ids2 -> Nodes(ids2)] /\ \A x \in ids \ {p, c} : Q[x] = P[x]
      /\ IsLeftHalf(Q[c], P[c], height[c], r)
      /\ IsRightHalf(Q[r], P[c], height[c])
      /\ IsParentOfSplit(Q[p], P[p], idx, r, height[p])
  BY DEF IsSplit
<1>7. /\ height2 \in [ids2 -> Nat] /\ height2[r] = height[c]
      /\ \A x \in ids : height2[x] = height[x]
  BY <1>1, <1>3
<1>8. ASSUME NEW x \in tree
      PROVE  /\ x \in ids /\ x # r
             /\ above2[x] = IF above[x] = c /\ place[x] > MinKeys + 1 THEN r ELSE above[x]
             /\ place2[x] = IF above[x] = p /\ place[x] > idx THEN place[x] + 1
                            ELSE IF above[x] = c /\ place[x] > MinKeys + 1
                            THEN place[x] - (MinKeys + 1)
                            ELSE place[x]
  BY <1>1, <1>3
<1>9. above2[r] = p /\ place2[r] = idx + 1
  OBVIOUS
<1> HIDE DEF height2, above2, place2
<1>10. ASSUME NEW id \in ids2 PROVE Fits(Q[id], height2[id])
  <2>1. CASE id = r
    BY <1>6, <1>7, <2>1 DEF IsRightHalf
  <2>2. CASE id = c
    BY <1>3, <1>6, <1>7, <2>2 DEF IsLeftHalf
  <2>3. CASE id = p
    BY <1>3, <1>6, <1>7, <2>3 DEF IsParentOfSplit
  <2>4. CASE id \in ids \ {p, c}
    BY <1>1, <1>6, <1>7, <2>4
  <2> QED
    BY <2>1, <2>2, <2>3, <2>4
<1>11. ASSUME NEW id \in tree2 \ {root} PROVE Len(Q[id].keys) >= MinKeys - 1
  <2>1. CASE id = r
    <3>1. Len(Q[id].keys) = MinKeys + 1 \/ Len(Q[id].keys) = MinKeys
      BY <1>6, <2>1 DEF IsRightHalf, Slice
    <3> QED
      BY <1>0, <3>1
  <2>2. CASE id = c
    <3>1. Len(Q[id].keys) = MinKeys
      BY <1>6, <2>2 DEF IsLeftHalf, Slice
    <3> QED
      BY <1>0, <3>1
  <2>3. CASE id = p
    <3>1. Len(Q[p].keys) = Len(P[p].keys) + 1 /\ Len(P[p].keys) >= MinKeys - 1
      BY <1>1, <1>6, <2>3 DEF IsParentOfSplit
    <3> QED
      BY <1>0, <1>5, <2>3, <3>1
  <2>4. CASE id \in tree \ {p, c}
    BY <1>1, <1>6, <2>4
  <2> QED
    BY <2>1, <2>2, <2>3, <2>4
<1>12. ASSUME NEW id \in tree2, NEW i \in 1..Len(Q[id].children)
       PROVE  Leads(Q[id].children[i], id, i, root, tree2, height2, above2, place2)
  <2>1. CASE id = r
    <3>1. height[c] # 0
      <4>1. Fits(Q[r], height[c]) /\ Len(<< >>) = 0
        BY <1>6 DEF IsRightHalf
      <4> QED
        BY <2>1, <4>1 DEF Fits
    <3>2. /\ Len(Q[r].children) = MinKeys + 1
          /\ Q[r].children[i] = P[c].children[MinKeys + 1 + i]
      BY <1>6, <2>1, <3>1 DEF IsRightHalf, Slice
    <3>3. /\ MinKeys + 1 + i \in 1..Len(P[c].children) /\ MinKeys + 1 + i > MinKeys + 1
          /\ (MinKeys + 1 + i) - (MinKeys + 1) = i /\ i \in Int
      <4>1. i \in 1..MinKeys + 1
        BY <2>1, <3>2
      <4>2. Len(P[c].children) = 2 * MinKeys + 2
        BY <1>4, <3>1
      <4> QED
        BY ONLY <1>0, <4>1, <4>2
    <3>4. PICK x : x = P[c].children[MinKeys + 1 + i]
      OBVIOUS
    <3>5. /\ x \in tree /\ x # root /\ height[c] = height[x] + 1
          /\ above[x] = c /\ place[x] = MinKeys + 1 + i
      BY <1>2, <1>3, <3>3, <3>4 DEF Leads
    <3>6. above2[x] = r /\ place2[x] = i
      BY <1>3, <1>8, <3>3, <3>5
    <3>7. height2[x] = height[x]
      BY <1>1, <1>7, <3>5
    <3> QED
      BY <1>7, <2>1, <3>2, <3>4, <3>5, <3>6, <3>7 DEF Leads
  <2>2. CASE id = c
    <3>1. height[c] # 0
      <4>1. Fits(Q[c], height[c]) /\ Len(<< >>) = 0
        BY <1>6 DEF IsLeftHalf
      <4> QED
        BY <2>2, <4>1 DEF Fits
    <3>2. /\ Len(Q[c].children) = MinKeys + 1
          /\ Q[c].children[i] = P[c].children[0 + i]
      BY <1>6, <2>2, <3>1 DEF IsLeftHalf, Slice
    <3>3. /\ i \in 1..Len(P[c].children) /\ ~(i > MinKeys + 1) /\ 0 + i = i
      BY <1>0, <1>4, <2>2, <3>1, <3>2
    <3>4. PICK x : x = P[c].children[i]
      OBVIOUS
    <3>5. /\ x \in tree /\ x # root /\ height[c] = height[x] + 1
          /\ above[x] = c /\ place[x] = i
      BY <1>2, <1>3, <3>3, <3>4 DEF Leads
    <3>6. above2[x] = c /\ place2[x] = i
      BY <1>3, <1>8, <3>3, <3>5
    <3>7. height2[x] = height[x] /\ height2[c] = height[c]
      BY <1>1, <1>3, <1>7, <3>5
    <3> QED
      BY <2>2, <3>2, <3>3, <3>4, <3>5, <3>6, <3>7 DEF Leads
  <2>3. CASE id = p
    <3>1. /\ Len(Q[p].children) = Len(P[p].children) + 1
          /\ Q[p].children[i] = IF i < idx + 1 THEN P[p].children[i]
                                ELSE IF i = idx + 1 THEN r ELSE P[p].children[i - 1]
      <4>1. Inserted(Q[p].children, P[p].children, idx + 1, r)
        BY <1>6 DEF IsParentOfSplit
      <4>2. Len(Q[p].children) = Len(P[p].children) + 1
        BY <4>1 DEF Inserted
      <4> QED
        BY <2>3, <4>1, <4>2 DEF Inserted
    <3>2. i \in 1..Len(P[p].children) + 1
      BY <2>3, <3>1
    <3>3. CASE i = idx + 1
      <4>1. Q[p].children[i] = r /\ height2[p] = height2[r] + 1
        BY <1>3, <1>7, <3>1, <3>3
      <4> QED
        BY <1>3, <1>9, <2>3, <3>3, <4>1 DEF Leads
    <3>4. CASE i < idx + 1
      <4>1. i \in 1..Len(P[p].children) /\ ~(i > idx)
        BY <1>3, <1>5, <3>2, <3>4
      <4>2. PICK x : x = P[p].children[i]
        OBVIOUS
      <4>3. /\ x \in tree /\ x # root /\ height[p] = height[x] + 1
            /\ above[x] = p /\ place[x] = i
        BY <1>2, <4>1, <4>2 DEF Leads
      <4>4. above2[x] = p /\ place2[x] = i
        BY <1>3, <1>8, <4>1, <4>3
      <4>5. height2[x] = height[x] /\ height2[p] = height[p]
        BY <1>1, <1>3, <1>7, <4>3
      <4> QED
        BY <2>3, <3>1, <3>4, <4>2, <4>3, <4>4, <4>5 DEF Leads
    <3>5. CASE i > idx + 1
      <4>1. i - 1 \in 1..Len(P[p].children) /\ i - 1 > idx /\ (i - 1) + 1 = i
        BY <1>3, <1>5, <3>2, <3>5
      <4>2. PICK x : x = P[p].children[i - 1]
        OBVIOUS
      <4>3. /\ x \in tree /\ x # root /\ height[p] = height[x] + 1
            /\ above[x] = p /\ place[x] = i - 1
        BY <1>2, <4>1, <4>2 DEF Leads
      <4>4. above2[x] = p /\ place2[x] = i
        BY <1>3, <1>8, <4>1, <4>3
      <4>5. height2[x] = height[x] /\ height2[p] = height[p]
        BY <1>1, <1>3, <1>7, <4>3
      <4>6. Q[p].children[i] = x
        BY <1>3, <1>5, <3>1, <3>2, <3>5, <4>2
      <4> QED
        BY <2>3, <4>3, <4>4, <4>5, <4>6 DEF Leads
    <3> QED
      BY <1>3, <1>5, <3>2, <3>3, <3>4, <3>5
  <2>4. CASE id \in tree \ {p, c}
    <3>1. id \in ids /\ Q[id] = P[id] /\ height2[id] = height[id]
      BY <1>1, <1>6, <1>7, <2>4
    <3>2. PICK x : x = P[id].children[i]
      OBVIOUS
    <3>3. /\ x \in tree /\ x # root /\ height[id] = height[x] + 1
          /\ above[x] = id /\ place[x] = i
      BY <1>2, <2>4, <3>1, <3>2 DEF Leads
    <3>4. above2[x] = id /\ place2[x] = i
      BY <1>8, <2>4, <3>3
    <3>5. height2[x] = height[x]
      BY <1>1, <1>7, <3>3
    <3> QED
      BY <2>4, <3>1, <3>2, <3>3, <3>4, <3>5 DEF Leads
  <2> QED
    BY <2>1, <2>2, <2>3, <2>4
<1>13. tree2 \subseteq ids2 /\ root \in tree2
  BY <1>1
<1> QED
  BY <1>6, <1>7, <1>10, <1>11, <1>12, <1>13 DEF IsTree

\* The pages are a tree again, its nodes with other parents and places.
IsTreeAgain(Q, ids, root, tree, height) ==
    \E above2, place2 : IsTree(Q, ids, root, tree, height, above2, place2)

\* In Q the child g of p has lent to its child t, a neighbour.
IsLend(Q, P, ids, height, p, gi, ti, g, t, from, to) ==
    /\ Q \in [ids -> Nodes(ids)]
    /\ gi \in 1..Len(P[p].children) /\ ti \in 1..Len(P[p].children) /\ gi # ti
    /\ g = P[p].children[gi] /\ t = P[p].children[ti]
    /\ \A x \in ids \ {p, g, t} : Q[x] = P[x]
    /\ IsLoan(Q[g], P[g], Q[t], P[t], Q[p], P[p], height[t], from, to)
    /\ CanLendKeys(P[g])

LEMMA LendKeepsTree ==
    ASSUME NEW P, NEW ids, NEW root, NEW tree, NEW height, NEW above, NEW place,
           IsTree(P, ids, root, tree, height, above, place),
           NEW p \in tree, NEW gi, NEW ti, NEW g, NEW t, NEW from, NEW to, NEW Q,
           IsLend(Q, P, ids, height, p, gi, ti, g, t, from, to)
    PROVE  IsTreeAgain(Q, ids, root, tree, height)
<1> DEFINE above2 == [x \in ids |-> IF above[x] = g /\ place[x] = from THEN t ELSE above[x]]
           place2 == [x \in ids |-> IF above[x] = g
                                    THEN IF place[x] = from THEN to
                                         ELSE IF place[x] > from THEN place[x] - 1 ELSE place[x]
                                    ELSE IF above[x] = t /\ place[x] >= to THEN place[x] + 1
                                    ELSE place[x]]
<1> SUFFICES IsTree(Q, ids, root, tree, height, above2, place2)
  BY DEF IsTreeAgain
<1>0. MinKeys \in Nat /\ MinKeys >= 1 /\ MaxKeys = 2 * MinKeys + 1
  BY DegreeIs
<1>1. /\ tree \subseteq ids /\ root \in tree /\ height \in [ids -> Nat]
      /\ \A id \in ids : Fits(P[id], height[id])
      /\ \A id \in tree \ {root} : Len(P[id].keys) >= MinKeys - 1
  BY DEF IsTree
<1>2. \A id \in tree : \A i \in 1..Len(P[id].children) :
         Leads(P[id].children[i], id, i, root, tree, height, above, place)
  BY DEF IsTree
<1>3. /\ g \in tree /\ g # root /\ height[p] = height[g] + 1 /\ above[g] = p /\ place[g] = gi
      /\ t \in tree /\ t # root /\ height[p] = height[t] + 1 /\ above[t] = p /\ place[t] = ti
      /\ gi # ti
  <2>1. /\ gi \in 1..Len(P[p].children) /\ ti \in 1..Len(P[p].children) /\ gi # ti
        /\ g = P[p].children[gi] /\ t = P[p].children[ti]
    BY DEF IsLend
  <2>2. /\ Leads(g, p, gi, root, tree, height, above, place)
        /\ Leads(t, p, ti, root, tree, height, above, place)
    BY <1>2, <2>1
  <2> QED
    BY <2>1, <2>2 DEF Leads
<1>4. /\ g \in ids /\ t \in ids /\ p \in ids /\ height[t] \in Nat /\ height[g] = height[t]
      /\ p # g /\ p # t /\ g # t
  BY <1>1, <1>3
<1>5. /\ Len(P[g].children) \in Nat /\ Len(P[t].children) \in Nat
      /\ Len(P[g].keys) \in Nat /\ Len(P[t].keys) \in Nat
  BY <1>4, TreeNodeIs
<1>6. /\ Q \in [ids -> Nodes(ids)] /\ \A x \in ids \ {p, g, t} : Q[x] = P[x]
      /\ IsLoan(Q[g], P[g], Q[t], P[t], Q[p], P[p], height[t], from, to)
      /\ Len(P[g].keys) > MinKeys
  BY DEF IsLend, CanLendKeys
<1>7. /\ Fits(Q[g], height[t]) /\ Len(Q[g].keys) = Len(P[g].keys) - 1
      /\ Fits(Q[t], height[t]) /\ Len(Q[t].keys) = Len(P[t].keys) + 1
      /\ Fits(Q[p], height[t] + 1) /\ Len(Q[p].keys) = Len(P[p].keys)
      /\ Q[p].children = P[p].children
  BY <1>6 DEF IsLoan
<1>8. ASSUME NEW x \in tree
      PROVE  /\ x \in ids
             /\ above2[x] = IF above[x] = g /\ place[x] = from THEN t ELSE above[x]
             /\ place2[x] = IF above[x] = g
                            THEN IF place[x] = from THEN to
                                 ELSE IF place[x] > from THEN place[x] - 1 ELSE place[x]
                            ELSE IF above[x] = t /\ place[x] >= to THEN place[x] + 1
                            ELSE place[x]
  BY <1>1
<1> HIDE DEF above2, place2
<1>9. ASSUME NEW id \in ids PROVE Fits(Q[id], height[id])
  BY <1>1, <1>3, <1>4, <1>6, <1>7
<1>10. ASSUME NEW id \in tree \ {root} PROVE Len(Q[id].keys) >= MinKeys - 1
  <2>1. CASE id = g
    BY <1>0, <1>5, <1>6, <1>7, <2>1
  <2>2. CASE id = t
    <3>1. Len(P[t].keys) >= MinKeys - 1
      BY <1>1, <2>2
    <3> QED
      BY <1>0, <1>5, <1>7, <2>2, <3>1
  <2>3. CASE id = p
    BY <1>1, <1>7, <2>3
  <2>4. CASE id \in tree \ {p, g, t}
    BY <1>1, <1>6, <2>4
  <2> QED
    BY <2>1, <2>2, <2>3, <2>4
<1>11. ASSUME NEW id \in tree, NEW i \in 1..Len(Q[id].children)
       PROVE  Leads(Q[id].children[i], id, i, root, tree, height, above2, place2)
  <2>0. ASSUME id = g \/ id = t
        PROVE  /\ height[t] # 0 /\ from \in 1..Len(P[g].children)
               /\ to \in 1..Len(P[t].children) + 1
               /\ Removed(Q[g].children, P[g].children, from)
               /\ Inserted(Q[t].children, P[t].children, to, P[g].children[from])
    <3>1. height[t] # 0
      <4>1. Len(<< >>) = 0
        OBVIOUS
      <4> QED
        BY <1>7, <2>0, <4>1 DEF Fits
    <3> QED
      BY <1>6, <3>1 DEF IsLoan
  <2>1. CASE id = g
    <3>1. Len(Q[g].children) = Len(P[g].children) - 1
      BY <2>0, <2>1 DEF Removed
    <3>2. i \in 1..Len(P[g].children) - 1
      BY <2>1, <3>1
    <3>3. Q[g].children[i] = IF i < from THEN P[g].children[i] ELSE P[g].children[i + 1]
      BY <2>0, <2>1, <3>2 DEF Removed
    <3>4. from \in 1..Len(P[g].children)
      BY <2>0, <2>1
    <3>5. CASE i < from
      <4>1. i \in 1..Len(P[g].children) /\ i # from /\ ~(i > from)
        BY <1>5, <3>2, <3>4, <3>5
      <4>2. PICK x : x = P[g].children[i]
        OBVIOUS
      <4>3. /\ x \in tree /\ x # root /\ height[g] = height[x] + 1
            /\ above[x] = g /\ place[x] = i
        BY <1>2, <1>3, <4>1, <4>2 DEF Leads
      <4>4. above2[x] = g /\ place2[x] = i
        BY <1>8, <4>1, <4>3
      <4> QED
        BY <2>1, <3>3, <3>5, <4>2, <4>3, <4>4 DEF Leads
    <3>6. CASE ~(i < from)
      <4>1. i + 1 \in 1..Len(P[g].children) /\ i + 1 # from /\ i + 1 > from /\ (i + 1) - 1 = i
        BY <1>5, <3>2, <3>4, <3>6
      <4>2. PICK x : x = P[g].children[i + 1]
        OBVIOUS
      <4>3. /\ x \in tree /\ x # root /\ height[g] = height[x] + 1
            /\ above[x] = g /\ place[x] = i + 1
        BY <1>2, <1>3, <4>1, <4>2 DEF Leads
      <4>4. above2[x] = g /\ place2[x] = i
        BY <1>8, <4>1, <4>3
      <4> QED
        BY <2>1, <3>3, <3>6, <4>2, <4>3, <4>4 DEF Leads
    <3> QED
      BY <3>5, <3>6
  <2>2. CASE id = t
    <3>1. Len(Q[t].children) = Len(P[t].children) + 1
      BY <2>0, <2>2 DEF Inserted
    <3>2. i \in 1..Len(P[t].children) + 1
      BY <2>2, <3>1
    <3>3. Q[t].children[i] = IF i < to THEN P[t].children[i]
                             ELSE IF i = to THEN P[g].children[from] ELSE P[t].children[i - 1]
      BY <2>0, <2>2, <3>2 DEF Inserted
    <3>4. to \in 1..Len(P[t].children) + 1 /\ from \in 1..Len(P[g].children)
      BY <2>0, <2>2
    <3>5. CASE i < to
      <4>1. i \in 1..Len(P[t].children) /\ ~(i >= to)
        BY <1>5, <3>2, <3>4, <3>5
      <4>2. PICK x : x = P[t].children[i]
        OBVIOUS
      <4>3. /\ x \in tree /\ x # root /\ height[t] = height[x] + 1
            /\ above[x] = t /\ place[x] = i
        BY <1>2, <1>3, <4>1, <4>2 DEF Leads
      <4>4. above2[x] = t /\ place2[x] = i
        BY <1>4, <1>8, <4>1, <4>3
      <4> QED
        BY <2>2, <3>3, <3>5, <4>2, <4>3, <4>4 DEF Leads
    <3>6. CASE i = to
      <4>2. PICK x : x = P[g].children[from]
        OBVIOUS
      <4>3. /\ x \in tree /\ x # root /\ height[g] = height[x] + 1
            /\ above[x] = g /\ place[x] = from
        BY <1>2, <1>3, <3>4, <4>2 DEF Leads
      <4>4. above2[x] = t /\ place2[x] = i
        BY <1>8, <3>6, <4>3
      <4>5. Q[t].children[i] = x /\ height[t] = height[x] + 1
        BY <1>4, <3>2, <3>3, <3>6, <4>2, <4>3
      <4> QED
        BY <2>2, <4>3, <4>4, <4>5 DEF Leads
    <3>7. CASE i > to
      <4>1. i - 1 \in 1..Len(P[t].children) /\ i - 1 >= to /\ (i - 1) + 1 = i
            /\ ~(i < to) /\ i # to
        BY <1>5, <3>2, <3>4, <3>7
      <4>2. PICK x : x = P[t].children[i - 1]
        OBVIOUS
      <4>3. /\ x \in tree /\ x # root /\ height[t] = height[x] + 1
            /\ above[x] = t /\ place[x] = i - 1
        BY <1>2, <1>3, <4>1, <4>2 DEF Leads
      <4>4. above2[x] = t /\ place2[x] = i
        BY <1>4, <1>8, <4>1, <4>3
      <4>5. Q[t].children[i] = x
        BY <3>3, <4>1, <4>2
      <4> QED
        BY <2>2, <4>3, <4>4, <4>5 DEF Leads
    <3> QED
      BY <3>2, <3>4, <3>5, <3>6, <3>7
  <2>3. CASE id \in tree \ {g, t}
    <3>1. id \in ids /\ Q[id].children = P[id].children
      BY <1>1, <1>6, <1>7, <2>3
    <3>2. PICK x : x = P[id].children[i]
      OBVIOUS
    <3>3. /\ x \in tree /\ x # root /\ height[id] = height[x] + 1
          /\ above[x] = id /\ place[x] = i
      BY <1>2, <2>3, <3>1, <3>2 DEF Leads
    <3>4. above2[x] = id /\ place2[x] = i
      BY <1>8, <2>3, <3>3
    <3> QED
      BY <2>3, <3>1, <3>2, <3>3, <3>4 DEF Leads
  <2> QED
    BY <2>1, <2>2, <2>3
<1> QED
  BY <1>1, <1>6, <1>9, <1>10, <1>11 DEF IsTree

\* In Q the child of p at idx + 1 is emptied into the one at idx.
IsMerge(Q, P, ids, height, p, idx, l, r) ==
    /\ Q \in [ids -> Nodes(ids)]
    /\ idx \in Nat /\ idx >= 1 /\ idx < Len(P[p].children)
    /\ l = P[p].children[idx] /\ r = P[p].children[idx + 1]
    /\ \A x \in ids \ {p, l} : Q[x] = P[x]
    /\ IsMerger(Q[l], P[l], P[r], height[l])
    /\ IsParentOfMerged(Q[p], P[p], idx, height[p])

\* A node that can do without a key.
CanSpare(P, root, height, id) ==
    \/ MinKeys = 1
    \/ id # root /\ Len(P[id].keys) >= MinKeys
    \/ id = root /\ (height[id] = 0 \/ Len(P[id].keys) >= 1)

LEMMA MergeKeepsTree ==
    ASSUME NEW P, NEW ids, NEW root, NEW tree, NEW height, NEW above, NEW place,
           IsTree(P, ids, root, tree, height, above, place),
           NEW p \in tree, CanSpare(P, root, height, p), NEW idx, NEW l, NEW r, NEW Q,
           IsMerge(Q, P, ids, height, p, idx, l, r)
    PROVE  IsTreeAgain(Q, ids, root, tree \ {r}, height)
<1> DEFINE above2 == [x \in ids |-> IF above[x] = r THEN l ELSE above[x]]
           place2 == [x \in ids |-> IF above[x] = r THEN place[x] + Len(P[l].children)
                                    ELSE IF above[x] = p /\ place[x] > idx + 1
                                    THEN place[x] - 1 ELSE place[x]]
<1> SUFFICES IsTree(Q, ids, root, tree \ {r}, height, above2, place2)
  BY DEF IsTreeAgain
<1>0. MinKeys \in Nat /\ MinKeys >= 1
  BY DegreeIs
<1>1. /\ tree \subseteq ids /\ root \in tree /\ height \in [ids -> Nat]
      /\ \A id \in ids : Fits(P[id], height[id])
      /\ \A id \in tree \ {root} : Len(P[id].keys) >= MinKeys - 1
  BY DEF IsTree
<1>2. \A id \in tree : \A i \in 1..Len(P[id].children) :
         Leads(P[id].children[i], id, i, root, tree, height, above, place)
  BY DEF IsTree
<1>3. /\ l \in tree /\ l # root /\ height[p] = height[l] + 1 /\ above[l] = p /\ place[l] = idx
      /\ r \in tree /\ r # root /\ height[p] = height[r] + 1 /\ above[r] = p /\ place[r] = idx + 1
      /\ idx \in Nat /\ idx >= 1 /\ idx < Len(P[p].children) /\ Len(P[p].children) \in Nat
  <2>1. /\ idx \in Nat /\ idx >= 1 /\ idx < Len(P[p].children)
        /\ l = P[p].children[idx] /\ r = P[p].children[idx + 1]
    BY DEF IsMerge
  <2>2. Len(P[p].children) \in Nat
    BY <1>1, TreeNodeIs
  <2>3. idx \in 1..Len(P[p].children) /\ idx + 1 \in 1..Len(P[p].children)
    BY <2>1, <2>2
  <2>4. /\ Leads(l, p, idx, root, tree, height, above, place)
        /\ Leads(r, p, idx + 1, root, tree, height, above, place)
    BY <1>2, <2>1, <2>3
  <2> QED
    BY <2>1, <2>2, <2>4 DEF Leads
<1>4. /\ l \in ids /\ r \in ids /\ p \in ids /\ height[l] \in Nat /\ height[r] = height[l]
      /\ p # l /\ p # r /\ l # r
  BY <1>1, <1>3
<1>5. /\ Len(P[l].children) \in Nat /\ Len(P[r].children) \in Nat
      /\ Len(P[l].keys) \in Nat /\ Len(P[r].keys) \in Nat /\ Len(P[p].keys) \in Nat
  BY <1>4, TreeNodeIs
<1>6. /\ Q \in [ids -> Nodes(ids)] /\ \A x \in ids \ {p, l} : Q[x] = P[x]
      /\ Fits(Q[l], height[l]) /\ Len(Q[l].keys) >= Len(P[l].keys) + Len(P[r].keys)
      /\ Joined(Q[l].children, P[l].children, P[r].children)
      /\ Fits(Q[p], height[p]) /\ Len(Q[p].keys) = Len(P[p].keys) - 1
      /\ Removed(Q[p].children, P[p].children, idx + 1)
  BY DEF IsMerge, IsMerger, IsParentOfMerged
<1>7. Len(Q[p].keys) \in Nat /\ Len(Q[l].keys) \in Nat
  BY <1>4, <1>6, NodeIs
<1>8. ASSUME NEW x \in tree
      PROVE  /\ x \in ids
             /\ above2[x] = IF above[x] = r THEN l ELSE above[x]
             /\ place2[x] = IF above[x] = r THEN place[x] + Len(P[l].children)
                            ELSE IF above[x] = p /\ place[x] > idx + 1
                            THEN place[x] - 1 ELSE place[x]
  BY <1>1
<1> HIDE DEF above2, place2
<1>9. ASSUME NEW id \in ids PROVE Fits(Q[id], height[id])
  BY <1>1, <1>4, <1>6
<1>10. ASSUME NEW id \in (tree \ {r}) \ {root} PROVE Len(Q[id].keys) >= MinKeys - 1
  <2>1. CASE id = l
    <3>1. Len(P[l].keys) >= MinKeys - 1
      BY <1>1, <2>1
    <3>2. PICK a : a = Len(P[l].keys)
      OBVIOUS
    <3>3. PICK b : b = Len(P[r].keys)
      OBVIOUS
    <3>4. Len(Q[l].keys) >= a + b
      BY <1>6, <3>2, <3>3
    <3>5. a \in Nat /\ b \in Nat /\ a >= MinKeys - 1 /\ Len(Q[l].keys) \in Nat
      BY <1>5, <1>7, <3>1, <3>2, <3>3
    <3> QED
      BY ONLY <1>0, <2>1, <3>4, <3>5
  <2>2. CASE id = p
    <3>1. Len(P[p].keys) >= MinKeys \/ MinKeys = 1
      BY <2>2 DEF CanSpare
    <3>2. Len(Q[p].keys) = Len(P[p].keys) - 1
      BY <1>6
    <3> QED
      BY <1>0, <1>5, <1>7, <2>2, <3>1, <3>2
  <2>3. CASE id \in tree \ {p, l}
    BY <1>1, <1>6, <2>3
  <2> QED
    BY <2>1, <2>2, <2>3
<1>11. ASSUME NEW id \in tree \ {r}, NEW i \in 1..Len(Q[id].children)
       PROVE  Leads(Q[id].children[i], id, i, root, tree \ {r}, height, above2, place2)
  <2>1. CASE id = l
    <3>0. PICK a : a = Len(P[l].children)
      OBVIOUS
    <3>a. PICK b : b = Len(P[r].children)
      OBVIOUS
    <3>1. Len(Q[l].children) = a + b
      BY <1>6, <3>0, <3>a DEF Joined
    <3>b. a \in Nat /\ b \in Nat
      BY <1>5, <3>0, <3>a
    <3>2. i \in 1..a + b
      BY <2>1, <3>1
    <3>3. Q[l].children[i] = IF i <= a THEN P[l].children[i] ELSE P[r].children[i - a]
      BY <1>6, <3>0, <3>a, <3>2 DEF Joined
    <3>4. CASE i <= a
      <4>1. i \in 1..Len(P[l].children)
        BY <3>b, <3>0, <3>2, <3>4
      <4>2. PICK x : x = P[l].children[i]
        OBVIOUS
      <4>3. /\ x \in tree /\ x # root /\ height[l] = height[x] + 1
            /\ above[x] = l /\ place[x] = i
        BY <1>2, <1>3, <4>1, <4>2 DEF Leads
      <4>4. above2[x] = l /\ place2[x] = i /\ x # r
        BY <1>3, <1>4, <1>8, <4>3
      <4> QED
        BY <2>1, <3>3, <3>4, <4>2, <4>3, <4>4 DEF Leads
    <3>5. CASE ~(i <= a)
      <4>0. PICK j : j = i - a
        OBVIOUS
      <4>1. j \in 1..b /\ j + a = i
        BY ONLY <3>b, <3>2, <3>5, <4>0
      <4>2. PICK x : x = P[r].children[j]
        OBVIOUS
      <4>3. /\ x \in tree /\ x # root /\ height[r] = height[x] + 1
            /\ above[x] = r /\ place[x] = j
        BY <1>2, <1>3, <3>a, <4>1, <4>2 DEF Leads
      <4>4. above2[x] = l /\ place2[x] = i /\ x # r
        BY <1>3, <1>4, <1>8, <3>0, <4>1, <4>3
      <4>5. Q[l].children[i] = x /\ height[l] = height[x] + 1
        BY <1>4, <3>3, <3>5, <4>0, <4>2, <4>3
      <4> QED
        BY <2>1, <4>3, <4>4, <4>5 DEF Leads
    <3> QED
      BY <3>4, <3>5
  <2>2. CASE id = p
    <3>1. Len(Q[p].children) = Len(P[p].children) - 1
      BY <1>6 DEF Removed
    <3>2. i \in 1..Len(P[p].children) - 1
      BY <2>2, <3>1
    <3>3. Q[p].children[i] = IF i < idx + 1 THEN P[p].children[i] ELSE P[p].children[i + 1]
      BY <1>6, <3>2 DEF Removed
    <3>4. CASE i < idx + 1
      <4>1. i \in 1..Len(P[p].children) /\ i # idx + 1 /\ ~(i > idx + 1)
        BY <1>3, <3>2, <3>4
      <4>2. PICK x : x = P[p].children[i]
        OBVIOUS
      <4>3. /\ x \in tree /\ x # root /\ height[p] = height[x] + 1
            /\ above[x] = p /\ place[x] = i
        BY <1>2, <4>1, <4>2 DEF Leads
      <4>4. above2[x] = p /\ place2[x] = i /\ x # r
        BY <1>3, <1>4, <1>8, <4>1, <4>3
      <4> QED
        BY <2>2, <3>3, <3>4, <4>2, <4>3, <4>4 DEF Leads
    <3>5. CASE ~(i < idx + 1)
      <4>1. /\ i + 1 \in 1..Len(P[p].children) /\ i + 1 # idx + 1 /\ i + 1 > idx + 1
            /\ (i + 1) - 1 = i
        BY <1>3, <3>2, <3>5
      <4>2. PICK x : x = P[p].children[i + 1]
        OBVIOUS
      <4>3. /\ x \in tree /\ x # root /\ height[p] = height[x] + 1
            /\ above[x] = p /\ place[x] = i + 1
        BY <1>2, <4>1, <4>2 DEF Leads
      <4>4. above2[x] = p /\ place2[x] = i /\ x # r
        BY <1>3, <1>4, <1>8, <4>1, <4>3
      <4> QED
        BY <2>2, <3>3, <3>5, <4>2, <4>3, <4>4 DEF Leads
    <3> QED
      BY <3>4, <3>5
  <2>3. CASE id \in tree \ {p, l}
    <3>1. id \in ids /\ Q[id] = P[id]
      BY <1>1, <1>6, <2>3
    <3>2. PICK x : x = P[id].children[i]
      OBVIOUS
    <3>3. /\ x \in tree /\ x # root /\ height[id] = height[x] + 1
          /\ above[x] = id /\ place[x] = i
      BY <1>2, <2>3, <3>1, <3>2 DEF Leads
    <3>4. above2[x] = id /\ place2[x] = i /\ x # r
      BY <1>3, <1>8, <2>3, <3>3
    <3> QED
      BY <2>3, <3>1, <3>2, <3>3, <3>4 DEF Leads
  <2> QED
    BY <2>1, <2>2, <2>3
<1>12. tree \ {r} \subseteq ids /\ root \in tree \ {r}
  BY <1>1, <1>3
<1> QED
  BY <1>1, <1>6, <1>9, <1>10, <1>11, <1>12 DEF IsTree

\* A tree stays one when only keys and values change, and no node becomes too
\* empty or too full.
LEMMA KeysKeepTree ==
    ASSUME NEW P, NEW ids, NEW root, NEW tree, NEW height, NEW above, NEW place,
           IsTree(P, ids, root, tree, height, above, place),
           NEW Q \in [ids -> Nodes(ids)],
           \A id \in ids : Fits(Q[id], height[id]) /\ Q[id].children = P[id].children,
           \A id \in tree \ {root} : Len(Q[id].keys) >= MinKeys - 1
    PROVE  IsTree(Q, ids, root, tree, height, above, place)
<1>1. /\ tree \subseteq ids /\ root \in tree /\ height \in [ids -> Nat]
      /\ \A id \in tree : \A i \in 1..Len(P[id].children) :
            Leads(P[id].children[i], id, i, root, tree, height, above, place)
  BY DEF IsTree
<1>2. \A id \in tree : \A i \in 1..Len(Q[id].children) :
            Leads(Q[id].children[i], id, i, root, tree, height, above, place)
  BY <1>1
<1> QED
  BY <1>1, <1>2 DEF IsTree

\* The nodes that refer to some pages refer to more.
LEMMA NodesGrow ==
    ASSUME NEW ids, NEW more, ids \subseteq more
    PROVE  Nodes(ids) \subseteq Nodes(more)
<1>1. Seq(ids) \subseteq Seq(more)
  OBVIOUS
<1> QED
  BY <1>1 DEF Nodes

\* A new root, without keys, above the old one.
LEMMA NewRootMakesTree ==
    ASSUME NEW P, NEW ids, NEW root, NEW tree, NEW height, NEW above, NEW place,
           IsTree(P, ids, root, tree, height, above, place), NEW r, r \notin ids,
           NEW Q \in [ids \cup {r} -> Nodes(ids \cup {r})],
           \A x \in ids : Q[x] = P[x],
           Fits(Q[r], height[root] + 1), Q[r].children = <<root>>,
           Len(P[root].keys) >= MinKeys - 1
    PROVE  IsTreeWith(Q, ids, r, tree, height, r, height[root] + 1)
<1> DEFINE ids2    == ids \cup {r}
           height2 == [x \in ids2 |-> IF x = r THEN height[root] + 1 ELSE height[x]]
           above2  == [x \in ids2 |-> IF x = root THEN r ELSE above[x]]
           place2  == [x \in ids2 |-> IF x = root THEN 1 ELSE place[x]]
<1> SUFFICES /\ IsTree(Q, ids2, r, tree \cup {r}, height2, above2, place2)
             /\ height2[r] = height[root] + 1 /\ \A x \in ids : height2[x] = height[x]
  BY DEF IsTreeWith
<1>1. /\ tree \subseteq ids /\ root \in tree /\ height \in [ids -> Nat]
      /\ \A id \in ids : Fits(P[id], height[id])
      /\ \A id \in tree \ {root} : Len(P[id].keys) >= MinKeys - 1
      /\ \A id \in tree : \A i \in 1..Len(P[id].children) :
            Leads(P[id].children[i], id, i, root, tree, height, above, place)
  BY DEF IsTree
<1>2. /\ height2 \in [ids2 -> Nat] /\ height2[r] = height[root] + 1
      /\ \A x \in ids : height2[x] = height[x]
  BY <1>1
<1>3. \A x \in tree : /\ x # r /\ x \in ids
                      /\ above2[x] = IF x = root THEN r ELSE above[x]
                      /\ place2[x] = IF x = root THEN 1 ELSE place[x]
  BY <1>1
<1> HIDE DEF height2, above2, place2
<1>4. \A id \in ids2 : Fits(Q[id], height2[id])
  BY <1>1, <1>2
<1>5. \A id \in (tree \cup {r}) \ {r} : Len(Q[id].keys) >= MinKeys - 1
  BY <1>1
<1>6. ASSUME NEW id \in tree \cup {r}, NEW i \in 1..Len(Q[id].children)
      PROVE  Leads(Q[id].children[i], id, i, r, tree \cup {r}, height2, above2, place2)
  <2>1. CASE id = r
    <3>1. i = 1 /\ Q[id].children[i] = root
      BY <2>1
    <3> QED
      BY <1>1, <1>2, <1>3, <2>1, <3>1 DEF Leads
  <2>2. CASE id # r
    <3>1. id \in tree /\ id \in ids /\ Q[id] = P[id]
      BY <1>1, <2>2
    <3>2. PICK x : x = P[id].children[i]
      OBVIOUS
    <3>3. /\ x \in tree /\ x # root /\ height[id] = height[x] + 1
          /\ above[x] = id /\ place[x] = i
      BY <1>1, <3>1, <3>2 DEF Leads
    <3> QED
      BY <1>2, <1>3, <3>1, <3>2, <3>3 DEF Leads
  <2> QED
    BY <2>1, <2>2
<1>7. tree \cup {r} \subseteq ids2 /\ r \in tree \cup {r}
  BY <1>1
<1> QED
  BY <1>2, <1>4, <1>5, <1>6, <1>7 DEF IsTree

\* The only child of a root without keys is the root of what is left.
\* c is all that is left of the inner node root.
IsOnlyChild(c, P, root) ==
    P[root].keys = << >> /\ ~IsLeaf(P[root]) /\ c = P[root].children[1]

\* The tree without root is a tree below c.
TakesOver(c, P, ids, root, tree, height, above, place) ==
    /\ IsTree(P, ids, c, tree \ {root}, height, above, place)
    /\ c \in tree /\ c # root /\ height[root] = height[c] + 1
    /\ Len(P[c].keys) >= MinKeys - 1

LEMMA OnlyChildIsRoot ==
    ASSUME NEW P, NEW ids, NEW root, NEW tree, NEW height, NEW above, NEW place,
           IsTree(P, ids, root, tree, height, above, place),
           NEW c, IsOnlyChild(c, P, root)
    PROVE  TakesOver(c, P, ids, root, tree, height, above, place)
<1>1. /\ P \in [ids -> Nodes(ids)] /\ height \in [ids -> Nat]
      /\ tree \subseteq ids /\ root \in tree
      /\ \A id \in ids : Fits(P[id], height[id])
      /\ \A id \in tree \ {root} : Len(P[id].keys) >= MinKeys - 1
      /\ \A id \in tree : \A i \in 1..Len(P[id].children) :
            Leads(P[id].children[i], id, i, root, tree, height, above, place)
  BY DEF IsTree
<1>2. Len(P[root].children) = 1
  <2>1. /\ P[root] \in Nodes(ids) /\ height[root] \in Nat /\ Fits(P[root], height[root])
        /\ height[root] # 0 => Len(P[root].children) = Len(P[root].keys) + 1
    <3>1. root \in ids
      BY <1>1
    <3>2. ASSUME NEW id \in ids
          PROVE  /\ P[id] \in Nodes(ids) /\ height[id] \in Nat /\ Fits(P[id], height[id])
                 /\ height[id] # 0 => Len(P[id].children) = Len(P[id].keys) + 1
      BY TreeNodeIs
    <3> QED
      BY <3>1, <3>2
  <2>2. height[root] # 0
    BY <2>1, LeafIs DEF IsOnlyChild
  <2>3. Len(P[root].keys) = 0
    BY DEF IsOnlyChild
  <2> QED
    BY <2>1, <2>2, <2>3
<1>3. c = P[root].children[1]
  BY DEF IsOnlyChild
<1>4. Leads(c, root, 1, root, tree, height, above, place)
  <2>1. 1 \in 1..Len(P[root].children)
    BY <1>2
  <2> QED
    BY <1>1, <1>3, <2>1
<1>5. c \in tree /\ c # root /\ height[root] = height[c] + 1 /\ above[c] = root
  BY <1>4 DEF Leads
<1>6. ASSUME NEW id \in tree \ {root}, NEW i \in 1..Len(P[id].children)
      PROVE  Leads(P[id].children[i], id, i, c, tree \ {root}, height, above, place)
  <2>1. PICK x : x = P[id].children[i]
    OBVIOUS
  <2>2. /\ x \in tree /\ x # root /\ height[id] = height[x] + 1
        /\ above[x] = id /\ place[x] = i
    BY <1>1, <2>1 DEF Leads
  <2>3. x # c
    BY <1>5, <2>2
  <2> QED
    BY <2>1, <2>2, <2>3 DEF Leads
<1>7. IsTree(P, ids, c, tree \ {root}, height, above, place)
  <2>1. /\ tree \ {root} \subseteq ids /\ c \in tree \ {root}
        /\ \A id \in (tree \ {root}) \ {c} : Len(P[id].keys) >= MinKeys - 1
    BY <1>1, <1>5
  <2> QED
    BY <1>1, <1>6, <2>1 DEF IsTree
<1>8. Len(P[c].keys) >= MinKeys - 1
  BY <1>1, <1>5
<1> QED
  BY <1>5, <1>7, <1>8 DEF TakesOver

---------------------------------------------------------------------------
(* Files, and the pager. *)

\* The stores of n pages.
Stores(n) ==
    [pages : [1..n -> Nodes(1..n)],
     root : (1..n) \cup {NoPage}, first_deleted_page : (1..n) \cup {NoPage}]

LEMMA PagesAreSequence ==
    ASSUME NEW n \in Nat, NEW S, NEW f \in [1..n -> S]
    PROVE  f \in Seq(S) /\ Len(f) = n
<1>1. f \in Seq(S)
  BY SeqDef
<1>2. Len(f) \in Nat /\ DOMAIN f = 1..Len(f) /\ DOMAIN f = 1..n
  BY <1>1, LenProperties
<1>3. n = Len(f)
  BY <1>2
<1> QED
  BY <1>1, <1>3

\* w is the file st, of n pages, with this node at id.
IsWrite(w, n, st, id, node) ==
    /\ n \in Nat /\ st \in Stores(n) /\ id \in 1..n /\ node \in Nodes(1..n)
    /\ w = WritePage(st, id, node)

LEMMA WritePageIs ==
    ASSUME NEW w, NEW n, NEW st, NEW id, NEW node, IsWrite(w, n, st, id, node)
    PROVE  /\ w \in Stores(n)
           /\ w.root = st.root
           /\ w.first_deleted_page = st.first_deleted_page
           /\ w.pages[id] = node
           /\ \A x \in 1..n \ {id} : w.pages[x] = st.pages[x]
<1>0. /\ n \in Nat /\ st \in Stores(n) /\ id \in 1..n /\ node \in Nodes(1..n)
      /\ w = WritePage(st, id, node)
  BY DEF IsWrite
<1>1. PICK pages : pages = [st.pages EXCEPT ![id] = node]
  OBVIOUS
<1>2. /\ pages \in [1..n -> Nodes(1..n)] /\ pages[id] = node
      /\ \A x \in 1..n \ {id} : pages[x] = st.pages[x]
  BY <1>0, <1>1 DEF Stores
<1>3. w = [st EXCEPT !.pages = pages]
  BY <1>0, <1>1 DEF WritePage
<1>4. /\ w \in Stores(n) /\ w.pages = pages /\ w.root = st.root
      /\ w.first_deleted_page = st.first_deleted_page
  BY <1>0, <1>2, <1>3 DEF Stores
<1> QED
  BY <1>2, <1>4

\* A store with as many pages and one more.
LEMMA StoresGrow ==
    ASSUME NEW n \in Nat
    PROVE  /\ 1..n \subseteq 1..n + 1 /\ n + 1 \notin 1..n
           /\ 1..n + 1 = (1..n) \cup {n + 1}
           /\ Nodes(1..n) \subseteq Nodes(1..n + 1)
<1>1. /\ 1..n \subseteq 1..n + 1 /\ n + 1 \notin 1..n
      /\ 1..n + 1 = (1..n) \cup {n + 1}
  OBVIOUS
<1> QED
  BY <1>1, NodesGrow

LEMMA AllocateNewPageIs ==
    ASSUME NEW n \in Nat, NEW st \in Stores(n), st.first_deleted_page = NoPage
    PROVE  /\ AllocateNewPage(st).store \in Stores(n + 1)
           /\ AllocateNewPage(st).store.root = st.root
           /\ AllocateNewPage(st).store.first_deleted_page = NoPage
           /\ AllocateNewPage(st).id = n + 1
           /\ AllocateNewPage(st).node = EmptyNode
           /\ AllocateNewPage(st).changed = TRUE
           /\ AllocateNewPage(st).store.pages[n + 1] = EmptyNode
           /\ \A x \in 1..n : AllocateNewPage(st).store.pages[x] = st.pages[x]
<1>1. st.pages \in [1..n -> Nodes(1..n)] /\ st.root \in (1..n) \cup {NoPage}
  BY DEF Stores
<1>2. st.pages \in Seq(Nodes(1..n)) /\ Len(st.pages) = n
  BY <1>1, PagesAreSequence
<1>3. 1..n \subseteq 1..n + 1 /\ Nodes(1..n) \subseteq Nodes(1..n + 1)
  BY StoresGrow
<1>4. PICK pages : pages = Append(st.pages, EmptyNode)
  OBVIOUS
<1>5. /\ pages \in [1..n + 1 -> Nodes(1..n + 1)] /\ pages[n + 1] = EmptyNode
      /\ \A x \in 1..n : pages[x] = st.pages[x]
  <2>1. EmptyNode \in Nodes(1..n)
    BY EmptyNodeIs
  <2>2. /\ pages \in Seq(Nodes(1..n)) /\ Len(pages) = Len(st.pages) + 1
        /\ \A i \in 1..Len(st.pages) : pages[i] = st.pages[i]
        /\ pages[Len(st.pages) + 1] = EmptyNode
    BY <1>2, <1>4, <2>1, AppendProperties
  <2>3. pages \in [1..Len(pages) -> Nodes(1..n)]
    BY <2>2, LenProperties
  <2>4. pages \in [1..n + 1 -> Nodes(1..n)]
    BY <1>2, <2>2, <2>3
  <2> QED
    BY <1>2, <1>3, <2>2, <2>4
<1>6. PICK s : s = [st EXCEPT !.pages = pages]
  OBVIOUS
<1>7. AllocateNewPage(st) = [store |-> s, id |-> n + 1, node |-> EmptyNode, changed |-> TRUE]
  BY <1>2, <1>4, <1>6 DEF AllocateNewPage
<1>8. /\ s \in Stores(n + 1) /\ s.root = st.root /\ s.first_deleted_page = NoPage
      /\ s.pages = pages
  BY <1>1, <1>3, <1>5, <1>6 DEF Stores
<1> QED
  BY <1>5, <1>7, <1>8

---------------------------------------------------------------------------
(* When a deleted page has been handed out, there is none any more. *)

IsSpent(st) ==
    \E S, R : st \in [pages : Seq(S), root : R, first_deleted_page : {NoPage}]

LEMMA SpentIs ==
    ASSUME NEW st, IsSpent(st)
    PROVE  st.first_deleted_page = NoPage /\ Len(st.pages) \in Nat
<1>1. PICK S, R : st \in [pages : Seq(S), root : R, first_deleted_page : {NoPage}]
  BY DEF IsSpent
<1>2. st.pages \in Seq(S) /\ st.first_deleted_page = NoPage
  BY <1>1
<1> QED
  BY <1>2, LenProperties

LEMMA SpentWrite ==
    ASSUME NEW S, NEW R, NEW D,
           NEW st \in [pages : Seq(S), root : R, first_deleted_page : D], NEW id, NEW node
    PROVE  WritePage(st, id, node) \in
              [pages : Seq(S \cup {node}), root : R, first_deleted_page : D]
<1>1. PICK pages : pages = [st.pages EXCEPT ![id] = node]
  OBVIOUS
<1>2. pages \in Seq(S \cup {node})
  <2>1. PICK n \in Nat : st.pages \in [1..n -> S]
    BY SeqDef
  <2>2. pages \in [1..n -> S \cup {node}]
    BY <1>1, <2>1
  <2> QED
    BY <2>2, SeqDef
<1>3. WritePage(st, id, node) = [st EXCEPT !.pages = pages]
  BY <1>1 DEF WritePage
<1> QED
  BY <1>2, <1>3

LEMMA SpentStays ==
    ASSUME NEW st, IsSpent(st)
    PROVE  /\ \A id, node : IsSpent(WritePage(st, id, node))
           /\ IsSpent(AllocateNewPage(st).store)
           /\ \A id : IsSpent(Split(st, id).store)
<1>1. ASSUME NEW s, IsSpent(s), NEW id, NEW node
      PROVE  IsSpent(WritePage(s, id, node))
  <2>1. PICK S, R : s \in [pages : Seq(S), root : R, first_deleted_page : {NoPage}]
    BY <1>1 DEF IsSpent
  <2>2. WritePage(s, id, node) \in
           [pages : Seq(S \cup {node}), root : R, first_deleted_page : {NoPage}]
    BY <2>1, SpentWrite
  <2> QED
    BY <2>2 DEF IsSpent
<1>2. IsSpent(AllocateNewPage(st).store)
  <2>1. PICK S, R : st \in [pages : Seq(S), root : R, first_deleted_page : {NoPage}]
    BY DEF IsSpent
  <2>2. st.first_deleted_page = NoPage /\ st.pages \in Seq(S)
    BY <2>1
  <2>3. PICK pages : pages = Append(st.pages, EmptyNode)
    OBVIOUS
  <2>4. pages \in Seq(S \cup {EmptyNode})
    <3>1. st.pages \in Seq(S \cup {EmptyNode})
      BY <2>2
    <3> QED
      BY <2>3, <3>1, AppendProperties
  <2>5. AllocateNewPage(st).store = [st EXCEPT !.pages = pages]
    BY <2>2, <2>3 DEF AllocateNewPage
  <2>6. AllocateNewPage(st).store \in
           [pages : Seq(S \cup {EmptyNode}), root : R, first_deleted_page : {NoPage}]
    BY <2>1, <2>4, <2>5
  <2> QED
    BY <2>6 DEF IsSpent
<1>3. ASSUME NEW id PROVE IsSpent(Split(st, id).store)
  BY <1>1, <1>2 DEF Split
<1> QED
  BY <1>1, <1>2, <1>3

\* The split of a node that takes the deleted page.
LEMMA ReuseSpends ==
    ASSUME NEW n \in Nat, NEW st \in Stores(n), st.first_deleted_page # NoPage
    PROVE  /\ IsSpent(AllocateNewPage(st).store)
           /\ \A id : IsSpent(Split(st, id).store)
<1>1. /\ st.pages \in [1..n -> Nodes(1..n)] /\ st.root \in (1..n) \cup {NoPage}
      /\ st.first_deleted_page \in 1..n
  BY DEF Stores
<1>2. PICK d \in 1..n : d = st.first_deleted_page
  BY <1>1
<1>3. st.pages[d].next_deleted_page = NoPage
  <2>1. st.pages[d] \in Nodes(1..n)
    BY <1>1
  <2> QED
    BY <2>1, NodeIs
<1>4. PICK node : node = [EmptyNode EXCEPT !.next_leaf = Page(st, d).next_leaf]
  OBVIOUS
<1>5. PICK w : w = WritePage(st, d, node)
  OBVIOUS
<1>6. st \in [pages : Seq(Nodes(1..n)), root : (1..n) \cup {NoPage},
              first_deleted_page : (1..n) \cup {NoPage}]
  <2>1. st.pages \in Seq(Nodes(1..n))
    BY <1>1, PagesAreSequence
  <2> QED
    BY <2>1 DEF Stores
<1>7. w \in [pages : Seq(Nodes(1..n) \cup {node}), root : (1..n) \cup {NoPage},
             first_deleted_page : (1..n) \cup {NoPage}]
  BY <1>5, <1>6, SpentWrite
<1>8. PICK s : s = [w EXCEPT !.first_deleted_page = NoPage]
  OBVIOUS
<1>9. AllocateNewPage(st).store = s
  BY <1>2, <1>3, <1>4, <1>5, <1>8 DEF AllocateNewPage, Page
<1>10. IsSpent(s)
  <2>1. s \in [pages : Seq(Nodes(1..n) \cup {node}), root : (1..n) \cup {NoPage},
               first_deleted_page : {NoPage}]
    BY <1>7, <1>8
  <2> QED
    BY <2>1 DEF IsSpent
<1>11. ASSUME NEW id PROVE IsSpent(Split(st, id).store)
  <2>1. \A x, nd : IsSpent(WritePage(s, x, nd))
    BY <1>10, SpentStays
  <2>2. \A x, nd, y, md : IsSpent(WritePage(WritePage(s, x, nd), y, md))
    BY <2>1, SpentStays
  <2> QED
    BY <1>9, <2>1, <2>2 DEF Split
<1> QED
  BY <1>9, <1>10, <1>11

---------------------------------------------------------------------------
(* insert. *)

\* The pages of the tree, and the page to be handed out next is none of them.
Shape(st, n, tree, height, above, place) ==
    /\ n \in Nat /\ st \in Stores(n)
    /\ IsTree(st.pages, 1..n, st.root, tree, height, above, place)
    /\ st.first_deleted_page \notin tree
    /\ height[st.root] < n

LEMMA ShapeIs ==
    ASSUME NEW st, NEW n, NEW tree, NEW height, NEW above, NEW place,
           Shape(st, n, tree, height, above, place)
    PROVE  /\ n \in Nat /\ st \in Stores(n) /\ Len(st.pages) = n
           /\ st.root \in tree /\ height[st.root] \in Nat /\ height[st.root] < n
<1>1. n \in Nat /\ st \in Stores(n) /\ height[st.root] < n
  BY DEF Shape
<1>2. height \in [1..n -> Nat] /\ st.root \in tree /\ tree \subseteq 1..n
  BY DEF Shape, IsTree
<1>3. st.pages \in [1..n -> Nodes(1..n)]
  BY <1>1 DEF Stores
<1> QED
  BY <1>1, <1>2, <1>3, PagesAreSequence

LEMMA SplitIs ==
    ASSUME NEW n \in Nat, NEW st \in Stores(n), st.first_deleted_page = NoPage,
           NEW id \in 1..n, NEW height \in Nat, Fits(st.pages[id], height),
           IsFull(st.pages[id])
    PROVE  /\ Split(st, id).store \in Stores(n + 1)
           /\ Split(st, id).store.root = st.root
           /\ Split(st, id).store.first_deleted_page = NoPage
           /\ Split(st, id).right = n + 1
           /\ Split(st, id).promoted \in AllKeys
           /\ \A x \in 1..n \ {id} : Split(st, id).store.pages[x] = st.pages[x]
           /\ IsLeftHalf(Split(st, id).store.pages[id], st.pages[id], height, n + 1)
           /\ IsRightHalf(Split(st, id).store.pages[n + 1], st.pages[id], height)
<1>1. PICK node : node = st.pages[id]
  OBVIOUS
<1>2. node \in Nodes(1..n) /\ Fits(node, height) /\ IsFull(node)
  BY <1>1 DEF Stores
<1>3. PICK a : a = AllocateNewPage(st)
  OBVIOUS
<1>4. /\ a.store \in Stores(n + 1) /\ a.store.root = st.root
      /\ a.store.first_deleted_page = NoPage
      /\ a.id = n + 1 /\ a.node = EmptyNode /\ a.changed = TRUE
      /\ \A x \in 1..n : a.store.pages[x] = st.pages[x]
  BY <1>3, AllocateNewPageIs
<1>5. PICK r : r = RightHalf(node, EmptyNode)
  OBVIOUS
<1>6. PICK l : l = LeftHalf(node, n + 1)
  OBVIOUS
<1>7. r \in Nodes(1..n) /\ IsRightHalf(r, node, height)
  BY <1>2, <1>5, RightHalfIs
<1>8. /\ n + 1 \in Nat /\ 1..n \subseteq 1..n + 1 /\ n + 1 \notin 1..n
      /\ n + 1 \in 1..n + 1 /\ Nodes(1..n) \subseteq Nodes(1..n + 1)
  BY StoresGrow
<1>9. l \in Nodes(1..n + 1) /\ IsLeftHalf(l, node, height, n + 1)
  <2>1. node \in Nodes(1..n + 1)
    BY <1>2, <1>8
  <2> QED
    BY <1>2, <1>6, <1>8, <2>1, LeftHalfIs
<1>10. PICK b : b = WritePage(a.store, n + 1, r)
  OBVIOUS
<1>11. /\ b \in Stores(n + 1) /\ b.root = st.root /\ b.first_deleted_page = NoPage
       /\ b.pages[n + 1] = r
       /\ \A x \in 1..n + 1 \ {n + 1} : b.pages[x] = a.store.pages[x]
  <2>1. r \in Nodes(1..n + 1)
    BY <1>7, <1>8
  <2>2. IsWrite(b, n + 1, a.store, n + 1, r)
    BY <1>4, <1>8, <1>10, <2>1 DEF IsWrite
  <2>3. /\ b \in Stores(n + 1) /\ b.root = a.store.root
        /\ b.first_deleted_page = a.store.first_deleted_page /\ b.pages[n + 1] = r
        /\ \A x \in 1..n + 1 \ {n + 1} : b.pages[x] = a.store.pages[x]
    BY <2>2, WritePageIs
  <2> QED
    BY <1>4, <2>3
<1>12. PICK w : w = WritePage(b, id, l)
  OBVIOUS
<1>13. /\ w \in Stores(n + 1) /\ w.root = st.root /\ w.first_deleted_page = NoPage
       /\ w.pages[id] = l
       /\ \A x \in 1..n + 1 \ {id} : w.pages[x] = b.pages[x]
  <2>1. id \in 1..n + 1
    BY <1>8
  <2> QED
    <3>1. /\ w \in Stores(n + 1) /\ w.root = b.root
          /\ w.first_deleted_page = b.first_deleted_page /\ w.pages[id] = l
          /\ \A x \in 1..n + 1 \ {id} : w.pages[x] = b.pages[x]
      <4>1. IsWrite(w, n + 1, b, id, l)
        BY <1>8, <1>9, <1>11, <1>12, <2>1 DEF IsWrite
      <4> QED
        BY <4>1, WritePageIs
    <3> QED
      BY <1>11, <3>1
<1>14. Split(st, id) = [store |-> w, right |-> n + 1, promoted |-> PromotedKey(node)]
  BY <1>1, <1>3, <1>4, <1>5, <1>6, <1>10, <1>12 DEF Split, Page
<1>15. PromotedKey(node) \in AllKeys
  <2>1. /\ node.keys \in Seq(AllKeys) /\ Len(node.keys) \in Nat
    BY <1>2, NodeIs
  <2>2. /\ MinKeys \in Nat /\ MaxKeys = 2 * MinKeys + 1 /\ Len(node.keys) >= MaxKeys
    BY <1>2, DegreeIs DEF IsFull
  <2>3. PICK k \in Nat : k = Len(node.keys)
    BY <2>1
  <2>4. k \div 2 + 1 \in 1..k
    <3>1. k >= 1
      BY <2>2, <2>3
    <3> QED
      BY ONLY <3>1, k \in Nat
  <2> QED
    BY <2>1, <2>3, <2>4, LenProperties DEF PromotedKey, Middle
<1>16. \A x \in 1..n \ {id} : w.pages[x] = st.pages[x]
  BY <1>4, <1>8, <1>11, <1>13
<1>17. w.pages[n + 1] = r
  BY <1>8, <1>11, <1>13
<1> QED
  BY <1>1, <1>7, <1>9, <1>13, <1>14, <1>15, <1>16, <1>17

\* w is the file after the child c of p, at idx, was split; s is what split returned.
SplitsChild(w, s, st, p, idx, c) ==
    /\ st.first_deleted_page = NoPage
    /\ idx \in 1..Len(st.pages[p].children) /\ c = st.pages[p].children[idx]
    /\ IsFull(st.pages[c]) /\ ~IsFull(st.pages[p])
    /\ s = Split(st, c)
    /\ w = WritePage(s.store, p, ParentOfSplit(st.pages[p], idx, s.promoted, s.right))

LEMMA SplitChildIs ==
    ASSUME NEW st, NEW n, NEW tree, NEW height, NEW above, NEW place,
           Shape(st, n, tree, height, above, place), NEW p \in tree, NEW idx, NEW c \in tree,
           height[p] = height[c] + 1, NEW s, NEW w, SplitsChild(w, s, st, p, idx, c)
    PROVE  /\ w \in Stores(n + 1) /\ w.root = st.root /\ w.first_deleted_page = NoPage
           /\ s.right = n + 1
           /\ w.pages[p] = ParentOfSplit(st.pages[p], idx, s.promoted, n + 1)
           /\ IsSplit(w.pages, st.pages, 1..n, height, p, idx, c, n + 1)
           /\ ~IsFull(w.pages[c]) /\ ~IsFull(w.pages[n + 1])
<1>1. /\ n \in Nat /\ st \in Stores(n) /\ p \in 1..n /\ c \in 1..n
      /\ height[p] \in Nat /\ height[c] \in Nat
      /\ Fits(st.pages[p], height[p]) /\ Fits(st.pages[c], height[c])
      /\ st.pages[p] \in Nodes(1..n)
  BY DEF Shape, IsTree
<1>2. /\ 1..n \subseteq 1..n + 1 /\ n + 1 \notin 1..n /\ n + 1 \in 1..n + 1
      /\ 1..n + 1 = (1..n) \cup {n + 1}
      /\ Nodes(1..n) \subseteq Nodes(1..n + 1) /\ p # n + 1 /\ n + 1 \in Nat
  <2>1. n \in Nat /\ p \in 1..n
    BY <1>1
  <2>2. /\ 1..n \subseteq 1..n + 1 /\ n + 1 \notin 1..n
        /\ 1..n + 1 = (1..n) \cup {n + 1}
        /\ Nodes(1..n) \subseteq Nodes(1..n + 1)
    BY <2>1, StoresGrow
  <2>3. n + 1 \in Nat /\ n + 1 \in 1..n + 1
    BY <2>1
  <2>4. p # n + 1
    BY <2>1, <2>2
  <2> QED
    BY <2>2, <2>3, <2>4
<1>0. /\ st.first_deleted_page = NoPage
      /\ idx \in 1..Len(st.pages[p].children) /\ c = st.pages[p].children[idx]
      /\ IsFull(st.pages[c]) /\ ~IsFull(st.pages[p])
      /\ s = Split(st, c)
      /\ w = WritePage(s.store, p, ParentOfSplit(st.pages[p], idx, s.promoted, s.right))
  BY DEF SplitsChild
<1>3. p # c
  BY <1>1
<1>4. /\ s.store \in Stores(n + 1) /\ s.store.root = st.root
      /\ s.store.first_deleted_page = NoPage
      /\ s.right = n + 1 /\ s.promoted \in AllKeys
      /\ \A x \in 1..n \ {c} : s.store.pages[x] = st.pages[x]
      /\ IsLeftHalf(s.store.pages[c], st.pages[c], height[c], n + 1)
      /\ IsRightHalf(s.store.pages[n + 1], st.pages[c], height[c])
  <2>1. st.first_deleted_page = NoPage /\ IsFull(st.pages[c]) /\ s = Split(st, c)
    BY <1>0
  <2> QED
    BY <1>1, <2>1, SplitIs
<1>5. PICK q : q = ParentOfSplit(st.pages[p], idx, s.promoted, n + 1)
  OBVIOUS
<1>6. q \in Nodes(1..n + 1) /\ IsParentOfSplit(q, st.pages[p], idx, n + 1, height[p])
  <2>1. st.pages[p] \in Nodes(1..n + 1) /\ height[p] # 0
    BY <1>1, <1>2
  <2>2. idx \in 1..Len(st.pages[p].children) /\ ~IsFull(st.pages[p])
    BY <1>0
  <2> QED
    BY <1>1, <1>2, <1>4, <1>5, <2>1, <2>2, ParentOfSplitIs
<1>7. w = WritePage(s.store, p, q)
  BY <1>0, <1>4, <1>5
<1>8. /\ w \in Stores(n + 1) /\ w.root = s.store.root
      /\ w.first_deleted_page = s.store.first_deleted_page
      /\ w.pages[p] = q
      /\ \A x \in 1..n + 1 \ {p} : w.pages[x] = s.store.pages[x]
  <2>1. p \in 1..n + 1
    BY <1>1, <1>2
  <2>2. IsWrite(w, n + 1, s.store, p, q)
    BY <1>2, <1>4, <1>6, <1>7, <2>1 DEF IsWrite
  <2> QED
    BY <2>2, WritePageIs
<1>9. /\ w.pages[c] = s.store.pages[c] /\ w.pages[n + 1] = s.store.pages[n + 1]
      /\ \A x \in 1..n \ {p, c} : w.pages[x] = st.pages[x]
  BY <1>1, <1>2, <1>3, <1>4, <1>8
<1>10. w.pages \in [(1..n) \cup {n + 1} -> Nodes((1..n) \cup {n + 1})]
  BY <1>2, <1>8 DEF Stores
<1>11. IsSplit(w.pages, st.pages, 1..n, height, p, idx, c, n + 1)
  BY <1>0, <1>2, <1>4, <1>6, <1>8, <1>9, <1>10 DEF IsSplit
<1>12. ~IsFull(w.pages[c]) /\ ~IsFull(w.pages[n + 1])
  <2>1. Len(w.pages[c].keys) = MinKeys
    BY <1>4, <1>9 DEF IsLeftHalf, Slice
  <2>2. Len(w.pages[n + 1].keys) = MinKeys + 1 \/ Len(w.pages[n + 1].keys) = MinKeys
    BY <1>4, <1>9 DEF IsRightHalf, Slice
  <2>3. MinKeys \in Nat /\ MinKeys >= 1 /\ MaxKeys = 2 * MinKeys + 1
    BY DegreeIs
  <2> QED
    BY <2>1, <2>2, <2>3 DEF IsFull
<1> QED
  BY <1>4, <1>5, <1>8, <1>11, <1>12

\* Where an insert is after k steps down a tree of height top: at a node that is not
\* full.  It has not handed out the deleted page.
Inserting(at, top, k, deleted) ==
    \E n, tree, height, above, place :
        /\ Shape(at.store, n, tree, height, above, place)
        /\ at.store.first_deleted_page = deleted
        /\ CanSpare(at.store.pages, at.store.root, height, at.store.root)
        /\ height[at.store.root] = top
        /\ at.id \in tree /\ ~IsFull(at.store.pages[at.id])
        /\ height[at.id] = IF k < top THEN top - k ELSE 0

LEMMA InsertStepIs ==
    ASSUME NEW at, NEW top \in Nat, NEW k \in Nat, NEW key, NEW deleted,
           Inserting(at, top, k, deleted)
    PROVE  \/ deleted # NoPage /\ IsSpent(InsertStep(at, key).store)
           \/ Inserting(InsertStep(at, key), top, k + 1, deleted)
<1>1. PICK n, tree, height, above, place :
        /\ Shape(at.store, n, tree, height, above, place)
        /\ at.store.first_deleted_page = deleted
        /\ CanSpare(at.store.pages, at.store.root, height, at.store.root)
        /\ height[at.store.root] = top
        /\ at.id \in tree /\ ~IsFull(at.store.pages[at.id])
        /\ height[at.id] = IF k < top THEN top - k ELSE 0
  BY DEF Inserting
<1>2. PICK st : st = at.store
  OBVIOUS
<1>3. PICK p : p = at.id
  OBVIOUS
<1>4. /\ Shape(st, n, tree, height, above, place) /\ st.first_deleted_page = deleted
      /\ CanSpare(st.pages, st.root, height, st.root) /\ height[st.root] = top
      /\ p \in tree /\ ~IsFull(st.pages[p])
      /\ height[p] = IF k < top THEN top - k ELSE 0
  BY <1>1, <1>2, <1>3
<1>5. /\ n \in Nat /\ st \in Stores(n) /\ top < n
      /\ IsTree(st.pages, 1..n, st.root, tree, height, above, place)
      /\ deleted \notin tree
  BY <1>4 DEF Shape
<1>6. /\ tree \subseteq 1..n /\ st.root \in tree /\ height \in [1..n -> Nat]
      /\ \A i \in 1..Len(st.pages[p].children) :
            Leads(st.pages[p].children[i], p, i, st.root, tree, height, above, place)
      /\ p \in 1..n
  BY <1>4, <1>5 DEF IsTree
<1>7. /\ st.pages[p] \in Nodes(1..n) /\ height[p] \in Nat /\ Fits(st.pages[p], height[p])
  BY <1>5, <1>6, TreeNodeIs
<1>8. PICK next : next = InsertStep(at, key)
  OBVIOUS
<1>9. SUFFICES \/ deleted # NoPage /\ IsSpent(next.store)
               \/ Inserting(next, top, k + 1, deleted)
  BY <1>8
<1>10. CASE height[p] = 0
  <2>1. IsLeaf(st.pages[p])
    BY <1>7, <1>10, LeafIs
  <2>2. next = at
    BY <1>2, <1>3, <1>8, <2>1 DEF InsertStep, Page
  <2>3. height[p] = IF k + 1 < top THEN top - (k + 1) ELSE 0
    BY <1>4, <1>10
  <2> QED
    BY <1>2, <1>3, <1>4, <2>2, <2>3 DEF Inserting
<1>11. CASE height[p] # 0
  <2>1. ~IsLeaf(st.pages[p])
    BY <1>7, <1>11, LeafIs
  <2>2. PICK idx : idx = ChildIndex(st.pages[p], key)
    OBVIOUS
  <2>3. idx \in 1..Len(st.pages[p].children)
    BY <1>7, <1>11, <2>2, ChildIndexIs
  <2>4. PICK c : c = st.pages[p].children[idx]
    OBVIOUS
  <2>5. c \in tree /\ c # st.root /\ height[p] = height[c] + 1 /\ c \in 1..n
    BY <1>6, <2>3, <2>4 DEF Leads
  <2>6. height[c] = IF k + 1 < top THEN top - (k + 1) ELSE 0
    <3>1. height[c] \in Nat
      BY <1>6, <2>5
    <3>2. height[p] = IF k < top THEN top - k ELSE 0
      BY <1>4
    <3> QED
      BY <1>11, <2>5, <3>1, <3>2
  <2>7. CASE ~IsFull(st.pages[c])
    <3>1. next = [store |-> st, id |-> c]
      BY <1>2, <1>3, <1>8, <2>1, <2>2, <2>4, <2>7 DEF InsertStep, Page
    <3>2. next.store = st /\ next.id = c
      BY <3>1
    <3> QED
      BY <1>4, <2>5, <2>6, <2>7, <3>2 DEF Inserting
  <2>8. CASE IsFull(st.pages[c])
    <3>1. PICK s : s = Split(st, c)
      OBVIOUS
    <3>2. PICK q : q = ParentOfSplit(st.pages[p], idx, s.promoted, s.right)
      OBVIOUS
    <3>3. PICK w : w = WritePage(s.store, p, q)
      OBVIOUS
    <3>4. PICK side : side = SideOfSplit(st.pages[p], idx, s.promoted, key)
      OBVIOUS
    <3>5. next = [store |-> w, id |-> q.children[side]]
      BY <1>2, <1>3, <1>8, <2>1, <2>2, <2>4, <2>8, <3>1, <3>2, <3>3, <3>4 DEF InsertStep, Page
    <3>6. CASE deleted # NoPage
      <4>1. IsSpent(s.store)
        BY <1>4, <1>5, <3>1, <3>6, ReuseSpends
      <4>2. IsSpent(w)
        BY <3>3, <4>1, SpentStays
      <4> QED
        BY <3>5, <3>6, <4>2
    <3>7. CASE deleted = NoPage
      <4>1. /\ w \in Stores(n + 1) /\ w.root = st.root /\ w.first_deleted_page = NoPage
            /\ s.right = n + 1
            /\ w.pages[p] = ParentOfSplit(st.pages[p], idx, s.promoted, n + 1)
            /\ IsSplit(w.pages, st.pages, 1..n, height, p, idx, c, n + 1)
            /\ ~IsFull(w.pages[c]) /\ ~IsFull(w.pages[n + 1])
        <5>1. SplitsChild(w, s, st, p, idx, c)
          BY <1>4, <2>3, <2>4, <2>8, <3>1, <3>2, <3>3, <3>7 DEF SplitsChild
        <5> QED
          BY <1>4, <2>5, <5>1, SplitChildIs
      <4>2. PICK height2, above2, place2 :
               /\ IsTree(w.pages, (1..n) \cup {n + 1}, st.root, tree \cup {n + 1},
                         height2, above2, place2)
               /\ height2[n + 1] = height[c] /\ \A x \in 1..n : height2[x] = height[x]
        <5>1. PICK ids : ids = 1..n
          OBVIOUS
        <5>2. PICK r : r = n + 1
          OBVIOUS
        <5>3. /\ IsTree(st.pages, ids, st.root, tree, height, above, place) /\ p \in tree
              /\ IsSplit(w.pages, st.pages, ids, height, p, idx, c, r)
          BY <1>4, <1>5, <4>1, <5>1, <5>2
        <5>4. IsTreeWith(w.pages, ids, st.root, tree, height, r, height[c])
          BY <5>3, SplitKeepsTree
        <5> QED
          BY <5>1, <5>2, <5>4 DEF IsTreeWith
      <4>3. Shape(w, n + 1, tree \cup {n + 1}, height2, above2, place2)
        <5>1. n + 1 \in Nat /\ 1..n + 1 = (1..n) \cup {n + 1}
          BY <1>5, StoresGrow
        <5>2. NoPage \notin tree \cup {n + 1}
          <6>1. NoPage \notin tree
            BY <1>5, <3>7
          <6>2. NoPage # n + 1
            BY <5>1, NoPageAssumption
          <6> QED
            BY <6>1, <6>2
        <5>3. height2[w.root] < n + 1
          <6>1. height2[w.root] = top
            <7>1. w.root = st.root /\ st.root \in 1..n
              BY <1>6, <4>1
            <7>2. height2[st.root] = height[st.root]
              BY <4>2, <7>1
            <7> QED
              BY <1>4, <7>1, <7>2
          <6>2. n \in Nat /\ top < n
            BY <1>5
          <6> QED
            BY <6>1, <6>2
        <5> QED
          BY <4>1, <4>2, <5>1, <5>2, <5>3 DEF Shape
      <4>4. /\ w.pages[p] = q
            /\ Len(q.keys) = Len(st.pages[p].keys) + 1
            /\ Inserted(q.children, st.pages[p].children, idx + 1, n + 1)
            /\ \A x \in (1..n) \ {p, c} : w.pages[x] = st.pages[x]
        <5>1. /\ IsParentOfSplit(w.pages[p], st.pages[p], idx, n + 1, height[p])
              /\ \A x \in (1..n) \ {p, c} : w.pages[x] = st.pages[x]
          BY <4>1 DEF IsSplit
        <5>2. w.pages[p] = q
          BY <3>2, <4>1
        <5> QED
          BY <5>1, <5>2 DEF IsParentOfSplit
      <4>5. q.children[side] \in {c, n + 1}
        <5>1. side = idx \/ side = idx + 1
          BY <3>4, SideOfSplitIs
        <5>2. Len(st.pages[p].children) \in Nat
          BY <1>7, NodeIs
        <5>3. idx \in 1..Len(st.pages[p].children) + 1 /\ idx + 1 \in 1..Len(st.pages[p].children) + 1
              /\ idx < idx + 1
          BY <2>3, <5>2
        <5>4. q.children[idx] = c /\ q.children[idx + 1] = n + 1
          BY <2>4, <4>4, <5>3 DEF Inserted
        <5> QED
          BY <5>1, <5>4
      <4>6. PICK id : id = q.children[side]
        OBVIOUS
      <4>7. /\ id \in tree \cup {n + 1} /\ ~IsFull(w.pages[id])
            /\ height2[id] = IF k + 1 < top THEN top - (k + 1) ELSE 0
        BY <2>5, <2>6, <4>1, <4>2, <4>5, <4>6
      <4>8. CanSpare(w.pages, w.root, height2, w.root)
        <5>1. height2[st.root] = height[st.root]
          BY <1>6, <4>2
        <5>2. CASE p = st.root
          <6>1. Len(st.pages[p].keys) \in Nat
            BY <1>7, NodeIs
          <6>2. Len(w.pages[st.root].keys) >= 1
            BY <4>4, <5>2, <6>1
          <6> QED
            BY <4>1, <6>2 DEF CanSpare
        <5>3. CASE p # st.root
          <6>1. w.pages[st.root] = st.pages[st.root]
            BY <1>6, <2>5, <4>4, <5>3
          <6> QED
            BY <1>4, <4>1, <5>1, <6>1 DEF CanSpare
        <5> QED
          BY <5>2, <5>3
      <4>9. height2[w.root] = top
        <5>1. w.root = st.root /\ st.root \in 1..n
          BY <1>6, <4>1
        <5>2. height2[st.root] = height[st.root]
          BY <4>2, <5>1
        <5> QED
          BY <1>4, <5>1, <5>2
      <4>10. next.store = w /\ next.id = id
        BY <3>5, <4>6
      <4> QED
        BY <3>7, <4>1, <4>3, <4>7, <4>8, <4>9, <4>10 DEF Inserting
    <3> QED
      BY <3>6, <3>7
  <2> QED
    BY <2>7, <2>8
<1> QED
  BY <1>10, <1>11

LEMMA SpentStepIs ==
    ASSUME NEW at, NEW key, IsSpent(at.store)
    PROVE  IsSpent(InsertStep(at, key).store)
<1> DEFINE node  == Page(at.store, at.id)
           idx   == ChildIndex(node, key)
           child == node.children[idx]
           split == Split(at.store, child)
           grown == ParentOfSplit(node, idx, split.promoted, split.right)
           side  == SideOfSplit(node, idx, split.promoted, key)
<1>1. IsSpent(split.store)
  BY SpentStays
<1>2. IsSpent(WritePage(split.store, at.id, grown))
  BY <1>1, SpentStays
<1>3. \/ InsertStep(at, key) = at
      \/ InsertStep(at, key) = [store |-> WritePage(split.store, at.id, grown),
                                id |-> grown.children[side]]
      \/ InsertStep(at, key) = [store |-> at.store, id |-> child]
  BY DEF InsertStep
<1> HIDE DEF node, idx, child, split, grown, side
<1>4. CASE InsertStep(at, key) = at
  BY <1>4
<1>5. CASE InsertStep(at, key) = [store |-> WritePage(split.store, at.id, grown),
                                  id |-> grown.children[side]]
  BY <1>2, <1>5
<1>6. CASE InsertStep(at, key) = [store |-> at.store, id |-> child]
  BY <1>6
<1> QED
  BY <1>3, <1>4, <1>5, <1>6

\* An insert goes down one level with each step.
LEMMA InsertPathIs ==
    ASSUME NEW st, NEW key, Len(st.pages) \in Nat
    PROVE  \E at : /\ InsertPath(st, key) = at
                   /\ at[0] = [store |-> st, id |-> st.root]
                   /\ \A n \in 1..Len(st.pages) : at[n] = InsertStep(at[n - 1], key)
<1> DEFINE N          == Len(st.pages)
           Body(f, m) == [n \in 0..m |->
                            IF n = 0 THEN [store |-> st, id |-> st.root]
                            ELSE InsertStep(f[n - 1], key)]
           T          == {m \in Nat : \E f : f = Body(f, m)}
           at         == CHOOSE f : f = Body(f, N)
<1>1. 0 \in T
  <2>1. PICK f : f = [n \in 0..0 |-> [store |-> st, id |-> st.root]]
    OBVIOUS
  <2>2. f = Body(f, 0)
    BY <2>1
  <2> QED
    BY <2>2
<1>2. ASSUME NEW m \in Nat, m \in T PROVE m + 1 \in T
  <2>1. PICK f : f = Body(f, m)
    BY <1>2
  <2>2. PICK g : g = Body(f, m + 1)
    OBVIOUS
  <2>3. \A n \in 0..m : g[n] = f[n]
    BY <2>1, <2>2
  <2>4. \A n \in 0..m + 1 : n # 0 => n - 1 \in 0..m
    OBVIOUS
  <2>5. g = Body(g, m + 1)
    BY <2>2, <2>3, <2>4
  <2> QED
    BY <2>5
<1>3. \E f : f = Body(f, N)
  <2>1. Nat \subseteq T
    <3> HIDE DEF T
    <3> QED
      BY <1>1, <1>2, SetInduction
  <2> QED
    BY <2>1
<1>4. at = Body(at, N)
  BY <1>3
<1>5. InsertPath(st, key) = at
  BY DEF InsertPath
<1> HIDE DEF at
<1>6. at[0] = [store |-> st, id |-> st.root]
  BY <1>4
<1>7. \A n \in 1..N : at[n] = InsertStep(at[n - 1], key)
  BY <1>4
<1> QED
  BY <1>5, <1>6, <1>7


\* The same, or the deleted page was handed out on the way.
InsertingOrSpent(at, top, k, deleted) ==
    (deleted # NoPage /\ IsSpent(at.store)) \/ Inserting(at, top, k, deleted)

LEMMA InsertPathEnds ==
    ASSUME NEW st, NEW key, NEW top \in Nat, NEW deleted, Len(st.pages) \in Nat, NEW at,
           InsertPath(st, key) = at,
           Inserting([store |-> st, id |-> st.root], top, 0, deleted)
    PROVE  InsertingOrSpent(at[Len(st.pages)], top, Len(st.pages), deleted)
<1> DEFINE T == {k \in Nat : k <= Len(st.pages) => InsertingOrSpent(at[k], top, k, deleted)}
<1>1. /\ at[0] = [store |-> st, id |-> st.root]
      /\ \A n \in 1..Len(st.pages) : at[n] = InsertStep(at[n - 1], key)
  BY InsertPathIs
<1>2. 0 \in T
  BY <1>1 DEF InsertingOrSpent
<1>3. ASSUME NEW k \in Nat, k \in T PROVE k + 1 \in T
  <2>1. SUFFICES ASSUME k + 1 <= Len(st.pages)
                 PROVE  InsertingOrSpent(at[k + 1], top, k + 1, deleted)
    OBVIOUS
  <2>2. k <= Len(st.pages) /\ k + 1 \in 1..Len(st.pages) /\ (k + 1) - 1 = k
    BY <2>1
  <2>3. InsertingOrSpent(at[k], top, k, deleted)
    BY <1>3, <2>2
  <2>4. at[k + 1] = InsertStep(at[k], key)
    BY <1>1, <2>2
  <2>5. CASE deleted # NoPage /\ IsSpent(at[k].store)
    BY <2>4, <2>5, SpentStepIs DEF InsertingOrSpent
  <2>6. CASE Inserting(at[k], top, k, deleted)
    BY <2>4, <2>6, InsertStepIs DEF InsertingOrSpent
  <2> QED
    BY <2>3, <2>5, <2>6 DEF InsertingOrSpent
<1>4. Nat \subseteq T
  <2> HIDE DEF T
  <2> QED
    BY <1>2, <1>3, SetInduction
<1> QED
  BY <1>4


\* The stores a call leaves when no deleted page was handed out.
IsTreeStore(st) ==
    \E n, tree, height, above, place :
        /\ Shape(st, n, tree, height, above, place)
        /\ CanSpare(st.pages, st.root, height, st.root)

LEMMA InsertAtLeafIs ==
    ASSUME NEW at, NEW top \in Nat, NEW k \in Nat, k >= top, NEW key \in AllKeys, NEW deleted,
           Inserting(at, top, k, deleted)
    PROVE  /\ IsTreeStore(InsertAtLeaf(at, key).store)
           /\ InsertAtLeaf(at, key).store.first_deleted_page = deleted
<1>1. PICK n, tree, height, above, place :
        /\ Shape(at.store, n, tree, height, above, place)
        /\ at.store.first_deleted_page = deleted
        /\ CanSpare(at.store.pages, at.store.root, height, at.store.root)
        /\ height[at.store.root] = top
        /\ at.id \in tree /\ ~IsFull(at.store.pages[at.id])
        /\ height[at.id] = IF k < top THEN top - k ELSE 0
  BY DEF Inserting
<1>2. PICK st : st = at.store
  OBVIOUS
<1>3. PICK p : p = at.id
  OBVIOUS
<1>4. /\ Shape(st, n, tree, height, above, place) /\ st.first_deleted_page = deleted
      /\ CanSpare(st.pages, st.root, height, st.root)
      /\ p \in tree /\ ~IsFull(st.pages[p]) /\ height[p] = 0
  BY <1>1, <1>2, <1>3
<1>5. /\ n \in Nat /\ st \in Stores(n) /\ height[st.root] < n
      /\ IsTree(st.pages, 1..n, st.root, tree, height, above, place)
      /\ st.first_deleted_page \notin tree
  BY <1>4 DEF Shape
<1>6. /\ tree \subseteq 1..n /\ st.root \in tree /\ height \in [1..n -> Nat]
      /\ p \in 1..n /\ \A id \in tree \ {st.root} : Len(st.pages[id].keys) >= MinKeys - 1
      /\ \A id \in 1..n : Fits(st.pages[id], height[id])
  BY <1>4, <1>5 DEF IsTree
<1>7. /\ st.pages[p] \in Nodes(1..n) /\ Fits(st.pages[p], 0) /\ Len(st.pages[p].keys) \in Nat
  BY <1>4, <1>5, <1>6, TreeNodeIs
<1>8. PICK leaf : leaf = WithKey(st.pages[p], key, PointerOf[key])
  OBVIOUS
<1>9. /\ leaf \in Nodes(1..n) /\ Fits(leaf, 0)
      /\ Len(leaf.keys) = Len(st.pages[p].keys) + 1
  <2>1. PointerOf[key] \in Pointers
    BY DEF Pointers
  <2> QED
    BY <1>4, <1>7, <1>8, <2>1, WithKeyIs
<1>10. PICK w : w = WritePage(st, p, leaf)
  OBVIOUS
<1>11. InsertAtLeaf(at, key).store = st \/ InsertAtLeaf(at, key).store = w
  BY <1>2, <1>3, <1>8, <1>10 DEF InsertAtLeaf, Page
<1>12. /\ w \in Stores(n) /\ w.root = st.root
       /\ w.first_deleted_page = st.first_deleted_page
       /\ w.pages[p] = leaf
       /\ \A x \in 1..n \ {p} : w.pages[x] = st.pages[x]
  <2>1. IsWrite(w, n, st, p, leaf)
    BY <1>5, <1>6, <1>9, <1>10 DEF IsWrite
  <2> QED
    BY <2>1, WritePageIs
<1>13. leaf.children = st.pages[p].children
  BY <1>8 DEF WithKey
<1>14. IsTree(w.pages, 1..n, st.root, tree, height, above, place)
  <2>1. PICK ids : ids = 1..n
    OBVIOUS
  <2>2. w.pages \in [ids -> Nodes(ids)]
    BY <1>12, <2>1 DEF Stores
  <2>3. \A id \in ids : Fits(w.pages[id], height[id]) /\ w.pages[id].children = st.pages[id].children
    BY <1>4, <1>6, <1>9, <1>12, <1>13, <2>1
  <2>4. \A id \in tree \ {st.root} : Len(w.pages[id].keys) >= MinKeys - 1
    <3>1. MinKeys \in Nat
      BY DegreeIs
    <3>2. p # st.root => Len(w.pages[p].keys) >= MinKeys - 1
      <4>1. p # st.root => Len(st.pages[p].keys) >= MinKeys - 1
        BY <1>4, <1>6
      <4> QED
        BY <1>7, <1>9, <1>12, <3>1, <4>1
    <3>3. \A id \in tree \ {st.root} : id # p => w.pages[id] = st.pages[id]
      BY <1>6, <1>12
    <3> QED
      BY <1>6, <3>2, <3>3
  <2> QED
    BY <1>5, <2>1, <2>2, <2>3, <2>4, KeysKeepTree
<1>15. Shape(w, n, tree, height, above, place)
  BY <1>5, <1>12, <1>14 DEF Shape
<1>16. CanSpare(w.pages, w.root, height, w.root)
  <2>1. CASE p = st.root
    BY <1>4, <1>12, <2>1 DEF CanSpare
  <2>2. CASE p # st.root
    BY <1>4, <1>6, <1>12, <2>2 DEF CanSpare
  <2> QED
    BY <2>1, <2>2
<1> QED
  BY <1>4, <1>11, <1>12, <1>15, <1>16 DEF IsTreeStore

LEMMA SpentAtLeaf ==
    ASSUME NEW at, NEW key, IsSpent(at.store)
    PROVE  IsSpent(InsertAtLeaf(at, key).store)
<1>1. \A node : IsSpent(WritePage(at.store, at.id, node))
  BY SpentStays
<1> QED
  BY <1>1 DEF InsertAtLeaf

\* An insert can go down from the root.
HasRoom(st) ==
    \E n, tree, height, above, place :
        /\ Shape(st, n, tree, height, above, place)
        /\ CanSpare(st.pages, st.root, height, st.root)
        /\ ~IsFull(st.pages[st.root])

\* What an insert may leave of a store in which this page was the deleted one.
InsertDone(st, deleted) ==
    \/ deleted # NoPage /\ IsSpent(st)
    \/ IsTreeStore(st) /\ st.first_deleted_page = deleted

LEMMA InsertAtRootIs ==
    ASSUME NEW st, HasRoom(st), NEW key \in AllKeys
    PROVE  InsertDone(InsertAtRoot(st, key).store, st.first_deleted_page)
<1>1. PICK n, tree, height, above, place :
        /\ Shape(st, n, tree, height, above, place)
        /\ CanSpare(st.pages, st.root, height, st.root)
        /\ ~IsFull(st.pages[st.root])
  BY DEF HasRoom
<1>2. PICK top : top = height[st.root]
  OBVIOUS
<1>3. PICK deleted : deleted = st.first_deleted_page
  OBVIOUS
<1>4. /\ n \in Nat /\ st \in Stores(n) /\ top \in Nat /\ top < n /\ st.root \in tree
      /\ Len(st.pages) = n
  BY <1>1, <1>2, ShapeIs
<1>5. PICK start : start = [store |-> st, id |-> st.root]
  OBVIOUS
<1>6. Inserting(start, top, 0, deleted)
  <2>1. start.store = st /\ start.id = st.root
    BY <1>5
  <2>2. height[st.root] = IF 0 < top THEN top - 0 ELSE 0
    BY <1>2, <1>4
  <2> QED
    BY <1>1, <1>2, <1>3, <1>4, <2>1, <2>2 DEF Inserting
<1>7. PICK at : at = InsertPath(st, key)
  OBVIOUS
<1>8. InsertingOrSpent(at[n], top, n, deleted)
  <2>1. Len(st.pages) \in Nat
    BY <1>4
  <2>2. InsertingOrSpent(at[Len(st.pages)], top, Len(st.pages), deleted)
    BY <1>4, <1>5, <1>6, <1>7, <2>1, InsertPathEnds
  <2> QED
    BY <1>4, <2>2
<1>9. InsertAtRoot(st, key) = InsertAtLeaf(at[n], key)
  BY <1>4, <1>7 DEF InsertAtRoot
<1>10. CASE deleted # NoPage /\ IsSpent(at[n].store)
  BY <1>3, <1>9, <1>10, SpentAtLeaf DEF InsertDone
<1>11. CASE Inserting(at[n], top, n, deleted)
  <2>1. n >= top
    BY <1>4
  <2> QED
    BY <1>3, <1>4, <1>9, <1>11, <2>1, InsertAtLeafIs DEF InsertDone
<1> QED
  BY <1>8, <1>10, <1>11 DEF InsertingOrSpent

LEMMA SpentAtRoot ==
    ASSUME NEW st, NEW key, IsSpent(st)
    PROVE  IsSpent(InsertAtRoot(st, key).store)
<1> DEFINE N == Len(st.pages)
<1>1. N \in Nat
  BY SpentIs
<1>2. PICK at : /\ InsertPath(st, key) = at
                /\ at[0] = [store |-> st, id |-> st.root]
                /\ \A n \in 1..N : at[n] = InsertStep(at[n - 1], key)
  BY <1>1, InsertPathIs
<1> DEFINE T == {k \in Nat : k <= N => IsSpent(at[k].store)}
<1>3. 0 \in T
  BY <1>2
<1>4. ASSUME NEW k \in Nat, k \in T PROVE k + 1 \in T
  <2>1. SUFFICES ASSUME k + 1 <= N PROVE IsSpent(at[k + 1].store)
    OBVIOUS
  <2>2. k <= N /\ k + 1 \in 1..N /\ (k + 1) - 1 = k
    BY <1>1, <2>1
  <2>3. IsSpent(at[k].store) /\ at[k + 1] = InsertStep(at[k], key)
    BY <1>2, <1>4, <2>2
  <2> QED
    BY <2>3, SpentStepIs
<1>5. Nat \subseteq T
  <2> HIDE DEF T
  <2> QED
    BY <1>3, <1>4, SetInduction
<1>6. IsSpent(at[N].store)
  BY <1>1, <1>5
<1> QED
  BY <1>2, <1>6, SpentAtLeaf DEF InsertAtRoot

\* z is the file st, of n pages, after its root of this height was split: n + 1 is the
\* right half, n + 2 the new root.
RootIsSplit(z, st, n, height) ==
    /\ z \in Stores(n + 2) /\ z.root = n + 2 /\ z.first_deleted_page = NoPage
    /\ PromotedKey(st.pages[st.root]) \in AllKeys
    /\ z.pages[n + 2] = [EmptyNode EXCEPT !.keys     = <<PromotedKey(st.pages[st.root])>>,
                                          !.children = <<st.root, n + 1>>]
    /\ \A x \in 1..n \ {st.root} : z.pages[x] = st.pages[x]
    /\ IsLeftHalf(z.pages[st.root], st.pages[st.root], height, n + 1)
    /\ IsRightHalf(z.pages[n + 1], st.pages[st.root], height)

LEMMA SplitRootPages ==
    ASSUME NEW n \in Nat, NEW st \in Stores(n), st.root \in 1..n,
           NEW height \in Nat, Fits(st.pages[st.root], height),
           st.first_deleted_page = NoPage, IsFull(st.pages[st.root])
    PROVE  RootIsSplit(SplitRoot(st), st, n, height)
<1>2. PICK root : root = st.root
  OBVIOUS
<1>3. PICK ids : ids = 1..n
  OBVIOUS
<1>4. PICK r : r = n + 1
  OBVIOUS
<1>5. PICK top : top = n + 2
  OBVIOUS
<1>6. /\ r \in Nat /\ top \in Nat /\ r # top /\ r \notin ids /\ top \notin ids
      /\ 1..r = ids \cup {r} /\ 1..top = ids \cup {r, top} /\ top = r + 1
      /\ top = n + 2
  BY <1>3, <1>4, <1>5
<1>7. st.pages[root] \in Nodes(ids) /\ Fits(st.pages[root], height)
  BY <1>2, <1>3 DEF Stores
<1>8. root \in ids /\ IsFull(st.pages[root])
  BY <1>2, <1>3
<1>9. PICK s : s = Split(st, root)
  OBVIOUS
<1>10. /\ s.store \in Stores(r) /\ s.store.root = root
       /\ s.store.first_deleted_page = NoPage
       /\ s.right = r /\ s.promoted \in AllKeys
       /\ \A x \in ids \ {root} : s.store.pages[x] = st.pages[x]
       /\ IsLeftHalf(s.store.pages[root], st.pages[root], height, r)
       /\ IsRightHalf(s.store.pages[r], st.pages[root], height)
  <2>1. /\ Split(st, root).store \in Stores(n + 1)
        /\ Split(st, root).store.root = st.root
        /\ Split(st, root).store.first_deleted_page = NoPage
        /\ Split(st, root).right = n + 1
        /\ Split(st, root).promoted \in AllKeys
        /\ \A x \in 1..n \ {root} : Split(st, root).store.pages[x] = st.pages[x]
        /\ IsLeftHalf(Split(st, root).store.pages[root], st.pages[root], height, n + 1)
        /\ IsRightHalf(Split(st, root).store.pages[n + 1], st.pages[root], height)
    <3>1. root \in 1..n
      BY <1>3, <1>8
    <3> QED
      BY <1>7, <1>8, <3>1, SplitIs
  <2> QED
    BY <1>2, <1>3, <1>4, <1>9, <2>1
<1>11. PICK a : a = AllocateNewPage(s.store)
  OBVIOUS
<1>12. /\ a.store \in Stores(top) /\ a.store.root = root
       /\ a.store.first_deleted_page = NoPage
       /\ a.id = top /\ a.node = EmptyNode
       /\ \A x \in 1..r : a.store.pages[x] = s.store.pages[x]
  <2>1. /\ a.store \in Stores(r + 1) /\ a.store.root = s.store.root
        /\ a.store.first_deleted_page = NoPage
        /\ a.id = r + 1 /\ a.node = EmptyNode
        /\ \A x \in 1..r : a.store.pages[x] = s.store.pages[x]
    <3>1. r \in Nat /\ s.store \in Stores(r) /\ s.store.first_deleted_page = NoPage
      BY <1>6, <1>10
    <3>2. PICK b : b = s.store
      OBVIOUS
    <3>3. r \in Nat /\ b \in Stores(r) /\ b.first_deleted_page = NoPage
      BY <3>1, <3>2
    <3>4. /\ AllocateNewPage(b).store \in Stores(r + 1)
          /\ AllocateNewPage(b).store.root = b.root
          /\ AllocateNewPage(b).store.first_deleted_page = NoPage
          /\ AllocateNewPage(b).id = r + 1
          /\ AllocateNewPage(b).node = EmptyNode
          /\ \A x \in 1..r : AllocateNewPage(b).store.pages[x] = b.pages[x]
      BY ONLY <3>3, AllocateNewPageIs
    <3> QED
      BY <1>11, <3>2, <3>4
  <2> QED
    BY <1>6, <1>10, <2>1
<1>13. PICK m : m = s.promoted /\ m = PromotedKey(st.pages[root])
  BY <1>2, <1>9 DEF Split, Page
<1>14. PICK node : node = [EmptyNode EXCEPT !.keys = <<m>>, !.children = <<root, r>>]
  OBVIOUS
<1>15. node \in Nodes(1..top)
  <2>1. EmptyNode \in Nodes(1..top)
    BY EmptyNodeIs
  <2>2. <<m>> \in Seq(AllKeys)
    BY <1>10, <1>13
  <2>3. <<root, r>> \in Seq(1..top)
    <3>1. root \in 1..top /\ r \in 1..top
      BY <1>6, <1>8
    <3> QED
      BY <3>1
  <2> QED
    BY <1>14, <2>1, <2>2, <2>3 DEF Nodes, EmptyNode
<1>16. PICK w : w = WritePage(a.store, top, node)
  OBVIOUS
<1>17. /\ w \in Stores(top) /\ w.first_deleted_page = NoPage
       /\ w.pages[top] = node
       /\ \A x \in 1..top \ {top} : w.pages[x] = a.store.pages[x]
  <2>1. top \in 1..top
    BY <1>6
  <2>2. IsWrite(w, top, a.store, top, node)
    BY <1>6, <1>12, <1>15, <1>16, <2>1 DEF IsWrite
  <2>3. w.first_deleted_page = a.store.first_deleted_page /\ w \in Stores(top)
    BY <2>2, WritePageIs
  <2>4. w.pages[top] = node /\ \A x \in 1..top \ {top} : w.pages[x] = a.store.pages[x]
    BY <2>2, WritePageIs
  <2> QED
    BY <1>12, <2>3, <2>4
<1>18. PICK z : z = [w EXCEPT !.root = top]
  OBVIOUS
<1>19. SplitRoot(st) = z
  BY <1>2, <1>9, <1>10, <1>11, <1>12, <1>13, <1>14, <1>16, <1>18 DEF SplitRoot
<1>20. /\ z \in Stores(top) /\ z.root = top /\ z.first_deleted_page = NoPage
       /\ z.pages = w.pages
  <2>1. top \in 1..top
    BY <1>6
  <2> QED
    BY <1>17, <1>18, <2>1 DEF Stores
<1>21. PICK Q : Q = z.pages
  OBVIOUS
<1>22. /\ Q \in [ids \cup {r, top} -> Nodes(ids \cup {r, top})]
       /\ Q[top] = node
       /\ \A x \in ids \ {root} : Q[x] = st.pages[x]
       /\ IsLeftHalf(Q[root], st.pages[root], height, r)
       /\ IsRightHalf(Q[r], st.pages[root], height)
  <2>1. Q \in [ids \cup {r, top} -> Nodes(ids \cup {r, top})] /\ Q[top] = node
    BY <1>6, <1>17, <1>20, <1>21 DEF Stores
  <2>2. \A x \in 1..r : x \in 1..top \ {top}
    BY <1>6
  <2>3. \A x \in 1..r : Q[x] = s.store.pages[x]
    BY <1>12, <1>17, <1>20, <1>21, <2>2
  <2>4. Q[root] = s.store.pages[root] /\ Q[r] = s.store.pages[r]
    BY <1>6, <1>8, <2>3
  <2>5. \A x \in ids \ {root} : Q[x] = st.pages[x]
    BY <1>6, <1>10, <2>3
  <2> QED
    BY <1>10, <2>1, <2>4, <2>5
<1>23. z \in Stores(n + 2) /\ z.root = n + 2
  BY <1>5, <1>20
<1>24. \A x \in 1..n \ {st.root} : z.pages[x] = st.pages[x]
  BY <1>2, <1>3, <1>21, <1>22
<1>25. /\ z.pages[n + 2] = node
       /\ IsLeftHalf(z.pages[st.root], st.pages[st.root], height, n + 1)
       /\ IsRightHalf(z.pages[n + 1], st.pages[st.root], height)
  BY <1>2, <1>4, <1>5, <1>21, <1>22
<1>26. node = [EmptyNode EXCEPT !.keys     = <<PromotedKey(st.pages[st.root])>>,
                                !.children = <<st.root, n + 1>>]
  BY <1>2, <1>4, <1>13, <1>14
<1> QED
  BY <1>2, <1>10, <1>13, <1>19, <1>20, <1>23, <1>24, <1>25, <1>26 DEF RootIsSplit

\* A full root is put below a new root of which it is the only child, and split there.
LEMMA SplitRootIs ==
    ASSUME NEW st, NEW n, NEW tree, NEW height, NEW above, NEW place,
           Shape(st, n, tree, height, above, place),
           st.first_deleted_page = NoPage, IsFull(st.pages[st.root])
    PROVE  HasRoom(SplitRoot(st)) /\ SplitRoot(st).first_deleted_page = NoPage
<1>1. /\ n \in Nat /\ st \in Stores(n) /\ height[st.root] < n
      /\ IsTree(st.pages, 1..n, st.root, tree, height, above, place)
  BY DEF Shape
<1>2. PICK root : root = st.root
  OBVIOUS
<1>3. PICK ids : ids = 1..n
  OBVIOUS
<1>4. PICK r : r = n + 1
  OBVIOUS
<1>5. PICK top : top = n + 2
  OBVIOUS
<1>6. /\ r \in Nat /\ top \in Nat /\ r # top /\ r \notin ids /\ top \notin ids
      /\ 1..r = ids \cup {r} /\ 1..top = ids \cup {r, top} /\ top = r + 1
      /\ top = n + 2
  BY <1>1, <1>3, <1>4, <1>5
<1>7. /\ tree \subseteq ids /\ root \in tree /\ height \in [ids -> Nat]
      /\ st.pages[root] \in Nodes(ids) /\ Fits(st.pages[root], height[root])
      /\ st.pages \in [ids -> Nodes(ids)]
  BY <1>1, <1>2, <1>3 DEF IsTree
<1>8. root \in ids /\ height[root] \in Nat /\ IsFull(st.pages[root])
  BY <1>2, <1>7
<1>9. PICK z : z = SplitRoot(st)
  OBVIOUS
<1>10. PICK m : m = PromotedKey(st.pages[root])
  OBVIOUS
<1>11. RootIsSplit(z, st, n, height[root])
  BY <1>1, <1>2, <1>3, <1>7, <1>8, <1>9, SplitRootPages
<1>12. PICK Q : Q = z.pages
  OBVIOUS
<1>13. PICK node : node = [EmptyNode EXCEPT !.keys = <<m>>, !.children = <<root, r>>]
  OBVIOUS
<1>14. /\ node \in Nodes(1..top) /\ Fits(node, height[root] + 1)
       /\ node.children = <<root, r>> /\ node.keys = <<m>>
       /\ Len(node.keys) = 1
  <2>1. EmptyNode \in Nodes(1..top)
    BY EmptyNodeIs
  <2>2. <<m>> \in Seq(AllKeys) /\ Len(<<m>>) = 1
    BY <1>2, <1>10, <1>11 DEF RootIsSplit
  <2>3. <<root, r>> \in Seq(1..top) /\ Len(<<root, r>>) = 2
    <3>1. root \in 1..top /\ r \in 1..top
      BY <1>6, <1>8
    <3> QED
      BY <3>1
  <2>4. /\ node.keys = <<m>> /\ node.children = <<root, r>> /\ node.values = << >>
        /\ node \in Nodes(1..top)
    BY <1>13, <2>1, <2>2, <2>3 DEF Nodes, EmptyNode
  <2>5. MaxKeys >= 1 /\ height[root] + 1 # 0
    BY <1>8, DegreeIs
  <2> QED
    BY <2>2, <2>3, <2>4, <2>5 DEF Fits
<1>19. z \in Stores(top) /\ z.root = top /\ z.first_deleted_page = NoPage
  BY <1>5, <1>11 DEF RootIsSplit
<1>21. /\ Q \in [ids \cup {r, top} -> Nodes(ids \cup {r, top})]
       /\ Q[top] = node
       /\ \A x \in ids \ {root} : Q[x] = st.pages[x]
       /\ IsLeftHalf(Q[root], st.pages[root], height[root], r)
       /\ IsRightHalf(Q[r], st.pages[root], height[root])
  <2>1. Q \in [ids \cup {r, top} -> Nodes(ids \cup {r, top})]
    BY <1>6, <1>12, <1>19 DEF Stores
  <2>2. Q[top] = node
    BY <1>2, <1>4, <1>5, <1>10, <1>11, <1>12, <1>13 DEF RootIsSplit
  <2>3. \A x \in ids \ {root} : Q[x] = st.pages[x]
    BY <1>2, <1>3, <1>11, <1>12 DEF RootIsSplit
  <2>4. /\ IsLeftHalf(Q[root], st.pages[root], height[root], r)
        /\ IsRightHalf(Q[r], st.pages[root], height[root])
    BY <1>2, <1>4, <1>11, <1>12 DEF RootIsSplit
  <2> QED
    BY <2>1, <2>2, <2>3, <2>4
<1>22. PICK only : only = [EmptyNode EXCEPT !.children = <<root>>]
  OBVIOUS
<1>23. /\ only \in Nodes(ids \cup {top}) /\ Fits(only, height[root] + 1)
       /\ only.children = <<root>> /\ only.keys = << >>
  <2>1. EmptyNode \in Nodes(ids \cup {top})
    BY EmptyNodeIs
  <2>2. <<root>> \in Seq(ids \cup {top}) /\ Len(<<root>>) = 1 /\ Len(<< >>) = 0
    BY <1>8
  <2>3. /\ only.keys = << >> /\ only.children = <<root>> /\ only.values = << >>
        /\ only \in Nodes(ids \cup {top})
    BY <1>22, <2>1, <2>2 DEF Nodes, EmptyNode
  <2>4. MaxKeys >= 0 /\ height[root] + 1 # 0
    BY <1>8, DegreeIs
  <2> QED
    BY <2>2, <2>3, <2>4 DEF Fits
<1>24. PICK P : P = [x \in ids \cup {top} |-> IF x = top THEN only ELSE st.pages[x]]
  OBVIOUS
<1>25. /\ P \in [ids \cup {top} -> Nodes(ids \cup {top})]
       /\ P[top] = only /\ \A x \in ids : P[x] = st.pages[x]
  <2>1. \A x \in ids : st.pages[x] \in Nodes(ids \cup {top})
    <3>1. Nodes(ids) \subseteq Nodes(ids \cup {top})
      BY NodesGrow
    <3> QED
      BY <1>7, <3>1
  <2>2. top \notin ids
    BY <1>6
  <2> HIDE DEF Nodes
  <2> QED
    BY <1>23, <1>24, <2>1, <2>2
<1>26. Len(st.pages[root].keys) >= MinKeys - 1
  <2>1. MinKeys \in Nat /\ MaxKeys = 2 * MinKeys + 1 /\ Len(st.pages[root].keys) >= MaxKeys
    BY <1>8, DegreeIs DEF IsFull
  <2>2. Len(st.pages[root].keys) \in Nat
    BY <1>7, NodeIs
  <2> QED
    BY <2>1, <2>2
<1>27. IsTreeWith(P, ids, top, tree, height, top, height[root] + 1)
  <2>1. IsTree(st.pages, ids, root, tree, height, above, place)
    BY <1>1, <1>2, <1>3
  <2> QED
    BY <1>6, <1>23, <1>25, <1>26, <2>1, NewRootMakesTree
<1>28. PICK height1, above1, place1 :
          /\ IsTree(P, ids \cup {top}, top, tree \cup {top}, height1, above1, place1)
          /\ height1[top] = height[root] + 1 /\ \A x \in ids : height1[x] = height[x]
  BY <1>27 DEF IsTreeWith
<1>29. IsSplit(Q, P, ids \cup {top}, height1, top, 1, root, r)
  <2>1. 1 \in 1..Len(<<root>>) /\ <<root>>[1] = root /\ Len(<<root>>) = 1
    OBVIOUS
  <2>2. Fits(node, height1[top])
    BY <1>14, <1>28
  <2>3. Len(node.keys) = Len(only.keys) + 1
    BY <1>14, <1>23
  <2>4. Inserted(node.children, only.children, 1 + 1, r)
    <3>1. Inserted(<<root, r>>, <<root>>, 2, r)
      BY DEF Inserted
    <3> QED
      BY <1>14, <1>23, <3>1
  <2>5. IsParentOfSplit(Q[top], P[top], 1, r, height1[top])
    BY <1>21, <1>25, <2>2, <2>3, <2>4 DEF IsParentOfSplit
  <2>6. /\ IsLeftHalf(Q[root], P[root], height1[root], r)
        /\ IsRightHalf(Q[r], P[root], height1[root]) /\ IsFull(P[root])
    BY <1>8, <1>21, <1>25, <1>28
  <2>7. \A x \in (ids \cup {top}) \ {top, root} : Q[x] = P[x]
    BY <1>21, <1>25
  <2>8. Q \in [(ids \cup {top}) \cup {r} -> Nodes((ids \cup {top}) \cup {r})]
    <3>1. (ids \cup {top}) \cup {r} = ids \cup {r, top}
      OBVIOUS
    <3> QED
      BY <1>21, <3>1
  <2>9. r \notin ids \cup {top}
    BY <1>6
  <2>10. 1 \in 1..Len(P[top].children) /\ root = P[top].children[1]
    BY <1>23, <1>25, <2>1
  <2> QED
    BY <2>5, <2>6, <2>7, <2>8, <2>9, <2>10 DEF IsSplit
<1>30. IsTreeWith(Q, ids \cup {top}, top, tree \cup {top}, height1, r, height1[root])
  <2>1. top \in tree \cup {top}
    OBVIOUS
  <2> QED
    BY <1>28, <1>29, <2>1, SplitKeepsTree
<1>31. PICK height2, above2, place2 :
          /\ IsTree(Q, (ids \cup {top}) \cup {r}, top, (tree \cup {top}) \cup {r},
                    height2, above2, place2)
          /\ \A x \in ids \cup {top} : height2[x] = height1[x]
  BY <1>30 DEF IsTreeWith
<1>32. Shape(z, top, (tree \cup {top}) \cup {r}, height2, above2, place2)
  <2>1. (ids \cup {top}) \cup {r} = 1..top
    BY <1>6
  <2>2. height2[top] = height[root] + 1
    BY <1>28, <1>31
  <2>3. height2[top] < top
    BY <1>1, <1>2, <1>6, <1>8, <2>2
  <2>4. NoPage \notin (tree \cup {top}) \cup {r}
    <3>1. tree \subseteq Int /\ top \in Int /\ r \in Int
      BY <1>3, <1>6, <1>7
    <3> QED
      BY <3>1, NoPageAssumption
  <2> QED
    BY <1>6, <1>19, <1>12, <1>31, <2>1, <2>3, <2>4 DEF Shape
<1>33. Len(z.pages[z.root].keys) = 1
  BY <1>14, <1>19, <1>12, <1>21
<1>34. CanSpare(z.pages, z.root, height2, z.root)
  BY <1>33 DEF CanSpare
<1>35. ~IsFull(z.pages[z.root])
  <2>1. MinKeys \in Nat /\ MinKeys >= 1 /\ MaxKeys = 2 * MinKeys + 1
    BY DegreeIs
  <2>2. ~(1 >= MaxKeys)
    BY ONLY <2>1
  <2> QED
    BY <1>33, <2>2 DEF IsFull
<1> QED
  BY <1>9, <1>19, <1>32, <1>34, <1>35 DEF HasRoom

LEMMA SpentSplitRoot ==
    ASSUME NEW st, IsSpent(Split(st, st.root).store)
    PROVE  IsSpent(SplitRoot(st))
<1>1. PICK s : s = Split(st, st.root)
  OBVIOUS
<1>2. PICK a : a = AllocateNewPage(s.store)
  OBVIOUS
<1>3. PICK w : w = WritePage(a.store, a.id,
                      [a.node EXCEPT !.keys = <<s.promoted>>, !.children = <<st.root, s.right>>])
  OBVIOUS
<1>4. SplitRoot(st) = [w EXCEPT !.root = a.id]
  BY <1>1, <1>2, <1>3 DEF SplitRoot
<1>5. IsSpent(w)
  <2>1. IsSpent(a.store)
    BY <1>1, <1>2, SpentStays
  <2> QED
    BY <1>3, <2>1, SpentStays
<1>6. PICK S, R : w \in [pages : Seq(S), root : R, first_deleted_page : {NoPage}]
  BY <1>5 DEF IsSpent
<1>7. PICK z : z = [w EXCEPT !.root = a.id]
  OBVIOUS
<1>8. z \in [pages : Seq(S), root : R \cup {a.id}, first_deleted_page : {NoPage}]
  BY <1>6, <1>7
<1> QED
  BY <1>4, <1>7, <1>8 DEF IsSpent

LEMMA TreeStoreIs ==
    ASSUME NEW st, IsTreeStore(st)
    PROVE  st.root # NoPage /\ Len(st.pages) \in Nat /\ st.root \in Int
<1>1. PICK n, tree, height, above, place : Shape(st, n, tree, height, above, place)
  BY DEF IsTreeStore
<1>2. n \in Nat /\ st.pages \in [1..n -> Nodes(1..n)] /\ st.root \in 1..n
  BY <1>1 DEF Shape, IsTree, Stores
<1>3. Len(st.pages) = n
  BY <1>2, PagesAreSequence
<1> QED
  BY <1>2, <1>3, NoPageAssumption

\* What is between two calls.
IsStore(st) == st = EmptyStore \/ IsTreeStore(st)

LEMMA WithRootIs ==
    ASSUME NEW st, IsStore(st)
    PROVE  /\ IsTreeStore(WithRoot(st))
           /\ WithRoot(st).first_deleted_page = st.first_deleted_page
<1>1. CASE IsTreeStore(st)
  BY <1>1, TreeStoreIs DEF WithRoot
<1>2. CASE st = EmptyStore
  <2>1. /\ st.pages = << >> /\ st.root = NoPage /\ st.first_deleted_page = NoPage
        /\ st \in [pages : {<< >>}, root : {NoPage}, first_deleted_page : {NoPage}]
    BY <1>2 DEF EmptyStore
  <2>2. st \in Stores(0)
    <3>1. << >> \in [1..0 -> Nodes(1..0)]
      OBVIOUS
    <3> QED
      BY <2>1, <3>1 DEF Stores
  <2>3. PICK a : a = AllocateNewPage(st)
    OBVIOUS
  <2>4. /\ a.store \in Stores(1) /\ a.store.first_deleted_page = NoPage
        /\ a.id = 1 /\ a.store.pages[1] = EmptyNode
    <3>1. /\ a.store \in Stores(0 + 1) /\ a.store.first_deleted_page = NoPage
          /\ a.id = 0 + 1 /\ a.store.pages[0 + 1] = EmptyNode
      BY <2>1, <2>2, <2>3, AllocateNewPageIs
    <3>2. 0 + 1 = 1
      OBVIOUS
    <3> QED
      BY <3>1, <3>2
  <2>5. PICK w : w = [a.store EXCEPT !.root = 1]
    OBVIOUS
  <2>6. WithRoot(st) = w
    BY <2>1, <2>3, <2>4, <2>5 DEF WithRoot
  <2>7. /\ w \in Stores(1) /\ w.root = 1 /\ w.first_deleted_page = NoPage
        /\ w.pages = a.store.pages
    <3>1. 1 \in 1..1
      OBVIOUS
    <3> QED
      BY <2>4, <2>5, <3>1 DEF Stores
  <2>8. PICK height : height = [x \in 1..1 |-> 0]
    OBVIOUS
  <2>9. height \in [1..1 -> Nat] /\ height[1] = 0
    BY <2>8
  <2>10. IsTree(w.pages, 1..1, 1, {1}, height, height, height)
    <3>1. w.pages \in [1..1 -> Nodes(1..1)] /\ w.pages[1] = EmptyNode
      BY <2>4, <2>7 DEF Stores
    <3>2. \A id \in 1..1 : Fits(w.pages[id], height[id])
      BY <2>9, <3>1, EmptyNodeIs
    <3>3. Len(w.pages[1].children) = 0
      BY <3>1 DEF EmptyNode
    <3>4. {1} \subseteq 1..1
      OBVIOUS
    <3> QED
      BY <2>9, <3>1, <3>2, <3>3, <3>4 DEF IsTree
  <2>11. Shape(w, 1, {1}, height, height, height)
    <3>1. 1 \in Nat /\ NoPage \notin {1} /\ 0 < 1
      BY NoPageAssumption
    <3> QED
      BY <2>7, <2>9, <2>10, <3>1 DEF Shape
  <2>12. CanSpare(w.pages, w.root, height, w.root)
    BY <2>7, <2>9 DEF CanSpare
  <2> QED
    BY <2>1, <2>6, <2>7, <2>11, <2>12 DEF IsTreeStore
<1> QED
  BY <1>1, <1>2 DEF IsStore

LEMMA InsertKeyIs ==
    ASSUME NEW st, IsStore(st), NEW key \in AllKeys
    PROVE  InsertDone(InsertKey(st, key).store, st.first_deleted_page)
<1>1. PICK opened : opened = WithRoot(st)
  OBVIOUS
<1>2. IsTreeStore(opened) /\ opened.first_deleted_page = st.first_deleted_page
  BY <1>1, WithRootIs
<1>3. PICK deleted : deleted = opened.first_deleted_page
  OBVIOUS
<1>4. CASE ~IsFull(opened.pages[opened.root])
  <2>1. HasRoom(opened)
    BY <1>2, <1>4 DEF IsTreeStore, HasRoom
  <2>2. InsertKey(st, key) = InsertAtRoot(opened, key)
    BY <1>1, <1>4 DEF InsertKey, Page
  <2> QED
    BY <1>2, <2>1, <2>2, InsertAtRootIs
<1>5. CASE IsFull(opened.pages[opened.root])
  <2>1. PICK split : split = SplitRoot(opened)
    OBVIOUS
  <2>2. InsertKey(st, key) = InsertAtRoot(split, key)
    BY <1>1, <1>5, <2>1 DEF InsertKey, Page
  <2>3. PICK n, tree, height, above, place : Shape(opened, n, tree, height, above, place)
    BY <1>2 DEF IsTreeStore
  <2>4. CASE deleted = NoPage
    <3>1. HasRoom(split) /\ split.first_deleted_page = NoPage
      BY <1>3, <1>5, <2>1, <2>3, <2>4, SplitRootIs
    <3> QED
      BY <1>2, <1>3, <2>2, <2>4, <3>1, InsertAtRootIs
  <2>5. CASE deleted # NoPage
    <3>1. n \in Nat /\ opened \in Stores(n)
      BY <2>3 DEF Shape
    <3>2. IsSpent(Split(opened, opened.root).store)
      BY <1>3, <2>5, <3>1, ReuseSpends
    <3>3. IsSpent(split)
      BY <2>1, <3>2, SpentSplitRoot
    <3> QED
      BY <1>2, <1>3, <2>2, <2>5, <3>3, SpentAtRoot DEF InsertDone
  <2> QED
    BY <2>4, <2>5
<1> QED
  BY <1>4, <1>5

\* The trees that were filled before.
LEMMA FilledFrom ==
    ASSUME NEW keys, Len(keys) \in Nat
    PROVE  \E after : /\ Filled(keys) = after[Len(keys)]
                     /\ after[0] = EmptyStore
                     /\ \A n \in 1..Len(keys) : after[n] = InsertKey(after[n - 1], keys[n]).store
<1> DEFINE N          == Len(keys)
           Body(f, m) == [n \in 0..m |-> IF n = 0 THEN EmptyStore
                                         ELSE InsertKey(f[n - 1], keys[n]).store]
           T          == {m \in Nat : \E f : f = Body(f, m)}
           after      == CHOOSE f : f = Body(f, N)
<1>1. 0 \in T
  <2>1. PICK f : f = [n \in 0..0 |-> EmptyStore]
    OBVIOUS
  <2>2. f = Body(f, 0)
    BY <2>1
  <2> QED
    BY <2>2
<1>2. ASSUME NEW m \in Nat, m \in T PROVE m + 1 \in T
  <2>1. PICK f : f = Body(f, m)
    BY <1>2
  <2>2. PICK g : g = Body(f, m + 1)
    OBVIOUS
  <2>3. \A n \in 0..m : g[n] = f[n]
    BY <2>1, <2>2
  <2>4. \A n \in 0..m + 1 : n # 0 => n - 1 \in 0..m
    OBVIOUS
  <2>5. g = Body(g, m + 1)
    BY <2>2, <2>3, <2>4
  <2> QED
    BY <2>5
<1>3. \E f : f = Body(f, N)
  <2>1. Nat \subseteq T
    <3> HIDE DEF T
    <3> QED
      BY <1>1, <1>2, SetInduction
  <2> QED
    BY <2>1
<1>4. after = Body(after, N)
  BY <1>3
<1>5. Filled(keys) = after[N]
  BY DEF Filled
<1> HIDE DEF after
<1>6. /\ after[0] = EmptyStore
      /\ \A n \in 1..N : after[n] = InsertKey(after[n - 1], keys[n]).store
  BY <1>4
<1> QED
  BY <1>5, <1>6

LEMMA PreloadIs ==
    ASSUME NEW keys \in Preloads
    PROVE  Len(keys) \in Nat /\ \A n \in 1..Len(keys) : keys[n] \in AllKeys
<1>1. keys \in Seq(Int)
  BY KeysAssumption
<1>2. Len(keys) \in Nat /\ DOMAIN keys = 1..Len(keys)
  BY <1>1, LenProperties
<1>3. \A n \in 1..Len(keys) : keys[n] \in ToSet(keys)
  BY <1>2 DEF ToSet
<1> QED
  BY <1>2, <1>3 DEF AllKeys

LEMMA FilledIs ==
    ASSUME NEW keys \in Preloads
    PROVE  IsStore(Filled(keys)) /\ Filled(keys).first_deleted_page = NoPage
<1>1. PICK N \in Nat : N = Len(keys) /\ \A n \in 1..N : keys[n] \in AllKeys
  BY PreloadIs
<1>2. PICK after : /\ Filled(keys) = after[N]
                   /\ after[0] = EmptyStore
                   /\ \A n \in 1..N : after[n] = InsertKey(after[n - 1], keys[n]).store
  BY <1>1, FilledFrom
<1> DEFINE Good == {m \in Nat : m <= N => /\ IsStore(after[m])
                                         /\ after[m].first_deleted_page = NoPage}
<1>3. 0 \in Good
  <2>1. EmptyStore.first_deleted_page = NoPage
    BY DEF EmptyStore
  <2> QED
    BY <1>2, <2>1 DEF IsStore
<1>4. ASSUME NEW m \in Nat, m \in Good PROVE m + 1 \in Good
  <2>1. SUFFICES ASSUME m + 1 <= N
                 PROVE  IsStore(after[m + 1]) /\ after[m + 1].first_deleted_page = NoPage
    OBVIOUS
  <2>2. m <= N /\ m + 1 \in 1..N /\ (m + 1) - 1 = m
    BY <1>1, <2>1
  <2>3. IsStore(after[m]) /\ after[m].first_deleted_page = NoPage
    BY <1>4, <2>2
  <2>4. after[m + 1] = InsertKey(after[m], keys[m + 1]).store /\ keys[m + 1] \in AllKeys
    BY <1>1, <1>2, <2>2
  <2>5. InsertDone(after[m + 1], NoPage)
    BY <2>3, <2>4, InsertKeyIs
  <2> QED
    BY <2>5 DEF InsertDone, IsStore
<1>5. N \in Good
  <2>1. Nat \subseteq Good
    <3> HIDE DEF Good
    <3> QED
      BY <1>3, <1>4, SetInduction
  <2> QED
    BY <1>1, <2>1
<1> QED
  BY <1>1, <1>2, <1>5

---------------------------------------------------------------------------
(* delete. *)

\* c is the i-th child of p.
IsChildAt(c, st, p, i) ==
    i \in 1..Len(st.pages[p].children) /\ c = st.pages[p].children[i]

LEMMA ChildIs ==
    ASSUME NEW st, NEW n, NEW tree, NEW height, NEW above, NEW place,
           Shape(st, n, tree, height, above, place), NEW p \in tree, NEW i, NEW c,
           IsChildAt(c, st, p, i)
    PROVE  /\ p \in 1..n /\ c \in tree /\ c \in 1..n /\ c # st.root /\ c # p
           /\ place[c] = i /\ height[p] = height[c] + 1
           /\ height[c] \in Nat /\ st.pages[c] \in Nodes(1..n) /\ Fits(st.pages[c], height[c])
           /\ Len(st.pages[c].keys) \in Nat /\ Len(st.pages[c].keys) >= MinKeys - 1
<1>1. IsTree(st.pages, 1..n, st.root, tree, height, above, place)
  BY DEF Shape
<1>2. Leads(c, p, i, st.root, tree, height, above, place) /\ tree \subseteq 1..n
  BY <1>1 DEF IsTree, IsChildAt
<1>3. c \in tree /\ c # st.root /\ height[p] = height[c] + 1 /\ place[c] = i
  BY <1>2 DEF Leads
<1>4. c \in 1..n /\ p \in 1..n
  BY <1>2, <1>3
<1>5. /\ st.pages[c] \in Nodes(1..n) /\ height[c] \in Nat /\ Fits(st.pages[c], height[c])
      /\ Len(st.pages[c].keys) \in Nat
  <2>1. PICK ids : ids = 1..n
    OBVIOUS
  <2>2. IsTree(st.pages, ids, st.root, tree, height, above, place) /\ c \in ids
    BY <1>1, <1>4, <2>1
  <2> QED
    BY <2>1, <2>2, TreeNodeIs
<1>6. Len(st.pages[c].keys) >= MinKeys - 1
  BY <1>1, <1>3 DEF IsTree
<1> QED
  BY <1>3, <1>4, <1>5, <1>6

\* A delete can go on at a node of this level that can do without a key.
GoesOn(next, n, root, height, level) ==
    \E tree, above, place :
        /\ Shape(next.store, n, tree, height, above, place) /\ next.store.root = root
        /\ next.id \in tree /\ height[next.id] = level
        /\ CanSpare(next.store.pages, root, height, next.id)

\* w is the file after the child g of p, at gi, lent to the child t, at ti.
Lends(w, st, n, height, p, gi, ti, g, t) ==
    \E l, u, q, from, to :
        /\ gi \in 1..Len(st.pages[p].children) /\ ti \in 1..Len(st.pages[p].children) /\ gi # ti
        /\ g = st.pages[p].children[gi] /\ t = st.pages[p].children[ti]
        /\ l \in Nodes(1..n) /\ u \in Nodes(1..n) /\ q \in Nodes(1..n)
        /\ IsLoan(l, st.pages[g], u, st.pages[t], q, st.pages[p], height[t], from, to)
        /\ CanLendKeys(st.pages[g])
        /\ w = WritePage(WritePage(WritePage(st, t, u), g, l), p, q)

LEMMA LendGoesOn ==
    ASSUME NEW st, NEW n, NEW tree, NEW height, NEW above, NEW place,
           Shape(st, n, tree, height, above, place), NEW p \in tree,
           NEW gi, NEW ti, NEW g, NEW t, NEW next,
           Lends(next.store, st, n, height, p, gi, ti, g, t), next.id = t
    PROVE  GoesOn(next, n, st.root, height, height[t])
<1>1. PICK w : w = next.store
  OBVIOUS
<1>2. PICK l, u, q, from, to :
        /\ gi \in 1..Len(st.pages[p].children) /\ ti \in 1..Len(st.pages[p].children) /\ gi # ti
        /\ g = st.pages[p].children[gi] /\ t = st.pages[p].children[ti]
        /\ l \in Nodes(1..n) /\ u \in Nodes(1..n) /\ q \in Nodes(1..n)
        /\ IsLoan(l, st.pages[g], u, st.pages[t], q, st.pages[p], height[t], from, to)
        /\ CanLendKeys(st.pages[g])
        /\ w = WritePage(WritePage(WritePage(st, t, u), g, l), p, q)
  BY <1>1 DEF Lends
<1>3. /\ g \in tree /\ g \in 1..n /\ g # p /\ place[g] = gi /\ p \in 1..n
  <2>1. IsChildAt(g, st, p, gi)
    BY <1>2 DEF IsChildAt
  <2> QED
    BY <2>1, ChildIs
<1>4. /\ t \in tree /\ t \in 1..n /\ t # st.root /\ t # p /\ place[t] = ti
      /\ Len(st.pages[t].keys) \in Nat /\ Len(st.pages[t].keys) >= MinKeys - 1
  <2>1. IsChildAt(t, st, p, ti)
    BY <1>2 DEF IsChildAt
  <2> QED
    BY <2>1, ChildIs
<1>5. g # t
  BY <1>2, <1>3, <1>4
<1>6. /\ n \in Nat /\ st \in Stores(n) /\ height[st.root] < n
      /\ IsTree(st.pages, 1..n, st.root, tree, height, above, place)
      /\ st.first_deleted_page \notin tree
  BY DEF Shape
<1>7. PICK x : x = WritePage(st, t, u)
  OBVIOUS
<1>8. /\ x \in Stores(n) /\ x.root = st.root
      /\ x.first_deleted_page = st.first_deleted_page /\ x.pages[t] = u
      /\ \A id \in 1..n \ {t} : x.pages[id] = st.pages[id]
  <2>1. IsWrite(x, n, st, t, u)
    BY <1>2, <1>4, <1>6, <1>7 DEF IsWrite
  <2> QED
    BY <2>1, WritePageIs
<1>9. PICK y : y = WritePage(x, g, l)
  OBVIOUS
<1>10. /\ y \in Stores(n) /\ y.root = x.root
       /\ y.first_deleted_page = x.first_deleted_page /\ y.pages[g] = l
       /\ \A id \in 1..n \ {g} : y.pages[id] = x.pages[id]
  <2>1. IsWrite(y, n, x, g, l)
    BY <1>2, <1>3, <1>6, <1>8, <1>9 DEF IsWrite
  <2> QED
    BY <2>1, WritePageIs
<1>11. w = WritePage(y, p, q)
  BY <1>2, <1>7, <1>9
<1>12. /\ w \in Stores(n) /\ w.root = y.root
       /\ w.first_deleted_page = y.first_deleted_page /\ w.pages[p] = q
       /\ \A id \in 1..n \ {p} : w.pages[id] = y.pages[id]
  <2>1. IsWrite(w, n, y, p, q)
    BY <1>2, <1>3, <1>6, <1>10, <1>11 DEF IsWrite
  <2> QED
    BY <2>1, WritePageIs
<1>13. /\ w.pages[t] = u /\ w.pages[g] = l /\ w.pages[p] = q
       /\ \A id \in 1..n \ {p, g, t} : w.pages[id] = st.pages[id]
       /\ w.root = st.root /\ w.first_deleted_page = st.first_deleted_page
  BY <1>3, <1>4, <1>5, <1>8, <1>10, <1>12
<1>14. IsTreeAgain(w.pages, 1..n, st.root, tree, height)
  <2>1. PICK ids : ids = 1..n
    OBVIOUS
  <2>2. IsLend(w.pages, st.pages, ids, height, p, gi, ti, g, t, from, to)
    <3>1. w.pages \in [ids -> Nodes(ids)]
      BY <1>12, <2>1 DEF Stores
    <3> QED
      BY <1>2, <1>13, <2>1, <3>1 DEF IsLend
  <2> QED
    BY <1>6, <2>1, <2>2, LendKeepsTree
<1>15. PICK above2, place2 : IsTree(w.pages, 1..n, st.root, tree, height, above2, place2)
  BY <1>14 DEF IsTreeAgain
<1>16. Shape(w, n, tree, height, above2, place2)
  BY <1>6, <1>12, <1>13, <1>15 DEF Shape
<1>17. CanSpare(w.pages, st.root, height, t)
  <2>1. Len(u.keys) = Len(st.pages[t].keys) + 1
    BY <1>2 DEF IsLoan
  <2>2. MinKeys \in Nat
    BY DegreeIs
  <2>3. Len(w.pages[t].keys) >= MinKeys
    BY <1>4, <1>13, <2>1, <2>2
  <2> QED
    BY <1>4, <2>3 DEF CanSpare
<1> QED
  BY <1>1, <1>4, <1>13, <1>16, <1>17 DEF GoesOn

\* w is the file after the child r of p, at idx + 1, was emptied into l, at idx.
Merges(w, st, p, idx, l, r) ==
    /\ idx \in Nat /\ idx >= 1 /\ idx < Len(st.pages[p].children)
    /\ l = st.pages[p].children[idx] /\ r = st.pages[p].children[idx + 1]
    /\ ~CanLendKeys(st.pages[l]) /\ ~CanLendKeys(st.pages[r])
    /\ IsLessThanMinimal(st.pages[l]) \/ IsLessThanMinimal(st.pages[r])
    /\ w = DeletePage(WritePage(WritePage(st, l, Merged(st.pages[p], idx, st.pages[l], st.pages[r])),
                                p, ParentOfMerged(st.pages[p], idx)),
                      r)

LEMMA MergeGoesOn ==
    ASSUME NEW st, NEW n, NEW tree, NEW height, NEW above, NEW place,
           Shape(st, n, tree, height, above, place), NEW p \in tree,
           CanSpare(st.pages, st.root, height, p), NEW idx, NEW l, NEW r, NEW next,
           Merges(next.store, st, p, idx, l, r), next.id = l
    PROVE  GoesOn(next, n, st.root, height, height[l])
<1>1. PICK w : w = next.store
  OBVIOUS
<1>2. PICK m : m = Merged(st.pages[p], idx, st.pages[l], st.pages[r])
  OBVIOUS
<1>3. PICK q : q = ParentOfMerged(st.pages[p], idx)
  OBVIOUS
<1>4. /\ idx \in Nat /\ idx >= 1 /\ idx < Len(st.pages[p].children)
      /\ l = st.pages[p].children[idx] /\ r = st.pages[p].children[idx + 1]
      /\ ~CanLendKeys(st.pages[l]) /\ ~CanLendKeys(st.pages[r])
      /\ IsLessThanMinimal(st.pages[l]) \/ IsLessThanMinimal(st.pages[r])
      /\ w = DeletePage(WritePage(WritePage(st, l, m), p, q), r)
  BY <1>1, <1>2, <1>3 DEF Merges
<1>5. /\ n \in Nat /\ st \in Stores(n) /\ height[st.root] < n
      /\ IsTree(st.pages, 1..n, st.root, tree, height, above, place)
      /\ st.first_deleted_page \notin tree /\ p \in 1..n
  BY DEF Shape, IsTree
<1>6. /\ st.pages[p] \in Nodes(1..n) /\ Fits(st.pages[p], height[p]) /\ height[p] \in Nat
      /\ Len(st.pages[p].children) \in Nat
  BY <1>5, TreeNodeIs
<1>7. idx \in 1..Len(st.pages[p].children) /\ idx + 1 \in 1..Len(st.pages[p].children)
  BY <1>4, <1>6
<1>8. /\ l \in tree /\ l \in 1..n /\ l # p /\ l # st.root /\ place[l] = idx
      /\ height[p] = height[l] + 1
      /\ height[l] \in Nat /\ st.pages[l] \in Nodes(1..n) /\ Fits(st.pages[l], height[l])
      /\ Len(st.pages[l].keys) \in Nat /\ Len(st.pages[l].keys) >= MinKeys - 1
  <2>1. IsChildAt(l, st, p, idx)
    BY <1>4, <1>7 DEF IsChildAt
  <2> QED
    BY <2>1, ChildIs
<1>9. /\ r \in tree /\ r \in 1..n /\ r # p /\ r # st.root /\ place[r] = idx + 1
      /\ height[p] = height[r] + 1
      /\ height[r] \in Nat /\ st.pages[r] \in Nodes(1..n) /\ Fits(st.pages[r], height[r])
      /\ Len(st.pages[r].keys) \in Nat /\ Len(st.pages[r].keys) >= MinKeys - 1
  <2>1. IsChildAt(r, st, p, idx + 1)
    BY <1>4, <1>7 DEF IsChildAt
  <2> QED
    BY <2>1, ChildIs
<1>10. l # r /\ height[l] = height[r]
  <2>1. /\ place[l] = idx
        /\ place[r] = idx + 1
        /\ idx # idx + 1
    <3>1. place[l] = idx
      BY <1>8
    <3>2. place[r] = idx + 1
      BY <1>9
    <3>3. idx \in Nat
      BY <1>4
    <3>4. idx # idx + 1
      BY ONLY <3>3
    <3> QED
      BY <3>1, <3>2, <3>4
  <2>2. height[l] + 1 = height[r] + 1 /\ height[l] \in Nat /\ height[r] \in Nat
    BY <1>8, <1>9
  <2>3. l # r
    BY <2>1
  <2> QED
    BY <2>2, <2>3
<1>11. PICK a \in Nat : a = Len(st.pages[l].keys)
  BY <1>8
<1>12. PICK b \in Nat : b = Len(st.pages[r].keys)
  BY <1>9
<1>13. a + b < MaxKeys /\ (MinKeys = 1 \/ a + b >= MinKeys)
  <2>1. MinKeys \in Nat /\ MinKeys >= 1 /\ MaxKeys = 2 * MinKeys + 1
    BY DegreeIs
  <2>2. a >= MinKeys - 1 /\ b >= MinKeys - 1
    BY <1>8, <1>9, <1>11, <1>12
  <2>3. a <= MinKeys /\ b <= MinKeys
    <3>1. ~(a > MinKeys)
      BY <1>4, <1>11 DEF CanLendKeys
    <3>2. ~(b > MinKeys)
      BY <1>4, <1>12 DEF CanLendKeys
    <3> QED
      BY ONLY <2>1, <3>1, <3>2, a \in Nat, b \in Nat
  <2> QED
    BY ONLY <2>1, <2>2, <2>3, a \in Nat, b \in Nat
<1>14. m \in Nodes(1..n) /\ IsMerger(m, st.pages[l], st.pages[r], height[l])
  <2>1. Fits(st.pages[p], height[l] + 1) /\ Fits(st.pages[r], height[l])
    BY <1>6, <1>8, <1>9, <1>10
  <2> QED
    BY <1>2, <1>4, <1>6, <1>8, <1>9, <1>11, <1>12, <1>13, <2>1, MergedIs
<1>15. q \in Nodes(1..n) /\ IsParentOfMerged(q, st.pages[p], idx, height[p])
  <2>1. height[p] # 0
    BY <1>8
  <2> QED
    BY <1>3, <1>4, <1>6, <2>1, ParentOfMergedIs
<1>16. PICK x : x = WritePage(st, l, m)
  OBVIOUS
<1>17. /\ x \in Stores(n) /\ x.root = st.root /\ x.pages[l] = m
       /\ \A id \in 1..n \ {l} : x.pages[id] = st.pages[id]
  <2>1. IsWrite(x, n, st, l, m)
    BY <1>5, <1>8, <1>14, <1>16 DEF IsWrite
  <2> QED
    BY <2>1, WritePageIs
<1>18. PICK y : y = WritePage(x, p, q)
  OBVIOUS
<1>19. /\ y \in Stores(n) /\ y.root = x.root /\ y.pages[p] = q
       /\ \A id \in 1..n \ {p} : y.pages[id] = x.pages[id]
  <2>1. IsWrite(y, n, x, p, q)
    BY <1>5, <1>15, <1>17, <1>18 DEF IsWrite
  <2> QED
    BY <2>1, WritePageIs
<1>20. w = [y EXCEPT !.first_deleted_page = r]
  BY <1>4, <1>16, <1>18 DEF DeletePage
<1>21. /\ w \in Stores(n) /\ w.root = st.root /\ w.first_deleted_page = r
       /\ w.pages = y.pages
  <2>1. y \in Stores(n) /\ y.root = st.root
    BY <1>17, <1>19
  <2> QED
    BY <1>9, <1>20, <2>1 DEF Stores
<1>22. /\ w.pages[p] = q /\ w.pages[l] = m
       /\ \A id \in 1..n \ {p, l} : w.pages[id] = st.pages[id]
  BY <1>8, <1>17, <1>19, <1>21
<1>23. IsTreeAgain(w.pages, 1..n, st.root, tree \ {r}, height)
  <2>1. PICK ids : ids = 1..n
    OBVIOUS
  <2>2. IsMerge(w.pages, st.pages, ids, height, p, idx, l, r)
    <3>1. w.pages \in [ids -> Nodes(ids)]
      BY <1>21, <2>1 DEF Stores
    <3> QED
      BY <1>4, <1>14, <1>15, <1>22, <2>1, <3>1 DEF IsMerge
  <2> QED
    BY <1>5, <2>1, <2>2, MergeKeepsTree
<1>24. PICK above2, place2 : IsTree(w.pages, 1..n, st.root, tree \ {r}, height, above2, place2)
  BY <1>23 DEF IsTreeAgain
<1>25. Shape(w, n, tree \ {r}, height, above2, place2)
  BY <1>5, <1>21, <1>24 DEF Shape
<1>26. CanSpare(w.pages, st.root, height, l)
  <2>1. Len(m.keys) >= a + b /\ Len(m.keys) \in Nat
    <3>1. Len(m.keys) >= Len(st.pages[l].keys) + Len(st.pages[r].keys)
      BY <1>14 DEF IsMerger
    <3>2. Len(m.keys) \in Nat
      BY <1>14, NodeIs
    <3> QED
      BY <1>11, <1>12, <3>1, <3>2
  <2>2. MinKeys \in Nat
    BY DegreeIs
  <2>3. MinKeys = 1 \/ Len(m.keys) >= MinKeys
    BY <1>13, <2>1, <2>2
  <2> QED
    BY <1>8, <1>22, <2>3 DEF CanSpare
<1> QED
  BY <1>1, <1>8, <1>10, <1>21, <1>25, <1>26 DEF GoesOn

LEMMA RefillIs ==
    ASSUME NEW st, NEW n, NEW tree, NEW height, NEW above, NEW place,
           Shape(st, n, tree, height, above, place), NEW p \in tree,
           CanSpare(st.pages, st.root, height, p), NEW idx, NEW c, IsChildAt(c, st, p, idx),
           IsLessThanMinimal(st.pages[c])
    PROVE  GoesOn(Refill(st, p, idx), n, st.root, height, height[c])
<1>1. PICK pages : pages = st.pages
  OBVIOUS
<1>2. PICK node : node = st.pages[p]
  OBVIOUS
<1>3. PICK next : next = Refill(st, p, idx)
  OBVIOUS
<1> SUFFICES GoesOn(next, n, st.root, height, height[c])
  BY <1>3
<1>4. /\ IsTree(st.pages, 1..n, st.root, tree, height, above, place) /\ p \in 1..n
      /\ n \in Nat /\ st \in Stores(n)
  BY DEF Shape, IsTree
<1>5. /\ node \in Nodes(1..n) /\ Fits(node, height[p]) /\ height[p] \in Nat
      /\ Len(node.children) \in Nat /\ Len(node.keys) \in Nat
      /\ height[p] # 0 => Len(node.children) = Len(node.keys) + 1
  <2>1. PICK ids : ids = 1..n
    OBVIOUS
  <2>2. IsTree(st.pages, ids, st.root, tree, height, above, place) /\ p \in ids
    BY <1>4, <2>1
  <2>3. /\ st.pages[p] \in Nodes(ids) /\ height[p] \in Nat /\ Fits(st.pages[p], height[p])
        /\ Len(st.pages[p].keys) \in Nat /\ Len(st.pages[p].children) \in Nat
        /\ height[p] # 0 => Len(st.pages[p].children) = Len(st.pages[p].keys) + 1
    BY <2>2, TreeNodeIs
  <2> QED
    BY <1>2, <2>1, <2>3
<1>6. idx \in 1..Len(node.children) /\ c = node.children[idx]
  BY <1>2 DEF IsChildAt
<1>7. /\ c \in tree /\ c \in 1..n /\ c # st.root /\ height[p] = height[c] + 1
      /\ height[c] \in Nat /\ st.pages[c] \in Nodes(1..n) /\ Fits(st.pages[c], height[c])
      /\ IsLessThanMinimal(st.pages[c])
  BY ChildIs
<1>8. ~CanLendKeys(st.pages[c])
  <2>1. /\ Len(st.pages[c].keys) \in Nat /\ MinKeys \in Nat
        /\ Len(st.pages[c].keys) < MinKeys
    BY <1>7, NodeIs, DegreeIs DEF IsLessThanMinimal
  <2> QED
    BY <2>1 DEF CanLendKeys
<1>9. PICK left : left = node.children[idx - 1]
  OBVIOUS
<1>10. PICK right : right = node.children[idx + 1]
  OBVIOUS
<1>11. CASE idx > 1 /\ CanLendKeys(st.pages[left])
  <2>1. PICK loan : loan = LendFromLeft(node, idx, st.pages[left], st.pages[c])
    OBVIOUS
  <2>2. next = [id |-> c,
                store |-> WritePage(WritePage(WritePage(st, c, loan.target), left, loan.left),
                                    p, loan.parent)]
    BY <1>2, <1>3, <1>6, <1>9, <1>11, <2>1 DEF Refill, Page
  <2>3. IsChildAt(left, st, p, idx - 1) /\ idx - 1 # idx /\ idx \in 2..Len(node.children)
    BY <1>2, <1>5, <1>6, <1>9, <1>11 DEF IsChildAt
  <2>4. /\ height[p] = height[left] + 1 /\ height[left] \in Nat
        /\ st.pages[left] \in Nodes(1..n) /\ Fits(st.pages[left], height[left])
    BY <2>3, ChildIs
  <2>5. Fits(st.pages[left], height[c]) /\ Fits(node, height[c] + 1)
    <3>1. height[left] = height[c]
      BY <1>7, <2>4
    <3> QED
      BY <1>5, <1>7, <2>4, <3>1
  <2>6. /\ loan.left \in Nodes(1..n) /\ loan.target \in Nodes(1..n) /\ loan.parent \in Nodes(1..n)
        /\ IsLoan(loan.left, st.pages[left], loan.target, st.pages[c], loan.parent, node,
                  height[c], Len(st.pages[left].children), 1)
    BY <1>5, <1>7, <1>11, <2>1, <2>3, <2>4, <2>5, LendFromLeftIs
  <2>7. Lends(next.store, st, n, height, p, idx - 1, idx, left, c) /\ next.id = c
    <3>1. /\ next.store = WritePage(WritePage(WritePage(st, c, loan.target), left, loan.left),
                                    p, loan.parent)
          /\ next.id = c
      BY <2>2
    <3>2. idx - 1 \in 1..Len(st.pages[p].children) /\ left = st.pages[p].children[idx - 1]
      BY <2>3 DEF IsChildAt
    <3> QED
      BY <1>2, <1>6, <1>11, <2>3, <2>6, <3>1, <3>2 DEF Lends
  <2> QED
    BY <2>7, LendGoesOn
<1>12. CASE ~(idx > 1 /\ CanLendKeys(st.pages[left])) /\
            (idx < Len(node.children) /\ CanLendKeys(st.pages[right]))
  <2>1. PICK loan : loan = LendFromRight(node, idx, st.pages[right], st.pages[c])
    OBVIOUS
  <2>2. next = [id |-> c,
                store |-> WritePage(WritePage(WritePage(st, c, loan.target), right, loan.right),
                                    p, loan.parent)]
    BY <1>2, <1>3, <1>6, <1>9, <1>10, <1>12, <2>1 DEF Refill, Page
  <2>3. /\ IsChildAt(right, st, p, idx + 1) /\ idx + 1 # idx
        /\ idx \in Nat /\ idx >= 1 /\ idx < Len(node.children)
    BY <1>2, <1>5, <1>6, <1>10, <1>12 DEF IsChildAt
  <2>4. /\ height[p] = height[right] + 1 /\ height[right] \in Nat
        /\ st.pages[right] \in Nodes(1..n) /\ Fits(st.pages[right], height[right])
    BY <2>3, ChildIs
  <2>5. Fits(st.pages[right], height[c]) /\ Fits(node, height[c] + 1)
    <3>1. height[right] = height[c]
      BY <1>7, <2>4
    <3> QED
      BY <1>5, <1>7, <2>4, <3>1
  <2>6. /\ loan.right \in Nodes(1..n) /\ loan.target \in Nodes(1..n) /\ loan.parent \in Nodes(1..n)
        /\ IsLoan(loan.right, st.pages[right], loan.target, st.pages[c], loan.parent, node,
                  height[c], 1, Len(st.pages[c].children) + 1)
    BY <1>5, <1>7, <1>12, <2>1, <2>3, <2>4, <2>5, LendFromRightIs
  <2>7. Lends(next.store, st, n, height, p, idx + 1, idx, right, c) /\ next.id = c
    <3>1. /\ next.store = WritePage(WritePage(WritePage(st, c, loan.target), right, loan.right),
                                    p, loan.parent)
          /\ next.id = c
      BY <2>2
    <3>2. idx + 1 \in 1..Len(st.pages[p].children) /\ right = st.pages[p].children[idx + 1]
      BY <2>3 DEF IsChildAt
    <3> QED
      BY <1>2, <1>6, <1>12, <2>3, <2>6, <3>1, <3>2 DEF Lends
  <2> QED
    BY <2>7, LendGoesOn
<1>13. CASE idx > 1 /\ ~CanLendKeys(st.pages[left]) /\
            ~(idx < Len(node.children) /\ CanLendKeys(st.pages[right]))
  <2>1. PICK w : w = DeletePage(WritePage(WritePage(st, left,
                                     Merged(node, idx - 1, st.pages[left], st.pages[c])),
                                          p, ParentOfMerged(node, idx - 1)),
                                c)
    OBVIOUS
  <2>2. idx \in Nat /\ (idx - 1) + 1 = idx
    BY <1>6
  <2>3. next = [id |-> left, store |-> w]
    BY <1>2, <1>3, <1>6, <1>9, <1>10, <1>13, <2>1, <2>2 DEF Refill, Page
  <2>4. IsChildAt(left, st, p, idx - 1)
    BY <1>2, <1>5, <1>6, <1>9, <1>13 DEF IsChildAt
  <2>5. height[p] = height[left] + 1 /\ height[left] \in Nat
    BY <2>4, ChildIs
  <2>6. Merges(w, st, p, idx - 1, left, c)
    <3>1. /\ idx - 1 \in Nat /\ idx - 1 >= 1 /\ idx - 1 < Len(st.pages[p].children)
          /\ left = st.pages[p].children[idx - 1] /\ c = st.pages[p].children[(idx - 1) + 1]
      <4>1. idx - 1 \in Nat /\ idx - 1 >= 1 /\ idx - 1 < Len(node.children)
        BY <1>5, <1>6, <1>13
      <4> QED
        BY <1>2, <1>6, <1>9, <2>2, <4>1
    <3> QED
      BY <1>2, <1>7, <1>8, <1>13, <2>1, <3>1 DEF Merges
  <2>7. next.store = w /\ next.id = left
    BY <2>3
  <2>8. GoesOn(next, n, st.root, height, height[left])
    BY <2>6, <2>7, MergeGoesOn
  <2>9. height[left] = height[c]
    BY <1>7, <2>5
  <2> QED
    BY <2>8, <2>9
<1>14. CASE ~(idx > 1) /\ idx < Len(node.children) /\ ~CanLendKeys(st.pages[right])
  <2>1. PICK w : w = DeletePage(WritePage(WritePage(st, c,
                                     Merged(node, idx, st.pages[c], st.pages[right])),
                                          p, ParentOfMerged(node, idx)),
                                right)
    OBVIOUS
  <2>2. next = [id |-> c, store |-> w]
    BY <1>2, <1>3, <1>6, <1>9, <1>10, <1>14, <2>1 DEF Refill, Page
  <2>3. Merges(w, st, p, idx, c, right)
    <3>1. /\ idx \in Nat /\ idx >= 1 /\ idx < Len(st.pages[p].children)
          /\ c = st.pages[p].children[idx] /\ right = st.pages[p].children[idx + 1]
      BY <1>2, <1>6, <1>10, <1>14
    <3> QED
      BY <1>2, <1>7, <1>8, <1>14, <2>1, <3>1 DEF Merges
  <2>4. next.store = w /\ next.id = c
    BY <2>2
  <2> QED
    BY <2>3, <2>4, MergeGoesOn
<1>15. CASE ~(idx > 1) /\ ~(idx < Len(node.children))
  <2>1. next = [id |-> c, store |-> st]
    BY <1>2, <1>3, <1>6, <1>9, <1>10, <1>15 DEF Refill, Page
  <2>2. Len(node.keys) = 0 /\ height[p] # 0
    <3>1. height[p] # 0
      BY <1>7
    <3>2. PICK len \in Nat : len = Len(node.children)
      BY <1>5
    <3>3. idx \in 1..len /\ ~(idx > 1) /\ ~(idx < len)
      BY <1>6, <1>15, <3>2
    <3>4. len = 1
      BY ONLY <3>3, len \in Nat
    <3> QED
      BY <1>5, <3>1, <3>2, <3>4
  <2>3. MinKeys = 1
    <3>1. MinKeys \in Nat /\ MinKeys >= 1
      BY DegreeIs
    <3> QED
      BY <1>2, <2>2, <3>1 DEF CanSpare
  <2>4. next.store = st /\ next.id = c
    BY <2>1
  <2>5. CanSpare(st.pages, st.root, height, c)
    BY <2>3 DEF CanSpare
  <2> QED
    BY <1>7, <2>4, <2>5 DEF GoesOn
<1> QED
  BY <1>11, <1>12, <1>13, <1>14, <1>15

\* Where a delete is after k steps down a tree of height top: at a node that can do
\* without a key.
Deleting(at, top, k) ==
    \E n, tree, height, above, place :
        /\ Shape(at.store, n, tree, height, above, place)
        /\ height[at.store.root] = top
        /\ at.id \in tree /\ height[at.id] = IF k < top THEN top - k ELSE 0
        /\ CanSpare(at.store.pages, at.store.root, height, at.id)

LEMMA DeleteStepIs ==
    ASSUME NEW at, NEW top \in Nat, NEW k \in Nat, NEW key, Deleting(at, top, k)
    PROVE  Deleting(DeleteStep(at, key), top, k + 1)
<1>1. PICK n, tree, height, above, place :
        /\ Shape(at.store, n, tree, height, above, place)
        /\ height[at.store.root] = top
        /\ at.id \in tree /\ height[at.id] = IF k < top THEN top - k ELSE 0
        /\ CanSpare(at.store.pages, at.store.root, height, at.id)
  BY DEF Deleting
<1>2. PICK st : st = at.store
  OBVIOUS
<1>3. PICK p : p = at.id
  OBVIOUS
<1>4. /\ Shape(st, n, tree, height, above, place) /\ height[st.root] = top
      /\ p \in tree /\ height[p] = IF k < top THEN top - k ELSE 0
      /\ CanSpare(st.pages, st.root, height, p)
  BY <1>1, <1>2, <1>3
<1>5. IsTree(st.pages, 1..n, st.root, tree, height, above, place) /\ p \in 1..n
  BY <1>4 DEF Shape, IsTree
<1>6. st.pages[p] \in Nodes(1..n) /\ height[p] \in Nat /\ Fits(st.pages[p], height[p])
  <2>1. PICK ids : ids = 1..n
    OBVIOUS
  <2>2. IsTree(st.pages, ids, st.root, tree, height, above, place) /\ p \in ids
    BY <1>5, <2>1
  <2>3. st.pages[p] \in Nodes(ids) /\ height[p] \in Nat /\ Fits(st.pages[p], height[p])
    BY <2>2, TreeNodeIs
  <2> QED
    BY <2>1, <2>3
<1>7. PICK next : next = DeleteStep(at, key)
  OBVIOUS
<1>8. SUFFICES Deleting(next, top, k + 1)
  BY <1>7
<1>9. CASE height[p] = 0
  <2>1. IsLeaf(st.pages[p])
    BY <1>6, <1>9, LeafIs
  <2>2. next = at
    BY <1>2, <1>3, <1>7, <2>1 DEF DeleteStep, Page
  <2>3. height[p] = IF k + 1 < top THEN top - (k + 1) ELSE 0
    BY <1>4, <1>9
  <2> QED
    BY <1>2, <1>3, <1>4, <2>2, <2>3 DEF Deleting
<1>10. CASE height[p] # 0
  <2>1. ~IsLeaf(st.pages[p])
    BY <1>6, <1>10, LeafIs
  <2>2. PICK idx : idx = ChildIndex(st.pages[p], key)
    OBVIOUS
  <2>3. PICK c : c = st.pages[p].children[idx]
    OBVIOUS
  <2>4. IsChildAt(c, st, p, idx)
    <3>1. idx \in 1..Len(st.pages[p].children)
      BY <1>6, <1>10, <2>2, ChildIndexIs
    <3> QED
      BY <2>3, <3>1 DEF IsChildAt
  <2>5. /\ c \in tree /\ c # st.root /\ height[p] = height[c] + 1 /\ height[c] \in Nat
        /\ Len(st.pages[c].keys) \in Nat
    BY <1>4, <2>4, ChildIs
  <2>6. height[c] = IF k + 1 < top THEN top - (k + 1) ELSE 0
    <3>1. height[p] = IF k < top THEN top - k ELSE 0
      BY <1>4
    <3> QED
      BY <1>10, <2>5, <3>1
  <2>7. GoesOn(next, n, st.root, height, height[c])
    <3>1. CASE IsLessThanMinimal(st.pages[c])
      <4>1. next = Refill(st, p, idx)
        BY <1>2, <1>3, <1>7, <2>1, <2>2, <2>3, <3>1 DEF DeleteStep, Page
      <4> QED
        BY <1>4, <2>4, <3>1, <4>1, RefillIs
    <3>2. CASE ~IsLessThanMinimal(st.pages[c])
      <4>1. next = [store |-> st, id |-> c]
        BY <1>2, <1>3, <1>7, <2>1, <2>2, <2>3, <3>2 DEF DeleteStep, Page
      <4>2. next.store = st /\ next.id = c
        BY <4>1
      <4>3. CanSpare(st.pages, st.root, height, c)
        <5>1. Len(st.pages[c].keys) >= MinKeys
          BY <2>5, <3>2, DegreeIs DEF IsLessThanMinimal
        <5> QED
          BY <2>5, <5>1 DEF CanSpare
      <4> QED
        BY <1>4, <2>5, <4>2, <4>3 DEF GoesOn
    <3> QED
      BY <3>1, <3>2
  <2>8. PICK tree2, above2, place2 :
          /\ Shape(next.store, n, tree2, height, above2, place2) /\ next.store.root = st.root
          /\ next.id \in tree2 /\ height[next.id] = height[c]
          /\ CanSpare(next.store.pages, st.root, height, next.id)
    BY <2>7 DEF GoesOn
  <2>9. /\ height[next.store.root] = top
        /\ height[next.id] = IF k + 1 < top THEN top - (k + 1) ELSE 0
        /\ CanSpare(next.store.pages, next.store.root, height, next.id)
    BY <1>4, <2>6, <2>8
  <2> QED
    BY <2>8, <2>9 DEF Deleting
<1> QED
  BY <1>9, <1>10

\* A delete goes down one level with each step.
LEMMA DeletePathIs ==
    ASSUME NEW st, NEW key, Len(st.pages) \in Nat
    PROVE  \E at : /\ DeletePath(st, key) = at
                   /\ at[0] = [store |-> st, id |-> st.root]
                   /\ \A n \in 1..Len(st.pages) : at[n] = DeleteStep(at[n - 1], key)
<1> DEFINE N          == Len(st.pages)
           Body(f, m) == [n \in 0..m |->
                            IF n = 0 THEN [store |-> st, id |-> st.root]
                            ELSE DeleteStep(f[n - 1], key)]
           T          == {m \in Nat : \E f : f = Body(f, m)}
           at         == CHOOSE f : f = Body(f, N)
<1>1. 0 \in T
  <2>1. PICK f : f = [n \in 0..0 |-> [store |-> st, id |-> st.root]]
    OBVIOUS
  <2>2. f = Body(f, 0)
    BY <2>1
  <2> QED
    BY <2>2
<1>2. ASSUME NEW m \in Nat, m \in T PROVE m + 1 \in T
  <2>1. PICK f : f = Body(f, m)
    BY <1>2
  <2>2. PICK g : g = Body(f, m + 1)
    OBVIOUS
  <2>3. \A n \in 0..m : g[n] = f[n]
    BY <2>1, <2>2
  <2>4. \A n \in 0..m + 1 : n # 0 => n - 1 \in 0..m
    OBVIOUS
  <2>5. g = Body(g, m + 1)
    BY <2>2, <2>3, <2>4
  <2> QED
    BY <2>5
<1>3. \E f : f = Body(f, N)
  <2>1. Nat \subseteq T
    <3> HIDE DEF T
    <3> QED
      BY <1>1, <1>2, SetInduction
  <2> QED
    BY <2>1
<1>4. at = Body(at, N)
  BY <1>3
<1>5. DeletePath(st, key) = at
  BY DEF DeletePath
<1> HIDE DEF at
<1>6. at[0] = [store |-> st, id |-> st.root]
  BY <1>4
<1>7. \A n \in 1..N : at[n] = DeleteStep(at[n - 1], key)
  BY <1>4
<1> QED
  BY <1>5, <1>6, <1>7

LEMMA DeletePathEnds ==
    ASSUME NEW st, NEW key, NEW top \in Nat, Len(st.pages) \in Nat, NEW at,
           DeletePath(st, key) = at,
           Deleting([store |-> st, id |-> st.root], top, 0)
    PROVE  Deleting(at[Len(st.pages)], top, Len(st.pages))
<1> DEFINE T == {k \in Nat : k <= Len(st.pages) => Deleting(at[k], top, k)}
<1>1. /\ at[0] = [store |-> st, id |-> st.root]
      /\ \A n \in 1..Len(st.pages) : at[n] = DeleteStep(at[n - 1], key)
  BY DeletePathIs
<1>2. 0 \in T
  BY <1>1
<1>3. ASSUME NEW k \in Nat, k \in T PROVE k + 1 \in T
  <2>1. SUFFICES ASSUME k + 1 <= Len(st.pages) PROVE Deleting(at[k + 1], top, k + 1)
    OBVIOUS
  <2>2. k <= Len(st.pages) /\ k + 1 \in 1..Len(st.pages) /\ (k + 1) - 1 = k
    BY <2>1
  <2>3. Deleting(at[k], top, k)
    BY <1>3, <2>2
  <2>4. at[k + 1] = DeleteStep(at[k], key)
    BY <1>1, <2>2
  <2> QED
    BY <2>3, <2>4, DeleteStepIs
<1>4. Nat \subseteq T
  <2> HIDE DEF T
  <2> QED
    BY <1>2, <1>3, SetInduction
<1> QED
  BY <1>4

HasShape(st) == \E n, tree, height, above, place : Shape(st, n, tree, height, above, place)

LEMMA DeleteAtLeafIs ==
    ASSUME NEW at, NEW top \in Nat, NEW k \in Nat, k >= top, NEW key, Deleting(at, top, k)
    PROVE  HasShape(DeleteAtLeaf(at, key).store)
<1>1. PICK n, tree, height, above, place :
        /\ Shape(at.store, n, tree, height, above, place)
        /\ height[at.store.root] = top
        /\ at.id \in tree /\ height[at.id] = IF k < top THEN top - k ELSE 0
        /\ CanSpare(at.store.pages, at.store.root, height, at.id)
  BY DEF Deleting
<1>2. PICK st : st = at.store
  OBVIOUS
<1>3. PICK p : p = at.id
  OBVIOUS
<1>4. /\ Shape(st, n, tree, height, above, place)
      /\ p \in tree /\ height[p] = 0 /\ CanSpare(st.pages, st.root, height, p)
  BY <1>1, <1>2, <1>3
<1>5. /\ n \in Nat /\ st \in Stores(n) /\ height[st.root] < n
      /\ IsTree(st.pages, 1..n, st.root, tree, height, above, place)
      /\ st.first_deleted_page \notin tree
  BY <1>4 DEF Shape
<1>6. /\ tree \subseteq 1..n /\ st.root \in tree
      /\ p \in 1..n /\ \A id \in tree \ {st.root} : Len(st.pages[id].keys) >= MinKeys - 1
      /\ \A id \in 1..n : Fits(st.pages[id], height[id])
  BY <1>4, <1>5 DEF IsTree
<1>7. st.pages[p] \in Nodes(1..n) /\ Fits(st.pages[p], 0) /\ Len(st.pages[p].keys) \in Nat
  <2>1. st.pages[p] \in Nodes(1..n) /\ Fits(st.pages[p], 0)
    BY <1>4, <1>5, <1>6 DEF Stores
  <2> QED
    BY <2>1, NodeIs
<1>8. CASE key \notin KeySet(st.pages[p])
  <2>1. DeleteAtLeaf(at, key).store = st
    BY <1>2, <1>3, <1>8 DEF DeleteAtLeaf, Page
  <2> QED
    BY <1>4, <2>1 DEF HasShape
<1>9. CASE key \in KeySet(st.pages[p])
  <2>1. PICK leaf : leaf = WithoutKey(st.pages[p], key)
    OBVIOUS
  <2>2. /\ leaf \in Nodes(1..n) /\ Fits(leaf, 0)
        /\ Len(leaf.keys) = Len(st.pages[p].keys) - 1
    BY <1>7, <1>9, <2>1, WithoutKeyIs
  <2>3. PICK w : w = WritePage(st, p, leaf)
    OBVIOUS
  <2>4. DeleteAtLeaf(at, key).store = w
    BY <1>2, <1>3, <1>9, <2>1, <2>3 DEF DeleteAtLeaf, Page
  <2>5. /\ w \in Stores(n) /\ w.root = st.root
        /\ w.first_deleted_page = st.first_deleted_page
        /\ w.pages[p] = leaf
        /\ \A x \in 1..n \ {p} : w.pages[x] = st.pages[x]
    <3>1. IsWrite(w, n, st, p, leaf)
      BY <1>5, <1>6, <2>2, <2>3 DEF IsWrite
    <3> QED
      BY <3>1, WritePageIs
  <2>6. leaf.children = st.pages[p].children
    BY <2>1 DEF WithoutKey
  <2>7. Len(leaf.keys) \in Nat
    BY <2>2, NodeIs
  <2>8. IsTree(w.pages, 1..n, st.root, tree, height, above, place)
    <3>1. PICK ids : ids = 1..n
      OBVIOUS
    <3>2. w.pages \in [ids -> Nodes(ids)]
      BY <2>5, <3>1 DEF Stores
    <3>3. \A id \in ids : /\ Fits(w.pages[id], height[id])
                          /\ w.pages[id].children = st.pages[id].children
      BY <1>4, <1>6, <2>2, <2>5, <2>6, <3>1
    <3>4. \A id \in tree \ {st.root} : Len(w.pages[id].keys) >= MinKeys - 1
      <4>1. p # st.root => Len(leaf.keys) >= MinKeys - 1
        <5>1. MinKeys \in Nat
          BY DegreeIs
        <5>2. p # st.root => MinKeys = 1 \/ Len(st.pages[p].keys) >= MinKeys
          BY <1>4 DEF CanSpare
        <5> QED
          BY <1>7, <2>2, <2>7, <5>1, <5>2
      <4>2. \A id \in tree \ {st.root} : id # p => w.pages[id] = st.pages[id]
        BY <1>6, <2>5
      <4> QED
        BY <1>6, <2>5, <4>1, <4>2
    <3> QED
      BY <1>5, <3>1, <3>2, <3>3, <3>4, KeysKeepTree
  <2>9. Shape(w, n, tree, height, above, place)
    BY <1>5, <2>5, <2>8 DEF Shape
  <2> QED
    BY <2>4, <2>9 DEF HasShape
<1> QED
  BY <1>8, <1>9

LEMMA CollapseRootIs ==
    ASSUME NEW st, HasShape(st)
    PROVE  IsTreeStore(CollapseRoot(st))
<1>1. PICK n, tree, height, above, place : Shape(st, n, tree, height, above, place)
  BY DEF HasShape
<1>2. /\ n \in Nat /\ st \in Stores(n) /\ height[st.root] < n
      /\ IsTree(st.pages, 1..n, st.root, tree, height, above, place)
      /\ st.first_deleted_page \notin tree
  BY <1>1 DEF Shape
<1>3. /\ tree \subseteq 1..n /\ st.root \in tree /\ st.root \in 1..n
      /\ height \in [1..n -> Nat]
  BY <1>2 DEF IsTree
<1>4. PICK root : root = st.root
  OBVIOUS
<1>5. /\ st.pages[root] \in Nodes(1..n) /\ Fits(st.pages[root], height[root])
      /\ height[root] \in Nat
  BY <1>2, <1>3, <1>4 DEF IsTree
<1>6. CASE ~(st.pages[root].keys = << >> /\ ~IsLeaf(st.pages[root]))
  <2>1. CollapseRoot(st) = st
    BY <1>4, <1>6 DEF CollapseRoot, Page
  <2>2. CanSpare(st.pages, st.root, height, st.root)
    <3>1. CASE IsLeaf(st.pages[root])
      <4>1. height[root] = 0
        BY <1>5, <3>1, LeafIs
      <4> QED
        BY <1>4, <4>1 DEF CanSpare
    <3>2. CASE st.pages[root].keys # << >>
      <4>1. Len(st.pages[root].keys) >= 1
        <5>1. PICK keys \in Seq(AllKeys) : keys = st.pages[root].keys
          BY <1>5, NodeIs
        <5>2. Len(keys) \in Nat /\ (Len(keys) = 0 => keys = << >>)
          BY EmptySeq, LenProperties
        <5>3. Len(keys) >= 1
          BY <3>2, <5>1, <5>2
        <5> QED
          BY <5>1, <5>3
      <4> QED
        BY <1>4, <4>1 DEF CanSpare
    <3> QED
      BY <1>6, <3>1, <3>2
  <2> QED
    BY <1>1, <2>1, <2>2 DEF IsTreeStore
<1>7. CASE st.pages[root].keys = << >> /\ ~IsLeaf(st.pages[root])
  <2>1. PICK only : only = st.pages[root].children[1]
    OBVIOUS
  <2>2. PICK ids : ids = 1..n
    OBVIOUS
  <2>3. /\ IsTree(st.pages, ids, only, tree \ {root}, height, above, place)
        /\ only \in tree /\ only # root
        /\ height[root] = height[only] + 1
        /\ Len(st.pages[only].keys) >= MinKeys - 1
    <3>1. IsTree(st.pages, ids, root, tree, height, above, place)
      BY <1>2, <1>4, <2>2
    <3>2. IsOnlyChild(only, st.pages, root)
      BY <1>7, <2>1 DEF IsOnlyChild
    <3>3. TakesOver(only, st.pages, ids, root, tree, height, above, place)
      BY <3>1, <3>2, OnlyChildIsRoot
    <3> QED
      BY <3>3 DEF TakesOver
  <2>4. PICK w : w = [DeletePage(st, root) EXCEPT !.root = only]
    OBVIOUS
  <2>5. CollapseRoot(st) = w
    BY <1>4, <1>7, <2>1, <2>4 DEF CollapseRoot, Page
  <2>6. /\ w \in Stores(n) /\ w.root = only /\ w.first_deleted_page = root
        /\ w.pages = st.pages
    <3>1. root \in 1..n /\ only \in 1..n
      BY <1>3, <1>4, <2>3
    <3> QED
      BY <1>2, <2>4, <3>1 DEF Stores, DeletePage
  <2>7. height[only] < n
    <3>1. height[only] \in Nat
      BY <1>3, <2>3
    <3> QED
      BY <1>2, <1>4, <2>3, <3>1
  <2>8. Shape(w, n, tree \ {root}, height, above, place)
    BY <1>2, <2>2, <2>3, <2>6, <2>7 DEF Shape
  <2>9. CanSpare(w.pages, w.root, height, w.root)
    <3>1. MinKeys \in Nat /\ MinKeys >= 1
      BY DegreeIs
    <3>2. Len(st.pages[only].keys) \in Nat
      <4>1. st.pages[only] \in Nodes(1..n)
        BY <1>2, <1>3, <2>3 DEF Stores
      <4> QED
        BY <4>1, NodeIs
    <3>3. MinKeys = 1 \/ Len(st.pages[only].keys) >= 1
      BY <2>3, <3>1, <3>2
    <3> QED
      BY <2>6, <3>3 DEF CanSpare
  <2> QED
    BY <2>5, <2>8, <2>9 DEF IsTreeStore
<1> QED
  BY <1>6, <1>7

LEMMA DeleteKeyIs ==
    ASSUME NEW st, IsStore(st), NEW key
    PROVE  IsTreeStore(DeleteKey(st, key).store)
<1>1. PICK opened : opened = WithRoot(st)
  OBVIOUS
<1>2. IsTreeStore(opened)
  BY <1>1, WithRootIs
<1>3. PICK n, tree, height, above, place :
        /\ Shape(opened, n, tree, height, above, place)
        /\ CanSpare(opened.pages, opened.root, height, opened.root)
  BY <1>2 DEF IsTreeStore
<1>4. PICK top : top = height[opened.root]
  OBVIOUS
<1>5. /\ n \in Nat /\ opened \in Stores(n) /\ top \in Nat /\ top < n /\ opened.root \in tree
      /\ Len(opened.pages) = n
  BY <1>3, <1>4, ShapeIs
<1>6. PICK start : start = [store |-> opened, id |-> opened.root]
  OBVIOUS
<1>7. Deleting(start, top, 0)
  <2>1. start.store = opened /\ start.id = opened.root
    BY <1>6
  <2>2. height[opened.root] = IF 0 < top THEN top - 0 ELSE 0
    BY <1>4, <1>5
  <2> QED
    BY <1>3, <1>4, <1>5, <2>1, <2>2 DEF Deleting
<1>8. PICK at : at = DeletePath(opened, key)
  OBVIOUS
<1>9. Deleting(at[n], top, n)
  <2>1. Len(opened.pages) \in Nat
    BY <1>5
  <2>2. Deleting(at[Len(opened.pages)], top, Len(opened.pages))
    BY <1>5, <1>6, <1>7, <1>8, <2>1, DeletePathEnds
  <2> QED
    BY <1>5, <2>2
<1>10. PICK done : done = DeleteAtLeaf(at[n], key)
  OBVIOUS
<1>11. DeleteKey(st, key) = [store |-> CollapseRoot(done.store), reply |-> done.reply]
  BY <1>1, <1>5, <1>8, <1>10 DEF DeleteKey
<1>12. HasShape(done.store)
  <2>1. n >= top
    BY <1>5
  <2> QED
    BY <1>5, <1>9, <1>10, <2>1, DeleteAtLeafIs
<1> QED
  BY <1>11, <1>12, CollapseRootIs

---------------------------------------------------------------------------
(* The store between two calls. *)

\* The pages n links below a page, level by level.
LEMMA LevelsAre ==
    ASSUME NEW st, NEW id, Len(st.pages) \in Nat
    PROVE  \E level : /\ Levels(st, id) = level
                      /\ DOMAIN level = 0..Len(st.pages)
                      /\ level[0] = {id}
                      /\ \A n \in 1..Len(st.pages) :
                            level[n] = UNION {Children(st, x) : x \in level[n - 1]}
<1> DEFINE N          == Len(st.pages)
           Body(f, m) == [n \in 0..m |->
                            IF n = 0 THEN {id} ELSE UNION {Children(st, x) : x \in f[n - 1]}]
           T          == {m \in Nat : \E f : f = Body(f, m)}
           level      == CHOOSE f : f = Body(f, N)
<1>1. 0 \in T
  <2>1. PICK f : f = [n \in 0..0 |-> {id}]
    OBVIOUS
  <2>2. f = Body(f, 0)
    BY <2>1
  <2> QED
    BY <2>2
<1>2. ASSUME NEW m \in Nat, m \in T PROVE m + 1 \in T
  <2>1. PICK f : f = Body(f, m)
    BY <1>2
  <2>2. PICK g : g = Body(f, m + 1)
    OBVIOUS
  <2>3. \A n \in 0..m : g[n] = f[n]
    <3>1. ASSUME NEW n \in 0..m PROVE g[n] = f[n]
      <4>1. PICK x : x = IF n = 0 THEN {id} ELSE UNION {Children(st, y) : y \in f[n - 1]}
        OBVIOUS
      <4>2. f[n] = x
        BY <2>1, <4>1
      <4>3. n \in 0..m + 1
        OBVIOUS
      <4>4. g[n] = x
        BY <2>2, <4>1, <4>3
      <4> QED
        BY <4>2, <4>4
    <3> QED
      BY <3>1
  <2>4. \A n \in 0..m + 1 : n # 0 => n - 1 \in 0..m
    OBVIOUS
  <2>5. g = Body(g, m + 1)
    BY <2>2, <2>3, <2>4
  <2> QED
    BY <2>5
<1>3. \E f : f = Body(f, N)
  <2>1. Nat \subseteq T
    <3> HIDE DEF T
    <3> QED
      BY <1>1, <1>2, SetInduction
  <2> QED
    BY <2>1
<1>4. level = Body(level, N)
  BY <1>3
<1>5. Levels(st, id) = level
  BY DEF Levels
<1> HIDE DEF level
<1>6. DOMAIN level = 0..N
  BY <1>4
<1>7. level[0] = {id}
  BY <1>4
<1>8. \A n \in 1..N : level[n] = UNION {Children(st, x) : x \in level[n - 1]}
  BY <1>4
<1> QED
  BY <1>5, <1>6, <1>7, <1>8

\* All pages of a level are of the tree and equally high.
LEMMA LevelsAreEven ==
    ASSUME NEW st, NEW n, NEW tree, NEW height, NEW above, NEW place,
           Shape(st, n, tree, height, above, place)
    PROVE  /\ \A k \in DOMAIN Levels(st, st.root) : \A id \in Levels(st, st.root)[k] :
                 id \in tree /\ height[id] + k = height[st.root]
           /\ PagesUnder(st, st.root) \subseteq tree
<1>1. /\ n \in Nat /\ st \in Stores(n) /\ IsTree(st.pages, 1..n, st.root, tree, height, above, place)
      /\ tree \subseteq 1..n /\ st.root \in tree /\ height \in [1..n -> Nat]
      /\ st.pages \in [1..n -> Nodes(1..n)]
  BY DEF Shape, IsTree
<1>2. Len(st.pages) = n
  BY <1>1, PagesAreSequence
<1>3. PICK level : /\ Levels(st, st.root) = level
                   /\ DOMAIN level = 0..n
                   /\ level[0] = {st.root}
                   /\ \A k \in 1..n : level[k] = UNION {Children(st, x) : x \in level[k - 1]}
  <2>1. Len(st.pages) \in Nat
    BY <1>1, <1>2
  <2> QED
    BY <1>2, <2>1, LevelsAre
<1> DEFINE Even(k) == \A id \in level[k] : id \in tree /\ height[id] + k = height[st.root]
           T       == {k \in Nat : k <= n => Even(k)}
<1>4. 0 \in T
  <2>1. height[st.root] \in Nat
    BY <1>1
  <2>2. height[st.root] + 0 = height[st.root]
    BY <2>1
  <2>3. Even(0)
    BY <1>1, <1>3, <2>2
  <2> QED
    BY <2>3
<1>5. ASSUME NEW k \in Nat, k \in T PROVE k + 1 \in T
  <2>1. SUFFICES ASSUME k + 1 <= n, NEW id \in level[k + 1]
                 PROVE  id \in tree /\ height[id] + (k + 1) = height[st.root]
    OBVIOUS
  <2>2. k <= n /\ k + 1 \in 1..n /\ (k + 1) - 1 = k
    BY <1>1, <2>1
  <2>3. level[k + 1] = UNION {Children(st, x) : x \in level[k]}
    BY <1>3, <2>2
  <2>4. PICK x \in level[k] : id \in Children(st, x)
    BY <2>1, <2>3
  <2>5. x \in tree /\ height[x] + k = height[st.root]
    BY <1>5, <2>2
  <2>6. DOMAIN st.pages[x].children = 1..Len(st.pages[x].children)
    <3>1. st.pages[x] \in Nodes(1..n)
      BY <1>1, <2>5
    <3> QED
      BY <3>1, NodeIs
  <2>7. PICK i \in 1..Len(st.pages[x].children) : id = st.pages[x].children[i]
    BY <2>4, <2>6 DEF Children, ToSet, Page
  <2>8. Leads(id, x, i, st.root, tree, height, above, place)
    BY <1>1, <2>5, <2>7 DEF IsTree
  <2>9. id \in tree /\ height[x] = height[id] + 1 /\ height[id] \in Nat
    BY <1>1, <2>8 DEF Leads
  <2> QED
    BY <2>5, <2>9
<1>6. \A k \in 0..n : Even(k)
  <2>1. Nat \subseteq T
    <3> HIDE DEF T
    <3> QED
      BY <1>4, <1>5, SetInduction
  <2> QED
    BY <1>1, <2>1
<1>7. PagesUnder(st, st.root) = UNION {level[k] : k \in 0..n}
  BY <1>3 DEF PagesUnder
<1> QED
  BY <1>3, <1>6, <1>7

LEMMA TypeIs == ASSUME IsStore(store) PROVE TypeOK
<1>1. CASE store = EmptyStore
  BY <1>1 DEF TypeOK, PageIds, EmptyStore
<1>2. CASE IsTreeStore(store)
  <2>1. PICK n, tree, height, above, place : Shape(store, n, tree, height, above, place)
    BY <1>2 DEF IsTreeStore
  <2>2. /\ store \in Stores(n) /\ store.pages \in [1..n -> Nodes(1..n)]
        /\ store.root \in (1..n) \cup {NoPage}
        /\ store.first_deleted_page \in (1..n) \cup {NoPage}
    BY <2>1 DEF Shape, Stores
  <2>3. PageIds = 1..n
    BY <2>2 DEF PageIds
  <2>4. \A id \in 1..n :
           /\ store.pages[id].keys \in Seq(AllKeys)
           /\ store.pages[id].children \in Seq(1..n)
           /\ store.pages[id].next_leaf \in (1..n) \cup {NoPage}
           /\ store.pages[id].next_deleted_page \in (1..n) \cup {NoPage}
    BY <2>2 DEF Nodes
  <2> QED
    BY <2>2, <2>3, <2>4 DEF TypeOK, Page
<1> QED
  BY <1>1, <1>2 DEF IsStore

LEMMA WellFormedIs == ASSUME IsStore(store) PROVE NodesWellFormed
<1>1. CASE store = EmptyStore
  <2>1. TreePages = {}
    BY <1>1 DEF TreePages, EmptyStore
  <2> QED
    BY <2>1 DEF NodesWellFormed
<1>2. CASE IsTreeStore(store)
  <2>1. PICK n, tree, height, above, place : Shape(store, n, tree, height, above, place)
    BY <1>2 DEF IsTreeStore
  <2>2. IsTree(store.pages, 1..n, store.root, tree, height, above, place)
    BY <2>1 DEF Shape
  <2>3. TreePages \subseteq tree
    BY <1>2, <2>1, LevelsAreEven, TreeStoreIs DEF TreePages
  <2>4. ASSUME NEW id \in TreePages
        PROVE  /\ Len(store.pages[id].keys) <= MaxKeys
               /\ IF IsLeaf(store.pages[id])
                  THEN Len(store.pages[id].values) = Len(store.pages[id].keys)
                  ELSE /\ store.pages[id].values = << >>
                       /\ Len(store.pages[id].children) = Len(store.pages[id].keys) + 1
               /\ id # store.root => Len(store.pages[id].keys) >= MinKeys - 1
    <3>1. /\ id \in tree /\ store.pages[id] \in Nodes(1..n) /\ height[id] \in Nat
          /\ Fits(store.pages[id], height[id])
          /\ id # store.root => Len(store.pages[id].keys) >= MinKeys - 1
      BY <2>2, <2>3 DEF IsTree
    <3>2. IsLeaf(store.pages[id]) <=> height[id] = 0
      BY <3>1, LeafIs
    <3> QED
      BY <3>1, <3>2 DEF Fits
  <2> QED
    BY <2>4 DEF NodesWellFormed, Page
<1> QED
  BY <1>1, <1>2 DEF IsStore

LEMMA BalancedIs == ASSUME IsStore(store) PROVE TreeIsBalanced
<1>1. CASE store = EmptyStore
  BY <1>1 DEF TreeIsBalanced, EmptyStore
<1>2. CASE IsTreeStore(store)
  <2>1. PICK n, tree, height, above, place : Shape(store, n, tree, height, above, place)
    BY <1>2 DEF IsTreeStore
  <2>2. /\ IsTree(store.pages, 1..n, store.root, tree, height, above, place)
        /\ store.first_deleted_page \notin tree
        /\ store.pages \in [1..n -> Nodes(1..n)]
    BY <2>1 DEF Shape, IsTree
  <2>3. TreePages \subseteq tree
    BY <1>2, <2>1, LevelsAreEven, TreeStoreIs DEF TreePages
  <2>4. \A id \in tree : /\ height[id] \in Nat /\ id \in 1..n
                         /\ IsLeaf(store.pages[id]) <=> height[id] = 0
    <3>1. ASSUME NEW id \in tree
          PROVE  /\ height[id] \in Nat /\ id \in 1..n
                 /\ IsLeaf(store.pages[id]) <=> height[id] = 0
      <4>1. /\ id \in 1..n /\ height[id] \in Nat /\ store.pages[id] \in Nodes(1..n)
            /\ Fits(store.pages[id], height[id])
        BY <2>2 DEF IsTree
      <4> QED
        BY <4>1, LeafIs
    <3> QED
      BY <3>1
  <2>5. ASSUME NEW k \in DOMAIN Levels(store, store.root),
               NEW id \in Levels(store, store.root)[k],
               NEW other \in Levels(store, store.root)[k]
        PROVE  IsLeaf(store.pages[id]) => IsLeaf(store.pages[other])
    <3>1. /\ id \in tree /\ height[id] + k = height[store.root]
          /\ other \in tree /\ height[other] + k = height[store.root]
      BY <2>1, LevelsAreEven
    <3>2. k \in Nat
      <4>1. Len(store.pages) \in Nat
        BY <1>2, TreeStoreIs
      <4>2. DOMAIN Levels(store, store.root) = 0..Len(store.pages)
        BY <4>1, LevelsAre
      <4> QED
        BY <4>1, <4>2
    <3>3. height[id] = height[other]
      BY <2>4, <3>1, <3>2
    <3> QED
      BY <2>4, <3>1, <3>3
  <2> DEFINE links == UNION {{<<id, i>> : i \in DOMAIN store.pages[id].children} :
                               id \in TreePages}
             to(l) == store.pages[l[1]].children[l[2]]
  <2>6. ASSUME NEW l \in links
        PROVE  /\ l = <<l[1], l[2]>> /\ to(l) # store.root
               /\ above[to(l)] = l[1] /\ place[to(l)] = l[2]
    <3>1. PICK id \in TreePages : \E i \in DOMAIN store.pages[id].children : l = <<id, i>>
      BY <2>6
    <3>2. PICK i \in DOMAIN store.pages[id].children : l = <<id, i>>
      BY <3>1
    <3>3. id \in tree /\ i \in 1..Len(store.pages[id].children)
      <4>1. id \in tree /\ store.pages[id] \in Nodes(1..n)
        BY <2>2, <2>3, <2>4
      <4> QED
        BY <3>2, <4>1, NodeIs
    <3>4. Leads(store.pages[id].children[i], id, i, store.root, tree, height, above, place)
      BY <2>2, <3>3 DEF IsTree
    <3>5. l[1] = id /\ l[2] = i
      BY <3>2
    <3> QED
      BY <3>2, <3>4, <3>5 DEF Leads
  <2>7. /\ \A l, m \in links : to(l) = to(m) => l = m
        /\ \A l \in links : to(l) # store.root
    <3> HIDE DEF links, to
    <3>1. \A l \in links : /\ l = <<l[1], l[2]>> /\ to(l) # store.root
                           /\ above[to(l)] = l[1] /\ place[to(l)] = l[2]
      BY <2>6
    <3>2. ASSUME NEW l \in links, NEW m \in links, to(l) = to(m) PROVE l = m
      <4>1. l = <<above[to(l)], place[to(l)]>>
        BY <3>1
      <4>2. m = <<above[to(m)], place[to(m)]>>
        BY <3>1
      <4> QED
        BY <3>2, <4>1, <4>2
    <3> QED
      BY <3>1, <3>2
  <2>8. store.first_deleted_page \notin TreePages
    BY <2>2, <2>3
  <2> QED
    BY <2>5, <2>7, <2>8 DEF TreeIsBalanced, Page
<1> QED
  BY <1>1, <1>2 DEF IsStore

---------------------------------------------------------------------------
(* The calls. *)

\* Calls with any keys, also ones that are there, up to the first time a deleted page is
\* reused.
SpecNoReuse == Init /\ [][Next /\ ~Reuses]_vars

\* A call that hands out no deleted page leaves a tree (insert, delete and find).
LEMMA StoreStays ==
    ASSUME IsStore(store), [Next /\ ~Reuses]_vars
    PROVE  IsStore(store')
<1>1. CASE UNCHANGED vars
  BY <1>1 DEF vars
<1>2. CASE Next /\ ~Reuses
  <2>1. PICK key \in Keys : Insert(key) \/ Delete(key) \/ Find(key)
    BY <1>2 DEF Next
  <2>2. key \in AllKeys
    BY DEF AllKeys
  <2>3. CASE Insert(key)
    <3>1. InsertDone(store', store.first_deleted_page)
      BY <2>2, <2>3, InsertKeyIs DEF Insert
    <3>2. ~(store.first_deleted_page # NoPage /\ IsSpent(store'))
      <4>1. IsSpent(store') => store'.first_deleted_page = NoPage
        BY SpentIs
      <4> QED
        BY <1>2, <4>1 DEF Reuses
    <3> QED
      BY <3>1, <3>2 DEF InsertDone, IsStore
  <2>4. CASE Delete(key)
    BY <2>4, DeleteKeyIs DEF Delete, IsStore
  <2>5. CASE Find(key)
    BY <2>5, WithRootIs DEF Find, IsStore
  <2> QED
    BY <2>1, <2>3, <2>4, <2>5
<1> QED
  BY <1>1, <1>2

---------------------------------------------------------------------------
(* What a node is in the file. *)

\* The entries s are in words from offset on, in an array of this length.
AreAt(s, words, offset, most) ==
    \A i \in 1..most :
        words[offset + i - 1] = IF i <= Len(s) THEN s[i] ELSE NoPage

LEMMA EntriesAtIs ==
    ASSUME NEW words, NEW offset \in Nat, NEW most \in Nat, NEW S, NoPage \notin S,
           NEW s \in Seq(S), Len(s) <= most, AreAt(s, words, offset, most)
    PROVE  EntriesAt(words, offset, most) = s
<1>1. PICK n \in Nat : n = Len(s)
  BY LenProperties
<1>2. /\ s \in [1..n -> S] /\ n <= most
  BY <1>1, LenProperties
<1>3. PICK used : used = {k \in 0..most : \A i \in 1..k : words[offset + i - 1] # NoPage}
  OBVIOUS
<1>4. \A i \in 1..most : words[offset + i - 1] = IF i <= n THEN s[i] ELSE NoPage
  BY <1>1 DEF AreAt
<1>5. used = 0..n
  <2>1. ASSUME NEW k \in 0..n PROVE k \in used
    <3>1. \A i \in 1..k : i \in 1..most /\ i \in 1..n
      BY <1>2
    <3>2. ASSUME NEW i \in 1..k PROVE words[offset + i - 1] # NoPage
      <4>1. i \in 1..most /\ i \in 1..n /\ i <= n
        BY <3>1
      <4>2. words[offset + i - 1] = s[i]
        BY <1>4, <4>1
      <4>3. s[i] \in S
        BY <1>2, <4>1
      <4> QED
        BY <4>2, <4>3
    <3>3. k \in 0..most
      BY <1>2
    <3> QED
      BY <1>3, <3>2, <3>3
  <2>2. ASSUME NEW k \in used, k \notin 0..n PROVE FALSE
    <3>1. k \in 0..most /\ k > n
      BY <1>3, <2>2
    <3>2. n + 1 \in 1..k /\ n + 1 \in 1..most /\ ~(n + 1 <= n)
      BY <3>1
    <3>3. words[offset + (n + 1) - 1] = NoPage
      BY <1>4, <3>2
    <3> QED
      BY <1>3, <3>2, <3>3
  <2> QED
    BY <2>1, <2>2
<1>6. Max(used) = n
  <2>1. used \in SUBSET Nat /\ used # {} /\ \A x \in used : x <= n
    BY <1>5
  <2>2. Max(used) \in used /\ \A y \in used : y <= Max(used)
    BY <2>1, MaxIsGreatest
  <2>3. n \in used
    BY <1>5
  <2> QED
    BY <1>5, <2>2, <2>3
<1>7. EntriesAt(words, offset, most) = [i \in 1..n |-> words[offset + i - 1]]
  BY <1>3, <1>6 DEF EntriesAt
<1>8. \A i \in 1..n : words[offset + i - 1] = s[i]
  BY <1>2, <1>4
<1> QED
  BY <1>2, <1>7, <1>8

\* The words b are the words a with the entries s from offset on.
HasWords(b, a, end, offset, s) ==
    /\ DOMAIN b = 0..end
    /\ \A at \in 0..end :
          b[at] = IF at - offset + 1 \in 1..Len(s) THEN s[at - offset + 1] ELSE a[at]

LEMMA WithWordsIs ==
    ASSUME NEW end \in Nat, NEW a, DOMAIN a = 0..end, NEW offset \in Nat,
           NEW S, NEW s \in Seq(S)
    PROVE  HasWords(WithWords(a, offset, s), a, end, offset, s)
<1>1. DOMAIN s = 1..Len(s)
  BY LenProperties
<1>2. PICK b : b = WithWords(a, offset, s)
  OBVIOUS
<1>3. b = [at \in 0..end |->
              IF at - offset + 1 \in 1..Len(s) THEN s[at - offset + 1] ELSE a[at]]
  BY <1>1, <1>2 DEF WithWords
<1>4. HasWords(b, a, end, offset, s)
  BY <1>3 DEF HasWords
<1> QED
  BY <1>2, <1>4

\* The words of pointers.
PointerWords == {<<pointer, word>> : pointer \in Pointers, word \in {"page", "slot"}}

LEMMA WordsOfIs ==
    ASSUME NEW s \in Seq(Pointers)
    PROVE  /\ WordsOf(s) \in Seq(PointerWords) /\ Len(WordsOf(s)) = 2 * Len(s)
           /\ NoPage \notin PointerWords
           /\ [i \in 1..(Len(WordsOf(s)) \div 2) |-> WordsOf(s)[2 * i][1]] = s
<1>1. PICK n \in Nat : n = Len(s)
  BY LenProperties
<1>2. s \in [1..n -> Pointers]
  BY <1>1, LenProperties
<1>3. PICK words : words = WordsOf(s)
  OBVIOUS
<1>4. words = [w \in 1..(2 * n) |-> <<s[(w + 1) \div 2], IF w % 2 = 1 THEN "page" ELSE "slot">>]
  BY <1>1, <1>3 DEF WordsOf
<1>5. \A w \in 1..(2 * n) : (w + 1) \div 2 \in 1..n
  BY <1>1
<1>6. words \in [1..(2 * n) -> PointerWords]
  <2>1. ASSUME NEW w \in 1..(2 * n) PROVE words[w] \in PointerWords
    <3>1. PICK word \in {"page", "slot"} : word = IF w % 2 = 1 THEN "page" ELSE "slot"
      OBVIOUS
    <3>2. s[(w + 1) \div 2] \in Pointers
      BY <1>2, <1>5
    <3>3. words[w] = <<s[(w + 1) \div 2], word>>
      BY <1>4, <3>1
    <3> QED
      BY <3>2, <3>3 DEF PointerWords
  <2> QED
    BY <1>4, <2>1
<1>7. words \in Seq(PointerWords) /\ Len(words) = 2 * n
  <2>1. 2 * n \in Nat
    OBVIOUS
  <2> QED
    BY <1>6, <2>1, PagesAreSequence
<1>8. NoPage \notin PointerWords
  BY NoPageAssumption DEF PointerWords, Pointers
<1>9. [i \in 1..(Len(words) \div 2) |-> words[2 * i][1]] = s
  <2>1. Len(words) \div 2 = n
    BY <1>7
  <2>2. ASSUME NEW i \in 1..n PROVE words[2 * i][1] = s[i]
    <3>1. 2 * i \in 1..(2 * n) /\ (2 * i + 1) \div 2 = i
      OBVIOUS
    <3>2. words[2 * i] = <<s[i], IF (2 * i) % 2 = 1 THEN "page" ELSE "slot">>
      BY <1>4, <3>1
    <3> QED
      BY <3>2
  <2> QED
    BY <1>2, <2>1, <2>2
<1> QED
  BY <1>1, <1>3, <1>7, <1>8, <1>9

LEMMA KeysAreInts == AllKeys \subseteq Int
<1>1. ASSUME NEW keys \in Preloads PROVE ToSet(keys) \subseteq Int
  <2>1. keys \in Seq(Int)
    BY KeysAssumption
  <2>2. \A i \in DOMAIN keys : keys[i] \in Int
    BY <2>1
  <2> QED
    BY <2>2 DEF ToSet
<1> QED
  BY <1>1, KeysAssumption DEF AllKeys

\* A node that fits into its arrays is read from the file as it was written.
LEMMA NodeReadBack ==
    ASSUME NEW last \in Nat, NEW n \in Nodes(1..last), NEW height \in Nat, Fits(n, height)
    PROVE  NodeOfWords(WordsOfNode(n)) = n
<1>1. PICK m \in Nat : m = MaxKeys
  BY DegreeIs
<1>2. /\ MaxDegree = m + 1 /\ m >= 1
      /\ KeyOffset = 0 /\ ChildrenOffset = m /\ ValuesOffset = m + (m + 1)
      /\ NextLeafOffset = m + (m + 1) + 2 * m /\ MaxDegree - 1 = m
  <2>1. MaxDegree = m + 1 /\ m >= 1
    BY <1>1, DegreeIs
  <2> QED
    BY <2>1 DEF KeyOffset, ChildrenOffset, ValuesOffset, NextLeafOffset
<1>3. PICK keys : keys = n.keys
  OBVIOUS
<1>4. PICK children : children = n.children
  OBVIOUS
<1>5. PICK pointers : pointers = WordsOf(n.values)
  OBVIOUS
<1>6. PICK link : link = <<n.next_leaf>>
  OBVIOUS
<1>7. /\ keys \in Seq(AllKeys) /\ Len(keys) \in Nat /\ Len(keys) <= m
      /\ NoPage \notin AllKeys
  BY <1>1, <1>3, NodeIs, KeysAreInts, NoPageAssumption DEF Fits
<1>8. /\ children \in Seq(1..last) /\ Len(children) \in Nat /\ Len(children) <= m + 1
      /\ NoPage \notin 1..last
  <2>1. Len(n.children) \in Nat /\ children \in Seq(1..last)
    BY <1>4, NodeIs
  <2>2. Len(n.children) = 0 \/ Len(n.children) = Len(n.keys) + 1
    BY DEF Fits
  <2> QED
    BY <1>3, <1>4, <1>7, <2>1, <2>2, NoPageAssumption
<1>9. /\ pointers \in Seq(PointerWords) /\ Len(pointers) \in Nat /\ Len(pointers) <= 2 * m
      /\ NoPage \notin PointerWords
      /\ [i \in 1..(Len(pointers) \div 2) |-> pointers[2 * i][1]] = n.values
  <2>1. n.values \in Seq(Pointers) /\ Len(n.values) \in Nat
    BY NodeIs
  <2>2. Len(n.values) <= m
    <3>1. Len(n.values) = 0 \/ Len(n.values) = Len(n.keys)
      BY DEF Fits
    <3> QED
      BY <1>3, <1>7, <2>1, <3>1
  <2>3. pointers \in Seq(PointerWords) /\ Len(pointers) = 2 * Len(n.values)
    BY <1>5, <2>1, WordsOfIs
  <2>4. NoPage \notin PointerWords
    BY <2>1, WordsOfIs
  <2>5. [i \in 1..(Len(pointers) \div 2) |-> pointers[2 * i][1]] = n.values
    BY <1>5, <2>1, WordsOfIs
  <2> QED
    BY <2>1, <2>2, <2>3, <2>4, <2>5
<1>10. link \in Seq({n.next_leaf}) /\ Len(link) = 1 /\ link[1] = n.next_leaf
  BY <1>6
<1>11. PICK end \in Nat : end = m + (m + 1) + 2 * m
  OBVIOUS
<1>12. PICK a : a = [at \in 0..end |-> NoPage]
  OBVIOUS
<1>13. PICK b : b = WithWords(a, 0, keys)
  OBVIOUS
<1>14. PICK c : c = WithWords(b, m, children)
  OBVIOUS
<1>15. PICK d : d = WithWords(c, m + (m + 1), pointers)
  OBVIOUS
<1>16. PICK e : e = WithWords(d, end, link)
  OBVIOUS
<1>17. WordsOfNode(n) = [next_deleted_page |-> n.next_deleted_page, words |-> e]
  BY <1>2, <1>3, <1>4, <1>5, <1>6, <1>11, <1>12, <1>13, <1>14, <1>15, <1>16 DEF WordsOfNode
<1>18. DOMAIN a = 0..end /\ \A at \in 0..end : a[at] = NoPage
  BY <1>12
<1>19. /\ DOMAIN b = 0..end
       /\ \A at \in 0..end :
             b[at] = IF at - 0 + 1 \in 1..Len(keys) THEN keys[at - 0 + 1] ELSE a[at]
  <2>1. HasWords(WithWords(a, 0, keys), a, end, 0, keys)
    <3>1. DOMAIN a = 0..end /\ 0 \in Nat
      BY <1>18
    <3> QED
      BY <1>7, <3>1, WithWordsIs
  <2> QED
    BY <1>13, <2>1 DEF HasWords
<1>20. /\ DOMAIN c = 0..end
       /\ \A at \in 0..end :
             c[at] = IF at - m + 1 \in 1..Len(children) THEN children[at - m + 1] ELSE b[at]
  <2>1. HasWords(WithWords(b, m, children), b, end, m, children)
    <3>1. DOMAIN b = 0..end
      BY <1>19
    <3> QED
      BY <1>8, <3>1, WithWordsIs
  <2> QED
    BY <1>14, <2>1 DEF HasWords
<1>21. PICK v \in Nat : v = m + (m + 1)
  OBVIOUS
<1>22. /\ DOMAIN d = 0..end
       /\ \A at \in 0..end :
             d[at] = IF at - v + 1 \in 1..Len(pointers) THEN pointers[at - v + 1] ELSE c[at]
  <2>1. HasWords(WithWords(c, v, pointers), c, end, v, pointers)
    <3>1. DOMAIN c = 0..end
      BY <1>20
    <3> QED
      BY <1>9, <3>1, WithWordsIs
  <2> QED
    BY <1>15, <1>21, <2>1 DEF HasWords
<1>23. \A at \in 0..end :
          e[at] = IF at - end + 1 \in 1..Len(link) THEN link[at - end + 1] ELSE d[at]
  <2>1. HasWords(WithWords(d, end, link), d, end, end, link)
    <3>1. DOMAIN d = 0..end
      BY <1>22
    <3> QED
      BY <1>10, <3>1, WithWordsIs
  <2> QED
    BY <1>16, <2>1 DEF HasWords
<1>24. AreAt(keys, e, 0, m)
  <2>1. ASSUME NEW i \in 1..m
        PROVE  e[0 + i - 1] = IF i <= Len(keys) THEN keys[i] ELSE NoPage
    <3>1. PICK at \in 0..end : at = i - 1
      BY <1>11
    <3>2. /\ ~(at - end + 1 \in 1..1)
          /\ ~(at - v + 1 >= 1) /\ ~(at - m + 1 >= 1) /\ at - 0 + 1 = i
      BY <1>2, <1>11, <1>21, <3>1
    <3>3. e[at] = d[at]
      BY <1>10, <1>23, <3>2
    <3>4. d[at] = c[at]
      BY <1>9, <1>22, <3>2
    <3>5. c[at] = b[at]
      BY <1>8, <1>20, <3>2
    <3>6. b[at] = IF i <= Len(keys) THEN keys[i] ELSE NoPage
      BY <1>7, <1>18, <1>19, <3>2
    <3> QED
      BY <3>1, <3>3, <3>4, <3>5, <3>6
  <2> QED
    BY <2>1 DEF AreAt
<1>25. AreAt(children, e, m, m + 1)
  <2>1. ASSUME NEW i \in 1..m + 1
        PROVE  e[m + i - 1] = IF i <= Len(children) THEN children[i] ELSE NoPage
    <3>1. PICK at \in 0..end : at = m + i - 1
      BY <1>11
    <3>2. /\ ~(at - end + 1 \in 1..1)
          /\ ~(at - v + 1 >= 1) /\ at - m + 1 = i /\ ~(at - 0 + 1 <= m)
      BY <1>2, <1>11, <1>21, <3>1
    <3>3. e[at] = d[at]
      BY <1>10, <1>23, <3>2
    <3>4. d[at] = c[at]
      BY <1>9, <1>22, <3>2
    <3>5. b[at] = NoPage
      BY <1>7, <1>18, <1>19, <3>2
    <3>6. c[at] = IF i <= Len(children) THEN children[i] ELSE NoPage
      BY <1>8, <1>20, <3>2, <3>5
    <3> QED
      BY <3>1, <3>3, <3>4, <3>6
  <2> QED
    BY <2>1 DEF AreAt
<1>26. AreAt(pointers, e, v, 2 * m)
  <2>1. ASSUME NEW i \in 1..2 * m
        PROVE  e[v + i - 1] = IF i <= Len(pointers) THEN pointers[i] ELSE NoPage
    <3>1. PICK at \in 0..end : at = v + i - 1
      BY <1>11, <1>21
    <3>2. /\ ~(at - end + 1 \in 1..1)
          /\ at - v + 1 = i /\ ~(at - m + 1 <= m + 1) /\ ~(at - 0 + 1 <= m)
      BY <1>2, <1>11, <1>21, <3>1
    <3>3. e[at] = d[at]
      BY <1>10, <1>23, <3>2
    <3>4. b[at] = NoPage
      BY <1>7, <1>18, <1>19, <3>2
    <3>5. c[at] = NoPage
      BY <1>8, <1>20, <3>2, <3>4
    <3>6. d[at] = IF i \in 1..Len(pointers) THEN pointers[i] ELSE c[at]
      BY <1>22, <3>2
    <3>7. i \in 1..Len(pointers) <=> i <= Len(pointers)
      BY <1>9
    <3>8. d[at] = IF i <= Len(pointers) THEN pointers[i] ELSE NoPage
      BY <3>5, <3>6, <3>7
    <3> QED
      BY <3>1, <3>3, <3>8
  <2> QED
    BY <2>1 DEF AreAt
<1>27. e[end] = n.next_leaf
  <2>1. end \in 0..end /\ end - end + 1 = 1 /\ 1 \in 1..1
    OBVIOUS
  <2> QED
    BY <1>10, <1>23, <2>1
<1>28. EntriesAt(e, 0, m) = keys
  BY <1>7, <1>24, EntriesAtIs
<1>29. EntriesAt(e, m, m + 1) = children
  <2>1. m + 1 \in Nat
    OBVIOUS
  <2> QED
    BY <1>8, <1>25, <2>1, EntriesAtIs
<1>30. EntriesAt(e, v, 2 * m) = pointers
  <2>1. 2 * m \in Nat
    OBVIOUS
  <2> QED
    BY <1>9, <1>26, <2>1, EntriesAtIs
<1>31. PICK file : file = WordsOfNode(n)
  OBVIOUS
<1>32. file.words = e /\ file.next_deleted_page = n.next_deleted_page
  BY <1>17, <1>31
<1>33. NodeOfWords(file) =
          [keys |-> keys, children |-> children, values |-> n.values,
           next_leaf |-> n.next_leaf, next_deleted_page |-> n.next_deleted_page]
  <2>1. /\ EntriesAt(file.words, KeyOffset, MaxDegree - 1) = keys
        /\ EntriesAt(file.words, ChildrenOffset, MaxDegree) = children
        /\ EntriesAt(file.words, ValuesOffset, 2 * (MaxDegree - 1)) = pointers
        /\ file.words[NextLeafOffset] = n.next_leaf
    BY <1>2, <1>11, <1>21, <1>27, <1>28, <1>29, <1>30, <1>32
  <2> QED
    BY <1>9, <1>32, <2>1 DEF NodeOfWords
<1>34. n = [keys |-> keys, children |-> children, values |-> n.values,
            next_leaf |-> n.next_leaf, next_deleted_page |-> n.next_deleted_page]
  BY <1>3, <1>4 DEF Nodes
<1> QED
  BY <1>31, <1>33, <1>34

LEMMA ReadBackIs == ASSUME IsStore(store) PROVE NodesReadBack
<1>1. CASE store = EmptyStore
  BY <1>1 DEF NodesReadBack, PageIds, EmptyStore
<1>2. CASE IsTreeStore(store)
  <2>1. PICK n, tree, height, above, place : Shape(store, n, tree, height, above, place)
    BY <1>2 DEF IsTreeStore
  <2>2. /\ n \in Nat /\ store.pages \in [1..n -> Nodes(1..n)]
        /\ height \in [1..n -> Nat] /\ \A id \in 1..n : Fits(store.pages[id], height[id])
    BY <2>1 DEF Shape, IsTree
  <2>3. PageIds = 1..n
    BY <2>2 DEF PageIds
  <2>4. ASSUME NEW id \in 1..n PROVE NodeOfWords(WordsOfNode(store.pages[id])) = store.pages[id]
    <3>1. store.pages[id] \in Nodes(1..n) /\ height[id] \in Nat /\ Fits(store.pages[id], height[id])
      BY <2>2
    <3> QED
      BY <2>2, <3>1, NodeReadBack
  <2> QED
    BY <2>3, <2>4 DEF NodesReadBack, Page
<1> QED
  BY <1>1, <1>2 DEF IsStore

---------------------------------------------------------------------------
(* The order of the keys.  Every node is for a set R of numbers, the root  *)
(* for all; its keys are in R and cut it into the parts of its children.   *)

\* The numbers of R that are for the i-th child of a node with these keys.
Part(R, keys, i) ==
    {k \in R : (i > 1 => keys[i - 1] <= k) /\ (i <= Len(keys) => k < keys[i])}

\* The keys ascend, and are numbers of R and of K.
InOrder(keys, R, K) ==
    /\ R \subseteq Int
    /\ \A i \in 1..Len(keys) : keys[i] \in R /\ keys[i] \in K
    /\ \A i, j \in 1..Len(keys) : i < j => keys[i] < keys[j]

\* There are numbers of R below each of the keys.
Separates(keys, R) == \A i \in 1..Len(keys) : \E e \in R : e < keys[i]

\* The numbers of R between the keys before and after n of them.
Window(R, keys, first, n) ==
    {k \in R : /\ first >= 1 => keys[first] <= k
               /\ first + n + 1 <= Len(keys) => k < keys[first + n + 1]}

\* A stretch of the keys is in order for the numbers between the keys next to it.
LEMMA SliceInOrder ==
    ASSUME NEW s, NEW len \in Nat, len = Len(s), NEW R, NEW K, InOrder(s, R, K),
           NEW first \in Nat, NEW n \in Nat, first + n <= len, NEW t, Slice(t, s, first, n)
    PROVE  InOrder(t, Window(R, s, first, n), K)
<1>1. /\ R \subseteq Int
      /\ \A i \in 1..len : s[i] \in R /\ s[i] \in K /\ s[i] \in Int
      /\ \A i, j \in 1..len : i < j => s[i] < s[j]
  BY DEF InOrder
<1>2. PICK W : W = Window(R, s, first, n)
  OBVIOUS
<1>3. Len(t) = n /\ \A i \in 1..n : t[i] = s[first + i] /\ first + i \in 1..len
  BY DEF Slice
<1>4. ASSUME NEW i \in 1..n PROVE t[i] \in W /\ t[i] \in K
  <2>1. t[i] = s[first + i] /\ first + i \in 1..len
    BY <1>3
  <2>2. first >= 1 => s[first] <= t[i]
    <3>1. first >= 1 => first \in 1..len /\ first < first + i
      OBVIOUS
    <3> QED
      BY <1>1, <2>1, <3>1
  <2>3. first + n + 1 <= len => t[i] < s[first + n + 1]
    <3>1. first + n + 1 <= len => first + n + 1 \in 1..len /\ first + i < first + n + 1
      OBVIOUS
    <3> QED
      BY <1>1, <2>1, <3>1
  <2> QED
    BY <1>1, <1>2, <2>1, <2>2, <2>3 DEF Window
<1>5. ASSUME NEW i \in 1..n, NEW j \in 1..n, i < j PROVE t[i] < t[j]
  <2>1. /\ t[i] = s[first + i] /\ first + i \in 1..len
        /\ t[j] = s[first + j] /\ first + j \in 1..len
        /\ first + i < first + j
    BY <1>3, <1>5
  <2> QED
    BY <1>1, <2>1
<1>6. W \subseteq Int
  BY <1>1, <1>2 DEF Window
<1>7. InOrder(t, W, K)
  BY <1>3, <1>4, <1>5, <1>6 DEF InOrder
<1> QED
  BY <1>2, <1>7

\* Its parts are parts of the whole.
LEMMA SliceParts ==
    ASSUME NEW s, NEW len \in Nat, len = Len(s), NEW R, NEW K, InOrder(s, R, K),
           NEW first \in Nat, NEW n \in Nat, first + n <= len, NEW t, Slice(t, s, first, n),
           NEW i \in 1..n + 1
    PROVE  Part(Window(R, s, first, n), t, i) = Part(R, s, first + i)
<1>1. /\ \A k \in R : k \in Int
      /\ \A h \in 1..len : s[h] \in Int
      /\ \A h, j \in 1..len : h < j => s[h] < s[j]
  BY DEF InOrder
<1>2. Len(t) = n /\ \A h \in 1..n : t[h] = s[first + h]
  BY DEF Slice
<1>3. PICK low \in Nat : low = first + i - 1
  OBVIOUS
<1>4. PICK high \in Nat : high = first + i
  OBVIOUS
<1>5. PICK top \in Nat : top = first + n + 1
  OBVIOUS
<1>6. i > 1 => t[i - 1] = s[low] /\ low \in 1..len
  <2>1. i > 1 => i - 1 \in 1..n /\ first + (i - 1) = low /\ low \in 1..len
    BY <1>3
  <2> QED
    BY <1>2, <2>1
<1>7. i <= n => t[i] = s[high] /\ high \in 1..len
  <2>1. i <= n => i \in 1..n /\ high \in 1..len
    BY <1>4
  <2> QED
    BY <1>2, <1>4, <2>1
<1>8. /\ first >= 1 => first \in 1..len
      /\ top <= len => top \in 1..len
      /\ i = 1 <=> low = first
      /\ i > 1 => first < low
      /\ i = n + 1 <=> high = top
      /\ i <= n => high < top
      /\ i > 1 \/ i = 1
      /\ i <= n \/ i = n + 1
  BY <1>3, <1>4, <1>5
<1>9. ASSUME NEW k \in R
      PROVE  k \in Part(Window(R, s, first, n), t, i) <=> k \in Part(R, s, first + i)
  <2>1. k \in Part(Window(R, s, first, n), t, i) <=>
           /\ first >= 1 => s[first] <= k
           /\ top <= len => k < s[top]
           /\ i > 1 => s[low] <= k
           /\ i <= n => k < s[high]
    BY <1>2, <1>5, <1>6, <1>7 DEF Part, Window
  <2>2. k \in Part(R, s, first + i) <=>
           /\ high > 1 => s[low] <= k
           /\ high <= len => k < s[high]
    BY <1>3, <1>4 DEF Part
  <2>3. k \in Int
    BY <1>1
  <2>4. (/\ first >= 1 => s[first] <= k
         /\ i > 1 => s[low] <= k) <=> (high > 1 => s[low] <= k)
    <3>1. CASE i = 1
      <4>1. low = first /\ (high > 1 <=> first >= 1)
        BY <1>4, <1>8, <3>1
      <4> QED
        BY <3>1, <4>1
    <3>2. CASE i > 1
      <4>1. high > 1 /\ low \in 1..len /\ first < low
        BY <1>4, <1>6, <1>8, <3>2
      <4>2. first >= 1 => s[first] < s[low] /\ s[first] \in Int /\ s[low] \in Int
        BY <1>1, <1>8, <4>1
      <4>3. s[low] \in Int
        BY <1>1, <4>1
      <4> QED
        BY <2>3, <3>2, <4>1, <4>2, <4>3
    <3> QED
      BY <1>8, <3>1, <3>2
  <2>5. (/\ top <= len => k < s[top]
         /\ i <= n => k < s[high]) <=> (high <= len => k < s[high])
    <3>1. CASE i = n + 1
      BY <1>8, <3>1
    <3>2. CASE i <= n
      <4>1. high \in 1..len /\ high < top
        BY <1>7, <1>8, <3>2
      <4>2. top <= len => s[high] < s[top] /\ s[top] \in Int
        BY <1>1, <1>8, <4>1
      <4>3. s[high] \in Int /\ high <= len
        BY <1>1, <4>1
      <4> QED
        BY <2>3, <3>2, <4>1, <4>2, <4>3
    <3> QED
      BY <1>8, <3>1, <3>2
  <2> QED
    BY <2>1, <2>2, <2>4, <2>5
<1> QED
  BY <1>9 DEF Part, Window

LEMMA SliceSeparates ==
    ASSUME NEW s, NEW len \in Nat, len = Len(s), NEW R, NEW K, InOrder(s, R, K),
           Separates(s, R),
           NEW first \in Nat, NEW n \in Nat, first + n <= len, NEW t, Slice(t, s, first, n)
    PROVE  Separates(t, Window(R, s, first, n))
<1>1. /\ R \subseteq Int
      /\ \A i \in 1..len : s[i] \in R /\ s[i] \in Int
      /\ \A i, j \in 1..len : i < j => s[i] < s[j]
  BY DEF InOrder
<1>2. Len(t) = n /\ \A i \in 1..n : t[i] = s[first + i] /\ first + i \in 1..len
  BY DEF Slice
<1>3. PICK top \in Nat : top = first + n + 1
  OBVIOUS
<1>4. ASSUME NEW i \in 1..n PROVE \E e \in Window(R, s, first, n) : e < t[i]
  <2>1. t[i] = s[first + i] /\ first + i \in 1..len
    BY <1>2
  <2>2. PICK c \in 1..len : c = first + i
    BY <2>1
  <2>3. top <= len => top \in 1..len /\ c < top
    BY <1>3, <2>2
  <2>4. top <= len => s[c] < s[top] /\ s[top] \in Int
    BY <1>1, <2>3
  <2>5. s[c] \in Int
    BY <1>1
  <2>6. CASE first = 0
    <3>1. PICK e \in R : e < s[c]
      BY DEF Separates
    <3>2. e \in Int
      BY <1>1
    <3>3. top <= len => e < s[top]
      BY <2>4, <2>5, <3>1, <3>2
    <3>4. e \in Window(R, s, first, n)
      BY <1>3, <2>6, <3>3 DEF Window
    <3> QED
      BY <2>1, <2>2, <3>1, <3>4
  <2>7. CASE first >= 1
    <3>1. first \in 1..len /\ first < c
      BY <2>2, <2>7
    <3>2. s[first] < s[c] /\ s[first] \in Int /\ s[first] \in R
      BY <1>1, <3>1
    <3>3. top <= len => s[first] < s[top]
      BY <2>4, <2>5, <3>2
    <3>4. s[first] \in Window(R, s, first, n)
      BY <1>3, <3>2, <3>3 DEF Window
    <3> QED
      BY <2>1, <2>2, <3>2, <3>4
  <2> QED
    BY <2>6, <2>7
<1> QED
  BY <1>2, <1>4 DEF Separates

\* Keys in order for R are in order for more numbers.
LEMMA OrderWidens ==
    ASSUME NEW s, NEW R, NEW K, InOrder(s, R, K), NEW S, R \subseteq S, S \subseteq Int
    PROVE  InOrder(s, S, K)
  BY DEF InOrder

\* m goes between the keys before and after position at.
GoesAt(m, s, at) ==
    /\ \A i \in 1..Len(s) : i < at => s[i] < m
    /\ \A i \in 1..Len(s) : i >= at => m < s[i]

\* A key put where it goes leaves the keys in order.
LEMMA InsertedInOrder ==
    ASSUME NEW s, NEW len \in Nat, len = Len(s), NEW R, NEW K, InOrder(s, R, K),
           NEW at \in 1..len + 1, NEW m \in R, m \in K, GoesAt(m, s, at),
           NEW t, Inserted(t, s, at, m)
    PROVE  InOrder(t, R, K)
<1>1. /\ R \subseteq Int
      /\ \A i \in 1..len : s[i] \in R /\ s[i] \in K /\ s[i] \in Int
      /\ \A i, j \in 1..len : i < j => s[i] < s[j]
  BY DEF InOrder
<1>2. /\ Len(t) = len + 1
      /\ \A i \in 1..len + 1 : t[i] = IF i < at THEN s[i] ELSE IF i = at THEN m ELSE s[i - 1]
  BY DEF Inserted
<1>3. /\ \A i \in 1..len : i < at => s[i] < m
      /\ \A i \in 1..len : i >= at => m < s[i]
  BY DEF GoesAt
<1>4. ASSUME NEW i \in 1..len + 1 PROVE t[i] \in R /\ t[i] \in K
  <2>1. CASE i < at
    <3>1. i \in 1..len /\ t[i] = s[i]
      BY <1>2, <2>1
    <3> QED
      BY <1>1, <3>1
  <2>2. CASE i = at
    BY <1>2, <2>2
  <2>3. CASE i > at
    <3>1. i - 1 \in 1..len /\ t[i] = s[i - 1]
      BY <1>2, <2>3
    <3> QED
      BY <1>1, <3>1
  <2> QED
    BY <2>1, <2>2, <2>3
<1>5. ASSUME NEW i \in 1..len + 1, NEW j \in 1..len + 1, i < j PROVE t[i] < t[j]
  <2>1. CASE j < at
    <3>1. i \in 1..len /\ t[i] = s[i] /\ j \in 1..len /\ t[j] = s[j]
      BY <1>2, <1>5, <2>1
    <3> QED
      BY <1>1, <1>5, <3>1
  <2>2. CASE j = at
    <3>1. i \in 1..len /\ i < at /\ t[i] = s[i] /\ t[j] = m
      BY <1>2, <1>5, <2>2
    <3> QED
      BY <1>3, <3>1
  <2>3. CASE j > at /\ i = at
    <3>1. j - 1 \in 1..len /\ j - 1 >= at /\ t[j] = s[j - 1] /\ t[i] = m
      BY <1>2, <1>5, <2>3
    <3> QED
      BY <1>3, <3>1
  <2>4. CASE j > at /\ i > at
    <3>1. i - 1 \in 1..len /\ j - 1 \in 1..len /\ i - 1 < j - 1
      BY <1>5, <2>4
    <3>2. t[i] = s[i - 1] /\ t[j] = s[j - 1]
      BY <1>2, <2>4
    <3>3. s[i - 1] < s[j - 1]
      BY <1>1, <3>1
    <3> QED
      BY <3>2, <3>3
  <2>5. CASE j > at /\ i < at
    <3>1. i \in 1..len /\ t[i] = s[i] /\ s[i] \in Int /\ s[i] < m
      BY <1>1, <1>2, <1>3, <2>5
    <3>2. j - 1 \in 1..len /\ j - 1 >= at /\ t[j] = s[j - 1]
      BY <1>2, <2>5
    <3>3. m < s[j - 1] /\ s[j - 1] \in Int /\ m \in Int
      BY <1>1, <1>3, <3>2
    <3> QED
      BY <3>1, <3>2, <3>3
  <2> QED
    BY <2>1, <2>2, <2>3, <2>4, <2>5
<1> QED
  BY <1>1, <1>2, <1>4, <1>5 DEF InOrder

\* A number for the i-th child that is above another such number goes before the i-th
\* separator.
LEMMA PartGoesAt ==
    ASSUME NEW s, NEW len \in Nat, len = Len(s), NEW R, NEW K, InOrder(s, R, K),
           NEW i \in 1..len + 1, NEW m \in Part(R, s, i), NEW e \in Part(R, s, i), e < m
    PROVE  GoesAt(m, s, i)
<1>1. /\ R \subseteq Int
      /\ \A h \in 1..len : s[h] \in Int
      /\ \A h, j \in 1..len : h < j => s[h] < s[j]
  BY DEF InOrder
<1>2. /\ m \in Int /\ e \in Int
      /\ i > 1 => s[i - 1] <= e
      /\ i <= len => m < s[i]
  BY <1>1 DEF Part
<1>3. ASSUME NEW h \in 1..len, h < i PROVE s[h] < m
  <2>1. i - 1 \in 1..len /\ i > 1 /\ (h = i - 1 \/ h < i - 1)
    BY <1>3
  <2>2. s[h] <= s[i - 1] /\ s[h] \in Int /\ s[i - 1] \in Int
    BY <1>1, <2>1
  <2> QED
    BY <1>2, <2>1, <2>2
<1>4. ASSUME NEW h \in 1..len, h >= i PROVE m < s[h]
  <2>1. i \in 1..len /\ (h = i \/ i < h)
    BY <1>4
  <2>2. s[i] <= s[h] /\ s[h] \in Int /\ s[i] \in Int
    BY <1>1, <2>1
  <2> QED
    BY <1>2, <2>1, <2>2
<1> QED
  BY <1>3, <1>4 DEF GoesAt

LEMMA InsertedSeparates ==
    ASSUME NEW s, NEW len \in Nat, len = Len(s), NEW R, Separates(s, R),
           NEW at \in 1..len + 1, NEW m, NEW e \in R, e < m, NEW t, Inserted(t, s, at, m)
    PROVE  Separates(t, R)
<1>1. /\ Len(t) = len + 1
      /\ \A i \in 1..len + 1 : t[i] = IF i < at THEN s[i] ELSE IF i = at THEN m ELSE s[i - 1]
  BY DEF Inserted
<1>2. ASSUME NEW i \in 1..len + 1 PROVE \E d \in R : d < t[i]
  <2>1. CASE i < at
    <3>1. i \in 1..len /\ t[i] = s[i]
      BY <1>1, <2>1
    <3> QED
      BY <3>1 DEF Separates
  <2>2. CASE i = at
    BY <1>1, <2>2
  <2>3. CASE i > at
    <3>1. PICK h \in 1..len : h = i - 1
      BY <2>3
    <3>2. t[i] = s[h]
      BY <1>1, <2>3, <3>1
    <3> QED
      BY <3>2 DEF Separates
  <2> QED
    BY <2>1, <2>2, <2>3
<1> QED
  BY <1>1, <1>2 DEF Separates

\* What a key inserted at position at makes of the parts: the one there is cut in two.
PartsCutAt(R, t, s, at, m) ==
    /\ \A i \in 1..Len(s) + 1 : i < at => Part(R, t, i) = Part(R, s, i)
    /\ Part(R, t, at) = {k \in Part(R, s, at) : k < m}
    /\ Part(R, t, at + 1) = {k \in Part(R, s, at) : m <= k}
    /\ \A i \in 1..Len(s) + 1 : i > at => Part(R, t, i + 1) = Part(R, s, i)

\* It cuts one part in two and leaves the others.
LEMMA InsertedParts ==
    ASSUME NEW s, NEW len \in Nat, len = Len(s), NEW R, NEW K, InOrder(s, R, K),
           NEW at \in 1..len + 1, NEW m \in R, GoesAt(m, s, at),
           NEW t, Inserted(t, s, at, m)
    PROVE  PartsCutAt(R, t, s, at, m)
<1>1. /\ R \subseteq Int /\ m \in Int
      /\ \A i \in 1..len : s[i] \in Int
  BY DEF InOrder
<1>2. /\ Len(t) = len + 1
      /\ \A i \in 1..len + 1 : t[i] = IF i < at THEN s[i] ELSE IF i = at THEN m ELSE s[i - 1]
  BY DEF Inserted
<1>3. /\ \A i \in 1..len : i < at => t[i] = s[i]
      /\ t[at] = m
      /\ \A i \in 1..len : i >= at => t[i + 1] = s[i]
  <2>1. \A i \in 1..len : i + 1 \in 1..len + 1 /\ i \in 1..len + 1 /\ (i + 1) - 1 = i
    OBVIOUS
  <2> QED
    BY <1>2, <2>1
<1>4. ASSUME NEW i \in 1..len + 1, i < at PROVE Part(R, t, i) = Part(R, s, i)
  <2>1. /\ i > 1 => i - 1 \in 1..len /\ i - 1 < at
        /\ i \in 1..len /\ i <= len + 1
    BY <1>4
  <2>2. t[i] = s[i] /\ (i > 1 => t[i - 1] = s[i - 1])
    BY <1>3, <1>4, <2>1
  <2> QED
    BY <1>2, <2>1, <2>2 DEF Part
<1>5. Part(R, t, at) = {k \in Part(R, s, at) : k < m}
  <2>1. at > 1 => t[at - 1] = s[at - 1]
    <3>1. at > 1 => at - 1 \in 1..len /\ at - 1 < at
      OBVIOUS
    <3> QED
      BY <1>3, <3>1
  <2>2. at <= len + 1
    OBVIOUS
  <2>3. ASSUME NEW k \in R, k < m PROVE at <= len => k < s[at]
    <3>1. at <= len => m < s[at] /\ s[at] \in Int
      BY <1>1 DEF GoesAt
    <3>2. k \in Int
      BY <1>1
    <3> QED
      BY <1>1, <2>3, <3>1, <3>2
  <2> QED
    BY <1>2, <1>3, <2>1, <2>2, <2>3 DEF Part
<1>6. Part(R, t, at + 1) = {k \in Part(R, s, at) : m <= k}
  <2>1. at <= len => t[at + 1] = s[at]
    BY <1>3
  <2>2. at + 1 > 1 /\ (at + 1) - 1 = at /\ (at + 1 <= len + 1 <=> at <= len)
    OBVIOUS
  <2>3. ASSUME NEW k \in R, m <= k PROVE at > 1 => s[at - 1] <= k
    <3>1. at > 1 => at - 1 \in 1..len /\ at - 1 < at
      OBVIOUS
    <3>2. at > 1 => s[at - 1] < m /\ s[at - 1] \in Int
      BY <1>1, <3>1 DEF GoesAt
    <3>3. k \in Int
      BY <1>1
    <3> QED
      BY <1>1, <2>3, <3>2, <3>3
  <2>4. ASSUME NEW k \in R
        PROVE  k \in Part(R, t, at + 1) <=> m <= k /\ (at <= len => k < s[at])
    BY <1>2, <1>3, <2>1, <2>2 DEF Part
  <2>5. ASSUME NEW k \in R
        PROVE  k \in Part(R, s, at) <=> (at > 1 => s[at - 1] <= k) /\ (at <= len => k < s[at])
    BY DEF Part
  <2>6. Part(R, t, at + 1) \subseteq R /\ Part(R, s, at) \subseteq R
    BY DEF Part
  <2> QED
    BY <2>3, <2>4, <2>5, <2>6
<1>7. ASSUME NEW i \in 1..len + 1, i > at PROVE Part(R, t, i + 1) = Part(R, s, i)
  <2>1. /\ i - 1 \in 1..len /\ i - 1 >= at /\ (i - 1) + 1 = i /\ (i + 1) - 1 = i
        /\ i > 1 /\ i + 1 > 1 /\ (i + 1 <= len + 1 <=> i <= len)
    BY <1>7
  <2>2. t[i] = s[i - 1]
    BY <1>3, <2>1
  <2>3. i <= len => t[i + 1] = s[i]
    BY <1>3, <1>7
  <2>4. ASSUME NEW k \in R
        PROVE  k \in Part(R, t, i + 1) <=> s[i - 1] <= k /\ (i <= len => k < s[i])
    BY <1>2, <2>1, <2>2, <2>3 DEF Part
  <2>5. ASSUME NEW k \in R
        PROVE  k \in Part(R, s, i) <=> s[i - 1] <= k /\ (i <= len => k < s[i])
    BY <2>1 DEF Part
  <2>6. Part(R, t, i + 1) \subseteq R /\ Part(R, s, i) \subseteq R
    BY DEF Part
  <2> QED
    BY <2>4, <2>5, <2>6
<1> QED
  BY <1>4, <1>5, <1>6, <1>7 DEF PartsCutAt

\* Without one of its keys a node is in order; the two parts next to the key become one.
LEMMA RemovedInOrder ==
    ASSUME NEW s, NEW len \in Nat, len = Len(s), NEW R, NEW K, InOrder(s, R, K),
           NEW at \in 1..len, NEW t, Removed(t, s, at)
    PROVE  /\ InOrder(t, R, K)
           /\ Separates(s, R) => Separates(t, R)
<1>1. /\ R \subseteq Int
      /\ \A i \in 1..len : s[i] \in R /\ s[i] \in K /\ s[i] \in Int
      /\ \A i, j \in 1..len : i < j => s[i] < s[j]
  BY DEF InOrder
<1>2. PICK n \in Nat : n = len - 1
  OBVIOUS
<1>3. Len(t) = n /\ \A i \in 1..n : t[i] = IF i < at THEN s[i] ELSE s[i + 1]
  BY <1>2 DEF Removed
<1>4. ASSUME NEW i \in 1..n PROVE \E h \in 1..len : t[i] = s[h] /\ h >= i
  <2>1. i \in 1..len /\ i + 1 \in 1..len
    BY <1>2
  <2> QED
    BY <1>3, <2>1
<1>5. ASSUME NEW i \in 1..n, NEW j \in 1..n, i < j PROVE t[i] < t[j]
  <2>1. i \in 1..len /\ j \in 1..len /\ i + 1 \in 1..len /\ j + 1 \in 1..len
        /\ i < j + 1 /\ i + 1 < j + 1
    BY <1>2, <1>5
  <2>2. s[i] < s[j] /\ s[i] < s[j + 1] /\ s[i + 1] < s[j + 1]
    BY <1>1, <1>5, <2>1
  <2>3. j < at => i < at
    BY <1>5
  <2> QED
    BY <1>3, <2>2, <2>3
<1>6. InOrder(t, R, K)
  BY <1>1, <1>3, <1>4, <1>5 DEF InOrder
<1>7. ASSUME Separates(s, R) PROVE Separates(t, R)
  BY <1>3, <1>4, <1>7 DEF Separates
<1> QED
  BY <1>6, <1>7

\* What a key that is removed makes of the parts: the two next to it are one.
PartsJoinedAt(R, t, s, at) ==
    /\ \A i \in 1..Len(s) : i < at => Part(R, t, i) = Part(R, s, i)
    /\ Part(R, t, at) = Part(R, s, at) \cup Part(R, s, at + 1)
    /\ \A i \in 1..Len(s) : i > at => Part(R, t, i) = Part(R, s, i + 1)

LEMMA RemovedParts ==
    ASSUME NEW s, NEW len \in Nat, len = Len(s), NEW R, NEW K, InOrder(s, R, K),
           NEW at \in 1..len, NEW t, Removed(t, s, at)
    PROVE  PartsJoinedAt(R, t, s, at)
<1>1. /\ R \subseteq Int
      /\ \A i \in 1..len : s[i] \in Int
      /\ \A i, j \in 1..len : i < j => s[i] < s[j]
  BY DEF InOrder
<1>2. PICK n \in Nat : n = len - 1
  OBVIOUS
<1>3. /\ Len(t) = n
      /\ \A i \in 1..n : i < at => t[i] = s[i]
      /\ \A i \in 1..n : i >= at => t[i] = s[i + 1]
  BY <1>2 DEF Removed
<1>4. ASSUME NEW i \in 1..len, i < at PROVE Part(R, t, i) = Part(R, s, i)
  <2>1. i \in 1..n /\ (i > 1 => i - 1 \in 1..n /\ i - 1 < at)
    BY <1>2, <1>4
  <2>2. t[i] = s[i] /\ (i > 1 => t[i - 1] = s[i - 1])
    BY <1>3, <1>4, <2>1
  <2>3. i <= n /\ i <= len
    BY <2>1
  <2> QED
    BY <1>3, <2>2, <2>3 DEF Part
<1>5. Part(R, t, at) = Part(R, s, at) \cup Part(R, s, at + 1)
  <2>1. at > 1 => at - 1 \in 1..n /\ at - 1 < at /\ at - 1 \in 1..len
    BY <1>2
  <2>2. at > 1 => t[at - 1] = s[at - 1]
    BY <1>3, <2>1
  <2>3. at <= n <=> at + 1 <= len
    BY <1>2
  <2>4. at <= n => t[at] = s[at + 1]
    BY <1>3
  <2>5. ASSUME NEW k \in R
        PROVE  k \in Part(R, t, at) <=>
                  (at > 1 => s[at - 1] <= k) /\ (at + 1 <= len => k < s[at + 1])
    BY <1>3, <2>2, <2>3, <2>4 DEF Part
  <2>6. ASSUME NEW k \in R
        PROVE  k \in Part(R, s, at) <=> (at > 1 => s[at - 1] <= k) /\ k < s[at]
    BY DEF Part
  <2>7. ASSUME NEW k \in R
        PROVE  k \in Part(R, s, at + 1) <=> s[at] <= k /\ (at + 1 <= len => k < s[at + 1])
    <3>1. at + 1 > 1 /\ (at + 1) - 1 = at
      OBVIOUS
    <3> QED
      BY <3>1 DEF Part
  <2>8. ASSUME NEW k \in R
        PROVE  k \in Part(R, t, at) <=> k \in Part(R, s, at) \/ k \in Part(R, s, at + 1)
    <3>1. k \in Int /\ s[at] \in Int
      BY <1>1
    <3>2. at > 1 => s[at - 1] < s[at] /\ s[at - 1] \in Int
      BY <1>1, <2>1
    <3>3. at + 1 <= len => s[at] < s[at + 1] /\ s[at + 1] \in Int
      <4>1. at + 1 <= len => at + 1 \in 1..len /\ at < at + 1
        OBVIOUS
      <4> QED
        BY <1>1, <4>1
    <3>4. k < s[at] \/ s[at] <= k
      BY <3>1
    <3>5. k < s[at] => (at + 1 <= len => k < s[at + 1])
      BY <3>1, <3>3
    <3>6. s[at] <= k => (at > 1 => s[at - 1] <= k)
      BY <3>1, <3>2
    <3> QED
      BY <2>5, <2>6, <2>7, <3>4, <3>5, <3>6
  <2>9. /\ Part(R, t, at) \subseteq R /\ Part(R, s, at) \subseteq R
        /\ Part(R, s, at + 1) \subseteq R
    BY DEF Part
  <2> QED
    BY <2>8, <2>9
<1>6. ASSUME NEW i \in 1..len, i > at PROVE Part(R, t, i) = Part(R, s, i + 1)
  <2>1. /\ i - 1 \in 1..n /\ i - 1 >= at /\ (i - 1) + 1 = i /\ (i + 1) - 1 = i
        /\ i > 1 /\ i + 1 > 1 /\ (i + 1 <= len <=> i <= n)
    BY <1>2, <1>6
  <2>2. t[i - 1] = s[i]
    BY <1>3, <2>1
  <2>3. i <= n => t[i] = s[i + 1]
    BY <1>3, <1>6
  <2>4. ASSUME NEW k \in R
        PROVE  k \in Part(R, t, i) <=> s[i] <= k /\ (i + 1 <= len => k < s[i + 1])
    BY <1>3, <2>1, <2>2, <2>3 DEF Part
  <2>5. ASSUME NEW k \in R
        PROVE  k \in Part(R, s, i + 1) <=> s[i] <= k /\ (i + 1 <= len => k < s[i + 1])
    BY <2>1 DEF Part
  <2>6. Part(R, t, i) \subseteq R /\ Part(R, s, i + 1) \subseteq R
    BY DEF Part
  <2> QED
    BY <2>4, <2>5, <2>6
<1> QED
  BY <1>4, <1>5, <1>6 DEF PartsJoinedAt

\* What a key m in the place of another makes of the parts: of the two next to it the
\* border is moved.
PartsMovedAt(R, t, s, at, m) ==
    /\ \A i \in 1..Len(s) + 1 : i # at /\ i # at + 1 => Part(R, t, i) = Part(R, s, i)
    /\ Part(R, t, at) = {k \in Part(R, s, at) \cup Part(R, s, at + 1) : k < m}
    /\ Part(R, t, at + 1) = {k \in Part(R, s, at) \cup Part(R, s, at + 1) : m <= k}

\* m is a number of U, and not its least.
IsBorderIn(m, U) == m \in U /\ \E e \in U : e < m

\* A separator may be replaced by any number of the two parts next to it but the least.
LEMMA ReplacedInOrder ==
    ASSUME NEW S, NEW s \in Seq(S), NEW len \in Nat, len = Len(s), NEW R, NEW K,
           InOrder(s, R, K), Separates(s, R), NEW at \in 1..len, NEW m \in S, m \in K,
           IsBorderIn(m, Part(R, s, at) \cup Part(R, s, at + 1)),
           NEW t, t = [s EXCEPT ![at] = m]
    PROVE  InOrder(t, R, K) /\ Separates(t, R) /\ PartsMovedAt(R, t, s, at, m)
<1>1. PICK r : r = RemoveAt(s, at)
  OBVIOUS
<1>2. Removed(r, s, at)
  BY <1>1, RemovedIs
<1>3. PICK n \in Nat : n = len - 1
  OBVIOUS
<1>4. /\ Len(r) = n
      /\ \A i \in 1..n : r[i] = IF i < at THEN s[i] ELSE s[i + 1]
  BY <1>2, <1>3 DEF Removed
<1>5. Len(t) = len /\ \A i \in 1..len : t[i] = IF i = at THEN m ELSE s[i]
  <2>1. t \in Seq(S) /\ Len(t) = len
    BY ReplacedIs
  <2>2. DOMAIN s = 1..len
    BY LenProperties
  <2> QED
    BY <2>1, <2>2
<1>6. Inserted(t, r, at, m)
  <2>1. len = n + 1
    BY <1>3
  <2>2. ASSUME NEW i \in 1..n + 1
        PROVE  t[i] = IF i < at THEN r[i] ELSE IF i = at THEN m ELSE r[i - 1]
    <3>1. t[i] = IF i = at THEN m ELSE s[i]
      BY <1>5, <2>1
    <3>2. i < at => i \in 1..n /\ r[i] = s[i]
      <4>1. i < at => i \in 1..n
        BY <2>1
      <4> QED
        BY <1>4, <4>1
    <3>3. i > at => r[i - 1] = s[i]
      <4>1. i > at => i - 1 \in 1..n /\ ~(i - 1 < at) /\ (i - 1) + 1 = i
        BY <2>1
      <4> QED
        BY <1>4, <4>1
    <3>4. i < at \/ i = at \/ i > at
      OBVIOUS
    <3> QED
      BY <3>1, <3>2, <3>3, <3>4
  <2> QED
    BY <1>4, <1>5, <2>1, <2>2 DEF Inserted
<1>7. InOrder(r, R, K) /\ Separates(r, R)
  BY <1>2, RemovedInOrder
<1>8. PartsJoinedAt(R, r, s, at)
  BY <1>2, RemovedParts
<1>9. at \in 1..n + 1
  BY <1>3
<1>10. PICK U : U = Part(R, s, at) \cup Part(R, s, at + 1)
  OBVIOUS
<1>11. Part(R, r, at) = U
  BY <1>8, <1>10 DEF PartsJoinedAt
<1>12. m \in Part(R, r, at) /\ \E e \in Part(R, r, at) : e < m
  BY <1>10, <1>11 DEF IsBorderIn
<1>13. PICK e \in Part(R, r, at) : e < m
  BY <1>12
<1>14. m \in R /\ e \in R
  BY <1>12 DEF Part
<1>15. GoesAt(m, r, at)
  BY <1>4, <1>7, <1>9, <1>12, <1>13, PartGoesAt
<1>16. InOrder(t, R, K)
  BY <1>4, <1>6, <1>7, <1>9, <1>14, <1>15, InsertedInOrder
<1>17. Separates(t, R)
  BY <1>4, <1>6, <1>7, <1>9, <1>13, <1>14, InsertedSeparates
<1>18. PartsCutAt(R, t, r, at, m)
  BY <1>4, <1>6, <1>7, <1>9, <1>14, <1>15, InsertedParts
<1>19. Part(R, t, at) = {k \in U : k < m} /\ Part(R, t, at + 1) = {k \in U : m <= k}
  BY <1>11, <1>18 DEF PartsCutAt
<1>20. ASSUME NEW i \in 1..len + 1, i # at, i # at + 1 PROVE Part(R, t, i) = Part(R, s, i)
  <2>1. CASE i < at
    <3>1. i \in 1..n + 1 /\ i \in 1..len
      BY <1>3, <2>1
    <3> QED
      BY <1>4, <1>8, <1>18, <2>1, <3>1 DEF PartsCutAt, PartsJoinedAt
  <2>2. CASE i > at + 1
    <3>1. PICK h \in 1..n + 1 : i = h + 1 /\ h > at
      <4>1. i - 1 \in 1..n + 1 /\ i = (i - 1) + 1 /\ i - 1 > at
        BY <1>3, <2>2
      <4> QED
        BY <4>1
    <3>2. Part(R, t, h + 1) = Part(R, r, h)
      BY <1>4, <1>18, <3>1 DEF PartsCutAt
    <3>3. h \in 1..len
      BY <1>3, <3>1
    <3>4. Part(R, r, h) = Part(R, s, h + 1)
      BY <1>8, <3>1, <3>3 DEF PartsJoinedAt
    <3> QED
      BY <3>1, <3>2, <3>4
  <2> QED
    BY <1>20, <2>1, <2>2
<1>21. PartsMovedAt(R, t, s, at, m)
  BY <1>10, <1>19, <1>20 DEF PartsMovedAt
<1> QED
  BY <1>16, <1>17, <1>21

\* Something is for the child before a separator that is below it, and the separator
\* itself is for the child after it.
LEMMA SeparatorIs ==
    ASSUME NEW s, NEW len \in Nat, len = Len(s), NEW R, NEW K, InOrder(s, R, K),
           Separates(s, R), NEW at \in 1..len
    PROVE  /\ s[at] \in Part(R, s, at + 1) /\ s[at] \in R /\ s[at] \in K /\ s[at] \in Int
           /\ \E e \in Part(R, s, at) : e < s[at]
           /\ \A k \in Part(R, s, at) : k \in Int /\ k < s[at]
           /\ \A k \in Part(R, s, at + 1) : k \in Int /\ s[at] <= k
<1>1. /\ R \subseteq Int
      /\ \A i \in 1..len : s[i] \in R /\ s[i] \in K /\ s[i] \in Int
      /\ \A i, j \in 1..len : i < j => s[i] < s[j]
  BY DEF InOrder
<1>2. s[at] \in R /\ s[at] \in K /\ s[at] \in Int
  BY <1>1
<1>3. at + 1 > 1 /\ (at + 1) - 1 = at /\ at <= len
  OBVIOUS
<1>4. s[at] \in Part(R, s, at + 1)
  <2>1. at + 1 <= len => s[at] < s[at + 1]
    <3>1. at + 1 <= len => at + 1 \in 1..len /\ at < at + 1
      OBVIOUS
    <3> QED
      BY <1>1, <3>1
  <2>2. s[at] <= s[at]
    BY <1>2
  <2> QED
    BY <1>2, <1>3, <2>1, <2>2 DEF Part
<1>5. \E e \in Part(R, s, at) : e < s[at]
  <2>1. CASE at = 1
    <3>1. PICK e \in R : e < s[at]
      BY DEF Separates
    <3>2. e \in Part(R, s, at)
      BY <1>3, <2>1, <3>1 DEF Part
    <3> QED
      BY <3>1, <3>2
  <2>2. CASE at > 1
    <3>1. at - 1 \in 1..len /\ at - 1 < at
      BY <2>2
    <3>2. s[at - 1] \in R /\ s[at - 1] \in Int /\ s[at - 1] < s[at]
      BY <1>1, <3>1
    <3>3. s[at - 1] <= s[at - 1]
      BY <3>2
    <3>4. s[at - 1] \in Part(R, s, at)
      BY <1>3, <3>2, <3>3 DEF Part
    <3> QED
      BY <3>2, <3>4
  <2> QED
    BY <2>1, <2>2
<1>6. \A k \in Part(R, s, at) : k \in Int /\ k < s[at]
  BY <1>1, <1>3 DEF Part
<1>7. \A k \in Part(R, s, at + 1) : k \in Int /\ s[at] <= k
  BY <1>1, <1>3 DEF Part
<1> QED
  BY <1>2, <1>4, <1>5, <1>6, <1>7

\* A smaller key before the keys of a node.
LEMMA PrependedInOrder ==
    ASSUME NEW s, NEW len \in Nat, len = Len(s), NEW Y, NEW K, InOrder(s, Y, K),
           NEW R, R \subseteq Int, Y \subseteq R, NEW m \in R, m \in K,
           \A i \in 1..len : m < s[i], NEW t, Inserted(t, s, 1, m)
    PROVE  InOrder(t, R, K)
<1>1. InOrder(s, R, K)
  BY OrderWidens
<1>2. GoesAt(m, s, 1)
  BY DEF GoesAt
<1>3. 1 \in 1..len + 1
  OBVIOUS
<1> QED
  BY <1>1, <1>2, <1>3, InsertedInOrder

LEMMA PrependedParts ==
    ASSUME NEW s, NEW len \in Nat, len = Len(s), NEW R, NEW K, NEW m \in Int,
           NEW t, Inserted(t, s, 1, m), InOrder(t, R, K)
    PROVE  /\ Part(R, t, 1) = {k \in R : k < m}
           /\ \A i \in 1..len + 1 : Part(R, t, i + 1) = Part({k \in R : m <= k}, s, i)
<1>1. PICK n \in Nat : n = len + 1
  OBVIOUS
<1>2. /\ Len(t) = n
      /\ \A i \in 1..n : t[i] = IF i < 1 THEN s[i] ELSE IF i = 1 THEN m ELSE s[i - 1]
  BY <1>1 DEF Inserted
<1>3. t[1] = m /\ 1 <= n
  BY <1>1, <1>2
<1>4. Part(R, t, 1) = {k \in R : k < m}
  BY <1>2, <1>3 DEF Part
<1>5. Slice(s, t, 1, len)
  <2>1. ASSUME NEW i \in 1..len PROVE s[i] = t[1 + i]
    <3>1. 1 + i \in 1..n /\ ~(1 + i < 1) /\ 1 + i # 1 /\ (1 + i) - 1 = i
      BY <1>1
    <3> QED
      BY <1>2, <3>1
  <2> QED
    BY <2>1 DEF Slice
<1>6. Window(R, t, 1, len) = {k \in R : m <= k}
  <2>1. ~(1 + len + 1 <= n) /\ 1 >= 1
    BY <1>1
  <2> QED
    BY <1>2, <1>3, <2>1 DEF Window
<1>7. ASSUME NEW i \in 1..len + 1 PROVE Part(R, t, i + 1) = Part({k \in R : m <= k}, s, i)
  <2>1. PICK f \in Nat : f = 1 /\ f + len <= n
    BY <1>1
  <2>2. Part(Window(R, t, f, len), s, i) = Part(R, t, f + i)
    <3>1. Slice(s, t, f, len) /\ n = Len(t) /\ f + len <= n
      BY <1>2, <1>5, <2>1
    <3> QED
      BY ONLY <3>1, InOrder(t, R, K), n \in Nat, f \in Nat, len \in Nat, i \in 1..len + 1,
              SliceParts
  <2>3. f + i = i + 1
    BY <2>1
  <2> QED
    BY <1>6, <2>1, <2>2, <2>3
<1> QED
  BY <1>4, <1>7

\* A larger key after the keys of a node.
LEMMA AppendedInOrder ==
    ASSUME NEW s, NEW len \in Nat, len = Len(s), NEW X, NEW K, InOrder(s, X, K),
           NEW R, R \subseteq Int, X \subseteq R, NEW m \in R, m \in K,
           \A i \in 1..len : s[i] < m, NEW t, Inserted(t, s, len + 1, m)
    PROVE  InOrder(t, R, K)
<1>1. InOrder(s, R, K)
  BY OrderWidens
<1>2. PICK n \in Nat : n = len + 1
  OBVIOUS
<1>3. GoesAt(m, s, n)
  <2>1. \A i \in 1..len : ~(i >= n)
    BY <1>2
  <2> QED
    BY <2>1 DEF GoesAt
<1>4. n \in 1..len + 1
  BY <1>2
<1>5. Inserted(t, s, n, m)
  BY <1>2
<1> QED
  BY <1>1, <1>3, <1>4, <1>5, InsertedInOrder

LEMMA AppendedParts ==
    ASSUME NEW s, NEW len \in Nat, len = Len(s), NEW R, NEW K, NEW m \in Int,
           NEW t, Inserted(t, s, len + 1, m), InOrder(t, R, K)
    PROVE  /\ Part(R, t, len + 2) = {k \in R : m <= k}
           /\ \A i \in 1..len + 1 : Part(R, t, i) = Part({k \in R : k < m}, s, i)
<1>1. PICK n \in Nat : n = len + 1
  OBVIOUS
<1>2. /\ Len(t) = n
      /\ \A i \in 1..n : t[i] = IF i < n THEN s[i] ELSE IF i = n THEN m ELSE s[i - 1]
  BY <1>1 DEF Inserted
<1>3. t[n] = m /\ n >= 1
  BY <1>1, <1>2
<1>4. Part(R, t, len + 2) = {k \in R : m <= k}
  <2>1. len + 2 > 1 /\ (len + 2) - 1 = n /\ ~(len + 2 <= n)
    BY <1>1
  <2> QED
    BY <1>2, <1>3, <2>1 DEF Part
<1>5. Slice(s, t, 0, len)
  <2>1. ASSUME NEW i \in 1..len PROVE s[i] = t[0 + i]
    <3>1. 0 + i = i /\ i \in 1..n /\ i < n
      BY <1>1
    <3> QED
      BY <1>2, <3>1
  <2> QED
    BY <2>1 DEF Slice
<1>6. Window(R, t, 0, len) = {k \in R : k < m}
  <2>1. 0 + len + 1 <= n /\ ~(0 >= 1) /\ 0 + len + 1 = n
    BY <1>1
  <2> QED
    BY <1>2, <1>3, <2>1 DEF Window
<1>7. ASSUME NEW i \in 1..len + 1 PROVE Part(R, t, i) = Part({k \in R : k < m}, s, i)
  <2>1. 0 \in Nat /\ 0 + len <= n
    BY <1>1
  <2>2. Part(Window(R, t, 0, len), s, i) = Part(R, t, 0 + i)
    BY <1>2, <1>5, <2>1, SliceParts
  <2>3. 0 + i = i
    OBVIOUS
  <2> QED
    BY <1>6, <2>2, <2>3
<1> QED
  BY <1>4, <1>7

\* The node n is right for the numbers R: its keys, all of K, are in order, and each of its
\* children is for its part of R.
Holds(n, R, range, K) ==
    /\ InOrder(n.keys, R, K)
    /\ ~IsLeaf(n) => Separates(n.keys, R)
    /\ \A i \in 1..Len(n.children) :
          /\ n.children[i] \in DOMAIN range
          /\ range[n.children[i]] = Part(R, n.keys, i)

\* A leaf has only keys to be in order.
LEMMA LeafHolds ==
    ASSUME NEW n, n.children = << >>, NEW R, NEW K, InOrder(n.keys, R, K), NEW range
    PROVE  Holds(n, R, range, K)
<1>1. Len(<< >>) = 0
  OBVIOUS
<1> QED
  BY <1>1 DEF Holds, IsLeaf

\* An inner node that is made of some of the keys of another and the children around them.
LEMMA SliceHolds ==
    ASSUME NEW ids, NEW n \in Nodes(ids), NEW R, NEW K, NEW range, Holds(n, R, range, K),
           ~IsLeaf(n), NEW first \in Nat, NEW cnt \in Nat, first + cnt <= Len(n.keys),
           first + cnt + 1 <= Len(n.children),
           NEW t, Slice(t.keys, n.keys, first, cnt),
           Slice(t.children, n.children, first, cnt + 1)
    PROVE  Holds(t, Window(R, n.keys, first, cnt), range, K)
<1>1. PICK len \in Nat : len = Len(n.keys)
  BY NodeIs
<1>2. PICK lc \in Nat : lc = Len(n.children)
  BY NodeIs
<1>3. InOrder(n.keys, R, K) /\ Separates(n.keys, R)
  BY DEF Holds
<1>4. PICK W : W = Window(R, n.keys, first, cnt)
  OBVIOUS
<1>5. first + cnt <= len /\ first + cnt + 1 <= lc
  BY <1>1, <1>2
<1>6. InOrder(t.keys, W, K)
  BY <1>1, <1>3, <1>4, <1>5, SliceInOrder
<1>7. Separates(t.keys, W)
  BY <1>1, <1>3, <1>4, <1>5, SliceSeparates
<1>8. Len(t.children) = cnt + 1 /\ \A i \in 1..cnt + 1 : t.children[i] = n.children[first + i]
  BY DEF Slice
<1>9. ASSUME NEW i \in 1..cnt + 1
      PROVE  t.children[i] \in DOMAIN range /\ range[t.children[i]] = Part(W, t.keys, i)
  <2>1. PICK h \in 1..lc : h = first + i
    BY <1>5
  <2>2. t.children[i] = n.children[h]
    BY <1>8, <2>1
  <2>3. n.children[h] \in DOMAIN range /\ range[n.children[h]] = Part(R, n.keys, h)
    BY <1>2 DEF Holds
  <2>4. Part(Window(R, n.keys, first, cnt), t.keys, i) = Part(R, n.keys, first + i)
    BY <1>1, <1>3, <1>5, SliceParts
  <2> QED
    BY <1>4, <2>1, <2>2, <2>3, <2>4
<1> QED
  BY <1>4, <1>6, <1>7, <1>8, <1>9 DEF Holds

\* n, a full node, is split into l and r, with this key between them.
SplitsNode(l, r, m, n, height, right) ==
    /\ Fits(n, height) /\ IsFull(n)
    /\ IsLeftHalf(l, n, height, right) /\ IsRightHalf(r, n, height)
    /\ m = PromotedKey(n)

\* The two halves of a node for R are for the numbers below the key between them and
\* for the others.
SplitInOrder(l, r, m, R, range, K) ==
    /\ m \in K /\ IsBorderIn(m, R)
    /\ Holds(l, {k \in R : k < m}, range, K)
    /\ Holds(r, {k \in R : m <= k}, range, K)

\* The two halves of a full node are right for the numbers below and from the promoted key.
LEMMA SplitHolds ==
    ASSUME NEW ids, NEW n \in Nodes(ids), NEW height \in Nat, NEW R, NEW K, NEW range,
           Holds(n, R, range, K),
           NEW l, NEW r, NEW m, NEW right, SplitsNode(l, r, m, n, height, right)
    PROVE  SplitInOrder(l, r, m, R, range, K)
<1>1. PICK min \in Nat : min = MinKeys /\ min >= 1
  BY DegreeIs
<1>2. PICK keys : keys = n.keys
  OBVIOUS
<1>3. Len(keys) = 2 * min + 1
  <2>1. Len(n.keys) \in Nat /\ MaxKeys = 2 * min + 1
    BY <1>1, NodeIs, DegreeIs
  <2>2. Len(n.keys) <= MaxKeys /\ Len(n.keys) >= MaxKeys
    BY DEF SplitsNode, Fits, IsFull
  <2> QED
    BY <1>2, <2>1, <2>2
<1>4. PICK mid \in 1..2 * min + 1 : mid = min + 1
  BY <1>1
<1>5. m = keys[mid]
  <2>1. (2 * min + 1) \div 2 = min
    OBVIOUS
  <2>2. Middle(n) = min
    BY <1>2, <1>3, <2>1 DEF Middle
  <2> QED
    BY <1>2, <1>4, <2>2 DEF SplitsNode, PromotedKey
<1>6. InOrder(keys, R, K)
  BY <1>2 DEF Holds
<1>7. /\ R \subseteq Int
      /\ \A i \in 1..2 * min + 1 : keys[i] \in R /\ keys[i] \in K /\ keys[i] \in Int
      /\ \A i, j \in 1..2 * min + 1 : i < j => keys[i] < keys[j]
  BY <1>3, <1>6 DEF InOrder
<1>8. m \in R /\ m \in K /\ m \in Int
  BY <1>5, <1>7
<1>9. IsBorderIn(m, R)
  <2>1. 1 \in 1..2 * min + 1 /\ 1 < mid
    BY <1>1, <1>4
  <2>2. keys[1] < m /\ keys[1] \in R
    BY <1>5, <1>7, <2>1
  <2> QED
    BY <1>8, <2>2 DEF IsBorderIn
<1>10. Slice(l.keys, keys, 0, min)
  BY <1>1, <1>2 DEF SplitsNode, IsLeftHalf
<1>11. Window(R, keys, 0, min) = {k \in R : k < m}
  <2>1. ~(0 >= 1) /\ 0 + min + 1 = mid /\ 0 + min + 1 <= 2 * min + 1
    BY <1>1, <1>4
  <2> QED
    BY <1>3, <1>5, <2>1 DEF Window
<1>12. CASE height = 0
  <2>1. l.children = << >> /\ r.children = << >>
    BY <1>12 DEF SplitsNode, IsLeftHalf, IsRightHalf, Fits
  <2>2. InOrder(l.keys, {k \in R : k < m}, K)
    <3>1. PICK z \in Nat : z = 0 /\ z + min <= 2 * min + 1
      OBVIOUS
    <3>2. PICK len \in Nat : len = 2 * min + 1
      OBVIOUS
    <3>3. InOrder(l.keys, Window(R, keys, z, min), K)
      BY <1>3, <1>6, <1>10, <3>1, <3>2, SliceInOrder
    <3> QED
      BY <1>11, <3>1, <3>3
  <2>3. Holds(l, {k \in R : k < m}, range, K)
    BY <2>1, <2>2, LeafHolds
  <2>4. Slice(r.keys, keys, min, min + 1)
    BY <1>1, <1>2, <1>12 DEF SplitsNode, IsRightHalf
  <2>5. Len(r.keys) = min + 1 /\ \A i \in 1..min + 1 : r.keys[i] = keys[min + i]
    BY <2>4 DEF Slice
  <2>6. \A i \in 1..min + 1 : min + i \in 1..2 * min + 1 /\ (min + i = mid \/ mid < min + i)
    BY <1>4
  <2>7. ASSUME NEW i \in 1..min + 1
        PROVE  r.keys[i] \in {k \in R : m <= k} /\ r.keys[i] \in K
    <3>1. PICK h \in 1..2 * min + 1 : h = min + i /\ (h = mid \/ mid < h)
      BY <2>6
    <3>2. r.keys[i] = keys[h]
      BY <2>5, <3>1
    <3>3. keys[h] \in Int /\ keys[h] \in R /\ keys[h] \in K
      BY <1>7
    <3>4. keys[h] = m \/ m < keys[h]
      BY <1>5, <1>7, <3>1
    <3> QED
      BY <1>8, <3>2, <3>3, <3>4
  <2>8. ASSUME NEW i \in 1..min + 1, NEW j \in 1..min + 1, i < j PROVE r.keys[i] < r.keys[j]
    <3>1. min + i \in 1..2 * min + 1 /\ min + j \in 1..2 * min + 1 /\ min + i < min + j
      BY <2>8
    <3> QED
      BY <1>7, <2>5, <3>1
  <2>9. InOrder(r.keys, {k \in R : m <= k}, K)
    BY <1>7, <2>5, <2>7, <2>8 DEF InOrder
  <2>10. Holds(r, {k \in R : m <= k}, range, K)
    BY <2>1, <2>9, LeafHolds
  <2> QED
    BY <1>8, <1>9, <2>3, <2>10 DEF SplitInOrder
<1>13. CASE height # 0
  <2>1. Slice(l.children, n.children, 0, min + 1)
    BY <1>1, <1>13 DEF SplitsNode, IsLeftHalf
  <2>2. Slice(r.keys, keys, min + 1, min) /\ Slice(r.children, n.children, min + 1, min + 1)
    BY <1>1, <1>2, <1>13 DEF SplitsNode, IsRightHalf
  <2>3. ~IsLeaf(n) /\ Len(n.children) = 2 * min + 2
    <3>1. Len(n.children) = Len(n.keys) + 1
      BY <1>13 DEF SplitsNode, Fits
    <3>2. Len(n.children) = 2 * min + 2
      BY <1>2, <1>3, <3>1
    <3>3. Fits(n, height)
      BY DEF SplitsNode
    <3> QED
      BY <1>13, <3>2, <3>3, LeafIs
  <2>4. Holds(l, {k \in R : k < m}, range, K)
    <3>1. PICK z \in Nat : z = 0 /\ z + min <= 2 * min + 1 /\ z + min + 1 <= 2 * min + 2
      OBVIOUS
    <3>2. z + min <= Len(n.keys) /\ z + min + 1 <= Len(n.children)
      BY <1>2, <1>3, <2>3, <3>1
    <3>3. Slice(l.keys, n.keys, z, min) /\ Slice(l.children, n.children, z, min + 1)
      BY <1>2, <1>10, <2>1, <3>1
    <3>4. Holds(l, Window(R, n.keys, z, min), range, K)
      BY <2>3, <3>2, <3>3, SliceHolds
    <3> QED
      BY <1>2, <1>11, <3>1, <3>4
  <2>5. Holds(r, {k \in R : m <= k}, range, K)
    <3>1. PICK z \in Nat : z = min + 1 /\ z + min <= 2 * min + 1 /\ z + min + 1 <= 2 * min + 2
      OBVIOUS
    <3>2. z + min <= Len(n.keys) /\ z + min + 1 <= Len(n.children)
      BY <1>2, <1>3, <2>3, <3>1
    <3>3. Slice(r.keys, n.keys, z, min) /\ Slice(r.children, n.children, z, min + 1)
      BY <1>2, <2>2, <3>1
    <3>4. Holds(r, Window(R, n.keys, z, min), range, K)
      BY <2>3, <3>2, <3>3, SliceHolds
    <3>5. Window(R, keys, z, min) = {k \in R : m <= k}
      <4>1. z >= 1 /\ z = mid /\ ~(z + min + 1 <= 2 * min + 1)
        BY <1>4, <3>1
      <4> QED
        BY <1>3, <1>5, <4>1 DEF Window
    <3> QED
      BY <1>2, <3>4, <3>5
  <2> QED
    BY <1>8, <1>9, <2>4, <2>5 DEF SplitInOrder
<1> QED
  BY <1>12, <1>13

\* A node is right also for other ranges that are the same for its children.
LEMMA HoldsForOthers ==
    ASSUME NEW n, NEW R, NEW K, NEW range, Holds(n, R, range, K), NEW range2,
           \A i \in 1..Len(n.children) : /\ n.children[i] \in DOMAIN range2
                                         /\ range2[n.children[i]] = range[n.children[i]]
    PROVE  Holds(n, R, range2, K)
  BY DEF Holds

\* The numbers for the child c are shared with the new page r: from m on they are for r.
SplitsRange(range2, range, c, r, m) ==
    /\ c \in DOMAIN range /\ r \notin DOMAIN range
    /\ DOMAIN range2 = DOMAIN range \cup {r}
    /\ range2[c] = {k \in range[c] : k < m}
    /\ range2[r] = {k \in range[c] : m <= k}
    /\ \A x \in DOMAIN range \ {c} : range2[x] = range[x]

\* c is the i-th child of the node n, and no other.
IsOnlyAt(c, n, i) ==
    /\ i \in 1..Len(n.children) /\ n.children[i] = c
    /\ \A j \in 1..Len(n.children) : j # i => n.children[j] # c

\* The parent is right with the two halves in the place of the child.
LEMMA ParentOfSplitHolds ==
    ASSUME NEW ids, NEW p \in Nodes(ids), NEW height \in Nat, height # 0, Fits(p, height),
           NEW R, NEW K, NEW range, Holds(p, R, range, K),
           NEW idx, NEW c, IsOnlyAt(c, p, idx),
           NEW m \in AllKeys, m \in K, IsBorderIn(m, range[c]),
           NEW r \in ids, NEW range2, SplitsRange(range2, range, c, r, m)
    PROVE  Holds(ParentOfSplit(p, idx, m, r), R, range2, K)
<1>1. PICK len \in Nat : len = Len(p.keys)
  BY NodeIs
<1>2. PICK keys : keys = p.keys
  OBVIOUS
<1>3. PICK children : children = p.children
  OBVIOUS
<1>4. /\ keys \in Seq(AllKeys) /\ Len(keys) = len
      /\ children \in Seq(ids) /\ Len(children) = len + 1
  BY <1>1, <1>2, <1>3, NodeIs DEF Fits
<1>5. PICK q : q = ParentOfSplit(p, idx, m, r)
  OBVIOUS
<1>6. /\ q.keys = InsertAt(keys, idx, m) /\ q.children = InsertAt(children, idx + 1, r)
  BY <1>2, <1>3, <1>5 DEF ParentOfSplit, Nodes
<1>7. /\ idx \in 1..len + 1
      /\ \A i \in 1..len + 1 : children[i] \in DOMAIN range /\ range[children[i]] = Part(R, keys, i)
      /\ children[idx] = c /\ \A i \in 1..len + 1 : i # idx => children[i] # c
  BY <1>2, <1>3, <1>4 DEF IsOnlyAt, Holds
<1>8. Inserted(q.keys, keys, idx, m)
  BY <1>4, <1>6, <1>7, InsertedIs
<1>9. Inserted(q.children, children, idx + 1, r)
  <2>1. idx + 1 \in 1..(len + 1) + 1
    BY <1>7
  <2> QED
    BY <1>4, <1>6, <2>1, InsertedIs
<1>10. ~IsLeaf(p)
  BY LeafIs
<1>11. InOrder(keys, R, K) /\ Separates(keys, R)
  BY <1>2, <1>10 DEF Holds
<1>12. range[c] = Part(R, keys, idx)
  BY <1>7
<1>13. PICK e \in Part(R, keys, idx) : e < m
  BY <1>12 DEF IsBorderIn
<1>14. m \in Part(R, keys, idx)
  BY <1>12 DEF IsBorderIn
<1>15. m \in R /\ e \in R
  BY <1>14 DEF Part
<1>16. GoesAt(m, keys, idx)
  BY <1>4, <1>7, <1>11, <1>13, <1>14, PartGoesAt
<1>17. InOrder(q.keys, R, K)
  BY <1>4, <1>7, <1>8, <1>11, <1>15, <1>16, InsertedInOrder
<1>18. Separates(q.keys, R)
  BY <1>4, <1>7, <1>8, <1>11, <1>13, <1>15, InsertedSeparates
<1>19. PartsCutAt(R, q.keys, keys, idx, m)
  BY <1>4, <1>7, <1>8, <1>11, <1>15, <1>16, InsertedParts
<1>20. /\ Len(q.children) = len + 2
       /\ \A i \in 1..len + 2 :
             q.children[i] = IF i < idx + 1 THEN children[i]
                             ELSE IF i = idx + 1 THEN r ELSE children[i - 1]
  <2>1. (len + 1) + 1 = len + 2
    OBVIOUS
  <2> QED
    BY <1>4, <1>9, <2>1 DEF Inserted
<1>21. ASSUME NEW i \in 1..len + 2
       PROVE  /\ q.children[i] \in DOMAIN range2
              /\ range2[q.children[i]] = Part(R, q.keys, i)
  <2>1. CASE i < idx
    <3>1. i \in 1..len + 1 /\ i < idx + 1 /\ i # idx
      BY <1>7, <2>1
    <3>2. q.children[i] = children[i] /\ children[i] # c
      BY <1>7, <1>20, <3>1
    <3>3. Part(R, q.keys, i) = Part(R, keys, i)
      BY <1>4, <1>19, <2>1, <3>1 DEF PartsCutAt
    <3>4. children[i] \in DOMAIN range /\ range[children[i]] = Part(R, keys, i)
      BY <1>7, <3>1
    <3>5. children[i] \in DOMAIN range2 /\ range2[children[i]] = range[children[i]]
      BY <3>2, <3>4 DEF SplitsRange
    <3> QED
      BY <3>2, <3>3, <3>4, <3>5
  <2>2. CASE i = idx
    <3>1. i < idx + 1
      BY <1>7, <2>2
    <3>2. q.children[i] = c
      BY <1>7, <1>20, <2>2, <3>1
    <3>3. c \in DOMAIN range2 /\ range2[c] = {k \in Part(R, keys, idx) : k < m}
      BY <1>12 DEF SplitsRange
    <3>4. Part(R, q.keys, i) = {k \in Part(R, keys, idx) : k < m}
      BY <1>19, <2>2 DEF PartsCutAt
    <3> QED
      BY <3>2, <3>3, <3>4
  <2>3. CASE i = idx + 1
    <3>1. ~(i < idx + 1)
      BY <1>7, <2>3
    <3>2. q.children[i] = r
      BY <1>20, <2>3, <3>1
    <3>3. r \in DOMAIN range2 /\ range2[r] = {k \in Part(R, keys, idx) : m <= k}
      BY <1>12 DEF SplitsRange
    <3>4. Part(R, q.keys, i) = {k \in Part(R, keys, idx) : m <= k}
      BY <1>19, <2>3 DEF PartsCutAt
    <3> QED
      BY <3>2, <3>3, <3>4
  <2>4. CASE i > idx + 1
    <3>1. PICK h \in 1..len + 1 : h = i - 1 /\ h > idx /\ h # idx /\ i = h + 1
      <4>1. i - 1 \in 1..len + 1 /\ i - 1 > idx /\ i - 1 # idx /\ i = (i - 1) + 1
        BY <1>7, <2>4
      <4> QED
        BY <4>1
    <3>2. ~(i < idx + 1) /\ i # idx + 1
      BY <1>7, <2>4
    <3>3. q.children[i] = children[h] /\ children[h] # c
      BY <1>7, <1>20, <3>1, <3>2
    <3>4. Part(R, q.keys, i) = Part(R, keys, h)
      BY <1>4, <1>19, <3>1 DEF PartsCutAt
    <3>5. children[h] \in DOMAIN range /\ range[children[h]] = Part(R, keys, h)
      BY <1>7
    <3>6. children[h] \in DOMAIN range2 /\ range2[children[h]] = range[children[h]]
      BY <3>3, <3>5 DEF SplitsRange
    <3> QED
      BY <3>3, <3>4, <3>5, <3>6
  <2> QED
    BY <1>7, <2>1, <2>2, <2>3, <2>4
<1>22. Holds(q, R, range2, K)
  BY <1>17, <1>18, <1>20, <1>21 DEF Holds
<1> QED
  BY <1>5, <1>22

\* All pages of DOMAIN range hold the keys they are for; the root is for all numbers.
IsOrdered(P, root, range, K) ==
    /\ root \in DOMAIN range /\ range[root] = Int
    /\ \A x \in DOMAIN range : Holds(P[x], range[x], range, K)

\* A split keeps the keys in order, all over the tree.
LEMMA SplitKeepsOrder ==
    ASSUME NEW P, NEW ids, NEW root, NEW tree, NEW height, NEW above, NEW place,
           IsTree(P, ids, root, tree, height, above, place),
           NEW range, DOMAIN range \subseteq tree, NEW K, IsOrdered(P, root, range, K),
           NEW p \in DOMAIN range, NEW idx, NEW c, NEW r, NEW Q,
           IsSplit(Q, P, ids, height, p, idx, c, r),
           NEW m \in AllKeys, m = PromotedKey(P[c]), Q[p] = ParentOfSplit(P[p], idx, m, r),
           NEW range2, SplitsRange(range2, range, c, r, m)
    PROVE  IsOrdered(Q, root, range2, K)
<1>1. p \in tree /\ p \in ids /\ c \in tree /\ c \in ids /\ c # root
      /\ idx \in 1..Len(P[p].children) /\ above[c] = p /\ height[p] = height[c] + 1
  <2>1. p \in tree /\ p \in ids /\ idx \in 1..Len(P[p].children)
    BY DEF IsTree, IsSplit
  <2>2. PICK y : y = P[p].children[idx]
    OBVIOUS
  <2>3. Leads(y, p, idx, root, tree, height, above, place)
    BY <2>1, <2>2 DEF IsTree
  <2>4. y = c
    BY <2>2 DEF IsSplit
  <2> QED
    BY <2>1, <2>3, <2>4 DEF Leads, IsTree
<1>2. \A x \in DOMAIN range : \A i \in 1..Len(P[x].children) :
         Leads(P[x].children[i], x, i, root, tree, height, above, place)
  BY DEF IsTree
<1>3. \A x \in ids : /\ P[x] \in Nodes(ids) /\ height[x] \in Nat /\ Fits(P[x], height[x])
  BY TreeNodeIs
<1>4. r \notin ids /\ r # c /\ r # p /\ p # c
  <2>1. r \notin ids
    BY DEF IsSplit
  <2>2. height[p] # height[c]
    BY <1>1, <1>3
  <2> QED
    BY <1>1, <2>1, <2>2
<1>5. c \in DOMAIN range
  BY DEF SplitsRange
<1>6. \A x \in DOMAIN range : Holds(P[x], range[x], range, K)
  BY DEF IsOrdered
<1>7. SplitsNode(Q[c], Q[r], m, P[c], height[c], r)
  BY <1>1, <1>3 DEF IsSplit, SplitsNode
<1>8. /\ m \in K /\ IsBorderIn(m, range[c])
      /\ Holds(Q[c], range2[c], range, K) /\ Holds(Q[r], range2[r], range, K)
  <2>1. P[c] \in Nodes(ids) /\ height[c] \in Nat /\ Holds(P[c], range[c], range, K)
    BY <1>1, <1>3, <1>5, <1>6
  <2>2. PICK n, R, left, right, h : /\ n = P[c] /\ R = range[c] /\ left = Q[c] /\ right = Q[r]
                                    /\ h = height[c]
    OBVIOUS
  <2>3. /\ n \in Nodes(ids) /\ h \in Nat /\ Holds(n, R, range, K)
        /\ SplitsNode(left, right, m, n, h, r)
    BY <1>7, <2>1, <2>2
  <2>4. SplitInOrder(left, right, m, R, range, K)
    BY ONLY <2>3, SplitHolds
  <2> QED
    BY <2>2, <2>4 DEF SplitsRange, SplitInOrder
<1>9. \A x \in DOMAIN range \ {c} : x \in DOMAIN range2 /\ range2[x] = range[x]
  BY DEF SplitsRange
<1>10. \A i \in 1..Len(P[c].children) : P[c].children[i] # c
  <2>1. ASSUME NEW i \in 1..Len(P[c].children), P[c].children[i] = c PROVE FALSE
    <3>1. height[c] = height[c] + 1
      BY <1>2, <1>5, <2>1 DEF Leads
    <3> QED
      BY <1>1, <1>3, <3>1
  <2> QED
    BY <2>1
<1>11. \A i \in 1..Len(P[c].children) : P[c].children[i] \in DOMAIN range
  BY <1>5, <1>6 DEF Holds
<1>12. PICK h \in Nat : h = height[c] /\ Fits(P[c], h)
  BY <1>1, <1>3
<1>13. PICK lc \in Nat : lc = Len(P[c].children)
  BY <1>1, <1>3, NodeIs
<1>14. /\ \A i \in 1..Len(Q[c].children) : \E j \in 1..lc : Q[c].children[i] = P[c].children[j]
       /\ \A i \in 1..Len(Q[r].children) : \E j \in 1..lc : Q[r].children[i] = P[c].children[j]
  <2>1. CASE h = 0
    <3>1. Q[c].children = << >> /\ Q[r].children = << >> /\ Len(<< >>) = 0
      BY <1>7, <1>12, <2>1 DEF SplitsNode, IsLeftHalf, IsRightHalf, Fits
    <3> QED
      BY <3>1
  <2>2. CASE h # 0
    <3>1. PICK min \in Nat : min = MinKeys
      BY DegreeIs
    <3>2. lc = 2 * min + 2
      <4>1. lc = Len(P[c].keys) + 1 /\ Len(P[c].keys) <= MaxKeys /\ Len(P[c].keys) >= MaxKeys
        BY <1>7, <1>12, <1>13, <2>2 DEF SplitsNode, Fits, IsFull
      <4>2. Len(P[c].keys) \in Nat /\ MaxKeys = 2 * min + 1
        BY <1>1, <1>3, <3>1, NodeIs, DegreeIs
      <4> QED
        BY <4>1, <4>2
    <3>3. /\ Slice(Q[c].children, P[c].children, 0, min + 1)
          /\ Slice(Q[r].children, P[c].children, min + 1, min + 1)
      BY <1>7, <1>12, <2>2, <3>1 DEF SplitsNode, IsLeftHalf, IsRightHalf
    <3>4. \A i \in 1..min + 1 : 0 + i \in 1..lc /\ (min + 1) + i \in 1..lc
      BY <3>2
    <3> QED
      BY <3>3, <3>4 DEF Slice
  <2> QED
    BY <2>1, <2>2
<1>15. Holds(Q[c], range2[c], range2, K)
  <2>1. \A i \in 1..Len(Q[c].children) : /\ Q[c].children[i] \in DOMAIN range2
                                         /\ range2[Q[c].children[i]] = range[Q[c].children[i]]
    BY <1>9, <1>10, <1>11, <1>13, <1>14
  <2> QED
    BY <1>8, <2>1, HoldsForOthers
<1>16. Holds(Q[r], range2[r], range2, K)
  <2>1. \A i \in 1..Len(Q[r].children) : /\ Q[r].children[i] \in DOMAIN range2
                                         /\ range2[Q[r].children[i]] = range[Q[r].children[i]]
    BY <1>9, <1>10, <1>11, <1>13, <1>14
  <2> QED
    BY <1>8, <2>1, HoldsForOthers
<1>17. Holds(Q[p], range2[p], range2, K)
  <2>1. IsOnlyAt(c, P[p], idx)
    <3>1. idx \in 1..Len(P[p].children) /\ P[p].children[idx] = c
      BY DEF IsSplit
    <3>2. \A j \in 1..Len(P[p].children) : place[P[p].children[j]] = j
      BY <1>2 DEF Leads
    <3> QED
      BY <3>1, <3>2 DEF IsOnlyAt
  <2>2. PICK more : more = ids \cup {r}
    OBVIOUS
  <2>3. P[p] \in Nodes(more) /\ r \in more
    <3>1. P[p] \in Nodes(ids) /\ ids \subseteq more /\ r \in more
      BY <1>1, <1>3, <2>2
    <3>2. Nodes(ids) \subseteq Nodes(more)
      BY <3>1, NodesGrow
    <3> QED
      BY <3>1, <3>2
  <2>4. height[p] \in Nat /\ height[p] # 0 /\ Fits(P[p], height[p])
    BY <1>1, <1>3
  <2>5. Holds(P[p], range[p], range, K)
    BY <1>6
  <2>6. Holds(ParentOfSplit(P[p], idx, m, r), range[p], range2, K)
    BY <1>8, <2>1, <2>3, <2>4, <2>5, ParentOfSplitHolds
  <2>7. range2[p] = range[p]
    BY <1>4, <1>9
  <2> QED
    BY <2>6, <2>7
<1>18. ASSUME NEW x \in DOMAIN range, x # c, x # p PROVE Holds(Q[x], range2[x], range2, K)
  <2>1. x \in ids \ {p, c}
    BY <1>18 DEF IsTree
  <2>2. Q[x] = P[x]
    BY <2>1 DEF IsSplit
  <2>3. \A i \in 1..Len(P[x].children) : P[x].children[i] # c
    BY <1>1, <1>2, <1>18 DEF Leads
  <2>4. Holds(P[x], range[x], range, K)
    BY <1>6
  <2>5. \A i \in 1..Len(P[x].children) : P[x].children[i] \in DOMAIN range
    BY <2>4 DEF Holds
  <2>6. Holds(P[x], range[x], range2, K)
    BY <1>9, <2>3, <2>4, <2>5, HoldsForOthers
  <2> QED
    BY <1>9, <1>18, <2>2, <2>6
<1>19. root \in DOMAIN range2 /\ range2[root] = Int
  BY <1>1, <1>9 DEF IsOrdered
<1>20. DOMAIN range2 = DOMAIN range \cup {r}
  BY DEF SplitsRange
<1> QED
  BY <1>15, <1>16, <1>17, <1>18, <1>19, <1>20 DEF IsOrdered

\* The numbers of X are below the key s, those of Y are not, and s is one of them.
Borders(X, Y, s) ==
    /\ X \subseteq Int /\ Y \subseteq Int /\ s \in Y
    /\ \A k \in X : k < s
    /\ \A k \in Y : s <= k
    /\ \E e \in X : e < s

\* Keys in order for R are so for fewer numbers that they are all among.
LEMMA OrderNarrows ==
    ASSUME NEW s, NEW R, NEW K, InOrder(s, R, K), NEW S, S \subseteq Int,
           \A i \in 1..Len(s) : s[i] \in S
    PROVE  InOrder(s, S, K)
  BY DEF InOrder

LEMMA SeparatesWider ==
    ASSUME NEW s, NEW R, Separates(s, R), NEW S, R \subseteq S
    PROVE  Separates(s, S)
  BY DEF Separates

\* All keys of an inner node for Y are above the border below Y.
LEMMA KeysAboveBorder ==
    ASSUME NEW s, NEW len \in Nat, len = Len(s), NEW K, NEW X, NEW Y, NEW b, Borders(X, Y, b),
           InOrder(s, Y, K), Separates(s, Y), NEW i \in 1..len
    PROVE  b < s[i]
<1>1. PICK e \in Y : e < s[i]
  BY DEF Separates
<1>2. s[i] \in Int /\ e \in Int /\ b \in Int /\ b <= e
  BY DEF InOrder, Borders
<1> QED
  BY <1>1, <1>2

\* g and u are what was l and t, neighbours, after l has lent to t, which is right of it;
\* s is the separator between them.
LentFromLeft(g, u, l, t, s) ==
    /\ g.keys = Front(l.keys)
    /\ u.keys = <<IF IsLeaf(t) THEN Last(l.keys) ELSE s>> \o t.keys
    /\ IsLeaf(t) => g.children = << >> /\ u.children = << >>
    /\ ~IsLeaf(t) => /\ g.children = Front(l.children)
                     /\ u.children = <<Last(l.children)>> \o t.children

\* The nodes l and r, neighbours, are now for the numbers below m and from m on.
LoanInOrder(l, r, m, X, Y, range, K) ==
    /\ m \in K /\ m \in AllKeys /\ IsBorderIn(m, X \cup Y)
    /\ Holds(l, {k \in X \cup Y : k < m}, range, K)
    /\ Holds(r, {k \in X \cup Y : m <= k}, range, K)

\* A loan from the left: both nodes are right for the new border between them.
LEMMA LoanFromLeftHolds ==
    ASSUME NEW ids, NEW l \in Nodes(ids), NEW t \in Nodes(ids), NEW height \in Nat,
           Fits(l, height), Fits(t, height), CanLendKeys(l),
           NEW X, NEW Y, NEW K, NEW range, Holds(l, X, range, K), Holds(t, Y, range, K),
           NEW s \in AllKeys, s \in K, Borders(X, Y, s),
           NEW g, NEW u, LentFromLeft(g, u, l, t, s)
    PROVE  LoanInOrder(g, u, Last(l.keys), X, Y, range, K)
<1>1. PICK lk : lk = l.keys
  OBVIOUS
<1>2. PICK tk : tk = t.keys
  OBVIOUS
<1>3. PICK len \in Nat : len = Len(lk) /\ len >= 2
  <2>1. Len(lk) \in Nat /\ MinKeys \in Nat /\ MinKeys >= 1 /\ Len(lk) > MinKeys
    BY <1>1, NodeIs, DegreeIs DEF CanLendKeys
  <2> QED
    BY <2>1
<1>4. PICK lt \in Nat : lt = Len(tk)
  BY <1>2, NodeIs
<1>5. PICK m : m = Last(lk)
  OBVIOUS
<1>6. /\ lk \in Seq(AllKeys) /\ tk \in Seq(AllKeys)
      /\ Removed(Front(lk), lk, len) /\ m = lk[len] /\ m \in AllKeys
  <2>1. lk \in Seq(AllKeys) /\ tk \in Seq(AllKeys) /\ Len(lk) > 0
    BY <1>1, <1>2, <1>3, NodeIs
  <2> QED
    BY <1>3, <1>5, <2>1, FrontIs
<1>7. InOrder(lk, X, K) /\ InOrder(tk, Y, K)
  BY <1>1, <1>2 DEF Holds
<1>8. /\ \A i \in 1..len : lk[i] \in X /\ lk[i] \in K /\ lk[i] \in Int
      /\ \A i, j \in 1..len : i < j => lk[i] < lk[j]
      /\ \A i \in 1..lt : tk[i] \in Y /\ tk[i] \in Int
  BY <1>3, <1>4, <1>7 DEF InOrder
<1>9. /\ m \in X /\ m \in K /\ m \in Int /\ s \in Int /\ m < s
      /\ \A k \in Y : k \in Int /\ s <= k
      /\ \A k \in X : k \in Int /\ k < s
      /\ s \in Y
  <2>1. len \in 1..len
    BY <1>3
  <2> QED
    BY <1>6, <1>8, <2>1 DEF Borders
<1>10. IsBorderIn(m, X \cup Y)
  <2>1. 1 \in 1..len /\ len \in 1..len /\ 1 < len
    BY <1>3
  <2>2. lk[1] \in X /\ lk[1] < m
    BY <1>6, <1>8, <2>1
  <2> QED
    BY <1>9, <2>2 DEF IsBorderIn
<1>11. PICK low : low = {k \in X \cup Y : k < m}
  OBVIOUS
<1>12. PICK high : high = {k \in X \cup Y : m <= k}
  OBVIOUS
<1>13. low = {k \in X : k < m}
  <2>1. \A k \in Y : ~(k < m)
    BY <1>9
  <2> QED
    BY <1>11, <2>1
<1>14. Y \subseteq high /\ high \subseteq Int /\ m \in high /\ s \in high
  <2>1. \A k \in Y : m <= k
    BY <1>9
  <2>2. m <= m
    BY <1>9
  <2> QED
    BY <1>9, <1>12, <2>1, <2>2
<1>15. PICK n \in Nat : n = len - 1 /\ 0 + n + 1 = len
  BY <1>3
<1>16. Slice(g.keys, lk, 0, n)
  <2>1. g.keys = Front(lk)
    BY <1>1 DEF LentFromLeft
  <2>2. Len(Front(lk)) = n /\ \A i \in 1..n : Front(lk)[i] = IF i < len THEN lk[i] ELSE lk[i + 1]
    BY <1>3, <1>6, <1>15 DEF Removed
  <2>3. \A i \in 1..n : i < len /\ 0 + i = i
    BY <1>15
  <2> QED
    BY <2>1, <2>2, <2>3 DEF Slice
<1>17. PICK z \in Nat : z = 0
  OBVIOUS
<1>18. Window(X, lk, z, n) = low
  <2>1. ~(z >= 1) /\ z + n + 1 = len /\ len <= len
    BY <1>15, <1>17
  <2> QED
    BY <1>3, <1>6, <1>13, <2>1 DEF Window
<1>19. CASE height = 0
  <2>1. IsLeaf(t)
    BY <1>19, LeafIs
  <2>2. g.children = << >> /\ u.children = << >>
    BY <2>1 DEF LentFromLeft
  <2>3. InOrder(g.keys, low, K)
    <3>1. Slice(g.keys, lk, z, n) /\ z + n <= len
      BY <1>15, <1>16, <1>17
    <3>2. InOrder(g.keys, Window(X, lk, z, n), K)
      BY <1>3, <1>7, <3>1, SliceInOrder
    <3> QED
      BY <1>18, <3>2
  <2>4. Inserted(u.keys, tk, 1, m)
    <3>1. u.keys = <<m>> \o tk
      BY <1>1, <1>2, <1>5, <2>1 DEF LentFromLeft
    <3> QED
      BY <1>6, <3>1, PrependedIs
  <2>5. \A i \in 1..lt : m < tk[i]
    BY <1>8, <1>9
  <2>6. InOrder(u.keys, high, K)
    BY <1>4, <1>7, <1>9, <1>14, <2>4, <2>5, PrependedInOrder
  <2>7. Holds(g, low, range, K) /\ Holds(u, high, range, K)
    BY <2>2, <2>3, <2>6, LeafHolds
  <2> QED
    BY <1>1, <1>5, <1>6, <1>9, <1>10, <1>11, <1>12, <2>7 DEF LoanInOrder
<1>20. CASE height # 0
  <2>1. ~IsLeaf(t) /\ ~IsLeaf(l)
    BY <1>20, LeafIs
  <2>2. PICK lc : lc = l.children
    OBVIOUS
  <2>3. PICK tc : tc = t.children
    OBVIOUS
  <2>4. lc \in Seq(ids) /\ Len(lc) = len + 1 /\ tc \in Seq(ids) /\ Len(tc) = lt + 1
    BY <1>1, <1>2, <1>3, <1>4, <1>20, <2>2, <2>3, NodeIs DEF Fits
  <2>5. Separates(tk, Y)
    BY <1>2, <2>1 DEF Holds
  <2>6. Holds(g, low, range, K)
    <3>1. Removed(Front(lc), lc, len + 1) /\ Last(lc) = lc[len + 1]
      <4>1. Len(lc) > 0
        BY <2>4
      <4> QED
        BY <2>4, <4>1, FrontIs
    <3>2. Len(Front(lc)) = len /\ \A i \in 1..len : Front(lc)[i] = lc[i]
      <4>1. /\ Len(Front(lc)) = (len + 1) - 1
            /\ \A i \in 1..(len + 1) - 1 : Front(lc)[i] = IF i < len + 1 THEN lc[i] ELSE lc[i + 1]
        BY <2>4, <3>1 DEF Removed
      <4>2. (len + 1) - 1 = len /\ \A i \in 1..len : i < len + 1
        OBVIOUS
      <4> QED
        BY <4>1, <4>2
    <3>3. g.children = Front(lc)
      BY <2>1, <2>2 DEF LentFromLeft
    <3>4. Slice(g.children, l.children, z, n + 1)
      <4>1. n + 1 = len /\ \A i \in 1..len : z + i = i
        BY <1>15, <1>17
      <4> QED
        BY <2>2, <3>2, <3>3, <4>1 DEF Slice
    <3>5. Slice(g.keys, l.keys, z, n) /\ z + n <= Len(l.keys)
      BY <1>1, <1>3, <1>15, <1>16, <1>17
    <3>6. z + n + 1 <= Len(l.children)
      BY <1>15, <1>17, <2>2, <2>4
    <3>7. Holds(g, Window(X, l.keys, z, n), range, K)
      BY <2>1, <3>4, <3>5, <3>6, SliceHolds
    <3> QED
      BY <1>1, <1>18, <3>7
  <2>7. Inserted(u.keys, tk, 1, s)
    <3>1. u.keys = <<s>> \o tk
      BY <1>2, <2>1 DEF LentFromLeft
    <3> QED
      BY <1>6, <3>1, PrependedIs
  <2>8. \A i \in 1..lt : s < tk[i]
    BY <1>4, <1>7, <2>5, KeysAboveBorder
  <2>9. InOrder(u.keys, high, K)
    BY <1>4, <1>7, <1>9, <1>14, <2>7, <2>8, PrependedInOrder
  <2>10. Separates(u.keys, high)
    <3>1. Separates(tk, high)
      BY <1>14, <2>5, SeparatesWider
    <3>2. PICK o \in 1..lt + 1 : o = 1
      OBVIOUS
    <3>3. Inserted(u.keys, tk, o, s)
      BY <2>7, <3>2
    <3> QED
      BY <1>4, <1>9, <1>14, <3>1, <3>3, InsertedSeparates
  <2>11. /\ Part(high, u.keys, 1) = {k \in high : k < s}
         /\ \A i \in 1..lt + 1 : Part(high, u.keys, i + 1) = Part({k \in high : s <= k}, tk, i)
    BY <1>4, <1>9, <2>7, <2>9, PrependedParts
  <2>12. {k \in high : s <= k} = Y
    <3>1. \A k \in X : ~(s <= k)
      BY <1>9
    <3>2. \A k \in Y : s <= k /\ m <= k
      BY <1>9
    <3> QED
      BY <1>12, <3>1, <3>2
  <2>13. {k \in high : k < s} = Part(X, lk, len + 1)
    <3>1. \A k \in Y : ~(k < s)
      BY <1>9
    <3>2. len + 1 > 1 /\ (len + 1) - 1 = len /\ ~(len + 1 <= len)
      BY <1>3
    <3>3. Part(X, lk, len + 1) = {k \in X : m <= k}
      BY <1>3, <1>6, <3>2 DEF Part
    <3> QED
      BY <1>9, <1>12, <3>1, <3>3
  <2>14. /\ Len(u.children) = lt + 2
         /\ u.children[1] = lc[len + 1]
         /\ \A i \in 1..lt + 1 : u.children[i + 1] = tc[i]
    <3>1. u.children = <<Last(lc)>> \o tc
      BY <2>1, <2>2, <2>3 DEF LentFromLeft
    <3>2. Last(lc) = lc[len + 1] /\ Last(lc) \in ids
      <4>1. Len(lc) > 0
        BY <2>4
      <4> QED
        BY <2>4, <4>1, FrontIs
    <3>3. Inserted(u.children, tc, 1, lc[len + 1])
      BY <2>4, <3>1, <3>2, PrependedIs
    <3>4. /\ Len(u.children) = (lt + 1) + 1
          /\ \A i \in 1..(lt + 1) + 1 :
                u.children[i] = IF i < 1 THEN tc[i] ELSE IF i = 1 THEN lc[len + 1] ELSE tc[i - 1]
      BY <2>4, <3>3 DEF Inserted
    <3>5. /\ (lt + 1) + 1 = lt + 2 /\ 1 \in 1..(lt + 1) + 1
          /\ \A i \in 1..lt + 1 : /\ i + 1 \in 1..(lt + 1) + 1 /\ ~(i + 1 < 1) /\ i + 1 # 1
                                  /\ (i + 1) - 1 = i
      OBVIOUS
    <3> QED
      BY <3>4, <3>5
  <2>15. ASSUME NEW i \in 1..lt + 2
         PROVE  /\ u.children[i] \in DOMAIN range
                /\ range[u.children[i]] = Part(high, u.keys, i)
    <3>1. CASE i = 1
      <4>1. len + 1 \in 1..Len(l.children)
        BY <2>2, <2>4
      <4>2. /\ lc[len + 1] \in DOMAIN range
            /\ range[lc[len + 1]] = Part(X, lk, len + 1)
        BY <1>1, <2>2, <4>1 DEF Holds
      <4> QED
        BY <2>11, <2>13, <2>14, <3>1, <4>2
    <3>2. CASE i # 1
      <4>1. PICK j \in 1..lt + 1 : i = j + 1
        <5>1. i - 1 \in 1..lt + 1 /\ i = (i - 1) + 1
          BY <3>2
        <5> QED
          BY <5>1
      <4>2. tc[j] \in DOMAIN range /\ range[tc[j]] = Part(Y, tk, j)
        BY <1>2, <2>3, <2>4 DEF Holds
      <4> QED
        BY <2>11, <2>12, <2>14, <4>1, <4>2
    <3> QED
      BY <3>1, <3>2
  <2>16. Holds(u, high, range, K)
    BY <2>9, <2>10, <2>14, <2>15 DEF Holds
  <2> QED
    BY <1>1, <1>5, <1>6, <1>9, <1>10, <1>11, <1>12, <2>6, <2>16 DEF LoanInOrder
<1> QED
  BY <1>19, <1>20

\* g and u are what was r and t, neighbours, after r has lent to t, which is left of it;
\* s is the separator between them.
LentFromRight(g, u, r, t, s) ==
    /\ g.keys = Tail(r.keys)
    /\ u.keys = Append(t.keys, IF IsLeaf(t) THEN Head(r.keys) ELSE s)
    /\ IsLeaf(t) => g.children = << >> /\ u.children = << >>
    /\ ~IsLeaf(t) => /\ g.children = Tail(r.children)
                     /\ u.children = Append(t.children, Head(r.children))

\* A loan from the right: both nodes are right for the new border between them.
LEMMA LoanFromRightHolds ==
    ASSUME NEW ids, NEW r \in Nodes(ids), NEW t \in Nodes(ids), NEW height \in Nat,
           Fits(r, height), Fits(t, height), CanLendKeys(r),
           NEW X, NEW Y, NEW K, NEW range, Holds(t, X, range, K), Holds(r, Y, range, K),
           NEW s \in AllKeys, s \in K, Borders(X, Y, s),
           NEW g, NEW u, LentFromRight(g, u, r, t, s)
    PROVE  LoanInOrder(u, g, IF IsLeaf(t) THEN r.keys[2] ELSE Head(r.keys), X, Y, range, K)
<1>1. PICK rk : rk = r.keys
  OBVIOUS
<1>2. PICK tk : tk = t.keys
  OBVIOUS
<1>3. PICK len \in Nat : len = Len(rk) /\ len >= 2
  <2>1. Len(rk) \in Nat /\ MinKeys \in Nat /\ MinKeys >= 1 /\ Len(rk) > MinKeys
    BY <1>1, NodeIs, DegreeIs DEF CanLendKeys
  <2> QED
    BY <2>1
<1>4. PICK lt \in Nat : lt = Len(tk)
  BY <1>2, NodeIs
<1>5. PICK m : m = IF IsLeaf(t) THEN r.keys[2] ELSE Head(r.keys)
  OBVIOUS
<1>6. /\ rk \in Seq(AllKeys) /\ tk \in Seq(AllKeys)
      /\ Removed(Tail(rk), rk, 1) /\ Head(rk) = rk[1] /\ rk[1] \in AllKeys /\ rk[2] \in AllKeys
  <2>1. rk \in Seq(AllKeys) /\ tk \in Seq(AllKeys) /\ Len(rk) > 0
    BY <1>1, <1>2, <1>3, NodeIs
  <2>2. 2 \in 1..Len(rk)
    BY <1>3
  <2>3. rk[2] \in AllKeys
    BY <2>1, <2>2, LenProperties
  <2> QED
    BY <1>3, <2>1, <2>3, TailIs
<1>7. InOrder(rk, Y, K) /\ InOrder(tk, X, K)
  BY <1>1, <1>2 DEF Holds
<1>8. /\ \A i \in 1..len : rk[i] \in Y /\ rk[i] \in K /\ rk[i] \in Int
      /\ \A i, j \in 1..len : i < j => rk[i] < rk[j]
      /\ \A i \in 1..lt : tk[i] \in X /\ tk[i] \in Int
  BY <1>3, <1>4, <1>7 DEF InOrder
<1>9. /\ s \in Int /\ s \in Y
      /\ \A k \in Y : k \in Int /\ s <= k
      /\ \A k \in X : k \in Int /\ k < s
      /\ \E e \in X : e < s
  BY DEF Borders
<1>10. /\ rk[1] \in Y /\ rk[1] \in K /\ rk[1] \in Int /\ s <= rk[1]
       /\ rk[2] \in Y /\ rk[2] \in K /\ rk[2] \in Int /\ rk[1] < rk[2]
  <2>1. 1 \in 1..len /\ 2 \in 1..len /\ 1 < 2
    BY <1>3
  <2> QED
    BY <1>8, <1>9, <2>1
<1>11. PICK low : low = {k \in X \cup Y : k < m}
  OBVIOUS
<1>12. PICK high : high = {k \in X \cup Y : m <= k}
  OBVIOUS
<1>13. PICK n \in Nat : n = len - 1 /\ 1 + n = len
  BY <1>3
<1>14. PICK f \in Nat : f = 1
  OBVIOUS
<1>15. Slice(g.keys, rk, f, n)
  <2>1. g.keys = Tail(rk)
    BY <1>1 DEF LentFromRight
  <2>2. Len(Tail(rk)) = n /\ \A i \in 1..n : Tail(rk)[i] = IF i < 1 THEN rk[i] ELSE rk[i + 1]
    BY <1>3, <1>6, <1>13 DEF Removed
  <2>3. \A i \in 1..n : ~(i < 1) /\ f + i = i + 1
    BY <1>14
  <2> QED
    BY <2>1, <2>2, <2>3 DEF Slice
<1>16. Window(Y, rk, f, n) = {k \in Y : rk[1] <= k}
  <2>1. f >= 1 /\ ~(f + n + 1 <= len)
    BY <1>13, <1>14
  <2> QED
    BY <1>3, <1>14, <2>1 DEF Window
<1>17. f + n <= len
  BY <1>13, <1>14
<1>18. CASE height = 0
  <2>1. IsLeaf(t)
    BY <1>18, LeafIs
  <2>2. g.children = << >> /\ u.children = << >>
    BY <2>1 DEF LentFromRight
  <2>3. m = rk[2] /\ s < m
    BY <1>1, <1>5, <1>9, <1>10, <2>1
  <2>4. IsBorderIn(m, X \cup Y)
    BY <1>9, <1>10, <2>3 DEF IsBorderIn
  <2>5. /\ X \subseteq low /\ low \subseteq Int /\ high \subseteq Int
        /\ rk[1] \in low
        /\ \A k \in Y : m <= k => k \in high
    <3>1. \A k \in X : k < m
      BY <1>9, <1>10, <2>3
    <3> QED
      BY <1>9, <1>10, <1>11, <1>12, <2>3, <3>1
  <2>6. InOrder(g.keys, high, K)
    <3>1. InOrder(g.keys, Window(Y, rk, f, n), K)
      BY <1>3, <1>7, <1>15, <1>17, SliceInOrder
    <3>2. Len(g.keys) = n /\ \A i \in 1..n : g.keys[i] = rk[f + i]
      BY <1>15 DEF Slice
    <3>3. ASSUME NEW i \in 1..n PROVE g.keys[i] \in high
      <4>1. PICK h \in 1..len : h = f + i /\ (h = 2 \/ 2 < h)
        BY <1>13, <1>14
      <4>2. 2 \in 1..len
        BY <1>3
      <4>3. rk[h] \in Y /\ rk[h] \in Int /\ (h = 2 \/ rk[2] < rk[h])
        BY <1>8, <4>1, <4>2
      <4>4. m <= rk[h]
        BY <1>10, <2>3, <4>3
      <4> QED
        BY <2>5, <3>2, <4>1, <4>3, <4>4
    <3> QED
      BY <2>5, <3>1, <3>2, <3>3, OrderNarrows
  <2>7. Inserted(u.keys, tk, lt + 1, rk[1])
    <3>1. u.keys = Append(tk, rk[1])
      BY <1>1, <1>2, <1>6, <2>1 DEF LentFromRight
    <3> QED
      BY <1>4, <1>6, <3>1, AppendedIs
  <2>8. \A i \in 1..lt : tk[i] < rk[1]
    BY <1>8, <1>9, <1>10
  <2>9. InOrder(u.keys, low, K)
    BY <1>4, <1>7, <1>10, <2>5, <2>7, <2>8, AppendedInOrder
  <2>10. Holds(u, low, range, K) /\ Holds(g, high, range, K)
    BY <2>2, <2>6, <2>9, LeafHolds
  <2> QED
    BY <1>5, <1>6, <1>10, <1>11, <1>12, <2>3, <2>4, <2>10 DEF LoanInOrder
<1>19. CASE height # 0
  <2>1. ~IsLeaf(t) /\ ~IsLeaf(r)
    BY <1>19, LeafIs
  <2>2. PICK rc : rc = r.children
    OBVIOUS
  <2>3. PICK tc : tc = t.children
    OBVIOUS
  <2>4. rc \in Seq(ids) /\ Len(rc) = len + 1 /\ tc \in Seq(ids) /\ Len(tc) = lt + 1
    BY <1>1, <1>2, <1>3, <1>4, <1>19, <2>2, <2>3, NodeIs DEF Fits
  <2>5. Separates(tk, X) /\ Separates(rk, Y)
    BY <1>1, <1>2, <2>1 DEF Holds
  <2>6. m = rk[1] /\ s < m
    <3>1. 1 \in 1..len
      BY <1>3
    <3>2. PICK o \in 1..len : o = 1
      BY <3>1
    <3>3. s < rk[o]
      BY <1>3, <1>7, <2>5, KeysAboveBorder
    <3> QED
      BY <1>1, <1>5, <1>6, <2>1, <3>2, <3>3
  <2>7. IsBorderIn(m, X \cup Y)
    BY <1>9, <1>10, <2>6 DEF IsBorderIn
  <2>8. /\ X \subseteq low /\ low \subseteq Int /\ s \in low
        /\ high = {k \in Y : m <= k}
    <3>1. \A k \in X : k < m /\ ~(m <= k)
      BY <1>9, <1>10, <2>6
    <3> QED
      BY <1>9, <1>10, <1>11, <1>12, <2>6, <3>1
  <2>9. Holds(g, high, range, K)
    <3>1. Removed(Tail(rc), rc, 1) /\ g.children = Tail(rc)
      <4>1. Len(rc) > 0
        BY <2>4
      <4> QED
        BY <2>1, <2>2, <2>4, <4>1, TailIs DEF LentFromRight
    <3>2. Len(Tail(rc)) = len /\ \A i \in 1..len : Tail(rc)[i] = rc[i + 1]
      <4>1. /\ Len(Tail(rc)) = (len + 1) - 1
            /\ \A i \in 1..(len + 1) - 1 : Tail(rc)[i] = IF i < 1 THEN rc[i] ELSE rc[i + 1]
        BY <2>4, <3>1 DEF Removed
      <4>2. (len + 1) - 1 = len /\ \A i \in 1..len : ~(i < 1)
        OBVIOUS
      <4> QED
        BY <4>1, <4>2
    <3>3. Slice(g.children, r.children, f, n + 1)
      <4>1. n + 1 = len /\ \A i \in 1..len : f + i = i + 1
        BY <1>13, <1>14
      <4> QED
        BY <2>2, <3>1, <3>2, <4>1 DEF Slice
    <3>4. Slice(g.keys, r.keys, f, n) /\ f + n <= Len(r.keys)
      BY <1>1, <1>3, <1>15, <1>17
    <3>5. f + n + 1 <= Len(r.children)
      BY <1>13, <1>14, <2>2, <2>4
    <3>6. Holds(g, Window(Y, r.keys, f, n), range, K)
      BY <2>1, <3>3, <3>4, <3>5, SliceHolds
    <3> QED
      BY <1>1, <1>16, <2>6, <2>8, <3>6
  <2>10. Inserted(u.keys, tk, lt + 1, s)
    <3>1. u.keys = Append(tk, s)
      BY <1>2, <2>1 DEF LentFromRight
    <3> QED
      BY <1>4, <1>6, <3>1, AppendedIs
  <2>11. \A i \in 1..lt : tk[i] < s
    BY <1>8, <1>9
  <2>12. InOrder(u.keys, low, K)
    BY <1>4, <1>7, <1>9, <2>8, <2>10, <2>11, AppendedInOrder
  <2>13. Separates(u.keys, low)
    <3>1. Separates(tk, low)
      BY <2>5, <2>8, SeparatesWider
    <3>2. PICK o \in 1..lt + 1 : o = lt + 1
      OBVIOUS
    <3>3. Inserted(u.keys, tk, o, s)
      BY <2>10, <3>2
    <3>4. PICK e \in low : e < s
      BY <1>9, <2>8
    <3> QED
      BY <1>4, <3>1, <3>3, <3>4, InsertedSeparates
  <2>14. /\ Part(low, u.keys, lt + 2) = {k \in low : s <= k}
         /\ \A i \in 1..lt + 1 : Part(low, u.keys, i) = Part({k \in low : k < s}, tk, i)
    BY <1>4, <1>9, <2>10, <2>12, AppendedParts
  <2>15. {k \in low : k < s} = X
    <3>1. \A k \in Y : ~(k < s)
      BY <1>9
    <3> QED
      BY <1>9, <1>11, <2>8, <3>1
  <2>16. {k \in low : s <= k} = Part(Y, rk, 1)
    <3>1. \A k \in X : ~(s <= k)
      BY <1>9
    <3>2. Part(Y, rk, 1) = {k \in Y : k < rk[1]}
      <4>1. ~(1 > 1) /\ 1 <= len
        BY <1>3
      <4> QED
        BY <1>3, <4>1 DEF Part
    <3> QED
      BY <1>9, <1>11, <2>6, <3>1, <3>2
  <2>17. /\ Len(u.children) = lt + 2
         /\ u.children[lt + 2] = rc[1]
         /\ \A i \in 1..lt + 1 : u.children[i] = tc[i]
    <3>1. u.children = Append(tc, Head(rc))
      BY <2>1, <2>2, <2>3 DEF LentFromRight
    <3>2. Head(rc) = rc[1] /\ rc[1] \in ids
      <4>1. Len(rc) > 0
        BY <2>4
      <4> QED
        BY <2>4, <4>1, TailIs
    <3>3. Inserted(u.children, tc, (lt + 1) + 1, rc[1])
      BY <2>4, <3>1, <3>2, AppendedIs
    <3>4. /\ Len(u.children) = (lt + 1) + 1
          /\ \A i \in 1..(lt + 1) + 1 :
                u.children[i] = IF i < (lt + 1) + 1 THEN tc[i]
                                ELSE IF i = (lt + 1) + 1 THEN rc[1] ELSE tc[i - 1]
      BY <2>4, <3>3 DEF Inserted
    <3>5. /\ (lt + 1) + 1 = lt + 2 /\ lt + 2 \in 1..(lt + 1) + 1 /\ ~(lt + 2 < lt + 2)
          /\ \A i \in 1..lt + 1 : i \in 1..(lt + 1) + 1 /\ i < (lt + 1) + 1
      OBVIOUS
    <3> QED
      BY <3>4, <3>5
  <2>18. ASSUME NEW i \in 1..lt + 2
         PROVE  /\ u.children[i] \in DOMAIN range
                /\ range[u.children[i]] = Part(low, u.keys, i)
    <3>1. CASE i = lt + 2
      <4>1. PICK o \in 1..Len(r.children) : o = 1
        BY <2>2, <2>4
      <4>2. /\ rc[1] \in DOMAIN range
            /\ range[rc[1]] = Part(Y, rk, 1)
        BY <1>1, <2>2, <4>1 DEF Holds
      <4> QED
        BY <2>14, <2>16, <2>17, <3>1, <4>2
    <3>2. CASE i # lt + 2
      <4>1. i \in 1..lt + 1
        BY <3>2
      <4>2. tc[i] \in DOMAIN range /\ range[tc[i]] = Part(X, tk, i)
        BY <1>2, <2>3, <2>4, <4>1 DEF Holds
      <4> QED
        BY <2>14, <2>15, <2>17, <4>1, <4>2
    <3> QED
      BY <3>1, <3>2
  <2>19. Holds(u, low, range, K)
    BY <2>12, <2>13, <2>17, <2>18 DEF Holds
  <2> QED
    BY <1>5, <1>6, <1>10, <1>11, <1>12, <2>6, <2>7, <2>9, <2>19 DEF LoanInOrder
<1> QED
  BY <1>18, <1>19

\* The keys of a node for X and then those of one for Y, above it.
LEMMA JoinedInOrder ==
    ASSUME NEW a, NEW la \in Nat, la = Len(a), NEW b, NEW lb \in Nat, lb = Len(b),
           NEW X, NEW Y, NEW K, NEW s, Borders(X, Y, s), InOrder(a, X, K), InOrder(b, Y, K),
           NEW t, Joined(t, a, b)
    PROVE  InOrder(t, X \cup Y, K)
<1>1. /\ X \subseteq Int /\ Y \subseteq Int /\ s \in Int
      /\ \A k \in X : k < s
      /\ \A k \in Y : s <= k
  BY DEF Borders
<1>2. /\ \A i \in 1..la : a[i] \in X /\ a[i] \in K
      /\ \A i, j \in 1..la : i < j => a[i] < a[j]
      /\ \A i \in 1..lb : b[i] \in Y /\ b[i] \in K
      /\ \A i, j \in 1..lb : i < j => b[i] < b[j]
  BY DEF InOrder
<1>3. PICK len \in Nat : len = la + lb
  OBVIOUS
<1>4. /\ Len(t) = len
      /\ \A i \in 1..len : t[i] = IF i <= la THEN a[i] ELSE b[i - la]
  BY <1>3 DEF Joined
<1>5. ASSUME NEW i \in 1..len
      PROVE  \/ i \in 1..la /\ t[i] = a[i]
             \/ i > la /\ i - la \in 1..lb /\ t[i] = b[i - la]
  <2>1. i \in 1..la \/ (i > la /\ i - la \in 1..lb /\ ~(i <= la))
    BY <1>3
  <2> QED
    BY <1>4, <2>1
<1>6. ASSUME NEW i \in 1..len PROVE t[i] \in X \cup Y /\ t[i] \in K
  BY <1>2, <1>5
<1>7. ASSUME NEW i \in 1..len, NEW j \in 1..len, i < j PROVE t[i] < t[j]
  <2>1. CASE j \in 1..la
    <3>1. i \in 1..la /\ t[i] = a[i] /\ t[j] = a[j]
      BY <1>4, <1>7, <2>1
    <3> QED
      BY <1>2, <1>7, <2>1, <3>1
  <2>2. CASE j > la /\ i \in 1..la
    <3>1. t[i] \in X /\ t[j] \in Y
      <4>1. ~(j \in 1..la) /\ ~(i > la)
        BY <2>2
      <4> QED
        BY <1>2, <1>5, <4>1
    <3>2. t[i] \in Int /\ t[i] < s /\ t[j] \in Int /\ s <= t[j]
      BY <1>1, <3>1
    <3> QED
      BY <1>1, <3>2
  <2>3. CASE i > la
    <3>0. i - la \in 1..lb /\ j - la \in 1..lb
      BY <1>3, <1>7, <2>3
    <3>1. PICK g \in 1..lb : g = i - la
      BY <3>0
    <3>2. PICK h \in 1..lb : h = j - la
      BY <3>0
    <3>3. g < h /\ ~(i <= la) /\ ~(j <= la)
      BY <1>7, <2>3, <3>1, <3>2
    <3>4. t[i] = b[g] /\ t[j] = b[h]
      BY <1>4, <3>1, <3>2, <3>3
    <3> QED
      BY <1>2, <3>3, <3>4
  <2> QED
    BY <1>7, <2>1, <2>2, <2>3
<1> QED
  BY <1>1, <1>4, <1>6, <1>7 DEF InOrder

\* m is what were l and r, neighbours with the separator s between them, in one node.
MergesNodes(m, l, r, s) ==
    /\ m.keys = IF IsLeaf(l) THEN l.keys \o r.keys ELSE Append(l.keys, s) \o r.keys
    /\ IsLeaf(l) => m.children = << >>
    /\ ~IsLeaf(l) => m.children = l.children \o r.children

\* The node two neighbours are merged into is right for the numbers of both.
LEMMA MergedHolds ==
    ASSUME NEW ids, NEW l \in Nodes(ids), NEW r \in Nodes(ids), NEW height \in Nat,
           Fits(l, height), Fits(r, height),
           NEW X, NEW Y, NEW K, NEW range, Holds(l, X, range, K), Holds(r, Y, range, K),
           NEW s \in AllKeys, s \in K, Borders(X, Y, s),
           NEW m, MergesNodes(m, l, r, s)
    PROVE  Holds(m, X \cup Y, range, K)
<1>1. PICK a : a = l.keys
  OBVIOUS
<1>2. PICK b : b = r.keys
  OBVIOUS
<1>3. PICK la \in Nat : la = Len(a)
  BY <1>1, NodeIs
<1>4. PICK lb \in Nat : lb = Len(b)
  BY <1>2, NodeIs
<1>5. a \in Seq(AllKeys) /\ b \in Seq(AllKeys)
  BY <1>1, <1>2, NodeIs
<1>6. InOrder(a, X, K) /\ InOrder(b, Y, K)
  BY <1>1, <1>2 DEF Holds
<1>7. CASE height = 0
  <2>1. IsLeaf(l)
    BY <1>7, LeafIs
  <2>2. Joined(m.keys, a, b)
    BY <1>1, <1>2, <1>5, <2>1, JoinedIs DEF MergesNodes
  <2>3. InOrder(m.keys, X \cup Y, K)
    BY <1>3, <1>4, <1>6, <2>2, JoinedInOrder
  <2>4. m.children = << >>
    BY <2>1 DEF MergesNodes
  <2> QED
    BY <2>3, <2>4, LeafHolds
<1>8. CASE height # 0
  <2>1. ~IsLeaf(l) /\ ~IsLeaf(r)
    BY <1>8, LeafIs
  <2>2. PICK lc : lc = l.children
    OBVIOUS
  <2>3. PICK rc : rc = r.children
    OBVIOUS
  <2>4. lc \in Seq(ids) /\ Len(lc) = la + 1 /\ rc \in Seq(ids) /\ Len(rc) = lb + 1
    BY <1>1, <1>2, <1>3, <1>4, <1>8, <2>2, <2>3, NodeIs DEF Fits
  <2>5. Separates(a, X) /\ Separates(b, Y)
    BY <1>1, <1>2, <2>1 DEF Holds
  <2>6. PICK t : t = m.keys
    OBVIOUS
  <2>7. PICK len \in Nat : len = (la + 1) + lb
    OBVIOUS
  <2>8. /\ Len(t) = len
        /\ \A i \in 1..la : t[i] = a[i]
        /\ t[la + 1] = s
        /\ \A i \in 1..lb : t[(la + 1) + i] = b[i]
    <3>1. PICK as : as = Append(a, s)
      OBVIOUS
    <3>2. as \in Seq(AllKeys) /\ Inserted(as, a, la + 1, s)
      BY <1>3, <1>5, <3>1, AppendedIs
    <3>3. /\ Len(as) = la + 1
          /\ \A i \in 1..la + 1 :
                as[i] = IF i < la + 1 THEN a[i] ELSE IF i = la + 1 THEN s ELSE a[i - 1]
      BY <1>3, <3>2 DEF Inserted
    <3>4. Joined(t, as, b)
      BY <1>1, <1>2, <1>5, <2>1, <2>6, <3>1, <3>2, JoinedIs DEF MergesNodes
    <3>5. /\ Len(t) = len
          /\ \A i \in 1..len : t[i] = IF i <= la + 1 THEN as[i] ELSE b[i - (la + 1)]
      BY <1>4, <2>7, <3>3, <3>4 DEF Joined
    <3>6. ASSUME NEW i \in 1..la PROVE t[i] = a[i]
      <4>1. i \in 1..len /\ i <= la + 1 /\ i \in 1..la + 1 /\ i < la + 1
        BY <2>7
      <4> QED
        BY <3>3, <3>5, <4>1
    <3>7. t[la + 1] = s
      <4>1. PICK o \in Nat : o = la + 1
        OBVIOUS
      <4>2. o \in 1..len /\ o <= la + 1 /\ o \in 1..la + 1 /\ ~(o < la + 1)
        BY <2>7, <4>1
      <4> QED
        BY <3>3, <3>5, <4>1, <4>2
    <3>8. ASSUME NEW i \in 1..lb PROVE t[(la + 1) + i] = b[i]
      <4>1. PICK o \in Nat : o = (la + 1) + i
        OBVIOUS
      <4>2. o \in 1..len /\ ~(o <= la + 1) /\ o - (la + 1) = i
        BY <2>7, <4>1
      <4> QED
        BY <3>5, <4>1, <4>2
    <3> QED
      BY <3>5, <3>6, <3>7, <3>8
  <2>9. PICK c \in Nat : c = la + 1
    OBVIOUS
  <2>10. PICK U : U = X \cup Y
    OBVIOUS
  <2>11. /\ X \subseteq Int /\ Y \subseteq Int /\ s \in Int /\ s \in Y /\ U \subseteq Int
         /\ \A k \in X : k \in Int /\ k < s
         /\ \A k \in Y : k \in Int /\ s <= k
    BY <2>10 DEF Borders
  <2>12. PICK e \in X : e < s
    BY DEF Borders
  <2>13. InOrder(t, U, K)
    <3>1. PICK sb : sb = <<s>> \o b
      OBVIOUS
    <3>2. Inserted(sb, b, 1, s)
      BY <1>5, <3>1, PrependedIs
    <3>3. \A i \in 1..lb : s < b[i]
      BY <1>4, <1>6, <2>5, KeysAboveBorder
    <3>4. InOrder(sb, Y, K)
      BY <1>4, <1>6, <2>11, <3>2, <3>3, PrependedInOrder
    <3>5. PICK lsb \in Nat : lsb = lb + 1
      OBVIOUS
    <3>6. /\ Len(sb) = lsb
          /\ \A i \in 1..lsb : sb[i] = IF i < 1 THEN b[i] ELSE IF i = 1 THEN s ELSE b[i - 1]
      BY <1>4, <3>2, <3>5 DEF Inserted
    <3>7. Joined(t, a, sb)
      <4>1. len = la + lsb
        BY <2>7, <3>5
      <4>2. ASSUME NEW i \in 1..len PROVE t[i] = IF i <= la THEN a[i] ELSE sb[i - la]
        <5>1. CASE i <= la
          BY <2>8, <5>1
        <5>2. CASE i = la + 1
          <6>1. PICK o \in 1..lsb : o = 1
            BY <3>5
          <6>2. i - la = o /\ ~(i <= la) /\ ~(o < 1)
            BY <5>2, <6>1
          <6>3. sb[o] = s
            BY <3>6, <6>1, <6>2
          <6> QED
            BY <2>8, <5>2, <6>2, <6>3
        <5>3. CASE i > la + 1
          <6>1. PICK h \in 1..lb : h = i - (la + 1) /\ i = (la + 1) + h
            <7>1. i - (la + 1) \in 1..lb /\ i = (la + 1) + (i - (la + 1))
              BY <2>7, <5>3
            <7> QED
              BY <7>1
          <6>2. PICK o \in 1..lsb : o = h + 1 /\ i - la = o /\ ~(i <= la)
            BY <3>5, <6>1
          <6>3. ~(o < 1) /\ o # 1 /\ o - 1 = h
            BY <6>2
          <6>4. sb[o] = b[h]
            BY <3>6, <6>3
          <6>5. t[i] = b[h]
            BY <2>8, <6>1
          <6> QED
            BY <6>2, <6>4, <6>5
        <5>4. i <= la \/ i = la + 1 \/ i > la + 1
          OBVIOUS
        <5> QED
          BY <5>1, <5>2, <5>3, <5>4
      <4> QED
        BY <1>3, <2>8, <3>6, <4>1, <4>2 DEF Joined
    <3> QED
      BY <1>3, <1>6, <2>10, <3>4, <3>6, <3>7, JoinedInOrder
  <2>14. Slice(a, t, 0, la) /\ Slice(b, t, c, lb)
    <3>1. \A i \in 1..la : 0 + i = i
      OBVIOUS
    <3> QED
      BY <1>3, <1>4, <2>8, <2>9, <3>1 DEF Slice
  <2>15. PICK z \in Nat : z = 0 /\ z + la <= len /\ c + lb <= len
    BY <2>7, <2>9
  <2>16. Window(U, t, z, la) = X
    <3>1. ~(z >= 1) /\ z + la + 1 = la + 1 /\ z + la + 1 <= len
      BY <2>7, <2>15
    <3>2. Window(U, t, z, la) = {k \in U : k < s}
      BY <2>8, <3>1 DEF Window
    <3>3. \A k \in Y : ~(k < s)
      BY <2>11
    <3> QED
      BY <2>10, <2>11, <3>2, <3>3
  <2>17. Window(U, t, c, lb) = Y
    <3>1. c >= 1 /\ ~(c + lb + 1 <= len)
      BY <2>7, <2>9
    <3>2. Window(U, t, c, lb) = {k \in U : s <= k}
      BY <2>8, <2>9, <3>1 DEF Window
    <3>3. \A k \in X : ~(s <= k)
      BY <2>11
    <3> QED
      BY <2>10, <2>11, <3>2, <3>3
  <2>18. ASSUME NEW i \in 1..la + 1 PROVE Part(U, t, i) = Part(X, a, i)
    <3>1. Slice(a, t, z, la)
      BY <2>14, <2>15
    <3>2. Part(Window(U, t, z, la), a, i) = Part(U, t, z + i)
      BY <2>8, <2>13, <2>15, <3>1, SliceParts
    <3>3. z + i = i
      BY <2>15
    <3> QED
      BY <2>16, <3>2, <3>3
  <2>19. ASSUME NEW i \in 1..lb + 1 PROVE Part(U, t, c + i) = Part(Y, b, i)
    <3>1. Part(Window(U, t, c, lb), b, i) = Part(U, t, c + i)
      BY <2>8, <2>13, <2>14, <2>15, SliceParts
    <3> QED
      BY <2>17, <3>1
  <2>20. Separates(t, U)
    <3>1. ASSUME NEW i \in 1..len PROVE \E d \in U : d < t[i]
      <4>1. CASE i <= la
        <5>1. i \in 1..la /\ t[i] = a[i]
          BY <2>8, <4>1
        <5>2. \E d \in X : d < a[i]
          BY <1>3, <2>5, <5>1 DEF Separates
        <5> QED
          BY <2>10, <5>1, <5>2
      <4>2. CASE i = la + 1
        BY <2>8, <2>10, <2>12, <4>2
      <4>3. CASE i > la + 1
        <5>1. PICK h \in 1..lb : i = (la + 1) + h
          <6>1. i - (la + 1) \in 1..lb /\ i = (la + 1) + (i - (la + 1))
            BY <2>7, <4>3
          <6> QED
            BY <6>1
        <5>2. t[i] = b[h]
          BY <2>8, <5>1
        <5>3. \E d \in Y : d < b[h]
          BY <1>4, <2>5 DEF Separates
        <5> QED
          BY <2>10, <5>2, <5>3
      <4>4. i <= la \/ i = la + 1 \/ i > la + 1
        OBVIOUS
      <4> QED
        BY <4>1, <4>2, <4>3, <4>4
    <3> QED
      BY <2>8, <3>1 DEF Separates
  <2>21. PICK ld \in Nat : ld = lb + 1
    OBVIOUS
  <2>22. /\ Len(m.children) = c + ld
         /\ \A i \in 1..c + ld : m.children[i] = IF i <= c THEN lc[i] ELSE rc[i - c]
    <3>1. m.children = lc \o rc
      BY <2>1, <2>2, <2>3 DEF MergesNodes
    <3>2. Joined(m.children, lc, rc)
      BY <2>4, <3>1, JoinedIs
    <3>3. Len(lc) = c /\ Len(rc) = ld
      BY <2>4, <2>9, <2>21
    <3> QED
      BY <3>2, <3>3 DEF Joined
  <2>23. ASSUME NEW i \in 1..c + ld
         PROVE  /\ m.children[i] \in DOMAIN range
                /\ range[m.children[i]] = Part(U, t, i)
    <3>1. CASE i <= c
      <4>1. i \in 1..la + 1 /\ m.children[i] = lc[i]
        BY <2>9, <2>22, <3>1
      <4>2. lc[i] \in DOMAIN range /\ range[lc[i]] = Part(X, a, i)
        BY <1>1, <2>2, <2>4, <4>1 DEF Holds
      <4> QED
        BY <2>18, <4>1, <4>2
    <3>2. CASE i > c
      <4>1. PICK h \in 1..lb + 1 : h = i - c /\ i = c + h
        <5>1. i - c \in 1..lb + 1 /\ i = c + (i - c)
          BY <2>21, <3>2
        <5> QED
          BY <5>1
      <4>2. m.children[i] = rc[h]
        <5>1. ~(i <= c)
          BY <3>2
        <5> QED
          BY <2>22, <4>1, <5>1
      <4>3. rc[h] \in DOMAIN range /\ range[rc[h]] = Part(Y, b, h)
        BY <1>2, <2>3, <2>4 DEF Holds
      <4>4. Part(U, t, c + h) = Part(Y, b, h)
        BY <2>19
      <4> QED
        BY <4>1, <4>2, <4>3, <4>4
    <3> QED
      BY <3>1, <3>2
  <2> QED
    BY <2>6, <2>10, <2>13, <2>20, <2>22, <2>23 DEF Holds
<1> QED
  BY <1>7, <1>8

\* A key of a node is the border between the two children next to it.
LEMMA ParentBorders ==
    ASSUME NEW ids, NEW p \in Nodes(ids), NEW height \in Nat, height # 0, Fits(p, height),
           NEW R, NEW K, NEW range, Holds(p, R, range, K), NEW idx \in 1..Len(p.keys)
    PROVE  /\ Borders(range[p.children[idx]], range[p.children[idx + 1]], p.keys[idx])
           /\ p.keys[idx] \in AllKeys /\ p.keys[idx] \in K
           /\ p.children[idx] \in DOMAIN range /\ p.children[idx + 1] \in DOMAIN range
<1>1. PICK keys : keys = p.keys
  OBVIOUS
<1>2. PICK len \in Nat : len = Len(keys)
  BY <1>1, NodeIs
<1>3. keys \in Seq(AllKeys) /\ Len(p.children) = len + 1
  BY <1>1, <1>2, NodeIs DEF Fits
<1>4. InOrder(keys, R, K) /\ Separates(keys, R)
  BY <1>1, LeafIs DEF Holds
<1>5. idx \in 1..len /\ idx \in 1..len + 1 /\ idx + 1 \in 1..len + 1
  BY <1>1, <1>2
<1>6. PICK next \in 1..len + 1 : next = idx + 1
  BY <1>5
<1>7. /\ p.children[idx] \in DOMAIN range /\ p.children[next] \in DOMAIN range
      /\ range[p.children[idx]] = Part(R, keys, idx)
      /\ range[p.children[next]] = Part(R, keys, next)
  BY <1>1, <1>3, <1>5 DEF Holds
<1>8. /\ keys[idx] \in Part(R, keys, idx + 1) /\ keys[idx] \in K
      /\ \E e \in Part(R, keys, idx) : e < keys[idx]
      /\ \A k \in Part(R, keys, idx) : k \in Int /\ k < keys[idx]
      /\ \A k \in Part(R, keys, idx + 1) : k \in Int /\ keys[idx] <= k
  BY <1>2, <1>4, <1>5, SeparatorIs
<1>9. keys[idx] \in AllKeys
  BY <1>2, <1>3, <1>5, LenProperties
<1>10. Borders(Part(R, keys, idx), Part(R, keys, next), keys[idx])
  BY <1>6, <1>8 DEF Borders
<1> QED
  BY <1>1, <1>6, <1>7, <1>8, <1>9, <1>10

\* Between l and r the border is moved to m.
BordersMoved(range2, range, l, r, m) ==
    /\ l \in DOMAIN range /\ r \in DOMAIN range
    /\ DOMAIN range2 = DOMAIN range
    /\ range2[l] = {k \in range[l] \cup range[r] : k < m}
    /\ range2[r] = {k \in range[l] \cup range[r] : m <= k}
    /\ \A x \in DOMAIN range \ {l, r} : range2[x] = range[x]

\* The parent is right with the new border in the place of the old one.
LEMMA ParentOfLoanHolds ==
    ASSUME NEW ids, NEW p \in Nodes(ids), NEW height \in Nat, height # 0, Fits(p, height),
           NEW R, NEW K, NEW range, Holds(p, R, range, K), NEW idx \in 1..Len(p.keys),
           NEW l, NEW r, IsOnlyAt(l, p, idx), IsOnlyAt(r, p, idx + 1),
           NEW m \in AllKeys, m \in K, IsBorderIn(m, range[l] \cup range[r]),
           NEW range2, BordersMoved(range2, range, l, r, m),
           NEW q, q.keys = [p.keys EXCEPT ![idx] = m], q.children = p.children
    PROVE  Holds(q, R, range2, K)
<1>1. PICK keys : keys = p.keys
  OBVIOUS
<1>2. PICK len \in Nat : len = Len(keys)
  BY <1>1, NodeIs
<1>3. PICK children : children = p.children
  OBVIOUS
<1>4. keys \in Seq(AllKeys) /\ Len(children) = len + 1
  BY <1>1, <1>2, <1>3, NodeIs DEF Fits
<1>5. InOrder(keys, R, K) /\ Separates(keys, R)
  BY <1>1, LeafIs DEF Holds
<1>6. idx \in 1..len /\ idx \in 1..len + 1 /\ idx + 1 \in 1..len + 1
  BY <1>1, <1>2
<1>7. PICK next \in 1..len + 1 : next = idx + 1
  BY <1>6
<1>8. /\ \A i \in 1..len + 1 : /\ children[i] \in DOMAIN range
                               /\ range[children[i]] = Part(R, keys, i)
      /\ children[idx] = l /\ children[next] = r
      /\ \A i \in 1..len + 1 : i # idx /\ i # next => children[i] # l /\ children[i] # r
  <2>1. IsOnlyAt(r, p, next)
    BY <1>7
  <2> QED
    BY <1>1, <1>3, <1>4, <2>1 DEF IsOnlyAt, Holds
<1>9. PICK t : t = q.keys
  OBVIOUS
<1>10. t = [keys EXCEPT ![idx] = m]
  BY <1>1, <1>9
<1>11. range[l] = Part(R, keys, idx) /\ range[r] = Part(R, keys, next)
  BY <1>6, <1>8
<1>12. InOrder(t, R, K) /\ Separates(t, R) /\ PartsMovedAt(R, t, keys, idx, m)
  <2>1. IsBorderIn(m, Part(R, keys, idx) \cup Part(R, keys, idx + 1))
    BY <1>7, <1>11
  <2> QED
    BY <1>2, <1>4, <1>5, <1>6, <1>10, <2>1, ReplacedInOrder
<1>13. /\ \A i \in 1..len + 1 : i # idx /\ i # next => Part(R, t, i) = Part(R, keys, i)
       /\ Part(R, t, idx) = range2[l] /\ Part(R, t, next) = range2[r]
  BY <1>2, <1>7, <1>11, <1>12 DEF PartsMovedAt, BordersMoved
<1>14. ASSUME NEW i \in 1..len + 1
       PROVE  /\ children[i] \in DOMAIN range2
              /\ range2[children[i]] = Part(R, t, i)
  <2>1. CASE i = idx \/ i = next
    BY <1>8, <1>13, <2>1 DEF BordersMoved
  <2>2. CASE i # idx /\ i # next
    BY <1>8, <1>13, <2>2 DEF BordersMoved
  <2> QED
    BY <2>1, <2>2
<1>15. Len(q.children) = len + 1 /\ q.children = children
  BY <1>3, <1>4
<1> QED
  BY <1>9, <1>12, <1>14, <1>15 DEF Holds

\* What was for r is for l.
RangesJoined(range2, range, l, r) ==
    /\ l \in DOMAIN range /\ r \in DOMAIN range /\ l # r
    /\ DOMAIN range2 = DOMAIN range \ {r}
    /\ range2[l] = range[l] \cup range[r]
    /\ \A x \in DOMAIN range \ {l, r} : range2[x] = range[x]

\* The parent is right without the border between the merged children.
LEMMA ParentOfMergedHolds ==
    ASSUME NEW ids, NEW p \in Nodes(ids), NEW height \in Nat, height # 0, Fits(p, height),
           NEW R, NEW K, NEW range, Holds(p, R, range, K), NEW idx \in 1..Len(p.keys),
           NEW l, NEW r, IsOnlyAt(l, p, idx), IsOnlyAt(r, p, idx + 1),
           NEW range2, RangesJoined(range2, range, l, r),
           NEW q, q.keys = RemoveAt(p.keys, idx), q.children = RemoveAt(p.children, idx + 1)
    PROVE  Holds(q, R, range2, K)
<1>1. PICK keys : keys = p.keys
  OBVIOUS
<1>2. PICK len \in Nat : len = Len(keys)
  BY <1>1, NodeIs
<1>3. PICK children : children = p.children
  OBVIOUS
<1>4. /\ keys \in Seq(AllKeys)
      /\ children \in Seq(ids) /\ Len(children) = len + 1
  BY <1>1, <1>2, <1>3, NodeIs DEF Fits
<1>5. InOrder(keys, R, K) /\ Separates(keys, R)
  BY <1>1, LeafIs DEF Holds
<1>6. idx \in 1..len /\ idx \in 1..len + 1 /\ idx + 1 \in 1..len + 1
  BY <1>1, <1>2
<1>7. PICK next \in 1..len + 1 : next = idx + 1
  BY <1>6
<1>8. /\ \A i \in 1..len + 1 : /\ children[i] \in DOMAIN range
                               /\ range[children[i]] = Part(R, keys, i)
      /\ children[idx] = l /\ children[next] = r
      /\ \A i \in 1..len + 1 : i # idx /\ i # next => children[i] # l /\ children[i] # r
  <2>1. IsOnlyAt(r, p, next)
    BY <1>7
  <2> QED
    BY <1>1, <1>3, <1>4, <2>1 DEF IsOnlyAt, Holds
<1>9. PICK t : t = q.keys
  OBVIOUS
<1>10. Removed(t, keys, idx)
  BY <1>1, <1>2, <1>4, <1>6, <1>9, RemovedIs
<1>11. Removed(q.children, children, next)
  BY <1>3, <1>4, <1>7, RemovedIs
<1>12. InOrder(t, R, K) /\ Separates(t, R)
  BY <1>2, <1>5, <1>6, <1>10, RemovedInOrder
<1>13. PartsJoinedAt(R, t, keys, idx)
  BY <1>2, <1>5, <1>6, <1>10, RemovedParts
<1>14. /\ Len(q.children) = len
       /\ \A i \in 1..len : q.children[i] = IF i < next THEN children[i] ELSE children[i + 1]
  <2>1. (len + 1) - 1 = len
    OBVIOUS
  <2> QED
    BY <1>4, <1>11, <2>1 DEF Removed
<1>15. /\ \A i \in 1..len : i < idx => Part(R, t, i) = Part(R, keys, i)
       /\ Part(R, t, idx) = range2[l]
       /\ \A i \in 1..len : i > idx => Part(R, t, i) = Part(R, keys, i + 1)
  <2>1. range[l] = Part(R, keys, idx) /\ range[r] = Part(R, keys, idx + 1)
    BY <1>6, <1>7, <1>8
  <2> QED
    BY <1>2, <1>13, <2>1 DEF PartsJoinedAt, RangesJoined
<1>16. ASSUME NEW i \in 1..len
       PROVE  /\ q.children[i] \in DOMAIN range2
              /\ range2[q.children[i]] = Part(R, t, i)
  <2>1. CASE i < idx
    <3>1. i < next /\ i # idx /\ i # next /\ i \in 1..len + 1
      BY <1>6, <1>7, <2>1
    <3> QED
      BY <1>8, <1>14, <1>15, <2>1, <3>1 DEF RangesJoined
  <2>2. CASE i = idx
    <3>1. i < next
      BY <1>7, <2>2
    <3> QED
      BY <1>8, <1>14, <1>15, <2>2, <3>1 DEF RangesJoined
  <2>3. CASE i > idx
    <3>1. PICK h \in 1..len + 1 : h = i + 1 /\ h # idx /\ h # next /\ ~(i < next)
      BY <1>6, <1>7, <2>3
    <3>2. q.children[i] = children[h] /\ Part(R, t, i) = Part(R, keys, h)
      BY <1>14, <1>15, <2>3, <3>1
    <3> QED
      BY <1>8, <3>1, <3>2 DEF RangesJoined
  <2> QED
    BY <1>6, <2>1, <2>2, <2>3
<1> QED
  BY <1>9, <1>12, <1>14, <1>16 DEF Holds

\* The children of p at idx and after it are l and r.
Neighbours(l, r, P, p, idx) ==
    /\ idx \in Nat /\ idx >= 1 /\ idx < Len(P[p].children)
    /\ l = P[p].children[idx] /\ r = P[p].children[idx + 1]

\* They are pages below p, and no children of others or of one another.
NeighboursOnlyThere(l, r, P, ids, root, tree, height, p, idx) ==
    /\ p \in ids /\ l \in ids /\ r \in ids /\ l # r /\ p # l /\ p # r
    /\ l # root /\ r # root
    /\ l \in tree /\ r \in tree
    /\ height[p] # 0 /\ height[p] = height[l] + 1 /\ height[r] = height[l]
    /\ idx \in 1..Len(P[p].keys)
    /\ IsOnlyAt(l, P[p], idx) /\ IsOnlyAt(r, P[p], idx + 1)
    /\ \A x \in tree \ {p} : \A i \in 1..Len(P[x].children) : P[x].children[i] \notin {l, r}

\* Two neighbours below a page of a tree are in no other place of it.
LEMMA NeighboursAre ==
    ASSUME NEW P, NEW ids, NEW root, NEW tree, NEW height, NEW above, NEW place,
           IsTree(P, ids, root, tree, height, above, place),
           NEW p \in tree, NEW idx, NEW l, NEW r, Neighbours(l, r, P, p, idx)
    PROVE  NeighboursOnlyThere(l, r, P, ids, root, tree, height, p, idx)
<1>1. p \in ids /\ tree \subseteq ids
  BY DEF IsTree
<1>2. /\ P[p] \in Nodes(ids) /\ height[p] \in Nat
      /\ Len(P[p].keys) \in Nat /\ Len(P[p].children) \in Nat
      /\ height[p] = 0 => Len(P[p].children) = 0
      /\ height[p] # 0 => Len(P[p].children) = Len(P[p].keys) + 1
  BY <1>1, TreeNodeIs
<1>3. PICK lc \in Nat : lc = Len(P[p].children)
  BY <1>2
<1>4. PICK lk \in Nat : lk = Len(P[p].keys)
  BY <1>2
<1>5. idx \in 1..lc /\ idx + 1 \in 1..lc /\ lc # 0
  BY <1>3 DEF Neighbours
<1>6. height[p] # 0 /\ lc = lk + 1
  BY <1>2, <1>3, <1>4, <1>5
<1>7. idx \in 1..lk
  BY <1>5, <1>6
<1>8. PICK next \in 1..lc : next = idx + 1 /\ next # idx
  BY <1>5
<1>9. l = P[p].children[idx] /\ r = P[p].children[next]
  BY <1>8 DEF Neighbours
<1>10. \A i \in 1..lc : Leads(P[p].children[i], p, i, root, tree, height, above, place)
  BY <1>3 DEF IsTree
<1>11. Leads(l, p, idx, root, tree, height, above, place)
  BY <1>5, <1>9, <1>10
<1>12. Leads(r, p, next, root, tree, height, above, place)
  BY <1>9, <1>10
<1>13. l \in tree /\ r \in tree /\ l # r /\ l # root /\ r # root
  BY <1>8, <1>11, <1>12 DEF Leads
<1>14. l \in ids /\ r \in ids /\ height[l] \in Nat /\ height[r] \in Nat
  BY <1>1, <1>13, TreeNodeIs
<1>15. height[p] = height[l] + 1 /\ height[r] = height[l] /\ p # l /\ p # r
  <2>1. height[p] = height[l] + 1 /\ height[p] = height[r] + 1
    BY <1>11, <1>12 DEF Leads
  <2> QED
    BY <1>14, <2>1
<1>16. IsOnlyAt(l, P[p], idx)
  BY <1>3, <1>5, <1>9, <1>10, <1>11 DEF IsOnlyAt, Leads
<1>17. IsOnlyAt(r, P[p], idx + 1)
  <2>1. IsOnlyAt(r, P[p], next)
    BY <1>3, <1>9, <1>10, <1>12 DEF IsOnlyAt, Leads
  <2> QED
    BY <1>8, <2>1
<1>18. ASSUME NEW x \in tree \ {p}, NEW i \in 1..Len(P[x].children)
       PROVE  P[x].children[i] \notin {l, r}
  <2>1. PICK y : y = P[x].children[i]
    OBVIOUS
  <2>2. Leads(y, x, i, root, tree, height, above, place)
    BY <2>1 DEF IsTree
  <2>3. above[y] = x /\ above[l] = p /\ above[r] = p
    BY <1>11, <1>12, <2>2 DEF Leads
  <2> QED
    BY <2>1, <2>3
<1> QED
  BY <1>1, <1>4, <1>6, <1>7, <1>13, <1>14, <1>15, <1>16, <1>17, <1>18 DEF NeighboursOnlyThere

\* The ranges of the other pages.
Apart(range, apart) == [x \in DOMAIN range \ apart |-> range[x]]

\* A node depends on the ranges of its children only.
LEMMA HoldsApart ==
    ASSUME NEW n, NEW R, NEW K, NEW range, Holds(n, R, range, K), NEW apart,
           \A i \in 1..Len(n.children) : n.children[i] \notin apart
    PROVE  Holds(n, R, Apart(range, apart), K)
<1>1. \A i \in 1..Len(n.children) : n.children[i] \in DOMAIN range
  BY DEF Holds
<1>2. /\ DOMAIN Apart(range, apart) = DOMAIN range \ apart
      /\ \A x \in DOMAIN range \ apart : Apart(range, apart)[x] = range[x]
  BY DEF Apart
<1>3. \A i \in 1..Len(n.children) :
         /\ n.children[i] \in DOMAIN Apart(range, apart)
         /\ Apart(range, apart)[n.children[i]] = range[n.children[i]]
  BY <1>1, <1>2
<1> QED
  BY <1>3, HoldsForOthers

LEMMA HoldsTogether ==
    ASSUME NEW n, NEW R, NEW K, NEW range, NEW apart, Holds(n, R, Apart(range, apart), K),
           NEW range2, \A x \in DOMAIN range \ apart : x \in DOMAIN range2 /\ range2[x] = range[x]
    PROVE  Holds(n, R, range2, K)
<1>1. \A i \in 1..Len(n.children) : n.children[i] \in DOMAIN Apart(range, apart)
  BY DEF Holds
<1>2. /\ DOMAIN Apart(range, apart) = DOMAIN range \ apart
      /\ \A x \in DOMAIN range \ apart : Apart(range, apart)[x] = range[x]
  BY DEF Apart
<1>3. \A i \in 1..Len(n.children) :
         /\ n.children[i] \in DOMAIN range2
         /\ range2[n.children[i]] = Apart(range, apart)[n.children[i]]
  BY <1>1, <1>2
<1> QED
  BY <1>3, HoldsForOthers

\* In Q one of the neighbours l and r has lent to the other, and m is between them.
LoanAt(Q, P, ids, p, idx, l, r, m) ==
    /\ \A x \in ids \ {p, l, r} : Q[x] = P[x]
    /\ Q[p].keys = [P[p].keys EXCEPT ![idx] = m] /\ Q[p].children = P[p].children
    /\ \/ /\ CanLendKeys(P[l]) /\ LentFromLeft(Q[l], Q[r], P[l], P[r], P[p].keys[idx])
          /\ m = Last(P[l].keys)
       \/ /\ CanLendKeys(P[r]) /\ LentFromRight(Q[r], Q[l], P[r], P[l], P[p].keys[idx])
          /\ m = IF IsLeaf(P[l]) THEN P[r].keys[2] ELSE Head(P[r].keys)

\* A loan from either side.
LEMMA LoanHolds ==
    ASSUME NEW ids, NEW l \in Nodes(ids), NEW r \in Nodes(ids), NEW height \in Nat,
           Fits(l, height), Fits(r, height),
           NEW X, NEW Y, NEW K, NEW range, Holds(l, X, range, K), Holds(r, Y, range, K),
           NEW s \in AllKeys, s \in K, Borders(X, Y, s), NEW l2, NEW r2, NEW m,
           \/ CanLendKeys(l) /\ LentFromLeft(l2, r2, l, r, s) /\ m = Last(l.keys)
           \/ /\ CanLendKeys(r) /\ LentFromRight(r2, l2, r, l, s)
              /\ m = IF IsLeaf(l) THEN r.keys[2] ELSE Head(r.keys)
    PROVE  LoanInOrder(l2, r2, m, X, Y, range, K)
<1>1. CASE CanLendKeys(l) /\ LentFromLeft(l2, r2, l, r, s) /\ m = Last(l.keys)
  BY <1>1, LoanFromLeftHolds
<1>2. CASE /\ CanLendKeys(r) /\ LentFromRight(r2, l2, r, l, s)
           /\ m = IF IsLeaf(l) THEN r.keys[2] ELSE Head(r.keys)
  BY <1>2, LoanFromRightHolds
<1> QED
  BY <1>1, <1>2

\* A loan keeps the keys in order, all over the tree.
LEMMA LendKeepsOrder ==
    ASSUME NEW P, NEW ids, NEW root, NEW tree, NEW height, NEW above, NEW place,
           IsTree(P, ids, root, tree, height, above, place),
           NEW range, DOMAIN range \subseteq tree, NEW K, IsOrdered(P, root, range, K),
           NEW p \in DOMAIN range, NEW idx, NEW l, NEW r, Neighbours(l, r, P, p, idx),
           NEW Q, NEW m, LoanAt(Q, P, ids, p, idx, l, r, m),
           NEW range2, BordersMoved(range2, range, l, r, m)
    PROVE  IsOrdered(Q, root, range2, K)
<1>1. NeighboursOnlyThere(l, r, P, ids, root, tree, height, p, idx)
  BY NeighboursAre
<1>2. PICK s : s = P[p].keys[idx]
  OBVIOUS
<1>3. /\ P[p] \in Nodes(ids) /\ height[p] \in Nat /\ height[p] # 0 /\ Fits(P[p], height[p])
      /\ P[l] \in Nodes(ids) /\ height[l] \in Nat /\ Fits(P[l], height[l])
      /\ P[r] \in Nodes(ids) /\ Fits(P[r], height[l])
      /\ idx \in 1..Len(P[p].keys)
  <2>1. p \in ids /\ l \in ids /\ r \in ids /\ height[r] = height[l] /\ height[p] # 0
        /\ idx \in 1..Len(P[p].keys)
    BY <1>1 DEF NeighboursOnlyThere
  <2> QED
    BY <2>1, TreeNodeIs
<1>4. \A x \in DOMAIN range : Holds(P[x], range[x], range, K)
  BY DEF IsOrdered
<1>5. l \in DOMAIN range /\ r \in DOMAIN range
  BY DEF BordersMoved
<1>6. Borders(range[l], range[r], s) /\ s \in AllKeys /\ s \in K
  <2>1. l = P[p].children[idx] /\ r = P[p].children[idx + 1]
    BY DEF Neighbours
  <2> QED
    BY <1>2, <1>3, <1>4, <2>1, ParentBorders
<1>7. PICK rest : rest = Apart(range, {l, r})
  OBVIOUS
<1>8. \A x \in DOMAIN range : x # p => Holds(P[x], range[x], rest, K)
  <2>1. ASSUME NEW x \in DOMAIN range, x # p PROVE Holds(P[x], range[x], rest, K)
    <3>1. x \in tree
      OBVIOUS
    <3>2. PICK R : R = range[x]
      OBVIOUS
    <3>3. Holds(P[x], R, range, K)
      BY <1>4, <3>2
    <3>4. PICK apart : apart = {l, r}
      OBVIOUS
    <3>5. PICK n : n = P[x]
      OBVIOUS
    <3>6. \A i \in 1..Len(n.children) : n.children[i] \notin apart
      BY <1>1, <2>1, <3>1, <3>4, <3>5 DEF NeighboursOnlyThere
    <3>7. Holds(n, R, Apart(range, apart), K)
      BY <3>3, <3>5, <3>6, HoldsApart
    <3> QED
      BY <1>7, <3>2, <3>4, <3>5, <3>7
  <2> QED
    BY <2>1
<1>9. p # l /\ p # r /\ l # r /\ l \in ids /\ r \in ids
  BY <1>1 DEF NeighboursOnlyThere
<1>10. LoanInOrder(Q[l], Q[r], m, range[l], range[r], rest, K)
  <2>1. Holds(P[l], range[l], rest, K) /\ Holds(P[r], range[r], rest, K)
    BY <1>5, <1>8, <1>9
  <2>2. PICK ln, rn, X, Y, l2, r2, h :
           /\ ln = P[l] /\ rn = P[r] /\ X = range[l] /\ Y = range[r]
           /\ l2 = Q[l] /\ r2 = Q[r] /\ h = height[l]
    OBVIOUS
  <2>3. /\ h \in Nat
        /\ ln \in Nodes(ids) /\ rn \in Nodes(ids) /\ Fits(ln, h) /\ Fits(rn, h)
        /\ Holds(ln, X, rest, K) /\ Holds(rn, Y, rest, K)
        /\ s \in AllKeys /\ s \in K /\ Borders(X, Y, s)
    BY <1>3, <1>6, <2>1, <2>2
  <2>4. \/ CanLendKeys(ln) /\ LentFromLeft(l2, r2, ln, rn, s) /\ m = Last(ln.keys)
        \/ /\ CanLendKeys(rn) /\ LentFromRight(r2, l2, rn, ln, s)
           /\ m = IF IsLeaf(ln) THEN rn.keys[2] ELSE Head(rn.keys)
    BY <1>2, <2>2 DEF LoanAt
  <2>5. LoanInOrder(l2, r2, m, X, Y, rest, K)
    BY ONLY <2>3, <2>4, LoanHolds
  <2> QED
    BY <2>2, <2>5
<1>11. /\ m \in K /\ m \in AllKeys /\ IsBorderIn(m, range[l] \cup range[r])
       /\ Holds(Q[l], range2[l], rest, K) /\ Holds(Q[r], range2[r], rest, K)
  BY <1>10 DEF LoanInOrder, BordersMoved
<1>12. \A x \in DOMAIN range \ {l, r} : x \in DOMAIN range2 /\ range2[x] = range[x]
  BY DEF BordersMoved
<1>13. Holds(Q[l], range2[l], range2, K) /\ Holds(Q[r], range2[r], range2, K)
  BY <1>7, <1>11, <1>12, HoldsTogether
<1>14. Holds(Q[p], range2[p], range2, K)
  <2>1. IsOnlyAt(l, P[p], idx) /\ IsOnlyAt(r, P[p], idx + 1)
    BY <1>1 DEF NeighboursOnlyThere
  <2>2. Q[p].keys = [P[p].keys EXCEPT ![idx] = m] /\ Q[p].children = P[p].children
    BY DEF LoanAt
  <2>3. Holds(P[p], range[p], range, K)
    BY <1>4
  <2>4. Holds(Q[p], range[p], range2, K)
    BY <1>3, <1>11, <2>1, <2>2, <2>3, ParentOfLoanHolds
  <2>5. range2[p] = range[p]
    BY <1>9, <1>12
  <2> QED
    BY <2>4, <2>5
<1>15. ASSUME NEW x \in DOMAIN range, x # l, x # r, x # p
       PROVE  Holds(Q[x], range2[x], range2, K)
  <2>1. x \in ids \ {p, l, r}
    BY <1>15 DEF IsTree
  <2>2. Q[x] = P[x]
    BY <2>1 DEF LoanAt
  <2>3. Holds(P[x], range[x], range2, K)
    BY <1>7, <1>8, <1>12, <1>15, HoldsTogether
  <2> QED
    BY <1>12, <1>15, <2>2, <2>3
<1>16. root \in DOMAIN range2 /\ range2[root] = Int
  <2>1. root # l /\ root # r
    BY <1>1 DEF NeighboursOnlyThere
  <2> QED
    BY <1>12, <2>1 DEF IsOrdered
<1>17. DOMAIN range2 = DOMAIN range
  BY DEF BordersMoved
<1> QED
  BY <1>13, <1>14, <1>15, <1>16, <1>17 DEF IsOrdered

\* In Q the page r is emptied into l, its neighbour.
MergeAt(Q, P, ids, p, idx, l, r) ==
    /\ \A x \in ids \ {p, l} : Q[x] = P[x]
    /\ MergesNodes(Q[l], P[l], P[r], P[p].keys[idx])
    /\ Q[p].keys = RemoveAt(P[p].keys, idx) /\ Q[p].children = RemoveAt(P[p].children, idx + 1)

\* A merge keeps the keys in order, all over the tree.
LEMMA MergeKeepsOrder ==
    ASSUME NEW P, NEW ids, NEW root, NEW tree, NEW height, NEW above, NEW place,
           IsTree(P, ids, root, tree, height, above, place),
           NEW range, DOMAIN range \subseteq tree, NEW K, IsOrdered(P, root, range, K),
           NEW p \in DOMAIN range, NEW idx, NEW l, NEW r, Neighbours(l, r, P, p, idx),
           NEW Q, MergeAt(Q, P, ids, p, idx, l, r),
           NEW range2, RangesJoined(range2, range, l, r)
    PROVE  IsOrdered(Q, root, range2, K)
<1>1. NeighboursOnlyThere(l, r, P, ids, root, tree, height, p, idx)
  BY NeighboursAre
<1>2. PICK s : s = P[p].keys[idx]
  OBVIOUS
<1>3. /\ P[p] \in Nodes(ids) /\ height[p] \in Nat /\ height[p] # 0 /\ Fits(P[p], height[p])
      /\ P[l] \in Nodes(ids) /\ height[l] \in Nat /\ Fits(P[l], height[l])
      /\ P[r] \in Nodes(ids) /\ Fits(P[r], height[l])
      /\ idx \in 1..Len(P[p].keys)
  <2>1. p \in ids /\ l \in ids /\ r \in ids /\ height[r] = height[l] /\ height[p] # 0
        /\ idx \in 1..Len(P[p].keys)
    BY <1>1 DEF NeighboursOnlyThere
  <2> QED
    BY <2>1, TreeNodeIs
<1>4. \A x \in DOMAIN range : Holds(P[x], range[x], range, K)
  BY DEF IsOrdered
<1>5. l \in DOMAIN range /\ r \in DOMAIN range
  BY DEF RangesJoined
<1>6. Borders(range[l], range[r], s) /\ s \in AllKeys /\ s \in K
  <2>1. l = P[p].children[idx] /\ r = P[p].children[idx + 1]
    BY DEF Neighbours
  <2> QED
    BY <1>2, <1>3, <1>4, <2>1, ParentBorders
<1>7. PICK rest : rest = Apart(range, {l, r})
  OBVIOUS
<1>8. \A x \in DOMAIN range : x # p => Holds(P[x], range[x], rest, K)
  <2>1. ASSUME NEW x \in DOMAIN range, x # p PROVE Holds(P[x], range[x], rest, K)
    <3>1. x \in tree
      OBVIOUS
    <3>2. PICK R : R = range[x]
      OBVIOUS
    <3>3. Holds(P[x], R, range, K)
      BY <1>4, <3>2
    <3>4. PICK apart : apart = {l, r}
      OBVIOUS
    <3>5. PICK n : n = P[x]
      OBVIOUS
    <3>6. \A i \in 1..Len(n.children) : n.children[i] \notin apart
      BY <1>1, <2>1, <3>1, <3>4, <3>5 DEF NeighboursOnlyThere
    <3>7. Holds(n, R, Apart(range, apart), K)
      BY <3>3, <3>5, <3>6, HoldsApart
    <3> QED
      BY <1>7, <3>2, <3>4, <3>5, <3>7
  <2> QED
    BY <2>1
<1>9. p # l /\ p # r /\ l # r /\ l \in ids /\ r \in ids
  BY <1>1 DEF NeighboursOnlyThere
<1>10. Holds(Q[l], range[l] \cup range[r], rest, K)
  <2>1. Holds(P[l], range[l], rest, K) /\ Holds(P[r], range[r], rest, K)
    BY <1>5, <1>8, <1>9
  <2>2. PICK ln, rn, X, Y, l2, h :
           /\ ln = P[l] /\ rn = P[r] /\ X = range[l] /\ Y = range[r]
           /\ l2 = Q[l] /\ h = height[l]
    OBVIOUS
  <2>3. /\ h \in Nat
        /\ ln \in Nodes(ids) /\ rn \in Nodes(ids) /\ Fits(ln, h) /\ Fits(rn, h)
        /\ Holds(ln, X, rest, K) /\ Holds(rn, Y, rest, K)
        /\ s \in AllKeys /\ s \in K /\ Borders(X, Y, s)
    BY <1>3, <1>6, <2>1, <2>2
  <2>4. MergesNodes(l2, ln, rn, s)
    BY <1>2, <2>2 DEF MergeAt
  <2>5. Holds(l2, X \cup Y, rest, K)
    BY ONLY <2>3, <2>4, MergedHolds
  <2> QED
    BY <2>2, <2>5
<1>11. Holds(Q[l], range2[l], rest, K)
  BY <1>10 DEF RangesJoined
<1>12. \A x \in DOMAIN range \ {l, r} : x \in DOMAIN range2 /\ range2[x] = range[x]
  BY DEF RangesJoined
<1>13. Holds(Q[l], range2[l], range2, K)
  BY <1>7, <1>11, <1>12, HoldsTogether
<1>14. Holds(Q[p], range2[p], range2, K)
  <2>1. IsOnlyAt(l, P[p], idx) /\ IsOnlyAt(r, P[p], idx + 1)
    BY <1>1 DEF NeighboursOnlyThere
  <2>2. /\ Q[p].keys = RemoveAt(P[p].keys, idx)
        /\ Q[p].children = RemoveAt(P[p].children, idx + 1)
    BY DEF MergeAt
  <2>3. Holds(P[p], range[p], range, K)
    BY <1>4
  <2>4. Holds(Q[p], range[p], range2, K)
    BY <1>3, <2>1, <2>2, <2>3, ParentOfMergedHolds
  <2>5. range2[p] = range[p]
    BY <1>9, <1>12
  <2> QED
    BY <2>4, <2>5
<1>15. ASSUME NEW x \in DOMAIN range, x # l, x # r, x # p
       PROVE  Holds(Q[x], range2[x], range2, K)
  <2>1. x \in ids \ {p, l}
    BY <1>15 DEF IsTree
  <2>2. Q[x] = P[x]
    BY <2>1 DEF MergeAt
  <2>3. Holds(P[x], range[x], range2, K)
    BY <1>7, <1>8, <1>12, <1>15, HoldsTogether
  <2> QED
    BY <1>12, <1>15, <2>2, <2>3
<1>16. root \in DOMAIN range2 /\ range2[root] = Int
  <2>1. root # l /\ root # r
    BY <1>1 DEF NeighboursOnlyThere
  <2> QED
    BY <1>12, <2>1 DEF IsOrdered
<1>17. DOMAIN range2 = DOMAIN range \ {r}
  BY DEF RangesJoined
<1> QED
  BY <1>13, <1>14, <1>15, <1>16, <1>17 DEF IsOrdered

---------------------------------------------------------------------------
(* The order of the keys through an insert. *)

\* A set of positions that has all below each of its own is counted by the last.
LEMMA CountedFromBelow ==
    ASSUME NEW len \in Nat, NEW S, S \subseteq 1..len,
           \A i \in S, j \in 1..len : j < i => j \in S
    PROVE  Cardinality(S) \in 0..len /\ S = 1..Cardinality(S)
<1>1. CASE S = {}
  <2>1. Cardinality(S) = 0
    BY <1>1, FS_EmptySet
  <2> QED
    BY <1>1, <2>1
<1>2. CASE S # {}
  <2>1. S \in SUBSET Nat /\ \A x \in S : x <= len
    OBVIOUS
  <2>2. PICK m \in S : \A y \in S : y <= m
    BY <1>2, <2>1, MaxIsGreatest
  <2>3. m \in 1..len
    OBVIOUS
  <2>4. S = 1..m
    <3>1. \A y \in S : y \in 1..m
      BY <2>1, <2>2, <2>3
    <3>2. ASSUME NEW y \in 1..m PROVE y \in S
      <4>1. y \in 1..len /\ (y < m \/ y = m)
        BY <2>3
      <4> QED
        BY <4>1
    <3> QED
      BY <3>1, <3>2
  <2>5. Cardinality(1..m) = m
    <3>1. 1 \in Int /\ m \in Int
      BY <2>3
    <3>2. Cardinality(1..m) = IF 1 > m THEN 0 ELSE m - 1 + 1
      BY <3>1, FS_Interval
    <3> QED
      BY <2>3, <3>2
  <2> QED
    BY <2>3, <2>4, <2>5
<1> QED
  BY <1>1, <1>2

\* The keys up to, and those below, a key are the first ones.
LEMMA KeysUpToAre ==
    ASSUME NEW ids, NEW n \in Nodes(ids), NEW R, NEW K, InOrder(n.keys, R, K), NEW key \in Int
    PROVE  /\ KeysUpTo(n, key) \in 0..Len(n.keys) /\ KeysBelow(n, key) \in 0..Len(n.keys)
           /\ \A i \in 1..Len(n.keys) : i <= KeysUpTo(n, key) <=> n.keys[i] <= key
           /\ \A i \in 1..Len(n.keys) : i <= KeysBelow(n, key) <=> n.keys[i] < key
<1>1. PICK keys : keys = n.keys
  OBVIOUS
<1>2. PICK len \in Nat : len = Len(keys)
  BY <1>1, NodeIs
<1>3. DOMAIN keys = 1..len
  BY <1>1, <1>2, NodeIs
<1>4. /\ \A i \in 1..len : keys[i] \in Int
      /\ \A i, j \in 1..len : i < j => keys[i] < keys[j]
  BY <1>1, <1>2 DEF InOrder
<1>5. PICK S : S = {i \in 1..len : keys[i] <= key}
  OBVIOUS
<1>6. PICK T : T = {i \in 1..len : keys[i] < key}
  OBVIOUS
<1>7. KeysUpTo(n, key) = Cardinality(S) /\ KeysBelow(n, key) = Cardinality(T)
  BY <1>1, <1>3, <1>5, <1>6 DEF KeysUpTo, KeysBelow
<1>8. ASSUME NEW i \in 1..len, NEW j \in 1..len, j < i
      PROVE  (i \in S => j \in S) /\ (i \in T => j \in T)
  <2>1. keys[j] < keys[i] /\ keys[i] \in Int /\ keys[j] \in Int
    BY <1>4, <1>8
  <2> QED
    BY <1>5, <1>6, <2>1
<1>9. Cardinality(S) \in 0..len /\ S = 1..Cardinality(S)
  <2>1. S \subseteq 1..len /\ \A i \in S, j \in 1..len : j < i => j \in S
    BY <1>5, <1>8
  <2> QED
    BY <2>1, CountedFromBelow
<1>10. Cardinality(T) \in 0..len /\ T = 1..Cardinality(T)
  <2>1. T \subseteq 1..len /\ \A i \in T, j \in 1..len : j < i => j \in T
    BY <1>6, <1>8
  <2> QED
    BY <2>1, CountedFromBelow
<1>11. PICK u \in 0..len : u = Cardinality(S) /\ S = 1..u
  BY <1>9
<1>12. PICK b \in 0..len : b = Cardinality(T) /\ T = 1..b
  BY <1>10
<1>13. \A i \in 1..len : (i <= u <=> keys[i] <= key) /\ (i <= b <=> keys[i] < key)
  <2>1. \A i \in 1..len : i <= u <=> i \in S
    <3>1. \A i \in 1..len : i <= u <=> i \in 1..u
      BY SMT
    <3> QED
      BY <1>11, <3>1, Zenon
  <2>2. \A i \in 1..len : i <= b <=> i \in T
    <3>1. \A i \in 1..len : i <= b <=> i \in 1..b
      BY SMT
    <3> QED
      BY <1>12, <3>1, Zenon
  <2> QED
    BY <1>5, <1>6, <2>1, <2>2
<1> QED
  BY <1>1, <1>2, <1>7, <1>11, <1>12, <1>13

\* insert goes to the child that the key is for.
LEMMA ChildIsFor ==
    ASSUME NEW ids, NEW n \in Nodes(ids), NEW height \in Nat, height # 0, Fits(n, height),
           NEW R, NEW K, InOrder(n.keys, R, K), NEW key \in R
    PROVE  key \in Part(R, n.keys, ChildIndex(n, key))
<1>1. PICK len \in Nat : len = Len(n.keys)
  BY NodeIs
<1>2. PICK u : u = KeysUpTo(n, key)
  OBVIOUS
<1>3. key \in Int
  BY DEF InOrder
<1>4. u \in 0..len /\ \A i \in 1..len : i <= u <=> n.keys[i] <= key
  BY <1>1, <1>2, <1>3, KeysUpToAre
<1>5. PICK idx : idx = ChildIndex(n, key)
  OBVIOUS
<1>6. idx = u + 1
  <2>1. Len(n.children) = len + 1
    BY <1>1 DEF Fits
  <2> QED
    BY <1>1, <1>2, <1>4, <1>5, <2>1 DEF ChildIndex
<1>7. idx > 1 => n.keys[idx - 1] <= key
  <2>1. idx > 1 => idx - 1 \in 1..len /\ idx - 1 <= u
    BY <1>4, <1>6
  <2> QED
    BY <1>4, <2>1
<1>8. idx <= len => key < n.keys[idx]
  <2>1. idx <= len => idx \in 1..len /\ ~(idx <= u)
    BY <1>4, <1>6
  <2>2. idx <= len => n.keys[idx] \in Int
    BY <1>1, <2>1 DEF InOrder
  <2>3. idx <= len => ~(n.keys[idx] <= key)
    BY <1>4, <2>1
  <2> QED
    BY <1>3, <2>2, <2>3
<1>9. key \in Part(R, n.keys, idx)
  BY <1>1, <1>7, <1>8 DEF Part
<1> QED
  BY <1>5, <1>9

\* A key that is not there goes before the first key that is greater.
LEMMA KeyGoesAt ==
    ASSUME NEW ids, NEW n \in Nodes(ids), NEW R, NEW K, InOrder(n.keys, R, K),
           NEW key \in R, key \notin K
    PROVE  KeysBelow(n, key) + 1 \in 1..Len(n.keys) + 1 /\ GoesAt(key, n.keys, KeysBelow(n, key) + 1)
<1>1. PICK len \in Nat : len = Len(n.keys)
  BY NodeIs
<1>2. PICK b : b = KeysBelow(n, key)
  OBVIOUS
<1>3. key \in Int /\ \A i \in 1..len : n.keys[i] \in Int /\ n.keys[i] # key
  BY <1>1 DEF InOrder
<1>4. b \in 0..len /\ \A i \in 1..len : i <= b <=> n.keys[i] < key
  BY <1>1, <1>2, <1>3, KeysUpToAre
<1>5. PICK at \in 1..len + 1 : at = b + 1
  BY <1>4
<1>6. ASSUME NEW i \in 1..len
      PROVE  (i < at => n.keys[i] < key) /\ (i >= at => key < n.keys[i])
  <2>1. i < at <=> i <= b
    BY <1>4, <1>5
  <2>2. i >= at <=> ~(i <= b)
    BY <1>4, <1>5
  <2>3. n.keys[i] \in Int /\ n.keys[i] # key /\ (i <= b <=> n.keys[i] < key)
    BY <1>3, <1>4
  <2> QED
    BY <1>3, <2>1, <2>2, <2>3
<1>7. GoesAt(key, n.keys, at)
  BY <1>1, <1>6 DEF GoesAt
<1> QED
  BY <1>1, <1>2, <1>5, <1>7

\* The ranges of the pages in T.
Within(range, T) == [x \in DOMAIN range \cap T |-> range[x]]

\* It is enough to look at the pages of the tree.
LEMMA TreeIsOrdered ==
    ASSUME NEW P, NEW root, NEW range, NEW K, IsOrdered(P, root, range, K),
           NEW T, root \in T,
           \A x \in DOMAIN range \cap T : \A i \in 1..Len(P[x].children) : P[x].children[i] \in T
    PROVE  IsOrdered(P, root, Within(range, T), K)
<1>1. PICK some : some = Within(range, T)
  OBVIOUS
<1>2. /\ DOMAIN some = DOMAIN range \cap T
      /\ \A x \in DOMAIN range \cap T : some[x] = range[x]
  BY <1>1 DEF Within
<1>3. root \in DOMAIN some /\ some[root] = Int
  BY <1>2 DEF IsOrdered
<1>4. ASSUME NEW x \in DOMAIN some PROVE Holds(P[x], some[x], some, K)
  <2>1. x \in DOMAIN range \cap T
    BY <1>2
  <2>2. Holds(P[x], range[x], range, K)
    BY <2>1 DEF IsOrdered
  <2>3. \A i \in 1..Len(P[x].children) : P[x].children[i] \in DOMAIN range
    BY <2>2 DEF Holds
  <2>4. \A i \in 1..Len(P[x].children) :
           /\ P[x].children[i] \in DOMAIN some
           /\ some[P[x].children[i]] = range[P[x].children[i]]
    BY <1>2, <2>1, <2>3
  <2>5. PICK n : n = P[x]
    OBVIOUS
  <2>6. PICK R : R = range[x]
    OBVIOUS
  <2>7. Holds(n, R, some, K)
    BY <2>2, <2>4, <2>5, <2>6, HoldsForOthers
  <2> QED
    BY <1>2, <2>1, <2>5, <2>6, <2>7
<1> QED
  BY <1>1, <1>3, <1>4 DEF IsOrdered

\* The keys, all of K, are in order, with these ranges for pages of the tree only.
OrderedWith(st, tree, range, K) ==
    DOMAIN range \subseteq tree /\ IsOrdered(st.pages, st.root, range, K)

\* For the pages of the tree these ranges are the same.
SameInTree(range2, range, tree) ==
    \A x \in DOMAIN range \cap tree : x \in DOMAIN range2 /\ range2[x] = range[x]

\* The ranges may be those of the pages of the tree only.
LEMMA OrderedInTree ==
    ASSUME NEW st, NEW n, NEW tree, NEW height, NEW above, NEW place,
           Shape(st, n, tree, height, above, place),
           NEW range, NEW K, IsOrdered(st.pages, st.root, range, K)
    PROVE  \E range2 : OrderedWith(st, tree, range2, K) /\ SameInTree(range2, range, tree)
<1>1. PICK P : P = st.pages
  OBVIOUS
<1>2. PICK root : root = st.root
  OBVIOUS
<1>3. /\ root \in tree
      /\ \A x \in tree : \A i \in 1..Len(P[x].children) : P[x].children[i] \in tree
  BY <1>1, <1>2 DEF Shape, IsTree, Leads
<1>4. IsOrdered(P, root, Within(range, tree), K)
  BY <1>1, <1>2, <1>3, TreeIsOrdered
<1>5. /\ DOMAIN Within(range, tree) = DOMAIN range \cap tree
      /\ \A x \in DOMAIN range \cap tree : Within(range, tree)[x] = range[x]
  BY DEF Within
<1>6. OrderedWith(st, tree, Within(range, tree), K)
  BY <1>1, <1>2, <1>4, <1>5 DEF OrderedWith
<1>7. SameInTree(Within(range, tree), range, tree)
  BY <1>5 DEF SameInTree
<1> QED
  BY <1>6, <1>7

\* The ranges after the child c was split, from m on into r.
LEMMA RangeIsSplit ==
    ASSUME NEW range, NEW c \in DOMAIN range, NEW r, r \notin DOMAIN range, NEW m
    PROVE  \E range2 : SplitsRange(range2, range, c, r, m)
<1>1. PICK range2 : range2 = [x \in DOMAIN range \cup {r} |->
                                IF x = r THEN {k \in range[c] : m <= k}
                                ELSE IF x = c THEN {k \in range[c] : k < m} ELSE range[x]]
  OBVIOUS
<1>2. SplitsRange(range2, range, c, r, m)
  BY <1>1 DEF SplitsRange
<1> QED
  BY <1>2

\* The promoted key is one of the node's (promote_key).
LEMMA PromotedIs ==
    ASSUME NEW ids, NEW n \in Nodes(ids), IsFull(n), NEW R, NEW K, InOrder(n.keys, R, K)
    PROVE  PromotedKey(n) \in K /\ PromotedKey(n) \in Int
<1>1. PICK len \in Nat : len = Len(n.keys)
  BY NodeIs
<1>2. len >= 1
  <2>1. MinKeys \in Nat /\ MaxKeys = 2 * MinKeys + 1
    BY DegreeIs
  <2> QED
    BY <1>1, <2>1 DEF IsFull
<1>3. len \div 2 + 1 \in 1..len
  BY <1>2
<1> QED
  BY <1>1, <1>3 DEF PromotedKey, Middle, InOrder

\* The keys of a node are of K, and this key is for it.
OrderedFor(st, id, key, K) ==
    \E range : /\ IsOrdered(st.pages, st.root, range, K)
               /\ id \in DOMAIN range /\ key \in range[id]

\* The side of the split the insert goes on with.
LEMMA SideIsFor ==
    ASSUME NEW ids, NEW children \in Seq(ids), NEW idx \in 1..Len(children),
           NEW c, c = children[idx], NEW r, NEW t, Inserted(t, children, idx + 1, r),
           NEW p, NEW m \in Int, NEW key \in Int, key # m
    PROVE  t[SideOfSplit(p, idx, m, key)] = IF key < m THEN c ELSE r
<1>1. Len(children) \in Nat
  BY LenProperties
<1>2. /\ idx \in 1..Len(children) + 1 /\ idx + 1 \in 1..Len(children) + 1
      /\ idx < idx + 1
  BY <1>1
<1>3. t[idx] = c /\ t[idx + 1] = r
  BY <1>2 DEF Inserted
<1>4. SideOfSplit(p, idx, m, key) = IF key < m THEN idx ELSE idx + 1
  BY DEF SideOfSplit
<1> QED
  BY <1>3, <1>4

\* One step of the way of an insert, a split of the child included.
LEMMA InsertStepOrder ==
    ASSUME NEW at, NEW top \in Nat, NEW k \in Nat, NEW key, NEW deleted,
           Inserting(at, top, k, deleted),
           NEW K, key \notin K, OrderedFor(at.store, at.id, key, K)
    PROVE  \/ deleted # NoPage /\ IsSpent(InsertStep(at, key).store)
           \/ OrderedFor(InsertStep(at, key).store, InsertStep(at, key).id, key, K)
<1>1. PICK n, tree, height, above, place :
        /\ Shape(at.store, n, tree, height, above, place)
        /\ at.store.first_deleted_page = deleted
        /\ at.id \in tree /\ ~IsFull(at.store.pages[at.id])
  BY DEF Inserting
<1>2. PICK st : st = at.store
  OBVIOUS
<1>3. PICK p : p = at.id
  OBVIOUS
<1>4. /\ Shape(st, n, tree, height, above, place) /\ st.first_deleted_page = deleted
      /\ p \in tree /\ ~IsFull(st.pages[p])
  BY <1>1, <1>2, <1>3
<1>5. /\ n \in Nat /\ st \in Stores(n)
      /\ IsTree(st.pages, 1..n, st.root, tree, height, above, place)
      /\ tree \subseteq 1..n /\ p \in 1..n
  BY <1>4 DEF Shape, IsTree
<1>6. /\ st.pages[p] \in Nodes(1..n) /\ height[p] \in Nat /\ Fits(st.pages[p], height[p])
  BY <1>5, TreeNodeIs
<1>7. PICK range : /\ OrderedWith(st, tree, range, K)
                   /\ p \in DOMAIN range /\ key \in range[p]
  <2>1. PICK range0 : /\ IsOrdered(st.pages, st.root, range0, K)
                      /\ p \in DOMAIN range0 /\ key \in range0[p]
    BY <1>2, <1>3 DEF OrderedFor
  <2>2. PICK range : OrderedWith(st, tree, range, K) /\ SameInTree(range, range0, tree)
    BY <1>4, <2>1, OrderedInTree
  <2> QED
    BY <1>4, <2>1, <2>2 DEF SameInTree
<1>8. /\ DOMAIN range \subseteq tree /\ IsOrdered(st.pages, st.root, range, K)
      /\ Holds(st.pages[p], range[p], range, K)
  BY <1>7 DEF OrderedWith, IsOrdered
<1>9. PICK next : next = InsertStep(at, key)
  OBVIOUS
<1>10. SUFFICES \/ deleted # NoPage /\ IsSpent(next.store)
                \/ OrderedFor(next.store, next.id, key, K)
  BY <1>9
<1>11. CASE IsLeaf(st.pages[p])
  <2>1. next = at
    BY <1>2, <1>3, <1>9, <1>11 DEF InsertStep, Page
  <2> QED
    BY <2>1
<1>12. CASE ~IsLeaf(st.pages[p])
  <2>1. height[p] # 0
    BY <1>6, <1>12, LeafIs
  <2>2. PICK idx : idx = ChildIndex(st.pages[p], key)
    OBVIOUS
  <2>3. idx \in 1..Len(st.pages[p].children)
    BY <1>6, <2>1, <2>2, ChildIndexIs
  <2>4. PICK c : c = st.pages[p].children[idx]
    OBVIOUS
  <2>5. c \in DOMAIN range /\ c \in tree /\ c \in 1..n /\ range[c] = Part(range[p], st.pages[p].keys, idx)
    BY <1>5, <1>8, <2>3, <2>4 DEF Holds
  <2>6. key \in range[c]
    <3>1. PICK R : R = range[p]
      OBVIOUS
    <3>2. PICK node : node = st.pages[p]
      OBVIOUS
    <3>3. key \in R /\ InOrder(node.keys, R, K) /\ node \in Nodes(1..n) /\ Fits(node, height[p])
      BY <1>6, <1>7, <1>8, <3>1, <3>2 DEF Holds
    <3>4. key \in Part(R, node.keys, ChildIndex(node, key))
      BY <1>6, <2>1, <3>3, ChildIsFor
    <3> QED
      BY <2>2, <2>5, <3>1, <3>2, <3>4
  <2>7. CASE ~IsFull(st.pages[c])
    <3>1. next = [store |-> st, id |-> c]
      BY <1>2, <1>3, <1>9, <1>12, <2>2, <2>4, <2>7 DEF InsertStep, Page
    <3>2. next.store = st /\ next.id = c
      BY <3>1
    <3> QED
      BY <1>8, <2>5, <2>6, <3>2 DEF OrderedFor
  <2>8. CASE IsFull(st.pages[c])
    <3>1. PICK s : s = Split(st, c)
      OBVIOUS
    <3>2. PICK q : q = ParentOfSplit(st.pages[p], idx, s.promoted, s.right)
      OBVIOUS
    <3>3. PICK w : w = WritePage(s.store, p, q)
      OBVIOUS
    <3>4. PICK side : side = SideOfSplit(st.pages[p], idx, s.promoted, key)
      OBVIOUS
    <3>5. next = [store |-> w, id |-> q.children[side]]
      BY <1>2, <1>3, <1>9, <1>12, <2>2, <2>4, <2>8, <3>1, <3>2, <3>3, <3>4 DEF InsertStep, Page
    <3>6. CASE deleted # NoPage
      <4>1. IsSpent(s.store)
        BY <1>4, <1>5, <3>1, <3>6, ReuseSpends
      <4>2. IsSpent(w)
        BY <3>3, <4>1, SpentStays
      <4> QED
        BY <3>5, <3>6, <4>2
    <3>7. CASE deleted = NoPage
      <4>1. height[p] = height[c] + 1
        <5>1. Leads(c, p, idx, st.root, tree, height, above, place)
          BY <1>4, <1>5, <2>3, <2>4 DEF IsTree
        <5> QED
          BY <5>1 DEF Leads
      <4>2. /\ w.root = st.root /\ s.right = n + 1
            /\ w.pages[p] = ParentOfSplit(st.pages[p], idx, s.promoted, n + 1)
            /\ IsSplit(w.pages, st.pages, 1..n, height, p, idx, c, n + 1)
        <5>1. SplitsChild(w, s, st, p, idx, c)
          BY <1>4, <2>3, <2>4, <2>8, <3>1, <3>2, <3>3, <3>7 DEF SplitsChild
        <5> QED
          BY <1>4, <2>5, <4>1, <5>1, SplitChildIs
      <4>3. PICK m : m = s.promoted
        OBVIOUS
      <4>4. m = PromotedKey(st.pages[c])
        BY <3>1, <4>3 DEF Split, Page
      <4>5. m \in K /\ m \in Int
        <5>1. InOrder(st.pages[c].keys, range[c], K)
          BY <1>8, <2>5 DEF IsOrdered, Holds
        <5>2. st.pages[c] \in Nodes(1..n)
          BY <1>5, <2>5, TreeNodeIs
        <5> QED
          BY <2>8, <4>4, <5>1, <5>2, PromotedIs
      <4>6. m \in AllKeys
        <5>1. st.pages[c] \in Nodes(1..n) /\ height[c] \in Nat /\ Fits(st.pages[c], height[c])
          BY <1>5, <2>5, TreeNodeIs
        <5>2. st.first_deleted_page = NoPage
          BY <1>4, <3>7
        <5> QED
          BY <1>5, <2>5, <2>8, <3>1, <4>3, <5>1, <5>2, SplitIs
      <4>7. PICK r : r = n + 1 /\ r \notin 1..n
        BY <1>5
      <4>8. PICK range2 : SplitsRange(range2, range, c, r, m)
        <5>1. r \notin DOMAIN range
          BY <1>5, <1>8, <4>7
        <5> QED
          BY <2>5, <5>1, RangeIsSplit
      <4>9. IsOrdered(w.pages, w.root, range2, K)
        <5>1. PICK ids : ids = 1..n
          OBVIOUS
        <5>2. PICK P, Q, root : P = st.pages /\ Q = w.pages /\ root = st.root
          OBVIOUS
        <5>3. /\ IsTree(P, ids, root, tree, height, above, place)
              /\ DOMAIN range \subseteq tree /\ IsOrdered(P, root, range, K)
              /\ p \in DOMAIN range /\ IsSplit(Q, P, ids, height, p, idx, c, r)
              /\ m = PromotedKey(P[c]) /\ Q[p] = ParentOfSplit(P[p], idx, m, r)
          BY <1>5, <1>7, <1>8, <4>2, <4>3, <4>4, <4>7, <5>1, <5>2
        <5>4. IsOrdered(Q, root, range2, K)
          BY ONLY <4>6, <4>8, <5>3, SplitKeepsOrder
        <5> QED
          BY <4>2, <5>2, <5>4
      <4>10. q.children[side] = IF key < m THEN c ELSE r
        <5>1. Inserted(q.children, st.pages[p].children, idx + 1, r)
          <6>1. IsParentOfSplit(w.pages[p], st.pages[p], idx, n + 1, height[p])
            BY <4>2 DEF IsSplit
          <6>2. w.pages[p] = q
            BY <3>2, <4>2
          <6> QED
            BY <4>7, <6>1, <6>2 DEF IsParentOfSplit
        <5>2. st.pages[p].children \in Seq(1..n)
          BY <1>6, NodeIs
        <5>3. key \in Int /\ key # m
          <6>1. range[p] \subseteq Int
            BY <1>8 DEF Holds, InOrder
          <6> QED
            BY <1>7, <4>5, <6>1
        <5> QED
          BY <2>3, <2>4, <3>4, <4>3, <4>5, <5>1, <5>2, <5>3, SideIsFor
      <4>11. PICK id : id = q.children[side]
        OBVIOUS
      <4>12. id \in DOMAIN range2 /\ key \in range2[id]
        <5>1. key \in Int
          <6>1. range[p] \subseteq Int
            BY <1>8 DEF Holds, InOrder
          <6> QED
            BY <1>7, <6>1
        <5>2. ~(key < m) => m <= key
          BY <4>5, <5>1
        <5> QED
          BY <2>6, <4>8, <4>10, <4>11, <5>2 DEF SplitsRange
      <4>13. next.store = w /\ next.id = id
        BY <3>5, <4>11
      <4> QED
        BY <4>9, <4>12, <4>13 DEF OrderedFor
    <3> QED
      BY <3>6, <3>7
  <2> QED
    BY <2>7, <2>8
<1> QED
  BY <1>11, <1>12

\* Where an insert of a key that is not there is after k steps, when it has not handed
\* out the deleted page.
InsertingInOrder(at, top, k, deleted, key, K) ==
    \/ deleted # NoPage /\ IsSpent(at.store)
    \/ Inserting(at, top, k, deleted) /\ OrderedFor(at.store, at.id, key, K)

\* The way of an insert to its leaf.
LEMMA InsertPathOrder ==
    ASSUME NEW st, NEW key, NEW top \in Nat, NEW deleted, Len(st.pages) \in Nat, NEW at,
           InsertPath(st, key) = at,
           Inserting([store |-> st, id |-> st.root], top, 0, deleted),
           NEW K, key \notin K, OrderedFor(st, st.root, key, K)
    PROVE  InsertingInOrder(at[Len(st.pages)], top, Len(st.pages), deleted, key, K)
<1> DEFINE T == {k \in Nat : k <= Len(st.pages) =>
                               InsertingInOrder(at[k], top, k, deleted, key, K)}
<1>1. /\ at[0] = [store |-> st, id |-> st.root]
      /\ \A n \in 1..Len(st.pages) : at[n] = InsertStep(at[n - 1], key)
  BY InsertPathIs
<1>2. 0 \in T
  <2>1. Inserting(at[0], top, 0, deleted) /\ at[0].store = st /\ at[0].id = st.root
    BY <1>1
  <2> QED
    BY <2>1 DEF InsertingInOrder
<1>3. ASSUME NEW k \in Nat, k \in T PROVE k + 1 \in T
  <2>1. SUFFICES ASSUME k + 1 <= Len(st.pages)
                 PROVE  InsertingInOrder(at[k + 1], top, k + 1, deleted, key, K)
    OBVIOUS
  <2>2. k <= Len(st.pages) /\ k + 1 \in 1..Len(st.pages) /\ (k + 1) - 1 = k
    BY <2>1
  <2>3. InsertingInOrder(at[k], top, k, deleted, key, K)
    BY <1>3, <2>2
  <2>4. at[k + 1] = InsertStep(at[k], key)
    BY <1>1, <2>2
  <2>5. CASE deleted # NoPage /\ IsSpent(at[k].store)
    BY <2>4, <2>5, SpentStepIs DEF InsertingInOrder
  <2>6. CASE Inserting(at[k], top, k, deleted) /\ OrderedFor(at[k].store, at[k].id, key, K)
    <3>1. PICK here : here = at[k]
      OBVIOUS
    <3>2. PICK next : next = InsertStep(here, key)
      OBVIOUS
    <3>3. Inserting(here, top, k, deleted) /\ OrderedFor(here.store, here.id, key, K)
      BY <2>6, <3>1
    <3>4. (deleted # NoPage /\ IsSpent(next.store)) \/ Inserting(next, top, k + 1, deleted)
      BY <3>2, <3>3, InsertStepIs
    <3>5. (deleted # NoPage /\ IsSpent(next.store)) \/ OrderedFor(next.store, next.id, key, K)
      BY <3>2, <3>3, InsertStepOrder
    <3> QED
      BY <2>4, <3>1, <3>2, <3>4, <3>5 DEF InsertingInOrder
  <2> QED
    BY <2>3, <2>5, <2>6 DEF InsertingInOrder
<1>4. Nat \subseteq T
  <2> HIDE DEF T
  <2> QED
    BY <1>2, <1>3, SetInduction
<1> QED
  BY <1>4

\* The keys of the tree, all of K, are in order.
Ordered(st, K) == \E range : IsOrdered(st.pages, st.root, range, K)

\* The keys may be among more.
LEMMA KeysMayGrow ==
    ASSUME NEW n, NEW R, NEW range, NEW K, Holds(n, R, range, K), NEW L, K \subseteq L
    PROVE  Holds(n, R, range, L)
  BY DEF Holds, InOrder

\* Another leaf in the place of one.
LEMMA LeafKeepsOrder ==
    ASSUME NEW n, NEW st \in Stores(n), NEW range, DOMAIN range \subseteq 1..n, NEW K,
           IsOrdered(st.pages, st.root, range, K), NEW p \in DOMAIN range,
           NEW leaf, Holds(leaf, range[p], range, K)
    PROVE  Ordered(WritePage(st, p, leaf), K)
<1>1. st.pages \in [1..n -> Nodes(1..n)]
  BY DEF Stores
<1>2. PICK Q : Q = [st.pages EXCEPT ![p] = leaf]
  OBVIOUS
<1>3. PICK w : w = WritePage(st, p, leaf)
  OBVIOUS
<1>4. w.pages = Q /\ w.root = st.root
  BY <1>2, <1>3 DEF WritePage, Stores
<1>5. Q[p] = leaf /\ \A x \in 1..n : x # p => Q[x] = st.pages[x]
  BY <1>1, <1>2
<1>6. ASSUME NEW x \in DOMAIN range PROVE Holds(Q[x], range[x], range, K)
  BY <1>5 DEF IsOrdered
<1>7. IsOrdered(Q, st.root, range, K)
  BY <1>6 DEF IsOrdered
<1> QED
  BY <1>3, <1>4, <1>7 DEF Ordered

\* The insert into the leaf.
LEMMA InsertAtLeafOrder ==
    ASSUME NEW at, NEW top \in Nat, NEW k \in Nat, k >= top, NEW key \in AllKeys, NEW deleted,
           Inserting(at, top, k, deleted),
           NEW K, key \notin K, OrderedFor(at.store, at.id, key, K)
    PROVE  Ordered(InsertAtLeaf(at, key).store, K \cup {key})
<1>1. PICK n, tree, height, above, place :
        /\ Shape(at.store, n, tree, height, above, place)
        /\ at.id \in tree
        /\ height[at.id] = IF k < top THEN top - k ELSE 0
  BY DEF Inserting
<1>2. PICK st : st = at.store
  OBVIOUS
<1>3. PICK p : p = at.id
  OBVIOUS
<1>4. /\ n \in Nat /\ st \in Stores(n) /\ p \in tree /\ height[p] = 0
      /\ IsTree(st.pages, 1..n, st.root, tree, height, above, place)
  BY <1>1, <1>2, <1>3 DEF Shape
<1>5. p \in 1..n /\ tree \subseteq 1..n
  BY <1>4 DEF IsTree
<1>6. PICK node : node = st.pages[p]
  OBVIOUS
<1>7. node \in Nodes(1..n) /\ Fits(node, 0)
  BY <1>4, <1>5, <1>6, TreeNodeIs
<1>8. PICK range : OrderedWith(st, tree, range, K) /\ p \in DOMAIN range /\ key \in range[p]
  <2>1. PICK range0 : /\ IsOrdered(st.pages, st.root, range0, K)
                      /\ p \in DOMAIN range0 /\ key \in range0[p]
    BY <1>2, <1>3 DEF OrderedFor
  <2>2. Shape(st, n, tree, height, above, place)
    BY <1>1, <1>2
  <2>3. PICK range : OrderedWith(st, tree, range, K) /\ SameInTree(range, range0, tree)
    BY <2>1, <2>2, OrderedInTree
  <2> QED
    BY <1>4, <2>1, <2>3 DEF SameInTree
<1>9. PICK R : R = range[p]
  OBVIOUS
<1>10. Holds(node, R, range, K) /\ InOrder(node.keys, R, K) /\ key \in R
  BY <1>6, <1>8, <1>9 DEF OrderedWith, IsOrdered, Holds
<1>11. PICK L : L = K \cup {key}
  OBVIOUS
<1>12. K \subseteq L /\ key \in L
  BY <1>11
<1>13. PICK leaf : leaf = WithKey(node, key, PointerOf[key])
  OBVIOUS
<1>14. Holds(leaf, R, range, L)
  <2>1. PICK pos : pos = KeysBelow(node, key) + 1
    OBVIOUS
  <2>2. PICK len \in Nat : len = Len(node.keys)
    BY <1>7, NodeIs
  <2>3. pos \in 1..len + 1 /\ GoesAt(key, node.keys, pos)
    BY <1>7, <1>10, <2>1, <2>2, KeyGoesAt
  <2>4. PICK t : t = InsertAt(node.keys, pos, key)
    OBVIOUS
  <2>5. Inserted(t, node.keys, pos, key)
    <3>1. node.keys \in Seq(AllKeys)
      BY <1>7, NodeIs
    <3> QED
      BY <2>2, <2>3, <2>4, <3>1, InsertedIs
  <2>6. InOrder(node.keys, R, L)
    BY <1>10, <1>12 DEF InOrder
  <2>7. InOrder(t, R, L)
    BY <1>10, <1>12, <2>2, <2>3, <2>5, <2>6, InsertedInOrder
  <2>8. leaf.keys = t /\ leaf.children = node.children
    BY <1>7, <1>13, <2>1, <2>4 DEF WithKey, Nodes
  <2>9. node.children = << >>
    BY <1>7, LeafIs DEF IsLeaf
  <2> QED
    BY <2>7, <2>8, <2>9, LeafHolds
<1>15. PICK w : w = WritePage(st, p, leaf)
  OBVIOUS
<1>16. InsertAtLeaf(at, key).store = st \/ InsertAtLeaf(at, key).store = w
  BY <1>2, <1>3, <1>6, <1>13, <1>15 DEF InsertAtLeaf, Page
<1>17. IsOrdered(st.pages, st.root, range, L) /\ DOMAIN range \subseteq 1..n
  BY <1>5, <1>8, <1>12, KeysMayGrow DEF OrderedWith, IsOrdered
<1>18. Ordered(st, L)
  BY <1>17 DEF Ordered
<1>19. Ordered(w, L)
  BY <1>4, <1>8, <1>9, <1>14, <1>15, <1>17, LeafKeepsOrder
<1> QED
  BY <1>11, <1>16, <1>18, <1>19

\* The new root above the two halves of the old one.
LEMMA NewRootHolds ==
    ASSUME NEW m \in Int, NEW K, m \in K, NEW l, NEW r, NEW range2,
           l \in DOMAIN range2, r \in DOMAIN range2,
           range2[l] = {k \in Int : k < m}, range2[r] = {k \in Int : m <= k},
           NEW n, n.keys = <<m>>, n.children = <<l, r>>
    PROVE  Holds(n, Int, range2, K)
<1>1. /\ n.keys[1] = m /\ Len(n.keys) = 1
      /\ Len(n.children) = 2 /\ n.children[1] = l /\ n.children[2] = r
  OBVIOUS
<1>2. Part(Int, n.keys, 1) = {k \in Int : k < m}
  BY <1>1 DEF Part
<1>3. Part(Int, n.keys, 2) = {k \in Int : m <= k}
  BY <1>1 DEF Part
<1>4. InOrder(n.keys, Int, K)
  BY <1>1 DEF InOrder
<1>5. Separates(n.keys, Int)
  <2>1. m - 1 \in Int /\ m - 1 < m
    OBVIOUS
  <2> QED
    BY <1>1, <2>1 DEF Separates
<1>6. ASSUME NEW i \in 1..Len(n.children)
      PROVE  n.children[i] \in DOMAIN range2 /\ range2[n.children[i]] = Part(Int, n.keys, i)
  <2>1. i = 1 \/ i = 2
    BY <1>1
  <2>2. CASE i = 1
    BY <1>1, <1>2, <2>2
  <2>3. CASE i = 2
    BY <1>1, <1>3, <2>3
  <2> QED
    BY <2>1, <2>2, <2>3
<1> QED
  BY <1>4, <1>5, <1>6 DEF Holds

\* The split of a full root (split_root).
LEMMA SplitRootOrder ==
    ASSUME NEW st, NEW n, NEW tree, NEW height, NEW above, NEW place,
           Shape(st, n, tree, height, above, place),
           st.first_deleted_page = NoPage, IsFull(st.pages[st.root]),
           NEW K, Ordered(st, K)
    PROVE  Ordered(SplitRoot(st), K)
<1>1. /\ n \in Nat /\ st \in Stores(n)
      /\ IsTree(st.pages, 1..n, st.root, tree, height, above, place)
  BY DEF Shape
<1>2. PICK root : root = st.root
  OBVIOUS
<1>3. PICK r : r = n + 1
  OBVIOUS
<1>4. PICK top : top = n + 2
  OBVIOUS
<1>5. r # top /\ r \notin 1..n /\ top \notin 1..n
  BY <1>1, <1>3, <1>4
<1>6. /\ tree \subseteq 1..n /\ root \in 1..n /\ root \in tree
      /\ \A x \in tree : \A i \in 1..Len(st.pages[x].children) :
            st.pages[x].children[i] \in tree /\ st.pages[x].children[i] # root
  <2>1. /\ tree \subseteq 1..n /\ root \in tree
        /\ \A x \in tree : \A i \in 1..Len(st.pages[x].children) :
              Leads(st.pages[x].children[i], x, i, root, tree, height, above, place)
    BY <1>1, <1>2 DEF IsTree
  <2>2. ASSUME NEW x \in tree, NEW i \in 1..Len(st.pages[x].children)
        PROVE  st.pages[x].children[i] \in tree /\ st.pages[x].children[i] # root
    <3>1. Leads(st.pages[x].children[i], x, i, root, tree, height, above, place)
      BY <2>1
    <3> QED
      BY <3>1 DEF Leads
  <2> QED
    BY <2>1, <2>2
<1>7. PICK full : full = st.pages[root]
  OBVIOUS
<1>8. PICK h : h = height[root]
  OBVIOUS
<1>9. full \in Nodes(1..n) /\ h \in Nat /\ Fits(full, h) /\ IsFull(full)
  BY <1>1, <1>2, <1>6, <1>7, <1>8, TreeNodeIs
<1>10. PICK z : z = SplitRoot(st)
  OBVIOUS
<1>11. RootIsSplit(z, st, n, h)
  BY <1>1, <1>2, <1>6, <1>7, <1>9, <1>10, SplitRootPages
<1>12. PICK m : m = PromotedKey(full)
  OBVIOUS
<1>13. PICK range : OrderedWith(st, tree, range, K)
  BY OrderedInTree DEF Ordered
<1>14. /\ DOMAIN range \subseteq tree /\ root \in DOMAIN range /\ range[root] = Int
       /\ \A x \in DOMAIN range : Holds(st.pages[x], range[x], range, K)
       /\ Holds(full, Int, range, K)
  BY <1>2, <1>7, <1>13 DEF OrderedWith, IsOrdered
<1>15. PICK rest : rest = Apart(range, {root})
  OBVIOUS
<1>16. Holds(full, Int, rest, K)
  <2>1. \A i \in 1..Len(full.children) : full.children[i] \notin {root}
    BY <1>6, <1>7
  <2> QED
    BY <1>14, <1>15, <2>1, HoldsApart
<1>17. PICK a : a = z.pages[root]
  OBVIOUS
<1>18. PICK b : b = z.pages[r]
  OBVIOUS
<1>19. SplitInOrder(a, b, m, Int, rest, K)
  <2>1. IsLeftHalf(a, full, h, r) /\ IsRightHalf(b, full, h)
    BY <1>2, <1>3, <1>7, <1>11, <1>17, <1>18 DEF RootIsSplit
  <2>2. SplitsNode(a, b, m, full, h, r)
    BY <1>9, <1>12, <2>1 DEF SplitsNode
  <2> QED
    BY <1>9, <1>16, <2>2, SplitHolds
<1>20. PICK low : low = {k \in Int : k < m}
  OBVIOUS
<1>21. PICK high : high = {k \in Int : m <= k}
  OBVIOUS
<1>22. m \in K /\ m \in Int /\ Holds(a, low, rest, K) /\ Holds(b, high, rest, K)
  BY <1>19, <1>20, <1>21 DEF SplitInOrder, IsBorderIn
<1>23. PICK range2 : range2 = [x \in DOMAIN range \cup {r, top} |->
                                 IF x = top THEN Int ELSE IF x = r THEN high
                                 ELSE IF x = root THEN low ELSE range[x]]
  OBVIOUS
<1>24. /\ DOMAIN range2 = DOMAIN range \cup {r, top}
       /\ range2[top] = Int /\ range2[r] = high /\ range2[root] = low
       /\ \A x \in DOMAIN range \ {root} : x \in DOMAIN range2 /\ range2[x] = range[x]
  BY <1>5, <1>6, <1>14, <1>23
<1>25. Holds(a, low, range2, K) /\ Holds(b, high, range2, K)
  BY <1>15, <1>22, <1>24, HoldsTogether
<1>26. ASSUME NEW x \in DOMAIN range \ {root} PROVE Holds(z.pages[x], range2[x], range2, K)
  <2>1. x \in tree /\ x \in 1..n /\ x # root
    BY <1>6, <1>14
  <2>2. PICK node : node = st.pages[x]
    OBVIOUS
  <2>3. z.pages[x] = node
    BY <1>2, <1>11, <2>1, <2>2 DEF RootIsSplit
  <2>4. PICK R : R = range[x]
    OBVIOUS
  <2>5. Holds(node, R, range, K)
    BY <1>14, <2>2, <2>4
  <2>6. \A i \in 1..Len(node.children) :
           /\ node.children[i] \in DOMAIN range2
           /\ range2[node.children[i]] = range[node.children[i]]
    <3>1. ASSUME NEW i \in 1..Len(node.children)
          PROVE  node.children[i] \in DOMAIN range \ {root}
      BY <1>6, <2>1, <2>2, <2>5 DEF Holds
    <3> QED
      BY <1>24, <3>1
  <2>7. Holds(node, R, range2, K)
    BY <2>5, <2>6, HoldsForOthers
  <2> QED
    BY <1>24, <2>3, <2>4, <2>7
<1>27. Holds(z.pages[top], Int, range2, K)
  <2>1. PICK node : node = z.pages[top]
    OBVIOUS
  <2>2. node.keys = <<m>> /\ node.children = <<root, r>>
    BY <1>2, <1>3, <1>4, <1>7, <1>11, <1>12, <2>1 DEF RootIsSplit, EmptyNode
  <2>3. root \in DOMAIN range2 /\ r \in DOMAIN range2
    BY <1>14, <1>24
  <2> QED
    BY <1>20, <1>21, <1>22, <1>24, <2>1, <2>2, <2>3, NewRootHolds
<1>28. IsOrdered(z.pages, top, range2, K)
  <2>1. ASSUME NEW x \in DOMAIN range2 PROVE Holds(z.pages[x], range2[x], range2, K)
    <3>1. x = top \/ x = r \/ x = root \/ x \in DOMAIN range \ {root}
      BY <1>24
    <3>2. CASE x = top
      BY <1>24, <1>27, <3>2
    <3>3. CASE x = r
      BY <1>18, <1>24, <1>25, <3>3
    <3>4. CASE x = root
      BY <1>17, <1>24, <1>25, <3>4
    <3> QED
      BY <1>26, <3>1, <3>2, <3>3, <3>4
  <2> QED
    BY <1>24, <2>1 DEF IsOrdered
<1>29. z.root = top
  BY <1>4, <1>11 DEF RootIsSplit
<1> QED
  BY <1>10, <1>28, <1>29 DEF Ordered

\* The insert below a root that is not full.
LEMMA InsertAtRootOrder ==
    ASSUME NEW st, HasRoom(st), NEW key \in AllKeys, NEW K, key \notin K, Ordered(st, K)
    PROVE  \/ st.first_deleted_page # NoPage /\ IsSpent(InsertAtRoot(st, key).store)
           \/ Ordered(InsertAtRoot(st, key).store, K \cup {key})
<1>1. PICK n, tree, height, above, place :
        /\ Shape(st, n, tree, height, above, place)
        /\ CanSpare(st.pages, st.root, height, st.root)
        /\ ~IsFull(st.pages[st.root])
  BY DEF HasRoom
<1>2. PICK top : top = height[st.root]
  OBVIOUS
<1>3. PICK deleted : deleted = st.first_deleted_page
  OBVIOUS
<1>4. /\ n \in Nat /\ st \in Stores(n) /\ top \in Nat /\ top < n /\ st.root \in tree
      /\ Len(st.pages) = n
  BY <1>1, <1>2, ShapeIs
<1>5. PICK start : start = [store |-> st, id |-> st.root]
  OBVIOUS
<1>6. Inserting(start, top, 0, deleted)
  <2>1. start.store = st /\ start.id = st.root
    BY <1>5
  <2>2. height[st.root] = IF 0 < top THEN top - 0 ELSE 0
    BY <1>2, <1>4
  <2> QED
    BY <1>1, <1>2, <1>3, <1>4, <2>1, <2>2 DEF Inserting
<1>7. OrderedFor(st, st.root, key, K)
  <2>1. key \in Int
    BY KeysAreInts
  <2> QED
    BY <2>1 DEF Ordered, IsOrdered, OrderedFor
<1>8. PICK at : at = InsertPath(st, key)
  OBVIOUS
<1>9. InsertingInOrder(at[n], top, n, deleted, key, K)
  <2>1. Len(st.pages) \in Nat
    BY <1>4
  <2>2. InsertingInOrder(at[Len(st.pages)], top, Len(st.pages), deleted, key, K)
    BY <1>4, <1>5, <1>6, <1>7, <1>8, <2>1, InsertPathOrder
  <2> QED
    BY <1>4, <2>2
<1>10. PICK last : last = at[n]
  OBVIOUS
<1>11. InsertAtRoot(st, key) = InsertAtLeaf(last, key)
  BY <1>4, <1>8, <1>10 DEF InsertAtRoot
<1>12. CASE deleted # NoPage /\ IsSpent(last.store)
  BY <1>3, <1>11, <1>12, SpentAtLeaf
<1>13. CASE Inserting(last, top, n, deleted) /\ OrderedFor(last.store, last.id, key, K)
  <2>1. n >= top
    BY <1>4
  <2>2. Ordered(InsertAtLeaf(last, key).store, K \cup {key})
    BY <1>4, <1>13, <2>1, InsertAtLeafOrder
  <2> QED
    BY <1>11, <2>2
<1> QED
  BY <1>9, <1>10, <1>12, <1>13 DEF InsertingInOrder

\* What is between two calls, with the keys, all of K, in order.
OrderedStore(st, K) == IsStore(st) /\ (st = EmptyStore \/ Ordered(st, K))

\* A file without pages is given an empty root, which is in order.
LEMMA WithRootOrder ==
    ASSUME NEW st, NEW K, OrderedStore(st, K)
    PROVE  Ordered(WithRoot(st), K)
<1>1. CASE IsTreeStore(st)
  <2>1. st.root # NoPage
    BY <1>1, TreeStoreIs
  <2>2. st # EmptyStore
    BY <2>1 DEF EmptyStore
  <2> QED
    BY <2>1, <2>2 DEF WithRoot, OrderedStore
<1>2. CASE st = EmptyStore
  <2>1. PICK w : w = WithRoot(st)
    OBVIOUS
  <2>2. w.root = 1 /\ w.pages = <<EmptyNode>>
    <3>1. st.root = NoPage /\ st.first_deleted_page = NoPage /\ st.pages = << >> 
      BY <1>2 DEF EmptyStore
    <3>2. PICK a : a = [st EXCEPT !.pages = Append(@, EmptyNode)]
      OBVIOUS
    <3>3. /\ a = [pages |-> <<EmptyNode>>, root |-> NoPage, first_deleted_page |-> NoPage]
          /\ Len(st.pages) + 1 = 1
      BY <1>2, <3>2 DEF EmptyStore
    <3>4. w = [a EXCEPT !.root = 1]
      BY <2>1, <3>1, <3>2, <3>3 DEF WithRoot, AllocateNewPage
    <3> QED
      BY <3>3, <3>4
  <2>3. PICK range : range = [x \in {1} |-> Int]
    OBVIOUS
  <2>4. w.pages[1] = EmptyNode
    BY <2>2
  <2>5. Holds(EmptyNode, Int, range, K)
    <3>1. EmptyNode.children = << >> /\ Len(EmptyNode.keys) = 0
      BY DEF EmptyNode
    <3>2. InOrder(EmptyNode.keys, Int, K)
      BY <3>1 DEF InOrder
    <3> QED
      BY <3>1, <3>2, LeafHolds
  <2>6. IsOrdered(w.pages, w.root, range, K)
    BY <2>2, <2>3, <2>4, <2>5 DEF IsOrdered
  <2> QED
    BY <2>1, <2>6 DEF Ordered
<1> QED
  BY <1>1, <1>2 DEF OrderedStore, IsStore

\* insert of a key that is not in the tree, up to the reuse of a deleted page.
LEMMA InsertKeyOrder ==
    ASSUME NEW st, NEW key \in AllKeys, NEW K, key \notin K, OrderedStore(st, K)
    PROVE  \/ st.first_deleted_page # NoPage /\ IsSpent(InsertKey(st, key).store)
           \/ Ordered(InsertKey(st, key).store, K \cup {key})
<1>1. PICK opened : opened = WithRoot(st)
  OBVIOUS
<1>2. /\ IsTreeStore(opened) /\ opened.first_deleted_page = st.first_deleted_page
      /\ Ordered(opened, K)
  BY <1>1, WithRootIs, WithRootOrder DEF OrderedStore
<1>3. CASE ~IsFull(opened.pages[opened.root])
  <2>1. HasRoom(opened)
    BY <1>2, <1>3 DEF IsTreeStore, HasRoom
  <2>2. InsertKey(st, key) = InsertAtRoot(opened, key)
    BY <1>1, <1>3 DEF InsertKey, Page
  <2> QED
    BY <1>2, <2>1, <2>2, InsertAtRootOrder
<1>4. CASE IsFull(opened.pages[opened.root])
  <2>1. PICK split : split = SplitRoot(opened)
    OBVIOUS
  <2>2. InsertKey(st, key) = InsertAtRoot(split, key)
    BY <1>1, <1>4, <2>1 DEF InsertKey, Page
  <2>3. PICK n, tree, height, above, place : Shape(opened, n, tree, height, above, place)
    BY <1>2 DEF IsTreeStore
  <2>4. CASE opened.first_deleted_page = NoPage
    <3>1. HasRoom(split) /\ split.first_deleted_page = NoPage
      BY <1>4, <2>1, <2>3, <2>4, SplitRootIs
    <3>2. Ordered(split, K)
      BY <1>2, <1>4, <2>1, <2>3, <2>4, SplitRootOrder
    <3> QED
      BY <1>2, <2>2, <2>4, <3>1, <3>2, InsertAtRootOrder
  <2>5. CASE opened.first_deleted_page # NoPage
    <3>1. n \in Nat /\ opened \in Stores(n)
      BY <2>3 DEF Shape
    <3>2. IsSpent(Split(opened, opened.root).store)
      BY <2>5, <3>1, ReuseSpends
    <3>3. IsSpent(split)
      BY <2>1, <3>2, SpentSplitRoot
    <3> QED
      BY <1>2, <2>2, <2>5, <3>3, SpentAtRoot
  <2> QED
    BY <2>4, <2>5
<1> QED
  BY <1>3, <1>4

\* No tree was filled with a key twice.
DistinctPreloads ==
    \A keys \in Preloads : \A i, j \in 1..Len(keys) : i # j => keys[i] # keys[j]

\* A tree filled with different keys is in order.
LEMMA FilledOrder ==
    ASSUME DistinctPreloads, NEW keys \in Preloads
    PROVE  OrderedStore(Filled(keys), ToSet(keys))
<1>1. PICK N \in Nat : N = Len(keys) /\ \A n \in 1..N : keys[n] \in AllKeys
  BY PreloadIs
<1>2. PICK after : /\ Filled(keys) = after[N]
                   /\ after[0] = EmptyStore
                   /\ \A n \in 1..N : after[n] = InsertKey(after[n - 1], keys[n]).store
  BY <1>1, FilledFrom
<1> DEFINE First(m) == {keys[i] : i \in 1..m}
           Good     == {m \in Nat : m <= N => /\ OrderedStore(after[m], First(m))
                                              /\ after[m].first_deleted_page = NoPage}
<1>3. 0 \in Good
  <2>1. EmptyStore.first_deleted_page = NoPage
    BY DEF EmptyStore
  <2> QED
    BY <1>2, <2>1 DEF OrderedStore, IsStore
<1>4. ASSUME NEW m \in Nat, m \in Good PROVE m + 1 \in Good
  <2>1. SUFFICES ASSUME m + 1 <= N
                 PROVE  /\ OrderedStore(after[m + 1], First(m + 1))
                        /\ after[m + 1].first_deleted_page = NoPage
    OBVIOUS
  <2>2. m <= N /\ m + 1 \in 1..N /\ (m + 1) - 1 = m
    BY <1>1, <2>1
  <2>3. PICK st : st = after[m]
    OBVIOUS
  <2>4. PICK key : key = keys[m + 1]
    OBVIOUS
  <2>5. PICK next : next = InsertKey(st, key).store
    OBVIOUS
  <2>6. OrderedStore(st, First(m)) /\ st.first_deleted_page = NoPage
    BY <1>4, <2>2, <2>3
  <2>7. after[m + 1] = next /\ key \in AllKeys
    BY <1>1, <1>2, <2>2, <2>3, <2>4, <2>5
  <2>8. key \notin First(m)
    <3>1. \A i \in 1..m : i \in 1..N /\ i # m + 1
      BY <1>1, <2>2
    <3>2. \A i \in 1..m : keys[i] # key
      BY <1>1, <2>2, <2>4, <3>1 DEF DistinctPreloads
    <3> QED
      BY <3>2
  <2>9. First(m) \cup {key} = First(m + 1)
    <3>1. 1..m + 1 = (1..m) \cup {m + 1}
      OBVIOUS
    <3> QED
      BY <2>4, <3>1
  <2>10. PICK K : K = First(m)
    OBVIOUS
  <2> HIDE DEF First
  <2>11. OrderedStore(st, K) /\ key \notin K
    BY <2>6, <2>8, <2>10
  <2>12. InsertDone(next, NoPage)
    BY <2>5, <2>6, <2>7, InsertKeyIs DEF OrderedStore
  <2>13. IsStore(next) /\ next.first_deleted_page = NoPage
    BY <2>12 DEF InsertDone, IsStore
  <2>14. Ordered(next, K \cup {key})
    BY <2>5, <2>6, <2>7, <2>11, InsertKeyOrder
  <2> QED
    BY <2>7, <2>9, <2>10, <2>13, <2>14 DEF OrderedStore
<1>5. N \in Good
  <2>1. Nat \subseteq Good
    <3> HIDE DEF Good
    <3> QED
      BY <1>3, <1>4, SetInduction
  <2> QED
    BY <1>1, <2>1
<1>6. First(N) = ToSet(keys)
  <2>1. DOMAIN keys = 1..N
    <3>1. keys \in Seq(Int)
      BY KeysAssumption
    <3> QED
      BY <1>1, <3>1, LenProperties
  <2> QED
    BY <2>1 DEF ToSet
<1>7. OrderedStore(after[N], First(N))
  BY <1>5
<1> HIDE DEF First
<1> QED
  BY <1>2, <1>6, <1>7

---------------------------------------------------------------------------
(* The order of the keys through a delete. *)

\* The child left of p, before t, which is at idx, has lent to it.
LoanFromLeft(loan, p, idx, left, t) ==
    /\ LentFromLeft(loan.left, loan.target, left, t, p.keys[idx - 1])
    /\ loan.parent.keys = [p.keys EXCEPT ![idx - 1] = Last(left.keys)]
    /\ loan.parent.children = p.children

\* LendFromLeft makes such a loan.
LEMMA LentFromLeftIs ==
    ASSUME NEW ids, NEW p \in Nodes(ids), NEW left \in Nodes(ids), NEW t \in Nodes(ids),
           IsLeaf(left) <=> IsLeaf(t), NEW idx
    PROVE  LoanFromLeft(LendFromLeft(p, idx, left, t), p, idx, left, t)
<1>0. PICK loan : loan = LendFromLeft(p, idx, left, t)
  OBVIOUS
<1>1. PICK m : m = Last(left.keys)
  OBVIOUS
<1>2. PICK s : s = p.keys[idx - 1]
  OBVIOUS
<1>3. PICK keys : keys = [p.keys EXCEPT ![idx - 1] = m]
  OBVIOUS
<1>4. PICK q : q = [p EXCEPT !.keys = keys]
  OBVIOUS
<1>5. q.keys = keys /\ q.children = p.children
  BY <1>4 DEF Nodes
<1>6. CASE IsLeaf(t)
  <2>1. PICK g : g = [left EXCEPT !.keys = Front(@), !.values = Front(@)]
    OBVIOUS
  <2>2. PICK u : u = [t EXCEPT !.keys = <<m>> \o @, !.values = <<Last(left.values)>> \o @]
    OBVIOUS
  <2>3. loan = [left |-> g, target |-> u, parent |-> q]
    BY <1>0, <1>1, <1>3, <1>4, <1>6, <2>1, <2>2 DEF LendFromLeft
  <2>4. /\ g.keys = Front(left.keys) /\ g.children = left.children
        /\ u.keys = <<m>> \o t.keys /\ u.children = t.children
    BY <2>1, <2>2 DEF Nodes
  <2>5. left.children = << >> /\ t.children = << >>
    BY <1>6 DEF IsLeaf
  <2>6. LentFromLeft(g, u, left, t, s)
    BY <1>1, <1>6, <2>4, <2>5 DEF LentFromLeft
  <2>7. loan.left = g /\ loan.target = u /\ loan.parent = q
    BY <2>3
  <2> QED
    BY <1>0, <1>1, <1>2, <1>3, <1>5, <2>6, <2>7 DEF LoanFromLeft
<1>7. CASE ~IsLeaf(t)
  <2>1. PICK g : g = [left EXCEPT !.keys = Front(@), !.children = Front(@)]
    OBVIOUS
  <2>2. PICK u : u = [t EXCEPT !.keys = <<s>> \o @, !.children = <<Last(left.children)>> \o @]
    OBVIOUS
  <2>3. loan = [left |-> g, target |-> u, parent |-> q]
    BY <1>0, <1>1, <1>2, <1>3, <1>4, <1>7, <2>1, <2>2 DEF LendFromLeft
  <2>4. /\ g.keys = Front(left.keys) /\ g.children = Front(left.children)
        /\ u.keys = <<s>> \o t.keys /\ u.children = <<Last(left.children)>> \o t.children
    BY <2>1, <2>2 DEF Nodes
  <2>5. LentFromLeft(g, u, left, t, s)
    BY <1>1, <1>7, <2>4 DEF LentFromLeft
  <2>6. loan.left = g /\ loan.target = u /\ loan.parent = q
    BY <2>3
  <2> QED
    BY <1>0, <1>1, <1>2, <1>3, <1>5, <2>5, <2>6 DEF LoanFromLeft
<1> QED
  BY <1>6, <1>7

\* The child right of p, after t, which is at idx, has lent to it.
LoanFromRight(loan, p, idx, right, t) ==
    /\ LentFromRight(loan.right, loan.target, right, t, p.keys[idx])
    /\ loan.parent.keys =
          [p.keys EXCEPT ![idx] = IF IsLeaf(t) THEN right.keys[2] ELSE Head(right.keys)]
    /\ loan.parent.children = p.children

\* LendFromRight makes such a loan.
LEMMA LentFromRightIs ==
    ASSUME NEW ids, NEW p \in Nodes(ids), NEW right \in Nodes(ids), NEW t \in Nodes(ids),
           IsLeaf(right) <=> IsLeaf(t), NEW idx
    PROVE  LoanFromRight(LendFromRight(p, idx, right, t), p, idx, right, t)
<1>0. PICK loan : loan = LendFromRight(p, idx, right, t)
  OBVIOUS
<1>1. PICK m : m = IF IsLeaf(t) THEN right.keys[2] ELSE Head(right.keys)
  OBVIOUS
<1>2. PICK s : s = p.keys[idx]
  OBVIOUS
<1>3. PICK keys : keys = [p.keys EXCEPT ![idx] = m]
  OBVIOUS
<1>4. PICK q : q = [p EXCEPT !.keys = keys]
  OBVIOUS
<1>5. q.keys = keys /\ q.children = p.children
  BY <1>4 DEF Nodes
<1>6. CASE IsLeaf(t)
  <2>1. PICK g : g = [right EXCEPT !.keys = Tail(@), !.values = Tail(@)]
    OBVIOUS
  <2>2. PICK u : u = [t EXCEPT !.keys = Append(@, Head(right.keys)),
                               !.values = Append(@, Head(right.values))]
    OBVIOUS
  <2>3. loan = [right |-> g, target |-> u, parent |-> q]
    BY <1>0, <1>1, <1>3, <1>4, <1>6, <2>1, <2>2 DEF LendFromRight
  <2>4. /\ g.keys = Tail(right.keys) /\ g.children = right.children
        /\ u.keys = Append(t.keys, Head(right.keys)) /\ u.children = t.children
    BY <2>1, <2>2 DEF Nodes
  <2>5. right.children = << >> /\ t.children = << >>
    BY <1>6 DEF IsLeaf
  <2>6. LentFromRight(g, u, right, t, s)
    BY <1>6, <2>4, <2>5 DEF LentFromRight
  <2>7. loan.right = g /\ loan.target = u /\ loan.parent = q
    BY <2>3
  <2> QED
    BY <1>0, <1>1, <1>2, <1>3, <1>5, <2>6, <2>7 DEF LoanFromRight
<1>7. CASE ~IsLeaf(t)
  <2>1. PICK g : g = [right EXCEPT !.keys = Tail(@), !.children = Tail(@)]
    OBVIOUS
  <2>2. PICK u : u = [t EXCEPT !.keys = Append(@, s), !.children = Append(@, Head(right.children))]
    OBVIOUS
  <2>3. loan = [right |-> g, target |-> u, parent |-> q]
    BY <1>0, <1>1, <1>2, <1>3, <1>4, <1>7, <2>1, <2>2 DEF LendFromRight
  <2>4. /\ g.keys = Tail(right.keys) /\ g.children = Tail(right.children)
        /\ u.keys = Append(t.keys, s) /\ u.children = Append(t.children, Head(right.children))
    BY <2>1, <2>2 DEF Nodes
  <2>5. LentFromRight(g, u, right, t, s)
    BY <1>7, <2>4 DEF LentFromRight
  <2>6. loan.right = g /\ loan.target = u /\ loan.parent = q
    BY <2>3
  <2> QED
    BY <1>0, <1>1, <1>2, <1>3, <1>5, <2>5, <2>6 DEF LoanFromRight
<1> QED
  BY <1>6, <1>7

\* Merged makes such a node, and ParentOfMerged its parent.
LEMMA MergesNodesIs ==
    ASSUME NEW ids, NEW p \in Nodes(ids), NEW l \in Nodes(ids), NEW r \in Nodes(ids), NEW idx
    PROVE  /\ MergesNodes(Merged(p, idx, l, r), l, r, p.keys[idx])
           /\ ParentOfMerged(p, idx).keys = RemoveAt(p.keys, idx)
           /\ ParentOfMerged(p, idx).children = RemoveAt(p.children, idx + 1)
<1>1. PICK m : m = Merged(p, idx, l, r)
  OBVIOUS
<1>2. CASE IsLeaf(l)
  <2>1. m = [l EXCEPT !.keys = @ \o r.keys, !.values = @ \o r.values, !.next_leaf = r.next_leaf]
    BY <1>1, <1>2 DEF Merged
  <2>2. m.keys = l.keys \o r.keys /\ m.children = l.children
    BY <2>1 DEF Nodes
  <2> QED
    BY <1>1, <1>2, <2>2 DEF MergesNodes, ParentOfMerged, Nodes, IsLeaf
<1>3. CASE ~IsLeaf(l)
  <2>1. m = [l EXCEPT !.keys = Append(@, p.keys[idx]) \o r.keys, !.children = @ \o r.children]
    BY <1>1, <1>3 DEF Merged
  <2>2. m.keys = Append(l.keys, p.keys[idx]) \o r.keys /\ m.children = l.children \o r.children
    BY <2>1 DEF Nodes
  <2>3. MergesNodes(m, l, r, p.keys[idx])
    BY <1>3, <2>2 DEF MergesNodes
  <2> QED
    BY <1>1, <2>3 DEF ParentOfMerged, Nodes
<1> QED
  BY <1>2, <1>3

\* What is in a file after two writes, and after three.
LEMMA WrittenTwice ==
    ASSUME NEW n, NEW st \in Stores(n), NEW l \in 1..n, NEW p \in 1..n, l # p, NEW m, NEW q,
           NEW w, w = WritePage(WritePage(st, l, m), p, q)
    PROVE  /\ w.root = st.root /\ w.pages[l] = m /\ w.pages[p] = q
           /\ \A x \in 1..n \ {p, l} : w.pages[x] = st.pages[x]
<1>1. st.pages \in [1..n -> Nodes(1..n)]
  BY DEF Stores
<1>2. PICK P : P = [st.pages EXCEPT ![l] = m]
  OBVIOUS
<1>3. PICK Q : Q = [P EXCEPT ![p] = q]
  OBVIOUS
<1>4. /\ Q[l] = m /\ Q[p] = q
      /\ \A x \in 1..n \ {p, l} : Q[x] = st.pages[x]
  BY <1>1, <1>2, <1>3
<1>5. PICK x : x = WritePage(st, l, m)
  OBVIOUS
<1>6. x = [st EXCEPT !.pages = P]
  BY <1>2, <1>5 DEF WritePage
<1>7. x.pages = P /\ x.root = st.root /\ w = [x EXCEPT !.pages = Q]
  BY <1>3, <1>5, <1>6 DEF Stores, WritePage
<1>8. w = [st EXCEPT !.pages = Q]
  BY <1>6, <1>7 DEF Stores
<1>9. w.pages = Q /\ w.root = st.root
  BY <1>8 DEF Stores
<1> QED
  BY <1>4, <1>9

LEMMA WrittenThrice ==
    ASSUME NEW n, NEW st \in Stores(n), NEW t \in 1..n, NEW g \in 1..n, NEW p \in 1..n,
           t # g, t # p, g # p, NEW u, NEW l, NEW q,
           NEW w, w = WritePage(WritePage(WritePage(st, t, u), g, l), p, q)
    PROVE  /\ w.root = st.root
           /\ w.pages[t] = u /\ w.pages[g] = l /\ w.pages[p] = q
           /\ \A x \in 1..n \ {p, g, t} : w.pages[x] = st.pages[x]
<1>1. st.pages \in [1..n -> Nodes(1..n)]
  BY DEF Stores
<1>2. PICK P : P = [[st.pages EXCEPT ![t] = u] EXCEPT ![g] = l]
  OBVIOUS
<1>3. PICK Q : Q = [P EXCEPT ![p] = q]
  OBVIOUS
<1>4. /\ Q[t] = u /\ Q[g] = l /\ Q[p] = q
      /\ \A x \in 1..n \ {p, g, t} : Q[x] = st.pages[x]
  <2>1. /\ DOMAIN P = 1..n /\ P[t] = u /\ P[g] = l
        /\ \A x \in 1..n \ {g, t} : P[x] = st.pages[x]
    BY <1>1, <1>2
  <2> QED
    BY <1>3, <2>1
<1>5. w.pages = Q /\ w.root = st.root
  BY <1>2, <1>3 DEF WritePage, Stores
<1> QED
  BY <1>4, <1>5

\* The keys, all of K, are in order, and id is a page of the tree.
OrderedAt(st, id, K) ==
    \E range : IsOrdered(st.pages, st.root, range, K) /\ id \in DOMAIN range

\* l and r are neighbours below p, and w is the file after one lent to the other.
LoanIn(w, st, n, p, idx, l, r, m) ==
    /\ w.root = st.root /\ Neighbours(l, r, st.pages, p, idx)
    /\ LoanAt(w.pages, st.pages, 1..n, p, idx, l, r, m)

\* A loan and a merge below a page the way of a delete is at.
LEMMA LoanKeepsOrder ==
    ASSUME NEW st, NEW n, NEW tree, NEW height, NEW above, NEW place,
           Shape(st, n, tree, height, above, place), NEW p \in tree,
           NEW K, OrderedAt(st, p, K), NEW w, NEW idx, NEW l, NEW r, NEW m,
           LoanIn(w, st, n, p, idx, l, r, m)
    PROVE  OrderedAt(w, l, K) /\ OrderedAt(w, r, K)
<1>1. PICK P : P = st.pages
  OBVIOUS
<1>2. PICK ids : ids = 1..n
  OBVIOUS
<1>3. PICK root : root = st.root
  OBVIOUS
<1>4. PICK range0 : IsOrdered(st.pages, st.root, range0, K) /\ p \in DOMAIN range0
  BY DEF OrderedAt
<1>5. PICK range : OrderedWith(st, tree, range, K) /\ SameInTree(range, range0, tree)
  BY <1>4, OrderedInTree
<1>6. /\ p \in DOMAIN range /\ DOMAIN range \subseteq tree
      /\ IsOrdered(P, root, range, K)
  BY <1>1, <1>3, <1>4, <1>5 DEF SameInTree, OrderedWith
<1>7. /\ IsTree(P, ids, root, tree, height, above, place)
      /\ Neighbours(l, r, P, p, idx)
  BY <1>1, <1>2, <1>3 DEF Shape, LoanIn
<1>8. PICK Q : Q = w.pages
  OBVIOUS
<1>9. LoanAt(Q, P, ids, p, idx, l, r, m)
  BY <1>1, <1>2, <1>8 DEF LoanIn
<1>10. NeighboursOnlyThere(l, r, P, ids, root, tree, height, p, idx)
  BY <1>7, NeighboursAre
<1>11. l # r /\ l \in DOMAIN range /\ r \in DOMAIN range
  <2>1. /\ l # r /\ IsOnlyAt(l, P[p], idx) /\ IsOnlyAt(r, P[p], idx + 1)
    BY <1>10 DEF NeighboursOnlyThere
  <2>2. \A i \in 1..Len(P[p].children) : P[p].children[i] \in DOMAIN range
    BY <1>6 DEF IsOrdered, Holds
  <2> QED
    BY <2>1, <2>2 DEF IsOnlyAt
<1>12. PICK both : both = range[l] \cup range[r]
  OBVIOUS
<1>13. PICK range2 : range2 = [x \in DOMAIN range |->
                                 IF x = l THEN {k \in both : k < m}
                                 ELSE IF x = r THEN {k \in both : m <= k} ELSE range[x]]
  OBVIOUS
<1>14. BordersMoved(range2, range, l, r, m)
  BY <1>11, <1>12, <1>13 DEF BordersMoved
<1>15. IsOrdered(Q, root, range2, K)
  BY ONLY <1>6, <1>7, <1>9, <1>14, LendKeepsOrder
<1>16. l \in DOMAIN range2 /\ r \in DOMAIN range2
  BY <1>11, <1>13
<1>17. w.root = root
  BY <1>3 DEF LoanIn
<1> QED
  BY <1>8, <1>15, <1>16, <1>17 DEF OrderedAt

\* l and r are neighbours below p, and w is the file after r was emptied into l.
MergeIn(w, st, n, p, idx, l, r) ==
    /\ w.root = st.root /\ Neighbours(l, r, st.pages, p, idx)
    /\ MergeAt(w.pages, st.pages, 1..n, p, idx, l, r)

LEMMA MergerKeepsOrder ==
    ASSUME NEW st, NEW n, NEW tree, NEW height, NEW above, NEW place,
           Shape(st, n, tree, height, above, place), NEW p \in tree,
           NEW K, OrderedAt(st, p, K), NEW w, NEW idx, NEW l, NEW r,
           MergeIn(w, st, n, p, idx, l, r)
    PROVE  OrderedAt(w, l, K)
<1>1. PICK P : P = st.pages
  OBVIOUS
<1>2. PICK ids : ids = 1..n
  OBVIOUS
<1>3. PICK root : root = st.root
  OBVIOUS
<1>4. PICK range0 : IsOrdered(st.pages, st.root, range0, K) /\ p \in DOMAIN range0
  BY DEF OrderedAt
<1>5. PICK range : OrderedWith(st, tree, range, K) /\ SameInTree(range, range0, tree)
  BY <1>4, OrderedInTree
<1>6. /\ p \in DOMAIN range /\ DOMAIN range \subseteq tree
      /\ IsOrdered(P, root, range, K)
  BY <1>1, <1>3, <1>4, <1>5 DEF SameInTree, OrderedWith
<1>7. /\ IsTree(P, ids, root, tree, height, above, place)
      /\ Neighbours(l, r, P, p, idx)
  BY <1>1, <1>2, <1>3 DEF Shape, MergeIn
<1>8. PICK Q : Q = w.pages
  OBVIOUS
<1>9. MergeAt(Q, P, ids, p, idx, l, r)
  BY <1>1, <1>2, <1>8 DEF MergeIn
<1>10. NeighboursOnlyThere(l, r, P, ids, root, tree, height, p, idx)
  BY <1>7, NeighboursAre
<1>11. l # r /\ l \in DOMAIN range /\ r \in DOMAIN range
  <2>1. /\ l # r /\ IsOnlyAt(l, P[p], idx) /\ IsOnlyAt(r, P[p], idx + 1)
    BY <1>10 DEF NeighboursOnlyThere
  <2>2. \A i \in 1..Len(P[p].children) : P[p].children[i] \in DOMAIN range
    BY <1>6 DEF IsOrdered, Holds
  <2> QED
    BY <2>1, <2>2 DEF IsOnlyAt
<1>12. PICK range2 : range2 = [x \in DOMAIN range \ {r} |->
                                 IF x = l THEN range[l] \cup range[r] ELSE range[x]]
  OBVIOUS
<1>13. RangesJoined(range2, range, l, r)
  BY <1>11, <1>12 DEF RangesJoined
<1>14. IsOrdered(Q, root, range2, K)
  BY ONLY <1>6, <1>7, <1>9, <1>13, MergeKeepsOrder
<1>15. l \in DOMAIN range2
  BY <1>11, <1>12
<1>16. w.root = root
  BY <1>3 DEF MergeIn
<1> QED
  BY <1>8, <1>14, <1>15, <1>16 DEF OrderedAt

\* A child that is short of keys is refilled or merged, whichever neighbour it takes.
LEMMA RefillOrder ==
    ASSUME NEW st, NEW n, NEW tree, NEW height, NEW above, NEW place,
           Shape(st, n, tree, height, above, place), NEW p \in tree,
           NEW idx, NEW c, IsChildAt(c, st, p, idx), NEW K, OrderedAt(st, p, K)
    PROVE  OrderedAt(Refill(st, p, idx).store, Refill(st, p, idx).id, K)
<1>1. PICK node : node = st.pages[p]
  OBVIOUS
<1>2. PICK next : next = Refill(st, p, idx)
  OBVIOUS
<1> SUFFICES OrderedAt(next.store, next.id, K)
  BY <1>2
<1>3. n \in Nat /\ st \in Stores(n)
  BY DEF Shape
<1>4. /\ c \in 1..n /\ p \in 1..n /\ c # p /\ height[p] = height[c] + 1 /\ height[c] \in Nat
      /\ st.pages[c] \in Nodes(1..n) /\ Fits(st.pages[c], height[c])
  BY ChildIs
<1>5. node \in Nodes(1..n) /\ Len(node.children) \in Nat
  <2>1. node \in Nodes(1..n)
    BY <1>1, <1>3, <1>4 DEF Stores
  <2> QED
    BY <2>1, NodeIs
<1>6. idx \in 1..Len(node.children) /\ c = node.children[idx]
  BY <1>1 DEF IsChildAt
<1>7. PICK left : left = node.children[idx - 1]
  OBVIOUS
<1>8. PICK right : right = node.children[idx + 1]
  OBVIOUS
<1>9. ASSUME idx > 1
      PROVE  /\ left \in 1..n /\ left # p /\ left # c /\ st.pages[left] \in Nodes(1..n)
             /\ IsLeaf(st.pages[left]) <=> IsLeaf(st.pages[c])
             /\ Neighbours(left, c, st.pages, p, idx - 1)
  <2>1. IsChildAt(left, st, p, idx - 1)
    BY <1>1, <1>5, <1>6, <1>7, <1>9 DEF IsChildAt
  <2>2. /\ left \in 1..n /\ left # p /\ height[p] = height[left] + 1 /\ height[left] \in Nat
        /\ st.pages[left] \in Nodes(1..n) /\ Fits(st.pages[left], height[left])
        /\ place[left] = idx - 1
    BY <2>1, ChildIs
  <2>3. place[c] = idx
    BY ChildIs
  <2>4. left # c
    BY <1>6, <2>2, <2>3
  <2>5. height[left] = height[c]
    BY <1>4, <2>2
  <2>6. IsLeaf(st.pages[left]) <=> IsLeaf(st.pages[c])
    BY <1>4, <2>2, <2>5, LeafIs
  <2>7. PICK i : i = idx - 1
    OBVIOUS
  <2>8. i \in Nat /\ i >= 1 /\ i < Len(node.children) /\ i + 1 = idx
    BY <1>5, <1>6, <1>9, <2>7
  <2>9. Neighbours(left, c, st.pages, p, i)
    BY <1>1, <1>6, <1>7, <2>7, <2>8 DEF Neighbours
  <2> QED
    BY <2>2, <2>4, <2>6, <2>7, <2>9
<1>10. ASSUME idx < Len(node.children)
       PROVE  /\ right \in 1..n /\ right # p /\ right # c /\ st.pages[right] \in Nodes(1..n)
              /\ IsLeaf(st.pages[right]) <=> IsLeaf(st.pages[c])
              /\ Neighbours(c, right, st.pages, p, idx)
  <2>1. IsChildAt(right, st, p, idx + 1)
    BY <1>1, <1>5, <1>6, <1>8, <1>10 DEF IsChildAt
  <2>2. /\ right \in 1..n /\ right # p /\ height[p] = height[right] + 1 /\ height[right] \in Nat
        /\ st.pages[right] \in Nodes(1..n) /\ Fits(st.pages[right], height[right])
        /\ place[right] = idx + 1
    BY <2>1, ChildIs
  <2>3. place[c] = idx
    BY ChildIs
  <2>4. right # c
    BY <1>6, <2>2, <2>3
  <2>5. height[right] = height[c]
    BY <1>4, <2>2
  <2>6. IsLeaf(st.pages[right]) <=> IsLeaf(st.pages[c])
    BY <1>4, <2>2, <2>5, LeafIs
  <2>7. Neighbours(c, right, st.pages, p, idx)
    BY <1>1, <1>6, <1>8, <1>10 DEF Neighbours
  <2> QED
    BY <2>2, <2>4, <2>6, <2>7
<1>11. CASE idx > 1 /\ CanLendKeys(st.pages[left])
  <2>1. PICK loan : loan = LendFromLeft(node, idx, st.pages[left], st.pages[c])
    OBVIOUS
  <2>2. PICK w : w = WritePage(WritePage(WritePage(st, c, loan.target), left, loan.left),
                               p, loan.parent)
    OBVIOUS
  <2>3. next = [id |-> c, store |-> w]
    BY <1>1, <1>2, <1>6, <1>7, <1>11, <2>1, <2>2 DEF Refill, Page
  <2>4. /\ left \in 1..n /\ left # p /\ left # c /\ st.pages[left] \in Nodes(1..n)
        /\ IsLeaf(st.pages[left]) <=> IsLeaf(st.pages[c])
        /\ Neighbours(left, c, st.pages, p, idx - 1)
    BY <1>9, <1>11
  <2>5. /\ LentFromLeft(loan.left, loan.target, st.pages[left], st.pages[c], node.keys[idx - 1])
        /\ loan.parent.keys = [node.keys EXCEPT ![idx - 1] = Last(st.pages[left].keys)]
        /\ loan.parent.children = node.children
    <3>1. LoanFromLeft(loan, node, idx, st.pages[left], st.pages[c])
      BY <1>4, <1>5, <2>1, <2>4, LentFromLeftIs
    <3> QED
      BY <3>1 DEF LoanFromLeft
  <2>6. /\ w.root = st.root
        /\ w.pages[c] = loan.target /\ w.pages[left] = loan.left /\ w.pages[p] = loan.parent
        /\ \A x \in 1..n \ {p, left, c} : w.pages[x] = st.pages[x]
    BY <1>3, <1>4, <2>2, <2>4, WrittenThrice
  <2>7. LoanAt(w.pages, st.pages, 1..n, p, idx - 1, left, c, Last(st.pages[left].keys))
    BY <1>1, <1>11, <2>5, <2>6 DEF LoanAt
  <2>8. LoanIn(w, st, n, p, idx - 1, left, c, Last(st.pages[left].keys))
    BY <2>4, <2>6, <2>7 DEF LoanIn
  <2>9. OrderedAt(w, c, K)
    BY <2>8, LoanKeepsOrder
  <2> QED
    BY <2>3, <2>9
<1>12. CASE ~(idx > 1 /\ CanLendKeys(st.pages[left])) /\
            (idx < Len(node.children) /\ CanLendKeys(st.pages[right]))
  <2>1. PICK loan : loan = LendFromRight(node, idx, st.pages[right], st.pages[c])
    OBVIOUS
  <2>2. PICK w : w = WritePage(WritePage(WritePage(st, c, loan.target), right, loan.right),
                               p, loan.parent)
    OBVIOUS
  <2>3. next = [id |-> c, store |-> w]
    BY <1>1, <1>2, <1>6, <1>7, <1>8, <1>12, <2>1, <2>2 DEF Refill, Page
  <2>4. /\ right \in 1..n /\ right # p /\ right # c /\ st.pages[right] \in Nodes(1..n)
        /\ IsLeaf(st.pages[right]) <=> IsLeaf(st.pages[c])
        /\ Neighbours(c, right, st.pages, p, idx)
    BY <1>10, <1>12
  <2>5. PICK m : m = IF IsLeaf(st.pages[c]) THEN st.pages[right].keys[2]
                     ELSE Head(st.pages[right].keys)
    OBVIOUS
  <2>6. /\ LentFromRight(loan.right, loan.target, st.pages[right], st.pages[c], node.keys[idx])
        /\ loan.parent.keys = [node.keys EXCEPT ![idx] = m]
        /\ loan.parent.children = node.children
    <3>1. LoanFromRight(loan, node, idx, st.pages[right], st.pages[c])
      BY <1>4, <1>5, <2>1, <2>4, LentFromRightIs
    <3> QED
      BY <2>5, <3>1 DEF LoanFromRight
  <2>7. /\ w.root = st.root
        /\ w.pages[c] = loan.target /\ w.pages[right] = loan.right /\ w.pages[p] = loan.parent
        /\ \A x \in 1..n \ {p, right, c} : w.pages[x] = st.pages[x]
    BY <1>3, <1>4, <2>2, <2>4, WrittenThrice
  <2>8. LoanAt(w.pages, st.pages, 1..n, p, idx, c, right, m)
    BY <1>1, <1>12, <2>5, <2>6, <2>7 DEF LoanAt
  <2>9. LoanIn(w, st, n, p, idx, c, right, m)
    BY <2>4, <2>7, <2>8 DEF LoanIn
  <2>10. OrderedAt(w, c, K)
    BY <2>9, LoanKeepsOrder
  <2> QED
    BY <2>3, <2>10
<1>13. CASE idx > 1 /\ ~CanLendKeys(st.pages[left]) /\
            ~(idx < Len(node.children) /\ CanLendKeys(st.pages[right]))
  <2>1. PICK i : i = idx - 1
    OBVIOUS
  <2>2. PICK m : m = Merged(node, i, st.pages[left], st.pages[c])
    OBVIOUS
  <2>3. PICK q : q = ParentOfMerged(node, i)
    OBVIOUS
  <2>4. PICK y : y = WritePage(WritePage(st, left, m), p, q)
    OBVIOUS
  <2>5. PICK w : w = DeletePage(y, c)
    OBVIOUS
  <2>6. idx \in Nat /\ (idx - 1) + 1 = idx
    BY <1>6
  <2>7. next = [id |-> left, store |-> w]
    BY <1>1, <1>2, <1>6, <1>7, <1>8, <1>13, <2>1, <2>2, <2>3, <2>4, <2>5, <2>6 DEF Refill, Page
  <2>8. /\ left \in 1..n /\ left # p /\ left # c /\ st.pages[left] \in Nodes(1..n)
        /\ Neighbours(left, c, st.pages, p, i)
    BY <1>9, <1>13, <2>1
  <2>9. /\ MergesNodes(m, st.pages[left], st.pages[c], node.keys[i])
        /\ q.keys = RemoveAt(node.keys, i) /\ q.children = RemoveAt(node.children, i + 1)
    BY <1>4, <1>5, <2>2, <2>3, <2>8, MergesNodesIs
  <2>10. /\ y.root = st.root /\ y.pages[left] = m /\ y.pages[p] = q
         /\ \A x \in 1..n \ {p, left} : y.pages[x] = st.pages[x]
    BY <1>3, <1>4, <2>4, <2>8, WrittenTwice
  <2>11. w.root = y.root /\ w.pages = y.pages
    BY <2>4, <2>5 DEF DeletePage, WritePage
  <2>12. MergeAt(w.pages, st.pages, 1..n, p, i, left, c)
    BY <1>1, <2>9, <2>10, <2>11 DEF MergeAt
  <2>13. MergeIn(w, st, n, p, i, left, c)
    BY <2>8, <2>10, <2>11, <2>12 DEF MergeIn
  <2>14. OrderedAt(w, left, K)
    BY <2>13, MergerKeepsOrder
  <2> QED
    BY <2>7, <2>14
<1>14. CASE ~(idx > 1) /\ idx < Len(node.children) /\ ~CanLendKeys(st.pages[right])
  <2>2. PICK m : m = Merged(node, idx, st.pages[c], st.pages[right])
    OBVIOUS
  <2>3. PICK q : q = ParentOfMerged(node, idx)
    OBVIOUS
  <2>4. PICK y : y = WritePage(WritePage(st, c, m), p, q)
    OBVIOUS
  <2>5. PICK w : w = DeletePage(y, right)
    OBVIOUS
  <2>7. next = [id |-> c, store |-> w]
    BY <1>1, <1>2, <1>6, <1>7, <1>8, <1>14, <2>2, <2>3, <2>4, <2>5 DEF Refill, Page
  <2>8. /\ right \in 1..n /\ right # p /\ right # c /\ st.pages[right] \in Nodes(1..n)
        /\ Neighbours(c, right, st.pages, p, idx)
    BY <1>10, <1>14
  <2>9. /\ MergesNodes(m, st.pages[c], st.pages[right], node.keys[idx])
        /\ q.keys = RemoveAt(node.keys, idx) /\ q.children = RemoveAt(node.children, idx + 1)
    BY <1>4, <1>5, <2>2, <2>3, <2>8, MergesNodesIs
  <2>10. /\ y.root = st.root /\ y.pages[c] = m /\ y.pages[p] = q
         /\ \A x \in 1..n \ {p, c} : y.pages[x] = st.pages[x]
    BY <1>3, <1>4, <2>4, WrittenTwice
  <2>11. w.root = y.root /\ w.pages = y.pages
    BY <2>4, <2>5 DEF DeletePage, WritePage
  <2>12. MergeAt(w.pages, st.pages, 1..n, p, idx, c, right)
    BY <1>1, <2>9, <2>10, <2>11 DEF MergeAt
  <2>13. MergeIn(w, st, n, p, idx, c, right)
    BY <2>8, <2>10, <2>11, <2>12 DEF MergeIn
  <2>14. OrderedAt(w, c, K)
    BY <2>13, MergerKeepsOrder
  <2> QED
    BY <2>7, <2>14
<1>15. CASE ~(idx > 1) /\ ~(idx < Len(node.children))
  <2>1. next = [id |-> c, store |-> st]
    BY <1>1, <1>2, <1>6, <1>7, <1>8, <1>15 DEF Refill, Page
  <2>2. PICK range : IsOrdered(st.pages, st.root, range, K) /\ p \in DOMAIN range
    BY DEF OrderedAt
  <2>3. c \in DOMAIN range
    BY <1>1, <1>6, <2>2 DEF IsOrdered, Holds
  <2> QED
    BY <2>1, <2>2, <2>3 DEF OrderedAt
<1> QED
  BY <1>11, <1>12, <1>13, <1>14, <1>15

\* One step of the way of a delete.
LEMMA DeleteStepOrder ==
    ASSUME NEW at, NEW top, NEW k, NEW key, Deleting(at, top, k),
           NEW K, OrderedAt(at.store, at.id, K)
    PROVE  OrderedAt(DeleteStep(at, key).store, DeleteStep(at, key).id, K)
<1>1. PICK st : st = at.store
  OBVIOUS
<1>2. PICK p : p = at.id
  OBVIOUS
<1>3. PICK n, tree, height, above, place :
        Shape(st, n, tree, height, above, place) /\ p \in tree
  BY <1>1, <1>2 DEF Deleting
<1>4. /\ IsTree(st.pages, 1..n, st.root, tree, height, above, place) /\ p \in 1..n
      /\ OrderedAt(st, p, K)
  BY <1>1, <1>2, <1>3 DEF Shape, IsTree
<1>5. st.pages[p] \in Nodes(1..n) /\ height[p] \in Nat /\ Fits(st.pages[p], height[p])
  BY <1>4, TreeNodeIs
<1>6. PICK next : next = DeleteStep(at, key)
  OBVIOUS
<1>7. CASE IsLeaf(st.pages[p])
  <2>1. next = at
    BY <1>1, <1>2, <1>6, <1>7 DEF DeleteStep, Page
  <2> QED
    BY <1>6, <2>1
<1>8. CASE ~IsLeaf(st.pages[p])
  <2>1. height[p] # 0
    BY <1>5, <1>8, LeafIs
  <2>2. PICK idx : idx = ChildIndex(st.pages[p], key)
    OBVIOUS
  <2>3. PICK c : c = st.pages[p].children[idx]
    OBVIOUS
  <2>4. IsChildAt(c, st, p, idx)
    <3>1. idx \in 1..Len(st.pages[p].children)
      BY <1>5, <2>1, <2>2, ChildIndexIs
    <3> QED
      BY <2>3, <3>1 DEF IsChildAt
  <2>5. CASE IsLessThanMinimal(st.pages[c])
    <3>1. next = Refill(st, p, idx)
      BY <1>1, <1>2, <1>6, <1>8, <2>2, <2>3, <2>5 DEF DeleteStep, Page
    <3> QED
      BY <1>3, <1>4, <1>6, <2>4, <3>1, RefillOrder
  <2>6. CASE ~IsLessThanMinimal(st.pages[c])
    <3>1. next = [store |-> st, id |-> c]
      BY <1>1, <1>2, <1>6, <1>8, <2>2, <2>3, <2>6 DEF DeleteStep, Page
    <3>2. PICK range : IsOrdered(st.pages, st.root, range, K) /\ p \in DOMAIN range
      BY <1>4 DEF OrderedAt
    <3>3. c \in DOMAIN range
      BY <2>4, <3>2 DEF IsOrdered, Holds, IsChildAt
    <3> QED
      BY <1>6, <3>1, <3>2, <3>3 DEF OrderedAt
  <2> QED
    BY <2>5, <2>6
<1> QED
  BY <1>7, <1>8

\* Where a delete is after k steps.
DeletingInOrder(at, top, k, K) == Deleting(at, top, k) /\ OrderedAt(at.store, at.id, K)

\* The way of a delete to its leaf.
LEMMA DeletePathOrder ==
    ASSUME NEW st, NEW key, NEW top \in Nat, Len(st.pages) \in Nat, NEW at,
           DeletePath(st, key) = at, NEW K,
           DeletingInOrder([store |-> st, id |-> st.root], top, 0, K)
    PROVE  DeletingInOrder(at[Len(st.pages)], top, Len(st.pages), K)
<1> DEFINE T == {k \in Nat : k <= Len(st.pages) => DeletingInOrder(at[k], top, k, K)}
<1>1. /\ at[0] = [store |-> st, id |-> st.root]
      /\ \A n \in 1..Len(st.pages) : at[n] = DeleteStep(at[n - 1], key)
  BY DeletePathIs
<1>2. 0 \in T
  BY <1>1
<1>3. ASSUME NEW k \in Nat, k \in T PROVE k + 1 \in T
  <2>1. SUFFICES ASSUME k + 1 <= Len(st.pages) PROVE DeletingInOrder(at[k + 1], top, k + 1, K)
    OBVIOUS
  <2>2. k <= Len(st.pages) /\ k + 1 \in 1..Len(st.pages) /\ (k + 1) - 1 = k
    BY <2>1
  <2>3. PICK here : here = at[k]
    OBVIOUS
  <2>4. PICK next : next = DeleteStep(here, key)
    OBVIOUS
  <2>5. Deleting(here, top, k) /\ OrderedAt(here.store, here.id, K)
    BY <1>3, <2>2, <2>3 DEF DeletingInOrder
  <2>6. at[k + 1] = next
    BY <1>1, <2>2, <2>3, <2>4
  <2>7. Deleting(next, top, k + 1)
    BY <2>4, <2>5, DeleteStepIs
  <2>8. OrderedAt(next.store, next.id, K)
    BY <2>4, <2>5, DeleteStepOrder
  <2> QED
    BY <2>6, <2>7, <2>8 DEF DeletingInOrder
<1>4. Nat \subseteq T
  <2> HIDE DEF T
  <2> QED
    BY <1>2, <1>3, SetInduction
<1> QED
  BY <1>4

\* The delete from the leaf; the key may stay as a separator.
LEMMA DeleteAtLeafOrder ==
    ASSUME NEW at, NEW top \in Nat, NEW k \in Nat, k >= top, NEW key, NEW K,
           DeletingInOrder(at, top, k, K)
    PROVE  Ordered(DeleteAtLeaf(at, key).store, K)
<1>1. PICK n, tree, height, above, place :
        /\ Shape(at.store, n, tree, height, above, place)
        /\ at.id \in tree /\ height[at.id] = IF k < top THEN top - k ELSE 0
  BY DEF DeletingInOrder, Deleting
<1>2. PICK st : st = at.store
  OBVIOUS
<1>3. PICK p : p = at.id
  OBVIOUS
<1>4. /\ n \in Nat /\ st \in Stores(n) /\ p \in tree /\ height[p] = 0
      /\ IsTree(st.pages, 1..n, st.root, tree, height, above, place)
  BY <1>1, <1>2, <1>3 DEF Shape
<1>5. p \in 1..n /\ tree \subseteq 1..n
  BY <1>4 DEF IsTree
<1>6. PICK node : node = st.pages[p]
  OBVIOUS
<1>7. node \in Nodes(1..n) /\ Fits(node, 0)
  BY <1>4, <1>5, <1>6, TreeNodeIs
<1>8. PICK range : OrderedWith(st, tree, range, K) /\ p \in DOMAIN range
  <2>1. PICK range0 : IsOrdered(st.pages, st.root, range0, K) /\ p \in DOMAIN range0
    BY <1>2, <1>3 DEF DeletingInOrder, OrderedAt
  <2>2. Shape(st, n, tree, height, above, place)
    BY <1>1, <1>2
  <2>3. PICK range : OrderedWith(st, tree, range, K) /\ SameInTree(range, range0, tree)
    BY <2>1, <2>2, OrderedInTree
  <2> QED
    BY <1>4, <2>1, <2>3 DEF SameInTree
<1>9. PICK R : R = range[p]
  OBVIOUS
<1>10. InOrder(node.keys, R, K)
  BY <1>6, <1>8, <1>9 DEF OrderedWith, IsOrdered, Holds
<1>11. IsOrdered(st.pages, st.root, range, K) /\ DOMAIN range \subseteq 1..n
  BY <1>5, <1>8 DEF OrderedWith
<1>12. CASE key \notin KeySet(st.pages[p])
  <2>1. DeleteAtLeaf(at, key).store = st
    BY <1>2, <1>3, <1>12 DEF DeleteAtLeaf, Page
  <2> QED
    BY <1>8, <2>1 DEF Ordered, OrderedWith
<1>13. CASE key \in KeySet(st.pages[p])
  <2>1. PICK leaf : leaf = WithoutKey(node, key)
    OBVIOUS
  <2>2. PICK w : w = WritePage(st, p, leaf)
    OBVIOUS
  <2>3. DeleteAtLeaf(at, key).store = w
    BY <1>2, <1>3, <1>6, <1>13, <2>1, <2>2 DEF DeleteAtLeaf, Page
  <2>4. Holds(leaf, R, range, K)
    <3>1. PICK pos : pos = PositionOf(node, key)
      OBVIOUS
    <3>2. PICK len \in Nat : len = Len(node.keys)
      BY <1>7, NodeIs
    <3>3. node.keys \in Seq(AllKeys) /\ DOMAIN node.keys = 1..len
      BY <1>7, <3>2, NodeIs
    <3>4. \E i \in DOMAIN node.keys : node.keys[i] = key
      BY <1>6, <1>13 DEF KeySet, ToSet
    <3>5. pos \in 1..len
      BY <3>1, <3>3, <3>4 DEF PositionOf
    <3>6. PICK t : t = RemoveAt(node.keys, pos)
      OBVIOUS
    <3>7. Removed(t, node.keys, pos)
      BY <3>2, <3>3, <3>5, <3>6, RemovedIs
    <3>8. InOrder(t, R, K)
      BY <1>10, <3>2, <3>5, <3>7, RemovedInOrder
    <3>9. leaf.keys = t /\ leaf.children = node.children
      BY <1>7, <2>1, <3>1, <3>6 DEF WithoutKey, Nodes
    <3>10. node.children = << >>
      BY <1>7, LeafIs DEF IsLeaf
    <3> QED
      BY <3>8, <3>9, <3>10, LeafHolds
  <2>5. Ordered(w, K)
    BY <1>4, <1>8, <1>9, <1>11, <2>2, <2>4, LeafKeepsOrder
  <2> QED
    BY <2>3, <2>5
<1> QED
  BY <1>12, <1>13

\* A root without keys gives way to its only child, which is for all numbers, too.
LEMMA CollapseRootOrder ==
    ASSUME NEW st, HasShape(st), NEW K, Ordered(st, K)
    PROVE  Ordered(CollapseRoot(st), K)
<1>1. PICK n, tree, height, above, place : Shape(st, n, tree, height, above, place)
  BY DEF HasShape
<1>2. PICK root : root = st.root
  OBVIOUS
<1>3. /\ n \in Nat /\ st \in Stores(n) /\ root \in 1..n
      /\ IsTree(st.pages, 1..n, root, tree, height, above, place)
  BY <1>1, <1>2 DEF Shape, IsTree
<1>4. PICK node : node = st.pages[root]
  OBVIOUS
<1>5. node \in Nodes(1..n) /\ height[root] \in Nat /\ Fits(node, height[root])
  BY <1>3, <1>4, TreeNodeIs
<1>6. PICK range : IsOrdered(st.pages, root, range, K)
  BY <1>2 DEF Ordered
<1>7. CASE ~(node.keys = << >> /\ ~IsLeaf(node))
  <2>1. CollapseRoot(st) = st
    BY <1>2, <1>4, <1>7 DEF CollapseRoot, Page
  <2> QED
    BY <2>1
<1>8. CASE node.keys = << >> /\ ~IsLeaf(node)
  <2>1. PICK only : only = node.children[1]
    OBVIOUS
  <2>2. PICK w : w = [DeletePage(st, root) EXCEPT !.root = only]
    OBVIOUS
  <2>3. CollapseRoot(st) = w
    BY <1>2, <1>4, <1>8, <2>1, <2>2 DEF CollapseRoot, Page
  <2>4. w.root = only /\ w.pages = st.pages
    BY <1>3, <2>2 DEF Stores, DeletePage
  <2>5. PICK keys : keys = node.keys
    OBVIOUS
  <2>6. Len(keys) = 0
    BY <1>8, <2>5
  <2>7. PICK z \in Nat : z = 1
    OBVIOUS
  <2>8. z \in 1..Len(node.children)
    <3>1. height[root] # 0
      BY <1>5, <1>8, LeafIs
    <3>2. Len(node.children) = 1
      BY <1>5, <2>5, <2>6, <3>1 DEF Fits
    <3> QED
      BY <2>7, <3>2
  <2>9. Holds(node, Int, range, K) /\ root \in DOMAIN range
    BY <1>4, <1>6 DEF IsOrdered
  <2>10. only \in DOMAIN range /\ range[only] = Part(Int, keys, z)
    BY <2>1, <2>5, <2>7, <2>8, <2>9 DEF Holds
  <2>11. Part(Int, keys, z) = Int
    <3>1. ~(z > 1) /\ ~(z <= Len(keys))
      BY <2>6, <2>7
    <3> QED
      BY <3>1 DEF Part
  <2>12. IsOrdered(st.pages, only, range, K)
    BY <1>6, <2>10, <2>11 DEF IsOrdered
  <2> QED
    BY <2>3, <2>4, <2>12 DEF Ordered
<1> QED
  BY <1>7, <1>8

\* delete, of a key that is there or not.
LEMMA DeleteKeyOrder ==
    ASSUME NEW st, NEW K, OrderedStore(st, K), NEW key
    PROVE  Ordered(DeleteKey(st, key).store, K)
<1>1. PICK opened : opened = WithRoot(st)
  OBVIOUS
<1>2. IsTreeStore(opened) /\ Ordered(opened, K)
  BY <1>1, WithRootIs, WithRootOrder DEF OrderedStore
<1>3. PICK n, tree, height, above, place :
        /\ Shape(opened, n, tree, height, above, place)
        /\ CanSpare(opened.pages, opened.root, height, opened.root)
  BY <1>2 DEF IsTreeStore
<1>4. PICK top : top = height[opened.root]
  OBVIOUS
<1>5. /\ n \in Nat /\ opened \in Stores(n) /\ top \in Nat /\ top < n /\ opened.root \in tree
      /\ Len(opened.pages) = n
  BY <1>3, <1>4, ShapeIs
<1>6. PICK start : start = [store |-> opened, id |-> opened.root]
  OBVIOUS
<1>7. DeletingInOrder(start, top, 0, K)
  <2>1. start.store = opened /\ start.id = opened.root
    BY <1>6
  <2>2. height[opened.root] = IF 0 < top THEN top - 0 ELSE 0
    BY <1>4, <1>5
  <2>3. Deleting(start, top, 0)
    BY <1>3, <1>4, <1>5, <2>1, <2>2 DEF Deleting
  <2>4. OrderedAt(start.store, start.id, K)
    BY <1>2, <2>1 DEF Ordered, OrderedAt, IsOrdered
  <2> QED
    BY <2>3, <2>4 DEF DeletingInOrder
<1>8. PICK at : at = DeletePath(opened, key)
  OBVIOUS
<1>9. DeletingInOrder(at[n], top, n, K)
  <2>1. Len(opened.pages) \in Nat
    BY <1>5
  <2>2. DeletingInOrder(at[Len(opened.pages)], top, Len(opened.pages), K)
    BY <1>6, <1>5, <1>7, <1>8, <2>1, DeletePathOrder
  <2> QED
    BY <1>5, <2>2
<1>10. PICK done : done = DeleteAtLeaf(at[n], key)
  OBVIOUS
<1>11. DeleteKey(st, key) = [store |-> CollapseRoot(done.store), reply |-> done.reply]
  BY <1>1, <1>5, <1>8, <1>10 DEF DeleteKey
<1>12. HasShape(done.store) /\ Ordered(done.store, K)
  <2>1. n >= top
    BY <1>5
  <2>2. Deleting(at[n], top, n)
    BY <1>9 DEF DeletingInOrder
  <2>3. HasShape(done.store)
    BY <1>5, <1>10, <2>1, <2>2, DeleteAtLeafIs
  <2>4. Ordered(done.store, K)
    BY <1>5, <1>9, <1>10, <2>1, DeleteAtLeafOrder
  <2> QED
    BY <2>3, <2>4
<1> QED
  BY <1>11, <1>12, CollapseRootOrder

---------------------------------------------------------------------------
(* The order of the keys between two calls. *)

\* The pages under the root are closed under links.
LEMMA PagesAreClosed ==
    ASSUME NEW st, NEW n, NEW tree, NEW height, NEW above, NEW place,
           Shape(st, n, tree, height, above, place)
    PROVE  /\ st.root \in PagesUnder(st, st.root)
           /\ \A x \in PagesUnder(st, st.root) : Children(st, x) \subseteq PagesUnder(st, st.root)
<1>1. /\ n \in Nat /\ st \in Stores(n) /\ IsTree(st.pages, 1..n, st.root, tree, height, above, place)
      /\ tree \subseteq 1..n /\ st.root \in tree /\ height \in [1..n -> Nat]
      /\ st.pages \in [1..n -> Nodes(1..n)] /\ height[st.root] \in Nat /\ height[st.root] < n
  BY DEF Shape, IsTree
<1>2. Len(st.pages) = n
  BY <1>1, PagesAreSequence
<1>3. PICK level : /\ Levels(st, st.root) = level
                   /\ DOMAIN level = 0..n
                   /\ level[0] = {st.root}
                   /\ \A k \in 1..n : level[k] = UNION {Children(st, x) : x \in level[k - 1]}
  <2>1. Len(st.pages) \in Nat
    BY <1>1, <1>2
  <2> QED
    BY <1>2, <2>1, LevelsAre
<1>4. PICK T : T = PagesUnder(st, st.root)
  OBVIOUS
<1>5. T = UNION {level[k] : k \in 0..n}
  BY <1>3, <1>4 DEF PagesUnder
<1>6. st.root \in T
  <2>1. 0 \in 0..n
    BY <1>1
  <2> QED
    BY <1>3, <1>5, <2>1
<1>7. ASSUME NEW x \in T, NEW c \in Children(st, x) PROVE c \in T
  <2>1. PICK k \in 0..n : x \in level[k]
    BY <1>5, <1>7
  <2>2. x \in tree /\ height[x] + k = height[st.root]
    <3>1. \A m \in DOMAIN Levels(st, st.root) : \A id \in Levels(st, st.root)[m] :
             id \in tree /\ height[id] + m = height[st.root]
      BY LevelsAreEven
    <3> QED
      BY <1>3, <2>1, <3>1
  <2>3. k < n /\ k + 1 \in 1..n /\ (k + 1) - 1 = k /\ k + 1 \in 0..n
    <3>1. height[x] \in Nat
      BY <1>1, <2>2
    <3> QED
      BY <1>1, <2>2, <3>1
  <2>4. level[k + 1] = UNION {Children(st, y) : y \in level[k]}
    BY <1>3, <2>3
  <2>5. c \in level[k + 1]
    BY <1>7, <2>1, <2>4
  <2> QED
    BY <1>5, <2>3, <2>5
<1> QED
  BY <1>4, <1>6, <1>7

\* The keys that are in order are those in the tree.
LEMMA OwnKeysOrder ==
    ASSUME NEW st, NEW K, IsTreeStore(st), Ordered(st, K)
    PROVE  Ordered(st, TreeKeys(st))
<1>1. PICK n, tree, height, above, place : Shape(st, n, tree, height, above, place)
  BY DEF IsTreeStore
<1>2. PICK range : IsOrdered(st.pages, st.root, range, K)
  BY DEF Ordered
<1>3. PICK T : T = PagesUnder(st, st.root)
  OBVIOUS
<1>4. st.root \in T /\ \A x \in T : Children(st, x) \subseteq T
  BY <1>1, <1>3, PagesAreClosed
<1>5. /\ st.pages \in [1..n -> Nodes(1..n)] /\ tree \subseteq 1..n /\ st.root # NoPage
  BY <1>1, TreeStoreIs DEF Shape, IsTree
<1>6. T \subseteq tree
  BY <1>1, <1>3, LevelsAreEven
<1>7. ASSUME NEW x \in T
      PROVE  /\ \A i \in 1..Len(st.pages[x].children) : st.pages[x].children[i] \in T
             /\ \A i \in 1..Len(st.pages[x].keys) : st.pages[x].keys[i] \in TreeKeys(st)
  <2>1. st.pages[x] \in Nodes(1..n)
    BY <1>5, <1>6
  <2>2. /\ DOMAIN st.pages[x].children = 1..Len(st.pages[x].children)
        /\ DOMAIN st.pages[x].keys = 1..Len(st.pages[x].keys)
    BY <2>1, NodeIs
  <2>3. \A i \in DOMAIN st.pages[x].children : st.pages[x].children[i] \in Children(st, x)
    BY DEF Children, ToSet, Page
  <2>4. \A i \in DOMAIN st.pages[x].keys : st.pages[x].keys[i] \in KeySet(Page(st, x))
    BY DEF KeySet, ToSet, Page
  <2>5. KeySet(Page(st, x)) \subseteq TreeKeys(st)
    BY <1>3, <1>5 DEF TreeKeys
  <2> QED
    BY <1>4, <2>2, <2>3, <2>4, <2>5
<1>8. PICK range2 : range2 = Within(range, T)
  OBVIOUS
<1>9. IsOrdered(st.pages, st.root, range2, K)
  BY <1>2, <1>4, <1>7, <1>8, TreeIsOrdered
<1>10. DOMAIN range2 \subseteq T
  BY <1>8 DEF Within
<1>11. ASSUME NEW x \in DOMAIN range2
       PROVE  Holds(st.pages[x], range2[x], range2, TreeKeys(st))
  <2>1. Holds(st.pages[x], range2[x], range2, K)
    BY <1>9 DEF IsOrdered
  <2>2. \A i \in 1..Len(st.pages[x].keys) : st.pages[x].keys[i] \in TreeKeys(st)
    BY <1>7, <1>10
  <2> QED
    BY <2>1, <2>2 DEF Holds, InOrder
<1>12. IsOrdered(st.pages, st.root, range2, TreeKeys(st))
  BY <1>9, <1>11 DEF IsOrdered
<1> QED
  BY <1>12 DEF Ordered

\* The keys below a page are of its range.
LEMMA BelowInRange ==
    ASSUME NEW st, NEW n, NEW tree, NEW height, NEW above, NEW place,
           Shape(st, n, tree, height, above, place),
           NEW range, NEW K, OrderedWith(st, tree, range, K), NEW id \in DOMAIN range
    PROVE  \A x \in PagesUnder(st, id) : x \in DOMAIN range /\ range[x] \subseteq range[id]
<1>1. /\ n \in Nat /\ st \in Stores(n) /\ tree \subseteq 1..n /\ st.pages \in [1..n -> Nodes(1..n)]
  BY DEF Shape, IsTree
<1>2. Len(st.pages) = n
  BY <1>1, PagesAreSequence
<1>3. PICK level : /\ Levels(st, id) = level
                   /\ DOMAIN level = 0..n
                   /\ level[0] = {id}
                   /\ \A k \in 1..n : level[k] = UNION {Children(st, x) : x \in level[k - 1]}
  <2>1. Len(st.pages) \in Nat
    BY <1>1, <1>2
  <2> QED
    BY <1>2, <2>1, LevelsAre
<1> DEFINE Inside(k) == \A x \in level[k] : x \in DOMAIN range /\ range[x] \subseteq range[id]
           T          == {k \in Nat : k <= n => Inside(k)}
<1>4. 0 \in T
  BY <1>3
<1>5. ASSUME NEW k \in Nat, k \in T PROVE k + 1 \in T
  <2>1. SUFFICES ASSUME k + 1 <= n, NEW x \in level[k + 1]
                 PROVE  x \in DOMAIN range /\ range[x] \subseteq range[id]
    OBVIOUS
  <2>2. k <= n /\ k + 1 \in 1..n /\ (k + 1) - 1 = k
    BY <1>1, <2>1
  <2>3. level[k + 1] = UNION {Children(st, y) : y \in level[k]}
    BY <1>3, <2>2
  <2>4. PICK y \in level[k] : x \in Children(st, y)
    BY <2>1, <2>3
  <2>5. y \in DOMAIN range /\ range[y] \subseteq range[id]
    BY <1>5, <2>2
  <2>6. DOMAIN st.pages[y].children = 1..Len(st.pages[y].children)
    <3>1. st.pages[y] \in Nodes(1..n)
      BY <1>1, <2>5 DEF OrderedWith
    <3> QED
      BY <3>1, NodeIs
  <2>7. PICK i \in 1..Len(st.pages[y].children) : x = st.pages[y].children[i]
    BY <2>4, <2>6 DEF Children, ToSet, Page
  <2>8. Holds(st.pages[y], range[y], range, K)
    BY <2>5 DEF OrderedWith, IsOrdered
  <2>9. x \in DOMAIN range /\ range[x] = Part(range[y], st.pages[y].keys, i)
    BY <2>7, <2>8 DEF Holds
  <2>10. range[x] \subseteq range[y]
    BY <2>9 DEF Part
  <2> QED
    BY <2>5, <2>9, <2>10
<1>6. \A k \in 0..n : Inside(k)
  <2>1. Nat \subseteq T
    <3> HIDE DEF T
    <3> QED
      BY <1>4, <1>5, SetInduction
  <2> QED
    BY <1>1, <2>1
<1>7. PagesUnder(st, id) = UNION {level[k] : k \in 0..n}
  BY <1>3 DEF PagesUnder
<1> QED
  BY <1>6, <1>7

\* Trees in order are what KeysInRange says.
LEMMA InRangeIs == ASSUME NEW K, OrderedStore(store, K) PROVE KeysInRange
<1>1. CASE store = EmptyStore
  <2>1. TreePages = {}
    BY <1>1 DEF TreePages, EmptyStore
  <2> QED
    BY <2>1 DEF KeysInRange
<1>2. CASE store # EmptyStore
  <2>1. IsTreeStore(store) /\ Ordered(store, K)
    BY <1>2 DEF OrderedStore, IsStore
  <2>2. PICK n, tree, height, above, place : Shape(store, n, tree, height, above, place)
    BY <2>1 DEF IsTreeStore
  <2>3. PICK range : OrderedWith(store, tree, range, K)
    <3>1. PICK range0 : IsOrdered(store.pages, store.root, range0, K)
      BY <2>1 DEF Ordered
    <3> QED
      BY <2>2, <3>1, OrderedInTree
  <2>4. /\ store.pages \in [1..n -> Nodes(1..n)] /\ tree \subseteq 1..n
        /\ IsTree(store.pages, 1..n, store.root, tree, height, above, place)
    BY <2>2 DEF Shape, IsTree
  <2>5. store.root \in DOMAIN range
    BY <2>3 DEF OrderedWith, IsOrdered
  <2>6. TreePages = PagesUnder(store, store.root)
    BY <2>1, TreeStoreIs DEF TreePages
  <2>7. ASSUME NEW id \in TreePages
        PROVE  /\ \A i \in 1..(Len(store.pages[id].keys) - 1) :
                     store.pages[id].keys[i] < store.pages[id].keys[i + 1]
               /\ \A i \in DOMAIN store.pages[id].children :
                     \A below \in PagesUnder(store, store.pages[id].children[i]) :
                        \A key \in KeySet(store.pages[below]) :
                           /\ i > 1 => key >= store.pages[id].keys[i - 1]
                           /\ i <= Len(store.pages[id].keys) => key < store.pages[id].keys[i]
    <3>1. id \in DOMAIN range
      BY <2>2, <2>3, <2>5, <2>6, BelowInRange
    <3>2. PICK node : node = store.pages[id]
      OBVIOUS
    <3>3. PICK R : R = range[id]
      OBVIOUS
    <3>4. Holds(node, R, range, K) /\ InOrder(node.keys, R, K)
      BY <2>3, <3>1, <3>2, <3>3 DEF OrderedWith, IsOrdered, Holds
    <3>5. id \in 1..n /\ node \in Nodes(1..n) /\ Fits(node, height[id]) /\ height[id] \in Nat
      BY <2>3, <2>4, <3>1, <3>2, TreeNodeIs DEF OrderedWith
    <3>6. PICK len \in Nat : len = Len(node.keys)
      BY <3>5, NodeIs
    <3>7. \A i \in 1..(len - 1) : node.keys[i] < node.keys[i + 1]
      <4>1. \A i \in 1..(len - 1) : i \in 1..len /\ i + 1 \in 1..len /\ i < i + 1
        OBVIOUS
      <4> QED
        BY <3>4, <3>6, <4>1 DEF InOrder
    <3>8. ASSUME NEW i \in DOMAIN node.children, NEW below \in PagesUnder(store, node.children[i]),
                 NEW key \in KeySet(store.pages[below])
          PROVE  /\ i > 1 => key >= node.keys[i - 1]
                 /\ i <= len => key < node.keys[i]
      <4>1. i \in 1..Len(node.children) /\ i \in 1..len + 1
        <5>1. i \in 1..Len(node.children) /\ Len(node.children) \in Nat
          BY <3>5, <3>8, NodeIs
        <5>2. height[id] # 0
          <6>1. Len(<< >>) = 0
            OBVIOUS
          <6> QED
            BY <3>5, <5>1, <6>1 DEF Fits
        <5>3. Len(node.children) = len + 1
          BY <3>5, <3>6, <5>2 DEF Fits
        <5> QED
          BY <5>1, <5>3
      <4>2. PICK c : c = node.children[i]
        OBVIOUS
      <4>3. c \in DOMAIN range /\ range[c] = Part(R, node.keys, i)
        BY <3>4, <4>1, <4>2 DEF Holds
      <4>4. below \in DOMAIN range /\ range[below] \subseteq range[c]
        <5>1. below \in PagesUnder(store, c)
          BY <3>8, <4>2
        <5>2. \A x \in PagesUnder(store, c) : x \in DOMAIN range /\ range[x] \subseteq range[c]
          BY <2>2, <2>3, <4>3, BelowInRange
        <5> QED
          BY <5>1, <5>2
      <4>5. key \in range[below]
        <5>1. below \in 1..n /\ store.pages[below] \in Nodes(1..n)
          BY <2>3, <2>4, <4>4 DEF OrderedWith
        <5>2. DOMAIN store.pages[below].keys = 1..Len(store.pages[below].keys)
          BY <5>1, NodeIs
        <5>3. PICK j \in 1..Len(store.pages[below].keys) : key = store.pages[below].keys[j]
          BY <3>8, <5>2 DEF KeySet, ToSet
        <5>4. InOrder(store.pages[below].keys, range[below], K)
          BY <2>3, <4>4 DEF OrderedWith, IsOrdered, Holds
        <5> QED
          BY <5>3, <5>4 DEF InOrder
      <4>6. key \in Part(R, node.keys, i)
        BY <4>3, <4>4, <4>5
      <4>7. key \in R /\ (i > 1 => node.keys[i - 1] <= key) /\ (i <= len => key < node.keys[i])
        BY <3>6, <4>6 DEF Part
      <4>8. R \subseteq Int /\ \A j \in 1..len : node.keys[j] \in Int
        BY <3>4, <3>6 DEF InOrder
      <4>9. i > 1 => key >= node.keys[i - 1]
        <5>1. SUFFICES ASSUME i > 1 PROVE key >= node.keys[i - 1]
          OBVIOUS
        <5>2. PICK b : b = node.keys[i - 1]
          OBVIOUS
        <5>3. i - 1 \in 1..len
          BY <4>1, <5>1
        <5>4. b \in Int /\ key \in Int /\ b <= key
          BY <4>7, <4>8, <5>1, <5>2, <5>3
        <5>5. key >= b
          BY <5>4
        <5> QED
          BY <5>2, <5>5
      <4> QED
        BY <4>7, <4>9
    <3> QED
      BY <3>2, <3>6, <3>7, <3>8
  <2> QED
    BY <2>7 DEF KeysInRange, Page
<1> QED
  BY <1>1, <1>2

\* What is in order is in order for the keys of the tree.
LEMMA OrderIsOwn ==
    ASSUME NEW st, NEW K, OrderedStore(st, K)
    PROVE  OrderedStore(st, TreeKeys(st))
<1>1. CASE st = EmptyStore
  BY <1>1 DEF OrderedStore
<1>2. CASE st # EmptyStore
  BY <1>2, OwnKeysOrder DEF OrderedStore, IsStore
<1> QED
  BY <1>1, <1>2

\* A call that hands out no deleted page keeps the keys in order (insert, delete and
\* find).
LEMMA OrderStays ==
    ASSUME OrderedStore(store, TreeKeys(store)), [NextNew /\ ~Reuses]_vars
    PROVE  OrderedStore(store, TreeKeys(store))'
<1>1. CASE UNCHANGED vars
  <2>1. store' = store
    BY <1>1 DEF vars
  <2> QED
    BY <2>1
<1>2. CASE NextNew /\ ~Reuses
  <2>1. PICK key \in Keys : (key \notin TreeKeys(store) /\ Insert(key)) \/ Delete(key) \/ Find(key)
    BY <1>2 DEF NextNew
  <2>2. key \in AllKeys
    BY DEF AllKeys
  <2>3. PICK K : K = TreeKeys(store)
    OBVIOUS
  <2>4. PICK st : st = store
    OBVIOUS
  <2>5. PICK next : next = store'
    OBVIOUS
  <2>6. OrderedStore(st, K) /\ IsStore(st)
    BY <2>3, <2>4 DEF OrderedStore
  <2>7. IsStore(next)
    <3>1. [Next /\ ~Reuses]_vars
      BY <1>2 DEF NextNew, Next
    <3>2. IsStore(store)
      BY DEF OrderedStore
    <3> QED
      BY <2>5, <3>1, <3>2, StoreStays
  <2>8. CASE key \notin TreeKeys(store) /\ Insert(key)
    <3>1. next = InsertKey(st, key).store
      BY <2>4, <2>5, <2>8 DEF Insert
    <3>2. ~(st.first_deleted_page # NoPage /\ IsSpent(next))
      <4>1. IsSpent(next) => next.first_deleted_page = NoPage
        BY SpentIs
      <4> QED
        BY <1>2, <2>4, <2>5, <4>1 DEF Reuses
    <3>3. key \notin K
      BY <2>3, <2>8
    <3>4. Ordered(next, K \cup {key})
      BY <2>2, <2>6, <3>1, <3>2, <3>3, InsertKeyOrder
    <3>5. OrderedStore(next, K \cup {key})
      BY <2>7, <3>4 DEF OrderedStore
    <3> QED
      BY <2>5, <3>5, OrderIsOwn
  <2>9. CASE Delete(key)
    <3>1. next = DeleteKey(st, key).store
      BY <2>4, <2>5, <2>9 DEF Delete
    <3>2. OrderedStore(next, K)
      BY <2>6, <2>7, <3>1, DeleteKeyOrder DEF OrderedStore
    <3> QED
      BY <2>5, <3>2, OrderIsOwn
  <2>10. CASE Find(key)
    <3>1. next = WithRoot(st)
      BY <2>4, <2>5, <2>10 DEF Find
    <3>2. OrderedStore(next, K)
      BY <2>6, <2>7, <3>1, WithRootOrder DEF OrderedStore
    <3> QED
      BY <2>5, <3>2, OrderIsOwn
  <2> QED
    BY <2>1, <2>8, <2>9, <2>10
<1> QED
  BY <1>1, <1>2

---------------------------------------------------------------------------
(* The theorems. *)

LEMMA StoreIsKept == SpecNoReuse => []IsStore(store)
<1>1. Init => IsStore(store)
  BY FilledIs DEF Init
<1>2. IsStore(store) /\ [Next /\ ~Reuses]_vars => IsStore(store)'
  BY StoreStays
<1> QED
  BY <1>1, <1>2, PTL DEF SpecNoReuse

\* The behaviours that run index explores are some of these.
LEMMA FreshIsNoReuse == SpecFresh => SpecNoReuse
<1>1. [NextAbsent /\ ~Reuses]_vars => [Next /\ ~Reuses]_vars
  BY DEF NextAbsent, Next
<1> QED
  BY <1>1, PTL DEF SpecFresh, SpecNoReuse

\* Ids in the nodes are of pages there are, also those of the root and of the page to be
\* reused, for any keys, any degree and any number of pages (BTreeStore's calls).
THEOREM TypesHold == SpecNoReuse => []TypeOK
<1>1. IsStore(store) => TypeOK
  BY TypeIs
<1> QED
  BY <1>1, StoreIsKept, PTL

\* No call leaves a node of the tree with more keys than fit, with arrays that do not
\* belong together, or more than one key short (check_node_invariants).
THEOREM NodesStayWellFormed == SpecNoReuse => []NodesWellFormed
<1>1. IsStore(store) => NodesWellFormed
  BY WellFormedIs
<1> QED
  BY <1>1, StoreIsKept, PTL

\* Whatever is split, lent and merged, every node is read from the file as it was
\* written (write_page, try_from).
THEOREM NodesAreReadBack == SpecNoReuse => []NodesReadBack
<1>1. IsStore(store) => NodesReadBack
  BY ReadBackIs
<1> QED
  BY <1>1, StoreIsKept, PTL

\* All leaves stay equally deep, every page of the tree but the root has one parent, and
\* the page to be reused is not in the tree.
THEOREM TreeStaysBalanced == SpecNoReuse => []TreeIsBalanced
<1>1. IsStore(store) => TreeIsBalanced
  BY BalancedIs
<1> QED
  BY <1>1, StoreIsKept, PTL

\* As long as no key is inserted that a node holds already, the keys of every node
\* ascend, and every key is between the separators above it, through splits, loans,
\* merges and the collapse of the root, also where the separator that is left is a
\* deleted key (validate).
THEOREM KeysStayInRange == ASSUME DistinctPreloads PROVE SpecNewKeys => []KeysInRange
<1>1. Init => OrderedStore(store, TreeKeys(store))
  <2>1. SUFFICES ASSUME Init PROVE OrderedStore(store, TreeKeys(store))
    OBVIOUS
  <2>2. PICK keys \in Preloads : store = Filled(keys)
    BY <2>1 DEF Init
  <2>3. OrderedStore(store, ToSet(keys))
    BY <2>2, FilledOrder
  <2> QED
    BY <2>3, OrderIsOwn
<1>2. OrderedStore(store, TreeKeys(store)) /\ [NextNew /\ ~Reuses]_vars
        => OrderedStore(store, TreeKeys(store))'
  BY OrderStays
<1>3. OrderedStore(store, TreeKeys(store)) => KeysInRange
  BY InRangeIs
<1> QED
  BY <1>1, <1>2, <1>3, PTL DEF SpecNewKeys

=============================================================================
