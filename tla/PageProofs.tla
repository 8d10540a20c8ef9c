---------------------------- MODULE PageProofs ----------------------------
(***************************************************************************)
(* Proofs about Page.tla, for every page size and every set of lengths.    *)
(*                                                                         *)
(* TypeOK alone is not inductive: that the offset of a split-off slot is   *)
(* within the page follows from the slots lying within the page.  PageInv  *)
(* adds SlotsDisjoint, and the two together are inductive.                 *)
(***************************************************************************)
EXTENDS Page, TLAPS

\* No two row lengths differ by a directory entry or more.
Narrow == \A l, m \in Lengths : l - m < SlotSize

PageInv == TypeOK /\ SlotsDisjoint

\* A directory none of whose slots is longer than some row.
Bounded(dir) == \A i \in DOMAIN dir : \E l \in Lengths : dir[i].record_length <= l

\* What makes DirectoryFits inductive when lengths are narrow.
FitInv ==
    /\ PageInv
    /\ DirectoryFits
    /\ Bounded(slots)
    /\ Bounded(disk.slots)

---------------------------------------------------------------------------
(* Directories: what replacing and appending a slot does. *)

\* Append adds one element at the end and keeps the others.
LEMMA AppendSlot ==
    ASSUME NEW dir \in Seq(Slot), NEW s \in Slot
    PROVE  /\ Append(dir, s) \in Seq(Slot)
           /\ Len(Append(dir, s)) = Len(dir) + 1
           /\ DOMAIN Append(dir, s) = 1..(Len(dir) + 1)
           /\ \A i \in 1..Len(dir) : Append(dir, s)[i] = dir[i]
           /\ Append(dir, s)[Len(dir) + 1] = s
    OBVIOUS

\* Replacing a slot keeps the length and the other slots.
LEMMA ReplaceSlot ==
    ASSUME NEW dir \in Seq(Slot), NEW i \in DOMAIN dir, NEW s \in Slot
    PROVE  /\ [dir EXCEPT ![i] = s] \in Seq(Slot)
           /\ Len([dir EXCEPT ![i] = s]) = Len(dir)
           /\ DOMAIN [dir EXCEPT ![i] = s] = DOMAIN dir
           /\ DOMAIN dir = 1..Len(dir)
           /\ \A j \in DOMAIN dir :
                 [dir EXCEPT ![i] = s][j] = IF j = i THEN s ELSE dir[j]
    OBVIOUS

\* A slot below all others keeps a directory disjoint (insert_record into the
\* free area).
LEMMA AppendBelow ==
    ASSUME NEW dir \in Seq(Slot), NEW free_end \in 0..PageDataSize,
           Disjoint(dir, free_end), NEW s \in Slot,
           s.page_offset + s.record_length = free_end
    PROVE  Disjoint(Append(dir, s), s.page_offset)
<1> DEFINE new == Append(dir, s)
<1>1. /\ DOMAIN new = 1..(Len(dir) + 1)
      /\ \A i \in 1..Len(dir) : new[i] = dir[i]
      /\ new[Len(dir) + 1] = s
      /\ Len(dir) \in Nat
      /\ DOMAIN dir = 1..Len(dir)
  BY AppendSlot
<1>2. \A i \in DOMAIN dir : dir[i] \in Slot
  OBVIOUS
<1> HIDE DEF new
<1>3. \A i \in DOMAIN new : i \in DOMAIN dir \/ i = Len(dir) + 1
  BY <1>1
<1>4. PageDataSize \in Nat
  BY PageAssumption
<1>5. ASSUME NEW i \in DOMAIN new
      PROVE  /\ s.page_offset <= new[i].page_offset
             /\ new[i].page_offset + new[i].record_length <= PageDataSize
  <2>1. CASE i \in DOMAIN dir
    <3>1. /\ free_end <= dir[i].page_offset
          /\ dir[i].page_offset + dir[i].record_length <= PageDataSize
      BY <2>1 DEF Disjoint
    <3>2. dir[i].page_offset \in Nat /\ s.page_offset \in Nat /\ s.record_length \in Nat
      BY <2>1, <1>2, <1>4 DEF Slot
    <3> QED
      BY <2>1, <3>1, <3>2, <1>1
  <2>2. CASE i = Len(dir) + 1
    BY <2>2, <1>1, <1>4 DEF Slot
  <2> QED
    BY <2>1, <2>2, <1>3
<1>6. ASSUME NEW i \in DOMAIN new, NEW j \in DOMAIN new, i # j
      PROVE  \/ new[i].page_offset + new[i].record_length <= new[j].page_offset
             \/ new[j].page_offset + new[j].record_length <= new[i].page_offset
  <2>1. CASE i \in DOMAIN dir /\ j \in DOMAIN dir
    BY <2>1, <1>1, <1>6 DEF Disjoint
  <2>2. CASE i = Len(dir) + 1 /\ j \in DOMAIN dir
    BY <2>2, <1>1, <1>2 DEF Disjoint, Slot
  <2>3. CASE j = Len(dir) + 1 /\ i \in DOMAIN dir
    BY <2>3, <1>1, <1>2 DEF Disjoint, Slot
  <2> QED
    BY <2>1, <2>2, <2>3, <1>3, <1>6
<1> QED
  BY <1>5, <1>6 DEF Disjoint, new

\* Flagging a slot or giving it back, without moving it, changes no extent.
LEMMA SameExtents ==
    ASSUME NEW dir, NEW new, NEW free_end,
           Disjoint(dir, free_end), DOMAIN new = DOMAIN dir,
           \A i \in DOMAIN dir : /\ new[i].page_offset = dir[i].page_offset
                                 /\ new[i].record_length = dir[i].record_length
    PROVE  Disjoint(new, free_end)
BY DEF Disjoint

\* Cutting a slot in two keeps a directory disjoint (insert_record into a
\* longer deleted slot).
LEMMA SplitSlot ==
    ASSUME NEW dir \in Seq(Slot), NEW free_end \in 0..PageDataSize,
           Disjoint(dir, free_end), NEW i \in DOMAIN dir,
           NEW head \in Slot, NEW rest \in Slot,
           head.page_offset = dir[i].page_offset,
           rest.page_offset = head.page_offset + head.record_length,
           head.record_length + rest.record_length = dir[i].record_length
    PROVE  Disjoint(Append([dir EXCEPT ![i] = head], rest), free_end)
<1> DEFINE cut == [dir EXCEPT ![i] = head]
           new == Append(cut, rest)
           n   == Len(dir) + 1
<1>1. /\ cut \in Seq(Slot)
      /\ Len(cut) = Len(dir)
      /\ DOMAIN dir = 1..Len(dir)
      /\ \A j \in DOMAIN dir : cut[j] = IF j = i THEN head ELSE dir[j]
  BY ReplaceSlot
<1>2. /\ DOMAIN new = 1..n
      /\ \A j \in 1..Len(dir) : new[j] = cut[j]
      /\ new[n] = rest
  <2> HIDE DEF cut
  <2> QED BY <1>1, AppendSlot
<1>3. \A j \in DOMAIN dir : dir[j] \in Slot
  OBVIOUS
<1>4. Len(dir) \in Nat /\ PageDataSize \in Nat
  BY PageAssumption
<1> HIDE DEF cut, new
<1>5. /\ \A j \in DOMAIN new : j \in DOMAIN dir \/ j = n
      /\ new[i] = head
      /\ \A j \in DOMAIN dir : j # i => new[j] = dir[j]
  BY <1>1, <1>2, <1>4
<1>6. \A j \in DOMAIN dir :
         /\ free_end <= dir[j].page_offset
         /\ dir[j].page_offset + dir[j].record_length <= PageDataSize
  BY DEF Disjoint
<1>7. \A j \in DOMAIN dir : j # i =>
         \/ dir[i].page_offset + dir[i].record_length <= dir[j].page_offset
         \/ dir[j].page_offset + dir[j].record_length <= dir[i].page_offset
  BY DEF Disjoint
<1>8. /\ head.page_offset \in Nat /\ head.record_length \in Nat
      /\ rest.page_offset \in Nat /\ rest.record_length \in Nat
      /\ \A j \in DOMAIN dir : /\ dir[j].page_offset \in Nat
                               /\ dir[j].record_length \in Nat
  BY <1>3, <1>4, SMTT(30) DEF Slot
<1>9. ASSUME NEW j \in DOMAIN new
      PROVE  /\ free_end <= new[j].page_offset
             /\ new[j].page_offset + new[j].record_length <= PageDataSize
  <2>1. CASE j = n
    BY <2>1, <1>2, <1>4, <1>6, <1>8, SMTT(30)
  <2>2. CASE j = i
    BY <2>2, <1>4, <1>5, <1>6, <1>8
  <2>3. CASE j \in DOMAIN dir /\ j # i
    BY <2>3, <1>5, <1>6
  <2> QED
    BY <2>1, <2>2, <2>3, <1>5
<1>10. ASSUME NEW j \in DOMAIN new, NEW k \in DOMAIN new, j # k
       PROVE  \/ new[j].page_offset + new[j].record_length <= new[k].page_offset
              \/ new[k].page_offset + new[k].record_length <= new[j].page_offset
  <2>1. CASE j \in {i, n} /\ k \in {i, n}
    BY <2>1, <1>2, <1>5, <1>8, <1>10
  <2>2. ASSUME NEW p \in {i, n}, NEW q \in DOMAIN dir, q # i
        PROVE  \/ new[p].page_offset + new[p].record_length <= new[q].page_offset
               \/ new[q].page_offset + new[q].record_length <= new[p].page_offset
    <3>1. new[q] = dir[q]
      BY <2>2, <1>5
    <3>2. \/ dir[i].page_offset + dir[i].record_length <= dir[q].page_offset
          \/ dir[q].page_offset + dir[q].record_length <= dir[i].page_offset
      BY <2>2, <1>7
    <3>3. dir[q].page_offset \in Nat /\ dir[q].record_length \in Nat
      BY <1>8
    <3>4. new[i] = head /\ new[n] = rest
      BY <1>2, <1>5
    <3>5. CASE p = i
      BY <3>1, <3>2, <3>3, <3>4, <3>5, <1>8, SMTT(30)
    <3>6. CASE p = n
      <4>1. new[p] = rest
        BY <3>4, <3>6
      <4> HIDE DEF n
      <4> QED
        BY <4>1, <3>1, <3>2, <3>3, <1>8, SMTT(30)
    <3> QED
      BY <3>5, <3>6
  <2>3. CASE \/ j \in {i, n} /\ k \in DOMAIN dir /\ k # i
             \/ k \in {i, n} /\ j \in DOMAIN dir /\ j # i
    BY <2>2, <2>3
  <2>4. CASE j \in DOMAIN dir /\ k \in DOMAIN dir /\ j # i /\ k # i
    BY <2>4, <1>5, <1>10 DEF Disjoint
  <2> QED
    BY <2>1, <2>3, <2>4, <1>5
<1> QED
  BY <1>9, <1>10 DEF Disjoint, new, cut

---------------------------------------------------------------------------
(* Type correctness and disjointness. *)

\* The record a longer deleted slot becomes, and the slot left of it, are slots.
LEMMA SplitParts ==
    ASSUME PageInv, NEW i \in DOMAIN slots, NEW len \in Lengths,
           len < slots[i].record_length
    PROVE  /\ [record_length |-> len, page_offset |-> slots[i].page_offset,
               deleted |-> FALSE] \in Slot
           /\ [record_length |-> slots[i].record_length - len,
               page_offset   |-> slots[i].page_offset + len,
               deleted       |-> TRUE] \in Slot
<1>1. slots[i] \in Slot
  BY DEF PageInv, TypeOK
<1>2. slots[i].page_offset + slots[i].record_length <= PageDataSize
  BY DEF PageInv, SlotsDisjoint, Disjoint
<1>3. len \in 1..PageDataSize /\ PageDataSize \in Nat
  BY PageAssumption
<1>4. slots[i].page_offset \in 0..PageDataSize /\ slots[i].record_length \in 1..PageDataSize
  BY <1>1 DEF Slot
<1>5. /\ slots[i].record_length - len \in 1..PageDataSize
      /\ slots[i].page_offset + len \in 0..PageDataSize
  BY <1>2, <1>3, <1>4
<1> QED
  BY <1>3, <1>4, <1>5 DEF Slot

\* insert_record into a deleted slot leaves a directory of disjoint slots.
LEMMA InsertIntoDeletedSlotPreserves ==
    ASSUME PageInv, NEW len \in Lengths, NEW v \in Values,
           InsertIntoDeletedSlot(len, v)
    PROVE  slots' \in Seq(Slot) /\ Disjoint(slots', data_offset')
<1>1. PICK i \in DOMAIN slots : InsertIntoDeletedSlot(len, v)!(i)
  BY DEF InsertIntoDeletedSlot
<1> DEFINE start == slots[i].page_offset
           rest  == slots[i].record_length - len
           head  == [record_length |-> len, page_offset |-> start, deleted |-> FALSE]
           tail  == [record_length |-> rest, page_offset |-> start + len,
                     deleted |-> TRUE]
           cut   == [slots EXCEPT ![i] = head]
<1>2. slots' = IF rest > 0 THEN Append(cut, tail) ELSE cut
  BY <1>1
<1>3. /\ slots \in Seq(Slot) /\ slots[i] \in Slot
      /\ data_offset' = data_offset /\ data_offset \in 0..PageDataSize
      /\ Disjoint(slots, data_offset)
  BY <1>1 DEF PageInv, TypeOK, SlotsDisjoint
<1>4. len \in Nat /\ slots[i].record_length \in Nat /\ start \in Nat /\ PageDataSize \in Nat
  BY <1>3, PageAssumption DEF Slot
<1>5. len = slots[i].record_length \/ len < slots[i].record_length
  BY <1>1, <1>4 DEF IsFreeSlotFor
<1>6. CASE len = slots[i].record_length
  <2>1. slots' = cut
    BY <1>2, <1>4, <1>6
  <2>2. head \in Slot
    BY <1>3, <1>6 DEF Slot
  <2>3. cut \in Seq(Slot)
    BY <2>2, <1>3
  <2>4. /\ DOMAIN cut = DOMAIN slots
        /\ \A j \in DOMAIN slots : /\ cut[j].page_offset = slots[j].page_offset
                                   /\ cut[j].record_length = slots[j].record_length
    BY <1>6
  <2>5. Disjoint(cut, data_offset)
    BY <2>4, <1>3, SameExtents
  <2> QED
    BY <2>1, <2>3, <2>5, <1>3
<1>7. CASE len < slots[i].record_length
  <2>1. slots' = Append(cut, tail)
    BY <1>2, <1>4, <1>7
  <2>2. head \in Slot /\ tail \in Slot
    BY <1>7, SplitParts
  <2>3. Append(cut, tail) \in Seq(Slot)
    BY <2>2, <1>3
  <2>4. Disjoint(Append(cut, tail), data_offset)
    <3>1. /\ head.page_offset = slots[i].page_offset
          /\ tail.page_offset = head.page_offset + head.record_length
          /\ head.record_length + tail.record_length = slots[i].record_length
      BY <1>4
    <3> HIDE DEF head, tail
    <3> QED
      BY <2>2, <3>1, <1>3, SplitSlot
  <2> QED
    BY <2>1, <2>3, <2>4, <1>3
<1> QED
  BY <1>5, <1>6, <1>7

\* insert_record into the free area leaves a directory of disjoint slots.
LEMMA InsertIntoFreeAreaPreserves ==
    ASSUME PageInv, NEW len \in Lengths, NEW v \in Values,
           InsertIntoFreeArea(len, v)
    PROVE  /\ slots' \in Seq(Slot)
           /\ data_offset' \in 0..PageDataSize
           /\ Disjoint(slots', data_offset')
<1> DEFINE s == [record_length |-> len, page_offset |-> data_offset - len,
                 deleted |-> FALSE]
<1>1. /\ slots \in Seq(Slot) /\ data_offset \in 0..PageDataSize
      /\ Disjoint(slots, data_offset)
  BY DEF PageInv, TypeOK, SlotsDisjoint
<1>2. /\ len \in 1..PageDataSize /\ PageDataSize \in Nat
      /\ data_offset - len \in 0..PageDataSize
  BY <1>1, PageAssumption DEF InsertIntoFreeArea
<1>3. s \in Slot /\ s.page_offset + s.record_length = data_offset
      /\ s.page_offset = data_offset - len
  BY <1>1, <1>2 DEF Slot
<1>4. slots' = Append(slots, s) /\ data_offset' = data_offset - len
  BY DEF InsertIntoFreeArea
<1> HIDE DEF s
<1>5. Append(slots, s) \in Seq(Slot)
  BY <1>1, <1>3
<1>6. Disjoint(Append(slots, s), s.page_offset)
  BY <1>1, <1>3, AppendBelow
<1> QED
  BY <1>2, <1>3, <1>4, <1>5, <1>6

\* Writing a row's bytes keeps the type of the data area.
LEMMA OverwriteType ==
    ASSUME TypeOK, NEW start, NEW len, NEW v \in Values
    PROVE  Overwrite(start, len, v) \in [Byte -> Values \cup {Blank}]
BY DEF TypeOK, Overwrite

\* PageInv is an invariant of a page.
LEMMA PageInvInductive == PageInv /\ [Next]_vars => PageInv'
<1> SUFFICES ASSUME PageInv, [Next]_vars
             PROVE  PageInv'
  OBVIOUS
<1> USE DEF PageInv
<1>1. ASSUME NEW len \in Lengths, NEW v \in Values, InsertRecord(len, v)
      PROVE  PageInv'
  <2>1. /\ slots' \in Seq(Slot)
        /\ data_offset' \in 0..PageDataSize
        /\ Disjoint(slots', data_offset')
        /\ data' \in [Byte -> Values \cup {Blank}]
    <3>1. CASE InsertIntoDeletedSlot(len, v)
      <4>1. slots' \in Seq(Slot) /\ Disjoint(slots', data_offset')
        BY <3>1, InsertIntoDeletedSlotPreserves
      <4>2. data_offset' \in 0..PageDataSize
        BY <3>1 DEF InsertIntoDeletedSlot, TypeOK
      <4>3. \E i \in DOMAIN slots : data' = Overwrite(slots[i].page_offset, len, v)
        BY <3>1 DEF InsertIntoDeletedSlot
      <4> QED
        BY <4>1, <4>2, <4>3, OverwriteType
    <3>2. CASE InsertIntoFreeArea(len, v)
      <4>1. data' = Overwrite(data_offset - len, len, v)
        BY <3>2 DEF InsertIntoFreeArea
      <4> QED
        BY <3>2, <4>1, OverwriteType, InsertIntoFreeAreaPreserves
    <3> QED
      BY <1>1, <3>1, <3>2 DEF InsertRecord
  <2>2. number_of_records' \in Nat /\ disk' = disk
    BY <1>1 DEF InsertRecord, TypeOK
  <2> QED
    BY <2>1, <2>2 DEF TypeOK, SlotsDisjoint
<1>2. ASSUME NEW i \in DOMAIN slots, NEW len \in Lengths, NEW v \in Values,
             WriteRecord(i, len, v)
      PROVE  PageInv'
  <2>1. data' \in [Byte -> Values \cup {Blank}]
    BY <1>2, OverwriteType DEF WriteRecord
  <2> QED
    BY <1>2, <2>1 DEF WriteRecord, TypeOK, SlotsDisjoint
<1>3. ASSUME NEW i \in DOMAIN slots, DeleteRecord(i)
      PROVE  PageInv'
  <2>1. slots' = [slots EXCEPT ![i].deleted = TRUE]
    BY <1>3 DEF DeleteRecord
  <2>2. slots \in Seq(Slot) /\ slots[i] \in Slot
    BY DEF TypeOK
  <2>3. slots' \in Seq(Slot)
    <3> DEFINE s == [slots[i] EXCEPT !.deleted = TRUE]
    <3>1. s \in Slot
      BY <2>2 DEF Slot
    <3>2. slots' = [slots EXCEPT ![i] = s]
      BY <2>1
    <3> HIDE DEF s
    <3> QED
      BY <2>2, <3>1, <3>2
  <2>4. /\ DOMAIN slots' = DOMAIN slots
        /\ \A j \in DOMAIN slots : /\ slots'[j].page_offset = slots[j].page_offset
                                   /\ slots'[j].record_length = slots[j].record_length
    BY <2>1, <2>2 DEF Slot
  <2>5. Disjoint(slots', data_offset)
    BY <2>4, SameExtents DEF SlotsDisjoint
  <2> QED
    BY <1>3, <2>3, <2>5 DEF DeleteRecord, TypeOK, SlotsDisjoint
<1>4. CASE Save
  <2>1. disk' \in Image
    BY <1>4 DEF Save, TypeOK, Image
  <2> QED
    BY <1>4, <2>1 DEF Save, memory, TypeOK, SlotsDisjoint
<1>5. CASE Load
  BY <1>5 DEF Load, TypeOK, SlotsDisjoint, Image
<1>6. CASE UNCHANGED vars
  BY <1>6 DEF vars, TypeOK, SlotsDisjoint
<1> QED
  BY <1>1, <1>2, <1>3, <1>4, <1>5, <1>6 DEF Next

LEMMA PageInvInit == Init => PageInv
<1> SUFFICES ASSUME Init PROVE PageInv
  OBVIOUS
<1>1. PageDataSize \in Nat /\ << >> \in Seq(Slot)
  BY PageAssumption
<1>2. TypeOK
  BY <1>1 DEF Init, TypeOK, Image
<1>3. SlotsDisjoint
  BY DEF Init, SlotsDisjoint, Disjoint
<1> QED
  BY <1>2, <1>3 DEF PageInv

\* Every reachable state of a page is well typed: every slot lies on the page.
THEOREM TypeCorrect == Spec => []TypeOK
<1>1. PageInv => TypeOK
  BY DEF PageInv
<1> QED
  BY <1>1, PageInvInit, PageInvInductive, PTL DEF Spec

\* No byte of a page ever belongs to two slots, in memory or on disk, whatever
\* row lengths are inserted, deleted, reused and split.
THEOREM SlotsStayDisjoint == Spec => []SlotsDisjoint
<1>1. PageInv => SlotsDisjoint
  BY DEF PageInv
<1> QED
  BY <1>1, PageInvInit, PageInvInductive, PTL DEF Spec


---------------------------------------------------------------------------
(* The directory and the rows. *)

\* The numbers in a page are natural numbers.
LEMMA PageNumbers ==
    ASSUME PageInv
    PROVE  /\ slots \in Seq(Slot) /\ Len(slots) \in Nat
           /\ DOMAIN slots = 1..Len(slots)
           /\ \A i \in DOMAIN slots : /\ slots[i] \in Slot
                                      /\ slots[i].record_length \in Nat
                                      /\ slots[i].page_offset \in Nat
           /\ data_offset \in Nat /\ Lengths \subseteq Nat
           /\ DirectorySize \in Nat
<1>1. PageDataSize \in Nat /\ Lengths \subseteq Nat
  BY PageAssumption
<1>2. slots \in Seq(Slot) /\ data_offset \in 0..PageDataSize
  BY DEF PageInv, TypeOK
<1>3. \A i \in DOMAIN slots : slots[i] \in Slot
  BY <1>2
<1>4. /\ Len(slots) \in Nat
      /\ DOMAIN slots = 1..Len(slots)
  BY <1>2
<1> QED
  BY <1>1, <1>2, <1>3, <1>4 DEF Slot, DirectorySize, SlotSize

\* While the directory fits, the free area is chosen only when it has room for
\* the row and one more directory entry.
LEMMA FreeAreaHasRoom ==
    ASSUME PageInv, DirectorySize <= data_offset, NEW len \in Lengths,
           CanInsert(len), NoFreeSlotFor(len)
    PROVE  len + SlotSize + DirectorySize <= data_offset
<1>1. /\ \A i \in DOMAIN slots : slots[i].record_length \in Nat
      /\ data_offset \in Nat /\ len \in Nat /\ DirectorySize \in Nat
  BY PageNumbers
<1>2. \A i \in DOMAIN slots : slots[i].deleted =>
         slots[i].record_length # len /\ ~(len + SlotSize <= slots[i].record_length)
  BY <1>1 DEF NoFreeSlotFor, SlotSize
<1>3. len + SlotSize <= AllocatedSpace
  BY <1>2 DEF CanInsert
<1> QED
  BY <1>1, <1>3 DEF AllocatedSpace, SlotSize

\* Taking space from the free area never makes the directory run into the rows.
THEOREM FreeAreaInsertIsSafe == Spec => FreeAreaInsertFits
<1>1. ASSUME PageInv, [Next]_vars,
             DirectorySize <= data_offset, data_offset' < data_offset
      PROVE  Load \/ DirectorySize' <= data_offset'
  <2>1. data_offset \in Nat /\ slots \in Seq(Slot)
    BY <1>1, PageAssumption DEF PageInv, TypeOK
  <2>2. data_offset' # data_offset
    BY <1>1, <2>1
  <2>3. CASE Load
    BY <2>3
  <2>4. CASE \E len \in Lengths, v \in Values : InsertRecord(len, v)
    <3>1. PICK len \in Lengths, v \in Values : InsertRecord(len, v)
      BY <2>4
    <3>2. InsertIntoFreeArea(len, v) /\ CanInsert(len)
      BY <2>2, <3>1 DEF InsertRecord, InsertIntoDeletedSlot
    <3>3. len + SlotSize + DirectorySize <= data_offset
      BY <1>1, <3>2, FreeAreaHasRoom DEF InsertIntoFreeArea
    <3> DEFINE s == [record_length |-> len, page_offset |-> data_offset - len,
                     deleted |-> FALSE]
    <3>4. slots' = Append(slots, s) /\ data_offset' = data_offset - len
      BY <3>2 DEF InsertIntoFreeArea
    <3>5. Len(slots') = Len(slots) + 1 /\ Len(slots) \in Nat
      BY <2>1, <3>4
    <3>6. len \in Nat
      BY PageAssumption
    <3> HIDE DEF s
    <3> QED
      BY <2>1, <3>3, <3>4, <3>5, <3>6 DEF DirectorySize, SlotSize
  <2> QED
    BY <1>1, <2>2, <2>3, <2>4
       DEF Next, WriteRecord, DeleteRecord, Save, memory, vars
<1>2. PageInv /\ [Next]_vars =>
         [\/ Load
          \/ DirectorySize <= data_offset /\ data_offset' < data_offset
                 => DirectorySize' <= data_offset']_vars
  BY <1>1
<1> QED
  BY <1>2, PageInvInit, PageInvInductive, PTL DEF Spec, FreeAreaInsertFits

\* With narrow lengths an insert leaves a directory that fits.
LEMMA InsertFits ==
    ASSUME Narrow, FitInv, NEW len \in Lengths, NEW v \in Values,
           InsertRecord(len, v)
    PROVE  DirectorySize' <= data_offset'
<1>1. /\ slots \in Seq(Slot) /\ data_offset \in Nat /\ len \in Nat
      /\ Len(slots) \in Nat /\ DirectorySize <= data_offset
  BY PageAssumption DEF FitInv, PageInv, TypeOK, DirectoryFits
<1>2. CASE InsertIntoFreeArea(len, v)
  <2>1. len + SlotSize + DirectorySize <= data_offset
    BY <1>1, <1>2, FreeAreaHasRoom DEF InsertIntoFreeArea, InsertRecord, FitInv
  <2> DEFINE s == [record_length |-> len, page_offset |-> data_offset - len,
                   deleted |-> FALSE]
  <2>2. slots' = Append(slots, s) /\ data_offset' = data_offset - len
    BY <1>2 DEF InsertIntoFreeArea
  <2>3. Len(slots') = Len(slots) + 1
    BY <1>1, <2>2
  <2> HIDE DEF s
  <2> QED
    BY <1>1, <2>1, <2>2, <2>3 DEF DirectorySize, SlotSize
<1>3. CASE InsertIntoDeletedSlot(len, v)
  <2>1. PICK i \in DOMAIN slots : InsertIntoDeletedSlot(len, v)!(i)
    BY <1>3 DEF InsertIntoDeletedSlot
  <2>2. slots[i].record_length \in Nat
    BY PageNumbers DEF FitInv
  <2>3. CASE slots[i].record_length = len
    <3>1. Len(slots') = Len(slots)
      BY <1>1, <2>1, <2>3
    <3> QED
      BY <1>1, <2>1, <3>1 DEF DirectorySize
  <2>4. CASE slots[i].record_length # len
    <3>1. \A j \in DOMAIN slots : slots[j].deleted => slots[j].record_length # len
      BY <2>1, <2>4 DEF IsFreeSlotFor
    <3>2. \A j \in DOMAIN slots : ~(len + SlotSize <= slots[j].record_length)
      <4>1. SUFFICES ASSUME NEW j \in DOMAIN slots,
                            len + SlotSize <= slots[j].record_length
                     PROVE  FALSE
        OBVIOUS
      <4>2. PICK l \in Lengths : slots[j].record_length <= l
        BY DEF FitInv, Bounded
      <4>3. l \in Nat /\ slots[j].record_length \in Nat
        BY PageNumbers DEF FitInv
      <4>4. l - len < SlotSize
        BY DEF Narrow
      <4> QED
        BY <1>1, <4>1, <4>2, <4>3, <4>4 DEF SlotSize
    <3>3. len + SlotSize <= AllocatedSpace
      BY <1>1, <3>1, <3>2 DEF InsertRecord, CanInsert
    <3>4. DirectorySize \in Nat
      BY <1>1 DEF DirectorySize, SlotSize
    <3>5. len + SlotSize + DirectorySize <= data_offset
      BY <1>1, <3>3, <3>4 DEF AllocatedSpace, SlotSize
    <3>6. Len(slots') \in {Len(slots), Len(slots) + 1}
      <4> DEFINE head == [record_length |-> len,
                          page_offset |-> slots[i].page_offset, deleted |-> FALSE]
                 tail == [record_length |-> slots[i].record_length - len,
                          page_offset |-> slots[i].page_offset + len,
                          deleted |-> TRUE]
                 cut  == [slots EXCEPT ![i] = head]
      <4>1. slots' = Append(cut, tail) \/ slots' = cut
        BY <2>1
      <4>2. slots[i].record_length > len
        BY <2>1, <2>4 DEF IsFreeSlotFor
      <4>3. head \in Slot /\ tail \in Slot
        BY <1>1, <2>2, <4>2, SplitParts DEF FitInv
      <4> HIDE DEF head, tail
      <4>4. cut \in Seq(Slot) /\ Len(cut) = Len(slots)
        BY <1>1, <4>3
      <4> HIDE DEF cut
      <4> QED
        BY <4>1, <4>3, <4>4
    <3> QED
      BY <1>1, <2>1, <3>5, <3>6 DEF DirectorySize, SlotSize
  <2> QED
    BY <2>3, <2>4
<1> QED
  BY <1>2, <1>3 DEF InsertRecord

\* An insert leaves no slot longer than every row.
LEMMA InsertBounded ==
    ASSUME FitInv, NEW len \in Lengths, NEW v \in Values, InsertRecord(len, v)
    PROVE  Bounded(slots')
<1>1. /\ slots \in Seq(Slot) /\ Len(slots) \in Nat /\ DOMAIN slots = 1..Len(slots)
      /\ len \in Nat /\ Lengths \subseteq Nat
      /\ \A i \in DOMAIN slots : slots[i].record_length \in Nat
  BY PageNumbers DEF FitInv
<1>2. \A i \in DOMAIN slots : \E l \in Lengths : slots[i].record_length <= l
  BY DEF FitInv, Bounded
<1>3. ASSUME NEW new, NEW s, new \in Seq(Slot), s \in Slot,
             Len(new) = Len(slots), s.record_length \in Nat,
             \A i \in DOMAIN slots : new[i].record_length \in Nat /\
                                     new[i].record_length <= slots[i].record_length,
             \E l \in Lengths : s.record_length <= l
      PROVE  Bounded(new) /\ Bounded(Append(new, s))
  <2>1. DOMAIN new = DOMAIN slots
    BY <1>1, <1>3
  <2>2. Bounded(new)
    <3>1. SUFFICES ASSUME NEW i \in DOMAIN slots
                   PROVE  \E l \in Lengths : new[i].record_length <= l
      BY <2>1 DEF Bounded
    <3>2. PICK l \in Lengths : slots[i].record_length <= l
      BY <1>2
    <3>3. new[i].record_length <= l
      BY <1>1, <1>3, <3>2
    <3> QED
      BY <3>3
  <2>3. /\ DOMAIN Append(new, s) = 1..(Len(new) + 1)
        /\ \A i \in 1..Len(new) : Append(new, s)[i] = new[i]
        /\ Append(new, s)[Len(new) + 1] = s
    BY <1>3, AppendSlot
  <2>4. \A i \in DOMAIN Append(new, s) : i \in DOMAIN new \/ i = Len(new) + 1
    BY <1>1, <1>3, <2>1, <2>3
  <2>5. Bounded(Append(new, s))
    BY <1>1, <1>3, <2>1, <2>2, <2>3, <2>4 DEF Bounded
  <2> QED
    BY <2>2, <2>5
<1>4. CASE InsertIntoFreeArea(len, v)
  <2> DEFINE s == [record_length |-> len, page_offset |-> data_offset - len,
                   deleted |-> FALSE]
  <2>1. slots' = Append(slots, s)
    BY <1>4 DEF InsertIntoFreeArea
  <2>2. s \in Slot /\ s.record_length = len
    <3>1. data_offset \in 0..PageDataSize /\ PageDataSize \in Nat /\ len \in 1..PageDataSize
      BY PageAssumption DEF FitInv, PageInv, TypeOK
    <3> QED
      BY <1>4, <3>1 DEF InsertIntoFreeArea, Slot
  <2> HIDE DEF s
  <2> QED
    BY <1>1, <1>3, <2>1, <2>2
<1>5. CASE InsertIntoDeletedSlot(len, v)
  <2>1. PICK i \in DOMAIN slots : InsertIntoDeletedSlot(len, v)!(i)
    BY <1>5 DEF InsertIntoDeletedSlot
  <2> DEFINE head == [record_length |-> len,
                      page_offset |-> slots[i].page_offset, deleted |-> FALSE]
             tail == [record_length |-> slots[i].record_length - len,
                      page_offset |-> slots[i].page_offset + len,
                      deleted |-> TRUE]
             cut  == [slots EXCEPT ![i] = head]
  <2>2. /\ slots[i].record_length > len => slots' = Append(cut, tail)
        /\ slots[i].record_length = len => slots' = cut
    <3>1. slots' = IF slots[i].record_length - len > 0 THEN Append(cut, tail) ELSE cut
      BY <2>1
    <3>2. slots[i].record_length \in Nat
      BY <1>1
    <3> HIDE DEF cut, tail
    <3> QED
      BY <1>1, <3>1, <3>2
  <2>3. slots[i].record_length > len \/ slots[i].record_length = len
    BY <2>1 DEF IsFreeSlotFor
  <2>4. head \in Slot
    <3>1. slots[i] \in Slot /\ len \in 1..PageDataSize
      BY <1>1, PageAssumption
    <3> QED
      BY <3>1 DEF Slot
  <2>5. /\ cut \in Seq(Slot) /\ Len(cut) = Len(slots)
        /\ \A j \in DOMAIN slots : cut[j].record_length \in Nat /\
                                    cut[j].record_length <= slots[j].record_length
    <3>1. cut \in Seq(Slot) /\ Len(cut) = Len(slots)
      <4> HIDE DEF head
      <4> QED
        BY <1>1, <2>4
    <3>2. \A j \in DOMAIN slots : cut[j] = IF j = i THEN head ELSE slots[j]
      <4> HIDE DEF head
      <4> QED
        BY <1>1, <2>4
    <3>3. head.record_length = len
      OBVIOUS
    <3> HIDE DEF cut, head
    <3> QED
      BY <1>1, <2>3, <3>1, <3>2, <3>3
  <2>6. CASE slots[i].record_length > len
    <3>1. tail \in Slot
      BY <1>1, <2>6, SplitParts DEF FitInv
    <3>2. tail.record_length = slots[i].record_length - len
      OBVIOUS
    <3>3. PICK l \in Lengths : slots[i].record_length <= l
      BY <1>2
    <3>4. tail.record_length \in Nat /\ tail.record_length <= l
      BY <1>1, <2>6, <3>2, <3>3
    <3> HIDE DEF tail, cut
    <3> QED
      BY <1>3, <2>2, <2>5, <2>6, <3>1, <3>4
  <2>7. CASE slots[i].record_length = len
    <3>1. PICK l \in Lengths : len <= l
      BY <1>1
    <3>2. head.record_length = len
      OBVIOUS
    <3> HIDE DEF cut, head
    <3>3. Bounded(cut)
      BY <1>1, <1>3, <2>4, <2>5, <3>1, <3>2
    <3> QED
      BY <2>2, <2>7, <3>3
  <2> QED
    BY <2>3, <2>6, <2>7
<1> QED
  BY <1>4, <1>5 DEF InsertRecord

\* With narrow lengths FitInv is inductive.
LEMMA FitInvInductive ==
    ASSUME Narrow PROVE FitInv /\ [Next]_vars => FitInv'
<1> SUFFICES ASSUME FitInv, [Next]_vars
             PROVE  FitInv'
  OBVIOUS
<1>1. PageInv'
  BY PageInvInductive DEF FitInv
<1>2. DirectorySize' = SlotSize * Len(slots')
  BY DEF DirectorySize
<1>3. ASSUME NEW len \in Lengths, NEW v \in Values, InsertRecord(len, v)
      PROVE  FitInv'
  <2>1. disk' = disk
    BY <1>3 DEF InsertRecord
  <2> QED
    BY <1>1, <1>3, <2>1, InsertFits, InsertBounded DEF FitInv, DirectoryFits, Bounded
<1>4. ASSUME NEW i \in DOMAIN slots, NEW len \in Lengths, NEW v \in Values,
             WriteRecord(i, len, v)
      PROVE  FitInv'
  BY <1>1, <1>2, <1>4 DEF WriteRecord, FitInv, DirectoryFits, DirectorySize, Bounded
<1>5. ASSUME NEW i \in DOMAIN slots, DeleteRecord(i)
      PROVE  FitInv'
  <2>1. slots \in Seq(Slot) /\ \A j \in DOMAIN slots : slots[j] \in Slot
    BY DEF FitInv, PageInv, TypeOK
  <2>2. slots' = [slots EXCEPT ![i].deleted = TRUE]
    BY <1>5 DEF DeleteRecord
  <2>3. /\ DOMAIN slots' = DOMAIN slots /\ Len(slots') = Len(slots)
        /\ \A j \in DOMAIN slots : slots'[j].record_length = slots[j].record_length
    BY <2>1, <2>2 DEF Slot
  <2>4. data_offset' = data_offset /\ disk' = disk
    BY <1>5 DEF DeleteRecord
  <2>5. Bounded(slots') /\ Bounded(disk.slots)
    BY <2>3 DEF FitInv, Bounded
  <2> QED
    BY <1>1, <1>2, <2>3, <2>4, <2>5 DEF FitInv, DirectoryFits, DirectorySize
<1>6. CASE Save
  BY <1>1, <1>2, <1>6 DEF Save, memory, FitInv, DirectoryFits, DirectorySize, Bounded
<1>7. CASE Load
  BY <1>1, <1>2, <1>7 DEF Load, FitInv, DirectoryFits, Bounded
<1>8. CASE UNCHANGED vars
  BY <1>1, <1>8 DEF vars, FitInv, DirectoryFits, DirectorySize, Bounded
<1> QED
  BY <1>3, <1>4, <1>5, <1>6, <1>7, <1>8 DEF Next

LEMMA FitInvInit == Init => FitInv
<1> SUFFICES ASSUME Init PROVE FitInv
  OBVIOUS
<1>1. PageInv
  BY PageInvInit
<1>2. PageDataSize \in Nat
  BY PageAssumption
<1> QED
  BY <1>1, <1>2 DEF Init, FitInv, DirectoryFits, DirectorySize, Bounded, SlotSize

\* When no two row lengths of a table differ by a directory entry or more,
\* saving a page never overwrites a row.  With wider lengths it can
\* (run page_reload): the assumption is what the code is missing.
THEOREM NarrowLengthsFit ==
    ASSUME Narrow PROVE Spec => []DirectoryFits
<1>1. FitInv => DirectoryFits
  BY DEF FitInv
<1>2. FitInv /\ [Next]_vars => FitInv'
  BY FitInvInductive
<1> QED
  BY <1>1, <1>2, FitInvInit, PTL DEF Spec

---------------------------------------------------------------------------
(***************************************************************************)
(* A page implements a store of rows under stable slot numbers             *)
(* (SlotStore.tla), for every page size, when no two row lengths differ by *)
(* a directory entry or more.  What makes it so: the extents of two slots  *)
(* never meet, so writing a row leaves the others alone, and the directory *)
(* never reaches the rows, so saving the page does.                        *)
(***************************************************************************)

Working == LiveRows(slots, data)
Saved   == LiveRows(disk.slots, disk.data)

\* An insertion makes one slot or cuts one in two.
Counted(dir, records) ==
    records \in 0..MaxRecords /\ Len(dir) <= 2 * records

StoreInv ==
    /\ FitInv
    /\ Counted(slots, number_of_records)
    /\ Counted(disk.slots, disk.number_of_records)

\* The range of len bytes from start is apart from the slot s.
Apart(s, start, len) ==
    start + len <= s.page_offset \/ s.page_offset + s.record_length <= start

---------------------------------------------------------------------------
(* Rows and bytes. *)

\* The bytes of a slot apart from those overwritten stay.
LEMMA ApartStays ==
    ASSUME PageInv, NEW s \in Slot, s.page_offset + s.record_length <= PageDataSize,
           NEW start \in Nat, NEW len \in Nat, NEW v \in Values, Apart(s, start, len),
           NEW k \in 1..s.record_length
    PROVE  Overwrite(start, len, v)[s.page_offset + k - 1] = data[s.page_offset + k - 1]
<1>1. s.page_offset \in Nat /\ s.record_length \in Nat /\ PageDataSize \in Nat
  BY PageAssumption DEF Slot
<1>2. s.page_offset + k - 1 \in Byte
  BY <1>1 DEF Byte
<1>3. s.page_offset + k - 1 \notin Extent(start, len)
  BY <1>1 DEF Apart, Extent
<1> QED
  BY <1>2, <1>3 DEF Overwrite

\* The bytes overwritten are the row.
LEMMA RowIsThere ==
    ASSUME NEW start \in Nat, NEW len \in Nat, start + len <= PageDataSize, NEW v \in Values,
           NEW dir, NEW i, dir[i].page_offset = start, dir[i].record_length = len
    PROVE  Row(dir, Overwrite(start, len, v), i) = [k \in 1..len |-> v]
<1>1. ASSUME NEW k \in 1..len PROVE Overwrite(start, len, v)[start + k - 1] = v
  <2>1. PageDataSize \in Nat
    BY PageAssumption
  <2>2. start + k - 1 \in Byte /\ start + k - 1 \in Extent(start, len)
    BY <2>1 DEF Byte, Extent
  <2> QED
    BY <2>2 DEF Overwrite
<1> QED
  BY <1>1 DEF Row

\* A row written into slot i of the new directory is there; the others stay.
LEMMA RowPut ==
    ASSUME PageInv, NEW new, NEW i \in DOMAIN new, NEW start \in Nat, NEW len \in Nat, NEW v \in Values,
           NEW row, row = [k \in 1..len |-> v], ~new[i].deleted, new[i].page_offset = start, new[i].record_length = len,
           start + len <= PageDataSize,
           \A j : j \in DOMAIN new /\ ~new[j].deleted <=> j = i \/ (j \in DOMAIN slots /\ ~slots[j].deleted),
           \A j \in DOMAIN slots : j # i /\ ~slots[j].deleted =>
               new[j] = slots[j] /\ Apart(slots[j], start, len)
    PROVE  LiveRows(new, Overwrite(start, len, v)) = Store!With(Working, i, row)
<1> PICK after : after = Overwrite(start, len, v)
  OBVIOUS
<1>1. Row(new, after, i) = row
  BY RowIsThere
<1>2. ASSUME NEW j \in DOMAIN slots, j # i, ~slots[j].deleted
      PROVE  Row(new, after, j) = Row(slots, data, j)
  <2> PICK s : s = slots[j]
    OBVIOUS
  <2>1. s \in Slot /\ new[j] = s /\ Apart(s, start, len)
    BY <1>2 DEF PageInv, TypeOK
  <2>2. s.page_offset + s.record_length <= PageDataSize
    BY DEF PageInv, SlotsDisjoint, Disjoint
  <2>3. \A k \in 1..s.record_length : after[s.page_offset + k - 1] = data[s.page_offset + k - 1]
    BY <2>1, <2>2, ApartStays
  <2> QED
    BY <2>1, <2>3 DEF Row
<1>3. DOMAIN Working = {j \in DOMAIN slots : ~slots[j].deleted}
      /\ \A j \in DOMAIN Working : Working[j] = Row(slots, data, j)
  BY DEF Working, LiveRows
<1>4. \A j \in DOMAIN Working \cup {i} :
          Row(new, after, j) = IF j = i THEN row ELSE Working[j]
  BY <1>1, <1>2, <1>3
<1>5. {j \in DOMAIN new : ~new[j].deleted} = DOMAIN Working \cup {i}
  BY <1>3
<1> QED
  BY <1>4, <1>5 DEF LiveRows, Store!With

\* Two slots are apart.
LEMMA SlotsApart ==
    ASSUME PageInv, NEW i \in DOMAIN slots, NEW j \in DOMAIN slots, i # j,
           NEW len \in Nat, len <= slots[i].record_length
    PROVE  Apart(slots[j], slots[i].page_offset, len)
<1>1. \/ slots[i].page_offset + slots[i].record_length <= slots[j].page_offset
      \/ slots[j].page_offset + slots[j].record_length <= slots[i].page_offset
  BY DEF PageInv, SlotsDisjoint, Disjoint
<1>2. /\ slots[i].page_offset \in Nat /\ slots[i].record_length \in Nat
      /\ slots[j].page_offset \in Nat /\ slots[j].record_length \in Nat
  BY PageNumbers
<1> QED
  BY <1>1, <1>2 DEF Apart

---------------------------------------------------------------------------
(* Operations. *)

\* insert_record gives the row a slot number no row has.
LEMMA InsertMaps ==
    ASSUME PageInv, NEW len \in Lengths, NEW v \in Values,
           InsertIntoDeletedSlot(len, v) \/ InsertIntoFreeArea(len, v)
    PROVE  /\ slots' \in Seq(Slot) /\ Len(slots') <= Len(slots) + 2
           /\ \E i \in DOMAIN slots' : /\ i \notin DOMAIN Working
                                       /\ Working' = Store!With(Working, i, [k \in 1..len |-> v])
<1>1. /\ slots \in Seq(Slot) /\ Len(slots) \in Nat /\ DOMAIN slots = 1..Len(slots)
      /\ \A i \in DOMAIN slots : /\ slots[i] \in Slot
                                 /\ slots[i].record_length \in Nat
                                 /\ slots[i].page_offset \in Nat
      /\ data_offset \in Nat /\ len \in Nat /\ len > 0 /\ PageDataSize \in Nat
  BY PageNumbers, PageAssumption
<1>2. \A i \in DOMAIN slots : /\ data_offset <= slots[i].page_offset
                              /\ slots[i].page_offset + slots[i].record_length <= PageDataSize
  BY DEF PageInv, SlotsDisjoint, Disjoint
<1>3. DOMAIN Working = {j \in DOMAIN slots : ~slots[j].deleted}
  BY DEF Working, LiveRows
<1> PICK row : row = [k \in 1..len |-> v]
  OBVIOUS
<1>4. CASE InsertIntoDeletedSlot(len, v)
  <2>1. slots' \in Seq(Slot)
    BY <1>4, InsertIntoDeletedSlotPreserves
  <2>2. PICK i \in DOMAIN slots : InsertIntoDeletedSlot(len, v)!(i)
    BY <1>4 DEF InsertIntoDeletedSlot
  <2> PICK start, rest : start = slots[i].page_offset /\ rest = slots[i].record_length - len
    OBVIOUS
  <2> PICK head : head = [record_length |-> len, page_offset |-> start, deleted |-> FALSE]
    OBVIOUS
  <2> PICK tail : tail = [record_length |-> rest, page_offset |-> start + len, deleted |-> TRUE]
    OBVIOUS
  <2> PICK cut : cut = [slots EXCEPT ![i] = head]
    OBVIOUS
  <2>3. slots' = (IF rest > 0 THEN Append(cut, tail) ELSE cut) /\ data' = Overwrite(start, len, v)
    BY <2>2
  <2>4. slots[i].deleted /\ len <= slots[i].record_length /\ rest \in Nat /\ start \in Nat
    BY <1>1, <2>2 DEF IsFreeSlotFor
  <2>5. head \in Slot
    <3>1. len \in 1..PageDataSize /\ start \in 0..PageDataSize
      BY <1>1, <1>2, <2>4, PageAssumption, SMTT(30)
    <3> QED
      BY <3>1 DEF Slot
  <2>6. /\ cut \in Seq(Slot) /\ DOMAIN cut = DOMAIN slots /\ Len(cut) = Len(slots)
        /\ \A j \in DOMAIN slots : cut[j] = IF j = i THEN head ELSE slots[j]
    BY <1>1, <2>5
  <2>7. /\ DOMAIN slots \subseteq DOMAIN slots'
        /\ \A j \in DOMAIN slots : slots'[j] = cut[j]
        /\ \A j \in DOMAIN slots' \ DOMAIN slots : slots'[j].deleted
        /\ Len(slots') <= Len(slots) + 2
    <3>1. CASE rest > 0
      <4>1. tail \in Slot
        <5>1. rest \in 1..PageDataSize /\ start + len \in 0..PageDataSize
          BY <1>1, <1>2, <2>4, <3>1, SMTT(30)
        <5> QED
          BY <5>1 DEF Slot
      <4>2. slots' = Append(cut, tail) /\ tail.deleted
        BY <2>3, <3>1
      <4>3. /\ Len(slots') = Len(cut) + 1 /\ DOMAIN slots' = 1..(Len(cut) + 1)
            /\ \A j \in 1..Len(cut) : slots'[j] = cut[j]
            /\ slots'[Len(cut) + 1] = tail
        BY <2>6, <4>1, <4>2, AppendSlot
      <4> QED
        BY <1>1, <2>6, <4>2, <4>3
    <3>2. CASE ~(rest > 0)
      BY <1>1, <2>3, <2>6, <3>2
    <3> QED
      BY <3>1, <3>2
  <2>8. /\ slots'[i] = head /\ \A j \in DOMAIN slots : j # i => slots'[j] = slots[j]
    BY <2>6, <2>7
  <2>9. head.record_length = len /\ head.page_offset = start /\ head.deleted = FALSE
    OBVIOUS
  <2>10. \A j : j \in DOMAIN slots' /\ ~slots'[j].deleted <=> j = i \/ (j \in DOMAIN slots /\ ~slots[j].deleted)
    BY <2>4, <2>7, <2>8, <2>9
  <2>11. \A j \in DOMAIN slots : j # i => Apart(slots[j], start, len)
    BY <1>1, <2>4, SlotsApart
  <2>12. start + len <= PageDataSize
    BY <1>1, <1>2, <2>4
  <2> PICK new : new = slots'
    OBVIOUS
  <2>13. LiveRows(new, Overwrite(start, len, v)) = Store!With(Working, i, row)
    <3>1. i \in DOMAIN new
      BY <2>7
    <3>2. ~new[i].deleted /\ new[i].page_offset = start /\ new[i].record_length = len
      BY <2>8, <2>9
    <3>3. \A j \in DOMAIN slots : j # i /\ ~slots[j].deleted =>
               new[j] = slots[j] /\ Apart(slots[j], start, len)
      BY <2>8, <2>11
    <3>4. \A j : j \in DOMAIN new /\ ~new[j].deleted <=> j = i \/ (j \in DOMAIN slots /\ ~slots[j].deleted)
      BY <2>10
    <3>5. len \in Nat /\ start \in Nat
      BY <1>1, <2>4
    <3> QED
      BY <2>12, <3>1, <3>2, <3>3, <3>4, <3>5, RowPut
  <2> QED
    BY <1>3, <2>1, <2>3, <2>4, <2>7, <2>13 DEF Working
<1>5. CASE InsertIntoFreeArea(len, v)
  <2> PICK i, start : i = Len(slots) + 1 /\ start = data_offset - len
    OBVIOUS
  <2> PICK s : s = [record_length |-> len, page_offset |-> start, deleted |-> FALSE]
    OBVIOUS
  <2>1. slots' = Append(slots, s) /\ data' = Overwrite(start, len, v) /\ len <= data_offset
    BY <1>5 DEF InsertIntoFreeArea
  <2>2. data_offset <= PageDataSize
    BY DEF PageInv, TypeOK
  <2>3. start \in Nat /\ start + len <= PageDataSize /\ start + len = data_offset
    BY <1>1, <2>1, <2>2
  <2>4. s \in Slot /\ s.record_length = len /\ s.page_offset = start /\ s.deleted = FALSE
    <3>1. len \in 1..PageDataSize /\ start \in 0..PageDataSize
      BY <1>1, <2>3, PageAssumption
    <3> QED
      BY <3>1 DEF Slot
  <2> PICK new : new = slots'
    OBVIOUS
  <2>5. /\ new \in Seq(Slot) /\ Len(new) = Len(slots) + 1 /\ DOMAIN new = 1..(Len(slots) + 1)
        /\ \A j \in 1..Len(slots) : new[j] = slots[j]
        /\ new[i] = s
    BY <1>1, <2>1, <2>4, AppendSlot
  <2>6. i \in DOMAIN new /\ i \notin DOMAIN slots /\ DOMAIN new = DOMAIN slots \cup {i}
    BY <1>1, <2>5
  <2>7. \A j : j \in DOMAIN new /\ ~new[j].deleted <=> j = i \/ (j \in DOMAIN slots /\ ~slots[j].deleted)
    BY <1>1, <2>4, <2>5, <2>6
  <2>8. \A j \in DOMAIN slots : new[j] = slots[j] /\ Apart(slots[j], start, len)
    BY <1>1, <1>2, <2>3, <2>5 DEF Apart
  <2>9. LiveRows(new, Overwrite(start, len, v)) = Store!With(Working, i, row)
    <3>1. ~new[i].deleted /\ new[i].page_offset = start /\ new[i].record_length = len
      BY <2>4, <2>5
    <3>2. \A j \in DOMAIN slots : j # i /\ ~slots[j].deleted =>
               new[j] = slots[j] /\ Apart(slots[j], start, len)
      BY <2>8
    <3>3. len \in Nat /\ start \in Nat /\ start + len <= PageDataSize /\ i \in DOMAIN new
      BY <1>1, <2>3, <2>6
    <3> QED
      BY <2>7, <3>1, <3>2, <3>3, RowPut
  <2>10. Working' = LiveRows(new, Overwrite(start, len, v))
    BY <2>1 DEF Working
  <2>11. i \notin DOMAIN Working
    BY <1>3, <2>6
  <2>12. Len(slots') <= Len(slots) + 2 /\ slots' \in Seq(Slot)
    BY <1>1, <2>5
  <2> QED
    BY <2>6, <2>9, <2>10, <2>11, <2>12
<1> QED
  BY <1>4, <1>5

\* write_record replaces the row of the slot, or changes nothing of a row when
\* the slot is flagged as deleted.
LEMMA WriteMaps ==
    ASSUME PageInv, NEW i \in DOMAIN slots, NEW len \in Lengths, NEW v \in Values, WriteRecord(i, len, v)
    PROVE  \/ UNCHANGED Working
           \/ /\ i \in DOMAIN Working /\ Len(Working[i]) = len
              /\ Working' = Store!With(Working, i, [k \in 1..len |-> v])
<1> PICK start : start = slots[i].page_offset
  OBVIOUS
<1> PICK row : row = [k \in 1..len |-> v]
  OBVIOUS
<1>1. /\ slots[i].record_length = len /\ data' = Overwrite(start, len, v) /\ slots' = slots
      /\ slots[i] \in Slot /\ start \in Nat /\ len \in Nat
  BY PageNumbers DEF WriteRecord
<1>2. start + len <= PageDataSize
  BY <1>1 DEF PageInv, SlotsDisjoint, Disjoint
<1>3. \A j \in DOMAIN slots : j # i => Apart(slots[j], start, len)
  BY <1>1, SlotsApart
<1>4. Working' = LiveRows(slots, Overwrite(start, len, v))
  BY <1>1 DEF Working
<1>5. CASE ~slots[i].deleted
  <2>1. Working' = Store!With(Working, i, row)
    <3>1. \A j : j \in DOMAIN slots /\ ~slots[j].deleted <=> j = i \/ (j \in DOMAIN slots /\ ~slots[j].deleted)
      BY <1>5
    <3>2. \A j \in DOMAIN slots : j # i /\ ~slots[j].deleted =>
              slots[j] = slots[j] /\ Apart(slots[j], start, len)
      BY <1>3
    <3> QED
      BY <1>1, <1>2, <1>4, <1>5, <3>1, <3>2, RowPut
  <2>2. i \in DOMAIN Working /\ Working[i] = [k \in 1..len |-> data[start + k - 1]]
    BY <1>1, <1>5 DEF Working, LiveRows, Row
  <2>3. Len(Working[i]) = len
    BY <1>1, <2>2
  <2> QED
    BY <2>1, <2>2, <2>3
<1>6. CASE slots[i].deleted
  <2>1. ASSUME NEW j \in DOMAIN slots, ~slots[j].deleted
        PROVE  Row(slots, Overwrite(start, len, v), j) = Row(slots, data, j)
    <3> PICK s : s = slots[j]
      OBVIOUS
    <3>1. s \in Slot /\ Apart(s, start, len)
      BY <1>3, <1>6, <2>1, PageNumbers
    <3>2. s.page_offset + s.record_length <= PageDataSize
      BY DEF PageInv, SlotsDisjoint, Disjoint
    <3>3. \A k \in 1..s.record_length :
              Overwrite(start, len, v)[s.page_offset + k - 1] = data[s.page_offset + k - 1]
      BY <1>1, <3>1, <3>2, ApartStays
    <3> QED
      BY <3>3 DEF Row
  <2> QED
    BY <1>4, <2>1 DEF Working, LiveRows
<1> QED
  BY <1>5, <1>6

\* delete_record takes the row out, or changes nothing when there is none.
LEMMA DeleteMaps ==
    ASSUME PageInv, NEW i \in DOMAIN slots, DeleteRecord(i)
    PROVE  \/ UNCHANGED Working
           \/ i \in DOMAIN Working /\ Working' = Store!Without(Working, i)
<1>1. slots' = [slots EXCEPT ![i].deleted = TRUE] /\ data' = data
  BY DEF DeleteRecord
<1>2. slots \in Seq(Slot) /\ \A j \in DOMAIN slots : slots[j] \in Slot
  BY PageNumbers
<1>3. /\ DOMAIN slots' = DOMAIN slots /\ slots'[i].deleted
      /\ \A j \in DOMAIN slots : j # i => slots'[j] = slots[j]
  BY <1>1, <1>2 DEF Slot
<1>4. {j \in DOMAIN slots' : ~slots'[j].deleted} = DOMAIN Working \ {i}
  BY <1>3 DEF Working, LiveRows
<1>5. \A j \in DOMAIN Working \ {i} : Row(slots', data', j) = Working[j]
  BY <1>1, <1>3 DEF Working, LiveRows, Row
<1>6. Working' = [j \in DOMAIN Working \ {i} |-> Working[j]]
  BY <1>4, <1>5 DEF Working, LiveRows
<1>7. CASE i \in DOMAIN Working
  BY <1>6, <1>7 DEF Store!Without
<1>8. CASE i \notin DOMAIN Working
  <2>1. DOMAIN Working \ {i} = DOMAIN Working
    BY <1>8
  <2>2. Working = [j \in DOMAIN Working |-> Working[j]]
    BY DEF Working, LiveRows
  <2> QED
    BY <1>6, <2>1, <2>2
<1> QED
  BY <1>7, <1>8

\* The directory is written over bytes that belong to no row.
LEMMA SaveMaps ==
    ASSUME PageInv, DirectorySize <= data_offset, Save
    PROVE  Saved' = Working /\ UNCHANGED Working
<1> PICK bytes : bytes = [b \in Byte |-> IF b < DirectorySize THEN Blank ELSE data[b]]
  OBVIOUS
<1>1. disk'.slots = slots /\ disk'.data = bytes /\ slots' = slots /\ data' = data
  BY DEF Save, memory
<1>2. ASSUME NEW j \in DOMAIN slots PROVE Row(slots, bytes, j) = Row(slots, data, j)
  <2> PICK s : s = slots[j]
    OBVIOUS
  <2>1. /\ data_offset <= s.page_offset /\ s.page_offset + s.record_length <= PageDataSize
    BY DEF PageInv, SlotsDisjoint, Disjoint
  <2>2. /\ s.page_offset \in Nat /\ s.record_length \in Nat /\ data_offset \in Nat
        /\ DirectorySize \in Nat /\ PageDataSize \in Nat
    BY PageNumbers, PageAssumption
  <2>3. ASSUME NEW k \in 1..s.record_length
        PROVE  bytes[s.page_offset + k - 1] = data[s.page_offset + k - 1]
    <3> PICK b : b = s.page_offset + k - 1
      OBVIOUS
    <3>1. b \in Byte /\ ~(b < DirectorySize)
      BY <2>1, <2>2 DEF Byte
    <3> QED
      BY <3>1
  <2> QED
    BY <2>3 DEF Row
<1>3. LiveRows(slots, bytes) = LiveRows(slots, data)
  BY <1>2 DEF LiveRows
<1> QED
  BY <1>1, <1>3 DEF Working, Saved

---------------------------------------------------------------------------
(* The refinement. *)

LEMMA StoreInvInit == Init => StoreInv
<1> SUFFICES ASSUME Init PROVE StoreInv
  OBVIOUS
<1>1. FitInv
  BY FitInvInit
<1>2. Counted(<< >>, 0)
  BY PageAssumption DEF Counted
<1> QED
  BY <1>1, <1>2 DEF StoreInv, Init

LEMMA StoreInvInductive ==
    ASSUME Narrow PROVE StoreInv /\ [Next]_vars => StoreInv'
<1> SUFFICES ASSUME StoreInv, [Next]_vars PROVE StoreInv'
  OBVIOUS
<1>1. FitInv' /\ PageInv /\ slots \in Seq(Slot)
  BY FitInvInductive DEF StoreInv, FitInv, PageInv, TypeOK
<1>2. ASSUME NEW len \in Lengths, NEW v \in Values, InsertRecord(len, v) PROVE StoreInv'
  <2>1. slots' \in Seq(Slot) /\ Len(slots') <= Len(slots) + 2
    BY <1>1, <1>2, InsertMaps DEF InsertRecord
  <2>2. number_of_records < MaxRecords /\ number_of_records' = number_of_records + 1 /\ disk' = disk
    BY <1>2 DEF InsertRecord
  <2>3. Len(slots) \in Nat /\ Len(slots') \in Nat /\ MaxRecords \in Nat
    BY <1>1, <2>1, PageAssumption
  <2> QED
    BY <1>1, <2>1, <2>2, <2>3 DEF StoreInv, Counted
<1>3. ASSUME NEW i \in DOMAIN slots, NEW len \in Lengths, NEW v \in Values, WriteRecord(i, len, v)
      PROVE  StoreInv'
  BY <1>1, <1>3 DEF WriteRecord, StoreInv, Counted
<1>4. ASSUME NEW i \in DOMAIN slots, DeleteRecord(i) PROVE StoreInv'
  <2>1. slots' = [slots EXCEPT ![i].deleted = TRUE] /\ UNCHANGED <<number_of_records, disk>>
    BY <1>4 DEF DeleteRecord
  <2>2. Len(slots') = Len(slots)
    BY <1>1, <2>1
  <2> QED
    BY <1>1, <2>1, <2>2 DEF StoreInv, Counted
<1>5. CASE Save
  BY <1>1, <1>5 DEF Save, memory, StoreInv, Counted
<1>6. CASE Load
  BY <1>1, <1>6 DEF Load, StoreInv, Counted
<1>7. CASE UNCHANGED vars
  BY <1>1, <1>7 DEF vars, StoreInv, Counted
<1> QED
  BY <1>2, <1>3, <1>4, <1>5, <1>6, <1>7 DEF Next

\* A step of the page is a step of the store, or one the store does not see.
LEMMA StepMaps == StoreInv /\ [Next]_vars => [Store!Next]_Store!vars
<1> SUFFICES ASSUME StoreInv, [Next]_vars PROVE Store!Next \/ UNCHANGED <<Working, Saved>>
  BY DEF Store!vars, Working, Saved
<1>1. /\ PageInv /\ slots \in Seq(Slot) /\ Len(slots) \in Nat /\ DOMAIN slots = 1..Len(slots)
      /\ DirectorySize <= data_offset /\ number_of_records \in 0..MaxRecords
      /\ Len(slots) <= 2 * number_of_records /\ MaxRecords \in Nat
  BY PageAssumption DEF StoreInv, FitInv, PageInv, TypeOK, DirectoryFits, Counted
<1>2. DOMAIN Working \subseteq DOMAIN slots
  BY DEF Working, LiveRows
<1>3. ASSUME NEW len \in Lengths, NEW v \in Values, InsertRecord(len, v) PROVE Store!Next
  <2>1. /\ number_of_records < MaxRecords /\ disk' = disk
        /\ InsertIntoDeletedSlot(len, v) \/ InsertIntoFreeArea(len, v)
    BY <1>3 DEF InsertRecord
  <2> PICK row : row = [k \in 1..len |-> v]
    OBVIOUS
  <2>2. slots' \in Seq(Slot) /\ Len(slots') <= Len(slots) + 2
    BY <1>1, <2>1, InsertMaps
  <2>3. PICK i \in DOMAIN slots' : i \notin DOMAIN Working /\ Working' = Store!With(Working, i, row)
    BY <1>1, <2>1, InsertMaps
  <2>4. i \in 1..(2 * MaxRecords)
    BY <1>1, <2>1, <2>2
  <2>5. row \in {[k \in 1..l |-> w] : l \in Lengths, w \in Values}
    OBVIOUS
  <2>6. Saved' = Saved
    BY <2>1 DEF Saved
  <2> QED
    BY <2>3, <2>4, <2>5, <2>6 DEF Store!Next, Store!Insert, Working, Saved
<1>4. ASSUME NEW i \in DOMAIN slots, NEW len \in Lengths, NEW v \in Values, WriteRecord(i, len, v)
      PROVE  Store!Next \/ UNCHANGED <<Working, Saved>>
  <2> PICK row : row = [k \in 1..len |-> v]
    OBVIOUS
  <2>1. Saved' = Saved
    BY <1>4 DEF WriteRecord, Saved
  <2>2. \/ UNCHANGED Working
        \/ i \in DOMAIN Working /\ Len(Working[i]) = len /\ Working' = Store!With(Working, i, row)
    BY <1>1, <1>4, WriteMaps
  <2>3. i \in 1..(2 * MaxRecords)
    BY <1>1
  <2>4. row \in {[k \in 1..l |-> w] : l \in Lengths, w \in Values} /\ Len(row) = len
    BY PageAssumption
  <2> QED
    BY <2>1, <2>2, <2>3, <2>4 DEF Store!Next, Store!Replace, Working, Saved
<1>5. ASSUME NEW i \in DOMAIN slots, DeleteRecord(i)
      PROVE  Store!Next \/ UNCHANGED <<Working, Saved>>
  <2>1. Saved' = Saved
    BY <1>5 DEF DeleteRecord, Saved
  <2>2. UNCHANGED Working \/ (i \in DOMAIN Working /\ Working' = Store!Without(Working, i))
    BY <1>1, <1>5, DeleteMaps
  <2>3. i \in 1..(2 * MaxRecords)
    BY <1>1
  <2> QED
    BY <2>1, <2>2, <2>3 DEF Store!Next, Store!Remove, Working, Saved
<1>6. CASE Save
  <2>1. Saved' = Working /\ UNCHANGED Working
    BY <1>1, <1>6, SaveMaps
  <2> QED
    BY <2>1 DEF Store!Next, Store!Commit, Working, Saved
<1>7. CASE Load
  <2>1. Working' = Saved /\ UNCHANGED Saved
    BY <1>7 DEF Load, Working, Saved
  <2> QED
    BY <2>1 DEF Store!Next, Store!Revert, Working, Saved
<1>8. CASE UNCHANGED vars
  BY <1>8 DEF vars, Working, Saved
<1> QED
  BY <1>3, <1>4, <1>5, <1>6, <1>7, <1>8 DEF Next

\* With narrow lengths a row stays under its slot number, with the contents
\* written last, until it is deleted, in memory and over saving and reading.
THEOREM NarrowPageIsSlotStore ==
    ASSUME Narrow PROVE Spec => ImplementsSlotStore
<1>1. Init => Store!Init
  <2> SUFFICES ASSUME slots = << >>, disk.slots = << >> PROVE Working = << >> /\ Saved = << >>
    BY DEF Init, Store!Init, Working, Saved
  <2>1. DOMAIN << >> = {}
    OBVIOUS
  <2>2. {j \in DOMAIN << >> : ~<< >>[j].deleted} = {}
    BY <2>1
  <2> QED
    BY <2>2 DEF Working, Saved, LiveRows
<1>2. StoreInv /\ [Next]_vars => StoreInv'
  BY StoreInvInductive
<1>3. StoreInv /\ [Next]_vars => [Store!Next]_Store!vars
  BY StepMaps
<1> QED
  BY <1>1, <1>2, <1>3, StoreInvInit, PTL DEF Spec, ImplementsSlotStore, Store!Spec
=============================================================================
