------------------------------ MODULE HeapPage ------------------------------
(***************************************************************************)
(* The slot directory of a heap page (src/data/page.rs) as a value, for    *)
(* the modules that are about many pages.  Page has the bytes and what can *)
(* go wrong with them.                                                     *)
(*                                                                         *)
(* A slot is a record with a length, a deleted flag and whatever else the  *)
(* module keeps of the row.  Slots count from 1 here, from 0 in the code.  *)
(***************************************************************************)
EXTENDS Integers, SequencesExt, FiniteSetsExt

CONSTANTS
    PageDataSize,   \* bytes of a page after its header
    AddressSpace    \* the range of usize

ASSUME HeapPageAssumption ==
    /\ PageDataSize \in Nat
    /\ AddressSpace \in Nat /\ AddressSpace > PageDataSize

SlotSize == 7

\* max_tupel_size
MaxTuple == PageDataSize - SlotSize

SumOfLengths(p) ==
    LET sum[i \in 0..Len(p)] == IF i = 0 THEN 0 ELSE sum[i - 1] + p[i].length
    IN sum[Len(p)]

Deleted(p) == {i \in DOMAIN p : p[i].deleted}

\* max_available_space; the difference is a usize.
MaxAvailableSpace(p) ==
    Max({(PageDataSize - SumOfLengths(p) - SlotSize * Len(p)) % AddressSpace}
            \cup {p[i].length : i \in Deleted(p)})

\* Wrong: the new directory entry is forgotten.
CanInsertWithoutEntry(p, len) ==
    len <= MaxAvailableSpace(p)

\* can_insert
CanInsert(p, len) ==
    \/ \E i \in Deleted(p) : p[i].length = len
    \/ len + SlotSize <= MaxAvailableSpace(p)

\* Wrong: of several deleted slots of this length the last is taken.
SlotForLast(p, len) ==
    LET exact  == {i \in Deleted(p) : p[i].length = len}
        longer == {i \in Deleted(p) : p[i].length > len}
    IN IF exact # {} THEN Max(exact) ELSE IF longer # {} THEN Min(longer) ELSE Len(p) + 1

\* The slot of a new row: find_free_slot_index, the first deleted slot of this
\* length, or else the first longer one, or else a new slot at the end.
SlotFor(p, len) ==
    LET exact  == {i \in Deleted(p) : p[i].length = len}
        longer == {i \in Deleted(p) : p[i].length > len}
    IN IF exact # {} THEN Min(exact) ELSE IF longer # {} THEN Min(longer) ELSE Len(p) + 1

\* Wrong: a slot of the exact length is split as well.
WithRecordSplit(p, live) ==
    LET i == SlotFor(p, live.length) IN
    IF i > Len(p) THEN Append(p, live)
    ELSE Append([p EXCEPT ![i] = live], [p[i] EXCEPT !.length = @ - live.length])

\* Wrong: the directory is kept in the order of the bytes, the free area first.
WithRecordSorted(p, live) ==
    LET i == SlotFor(p, live.length) IN
    IF i > Len(p) THEN <<live>> \o p
    ELSE IF p[i].length = live.length THEN [p EXCEPT ![i] = live]
    ELSE Append([p EXCEPT ![i] = live], [p[i] EXCEPT !.length = @ - live.length])

\* insert_record; the rest of a longer slot becomes a deleted slot.
WithRecord(p, live) ==
    LET i == SlotFor(p, live.length) IN
    IF i > Len(p) THEN Append(p, live)
    ELSE IF p[i].length = live.length THEN [p EXCEPT ![i] = live]
    ELSE Append([p EXCEPT ![i] = live], [p[i] EXCEPT !.length = @ - live.length])

\* delete_record
WithoutRecord(p, i) == [p EXCEPT ![i].deleted = TRUE]

=============================================================================
