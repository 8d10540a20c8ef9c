------------------------------- MODULE Page -------------------------------
(***************************************************************************)
(* One slotted heap page (src/data/page.rs).                               *)
(*                                                                         *)
(* The slot directory grows upwards from byte 0 of the data area, the row  *)
(* bytes grow downwards from its end.  Deleting a record only flags its    *)
(* slot; a later insert may reuse the flagged slot, and when the new       *)
(* record is shorter the rest of the bytes becomes one more flagged slot.  *)
(* In memory the directory is a vector beside the bytes; only serialize    *)
(* writes it over the front of the data area.                              *)
(*                                                                         *)
(* A slot is named by its position in the directory, counted from 1 here   *)
(* (record_index of the code is the position minus 1).                     *)
(***************************************************************************)
EXTENDS Integers, Sequences

CONSTANTS
    PageDataSize,   \* bytes of a page after its header
    Lengths,        \* the row lengths a client stores
    Values,         \* row contents
    Blank,          \* a byte never written, or written by no row
    AddressSpace,   \* the range of usize, where a release build wraps around
    MaxRecords      \* bound of the model on number_of_records

\* A row has at least one byte and fits into an empty page.
ASSUME PageAssumption ==
    /\ PageDataSize \in Nat
    /\ Lengths \subseteq 1..PageDataSize
    /\ Blank \notin Values
    /\ AddressSpace \in Nat
    /\ AddressSpace > 2 * PageDataSize
    /\ MaxRecords \in Nat

SlotSize == 7       \* 1 byte deleted flag, 4 bytes offset, 2 bytes length

VARIABLES
    slots,              \* the slot directory
    data_offset,        \* first byte used by a row
    number_of_records,
    data,               \* the data area, byte by byte
    disk                \* the page image written last

memory == <<slots, data_offset, number_of_records, data>>
vars   == <<slots, data_offset, number_of_records, data, disk>>

Byte  == 0..(PageDataSize - 1)
Slot  == [record_length : 1..PageDataSize,
          page_offset   : 0..PageDataSize,
          deleted       : BOOLEAN]
Image == [slots             : Seq(Slot),
          data_offset       : 0..PageDataSize,
          number_of_records : Nat,
          data              : [Byte -> Values \cup {Blank}]]

\* The bytes a slot owns, and those a range of len bytes from start covers.
Extent(start, len) == start..(start + len - 1)
SlotExtent(i)      == Extent(slots[i].page_offset, slots[i].record_length)

DirectorySize == SlotSize * Len(slots)

Init ==
    /\ slots = << >>
    /\ data_offset = PageDataSize
    /\ number_of_records = 0
    /\ data = [b \in Byte |-> Blank]
    /\ disk = [slots |-> << >>, data_offset |-> PageDataSize,
               number_of_records |-> 0, data |-> [b \in Byte |-> Blank]]

---------------------------------------------------------------------------
(* Free space. *)

\* page_data_size - row_data_size - slot_size, a usize: when the directory has
\* outgrown the free area the subtraction wraps around.
AllocatedSpace ==
    IF DirectorySize <= data_offset
    THEN data_offset - DirectorySize
    ELSE AddressSpace - (DirectorySize - data_offset)

\* find_free_slot_index would return i: the first deleted slot of exactly len
\* bytes or, if there is none, the first deleted slot that is longer.
IsFreeSlotFor(i, len) ==
    /\ i \in DOMAIN slots
    /\ slots[i].deleted
    /\ \/ /\ slots[i].record_length = len
          /\ \A j \in 1..(i - 1) :
                ~(slots[j].deleted /\ slots[j].record_length = len)
       \/ /\ slots[i].record_length > len
          /\ \A j \in DOMAIN slots :
                slots[j].deleted => slots[j].record_length # len
          /\ \A j \in 1..(i - 1) :
                slots[j].deleted => slots[j].record_length < len

\* find_free_slot_index would return None.
NoFreeSlotFor(len) ==
    \A i \in DOMAIN slots : slots[i].deleted => slots[i].record_length < len

\* Wrong: the new directory entry is forgotten.
CanInsertWithoutEntry(len) ==
    \/ \E i \in DOMAIN slots : slots[i].deleted /\ slots[i].record_length >= len
    \/ len <= AllocatedSpace

\* A deleted slot of exactly this length, or len bytes and one directory entry
\* within max_available_space, which is the larger of the allocated space and
\* the longest deleted slot.
CanInsert(len) ==
    \/ \E i \in DOMAIN slots : slots[i].deleted /\ slots[i].record_length = len
    \/ len + SlotSize <= AllocatedSpace
    \/ \E i \in DOMAIN slots :
          slots[i].deleted /\ len + SlotSize <= slots[i].record_length

Overwrite(start, len, v) ==
    [b \in Byte |-> IF b \in Extent(start, len) THEN v ELSE data[b]]

---------------------------------------------------------------------------
(* Operations. *)

\* Wrong: what is left of the slot starts where the slot started.
SplitFromStart(len, v) ==
    \E i \in DOMAIN slots :
        /\ IsFreeSlotFor(i, len)
        /\ LET rest == slots[i].record_length - len
               reused == [slots EXCEPT ![i].record_length = len, ![i].deleted = FALSE]
           IN slots' = IF rest > 0
                       THEN Append(reused, [slots[i] EXCEPT !.record_length = rest])
                       ELSE reused
        /\ data' = Overwrite(slots[i].page_offset, len, v)
        /\ UNCHANGED data_offset

\* Wrong: a slot of the exact length is split as well.
SplitAlways(len, v) ==
    \E i \in DOMAIN slots :
        /\ IsFreeSlotFor(i, len)
        /\ slots' = Append([slots EXCEPT ![i].record_length = len, ![i].deleted = FALSE],
                           [record_length |-> slots[i].record_length - len,
                            page_offset   |-> slots[i].page_offset + len,
                            deleted       |-> TRUE])
        /\ data' = Overwrite(slots[i].page_offset, len, v)
        /\ UNCHANGED data_offset

\* insert_record into a deleted slot; what is left of a longer slot is
\* appended to the directory as a deleted slot, whether or not the directory
\* still has room for it.
InsertIntoDeletedSlot(len, v) ==
    \E i \in DOMAIN slots :
        /\ IsFreeSlotFor(i, len)
        /\ LET start   == slots[i].page_offset
               rest    == slots[i].record_length - len
               reused  == [slots EXCEPT ![i] = [record_length |-> len,
                                                page_offset   |-> start,
                                                deleted       |-> FALSE]]
           IN  /\ slots' = IF rest > 0
                           THEN Append(reused, [record_length |-> rest,
                                                page_offset   |-> start + len,
                                                deleted       |-> TRUE])
                           ELSE reused
               /\ data' = Overwrite(start, len, v)
        /\ UNCHANGED data_offset

\* insert_record into the free area, below the rows.  The subtraction panics
\* when the row is longer than what is below data_offset.
InsertIntoFreeArea(len, v) ==
    /\ NoFreeSlotFor(len)
    /\ len <= data_offset
    /\ slots' = Append(slots, [record_length |-> len,
                               page_offset   |-> data_offset - len,
                               deleted       |-> FALSE])
    /\ data_offset' = data_offset - len
    /\ data' = Overwrite(data_offset - len, len, v)

\* insert_record.  number_of_records counts insertions; delete_record does not
\* take it back.
InsertRecord(len, v) ==
    /\ number_of_records < MaxRecords
    /\ CanInsert(len)
    /\ InsertIntoDeletedSlot(len, v) \/ InsertIntoFreeArea(len, v)
    /\ number_of_records' = number_of_records + 1
    /\ UNCHANGED disk

\* Wrong: the length is not compared.
WriteAnyLength(i, len, v) ==
    /\ data' = Overwrite(slots[i].page_offset, len, v)
    /\ UNCHANGED <<slots, data_offset, number_of_records, disk>>

\* write_record: in place, only when the length is the same.  The flag of the
\* slot is not looked at.
WriteRecord(i, len, v) ==
    /\ slots[i].record_length = len
    /\ data' = Overwrite(slots[i].page_offset, len, v)
    /\ UNCHANGED <<slots, data_offset, number_of_records, disk>>

\* delete_record: flags the slot, also one that is flagged already.
DeleteRecord(i) ==
    /\ slots' = [slots EXCEPT ![i].deleted = TRUE]
    /\ UNCHANGED <<data_offset, number_of_records, data, disk>>

\* serialize, and the caller writes the image: the directory goes over the
\* first bytes of the data area.  It panics when the directory does not fit
\* into the page at all.
Save ==
    /\ DirectorySize <= PageDataSize
    /\ disk' = [slots             |-> slots,
                data_offset       |-> data_offset,
                number_of_records |-> number_of_records,
                data              |-> [b \in Byte |-> IF b < DirectorySize
                                                      THEN Blank ELSE data[b]]]
    /\ UNCHANGED memory

\* The page is read again and deserialized; changes not saved are forgotten.
Load ==
    /\ slots'             = disk.slots
    /\ data_offset'       = disk.data_offset
    /\ number_of_records' = disk.number_of_records
    /\ data'              = disk.data
    /\ UNCHANGED disk

Next ==
    \/ \E len \in Lengths, v \in Values : InsertRecord(len, v)
    \/ \E i \in DOMAIN slots, len \in Lengths, v \in Values : WriteRecord(i, len, v)
    \/ \E i \in DOMAIN slots : DeleteRecord(i)
    \/ Save
    \/ Load

Spec == Init /\ [][Next]_vars

---------------------------------------------------------------------------
(* Properties. *)

\* Every variable has its type: slots, offsets and bytes stay within the page.
TypeOK ==
    /\ slots \in Seq(Slot)
    /\ data_offset \in 0..PageDataSize
    /\ number_of_records \in Nat
    /\ data \in [Byte -> Values \cup {Blank}]
    /\ disk \in Image

\* The slots of a directory lie between the free area and the end of the page,
\* and no byte belongs to two of them.
Disjoint(dir, free_end) ==
    /\ \A i \in DOMAIN dir :
          /\ free_end <= dir[i].page_offset
          /\ dir[i].page_offset + dir[i].record_length <= PageDataSize
    /\ \A i, j \in DOMAIN dir :
          i # j => \/ dir[i].page_offset + dir[i].record_length
                         <= dir[j].page_offset
                   \/ dir[j].page_offset + dir[j].record_length
                         <= dir[i].page_offset

\* However slots are deleted, reused and split (insert_record 440-470), no
\* byte ever belongs to two slots and none lies in the free area; the same
\* holds of the image on disk.
SlotsDisjoint ==
    /\ Disjoint(slots, data_offset)
    /\ Disjoint(disk.slots, disk.data_offset)

\* Taking space from the free area (insert_record 456-465) never makes the
\* directory run into the rows: that path is only reached when the free area,
\* not a deleted slot, was what can_insert found large enough.
FreeAreaInsertFits ==
    [][\/ Load
       \/ DirectorySize <= data_offset /\ data_offset' < data_offset
              => DirectorySize' <= data_offset']_vars

\* The directory never covers a byte of a row, so that serialize
\* (page.rs 530-548) overwrites free bytes only.
DirectoryFits ==
    /\ DirectorySize <= data_offset
    /\ SlotSize * Len(disk.slots) <= disk.data_offset

\* What a slot reads as (read_slot 325-330): its bytes, or nothing if deleted.
Row(dir, bytes, i) ==
    [k \in 1..dir[i].record_length |-> bytes[dir[i].page_offset + k - 1]]
LiveRows(dir, bytes) ==
    [i \in {j \in DOMAIN dir : ~dir[j].deleted} |-> Row(dir, bytes, i)]

\* A page written and read again has the rows it had (serialize, deserialize).
SavedRowsAreRows ==
    [][disk' # disk => LiveRows(disk'.slots, disk'.data) = LiveRows(slots, data)]_vars

\* The page implements a store of rows under stable slot numbers.
Store == INSTANCE SlotStore WITH
            Positions <- 1..(2 * MaxRecords),
            Rows      <- {[k \in 1..len |-> v] : len \in Lengths, v \in Values},
            working   <- LiveRows(slots, data),
            saved     <- LiveRows(disk.slots, disk.data)

ImplementsSlotStore == Store!Spec

=============================================================================
