------------------------------- MODULE Table -------------------------------
(***************************************************************************)
(* TableAccess (src/database/table_access.rs): a table's heap pages and    *)
(* its unique indexes, kept in step by insert, update and delete.          *)
(*                                                                         *)
(* An index is the map that UniqueIndex promises, from a value to the page *)
(* and slot of its row.  Of the free space map it is used that it leads to *)
(* a page with as many bytes as the row has (FoundPageHasBytes of Fsm), or *)
(* to a new page; which one is left open.  Whether the entry in the        *)
(* directory fits as well is not for the map to say.  Files can be read    *)
(* and written.                                                            *)
(***************************************************************************)
EXTENDS HeapPage, Rows, Functions

CONSTANTS
    Schema,     \* the columns of the table
    Candidates, \* the rows clients try to insert
    Indexed,    \* the columns with a unique index, by their places in Schema
    Queries,    \* what clients look for with find_all, find and filter: sets of rows
    Changes,    \* what they set: functions from some columns to cells
    NoRow,      \* the row of a deleted slot, whose bytes are not looked at again
    MaxPages    \* bound of the model: heap pages

\* What can be in the table, and the bytes of it.
Rows      == {row \in Candidates : Validate(row, Schema) = "ok"}
RowLength == [row \in Rows |-> Len(Serialize(row))]

\* The Varchar columns.
VarSized == {col \in DOMAIN Schema : Schema[col].col_type.raw = "Varchar"}

\* A row with the new values of the columns that are set, and whether their types
\* are those of the columns.
Updated(row, change) ==
    [col \in DOMAIN row |-> IF col \in DOMAIN change THEN change[col] ELSE row[col]]
TypesFit(change) == \A col \in DOMAIN change : IsOfType(change[col], Schema[col].col_type)

\* Clients set no Varchar that is too long: update does not see it.
ASSUME TableAssumption ==
    /\ RowLength \in [Rows -> 1..MaxTuple]
    /\ Indexed \subseteq DOMAIN Schema \ VarSized
    /\ Queries \subseteq SUBSET Rows
    /\ \A change \in Changes : \A col \in DOMAIN change :
          col \in DOMAIN Schema /\ ~IsTooLong(change[col], Schema[col].col_type)
    /\ \A row \in Rows, change \in Changes : TypesFit(change) => Updated(row, change) \in Rows
    /\ NoRow \notin Rows
    /\ MaxPages \in Nat

\* A schema and rows as the program has them: an Int, a Varchar with its bytes, of
\* which a u16 counts how many there may be, or a Byte.
ASSUME SchemaAssumption ==
    /\ IsASequence(Schema)
    /\ \A col \in DOMAIN Schema :
          /\ Schema[col].col_type.raw \in {"Int", "Varchar", "Byte"}
          /\ Schema[col].col_type.length \in 0..(Base * Base - 1)
    /\ \A row \in Candidates :
          IsASequence(row) /\ \A i \in DOMAIN row : IsACell(row[i])

VARIABLES
    heap,       \* the pages, each its slot directory with the rows
    index,      \* for each indexed column, its entries
    call,       \* the last operation
    reply       \* and what it returned

vars == <<heap, index, call, reply>>

PageIds(h) == 1..Len(h)

\* The pages of the file with page id written.
Written(h, id, p) == IF id \in PageIds(h) THEN [h EXCEPT ![id] = p] ELSE Append(h, p)

Live(row) == [row |-> row, length |-> RowLength[row], deleted |-> FALSE]

\* delete_record
Emptied(p, i) == [WithoutRecord(p, i) EXCEPT ![i].row = NoRow]

---------------------------------------------------------------------------
(* Queries: the records found, with the slot number their Record carries. *)

\* find_all, and find on a column without index
Scan(query) ==
    UNION {{[page |-> id, slot |-> i, row |-> heap[id][i].row] :
                i \in {i \in DOMAIN heap[id] : heap[id][i].row \in query}} :
              id \in PageIds(heap)}

\* find on an indexed column: RecordIterator::from_slots keeps the one slot it
\* is asked for and numbers it as the first.
Lookup(col, value) ==
    {[page |-> at.page, slot |-> 1, row |-> heap[at.page][at.slot].row] :
        at \in {at \in {index[col][v] : v \in DOMAIN index[col] \cap {value}} :
                  at.slot \in DOMAIN heap[at.page] /\ ~heap[at.page][at.slot].deleted}}

\* The rows of all pages, in the order in which they are read, without the slots
\* that hold none, and what is kept of them.
FindAll ==
    LET Read(p) == Only([i \in DOMAIN p |-> p[i].row], Rows)
    IN [schema |-> Schema, rows |-> FlattenSeq([id \in PageIds(heap) |-> Read(heap[id])])]

Result(query) == Filter(FindAll, query)

RowsWith(col, value) == {row \in Rows : row[col] = value}

---------------------------------------------------------------------------
(* Indexes *)

\* What update_index does, column by column, to the entries for the row at this
\* address: old, or NoRow, has the values to delete and new those to insert.
\* turn says in which order the columns come.  The first value that is there
\* already ends it, its own old value deleted; what was done before stays.
UpdateIndex(entries, cols, turn, old, new, address) ==
    LET Without(col) == IF old = NoRow THEN entries[col]
                        ELSE Restrict(entries[col], DOMAIN entries[col] \ {old[col]})
        With(col)    == [v \in DOMAIN Without(col) \cup {new[col]} |->
                            IF v = new[col] THEN address ELSE Without(col)[v]]
        refused      == {col \in cols : new[col] \in DOMAIN Without(col)}
    IN [ok    |-> refused = {},
        index |-> [col \in Indexed |->
            IF col \notin cols THEN entries[col]
            ELSE IF \A at \in refused : turn[col] < turn[at] THEN With(col)
            ELSE IF \A at \in refused : turn[col] <= turn[at] THEN Without(col)
            ELSE entries[col]]]

\* Any order, as that of a hash map, and the order of the schema.
Turns        == {turn \in [Indexed -> Indexed] : IsInjective(turn)}
InSchemaTurn == [col \in Indexed |-> col]

---------------------------------------------------------------------------
(* raw_insert.  The page is written after the indexes, and not at all when they *)
(* refuse the row; a new page was allocated by then.                            *)

\* The pages find_available_page can come back with: it asks for the bytes of the
\* row, not for the entry in the directory.
FindAvailablePage(h, len) ==
    {id \in PageIds(h) : len <= MaxAvailableSpace(h[id])} \cup {Len(h) + 1}

\* Wrong: the page is written before the indexes have accepted the row.
RawInsertIntoPageFirst(st, row, cols, turn, old, id) ==
    LET page == IF id \in PageIds(st.heap) THEN st.heap[id] ELSE << >>
        done == UpdateIndex(st.index, cols, turn, old, row,
                            [page |-> id, slot |-> SlotFor(page, RowLength[row])])
    IN IF ~CanInsert(page, RowLength[row]) THEN [st EXCEPT !.reply = "critical"]
       ELSE [st EXCEPT !.heap  = Written(@, id, WithRecord(page, Live(row))),
                       !.index = done.index,
                       !.reply = IF done.ok THEN "ok" ELSE "duplicate"]

\* "Critical: FSM returned page with too little space" comes before anything is
\* written.
RawInsertInto(st, row, cols, turn, old, id) ==
    LET page == IF id \in PageIds(st.heap) THEN st.heap[id] ELSE << >>
        done == UpdateIndex(st.index, cols, turn, old, row,
                            [page |-> id, slot |-> SlotFor(page, RowLength[row])])
    IN IF ~CanInsert(page, RowLength[row]) THEN [st EXCEPT !.reply = "critical"]
       ELSE [st EXCEPT !.heap  = Written(@, id, IF done.ok THEN WithRecord(page, Live(row)) ELSE page),
                       !.index = done.index,
                       !.reply = IF done.ok THEN "ok" ELSE "duplicate"]

\* What can come of it.
RawInsert(st, row, cols, turn, old) ==
    {RawInsertInto(st, row, cols, turn, old, id) :
        id \in FindAvailablePage(st.heap, RowLength[row])}

State == [heap |-> heap, index |-> index, reply |-> "ok", moved |-> << >>]

BecomesOneOf(results) ==
    \E st \in results :
        /\ Len(st.heap) <= MaxPages
        /\ heap'  = st.heap
        /\ index' = st.index
        /\ reply' = st.reply

Insert(row) ==
    /\ call' = [op |-> "insert", row |-> row]
    /\ IF Validate(row, Schema) # "ok"
       THEN reply' = "invalid" /\ UNCHANGED <<heap, index>>
       ELSE BecomesOneOf(UNION {RawInsert(State, row, Indexed, turn, NoRow) : turn \in Turns})

---------------------------------------------------------------------------
(* delete.  The pages come in any order, which makes no difference. *)

IsOneOf(records, id, i) == \E r \in records : r.page = id /\ r.slot = i

Delete(records) ==
    /\ heap' = [id \in PageIds(heap) |-> [i \in DOMAIN heap[id] |->
           IF IsOneOf(records, id, i) THEN Emptied(heap[id], i)[i] ELSE heap[id][i]]]
    /\ index' = [col \in Indexed |->
           Restrict(index[col], DOMAIN index[col] \ {r.row[col] : r \in records})]
    /\ reply' = "ok"

---------------------------------------------------------------------------
(* update: change has the new values of the columns that are set. *)

\* The changed columns with an index.
KeysChanged(change) == Indexed \cap DOMAIN change

\* The row is overwritten where it is.  A failure leaves the page unwritten, but
\* the changes made to the indexes stay.
UpdateInPlace(st, r, change) ==
    LET new  == Updated(r.row, change)
        slot == st.heap[r.page][r.slot]
        done == UpdateIndex(st.index, KeysChanged(change), InSchemaTurn, r.row, new,
                            [page |-> r.page, slot |-> r.slot])
    IN IF slot.length # RowLength[new] THEN [st EXCEPT !.reply = "length"]
       ELSE IF ~done.ok THEN [st EXCEPT !.index = done.index, !.reply = "duplicate"]
       ELSE [st EXCEPT !.heap[r.page][r.slot] = IF slot.deleted THEN slot ELSE Live(new),
                       !.index = done.index]

\* Wrong: the indexes get the slot the row had.
UpdateElsewhereOldSlot(st, r, change) ==
    LET new  == Updated(r.row, change)
        page == Emptied(st.heap[r.page], r.slot)
        done == UpdateIndex(st.index, KeysChanged(change), InSchemaTurn, r.row, new,
                            [page |-> r.page, slot |-> r.slot])
    IN IF ~CanInsert(page, RowLength[new])
       THEN [st EXCEPT !.heap[r.page] = page, !.moved = Append(@, [old |-> r.row, new |-> new])]
       ELSE [st EXCEPT !.heap[r.page] = WithRecord(page, Live(new)), !.index = done.index]

\* The row is deleted and inserted again, into the same page if it fits, and
\* otherwise later, when all pages are done.  The indexes on columns that do not
\* change are not told of the new slot.
UpdateElsewhere(st, r, change) ==
    LET new  == Updated(r.row, change)
        page == Emptied(st.heap[r.page], r.slot)
        done == UpdateIndex(st.index, KeysChanged(change), InSchemaTurn, r.row, new,
                            [page |-> r.page, slot |-> SlotFor(page, RowLength[new])])
    IN IF ~CanInsert(page, RowLength[new])
       THEN [st EXCEPT !.heap[r.page] = page, !.moved = Append(@, [old |-> r.row, new |-> new])]
       ELSE IF ~done.ok THEN [st EXCEPT !.index = done.index, !.reply = "duplicate"]
       ELSE [st EXCEPT !.heap[r.page] = WithRecord(page, Live(new)), !.index = done.index]

UpdateRecord(st, r, change) ==
    IF DOMAIN change \cap VarSized = {} THEN UpdateInPlace(st, r, change)
    ELSE UpdateElsewhere(st, r, change)

\* The orders in which the records come: page by page, in a page by their slots.
Orders(records) ==
    {order \in Bijection(1..Cardinality(records), records) :
        \A i, j \in DOMAIN order : (i < j /\ order[i].page = order[j].page) =>
            order[i].slot < order[j].slot /\ \A k \in i..j : order[k].page = order[i].page}

\* The first error ends the update.
UpdateRecords(order, change) ==
    LET done[n \in 0..Len(order)] ==
            IF n = 0 THEN State
            ELSE IF done[n - 1].reply # "ok" THEN done[n - 1]
            ELSE UpdateRecord(done[n - 1], order[n], change)
    IN done[Len(order)]

\* What can come of inserting the rows that did not fit into their page, the map
\* being asked for each.  They are on no page by now; an error loses the rest.
InsertMoved(updated, change) ==
    LET moved == updated.moved
        done[n \in 0..Len(moved)] ==
            IF n = 0 THEN {updated}
            ELSE UNION {IF st.reply # "ok" THEN {st}
                        ELSE RawInsert(st, moved[n].new, KeysChanged(change), InSchemaTurn,
                                       moved[n].old) : st \in done[n - 1]}
    IN done[Len(moved)]

\* Of the new cells the types are looked at.
Update(records, change) ==
    IF ~TypesFit(change)
    THEN reply' = "invalid" /\ UNCHANGED <<heap, index>>
    ELSE BecomesOneOf(UNION {InsertMoved(UpdateRecords(order, change), change) :
                                order \in Orders(records)})

---------------------------------------------------------------------------
(* What clients call. *)

Values == UNION {{<<col, row[col]>> : row \in Rows} : col \in Indexed}

Init ==
    /\ heap  = << >>
    /\ index = [col \in Indexed |-> << >>]
    /\ call  = [op |-> "create"]
    /\ reply = "ok"

DeleteFound(query, records) ==
    /\ call' = [op |-> "delete", query |-> query]
    /\ Delete(records)

UpdateFound(query, records, change) ==
    /\ call' = [op |-> "update", query |-> query, change |-> change]
    /\ Update(records, change)

\* delete and update of what find found in an index
NextByIndex ==
    \E key \in Values :
        LET query   == RowsWith(key[1], key[2])
            records == Lookup(key[1], key[2])
        IN \/ DeleteFound(query, records)
           \/ \E change \in Changes : UpdateFound(query, records, change)

Next ==
    \/ \E row \in Candidates : Insert(row)
    \/ \E query \in Queries :
          \/ DeleteFound(query, Scan(query))
          \/ \E change \in Changes : UpdateFound(query, Scan(query), change)
    \/ NextByIndex

Spec == Init /\ [][Next]_vars

\* Clients that do not rely on what the code gets wrong: they delete and update
\* only what they found in a scan, they give a row no indexed value another row
\* has, and they set an indexed column whenever they set a Varchar column.
SafeInsert(row) ==
    /\ (\E c, d \in Indexed : c # d) =>
          \A r \in Scan(Rows) : \A col \in Indexed : r.row[col] # row[col]
    /\ Insert(row)

SafeUpdate(query, change) ==
    /\ DOMAIN change \cap Indexed # {} =>
          /\ \A r, s \in Scan(query) : r = s
          /\ \A col \in DOMAIN change \cap Indexed, r \in Scan(Rows \ query) :
                r.row[col] # change[col]
    /\ DOMAIN change \cap VarSized # {} => Indexed \subseteq DOMAIN change
    /\ UpdateFound(query, Scan(query), change)

SafeNext ==
    \/ \E row \in Candidates : SafeInsert(row)
    \/ \E query \in Queries :
          \/ DeleteFound(query, Scan(query))
          \/ \E change \in Changes : SafeUpdate(query, change)

SpecSafeCalls == Init /\ [][SafeNext]_vars

\* The step is an update that the map led to a page without room: the row that was
\* to be moved is lost.
LosesRow == call'.op = "update" /\ reply' = "critical"

\* The same clients up to the first time this happens.
SafeSpec == Init /\ [][SafeNext /\ ~LosesRow]_vars

---------------------------------------------------------------------------
(* Properties. *)

\* Every page has room for its directory and its rows.
TypeOK ==
    /\ \A id \in PageIds(heap) :
          /\ SumOfLengths(heap[id]) + SlotSize * Len(heap[id]) <= PageDataSize
          /\ \A i \in DOMAIN heap[id] :
                heap[id][i].deleted = (heap[id][i].row = NoRow)
    /\ \A col \in Indexed : \A value \in DOMAIN index[col] :
          index[col][value].page \in PageIds(heap)
    /\ reply \in {"ok", "duplicate", "length", "critical", "invalid"}

\* The indexes and the pages agree, although they are written one after the
\* other and rows move from slot to slot: a row is indexed at the slot it is in,
\* and every entry is the entry of a row (update_index, called by insert, update
\* and delete).  An insert may end in "Critical"; an update that does leaves an
\* entry without row, and is the end of SafeSpec.
IndexMatchesRows ==
    \A col \in Indexed :
        /\ \A r \in Scan(Rows) :
              /\ r.row[col] \in DOMAIN index[col]
              /\ index[col][r.row[col]] = [page |-> r.page, slot |-> r.slot]
        /\ DOMAIN index[col] = {r.row[col] : r \in Scan(Rows)}

\* A delete deletes the rows its query found and no others: a Record carries the
\* slot of its row (store/mod.rs 166).
DeletesWhatWasFound ==
    [][call'.op = "delete" =>
          {r.row : r \in Scan(Rows)'} = {r.row : r \in Scan(Rows \ call'.query)}]_vars

\* Every row that was let in is read back as it was inserted, now that its bytes
\* lie on a page: validate and deserialize agree about what a row of the schema is
\* (Row::validate, Row::serialize, Row::deserialize).
ReadBack == [row \in Candidates |-> Deserialize(Serialize(row), Schema)]

RowsReadBack ==
    \A id \in PageIds(heap) : \A i \in DOMAIN heap[id] :
        ~heap[id][i].deleted => ReadBack[heap[id][i].row] = Ok(heap[id][i].row)

\* Joining what two queries of the table found, on any two columns of one type,
\* yields each pair of rows with equal cells once and nothing else; on columns of
\* two types it is refused (QueryResult::hash_join, QueryResult::filter).
JoinsAreComplete ==
    \A query \in Queries : \A c, d \in DOMAIN Schema :
        LET all    == Result(Rows)
            found  == Result(query)
            joined == HashJoin(all, found, Schema[c].name, Schema[d].name)
            pairs  == {pair \in ToSet(all.rows) \X ToSet(found.rows) : pair[1][c] = pair[2][d]}
        IN IF Schema[c].col_type.raw # Schema[d].col_type.raw THEN joined = Err
           ELSE /\ ToSet(joined.value.rows) = {pair[1] \o pair[2] : pair \in pairs}
                /\ Len(joined.value.rows) = Cardinality(pairs)

\* A row that an operation is not asked to change stays at its page and slot,
\* whether the operation is done, refused or fails midway: entries of indexes and
\* results that have not been read yet go on leading to it (IndexedRowIterator,
\* QueryResult::new, which read pages when their rows are asked for).
OtherRowsStayPut ==
    [][\A r \in Scan(Rows) :
          call'.op = "insert" \/ r.row \notin call'.query => r \in Scan(Rows)']_vars

\* A row that update deletes because its new bytes do not fit in its page is put
\* "into another page later" (table_access.rs 523-524): no update makes rows fewer.
UpdatesKeepRows ==
    [][call'.op = "update" => Cardinality(Scan(Rows))' = Cardinality(Scan(Rows))]_vars

\* The table implements a set of rows with unique values in the indexed columns:
\* each operation changes the rows it is asked to change, or is refused and
\* changes none (insert, find, delete and update of TableAccess, by the clients of
\* SafeSpec).
Relation == INSTANCE Relations WITH
    rows       <- {r.row : r \in Scan(Rows)},
    Refused    <- {row \in Candidates : Validate(row, Schema) # "ok"},
    Mismatched <- {change \in Changes : ~TypesFit(change)}

ImplementsRelation == Relation!Spec

=============================================================================
