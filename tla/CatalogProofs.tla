--------------------------- MODULE CatalogProofs ---------------------------
(***************************************************************************)
(* Proofs about Catalog.                                                   *)
(*                                                                         *)
(* First, its type invariant, that ids are new, and that its files keep    *)
(* what PageMap promises, for any number of tables, any commands and any   *)
(* calls, cut short anywhere.                                              *)
(*                                                                         *)
(* Then, how tables are read.  A row of columns goes where the page has    *)
(* room, and read_table takes the columns of a table in the order of the   *)
(* slots of their rows.  When no two names of columns differ in length,    *)
(* that is the order they were created in: the rows clients cause are all  *)
(* of one length, so a new row takes the first slot that is free, and no   *)
(* slot is ever cut in two.                                                *)
(*                                                                         *)
(* Last, that the catalog implements Schemas.                              *)
(***************************************************************************)
EXTENDS Catalog, NatSets, FiniteSetTheorems, SequenceTheorems

---------------------------------------------------------------------------
(* The inductive invariant. *)

\* The names of tables and columns.
SystemNames == {"tables", "columns", "sequences", "indexes"}
ColumnNames ==
    DOMAIN NameLength \cup {"id", "name", "t_id", "type", "length", "col_id", "current", "col_ids"}

TableRows    == [id : Nat, name : TableNames \cup SystemNames]
ColumnRows   == [id : Nat, t_id : Nat, name : ColumnNames, type : 0..2, length : U16]
SequenceRows == [id : Nat, col_id : Nat, current : Nat]
IndexRows    == [id : Nat, t_id : Nat, col_ids : Nat]
ColumnSlots  == [row : ColumnRows \cup {None}, length : Int, deleted : BOOLEAN]

\* What read_table returns.
Columns == [id : Nat, name : ColumnNames, col_type : ColumnTypes]
Tables  == [id : Nat, name : TableNames, columns : Seq(Columns)]

Metadata  == [next_id : Nat, number_of_pages : Nat]
HeapPages == [page_id : Nat, rows : SUBSET Seq(Columns)]
Files     == [metadata : Metadata \cup {NoMetadata}, pages : Seq(HeapPages)]

CreateJobs ==
    [op : {"create"}, name : TableNames, todo : Seq(CreateColumnCommand),
     part : {"table", "column", "sequence", "index", "table file", "fsm file"},
     id : Nat \cup {None}, tbl_id : Nat \cup {None}, columns : Seq(Columns)]
DropJobs   == [op : {"drop"}, table : Tables, rows : (SUBSET Nat) \cup {None}]
InsertJobs == [op : {"insert"}, table : Tables, page : Nat]

Types ==
    /\ tables \subseteq TableRows
    /\ columns \in Seq(ColumnSlots)
    /\ \A i \in DOMAIN columns :
          IF columns[i].deleted THEN columns[i].row = None ELSE columns[i].row \in ColumnRows
    /\ sequences \subseteq SequenceRows
    /\ indexes \subseteq IndexRows
    /\ files \in [DOMAIN files -> Files]
    /\ trees \subseteq Nat
    /\ handles \subseteq Tables
    /\ job # Idle => job \in CreateJobs \cup DropJobs \cup InsertJobs
    /\ made \subseteq Nat

\* An id that was drawn and is in no row yet.
Pending(part) == Todo(part) /\ job.id # None

\* An id that will not be drawn, and is not the one that was drawn last.
Taken(part, id) ==
    \A s \in SequencesOn(IdColumn[part]) :
        IF Pending(part) THEN id < s.current ELSE id <= s.current

IdsTaken ==
    /\ \A t \in tables : Taken("table", t.id)
    /\ \A i \in DOMAIN columns :
          ~columns[i].deleted => Taken("table", columns[i].row.t_id) /\ Taken("column", columns[i].row.id)
    /\ \A s \in sequences : Taken("sequence", s.id) /\ Taken("column", s.col_id)
    /\ \A x \in indexes : Taken("index", x.id) /\ Taken("table", x.t_id) /\ Taken("column", x.col_ids)
    /\ \A id \in trees : Taken("index", id)
    /\ \A f \in DOMAIN files : f \in {"table", "fsm"} \X Nat /\ Taken("table", f[2])
    /\ \A t \in handles :
          Taken("table", t.id) /\ \A i \in DOMAIN t.columns : Taken("column", t.columns[i].id)

\* The rows of the system's own tables stay as they are, but for the values drawn.
SystemRows ==
    /\ \A part \in DOMAIN IdColumn : \E s \in sequences : SequencesOn(IdColumn[part]) = {s}
    /\ \A s \in sequences : (s.col_id = 10 => s.current >= 4) /\ (s.col_id = 30 => s.current >= 120)
    /\ SystemTables \subseteq tables
    /\ \A t \in tables : t.id > 4 <=> t.name \in TableNames
    /\ \A t, other \in tables : t.id = other.id \/ t.name = other.name => t = other
    /\ \A i \in DOMAIN columns : ~columns[i].deleted /\ columns[i].row.t_id > 4 => columns[i].row.id > 120
    /\ \A t \in handles : t.id > 4 /\ \A i \in DOMAIN t.columns : t.columns[i].id > 120

CreateOK ==
    Doing("create") =>
        /\ IF job.part = "table"
           THEN job.columns = << >> /\ \A t \in tables : t.name # job.name
           ELSE job.tbl_id \in Nat /\ job.tbl_id > 4 /\ Taken("table", job.tbl_id)
        /\ \A i \in DOMAIN job.columns : job.columns[i].id > 120 /\ Taken("column", job.columns[i].id)
        /\ job.part \in {"column", "sequence", "index"} => job.todo # << >>
        /\ job.part \in {"sequence", "index"} => job.columns # << >>
        /\ job.id # None =>
              /\ job.part \in DOMAIN IdColumn
              /\ \A s \in SequencesOn(IdColumn[job.part]) : job.id = s.current
              /\ (job.part = "table" => job.id > 4) /\ (job.part = "column" => job.id > 120)

DropOK == Doing("drop") => job.rows = None \/ job.rows \subseteq DOMAIN columns

InsertOK ==
    Doing("insert") =>
        LET f == TableFile(job.table.id) IN
        /\ ReadMetadata(f) # NoMetadata
        /\ job.page \in DOMAIN files[f].pages /\ files[f].pages[job.page].page_id = job.page

Inv == Types /\ FilesOK /\ IdsTaken /\ SystemRows /\ CreateOK /\ DropOK /\ InsertOK

---------------------------------------------------------------------------
(* Rows and slots. *)

\* A column without a length has length 0.
LEMMA ZeroIsLength == 0 \in U16
BY SMT DEF U16

\* The codes of the types.
LEMMA Codes ==
    /\ DOMAIN RawTypes = {1, 2, 3}
    /\ RawTypes[1] = "Int" /\ RawTypes[2] = "Varchar" /\ RawTypes[3] = "Byte"
BY DEF RawTypes

\* What a row stores of a type gives the type back.
LEMMA TypeReadsBack ==
    ASSUME NEW col_type \in ColumnTypes
    PROVE  /\ TypeCode(col_type) \in 0..2
           /\ col_type.length \in U16
           /\ TypeOf(TypeCode(col_type), col_type.length) = col_type
<1>1. ASSUME NEW code \in {1, 2, 3}, col_type.raw = RawTypes[code] PROVE TypeCode(col_type) = code - 1
  <2>1. (CHOOSE i \in DOMAIN RawTypes : RawTypes[i] = col_type.raw) = code
    BY Codes, <1>1
  <2> QED
    BY <2>1 DEF TypeCode
<1>2. CASE col_type = IntType
  <2>1. col_type = [raw |-> "Int", length |-> 0]
    BY <1>2 DEF IntType
  <2>2. TypeCode(col_type) = 0
    BY <2>1, <1>1, Codes
  <2>3. TypeOf(0, 0) = col_type
    BY <2>1, Codes DEF TypeOf
  <2> QED
    BY <2>1, <2>2, <2>3, ZeroIsLength
<1>3. CASE col_type = ByteType
  <2>1. col_type = [raw |-> "Byte", length |-> 0]
    BY <1>3 DEF ByteType
  <2>2. TypeCode(col_type) = 2
    BY <2>1, <1>1, Codes
  <2>3. TypeOf(2, 0) = col_type
    BY <2>1, Codes DEF TypeOf
  <2> QED
    BY <2>1, <2>2, <2>3, ZeroIsLength
<1>4. ASSUME NEW len \in U16, col_type = VarcharType(len)
      PROVE  /\ TypeCode(col_type) \in 0..2
             /\ col_type.length \in U16
             /\ TypeOf(TypeCode(col_type), col_type.length) = col_type
  <2>1. col_type = [raw |-> "Varchar", length |-> len]
    BY <1>4 DEF VarcharType
  <2>2. TypeCode(col_type) = 1
    BY <2>1, <1>1, Codes
  <2>3. TypeOf(1, len) = col_type
    BY <2>1, Codes DEF TypeOf
  <2> QED
    BY <2>1, <2>2, <2>3
<1> QED
  BY <1>2, <1>3, <1>4 DEF ColumnTypes

\* Every code a row can hold stands for a type.
LEMMA CodesAreTypes ==
    ASSUME NEW code \in 0..2, NEW length \in U16
    PROVE  TypeOf(code, length) \in ColumnTypes
<1>1. CASE code = 0
  BY <1>1, Codes DEF TypeOf, ColumnTypes, IntType
<1>2. CASE code = 1
  <2>1. TypeOf(code, length) = VarcharType(length)
    BY <1>2, Codes DEF TypeOf, VarcharType
  <2> QED
    BY <2>1 DEF ColumnTypes
<1>3. CASE code = 2
  BY <1>3, Codes DEF TypeOf, ColumnTypes, ByteType
<1> QED
  BY <1>1, <1>2, <1>3

\* A column that is written to columns is read as it was written.
LEMMA ColumnReadsBack ==
    ASSUME NEW id \in Nat, NEW t_id \in Nat, NEW name \in ColumnNames, NEW col_type \in ColumnTypes
    PROVE  /\ ColumnRow(id, t_id, name, col_type) \in ColumnRows
           /\ ColumnFrom(ColumnRow(id, t_id, name, col_type))
                = [id |-> id, name |-> name, col_type |-> col_type]
BY TypeReadsBack DEF ColumnRow, ColumnRows, ColumnFrom

\* A row of columns gives a column.
LEMMA RowsGiveColumns ==
    ASSUME NEW row \in ColumnRows
    PROVE  ColumnFrom(row) \in Columns
BY CodesAreTypes DEF ColumnRows, ColumnFrom, Columns

---------------------------------------------------------------------------
(* The directory of the page of columns. *)

\* The slot of a new row is a deleted slot, or a new one at the end.
LEMMA SlotForIsFree ==
    ASSUME NEW p \in Seq(ColumnSlots), NEW len \in Int
    PROVE  SlotFor(p, len) \in Deleted(p) \cup {Len(p) + 1}
<1> DEFINE exact  == {i \in Deleted(p) : p[i].length = len}
           longer == {i \in Deleted(p) : p[i].length > len}
<1>1. exact \in SUBSET Nat /\ longer \in SUBSET Nat
  BY DEF Deleted
<1>2. exact # {} => Min(exact) \in exact
  BY <1>1, MinIsLeast
<1>3. longer # {} => Min(longer) \in longer
  BY <1>1, MinIsLeast
<1> QED
  BY <1>2, <1>3 DEF SlotFor

\* insert_record puts the row into one slot; the others keep theirs, and what is
\* split off is deleted.
LEMMA WithRecordSlots ==
    ASSUME NEW p \in Seq(ColumnSlots), \A i \in DOMAIN p : p[i].deleted => p[i].row = None,
           NEW live \in ColumnSlots, ~live.deleted
    PROVE  /\ WithRecord(p, live) \in Seq(ColumnSlots)
           /\ Len(WithRecord(p, live)) >= Len(p)
           /\ \A i \in DOMAIN WithRecord(p, live) :
                 \/ i = SlotFor(p, live.length) /\ WithRecord(p, live)[i] = live
                 \/ i \in DOMAIN p /\ i # SlotFor(p, live.length) /\ WithRecord(p, live)[i] = p[i]
                 \/ i = Len(p) + 1 /\ WithRecord(p, live)[i].deleted /\ WithRecord(p, live)[i].row = None
<1> DEFINE k    == SlotFor(p, live.length)
           put  == [p EXCEPT ![k] = live]
           rest == [p[k] EXCEPT !.length = @ - live.length]
<1>1. live.length \in Int
  BY DEF ColumnSlots
<1>2. k \in Deleted(p) \cup {Len(p) + 1}
  BY <1>1, SlotForIsFree
<1>3. Len(p) \in Nat /\ DOMAIN p = 1..Len(p)
  OBVIOUS
<1> HIDE DEF k, put, rest
<1>4. CASE k > Len(p)
  <2>1. k = Len(p) + 1
    BY <1>2, <1>3, <1>4 DEF Deleted
  <2>2. WithRecord(p, live) = Append(p, live)
    BY <1>4 DEF WithRecord, k
  <2> QED
    BY <2>1, <2>2, <1>3 DEF k
<1>5. CASE k <= Len(p)
  <2>1. k \in DOMAIN p /\ p[k] \in ColumnSlots /\ p[k].deleted
    BY <1>2, <1>3, <1>5 DEF Deleted
  <2>2. put \in Seq(ColumnSlots) /\ Len(put) = Len(p) /\ \A i \in 1..Len(p) : put[i] = IF i = k THEN live ELSE p[i]
    BY <2>1 DEF put
  <2>3. rest \in ColumnSlots /\ rest.deleted /\ rest.row = None
    BY <1>1, <2>1 DEF ColumnSlots, rest
  <2>4. WithRecord(p, live) = IF p[k].length = live.length THEN put ELSE Append(put, rest)
    <3>1. ~(k > Len(p))
      BY <1>3, <1>5, <2>1
    <3> QED
      BY <3>1 DEF WithRecord, k, put, rest
  <2>5. CASE p[k].length = live.length
    BY <2>2, <2>4, <2>5, <1>3 DEF k
  <2>6. CASE p[k].length # live.length
    <3>1. /\ Append(put, rest) \in Seq(ColumnSlots) /\ Len(Append(put, rest)) = Len(p) + 1
          /\ \A i \in 1..Len(p) : Append(put, rest)[i] = put[i]
          /\ Append(put, rest)[Len(p) + 1] = rest
      BY <2>2, <2>3
    <3> QED
      BY <2>2, <2>3, <2>4, <2>6, <3>1, <1>3 DEF k
  <2> QED
    BY <2>5, <2>6
<1> QED
  <2>1. k \in Int
    BY <1>2, <1>3 DEF Deleted
  <2> QED
    BY <1>3, <1>4, <1>5, <2>1

---------------------------------------------------------------------------
(* What read_table returns. *)

\* The columns of a table as they are read from given slots: ColumnsOf(t_id) is
\* ReadOf(columns, t_id).
ReadOf(cols, t_id) ==
    LET upTo[i \in 0..Len(cols)] ==
            IF i = 0 THEN << >>
            ELSE IF ~cols[i].deleted /\ cols[i].row.t_id = t_id
            THEN Append(upTo[i - 1], ColumnFrom(cols[i].row))
            ELSE upTo[i - 1]
    IN upTo[Len(cols)]

\* The slot holds a row of the table.
IsRowOf(cols, t_id, i) == i \in DOMAIN cols /\ ~cols[i].deleted /\ cols[i].row.t_id = t_id

\* What was read after each slot.
ReadsOn(f, cols, t_id) ==
    /\ f[0] = << >>
    /\ \A m \in 1..Len(cols) :
          f[m] = IF IsRowOf(cols, t_id, m) THEN Append(f[m - 1], ColumnFrom(cols[m].row)) ELSE f[m - 1]

\* Reading goes from slot to slot.
LEMMA ReadIs ==
    ASSUME NEW cols \in Seq(ColumnSlots), NEW t_id
    PROVE  \E f : ReadsOn(f, cols, t_id) /\ ReadOf(cols, t_id) = f[Len(cols)]
<1> DEFINE Its(i) == ~cols[i].deleted /\ cols[i].row.t_id = t_id
           Step(i, before) == IF Its(i) THEN Append(before, ColumnFrom(cols[i].row)) ELSE before
           Upto(f, n) == f = [i \in 0..n |-> IF i = 0 THEN << >> ELSE Step(i, f[i - 1])]
           n == Len(cols)
<1>1. n \in Nat /\ DOMAIN cols = 1..n
  OBVIOUS
<1>2. \A i \in 1..n : Its(i) <=> IsRowOf(cols, t_id, i)
  BY <1>1 DEF IsRowOf
<1>3. ReadOf(cols, t_id) = (CHOOSE f : Upto(f, n))[n]
  BY DEF ReadOf
<1> HIDE DEF Its, n
<1>4. \A m \in Nat : \E f : Upto(f, m)
  <2> DEFINE S == {m \in Nat : \E f : Upto(f, m)}
  <2>1. 0 \in S
    <3>1. Upto([i \in 0..0 |-> << >>], 0)
      BY DEF Step
    <3> QED
      BY <3>1
  <2>2. ASSUME NEW m \in Nat, m \in S PROVE m + 1 \in S
    <3>1. PICK f : Upto(f, m)
      BY <2>2
    <3> HIDE DEF Step
    <3> DEFINE g == [i \in 0..(m + 1) |-> IF i <= m THEN f[i] ELSE Step(m + 1, f[m])]
    <3>2. ASSUME NEW i \in 0..(m + 1) PROVE g[i] = IF i = 0 THEN << >> ELSE Step(i, g[i - 1])
      <4>1. CASE i <= m
        BY <3>1, <4>1
      <4>2. CASE i = m + 1
        BY <3>1, <4>2
      <4> QED
        BY <4>1, <4>2
    <3>3. Upto(g, m + 1)
      BY <3>2
    <3> HIDE DEF Upto, g
    <3> QED
      BY <3>3
  <2> HIDE DEF S, Upto
  <2>3. Nat \subseteq S
    BY <2>1, <2>2, SetInduction
  <2> QED
    BY <2>3 DEF S
<1>5. PICK f : f = (CHOOSE g : Upto(g, n)) /\ Upto(f, n)
  BY <1>1, <1>4
<1> HIDE DEF Step
<1>6. f[0] = << >> /\ \A m \in 1..n : f[m] = Step(m, f[m - 1])
  <2> DEFINE F == [i \in 0..n |-> IF i = 0 THEN << >> ELSE Step(i, f[i - 1])]
  <2>1. f = F
    BY <1>5
  <2>2. F[0] = << >> /\ \A m \in 1..n : F[m] = Step(m, f[m - 1])
    BY <1>1
  <2> QED
    BY <2>1, <2>2
<1> HIDE DEF Upto
<1>7. ReadsOn(f, cols, t_id)
  BY <1>2, <1>6 DEF ReadsOn, Step, n
<1> QED
  BY <1>3, <1>5, <1>7 DEF n

\* The columns of a table are what the rows of its id tell.
LEMMA ColumnsOfRows ==
    ASSUME columns \in Seq(ColumnSlots), NEW t_id
    PROVE  ColumnsOf(t_id) \in Seq({ColumnFrom(columns[i].row) : i \in ColumnRowsOf(t_id)})
<1> DEFINE Read == {ColumnFrom(columns[i].row) : i \in ColumnRowsOf(t_id)}
<1>1. PICK n : n = Len(columns) /\ n \in Nat /\ DOMAIN columns = 1..n
  OBVIOUS
<1>2. ASSUME NEW i, IsRowOf(columns, t_id, i) PROVE ColumnFrom(columns[i].row) \in Read
  BY <1>2 DEF ColumnRowsOf, IsRowOf
<1>3. ColumnsOf(t_id) = ReadOf(columns, t_id)
  BY DEF ColumnsOf, ReadOf
<1> HIDE DEF Read
<1>4. PICK f : ReadsOn(f, columns, t_id) /\ ReadOf(columns, t_id) = f[n]
  BY <1>1, ReadIs
<1>5. \A m \in Nat : m <= n => f[m] \in Seq(Read)
  <2> DEFINE S == {m \in Nat : m <= n => f[m] \in Seq(Read)}
  <2>1. 0 \in S
    BY <1>4, EmptySeq DEF ReadsOn
  <2>2. ASSUME NEW m \in Nat, m \in S PROVE m + 1 \in S
    <3>1. SUFFICES ASSUME m + 1 <= n PROVE f[m + 1] \in Seq(Read)
      OBVIOUS
    <3>2. f[m + 1] = IF IsRowOf(columns, t_id, m + 1) THEN Append(f[m], ColumnFrom(columns[m + 1].row)) ELSE f[m]
      BY <1>1, <1>4, <3>1 DEF ReadsOn
    <3>3. f[m] \in Seq(Read)
      BY <2>2, <3>1, <1>1
    <3> QED
      BY <1>2, <3>2, <3>3
  <2> HIDE DEF S
  <2>3. Nat \subseteq S
    BY <2>1, <2>2, SetInduction
  <2> QED
    BY <2>3 DEF S
<1> QED
  BY <1>1, <1>3, <1>4, <1>5 DEF Read

\* What read_table returns is made of a row of tables and of the rows of columns.
LEMMA ReadTableReads ==
    ASSUME Types, NEW name, NEW table, ReadTable(name) = table, table \notin {Missing, Error, Panic}
    PROVE  \E t \in tables :
              /\ t.name = name
              /\ table = [id |-> t.id, name |-> name, columns |-> table.columns]
              /\ table.columns = ColumnsOf(t.id)
              /\ table.columns # << >>
              /\ table.columns \in Seq(Columns)
              /\ \A k \in DOMAIN table.columns : \E i \in ColumnRowsOf(t.id) :
                    table.columns[k].id = columns[i].row.id
<1> DEFINE found == {t \in tables : t.name = name}
           t     == CHOOSE t \in found : TRUE
<1>1. found # {} /\ t \in found
  BY DEF ReadTable
<1>2. /\ ColumnsOf(t.id) # << >>
      /\ table = [id |-> t.id, name |-> name, columns |-> ColumnsOf(t.id)]
  BY <1>1 DEF ReadTable
<1> HIDE DEF t
<1>3. ColumnsOf(t.id) \in Seq({ColumnFrom(columns[i].row) : i \in ColumnRowsOf(t.id)})
  BY ColumnsOfRows DEF Types
<1>4. \A i \in ColumnRowsOf(t.id) : ColumnFrom(columns[i].row) \in Columns /\ ColumnFrom(columns[i].row).id = columns[i].row.id
  <2> TAKE i \in ColumnRowsOf(t.id)
  <2>1. columns[i].row \in ColumnRows
    BY DEF ColumnRowsOf, Types
  <2>2. ColumnFrom(columns[i].row).id = columns[i].row.id
    BY DEF ColumnFrom
  <2> QED
    BY <2>1, <2>2, RowsGiveColumns
<1>5. ColumnsOf(t.id) \in Seq(Columns)
  <2>1. {ColumnFrom(columns[i].row) : i \in ColumnRowsOf(t.id)} \subseteq Columns
    BY <1>4
  <2> QED
    BY <1>3, <2>1, SeqMonotonic
<1>6. \A k \in DOMAIN ColumnsOf(t.id) : \E i \in ColumnRowsOf(t.id) : ColumnsOf(t.id)[k].id = columns[i].row.id
  <2> TAKE k \in DOMAIN ColumnsOf(t.id)
  <2>1. ColumnsOf(t.id)[k] \in {ColumnFrom(columns[i].row) : i \in ColumnRowsOf(t.id)}
    BY <1>3
  <2> QED
    BY <2>1, <1>4
<1> QED
  BY <1>1, <1>2, <1>5, <1>6

---------------------------------------------------------------------------
(* Jobs and sequences. *)

LEMMA IdColumns ==
    /\ DOMAIN IdColumn = {"table", "column", "sequence", "index"}
    /\ IdColumn["table"] = 10 /\ IdColumn["column"] = 30
    /\ IdColumn["sequence"] = 80 /\ IdColumn["index"] = 100
BY DEF IdColumn

\* The job of a call is one of its kind.
LEMMA JobOfCall ==
    ASSUME Types
    PROVE  /\ Doing("create") => job \in CreateJobs /\ job.op = "create"
           /\ Doing("drop") => job \in DropJobs /\ job.op = "drop"
           /\ Doing("insert") => job \in InsertJobs /\ job.op = "insert"
<1>1. job \in CreateJobs \cup DropJobs \cup InsertJobs \/ job.op = "idle"
  BY DEF Types, Idle
<1> QED
  BY <1>1 DEF Doing, CreateJobs, DropJobs, InsertJobs

\* No id becomes free in a step.
NoneFreed == \A part \in DOMAIN IdColumn : \A id \in Nat : Taken(part, id) => Taken(part, id)'

\* That is so when sequences only go on and no id is waiting.
LEMMA TakenStays ==
    ASSUME Types, \A part \in DOMAIN IdColumn : ~Pending(part)',
           \A part \in DOMAIN IdColumn : \A s \in SequencesOn(IdColumn[part])' :
              \E r \in SequencesOn(IdColumn[part]) : s.current \in Nat /\ r.current <= s.current
    PROVE  NoneFreed
<1> SUFFICES ASSUME NEW part \in DOMAIN IdColumn, NEW id \in Nat, Taken(part, id),
                    NEW s \in SequencesOn(IdColumn[part])'
             PROVE  id <= s.current
  BY DEF Taken, NoneFreed
<1>1. PICK r \in SequencesOn(IdColumn[part]) : s.current \in Nat /\ r.current <= s.current
  OBVIOUS
<1>2. r.current \in Nat
  BY DEF SequencesOn, Types, SequenceRows
<1>3. id <= r.current
  BY <1>2 DEF Taken
<1> QED
  BY <1>1, <1>2, <1>3

\* In particular when sequences stay as they are.
LEMMA TakenStaysPut ==
    ASSUME Types, sequences' = sequences, \A part \in DOMAIN IdColumn : ~Pending(part)'
    PROVE  NoneFreed
<1>1. \A part \in DOMAIN IdColumn : \A s \in SequencesOn(IdColumn[part])' :
         s \in SequencesOn(IdColumn[part]) /\ s.current \in Nat /\ s.current <= s.current
  BY DEF SequencesOn, Types, SequenceRows
<1> QED
  BY <1>1, TakenStays

\* Columns have numbers.
LEMMA ColumnIds ==
    ASSUME NEW cols \in Seq(Columns)
    PROVE  \A i \in DOMAIN cols : cols[i] \in Columns /\ cols[i].id \in Nat
<1>1. \A i \in DOMAIN cols : cols[i] \in Columns
  OBVIOUS
<1> QED
  BY <1>1 DEF Columns

LiveRows == {columns[i].row : i \in {i \in DOMAIN columns : ~columns[i].deleted}}

\* Only the ids of new rows and files have to be looked at.
LEMMA IdsStay ==
    ASSUME Inv, NoneFreed,
           \A t \in tables' : t \in tables \/ Taken("table", t.id)',
           \A row \in LiveRows' : row \in LiveRows \/ (Taken("table", row.t_id)' /\ Taken("column", row.id)'),
           \A s \in sequences' :
              \/ \E r \in sequences : r.id = s.id /\ r.col_id = s.col_id
              \/ Taken("sequence", s.id)' /\ Taken("column", s.col_id)',
           \A x \in indexes' :
              \/ x \in indexes
              \/ Taken("index", x.id)' /\ Taken("table", x.t_id)' /\ Taken("column", x.col_ids)',
           \A id \in trees' : id \in trees \/ Taken("index", id)',
           \A f \in DOMAIN files' : f \in DOMAIN files \/ (f \in {"table", "fsm"} \X Nat /\ Taken("table", f[2])'),
           \A t \in handles' :
              \/ t \in handles
              \/ Taken("table", t.id)' /\ \A i \in DOMAIN t.columns : Taken("column", t.columns[i].id)'
    PROVE  IdsTaken'
<1> USE IdColumns
<1>1. (\A t \in tables : Taken("table", t.id))'
  <2> SUFFICES ASSUME NEW t \in tables PROVE Taken("table", t.id)'
    OBVIOUS
  <2>1. t.id \in Nat
    BY DEF Inv, Types, TableRows
  <2> QED
    BY <2>1 DEF Inv, IdsTaken, NoneFreed
<1>2. (\A i \in DOMAIN columns :
          ~columns[i].deleted => Taken("table", columns[i].row.t_id) /\ Taken("column", columns[i].row.id))'
  <2>1. \A row \in LiveRows' : Taken("table", row.t_id)' /\ Taken("column", row.id)'
    <3> SUFFICES ASSUME NEW row \in LiveRows PROVE Taken("table", row.t_id)' /\ Taken("column", row.id)'
      OBVIOUS
    <3>1. row.id \in Nat /\ row.t_id \in Nat /\ Taken("table", row.t_id) /\ Taken("column", row.id)
      BY DEF Inv, Types, ColumnRows, LiveRows, IdsTaken
    <3> QED
      BY <3>1 DEF NoneFreed
  <2> QED
    BY <2>1 DEF LiveRows
<1>3. (\A s \in sequences : Taken("sequence", s.id) /\ Taken("column", s.col_id))'
  <2> SUFFICES ASSUME NEW r \in sequences PROVE Taken("sequence", r.id)' /\ Taken("column", r.col_id)'
    OBVIOUS
  <2>1. r.id \in Nat /\ r.col_id \in Nat
    BY DEF Inv, Types, SequenceRows
  <2> QED
    BY <2>1 DEF Inv, IdsTaken, NoneFreed
<1>4. (\A x \in indexes : Taken("index", x.id) /\ Taken("table", x.t_id) /\ Taken("column", x.col_ids))'
  <2> SUFFICES ASSUME NEW x \in indexes
               PROVE  Taken("index", x.id)' /\ Taken("table", x.t_id)' /\ Taken("column", x.col_ids)'
    OBVIOUS
  <2>1. x.id \in Nat /\ x.t_id \in Nat /\ x.col_ids \in Nat
    BY DEF Inv, Types, IndexRows
  <2> QED
    BY <2>1 DEF Inv, IdsTaken, NoneFreed
<1>5. (\A id \in trees : Taken("index", id))'
  BY DEF Inv, IdsTaken, NoneFreed, Types
<1>6. (\A f \in DOMAIN files : f \in {"table", "fsm"} \X Nat /\ Taken("table", f[2]))'
  <2> SUFFICES ASSUME NEW f \in DOMAIN files PROVE f \in {"table", "fsm"} \X Nat /\ Taken("table", f[2])'
    OBVIOUS
  <2>1. f \in {"table", "fsm"} \X Nat /\ Taken("table", f[2])
    BY DEF Inv, IdsTaken
  <2>2. f[2] \in Nat
    BY <2>1
  <2> QED
    BY <2>1, <2>2 DEF NoneFreed
<1>7. (\A t \in handles :
          Taken("table", t.id) /\ \A i \in DOMAIN t.columns : Taken("column", t.columns[i].id))'
  <2> SUFFICES ASSUME NEW t \in handles
               PROVE  Taken("table", t.id)' /\ \A i \in DOMAIN t.columns : Taken("column", t.columns[i].id)'
    OBVIOUS
  <2>1. t.id \in Nat /\ t.columns \in Seq(Columns)
    BY DEF Inv, Types, Tables
  <2>2. \A i \in DOMAIN t.columns : t.columns[i].id \in Nat
    BY <2>1, ColumnIds
  <2> QED
    BY <2>1, <2>2 DEF Inv, IdsTaken, NoneFreed
<1> QED
  BY <1>1, <1>2, <1>3, <1>4, <1>5, <1>6, <1>7 DEF IdsTaken

---------------------------------------------------------------------------
(* Steps that change only the job. *)

LEMMA OnlyJob ==
    ASSUME Inv, UNCHANGED <<catalog, files, trees, handles, made>>,
           \A part \in DOMAIN IdColumn : ~Pending(part)'
    PROVE  FilesOK' /\ IdsTaken' /\ SystemRows' /\ NoneFreed
<1>1. UNCHANGED <<tables, columns, sequences, indexes, files, trees, handles>>
  BY DEF catalog
<1>2. NoneFreed
  BY <1>1, TakenStaysPut DEF Inv
<1>3. IdsTaken'
  <2>1. LiveRows' = LiveRows
    BY <1>1 DEF LiveRows
  <2> QED
    <3>1. /\ \A t \in tables' : t \in tables
          /\ \A row \in LiveRows' : row \in LiveRows
          /\ \A s \in sequences' : \E r \in sequences : r.id = s.id /\ r.col_id = s.col_id
          /\ \A x \in indexes' : x \in indexes
          /\ \A id \in trees' : id \in trees
          /\ \A f \in DOMAIN files' : f \in DOMAIN files
          /\ \A t \in handles' : t \in handles
      BY <1>1, <2>1
    <3> QED
      BY <1>2, <3>1, IdsStay
<1>4. FilesOK'
  BY <1>1 DEF Inv, FilesOK
<1>5. SystemRows'
  BY <1>1 DEF Inv, SystemRows, SequencesOn
<1> QED
  BY <1>2, <1>3, <1>4, <1>5

LEMMA NoJob ==
    ASSUME Inv, UNCHANGED <<catalog, files, trees, handles, made>>, job' = Idle
    PROVE  Inv'
<1>1. ~Doing("create")' /\ ~Doing("drop")' /\ ~Doing("insert")'
  BY DEF Doing, Idle
<1>2. FilesOK' /\ IdsTaken' /\ SystemRows'
  BY <1>1, OnlyJob DEF Pending, Todo
<1>3. Types'
  BY DEF Inv, Types, catalog
<1> QED
  BY <1>1, <1>2, <1>3 DEF Inv, CreateOK, DropOK, InsertOK

LEMMA BeginCreateKeeps ==
    ASSUME Inv, NEW name \in TableNames, NEW commands \in Commands, BeginCreate(name, commands)
    PROVE  Inv'
<1>1. CASE UNCHANGED job
  <2>1. job' = Idle
    BY <1>1 DEF BeginCreate
  <2> QED
    BY <2>1, NoJob DEF BeginCreate
<1>2. CASE job' # job
  <2>1. /\ job' = CreateJob(name, commands) /\ \A t \in tables : t.name # name
        /\ UNCHANGED <<catalog, files, trees, handles, made>>
    BY <1>2 DEF BeginCreate
  <2>2. /\ job'.op = "create" /\ job'.part = "table" /\ job'.id = None
        /\ job'.name = name /\ job'.columns = << >>
    BY <2>1 DEF CreateJob
  <2>3. commands \in Seq(CreateColumnCommand)
    BY CatalogAssumption
  <2>4. job' \in CreateJobs
    BY <2>1, <2>3 DEF CreateJob, CreateJobs
  <2>5. FilesOK' /\ IdsTaken' /\ SystemRows'
    BY <2>1, <2>2, OnlyJob DEF Pending
  <2>6. Types'
    BY <2>1, <2>4 DEF Inv, Types, catalog
  <2>7. CreateOK'
    BY <2>1, <2>2 DEF CreateOK, catalog
  <2>8. DropOK' /\ InsertOK'
    BY <2>2 DEF DropOK, InsertOK, Doing
  <2> QED
    BY <2>5, <2>6, <2>7, <2>8 DEF Inv
<1> QED
  BY <1>1, <1>2

LEMMA BeginDropKeeps ==
    ASSUME Inv, NEW name \in TableNames, BeginDrop(name)
    PROVE  Inv'
<1> DEFINE table == ReadTable(name)
<1>1. CASE table \in {Missing, Error, Panic}
  <2>1. job' = Idle
    BY <1>1 DEF BeginDrop
  <2> QED
    BY <2>1, NoJob DEF BeginDrop
<1>2. CASE table \notin {Missing, Error, Panic}
  <2>1. /\ job' = [op |-> "drop", table |-> table, rows |-> None]
        /\ UNCHANGED <<catalog, files, trees, handles, made>>
    BY <1>2 DEF BeginDrop
  <2>2. table \in Tables
    BY <1>2, ReadTableReads DEF Inv, Types, Tables, TableRows
  <2> HIDE DEF table
  <2>3. job' \in DropJobs /\ job'.op = "drop" /\ job'.rows = None
    <3>1. [op |-> "drop", table |-> table, rows |-> None] \in DropJobs
      BY <2>2 DEF DropJobs
    <3> QED
      BY <2>1, <3>1
  <2>4. ~Doing("create")' /\ ~Doing("insert")'
    BY <2>3 DEF Doing
  <2>5. FilesOK' /\ IdsTaken' /\ SystemRows'
    BY <2>1, <2>4, OnlyJob DEF Pending, Todo
  <2>6. Types'
    BY <2>1, <2>3 DEF Inv, Types, catalog
  <2>7. CreateOK' /\ InsertOK' /\ DropOK'
    BY <2>3, <2>4 DEF CreateOK, InsertOK, DropOK
  <2> QED
    BY <2>5, <2>6, <2>7 DEF Inv
<1> QED
  BY <1>1, <1>2

LEMMA OpenKeeps ==
    ASSUME Inv, NEW name \in TableNames, Open(name)
    PROVE  Inv'
<1> PICK table : table = ReadTable(name)
  OBVIOUS
<1>1. job' = Idle /\ UNCHANGED <<catalog, files, trees, made>>
  BY DEF Open
<1>2. CASE table \in {Missing, Error, Panic}
  <2>1. handles' = handles
    BY <1>2 DEF Open
  <2> QED
    BY <1>1, <2>1, NoJob
<1>3. CASE table \notin {Missing, Error, Panic}
  <2>1. handles' = handles \cup {table}
    BY <1>3 DEF Open
  <2>2. PICK t \in tables :
           /\ t.name = name
           /\ table = [id |-> t.id, name |-> name, columns |-> table.columns]
           /\ table.columns \in Seq(Columns)
           /\ \A k \in DOMAIN table.columns : \E i \in ColumnRowsOf(t.id) :
                 table.columns[k].id = columns[i].row.id
    BY <1>3, ReadTableReads DEF Inv
  <2>3. /\ t.id \in Nat /\ t.id > 4 /\ Taken("table", t.id)
    BY <2>2 DEF Inv, Types, TableRows, SystemRows, IdsTaken
  <2>4. table \in Tables /\ table.id = t.id
    BY <2>2, <2>3 DEF Tables
  <2>5. \A k \in DOMAIN table.columns :
           table.columns[k].id \in Nat /\ table.columns[k].id > 120 /\ Taken("column", table.columns[k].id)
    <3> TAKE k \in DOMAIN table.columns
    <3>1. PICK i \in ColumnRowsOf(t.id) : table.columns[k].id = columns[i].row.id
      BY <2>2
    <3>2. i \in DOMAIN columns /\ ~columns[i].deleted /\ columns[i].row.t_id = t.id
      BY DEF ColumnRowsOf
    <3>3. columns[i].row.id \in Nat
      BY <3>2 DEF Inv, Types, ColumnRows
    <3>4. columns[i].row.id > 120
      BY <2>3, <3>2 DEF Inv, SystemRows
    <3> QED
      BY <3>1, <3>2, <3>3, <3>4 DEF Inv, IdsTaken
  <2>6. ~Doing("create")' /\ ~Doing("drop")' /\ ~Doing("insert")'
    BY <1>1 DEF Doing, Idle
  <2>7. NoneFreed
    BY <1>1, <2>6, TakenStaysPut DEF Inv, catalog, Pending, Todo
  <2>8. IdsTaken'
    <3>1. \A t2 \in handles' :
             \/ t2 \in handles
             \/ Taken("table", t2.id)' /\ \A i \in DOMAIN t2.columns : Taken("column", t2.columns[i].id)'
      <4>1. Taken("table", table.id)' /\ \A i \in DOMAIN table.columns : Taken("column", table.columns[i].id)'
        BY <2>3, <2>4, <2>5, <2>7, IdColumns DEF NoneFreed
      <4> QED
        BY <2>1, <4>1
    <3>2. LiveRows' = LiveRows /\ UNCHANGED <<tables, sequences, indexes, files, trees>>
      BY <1>1 DEF LiveRows, catalog
    <3> QED
      BY <2>7, <3>1, <3>2, IdsStay
  <2>9. SystemRows'
    <3>1. (\A t2 \in handles : t2.id > 4 /\ \A i \in DOMAIN t2.columns : t2.columns[i].id > 120)'
      BY <2>1, <2>3, <2>4, <2>5 DEF Inv, SystemRows
    <3> QED
      BY <1>1, <3>1 DEF Inv, SystemRows, SequencesOn, catalog
  <2>10. Types'
    BY <1>1, <2>1, <2>4 DEF Inv, Types, catalog
  <2>11. FilesOK'
    BY <1>1 DEF Inv, FilesOK
  <2> QED
    BY <2>6, <2>8, <2>9, <2>10, <2>11 DEF Inv, CreateOK, DropOK, InsertOK
<1> QED
  BY <1>2, <1>3

---------------------------------------------------------------------------
(* The steps of create_table. *)

\* next_val adds one to one sequence.
LEMMA NextValAdds ==
    ASSUME Types, NEW col_id, NextVal(col_id)
    PROVE  /\ sequences' \subseteq SequenceRows
           /\ \A s \in sequences' : \E r \in sequences :
                 /\ r.id = s.id /\ r.col_id = s.col_id
                 /\ s.current = IF r.col_id = col_id THEN r.current + 1 ELSE r.current
           /\ \A c : c # col_id => SequencesOn(c)' = SequencesOn(c)
           /\ \A r : SequencesOn(col_id) = {r} =>
                 SequencesOn(col_id)' = {[r EXCEPT !.current = @ + 1]}
<1>1. \A r \in sequences : r \in SequenceRows
  BY DEF Types
<1>2. sequences' = {IF s.col_id = col_id THEN [s EXCEPT !.current = @ + 1] ELSE s : s \in sequences}
  BY DEF NextVal
<1>3. \A r \in sequences : r.col_id = col_id =>
         /\ [r EXCEPT !.current = @ + 1] \in SequenceRows
         /\ [r EXCEPT !.current = @ + 1].id = r.id
         /\ [r EXCEPT !.current = @ + 1].col_id = r.col_id
         /\ [r EXCEPT !.current = @ + 1].current = r.current + 1
  BY <1>1 DEF SequenceRows
<1>4. sequences' \subseteq SequenceRows
  BY <1>1, <1>2, <1>3
<1>5. \A s \in sequences' : \E r \in sequences :
         /\ r.id = s.id /\ r.col_id = s.col_id
         /\ s.current = IF r.col_id = col_id THEN r.current + 1 ELSE r.current
  BY <1>2, <1>3, ZenonT(60)
<1>6. ASSUME NEW c, c # col_id PROVE SequencesOn(c)' = SequencesOn(c)
  BY <1>2, <1>3, <1>6 DEF SequencesOn
<1>7. ASSUME NEW r, SequencesOn(col_id) = {r}
      PROVE  SequencesOn(col_id)' = {[r EXCEPT !.current = @ + 1]}
  <2>1. \A s \in sequences : s.col_id = col_id <=> s = r
    BY <1>7 DEF SequencesOn
  <2>2. r \in sequences
    BY <1>7 DEF SequencesOn
  <2> QED
    BY <1>2, <1>3, <2>1, <2>2 DEF SequencesOn
<1> QED
  BY <1>4, <1>5, <1>6, <1>7

\* The value drawn is the one after the current.
LEMMA DrawnIsNext ==
    ASSUME NEW col_id, NEW r, SequencesOn(col_id) = {r}
    PROVE  DrawnVal(col_id) = r.current + 1
BY DEF DrawnVal

LEMMA DrawIdKeeps ==
    ASSUME Inv, DrawId
    PROVE  Inv'
<1> USE IdColumns
<1> PICK part : part = job.part
  OBVIOUS
<1>1. /\ Doing("create") /\ job.id = None /\ part \in DOMAIN IdColumn
      /\ NextVal(IdColumn[part]) /\ job' = [job EXCEPT !.id = DrawnVal(IdColumn[part])]
      /\ UNCHANGED <<tables, columns, indexes, files, trees, handles, made>>
  BY DEF DrawId
<1>2. job \in CreateJobs
  BY <1>1, JobOfCall DEF Inv
<1>3. PICK r \in sequences : SequencesOn(IdColumn[part]) = {r}
  BY <1>1 DEF Inv, SystemRows
<1>4. r \in SequenceRows /\ r.col_id = IdColumn[part]
  BY <1>3 DEF Inv, Types, SequencesOn
<1> DEFINE s == [r EXCEPT !.current = @ + 1]
<1>5. s \in SequenceRows /\ s.current = r.current + 1 /\ s.col_id = IdColumn[part] /\ r.current \in Nat
  BY <1>4 DEF SequenceRows
<1>6. SequencesOn(IdColumn[part])' = {s}
  <2>1. SequencesOn(IdColumn[part])' = {[r EXCEPT !.current = @ + 1]}
    BY <1>1, <1>3, NextValAdds DEF Inv
  <2> QED
    BY <2>1
<1> HIDE DEF s
<1>7. \A c : c # IdColumn[part] => SequencesOn(c)' = SequencesOn(c)
  BY <1>1, NextValAdds DEF Inv
<1>8. job' = [job EXCEPT !.id = s.current]
  BY <1>1, <1>3, <1>5, DrawnIsNext
<1>9. /\ job' \in CreateJobs /\ job'.id = s.current /\ job'.part = part /\ job'.op = "create"
      /\ job'.columns = job.columns /\ job'.name = job.name /\ job'.tbl_id = job.tbl_id /\ job'.todo = job.todo
  <2>1. [job EXCEPT !.id = s.current] \in CreateJobs
    BY <1>2, <1>5 DEF CreateJobs, SequenceRows
  <2> QED
    BY <1>2, <1>8, <2>1 DEF CreateJobs
<1>10. NoneFreed
  <2> SUFFICES ASSUME NEW q \in DOMAIN IdColumn, NEW id \in Nat, Taken(q, id) PROVE Taken(q, id)'
    BY DEF NoneFreed
  <2>1. CASE q = part
    <3>1. id <= r.current
      BY <1>1, <1>3, <1>4, <2>1 DEF Taken, Pending, SequenceRows
    <3>2. id < s.current /\ id <= s.current
      BY <1>5, <3>1
    <3> QED
      BY <1>6, <2>1, <3>2 DEF Taken
  <2>2. CASE q # part
    <3>1. IdColumn[q] # IdColumn[part]
      BY <1>1, <2>2
    <3>2. SequencesOn(IdColumn[q])' = SequencesOn(IdColumn[q])
      BY <1>7, <3>1
    <3>3. ~Pending(q) /\ ~Pending(q)'
      BY <1>9, <2>2 DEF Pending, Todo
    <3> QED
      BY <3>2, <3>3 DEF Taken
  <2> QED
    BY <2>1, <2>2
<1>11. IdsTaken'
  <2>1. LiveRows' = LiveRows
    BY <1>1 DEF LiveRows
  <2>2. \A x \in sequences' : \E y \in sequences : y.id = x.id /\ y.col_id = x.col_id
    BY <1>1, NextValAdds DEF Inv
  <2> QED
    BY <1>1, <1>10, <2>1, <2>2, IdsStay
<1>12. Types'
  <2>1. sequences' \subseteq SequenceRows
    BY <1>1, NextValAdds DEF Inv
  <2> QED
    BY <1>1, <1>9, <2>1 DEF Inv, Types
<1>13. SystemRows'
  <2>1. (\A q \in DOMAIN IdColumn : \E x \in sequences : SequencesOn(IdColumn[q]) = {x})'
    <3> SUFFICES ASSUME NEW q \in DOMAIN IdColumn PROVE \E x \in sequences' : SequencesOn(IdColumn[q])' = {x}
      OBVIOUS
    <3>1. CASE IdColumn[q] = IdColumn[part]
      BY <1>6, <3>1 DEF SequencesOn
    <3>2. CASE IdColumn[q] # IdColumn[part]
      <4>1. PICK x : SequencesOn(IdColumn[q]) = {x}
        BY DEF Inv, SystemRows
      <4> QED
        BY <1>7, <3>2, <4>1 DEF SequencesOn
    <3> QED
      BY <3>1, <3>2
  <2>2. (\A x \in sequences : (x.col_id = 10 => x.current >= 4) /\ (x.col_id = 30 => x.current >= 120))'
    <3> SUFFICES ASSUME NEW x \in sequences'
                 PROVE  (x.col_id = 10 => x.current >= 4) /\ (x.col_id = 30 => x.current >= 120)
      OBVIOUS
    <3>1. PICK y \in sequences : y.col_id = x.col_id /\ (x.current = y.current \/ x.current = y.current + 1)
      BY <1>1, NextValAdds DEF Inv
    <3>2. y.current \in Nat
      BY DEF Inv, Types, SequenceRows
    <3> QED
      BY <3>1, <3>2 DEF Inv, SystemRows
  <2> QED
    BY <1>1, <2>1, <2>2 DEF Inv, SystemRows
<1>14. CreateOK'
  <2>1. CreateOK
    BY DEF Inv
  <2>2. IF part = "table"
        THEN job.columns = << >> /\ \A t \in tables' : t.name # job.name
        ELSE job.tbl_id \in Nat /\ job.tbl_id > 4 /\ Taken("table", job.tbl_id)'
    BY <1>1, <1>10, <2>1 DEF CreateOK, NoneFreed
  <2>3. \A i \in DOMAIN job.columns : job.columns[i].id > 120 /\ Taken("column", job.columns[i].id)'
    <3>1. \A i \in DOMAIN job.columns : job.columns[i].id \in Nat
      BY <1>2, ColumnIds DEF CreateJobs
    <3> QED
      BY <1>1, <1>10, <2>1, <3>1 DEF CreateOK, NoneFreed
  <2>4. (part = "table" => s.current > 4) /\ (part = "column" => s.current > 120)
    BY <1>3, <1>4, <1>5 DEF Inv, SystemRows
  <2> QED
    BY <1>1, <1>6, <1>9, <2>1, <2>2, <2>3, <2>4 DEF CreateOK
<1>15. DropOK' /\ InsertOK' /\ FilesOK'
  BY <1>1, <1>9 DEF DropOK, InsertOK, Doing, Inv, FilesOK
<1> QED
  BY <1>11, <1>12, <1>13, <1>14, <1>15 DEF Inv

\* What comes next in a call: the same table with the same columns, and no id drawn.
Follows(next) ==
    /\ next \in CreateJobs
    /\ next.op = "create" /\ next.id = None /\ next.name = job.name
    /\ next.tbl_id = job.tbl_id /\ next.columns = job.columns
    /\ next.part \in {"column", "sequence", "index"} => next.todo # << >>

LEMMA ThenFollows ==
    ASSUME job \in CreateJobs,
           NEW part \in {"table", "column", "sequence", "index", "table file", "fsm file"},
           part \in {"column", "sequence", "index"} => job.todo # << >>
    PROVE  Follows(Then(part)) /\ Then(part).part = part
<1>1. Then(part) \in CreateJobs
  BY DEF Then, CreateJobs
<1> QED
  BY <1>1 DEF Then, CreateJobs, Follows

LEMMA StartColumnFollows ==
    ASSUME job \in CreateJobs, NEW todo \in Seq(CreateColumnCommand)
    PROVE  Follows(StartColumn(todo)) /\ StartColumn(todo).part \in {"column", "table file"}
<1>1. StartColumn(todo) \in CreateJobs
  BY DEF StartColumn, CreateJobs
<1> QED
  BY <1>1 DEF StartColumn, CreateJobs, Follows

LEMMA NextColumnFollows ==
    ASSUME job \in CreateJobs, job.todo # << >>
    PROVE  Follows(NextColumn) /\ NextColumn.part \in {"column", "table file"}
<1>1. job.todo \in Seq(CreateColumnCommand)
  BY DEF CreateJobs
<1>2. Tail(job.todo) \in Seq(CreateColumnCommand)
  BY <1>1
<1> QED
  BY <1>2, StartColumnFollows DEF NextColumn

\* The command that is carried out.
LEMMA CurrentIsCommand ==
    ASSUME job \in CreateJobs, job.todo # << >>
    PROVE  Current \in CreateColumnCommand
<1>1. job.todo \in Seq(CreateColumnCommand)
  BY DEF CreateJobs
<1> QED
  BY <1>1 DEF Current

\* The last of the columns is one of them.
LEMMA LastColumn ==
    ASSUME NEW cols \in Seq(Columns), cols # << >>
    PROVE  Len(cols) \in DOMAIN cols /\ Last(cols) = cols[Len(cols)] /\ Last(cols) \in Columns
<1>1. Len(cols) \in DOMAIN cols
  OBVIOUS
<1> QED
  BY <1>1, ColumnIds DEF Last

\* What is known of a call stays known after its first row is there.
LEMMA CreateGoesOn ==
    ASSUME Inv, NoneFreed, Doing("create"), job' \in CreateJobs, job'.op = "create", job'.id = None,
           job'.part # "table",
           job'.part \in {"column", "sequence", "index"} => job'.todo # << >>,
           job'.part \in {"sequence", "index"} => job'.columns # << >>,
           job'.tbl_id \in Nat, job'.tbl_id > 4, Taken("table", job.tbl_id)',
           (\A i \in DOMAIN job.columns : job.columns[i].id > 120 /\ Taken("column", job.columns[i].id))'
    PROVE  CreateOK' /\ DropOK' /\ InsertOK'
BY DEF CreateOK, DropOK, InsertOK, Doing

LEMMA InsertTableRowKeeps ==
    ASSUME Inv, InsertTableRow
    PROVE  Inv'
<1> USE IdColumns
<1> PICK id : id = job.id
  OBVIOUS
<1>1. /\ Doing("create") /\ job.part = "table" /\ id # None
      /\ tables' = tables \cup {[id |-> id, name |-> job.name]}
      /\ job' = [StartColumn(job.todo) EXCEPT !.tbl_id = id]
      /\ UNCHANGED <<columns, sequences, indexes, files, trees, handles, made>>
  BY DEF InsertTableRow, Todo
<1>2. job \in CreateJobs /\ job.columns = << >> /\ id \in Nat /\ id > 4 /\ job.name \in TableNames
  BY <1>1, JobOfCall DEF Inv, CreateOK, CreateJobs
<1>3. \A s \in SequencesOn(IdColumn["table"]) : id = s.current
  BY <1>1 DEF Inv, CreateOK
<1> DEFINE next == StartColumn(job.todo)
<1>4. Follows(next) /\ next.part \in {"column", "table file"}
  BY <1>2, StartColumnFollows DEF CreateJobs
<1> HIDE DEF next
<1>5. /\ job' \in CreateJobs
      /\ job'.op = "create" /\ job'.id = None /\ job'.part \in {"column", "table file"}
      /\ job'.columns = << >> /\ job'.tbl_id = id
      /\ job'.part \in {"column", "sequence", "index"} => job'.todo # << >>
  <2>1. job' = [next EXCEPT !.tbl_id = id]
    BY <1>1 DEF next
  <2>2. [next EXCEPT !.tbl_id = id] \in CreateJobs
    BY <1>2, <1>4 DEF Follows, CreateJobs
  <2> QED
    BY <1>2, <1>4, <2>1, <2>2 DEF Follows, CreateJobs
<1>6. \A part \in DOMAIN IdColumn : ~Pending(part)'
  BY <1>5 DEF Pending
<1>7. NoneFreed
  BY <1>1, <1>6, TakenStaysPut DEF Inv
<1>8. Taken("table", id)'
  <2>1. \A s \in SequencesOn(IdColumn["table"])' : id = s.current
    BY <1>1, <1>3 DEF SequencesOn
  <2> QED
    BY <1>2, <1>6, <2>1 DEF Taken
<1>9. IdsTaken'
  <2>1. LiveRows' = LiveRows
    BY <1>1 DEF LiveRows
  <2>2. \A t \in tables' : t \in tables \/ Taken("table", t.id)'
    BY <1>1, <1>8
  <2> QED
    BY <1>1, <1>7, <2>1, <2>2, IdsStay
<1>10. Types'
  <2>1. tables' \subseteq TableRows
    BY <1>1, <1>2 DEF Inv, Types, TableRows
  <2> QED
    BY <1>1, <1>5, <2>1 DEF Inv, Types
<1>11. SystemRows'
  <2>1. \A t \in tables : t.id # id /\ t.name # job.name
    <3>1. \A t \in tables : t.name # job.name
      BY <1>1 DEF Inv, CreateOK
    <3>2. ASSUME NEW t \in tables PROVE t.id # id
      <4>1. t.id \in Nat /\ Taken("table", t.id)
        BY DEF Inv, Types, TableRows, IdsTaken
      <4>2. PICK s : SequencesOn(IdColumn["table"]) = {s}
        <5>1. "table" \in DOMAIN IdColumn
          OBVIOUS
        <5> QED
          BY <5>1, ZenonT(60) DEF Inv, SystemRows
      <4>3. t.id < s.current
        BY <1>1, <4>1, <4>2 DEF Taken, Pending, Todo
      <4> QED
        BY <1>2, <1>3, <4>1, <4>2, <4>3
    <3> QED
      BY <3>1, <3>2
  <2>2. (\A t \in tables : t.id > 4 <=> t.name \in TableNames)'
    BY <1>1, <1>2 DEF Inv, SystemRows
  <2>3. (\A t, other \in tables : t.id = other.id \/ t.name = other.name => t = other)'
    BY <1>1, <2>1 DEF Inv, SystemRows
  <2> QED
    BY <1>1, <2>2, <2>3 DEF Inv, SystemRows, SequencesOn
<1>12. CreateOK' /\ DropOK' /\ InsertOK'
  <2>1. job'.tbl_id \in Nat /\ job'.tbl_id > 4 /\ Taken("table", job.tbl_id)'
    BY <1>2, <1>5, <1>8
  <2>2. (\A i \in DOMAIN job.columns : job.columns[i].id > 120 /\ Taken("column", job.columns[i].id))'
    <3>1. job'.columns = << >>
      BY <1>5
    <3>2. DOMAIN << >> = {}
      OBVIOUS
    <3> QED
      BY <3>1, <3>2
  <2> QED
    BY <1>1, <1>5, <1>7, <2>1, <2>2, CreateGoesOn
<1>13. FilesOK'
  BY <1>1 DEF Inv, FilesOK
<1> QED
  BY <1>9, <1>10, <1>11, <1>12, <1>13 DEF Inv

\* The job after a column has its row.
AddedTo(next, col) == [next EXCEPT !.columns = Append(@, col)]

LEMMA WithColumn ==
    ASSUME NEW next, Follows(next), NEW col \in Columns, NEW new, new = AddedTo(next, col)
    PROVE  /\ new \in CreateJobs /\ new.op = "create" /\ new.id = None
           /\ new.part = next.part /\ new.todo = next.todo /\ new.tbl_id = job.tbl_id
           /\ new.name = job.name /\ new.columns = Append(job.columns, col)
<1>1. next \in CreateJobs /\ next.columns = job.columns /\ next.columns \in Seq(Columns)
  BY DEF Follows, CreateJobs
<1> PICK cols : cols = Append(next.columns, col)
  OBVIOUS
<1>2. cols \in Seq(Columns)
  BY <1>1
<1>3. new = [next EXCEPT !.columns = cols]
  BY DEF AddedTo
<1>4. new \in CreateJobs
  BY <1>1, <1>2, <1>3 DEF CreateJobs
<1>5. /\ new.op = next.op /\ new.id = next.id /\ new.part = next.part /\ new.name = next.name
      /\ new.todo = next.todo /\ new.tbl_id = next.tbl_id /\ new.columns = cols
  BY <1>1, <1>3 DEF CreateJobs
<1> QED
  BY <1>1, <1>4, <1>5 DEF Follows

LEMMA InsertColumnRowKeeps ==
    ASSUME Inv, InsertColumnRow
    PROVE  Inv'
<1> USE IdColumns
<1> PICK id : id = job.id
  OBVIOUS
<1> PICK tbl_id : tbl_id = job.tbl_id
  OBVIOUS
<1> PICK cmd : cmd = Current
  OBVIOUS
<1> DEFINE row  == ColumnRow(id, tbl_id, cmd.name, cmd.col_type)
           slot == Slot(row, NameLength[cmd.name])
           col  == [id |-> id, name |-> cmd.name, col_type |-> cmd.col_type]
<1>1. PICK next \in {Then("sequence"), Then("index"), NextColumn} :
           /\ columns' = WithRecord(columns, slot)
           /\ job' = [next EXCEPT !.columns = Append(@, col)]
  BY DEF InsertColumnRow
<1>2. /\ Doing("create") /\ job.part = "column" /\ id # None
      /\ UNCHANGED <<tables, sequences, indexes, files, trees, handles, made>>
  BY DEF InsertColumnRow, Todo
<1>3. job \in CreateJobs /\ id \in Nat /\ job.columns \in Seq(Columns) /\ job.todo # << >>
  BY <1>2, JobOfCall DEF Inv, CreateOK, CreateJobs
<1>4. /\ tbl_id \in Nat /\ tbl_id > 4 /\ Taken("table", tbl_id) /\ id > 120
      /\ \A s \in SequencesOn(IdColumn["column"]) : id = s.current
      /\ \A i \in DOMAIN job.columns : job.columns[i].id > 120 /\ Taken("column", job.columns[i].id)
  BY <1>2 DEF Inv, CreateOK
<1>5. cmd.name \in DOMAIN NameLength /\ cmd.col_type \in ColumnTypes
  BY <1>3, CurrentIsCommand DEF CreateColumnCommand
<1>6. cmd.name \in ColumnNames
  BY <1>5 DEF ColumnNames
<1>7. row \in ColumnRows /\ row.id = id /\ row.t_id = tbl_id
  BY <1>3, <1>4, <1>5, <1>6, ColumnReadsBack, ZenonT(60) DEF ColumnRow
<1>8. slot \in ColumnSlots /\ slot.row = row /\ ~slot.deleted
  <2>1. NameLength[cmd.name] \in Nat
    BY <1>5, CatalogAssumption
  <2> HIDE DEF row
  <2> QED
    BY <1>7, <2>1 DEF Slot, ColumnSlots
<1>9. col \in Columns /\ col.id = id
  BY <1>3, <1>5, <1>6 DEF Columns
<1>10. Follows(next) /\ next.part # "table" /\ next.part \in {"column", "sequence", "index", "table file"}
  BY <1>3, ThenFollows, NextColumnFollows
<1> HIDE DEF row, slot, col
<1>11. /\ columns' \in Seq(ColumnSlots)
       /\ \A i \in DOMAIN columns' :
             \/ columns'[i] = slot
             \/ i \in DOMAIN columns /\ columns'[i] = columns[i]
             \/ columns'[i].deleted /\ columns'[i].row = None
  <2>1. columns \in Seq(ColumnSlots) /\ \A i \in DOMAIN columns : columns[i].deleted => columns[i].row = None
    BY DEF Inv, Types
  <2> QED
    BY <1>1, <1>8, <2>1, WithRecordSlots
<1>12. LiveRows' \subseteq LiveRows \cup {row}
  BY <1>8, <1>11 DEF LiveRows
<1>13. /\ job' \in CreateJobs /\ job'.op = "create" /\ job'.id = None
       /\ job'.part = next.part /\ job'.todo = next.todo /\ job'.tbl_id = tbl_id
       /\ job'.columns = Append(job.columns, col)
  <2> PICK new : new = AddedTo(next, col)
    OBVIOUS
  <2>1. /\ new \in CreateJobs /\ new.op = "create" /\ new.id = None
        /\ new.part = next.part /\ new.todo = next.todo /\ new.tbl_id = job.tbl_id
        /\ new.columns = Append(job.columns, col)
    <3>1. Follows(next)
      BY <1>10
    <3>2. col \in Columns
      BY <1>9
    <3>3. new = AddedTo(next, col)
      OBVIOUS
    <3> QED
      BY <3>1, <3>2, <3>3, WithColumn
  <2> QED
    BY <1>1, <2>1 DEF AddedTo
<1>14. NoneFreed
  <2>1. \A part \in DOMAIN IdColumn : ~Pending(part)'
    BY <1>13 DEF Pending
  <2> QED
    BY <1>2, <2>1, TakenStaysPut DEF Inv
<1>15. Taken("table", tbl_id)' /\ Taken("column", id)'
  <2>1. Taken("table", tbl_id)'
    BY <1>4, <1>14 DEF NoneFreed
  <2>2. \A s \in SequencesOn(IdColumn["column"])' : id = s.current
    BY <1>2, <1>4 DEF SequencesOn
  <2>3. ~Pending("column")'
    BY <1>13 DEF Pending
  <2> QED
    BY <1>3, <2>1, <2>2, <2>3 DEF Taken
<1>16. IdsTaken'
  <2>1. \A r \in LiveRows' : r \in LiveRows \/ (Taken("table", r.t_id)' /\ Taken("column", r.id)')
    BY <1>7, <1>12, <1>15
  <2> QED
    BY <1>2, <1>14, <2>1, IdsStay
<1>17. Types'
  <2>1. (\A i \in DOMAIN columns :
            IF columns[i].deleted THEN columns[i].row = None ELSE columns[i].row \in ColumnRows)'
    BY <1>7, <1>8, <1>11 DEF Inv, Types
  <2> QED
    BY <1>2, <1>11, <1>13, <2>1 DEF Inv, Types
<1>18. SystemRows'
  <2>1. (\A i \in DOMAIN columns : ~columns[i].deleted /\ columns[i].row.t_id > 4 => columns[i].row.id > 120)'
    BY <1>4, <1>7, <1>8, <1>11 DEF Inv, SystemRows
  <2> QED
    BY <1>2, <2>1 DEF Inv, SystemRows, SequencesOn
<1>19. CreateOK' /\ DropOK' /\ InsertOK'
  <2>1. job'.tbl_id \in Nat /\ job'.tbl_id > 4 /\ Taken("table", job.tbl_id)'
    BY <1>4, <1>13, <1>15
  <2>2. (\A i \in DOMAIN job.columns : job.columns[i].id > 120 /\ Taken("column", job.columns[i].id))'
    <3> PICK cols, n : cols = job.columns /\ n = Len(job.columns)
      OBVIOUS
    <3>1. /\ DOMAIN job'.columns = 1..(n + 1) /\ n \in Nat
          /\ \A i \in 1..n : job'.columns[i] = cols[i]
          /\ job'.columns[n + 1] = col
      BY <1>3, <1>9, <1>13
    <3>2. \A i \in 1..n : cols[i].id > 120 /\ Taken("column", cols[i].id)'
      <4>1. DOMAIN cols = 1..n /\ \A i \in DOMAIN cols : cols[i].id \in Nat
        BY <1>3, ColumnIds
      <4> QED
        BY <1>4, <1>14, <4>1 DEF NoneFreed
    <3> QED
      BY <1>4, <1>9, <1>15, <3>1, <3>2, SMTT(30)
  <2>3. job'.columns # << >>
    BY <1>3, <1>9, <1>13
  <2> QED
    BY <1>2, <1>10, <1>13, <1>14, <2>1, <2>2, <2>3, CreateGoesOn DEF Follows
<1>20. FilesOK'
  BY <1>2 DEF Inv, FilesOK
<1> QED
  BY <1>16, <1>17, <1>18, <1>19, <1>20 DEF Inv

LEMMA InsertSequenceRowKeeps ==
    ASSUME Inv, InsertSequenceRow
    PROVE  Inv'
<1> USE IdColumns
<1> PICK id : id = job.id
  OBVIOUS
<1> PICK col_id : col_id = Last(job.columns).id
  OBVIOUS
<1> DEFINE new == [id |-> id, col_id |-> col_id, current |-> 0]
<1>1. /\ Doing("create") /\ job.part = "sequence" /\ id # None
      /\ sequences' = sequences \cup {new}
      /\ job' \in {Then("index"), NextColumn}
      /\ UNCHANGED <<tables, columns, indexes, files, trees, handles, made>>
  BY DEF InsertSequenceRow, Todo
<1>2. /\ job \in CreateJobs /\ id \in Nat /\ job.columns \in Seq(Columns)
      /\ job.todo # << >> /\ job.columns # << >>
  BY <1>1, JobOfCall DEF Inv, CreateOK, CreateJobs
<1>3. CreateOK
  BY DEF Inv
<1>4. col_id \in Nat /\ col_id > 120 /\ Taken("column", col_id)
  <2>1. PICK n \in DOMAIN job.columns : col_id = job.columns[n].id
    BY <1>2, LastColumn
  <2> QED
    BY <1>1, <1>2, <1>3, <2>1, ColumnIds DEF CreateOK
<1>5. Follows(job') /\ job'.part # "table"
  BY <1>1, <1>2, ThenFollows, NextColumnFollows
<1>6. /\ job' \in CreateJobs /\ job'.op = "create" /\ job'.id = None
      /\ job'.columns = job.columns /\ job'.tbl_id = job.tbl_id
      /\ job'.part \in {"column", "sequence", "index"} => job'.todo # << >>
  BY <1>5 DEF Follows
<1>7. \A part \in DOMAIN IdColumn : SequencesOn(IdColumn[part])' = SequencesOn(IdColumn[part])
  BY <1>1, <1>4 DEF SequencesOn
<1>8. \A part \in DOMAIN IdColumn : ~Pending(part)'
  BY <1>6 DEF Pending
<1>9. NoneFreed
  <2>1. \A part \in DOMAIN IdColumn : \A s \in SequencesOn(IdColumn[part])' :
           s \in SequencesOn(IdColumn[part]) /\ s.current \in Nat /\ s.current <= s.current
    BY <1>7 DEF SequencesOn, Inv, Types, SequenceRows
  <2> QED
    BY <1>8, <2>1, TakenStays DEF Inv
<1>10. Taken("column", col_id)' /\ Taken("sequence", id)'
  <2>1. Taken("column", col_id)'
    BY <1>4, <1>9 DEF NoneFreed
  <2>2. \A s \in SequencesOn(IdColumn["sequence"])' : id = s.current
    <3>1. \A s \in SequencesOn(IdColumn["sequence"]) : id = s.current
      BY <1>1, <1>3 DEF CreateOK
    <3> QED
      BY <1>7, <3>1
  <2>3. ~Pending("sequence")'
    BY <1>8
  <2> QED
    BY <1>2, <2>1, <2>2, <2>3 DEF Taken
<1>11. IdsTaken'
  <2>1. LiveRows' = LiveRows
    BY <1>1 DEF LiveRows
  <2>2. \A s \in sequences' :
           \/ \E r \in sequences : r.id = s.id /\ r.col_id = s.col_id
           \/ Taken("sequence", s.id)' /\ Taken("column", s.col_id)'
    BY <1>1, <1>10
  <2> QED
    BY <1>1, <1>9, <2>1, <2>2, IdsStay
<1>12. Types'
  <2>1. sequences' \subseteq SequenceRows
    BY <1>1, <1>2, <1>4 DEF Inv, Types, SequenceRows
  <2> QED
    BY <1>1, <1>6, <2>1 DEF Inv, Types
<1>13. SystemRows'
  <2>1. (\A part \in DOMAIN IdColumn : \E s \in sequences : SequencesOn(IdColumn[part]) = {s})'
    BY <1>1, <1>7 DEF Inv, SystemRows
  <2>2. (\A s \in sequences : (s.col_id = 10 => s.current >= 4) /\ (s.col_id = 30 => s.current >= 120))'
    BY <1>1, <1>4 DEF Inv, SystemRows
  <2> QED
    BY <1>1, <2>1, <2>2 DEF Inv, SystemRows
<1>14. CreateOK' /\ DropOK' /\ InsertOK'
  <2>1. job'.tbl_id \in Nat /\ job'.tbl_id > 4 /\ Taken("table", job.tbl_id)'
    BY <1>1, <1>3, <1>6, <1>9 DEF CreateOK, NoneFreed
  <2>2. (\A i \in DOMAIN job.columns : job.columns[i].id > 120 /\ Taken("column", job.columns[i].id))'
    <3> SUFFICES ASSUME NEW i \in DOMAIN job.columns, NEW c, c = job.columns[i].id
                 PROVE  c > 120 /\ Taken("column", c)'
      BY <1>6
    <3> QED
      BY <1>1, <1>2, <1>3, <1>9, ColumnIds DEF CreateOK, NoneFreed
  <2> QED
    BY <1>1, <1>2, <1>5, <1>6, <1>9, <2>1, <2>2, CreateGoesOn
<1>15. FilesOK'
  BY <1>1 DEF Inv, FilesOK
<1> QED
  BY <1>11, <1>12, <1>13, <1>14, <1>15 DEF Inv

LEMMA InsertIndexRowKeeps ==
    ASSUME Inv, InsertIndexRow
    PROVE  Inv'
<1> USE IdColumns
<1> PICK id, t_id, col_id : id = job.id /\ t_id = job.tbl_id /\ col_id = Last(job.columns).id
  OBVIOUS
<1>1. /\ Doing("create") /\ job.part = "index" /\ id # None
      /\ indexes' = indexes \cup {[id |-> id, t_id |-> t_id, col_ids |-> col_id]}
      /\ job' = NextColumn
      /\ UNCHANGED <<tables, columns, sequences, files, trees, handles, made>>
  BY DEF InsertIndexRow, Todo
<1>2. /\ job \in CreateJobs /\ id \in Nat /\ job.columns \in Seq(Columns)
      /\ job.todo # << >> /\ job.columns # << >>
  BY <1>1, JobOfCall DEF Inv, CreateOK, CreateJobs
<1>3. CreateOK
  BY DEF Inv
<1>4. col_id \in Nat /\ Taken("column", col_id) /\ t_id \in Nat /\ Taken("table", t_id)
  <2>1. PICK n \in DOMAIN job.columns : col_id = job.columns[n].id
    BY <1>2, LastColumn
  <2> QED
    BY <1>1, <1>2, <1>3, <2>1, ColumnIds DEF CreateOK
<1>5. Follows(job') /\ job'.part \in {"column", "table file"}
  BY <1>1, <1>2, NextColumnFollows
<1>6. /\ job' \in CreateJobs /\ job'.op = "create" /\ job'.id = None
      /\ job'.columns = job.columns /\ job'.tbl_id = job.tbl_id
      /\ job'.part \in {"column", "sequence", "index"} => job'.todo # << >>
  BY <1>5 DEF Follows
<1>7. \A part \in DOMAIN IdColumn : ~Pending(part)'
  BY <1>6 DEF Pending
<1>8. NoneFreed
  BY <1>1, <1>7, TakenStaysPut DEF Inv
<1>9. Taken("index", id)' /\ Taken("table", t_id)' /\ Taken("column", col_id)'
  <2>1. \A s \in SequencesOn(IdColumn["index"])' : id = s.current
    BY <1>1, <1>3 DEF CreateOK, SequencesOn
  <2>2. Taken("index", id)'
    BY <1>2, <1>7, <2>1 DEF Taken
  <2> QED
    BY <1>4, <1>8, <2>2 DEF NoneFreed
<1>10. IdsTaken'
  <2>1. LiveRows' = LiveRows
    BY <1>1 DEF LiveRows
  <2>2. \A x \in indexes' :
           \/ x \in indexes
           \/ Taken("index", x.id)' /\ Taken("table", x.t_id)' /\ Taken("column", x.col_ids)'
    BY <1>1, <1>9
  <2> QED
    BY <1>1, <1>8, <2>1, <2>2, IdsStay
<1>11. Types'
  <2>1. indexes' \subseteq IndexRows
    BY <1>1, <1>2, <1>4 DEF Inv, Types, IndexRows
  <2> QED
    BY <1>1, <1>6, <2>1 DEF Inv, Types
<1>12. SystemRows'
  BY <1>1 DEF Inv, SystemRows, SequencesOn
<1>13. CreateOK' /\ DropOK' /\ InsertOK'
  <2>1. job'.tbl_id \in Nat /\ job'.tbl_id > 4 /\ Taken("table", job.tbl_id)'
    BY <1>1, <1>3, <1>6, <1>8 DEF CreateOK, NoneFreed
  <2>2. (\A i \in DOMAIN job.columns : job.columns[i].id > 120 /\ Taken("column", job.columns[i].id))'
    <3> SUFFICES ASSUME NEW i \in DOMAIN job.columns, NEW c, c = job.columns[i].id
                 PROVE  c > 120 /\ Taken("column", c)'
      BY <1>6
    <3> QED
      BY <1>1, <1>2, <1>3, <1>8, ColumnIds DEF CreateOK, NoneFreed
  <2> QED
    BY <1>1, <1>5, <1>6, <1>8, <2>1, <2>2, CreateGoesOn
<1>14. FilesOK'
  BY <1>1 DEF Inv, FilesOK
<1> QED
  BY <1>10, <1>11, <1>12, <1>13, <1>14 DEF Inv

---------------------------------------------------------------------------
(* The operations on files. *)

FilesInv == files \in [DOMAIN files -> Files] /\ FilesOK

\* write_page with a number of the file or a later one: the pages between are holes.
LEMMA WithPageMakes ==
    ASSUME NEW pages \in Seq(HeapPages), NEW page \in HeapPages, page.page_id > 0
    PROVE  /\ WithPage(pages, page) \in Seq(HeapPages)
           /\ Len(WithPage(pages, page)) = IF page.page_id > Len(pages) THEN page.page_id ELSE Len(pages)
           /\ DOMAIN WithPage(pages, page) = 1..Len(WithPage(pages, page))
           /\ \A i \in DOMAIN WithPage(pages, page) : WithPage(pages, page)[i] =
                 IF i = page.page_id THEN page ELSE IF i <= Len(pages) THEN pages[i] ELSE Hole
<1> DEFINE n == IF page.page_id > Len(pages) THEN page.page_id ELSE Len(pages)
           At(i) == IF i = page.page_id THEN page ELSE IF i <= Len(pages) THEN pages[i] ELSE Hole
<1>1. n \in Nat
  BY DEF HeapPages
<1>2. Hole \in HeapPages
  BY DEF Hole, NewPage, HeapPages
<1>3. \A i \in 1..n : At(i) \in HeapPages
  BY <1>2
<1>4. WithPage(pages, page) = [i \in 1..n |-> At(i)]
  BY DEF WithPage
<1> HIDE DEF At, n
<1>5. [i \in 1..n |-> At(i)] \in Seq(HeapPages) /\ Len([i \in 1..n |-> At(i)]) = n
  BY <1>1, <1>3
<1> QED
  BY <1>1, <1>4, <1>5 DEF At, n

\* The header and the pages of a file.
LEMMA FileIs ==
    ASSUME FilesInv, NEW f \in DOMAIN files
    PROVE  /\ files[f].metadata \in Metadata \cup {NoMetadata} /\ files[f].pages \in Seq(HeapPages)
           /\ files[f].metadata # NoMetadata =>
                 /\ files[f].metadata \in Metadata
                 /\ files[f].metadata.next_id \in Nat /\ files[f].metadata.number_of_pages \in Nat
                 /\ files[f].metadata.next_id = files[f].metadata.number_of_pages + 1
                 /\ Len(files[f].pages) <= files[f].metadata.number_of_pages
           /\ \A i \in DOMAIN files[f].pages : files[f].pages[i].page_id = i \/ files[f].pages[i] = Hole
<1>1. files[f] \in Files
  BY DEF FilesInv
<1> QED
  BY <1>1 DEF FilesInv, FilesOK, Files, Metadata

LEMMA CreateMakes ==
    ASSUME FilesInv, NEW f, NEW complete \in BOOLEAN, Create(f, complete)
    PROVE  /\ FilesInv' /\ f \notin DOMAIN files /\ DOMAIN files' = DOMAIN files \cup {f}
           /\ \A g \in DOMAIN files : files'[g] = files[g]
           /\ files'[f] = [metadata |-> IF complete THEN NewMetadata ELSE NoMetadata, pages |-> << >>]
<1> DEFINE new == [metadata |-> IF complete THEN NewMetadata ELSE NoMetadata, pages |-> << >>]
<1>1. /\ f \notin DOMAIN files
      /\ files' = [g \in DOMAIN files \cup {f} |-> IF g # f THEN files[g] ELSE new]
  BY DEF Create, Exists
<1>2. NewMetadata \in Metadata /\ NewMetadata.next_id = 1 /\ NewMetadata.number_of_pages = 0
  BY DEF NewMetadata, Metadata
<1>3. new \in Files
  BY <1>2 DEF Files
<1>4. new.pages = << >> /\ new.metadata \in {NoMetadata, NewMetadata}
  OBVIOUS
<1> HIDE DEF new
<1>5. /\ DOMAIN files' = DOMAIN files \cup {f}
      /\ \A g \in DOMAIN files : files'[g] = files[g]
      /\ files'[f] = new
  BY <1>1
<1>6. files' \in [DOMAIN files' -> Files]
  BY <1>1, <1>3 DEF FilesInv
<1>7. FilesOK'
  <2> SUFFICES ASSUME NEW g \in DOMAIN files'
               PROVE  /\ files'[g].metadata = NoMetadata => files'[g].pages = << >>
                      /\ files'[g].metadata # NoMetadata =>
                            /\ files'[g].metadata.next_id = files'[g].metadata.number_of_pages + 1
                            /\ Len(files'[g].pages) <= files'[g].metadata.number_of_pages
                      /\ \A i \in DOMAIN files'[g].pages :
                            files'[g].pages[i].page_id = i \/ files'[g].pages[i] = Hole
    BY DEF FilesOK
  <2>1. CASE g \in DOMAIN files
    BY <1>5, <2>1 DEF FilesInv, FilesOK
  <2>2. CASE g = f
    <3>1. files'[g].pages = << >> /\ files'[g].metadata \in {NoMetadata, NewMetadata}
      BY <1>4, <1>5, <2>2
    <3>2. DOMAIN << >> = {} /\ Len(<< >>) = 0
      OBVIOUS
    <3> QED
      BY <1>2, <3>1, <3>2
  <2> QED
    BY <1>5, <2>1, <2>2
<1> QED
  BY <1>1, <1>5, <1>6, <1>7 DEF FilesInv, new

\* What replaces one file leaves the others as they were.
LEMMA ReplaceFile ==
    ASSUME FilesInv, NEW f \in DOMAIN files, NEW new \in Files, files' = [files EXCEPT ![f] = new],
           new.metadata \in Metadata,
           new.metadata.next_id = new.metadata.number_of_pages + 1,
           Len(new.pages) <= new.metadata.number_of_pages,
           \A i \in DOMAIN new.pages : new.pages[i].page_id = i \/ new.pages[i] = Hole
    PROVE  /\ FilesInv' /\ DOMAIN files' = DOMAIN files /\ files'[f] = new
           /\ \A g \in DOMAIN files : g # f => files'[g] = files[g]
<1>1. /\ DOMAIN files' = DOMAIN files /\ files'[f] = new
      /\ \A g \in DOMAIN files : g # f => files'[g] = files[g]
  OBVIOUS
<1>2. files' \in [DOMAIN files' -> Files]
  BY DEF FilesInv
<1>3. new.metadata # NoMetadata
  BY HeapFileAssumption DEF Metadata
<1>4. FilesOK'
  BY <1>1, <1>3 DEF FilesInv, FilesOK
<1> QED
  BY <1>1, <1>2, <1>4 DEF FilesInv

LEMMA AllocatePageMakes ==
    ASSUME FilesInv, NEW f \in DOMAIN files, NEW complete \in BOOLEAN, AllocatePage(f, complete)
    PROVE  /\ FilesInv' /\ DOMAIN files' = DOMAIN files /\ ReadMetadata(f) \in Metadata
           /\ \A g \in DOMAIN files : g # f => files'[g] = files[g]
           /\ files'[f] = [metadata |-> Allocated(ReadMetadata(f)),
                           pages    |-> IF complete
                                        THEN WithPage(files[f].pages, NewPage(ReadMetadata(f).next_id))
                                        ELSE files[f].pages]
           /\ Allocated(ReadMetadata(f)) \in Metadata
<1> PICK m : m = ReadMetadata(f)
  OBVIOUS
<1> PICK pages : pages = files[f].pages
  OBVIOUS
<1>1. m = files[f].metadata /\ m # NoMetadata
  BY DEF AllocatePage, ReadMetadata, Exists
<1>2. /\ m \in Metadata /\ m.next_id \in Nat /\ m.number_of_pages \in Nat
      /\ m.next_id = m.number_of_pages + 1 /\ Len(pages) <= m.number_of_pages
      /\ pages \in Seq(HeapPages)
      /\ \A i \in DOMAIN pages : pages[i].page_id = i \/ pages[i] = Hole
  BY <1>1, FileIs
<1> DEFINE page == NewPage(m.next_id)
           new  == [metadata |-> Allocated(m),
                    pages    |-> IF complete THEN WithPage(pages, page) ELSE pages]
<1>3. files[f] = [metadata |-> m, pages |-> pages]
  BY <1>1 DEF FilesInv, Files
<1>4. files' = [files EXCEPT ![f] = new]
  <2>1. files' = [files EXCEPT ![f] = [files[f] EXCEPT
                     !.metadata = Allocated(@), !.pages = IF complete THEN WithPage(@, page) ELSE @]]
    BY DEF AllocatePage
  <2>2. new = [files[f] EXCEPT !.metadata = Allocated(@), !.pages = IF complete THEN WithPage(@, page) ELSE @]
    <3> PICK c, d : c = Allocated(m) /\ d = IF complete THEN WithPage(pages, page) ELSE pages
      OBVIOUS
    <3> PICK e : e = [files[f] EXCEPT !.metadata = c, !.pages = d]
      OBVIOUS
    <3>1. e \in [metadata : {c}, pages : {d}]
      BY <1>3
    <3>2. e = [metadata |-> c, pages |-> d]
      BY <3>1
    <3> QED
      BY <1>1, <3>2
  <2> QED
    BY <2>1, <2>2
<1>5. /\ Allocated(m) \in Metadata
      /\ Allocated(m).next_id = m.next_id + 1 /\ Allocated(m).number_of_pages = m.number_of_pages + 1
  BY <1>2 DEF Allocated, Metadata
<1>6. page \in HeapPages /\ page.page_id = m.next_id
  BY <1>2 DEF NewPage, HeapPages
<1> HIDE DEF page
<1> PICK after : after = IF complete THEN WithPage(pages, page) ELSE pages
  OBVIOUS
<1>7. /\ after \in Seq(HeapPages) /\ Len(after) <= m.number_of_pages + 1
      /\ \A i \in DOMAIN after : after[i].page_id = i \/ after[i] = Hole
  <2>1. CASE complete
    <3>1. /\ WithPage(pages, page) \in Seq(HeapPages)
          /\ Len(WithPage(pages, page)) = m.next_id
          /\ \A i \in DOMAIN WithPage(pages, page) :
                /\ i \in 1..m.next_id
                /\ WithPage(pages, page)[i] =
                     IF i = m.next_id THEN page ELSE IF i <= Len(pages) THEN pages[i] ELSE Hole
      BY <1>2, <1>6, WithPageMakes
    <3>2. \A i \in 1..Len(pages) : pages[i].page_id = i \/ pages[i] = Hole
      BY <1>2
    <3>3. after = WithPage(pages, page)
      BY <2>1
    <3>4. ASSUME NEW i \in DOMAIN after PROVE after[i].page_id = i \/ after[i] = Hole
      <4>1. CASE i = m.next_id
        BY <1>6, <3>1, <3>3, <4>1
      <4>2. CASE i # m.next_id /\ i <= Len(pages)
        BY <1>2, <3>1, <3>2, <3>3, <4>2
      <4>3. CASE i # m.next_id /\ ~(i <= Len(pages))
        BY <3>1, <3>3, <4>3
      <4> QED
        BY <4>1, <4>2, <4>3
    <3> QED
      BY <1>2, <3>1, <3>3, <3>4
  <2>2. CASE ~complete
    BY <1>2, <2>2
  <2> QED
    BY <2>1, <2>2
<1>8. new = [metadata |-> Allocated(m), pages |-> after]
  OBVIOUS
<1> HIDE DEF new
<1>9. new \in Files /\ new.metadata = Allocated(m) /\ new.pages = after
  BY <1>5, <1>7, <1>8 DEF Files
<1>10. /\ FilesInv' /\ DOMAIN files' = DOMAIN files /\ files'[f] = new
       /\ \A g \in DOMAIN files : g # f => files'[g] = files[g]
  BY <1>2, <1>4, <1>5, <1>7, <1>9, ReplaceFile
<1> QED
  BY <1>2, <1>5, <1>10 DEF new, page

\* A page that is there is written: the length of the file stays.
LEMMA WritePageMakes ==
    ASSUME FilesInv, NEW f \in DOMAIN files, NEW page \in HeapPages, WritePage(f, page),
           files[f].metadata # NoMetadata, page.page_id \in DOMAIN files[f].pages
    PROVE  /\ FilesInv' /\ DOMAIN files' = DOMAIN files
           /\ \A g \in DOMAIN files : g # f => files'[g] = files[g]
           /\ files'[f] = [metadata |-> files[f].metadata, pages |-> [files[f].pages EXCEPT ![page.page_id] = page]]
<1> PICK m, pages : m = files[f].metadata /\ pages = files[f].pages
  OBVIOUS
<1> PICK after : after = WithPage(pages, page)
  OBVIOUS
<1>1. files[f] = [metadata |-> m, pages |-> pages]
  BY DEF FilesInv, Files
<1>2. /\ m \in Metadata /\ m.next_id = m.number_of_pages + 1 /\ Len(pages) <= m.number_of_pages
      /\ pages \in Seq(HeapPages)
      /\ \A i \in DOMAIN pages : pages[i].page_id = i \/ pages[i] = Hole
  BY FileIs
<1> DEFINE new == [metadata |-> m, pages |-> after]
<1>3. files' = [files EXCEPT ![f] = new]
  <2>1. files' = [files EXCEPT ![f] = [files[f] EXCEPT !.pages = after]]
    BY DEF WritePage
  <2> PICK e : e = [files[f] EXCEPT !.pages = after]
    OBVIOUS
  <2>2. e \in [metadata : {m}, pages : {after}]
    BY <1>1
  <2>3. e = new
    BY <2>2
  <2> QED
    BY <2>1, <2>3
<1>4. page.page_id \in 1..Len(pages) /\ page.page_id > 0 /\ page.page_id \in Nat
  BY <1>2
<1>5. /\ after \in Seq(HeapPages) /\ Len(after) = Len(pages) /\ DOMAIN after = 1..Len(pages)
      /\ \A i \in DOMAIN after : after[i] = IF i = page.page_id THEN page ELSE pages[i]
  <2>1. /\ after \in Seq(HeapPages)
        /\ Len(after) = IF page.page_id > Len(pages) THEN page.page_id ELSE Len(pages)
        /\ DOMAIN after = 1..Len(after)
        /\ \A i \in DOMAIN after : after[i] =
              IF i = page.page_id THEN page ELSE IF i <= Len(pages) THEN pages[i] ELSE Hole
    BY <1>2, <1>4, WithPageMakes
  <2> QED
    BY <1>2, <1>4, <2>1
<1>6. \A i \in DOMAIN after : after[i].page_id = i \/ after[i] = Hole
  BY <1>2, <1>5
<1>7. new \in Files /\ new.metadata = m /\ new.pages = after
  BY <1>2, <1>5 DEF Files
<1>8. after = [pages EXCEPT ![page.page_id] = page]
  BY <1>2, <1>4, <1>5
<1> HIDE DEF new
<1>9. /\ FilesInv' /\ DOMAIN files' = DOMAIN files /\ files'[f] = new
      /\ \A g \in DOMAIN files : g # f => files'[g] = files[g]
  <2>1. /\ new.metadata \in Metadata
        /\ new.metadata.next_id = new.metadata.number_of_pages + 1
        /\ Len(new.pages) <= new.metadata.number_of_pages
        /\ \A i \in DOMAIN new.pages : new.pages[i].page_id = i \/ new.pages[i] = Hole
    BY <1>2, <1>5, <1>6, <1>7
  <2> QED
    BY <1>3, <1>7, <2>1, ReplaceFile
<1> QED
  BY <1>8, <1>9 DEF new

LEMMA DeleteMakes ==
    ASSUME FilesInv, NEW f, Delete(f)
    PROVE  /\ FilesInv' /\ f \in DOMAIN files /\ DOMAIN files' = DOMAIN files \ {f}
           /\ \A g \in DOMAIN files' : files'[g] = files[g]
<1>1. f \in DOMAIN files /\ files' = [g \in DOMAIN files \ {f} |-> files[g]]
  BY DEF Delete, Exists, Restrict
<1>2. DOMAIN files' = DOMAIN files \ {f} /\ \A g \in DOMAIN files' : files'[g] = files[g]
  BY <1>1
<1>3. files' \in [DOMAIN files' -> Files]
  BY <1>1 DEF FilesInv
<1>4. FilesOK'
  BY <1>2 DEF FilesInv, FilesOK
<1> QED
  BY <1>1, <1>2, <1>3, <1>4 DEF FilesInv

\* A file is created, or its creation fails before or after it is there.
LEMMA CreatedOrNot ==
    ASSUME FilesInv, NEW f, Create(f, TRUE) \/ CreateFails(f)
    PROVE  FilesInv' /\ DOMAIN files' \subseteq DOMAIN files \cup {f}
<1>1. CASE Create(f, TRUE)
  BY <1>1, CreateMakes
<1>2. CASE CreateFails(f) /\ Exists(f)
  BY <1>2 DEF CreateFails, FilesInv, FilesOK
<1>3. CASE CreateFails(f) /\ ~Exists(f)
  <2>1. Create(f, FALSE)
    BY <1>3 DEF CreateFails
  <2> QED
    BY <2>1, CreateMakes
<1> QED
  BY <1>1, <1>2, <1>3

---------------------------------------------------------------------------
(* Steps that change files. *)

\* They leave the rows of the system tables alone.
LEMMA CatalogStays ==
    ASSUME Inv, UNCHANGED catalog, \A part \in DOMAIN IdColumn : ~Pending(part)',
           \A id \in trees' : id \in trees \/ (id \in Nat /\ Taken("index", id)),
           \A f \in DOMAIN files' :
              f \in DOMAIN files \/ \E id \in Nat : f \in {TableFile(id), FsmFile(id)} /\ Taken("table", id),
           \A t \in handles' :
              \/ t \in handles
              \/ /\ t \in Tables /\ t.id > 4 /\ Taken("table", t.id)
                 /\ \A i \in DOMAIN t.columns : t.columns[i].id > 120 /\ Taken("column", t.columns[i].id)
    PROVE  IdsTaken' /\ SystemRows' /\ NoneFreed
<1> USE IdColumns
<1>1. UNCHANGED <<tables, columns, sequences, indexes>>
  BY DEF catalog
<1>2. NoneFreed
  BY <1>1, TakenStaysPut DEF Inv
<1>3. IdsTaken'
  <2>1. LiveRows' = LiveRows
    BY <1>1 DEF LiveRows
  <2>2. \A id \in trees' : id \in trees \/ Taken("index", id)'
    BY <1>2 DEF NoneFreed
  <2>3. \A f \in DOMAIN files' :
           f \in DOMAIN files \/ (f \in {"table", "fsm"} \X Nat /\ Taken("table", f[2])')
    <3> SUFFICES ASSUME NEW f \in DOMAIN files', f \notin DOMAIN files
                 PROVE  f \in {"table", "fsm"} \X Nat /\ Taken("table", f[2])'
      OBVIOUS
    <3>1. PICK id \in Nat : f \in {TableFile(id), FsmFile(id)} /\ Taken("table", id)
      OBVIOUS
    <3>2. f \in {"table", "fsm"} \X Nat /\ f[2] = id
      BY <3>1 DEF TableFile, FsmFile
    <3> QED
      BY <1>2, <3>1, <3>2 DEF NoneFreed
  <2>4. \A t \in handles' :
           \/ t \in handles
           \/ Taken("table", t.id)' /\ \A i \in DOMAIN t.columns : Taken("column", t.columns[i].id)'
    <3> SUFFICES ASSUME NEW t \in handles', t \notin handles
                 PROVE  Taken("table", t.id)' /\ \A i \in DOMAIN t.columns : Taken("column", t.columns[i].id)'
      OBVIOUS
    <3>1. t.id \in Nat /\ \A i \in DOMAIN t.columns : t.columns[i].id \in Nat
      BY ColumnIds DEF Tables
    <3> QED
      BY <1>2, <3>1 DEF NoneFreed
  <2> QED
    BY <1>1, <1>2, <2>1, <2>2, <2>3, <2>4, IdsStay
<1>4. SystemRows'
  <2>1. (\A t \in handles : t.id > 4 /\ \A i \in DOMAIN t.columns : t.columns[i].id > 120)'
    BY DEF Inv, SystemRows
  <2> QED
    BY <1>1, <2>1 DEF Inv, SystemRows, SequencesOn
<1> QED
  BY <1>2, <1>3, <1>4

\* The files of the table that is being created.
LEMMA CreateFile ==
    ASSUME Inv, Doing("create"), job.part # "table", NEW f \in {TableFile(job.tbl_id), FsmFile(job.tbl_id)},
           Create(f, TRUE) \/ CreateFails(f)
    PROVE  /\ FilesInv' /\ job.tbl_id \in Nat /\ job.tbl_id > 4 /\ Taken("table", job.tbl_id)
           /\ \A g \in DOMAIN files' :
                 g \in DOMAIN files \/ \E id \in Nat : g \in {TableFile(id), FsmFile(id)} /\ Taken("table", id)
<1>1. job.tbl_id \in Nat /\ job.tbl_id > 4 /\ Taken("table", job.tbl_id)
  BY DEF Inv, CreateOK
<1>2. FilesInv' /\ DOMAIN files' \subseteq DOMAIN files \cup {f}
  BY CreatedOrNot DEF Inv, Types, FilesInv
<1> QED
  BY <1>1, <1>2

LEMMA CreateTableFileKeeps ==
    ASSUME Inv, CreateTableFile
    PROVE  Inv'
<1> USE IdColumns
<1> PICK tbl_id, f : tbl_id = job.tbl_id /\ f = TableFile(job.tbl_id)
  OBVIOUS
<1>1. /\ Doing("create") /\ job.part = "table file"
      /\ Create(f, TRUE) \/ CreateFails(f)
      /\ job' = Then("fsm file") \/ job' = Idle
      /\ UNCHANGED <<catalog, trees, handles, made>>
  BY DEF CreateTableFile, Todo, Ends
<1>2. job \in CreateJobs /\ job.columns \in Seq(Columns)
  BY <1>1, JobOfCall DEF Inv, CreateJobs
<1>3. /\ FilesInv' /\ tbl_id \in Nat /\ tbl_id > 4 /\ Taken("table", tbl_id)
      /\ \A g \in DOMAIN files' :
            g \in DOMAIN files \/ \E id \in Nat : g \in {TableFile(id), FsmFile(id)} /\ Taken("table", id)
  BY <1>1, CreateFile
<1>4. CASE job' = Idle
  <2>1. ~Doing("create")' /\ ~Doing("drop")' /\ ~Doing("insert")'
    BY <1>4 DEF Doing, Idle
  <2>2. IdsTaken' /\ SystemRows'
    BY <1>1, <1>3, <2>1, CatalogStays DEF Pending, Todo
  <2>3. Types'
    BY <1>1, <1>3, <1>4 DEF Inv, Types, catalog, FilesInv
  <2> QED
    BY <1>3, <2>1, <2>2, <2>3 DEF Inv, CreateOK, DropOK, InsertOK, FilesInv
<1>5. CASE job' = Then("fsm file")
  <2>1. Follows(job') /\ job'.part = "fsm file"
    BY <1>2, <1>5, ThenFollows
  <2>2. /\ job' \in CreateJobs /\ job'.op = "create" /\ job'.id = None
        /\ job'.tbl_id = tbl_id /\ job'.columns = job.columns
    BY <2>1 DEF Follows
  <2>3. IdsTaken' /\ SystemRows' /\ NoneFreed
    BY <1>1, <1>3, <2>2, CatalogStays DEF Pending
  <2>4. Types'
    BY <1>1, <1>3, <2>2 DEF Inv, Types, catalog, FilesInv
  <2>5. CreateOK' /\ DropOK' /\ InsertOK'
    <3>1. job'.tbl_id \in Nat /\ job'.tbl_id > 4 /\ Taken("table", job.tbl_id)'
      BY <1>3, <2>2, <2>3 DEF NoneFreed
    <3>2. (\A i \in DOMAIN job.columns : job.columns[i].id > 120 /\ Taken("column", job.columns[i].id))'
      <4> SUFFICES ASSUME NEW i \in DOMAIN job.columns, NEW c, c = job.columns[i].id
                   PROVE  c > 120 /\ Taken("column", c)'
        BY <2>2
      <4> QED
        BY <1>1, <1>2, <2>3, ColumnIds DEF Inv, CreateOK, NoneFreed
    <3> QED
      BY <1>1, <2>1, <2>2, <2>3, <3>1, <3>2, CreateGoesOn
  <2> QED
    BY <1>3, <2>3, <2>4, <2>5 DEF Inv, FilesInv
<1> QED
  BY <1>1, <1>4, <1>5

LEMMA CreateFsmFileKeeps ==
    ASSUME Inv, CreateFsmFile
    PROVE  Inv'
<1> PICK tbl_id, f : tbl_id = job.tbl_id /\ f = FsmFile(job.tbl_id)
  OBVIOUS
<1> PICK table : table = [id |-> job.tbl_id, name |-> job.name, columns |-> job.columns]
  OBVIOUS
<1>1. /\ Doing("create") /\ job.part = "fsm file"
      /\ Create(f, TRUE) \/ CreateFails(f)
      /\ handles' \subseteq handles \cup {table} /\ made' \subseteq made \cup {tbl_id}
      /\ job' = Idle
      /\ UNCHANGED <<catalog, trees>>
  BY DEF CreateFsmFile, Todo, Ends
<1>2. job \in CreateJobs /\ job.columns \in Seq(Columns) /\ job.name \in TableNames
  BY <1>1, JobOfCall DEF Inv, CreateJobs
<1>3. /\ FilesInv' /\ tbl_id \in Nat /\ tbl_id > 4 /\ Taken("table", tbl_id)
      /\ \A g \in DOMAIN files' :
            g \in DOMAIN files \/ \E id \in Nat : g \in {TableFile(id), FsmFile(id)} /\ Taken("table", id)
  BY <1>1, CreateFile
<1>4. /\ table \in Tables /\ table.id = tbl_id
      /\ \A i \in DOMAIN table.columns : table.columns[i].id > 120 /\ Taken("column", table.columns[i].id)
  <2>1. table.id = tbl_id /\ table.columns = job.columns
    OBVIOUS
  <2>2. table \in Tables
    BY <1>2, <1>3 DEF Tables
  <2> QED
    BY <1>1, <2>1, <2>2 DEF Inv, CreateOK
<1>5. ~Doing("create")' /\ ~Doing("drop")' /\ ~Doing("insert")'
  BY <1>1 DEF Doing, Idle
<1>6. IdsTaken' /\ SystemRows'
  <2>1. \A t \in handles' : t \in handles \/ t = table
    BY <1>1
  <2> QED
    BY <1>1, <1>3, <1>4, <1>5, <2>1, CatalogStays DEF Pending, Todo
<1>7. Types'
  BY <1>1, <1>3, <1>4 DEF Inv, Types, catalog, FilesInv
<1> QED
  BY <1>3, <1>5, <1>6, <1>7 DEF Inv, CreateOK, DropOK, InsertOK, FilesInv

---------------------------------------------------------------------------
(* The steps of drop_table, and what clients do with a table. *)

LEMMA DeleteTableRowKeeps ==
    ASSUME Inv, DeleteTableRow
    PROVE  Inv'
<1> USE IdColumns
<1> PICK table, rows : table = job.table /\ rows = ColumnRowsOf(job.table.id)
  OBVIOUS
<1>1. /\ Doing("drop") /\ tables' = {t \in tables : t.name # table.name}
      /\ job' = [job EXCEPT !.rows = rows]
      /\ UNCHANGED <<columns, sequences, indexes, files, trees, handles, made>>
  BY DEF DeleteTableRow
<1>2. job \in DropJobs /\ table \in Tables /\ table.name \in TableNames
  BY <1>1, JobOfCall DEF Inv, DropJobs, Tables
<1>3. rows \subseteq DOMAIN columns /\ rows \in SUBSET Nat
  BY DEF ColumnRowsOf, Inv, Types
<1>4. job' \in DropJobs /\ job'.op = "drop" /\ job'.rows = rows
  <2>1. [job EXCEPT !.rows = rows] \in DropJobs
    BY <1>2, <1>3 DEF DropJobs
  <2> QED
    BY <1>1, <1>2, <2>1 DEF DropJobs
<1>5. ~Doing("create")' /\ ~Doing("insert")'
  BY <1>4 DEF Doing
<1>6. NoneFreed
  BY <1>1, <1>5, TakenStaysPut DEF Inv, Pending, Todo
<1>7. IdsTaken'
  <2>1. LiveRows' = LiveRows
    BY <1>1 DEF LiveRows
  <2>2. \A t \in tables' : t \in tables
    BY <1>1
  <2> QED
    BY <1>1, <1>6, <2>1, <2>2, IdsStay
<1>8. Types'
  BY <1>1, <1>4 DEF Inv, Types
<1>9. SystemRows'
  <2>1. SystemTables \subseteq tables'
    BY <1>1, <1>2, CatalogAssumption DEF Inv, SystemRows
  <2>2. tables' \subseteq tables
    BY <1>1
  <2> QED
    BY <1>1, <2>1, <2>2 DEF Inv, SystemRows, SequencesOn
<1>10. FilesOK'
  BY <1>1 DEF Inv, FilesOK
<1> QED
  BY <1>1, <1>3, <1>4, <1>5, <1>7, <1>8, <1>9, <1>10 DEF Inv, CreateOK, DropOK, InsertOK

LEMMA DeleteColumnRowKeeps ==
    ASSUME Inv, DeleteColumnRow
    PROVE  Inv'
<1> USE IdColumns
<1> PICK k, rows : k = Min(job.rows) /\ rows = job.rows
  OBVIOUS
<1>1. /\ Doing("drop") /\ rows \notin {None, {}}
      /\ columns' = [WithoutRecord(columns, k) EXCEPT ![k].row = None]
      /\ job' = [job EXCEPT !.rows = rows \ {k}]
      /\ UNCHANGED <<tables, sequences, indexes, files, trees, handles, made>>
  BY DEF DeleteColumnRow
<1>2. job \in DropJobs /\ rows \in SUBSET Nat /\ rows \subseteq DOMAIN columns
  BY <1>1, JobOfCall DEF Inv, DropJobs, DropOK
<1>3. k \in rows /\ k \in DOMAIN columns
  BY <1>1, <1>2, MinIsLeast
<1>4. columns \in Seq(ColumnSlots) /\ columns[k] \in ColumnSlots
  BY <1>3 DEF Inv, Types
<1> PICK slot : slot = [[columns[k] EXCEPT !.deleted = TRUE] EXCEPT !.row = None]
  OBVIOUS
<1>5. slot \in ColumnSlots /\ slot.deleted /\ slot.row = None
  BY <1>4 DEF ColumnSlots
<1>6. /\ columns' = [columns EXCEPT ![k] = slot]
      /\ columns' \in Seq(ColumnSlots) /\ DOMAIN columns' = DOMAIN columns
      /\ \A i \in DOMAIN columns : columns'[i] = IF i = k THEN slot ELSE columns[i]
  <2>1. columns' = [columns EXCEPT ![k] = slot]
    BY <1>1, <1>3, <1>4 DEF WithoutRecord
  <2> QED
    BY <1>3, <1>4, <1>5, <2>1
<1>7. LiveRows' \subseteq LiveRows
  BY <1>5, <1>6 DEF LiveRows
<1>8. job' \in DropJobs /\ job'.op = "drop" /\ job'.rows = rows \ {k}
  <2>1. [job EXCEPT !.rows = rows \ {k}] \in DropJobs
    BY <1>2 DEF DropJobs
  <2> QED
    BY <1>1, <1>2, <2>1 DEF DropJobs
<1>9. ~Doing("create")' /\ ~Doing("insert")'
  BY <1>8 DEF Doing
<1>10. NoneFreed
  BY <1>1, <1>9, TakenStaysPut DEF Inv, Pending, Todo
<1>11. IdsTaken'
  <2>1. \A row \in LiveRows' : row \in LiveRows
    BY <1>7
  <2> QED
    BY <1>1, <1>10, <2>1, IdsStay
<1>12. Types'
  <2>1. (\A i \in DOMAIN columns :
            IF columns[i].deleted THEN columns[i].row = None ELSE columns[i].row \in ColumnRows)'
    BY <1>5, <1>6 DEF Inv, Types
  <2> QED
    BY <1>1, <1>6, <1>8, <2>1 DEF Inv, Types
<1>13. SystemRows'
  <2>1. (\A i \in DOMAIN columns : ~columns[i].deleted /\ columns[i].row.t_id > 4 => columns[i].row.id > 120)'
    BY <1>5, <1>6 DEF Inv, SystemRows
  <2> QED
    BY <1>1, <2>1 DEF Inv, SystemRows, SequencesOn
<1>14. FilesOK'
  BY <1>1 DEF Inv, FilesOK
<1>15. DropOK'
  BY <1>2, <1>6, <1>8 DEF DropOK
<1> QED
  BY <1>9, <1>11, <1>12, <1>13, <1>14, <1>15 DEF Inv, CreateOK, InsertOK

LEMMA DeleteTableFileKeeps ==
    ASSUME Inv, DeleteTableFile
    PROVE  Inv'
<1>1. /\ job' = Idle /\ UNCHANGED <<catalog, trees, handles, made>>
      /\ Delete(TableFile(job.table.id)) \/ UNCHANGED files
  BY DEF DeleteTableFile, Ends
<1>2. FilesInv' /\ DOMAIN files' \subseteq DOMAIN files
  <2>1. FilesInv
    BY DEF Inv, Types, FilesInv
  <2>2. CASE Delete(TableFile(job.table.id))
    BY <2>1, <2>2, DeleteMakes
  <2>3. CASE UNCHANGED files
    BY <2>1, <2>3 DEF FilesInv, FilesOK
  <2> QED
    BY <1>1, <2>2, <2>3
<1>3. ~Doing("create")' /\ ~Doing("drop")' /\ ~Doing("insert")'
  BY <1>1 DEF Doing, Idle
<1>4. IdsTaken' /\ SystemRows'
  BY <1>1, <1>2, <1>3, CatalogStays DEF Pending, Todo
<1>5. Types'
  BY <1>1, <1>2 DEF Inv, Types, catalog, FilesInv
<1> QED
  BY <1>2, <1>3, <1>4, <1>5 DEF Inv, CreateOK, DropOK, InsertOK, FilesInv

LEMMA BeginInsertKeeps ==
    ASSUME Inv, NEW table \in handles, BeginInsert(table)
    PROVE  Inv'
<1> USE IdColumns
<1> PICK f, id : f = TableFile(table.id) /\ id = ReadMetadata(f).next_id
  OBVIOUS
<1> PICK new : new = [op |-> "insert", table |-> table, page |-> id]
  OBVIOUS
<1>1. /\ job = Idle /\ trees' = trees \cup IndexesOf(table)
      /\ UNCHANGED <<catalog, handles, made>>
      /\ \/ UNCHANGED files /\ job' = Idle
         \/ /\ ReadMetadata(f) # NoMetadata
            /\ \/ AllocatePage(f, TRUE) /\ job' = new
               \/ AllocatePage(f, FALSE) /\ job' = Idle
  BY DEF BeginInsert
<1>2. FilesInv
  BY DEF Inv, Types, FilesInv
<1>3. \A x \in IndexesOf(table) : x \in Nat /\ Taken("index", x)
  BY DEF IndexesOf, Inv, Types, IndexRows, IdsTaken
<1>4. table \in Tables
  BY DEF Inv, Types
<1>5. /\ FilesInv' /\ DOMAIN files' = DOMAIN files
      /\ job' = Idle \/ (job' = new /\ AllocatePage(f, TRUE) /\ f \in DOMAIN files)
  <2>1. CASE UNCHANGED files /\ job' = Idle
    BY <1>2, <2>1 DEF FilesInv, FilesOK
  <2>2. ASSUME NEW complete \in BOOLEAN, AllocatePage(f, complete), ReadMetadata(f) # NoMetadata
        PROVE  FilesInv' /\ DOMAIN files' = DOMAIN files /\ f \in DOMAIN files
    <3>1. f \in DOMAIN files
      BY <2>2 DEF ReadMetadata, Exists
    <3> QED
      BY <1>2, <2>2, <3>1, AllocatePageMakes
  <2> QED
    BY <1>1, <2>1, <2>2
<1>6. new.op = "insert" /\ new.table = table /\ new.page = id
  OBVIOUS
<1>7. \A part \in DOMAIN IdColumn : ~Pending(part)'
  <2>1. Idle.op = "idle"
    BY DEF Idle
  <2>2. job'.op # "create"
    BY <1>5, <1>6, <2>1
  <2> QED
    BY <2>2 DEF Pending, Todo, Doing
<1>8. IdsTaken' /\ SystemRows'
  BY <1>1, <1>3, <1>5, <1>7, CatalogStays
<1>9. CASE job' = Idle
  <2>1. Types'
    BY <1>1, <1>3, <1>5, <1>9 DEF Inv, Types, catalog, FilesInv
  <2> QED
    BY <1>5, <1>8, <1>9, <2>1 DEF Inv, CreateOK, DropOK, InsertOK, FilesInv, Doing, Idle
<1>10. CASE job' = new /\ AllocatePage(f, TRUE) /\ f \in DOMAIN files
  <2> PICK m, pages, page : m = ReadMetadata(f) /\ pages = files[f].pages /\ page = NewPage(id)
    OBVIOUS
  <2>1. /\ m \in Metadata /\ Allocated(m) \in Metadata
        /\ files'[f] = [metadata |-> Allocated(m), pages |-> WithPage(pages, page)]
    BY <1>2, <1>10, AllocatePageMakes
  <2>2. /\ pages \in Seq(HeapPages) /\ m = files[f].metadata /\ m # NoMetadata
        /\ id \in Nat /\ id > 0
    <3>1. m = files[f].metadata /\ m # NoMetadata
      BY <1>10, <2>1, HeapFileAssumption DEF ReadMetadata, Exists, Metadata
    <3>2. m.next_id = m.number_of_pages + 1 /\ m.number_of_pages \in Nat /\ pages \in Seq(HeapPages)
      BY <1>2, <1>10, <3>1, FileIs
    <3> QED
      BY <3>1, <3>2
  <2>3. page \in HeapPages /\ page.page_id = id
    BY <2>2 DEF NewPage, HeapPages
  <2>4. id \in DOMAIN WithPage(pages, page) /\ WithPage(pages, page)[id] = page
    BY <2>2, <2>3, WithPageMakes
  <2>5. new \in InsertJobs
    BY <1>4, <2>2 DEF InsertJobs
  <2>6. Types'
    BY <1>1, <1>3, <1>5, <1>10, <2>5 DEF Inv, Types, catalog, FilesInv
  <2>7. InsertOK'
    <3>1. job'.table.id = table.id /\ job'.page = id
      BY <1>6, <1>10
    <3>2. ReadMetadata(f)' # NoMetadata
      BY <1>5, <1>10, <2>1, HeapFileAssumption DEF ReadMetadata, Exists, Metadata
    <3>3. TableFile(job'.table.id) = f
      BY <3>1
    <3> QED
      BY <2>1, <2>3, <2>4, <3>1, <3>2, <3>3 DEF InsertOK
  <2> QED
    BY <1>5, <1>6, <1>8, <1>10, <2>6, <2>7 DEF Inv, CreateOK, DropOK, FilesInv, Doing
<1> QED
  BY <1>5, <1>9, <1>10

LEMMA WriteRowKeeps ==
    ASSUME Inv, WriteRow
    PROVE  Inv'
<1> PICK f, page : f = TableFile(job.table.id) /\ page = [page_id |-> job.page, rows |-> {job.table.columns}]
  OBVIOUS
<1>1. /\ Doing("insert") /\ WritePage(f, page) /\ job' = Idle
      /\ UNCHANGED <<catalog, trees, handles, made>>
  BY DEF WriteRow, Ends
<1>2. job \in InsertJobs /\ page.page_id = job.page
  BY <1>1, JobOfCall DEF Inv
<1>3. page \in HeapPages
  <2>1. job.page \in Nat /\ job.table.columns \in Seq(Columns)
    BY <1>2 DEF InsertJobs, Tables
  <2> QED
    BY <2>1 DEF HeapPages
<1>4. f \in DOMAIN files /\ files[f].metadata # NoMetadata /\ job.page \in DOMAIN files[f].pages
  BY <1>1 DEF Inv, InsertOK, ReadMetadata, Exists
<1>5. FilesInv' /\ DOMAIN files' = DOMAIN files
  BY <1>1, <1>2, <1>3, <1>4, WritePageMakes DEF Inv, Types, FilesInv
<1>6. ~Doing("create")' /\ ~Doing("drop")' /\ ~Doing("insert")'
  BY <1>1 DEF Doing, Idle
<1>7. IdsTaken' /\ SystemRows'
  BY <1>1, <1>5, <1>6, CatalogStays DEF Pending, Todo
<1>8. Types'
  BY <1>1, <1>5 DEF Inv, Types, catalog, FilesInv
<1> QED
  BY <1>5, <1>6, <1>7, <1>8 DEF Inv, CreateOK, DropOK, InsertOK, FilesInv

LEMMA DrawValueKeeps ==
    ASSUME Inv, NEW table \in handles, NEW i \in DOMAIN table.columns, DrawValue(table, table.columns[i])
    PROVE  Inv'
<1> USE IdColumns
<1> PICK col_id : col_id = table.columns[i].id
  OBVIOUS
<1>1. /\ job = Idle /\ job' = Idle
      /\ sequences' = sequences \/ NextVal(col_id)
      /\ UNCHANGED <<tables, columns, indexes, files, trees, handles, made>>
  BY DEF DrawValue
<1>2. CASE sequences' = sequences
  BY <1>1, <1>2, NoJob DEF catalog
<1>3. CASE NextVal(col_id)
  <2>1. col_id \in Nat /\ col_id > 120
    BY ColumnIds DEF Inv, Types, Tables, SystemRows
  <2>2. /\ sequences' \subseteq SequenceRows
        /\ \A s \in sequences' : \E r \in sequences : r.id = s.id /\ r.col_id = s.col_id
        /\ \A part \in DOMAIN IdColumn : SequencesOn(IdColumn[part])' = SequencesOn(IdColumn[part])
    BY <1>3, <2>1, NextValAdds DEF Inv
  <2>3. ~Doing("create")' /\ ~Doing("drop")' /\ ~Doing("insert")'
    BY <1>1 DEF Doing, Idle
  <2>4. NoneFreed
    <3>1. \A part \in DOMAIN IdColumn : \A s \in SequencesOn(IdColumn[part])' :
             s \in SequencesOn(IdColumn[part]) /\ s.current \in Nat /\ s.current <= s.current
      BY <2>2 DEF SequencesOn, Inv, Types, SequenceRows
    <3> QED
      BY <2>3, <3>1, TakenStays DEF Inv, Pending, Todo
  <2>5. IdsTaken'
    <3>1. LiveRows' = LiveRows
      BY <1>1 DEF LiveRows
    <3> QED
      BY <1>1, <2>2, <2>4, <3>1, IdsStay
  <2>6. SystemRows'
    <3>1. (\A part \in DOMAIN IdColumn : \E s \in sequences : SequencesOn(IdColumn[part]) = {s})'
      <4> SUFFICES ASSUME NEW part \in DOMAIN IdColumn
                   PROVE  \E s \in sequences' : SequencesOn(IdColumn[part])' = {s}
        OBVIOUS
      <4>1. PICK s : SequencesOn(IdColumn[part]) = {s}
        BY DEF Inv, SystemRows
      <4> QED
        BY <2>2, <4>1 DEF SequencesOn
    <3>2. (\A s \in sequences : (s.col_id = 10 => s.current >= 4) /\ (s.col_id = 30 => s.current >= 120))'
      <4> SUFFICES ASSUME NEW s \in sequences'
                   PROVE  (s.col_id = 10 => s.current >= 4) /\ (s.col_id = 30 => s.current >= 120)
        OBVIOUS
      <4>1. PICK r \in sequences : r.col_id = s.col_id /\ (r.col_id # col_id => s.current = r.current)
        BY <1>3, NextValAdds DEF Inv
      <4> QED
        BY <2>1, <4>1 DEF Inv, SystemRows
    <3> QED
      BY <1>1, <3>1, <3>2 DEF Inv, SystemRows
  <2>7. Types'
    BY <1>1, <2>2 DEF Inv, Types
  <2>8. FilesOK'
    BY <1>1 DEF Inv, FilesOK
  <2> QED
    BY <2>3, <2>5, <2>6, <2>7, <2>8 DEF Inv, CreateOK, DropOK, InsertOK
<1> QED
  BY <1>1, <1>2, <1>3

---------------------------------------------------------------------------
(* The invariant holds. *)

\* The rows a new database has are rows.
LEMMA SystemColumnsTyped ==
    /\ SystemColumns \in Seq(ColumnSlots)
    /\ \A i \in DOMAIN SystemColumns :
          LET slot == SystemColumns[i] IN
          /\ ~slot.deleted /\ slot.row \in ColumnRows
          /\ slot.row.t_id \in 1..4 /\ slot.row.id \in 0..120
<1>1. IntType \in ColumnTypes /\ ByteType \in ColumnTypes
  BY DEF ColumnTypes
<1>2. VarcharType(512) \in ColumnTypes
  <2>1. 512 \in U16
    BY SMT DEF U16
  <2> QED
    BY <2>1 DEF ColumnTypes
<1>3. ASSUME NEW id \in 0..120, NEW t_id \in 1..4, NEW name \in ColumnNames, NEW col_type \in ColumnTypes,
             NEW length \in Nat
      PROVE  LET slot == Slot(ColumnRow(id, t_id, name, col_type), length) IN
             /\ slot \in ColumnSlots /\ ~slot.deleted /\ slot.row \in ColumnRows
             /\ slot.row.t_id \in 1..4 /\ slot.row.id \in 0..120
  <2> PICK row : row = ColumnRow(id, t_id, name, col_type)
    OBVIOUS
  <2>1. row \in ColumnRows
    BY ColumnReadsBack
  <2>2. row.id = id /\ row.t_id = t_id
    BY DEF ColumnRow
  <2> QED
    BY <2>1, <2>2 DEF Slot, ColumnSlots
<1> DEFINE Good == {slot \in ColumnSlots :
                      /\ ~slot.deleted /\ slot.row \in ColumnRows
                      /\ slot.row.t_id \in 1..4 /\ slot.row.id \in 0..120}
<1>4. ASSUME NEW id \in 0..120, NEW t_id \in 1..4, NEW name \in ColumnNames, NEW col_type \in ColumnTypes,
             NEW length \in Nat
      PROVE  Slot(ColumnRow(id, t_id, name, col_type), length) \in Good
  BY <1>3
<1> HIDE DEF Good
<1>5. /\ "id" \in ColumnNames /\ "name" \in ColumnNames /\ "t_id" \in ColumnNames
      /\ "type" \in ColumnNames /\ "length" \in ColumnNames /\ "col_id" \in ColumnNames
      /\ "current" \in ColumnNames /\ "col_ids" \in ColumnNames
  BY DEF ColumnNames
<1>6. SystemColumns \in Seq(Good)
  <2>1. Slot(ColumnRow(10, 1, "id", IntType), 2) \in Good
    BY <1>1, <1>2, <1>4, <1>5
  <2>2. Slot(ColumnRow(20, 1, "name", VarcharType(512)), 4) \in Good
    BY <1>1, <1>2, <1>4, <1>5
  <2>3. Slot(ColumnRow(30, 2, "id", IntType), 2) \in Good
    BY <1>1, <1>2, <1>4, <1>5
  <2>4. Slot(ColumnRow(40, 2, "t_id", IntType), 4) \in Good
    BY <1>1, <1>2, <1>4, <1>5
  <2>5. Slot(ColumnRow(50, 2, "name", VarcharType(512)), 4) \in Good
    BY <1>1, <1>2, <1>4, <1>5
  <2>6. Slot(ColumnRow(60, 2, "type", ByteType), 4) \in Good
    BY <1>1, <1>2, <1>4, <1>5
  <2>7. Slot(ColumnRow(70, 2, "length", IntType), 6) \in Good
    BY <1>1, <1>2, <1>4, <1>5
  <2>8. Slot(ColumnRow(80, 3, "id", IntType), 2) \in Good
    BY <1>1, <1>2, <1>4, <1>5
  <2>9. Slot(ColumnRow(85, 3, "col_id", IntType), 6) \in Good
    BY <1>1, <1>2, <1>4, <1>5
  <2>10. Slot(ColumnRow(90, 3, "current", IntType), 7) \in Good
    BY <1>1, <1>2, <1>4, <1>5
  <2>11. Slot(ColumnRow(100, 4, "id", IntType), 2) \in Good
    BY <1>1, <1>2, <1>4, <1>5
  <2>12. Slot(ColumnRow(110, 4, "t_id", IntType), 4) \in Good
    BY <1>1, <1>2, <1>4, <1>5
  <2>13. Slot(ColumnRow(120, 4, "col_ids", VarcharType(512)), 7) \in Good
    BY <1>1, <1>2, <1>4, <1>5
  <2> QED
    BY <2>1, <2>2, <2>3, <2>4, <2>5, <2>6, <2>7, <2>8, <2>9, <2>10, <2>11, <2>12, <2>13 DEF SystemColumns
<1>7. Good \subseteq ColumnSlots
  BY DEF Good
<1>8. SystemColumns \in Seq(ColumnSlots)
  BY <1>6, <1>7, SeqMonotonic
<1>9. \A i \in DOMAIN SystemColumns : SystemColumns[i] \in Good
  BY <1>6
<1> QED
  BY <1>8, <1>9 DEF Good

LEMMA InitInv == Init => Inv
<1> SUFFICES ASSUME Init PROVE Inv
  OBVIOUS
<1> USE IdColumns
<1> PICK s1, s2, s3, s4 :
       /\ s1 = [id |-> 1, col_id |-> 10, current |-> 4] /\ s2 = [id |-> 2, col_id |-> 30, current |-> 120]
       /\ s3 = [id |-> 4, col_id |-> 80, current |-> 4] /\ s4 = [id |-> 3, col_id |-> 100, current |-> 0]
  OBVIOUS
<1>1. /\ tables = SystemTables /\ columns = SystemColumns /\ sequences = {s1, s2, s3, s4}
      /\ indexes = {} /\ files = << >> /\ trees = {} /\ handles = {} /\ job = Idle /\ made = {}
  BY DEF Init, SystemSequences
<1>2. /\ s1.id = 1 /\ s1.col_id = 10 /\ s1.current = 4 /\ s2.id = 2 /\ s2.col_id = 30 /\ s2.current = 120
      /\ s3.id = 4 /\ s3.col_id = 80 /\ s3.current = 4 /\ s4.id = 3 /\ s4.col_id = 100 /\ s4.current = 0
      /\ {s1, s2, s3, s4} \subseteq SequenceRows
  BY DEF SequenceRows
<1>3. /\ SequencesOn(IdColumn["table"]) = {s1} /\ SequencesOn(IdColumn["column"]) = {s2}
      /\ SequencesOn(IdColumn["sequence"]) = {s3} /\ SequencesOn(IdColumn["index"]) = {s4}
  BY <1>1, <1>2 DEF SequencesOn
<1>4. ~Doing("create") /\ ~Doing("drop") /\ ~Doing("insert")
  BY <1>1 DEF Doing, Idle
<1>5. \A id \in Int : /\ id <= 4 => Taken("table", id) /\ Taken("sequence", id)
                      /\ id <= 120 => Taken("column", id)
  BY <1>2, <1>3, <1>4 DEF Taken, Pending, Todo
<1>6. \A t \in tables : t.id \in 1..4 /\ t \in TableRows
  BY <1>1 DEF SystemTables, TableRows, SystemNames
<1>7. DOMAIN files = {} /\ files \in [DOMAIN files -> Files]
  <2>1. DOMAIN << >> = {}
    OBVIOUS
  <2>2. << >> \in [{} -> Files]
    OBVIOUS
  <2> QED
    BY <1>1, <2>1, <2>2
<1>8. Types
  <2>1. tables \subseteq TableRows
    BY <1>6
  <2>2. /\ columns \in Seq(ColumnSlots)
        /\ \A i \in DOMAIN columns :
              IF columns[i].deleted THEN columns[i].row = None ELSE columns[i].row \in ColumnRows
    BY <1>1, SystemColumnsTyped
  <2> QED
    BY <1>1, <1>2, <1>7, <2>1, <2>2 DEF Types
<1>9. IdsTaken
  <2>1. \A t \in tables : Taken("table", t.id)
    BY <1>5, <1>6
  <2>2. \A i \in DOMAIN columns :
           ~columns[i].deleted => Taken("table", columns[i].row.t_id) /\ Taken("column", columns[i].row.id)
    <3> TAKE i \in DOMAIN columns
    <3>1. columns[i].row.t_id \in 1..4 /\ columns[i].row.id \in 0..120
      BY <1>1, SystemColumnsTyped
    <3> QED
      BY <1>5, <3>1
  <2>3. \A s \in sequences : Taken("sequence", s.id) /\ Taken("column", s.col_id)
    BY <1>1, <1>2, <1>5
  <2> QED
    BY <1>1, <1>7, <2>1, <2>2, <2>3 DEF IdsTaken
<1>10. SystemRows
  <2>1. \A part \in DOMAIN IdColumn : \E s \in sequences : SequencesOn(IdColumn[part]) = {s}
    BY <1>1, <1>3
  <2>2. \A s \in sequences : (s.col_id = 10 => s.current >= 4) /\ (s.col_id = 30 => s.current >= 120)
    BY <1>1, <1>2
  <2>3. \A t \in tables : t.id > 4 <=> t.name \in TableNames
    <3>1. \A t \in SystemTables : t.name \notin TableNames
      BY CatalogAssumption
    <3> QED
      BY <1>1, <1>6, <3>1
  <2>4. \A t, other \in tables : t.id = other.id \/ t.name = other.name => t = other
    BY <1>1 DEF SystemTables
  <2>5. \A i \in DOMAIN columns : ~columns[i].deleted /\ columns[i].row.t_id > 4 => columns[i].row.id > 120
    <3> TAKE i \in DOMAIN columns
    <3>1. columns[i].row.t_id \in 1..4
      BY <1>1, SystemColumnsTyped
    <3> QED
      BY <3>1
  <2> QED
    BY <1>1, <2>1, <2>2, <2>3, <2>4, <2>5 DEF SystemRows
<1>11. FilesOK
  BY <1>7 DEF FilesOK
<1> QED
  BY <1>4, <1>8, <1>9, <1>10, <1>11 DEF Inv, CreateOK, DropOK, InsertOK

\* Every step keeps it.
LEMMA StepKeepsInv == Inv /\ [Next]_vars => Inv'
<1> SUFFICES ASSUME Inv, [Next]_vars PROVE Inv'
  OBVIOUS
<1>1. CASE \E name \in TableNames : \E commands \in Commands : BeginCreate(name, commands)
  BY <1>1, BeginCreateKeeps
<1>2. CASE \E name \in TableNames : BeginDrop(name)
  BY <1>2, BeginDropKeeps
<1>3. CASE \E name \in TableNames : Open(name)
  BY <1>3, OpenKeeps
<1>4. CASE RefuseColumn \/ PanicWithoutColumns \/ CutShort
  <2>1. job' = Idle /\ UNCHANGED <<catalog, files, trees, handles, made>>
    BY <1>4 DEF RefuseColumn, PanicWithoutColumns, CutShort, Ends
  <2> QED
    BY <2>1, NoJob
<1>5. CASE DrawId
  BY <1>5, DrawIdKeeps
<1>6. CASE InsertTableRow
  BY <1>6, InsertTableRowKeeps
<1>7. CASE InsertColumnRow
  BY <1>7, InsertColumnRowKeeps
<1>8. CASE InsertSequenceRow
  BY <1>8, InsertSequenceRowKeeps
<1>9. CASE InsertIndexRow
  BY <1>9, InsertIndexRowKeeps
<1>10. CASE CreateTableFile
  BY <1>10, CreateTableFileKeeps
<1>11. CASE CreateFsmFile
  BY <1>11, CreateFsmFileKeeps
<1>12. CASE DropTable
  BY <1>12, DeleteTableRowKeeps, DeleteColumnRowKeeps, DeleteTableFileKeeps DEF DropTable
<1>13. CASE \E table \in handles : BeginInsert(table)
  BY <1>13, BeginInsertKeeps
<1>14. CASE \E table \in handles : \E i \in DOMAIN table.columns : DrawValue(table, table.columns[i])
  BY <1>14, DrawValueKeeps
<1>15. CASE WriteRow
  BY <1>15, WriteRowKeeps
<1>16. CASE UNCHANGED vars
  <2>1. UNCHANGED <<tables, columns, sequences, indexes, files, trees, handles, job, made>>
    BY <1>16 DEF vars
  <2> QED
    BY <2>1 DEF Inv, Types, FilesOK, IdsTaken, SystemRows, CreateOK, DropOK, InsertOK,
                Taken, Pending, Todo, Doing, SequencesOn, ReadMetadata, Exists
<1> QED
  BY <1>1, <1>2, <1>3, <1>4, <1>5, <1>6, <1>7, <1>8, <1>9, <1>10, <1>11, <1>12, <1>13, <1>14, <1>15, <1>16
     DEF Next, CreateTable

\* The rows of the system tables, the files and the job are always of their kind;
\* an id counts as taken from when it is drawn.
THEOREM InvHolds == Spec => []Inv
<1>1. Init => Inv
  BY InitInv
<1>2. Inv /\ [Next]_vars => Inv'
  BY StepKeepsInv
<1> QED
  BY <1>1, <1>2, PTL DEF Spec

\* The system's sequences and tables have one row each, and no two tables a name
\* or an id in common, whatever is created, dropped and cut short.
THEOREM TypesHold == Spec => []TypeOK
<1>1. Inv => TypeOK
  <2> SUFFICES ASSUME Inv PROVE TypeOK
    OBVIOUS
  <2>1. \A i \in DOMAIN columns :
           IF columns[i].deleted THEN columns[i].row = None
           ELSE columns[i].row.id \in Nat /\ columns[i].row.t_id \in Nat
    BY DEF Inv, Types, ColumnRows
  <2>2. \A part \in DOMAIN IdColumn : Cardinality(SequencesOn(IdColumn[part])) = 1
    BY FS_Singleton DEF Inv, SystemRows
  <2> QED
    BY <2>1, <2>2 DEF Inv, TypeOK, SystemRows, CreateOK
<1> QED
  BY <1>1, InvHolds, PTL

\* An id that is known as taken is not one that waits for its row.
LEMMA NewIds == Inv => NewIdsMeetNothing
<1> USE IdColumns
<1> SUFFICES ASSUME Inv, Doing("create"), NEW id, id = job.id, id # None
             PROVE  CASE Todo("table") ->
                            /\ \A t \in tables \cup handles : t.id # id
                            /\ \A i \in DOMAIN columns : ~columns[i].deleted => columns[i].row.t_id # id
                            /\ \A x \in indexes : x.t_id # id
                            /\ ~Exists(TableFile(id)) /\ ~Exists(FsmFile(id))
                      [] Todo("column") ->
                            /\ \A i \in DOMAIN columns : ~columns[i].deleted => columns[i].row.id # id
                            /\ \A s \in sequences : s.col_id # id
                            /\ \A x \in indexes : x.col_ids # id
                            /\ \A t \in handles : \A i \in DOMAIN t.columns : t.columns[i].id # id
                      [] Todo("sequence") -> \A s \in sequences : s.id # id
                      [] Todo("index")    -> id \notin trees /\ \A x \in indexes : x.id # id
  BY DEF NewIdsMeetNothing
<1>1. /\ job.part \in DOMAIN IdColumn
      /\ \A s \in SequencesOn(IdColumn[job.part]) : id = s.current
  BY DEF Inv, CreateOK
<1>2. job \in CreateJobs /\ id \in Nat
  BY JobOfCall DEF Inv, CreateJobs
<1>3. Taken(job.part, id) = FALSE
  <2>1. PICK s : SequencesOn(IdColumn[job.part]) = {s}
    BY <1>1 DEF Inv, SystemRows
  <2>2. Pending(job.part)
    BY DEF Pending, Todo
  <2> QED
    BY <1>1, <1>2, <2>1, <2>2 DEF Taken
<1>4. IdsTaken
  BY DEF Inv
<1>5. ASSUME job.part = "table"
      PROVE  /\ \A t \in tables \cup handles : t.id # id
             /\ \A i \in DOMAIN columns : ~columns[i].deleted => columns[i].row.t_id # id
             /\ \A x \in indexes : x.t_id # id
             /\ ~Exists(TableFile(id)) /\ ~Exists(FsmFile(id))
  BY <1>3, <1>4, <1>5 DEF IdsTaken, Exists, TableFile, FsmFile
<1>6. ASSUME job.part = "column"
      PROVE  /\ \A i \in DOMAIN columns : ~columns[i].deleted => columns[i].row.id # id
             /\ \A s \in sequences : s.col_id # id
             /\ \A x \in indexes : x.col_ids # id
             /\ \A t \in handles : \A i \in DOMAIN t.columns : t.columns[i].id # id
  BY <1>3, <1>4, <1>6 DEF IdsTaken
<1>7. ASSUME job.part = "sequence" PROVE \A s \in sequences : s.id # id
  BY <1>3, <1>4, <1>7 DEF IdsTaken
<1>8. ASSUME job.part = "index" PROVE id \notin trees /\ \A x \in indexes : x.id # id
  BY <1>3, <1>4, <1>8 DEF IdsTaken
<1>9. CASE job.part = "table"
  BY <1>5, <1>9 DEF Todo
<1>10. CASE job.part = "column"
  BY <1>6, <1>10 DEF Todo
<1>11. CASE job.part = "sequence"
  BY <1>7, <1>11 DEF Todo
<1>12. CASE job.part = "index"
  BY <1>8, <1>12 DEF Todo
<1> QED
  BY <1>1, <1>9, <1>10, <1>11, <1>12

\* An id that was drawn is met by no row, file or Table value of an earlier table.
THEOREM NewIdsAreNew == Spec => []NewIdsMeetNothing
BY NewIds, InvHolds, PTL

---------------------------------------------------------------------------
(* The files are the files PageMap promises. *)

\* What PageMap's variables are here.
PagesNow == [f \in DOMAIN files |-> PagesAt(files[f].pages)]
ScansNow == [f \in {f \in DOMAIN files : Readable(f)} |-> PagesAt(SeqPages(f))]

\* A file whose last allocation was not cut short.
Whole(f) ==
    files[f].metadata # NoMetadata /\ files[f].metadata.number_of_pages = Len(files[f].pages)

\* A scan that does not fail sees all pages of the file.
LEMMA ScansSeePages ==
    FilesInv => ScansNow = [f \in {f \in DOMAIN files : Whole(f)} |-> PagesAt(files[f].pages)]
<1> SUFFICES ASSUME FilesInv
             PROVE  ScansNow = [f \in {f \in DOMAIN files : Whole(f)} |-> PagesAt(files[f].pages)]
  OBVIOUS
<1>1. ASSUME NEW f \in DOMAIN files
      PROVE  /\ Readable(f) <=> Whole(f)
             /\ Readable(f) => SeqPages(f) = files[f].pages
  <2> PICK pages, m : pages = files[f].pages /\ m = files[f].metadata
    OBVIOUS
  <2>1. /\ pages \in Seq(HeapPages) /\ ReadMetadata(f) = m
        /\ m # NoMetadata => m.number_of_pages \in Nat /\ Len(pages) <= m.number_of_pages
    BY <1>1, FileIs DEF ReadMetadata, Exists
  <2>2. Readable(f) <=> Whole(f)
    BY <2>1 DEF Readable, Whole
  <2>3. SubSeq(pages, 1, Len(pages)) = pages
    BY <2>1
  <2> QED
    BY <2>1, <2>2, <2>3 DEF SeqPages, Whole
<1>2. {f \in DOMAIN files : Readable(f)} = {f \in DOMAIN files : Whole(f)}
  BY <1>1
<1>3. \A f \in {f \in DOMAIN files : Whole(f)} : PagesAt(SeqPages(f)) = PagesAt(files[f].pages)
  BY <1>1
<1> QED
  BY <1>2, <1>3 DEF ScansNow

LEMMA ScansSeePagesThen ==
    FilesInv' => (ScansNow = [f \in {f \in DOMAIN files : Whole(f)} |-> PagesAt(files[f].pages)])'
BY ScansSeePages, PTL

\* A file without pages.
LEMMA NoPagesAt == PagesAt(<< >>) = << >>
BY DEF PagesAt

LEMMA CreateMaps ==
    ASSUME FilesInv, NEW f, NEW complete \in BOOLEAN, Create(f, complete)
    PROVE  Pages!Next
<1> PICK P, S, Q, T : P = PagesNow /\ S = ScansNow /\ Q = PagesNow' /\ T = ScansNow'
  OBVIOUS
<1>1. /\ FilesInv' /\ f \notin DOMAIN files /\ DOMAIN files' = DOMAIN files \cup {f}
      /\ \A g \in DOMAIN files : files'[g] = files[g]
      /\ files'[f].pages = << >>
      /\ files'[f].metadata = IF complete THEN NewMetadata ELSE NoMetadata
  <2>1. PICK metadata : metadata = IF complete THEN NewMetadata ELSE NoMetadata
    OBVIOUS
  <2>2. files'[f] = [metadata |-> metadata, pages |-> << >>]
    BY <2>1, CreateMakes
  <2>3. files'[f].pages = << >> /\ files'[f].metadata = metadata
    BY <2>2
  <2>4. /\ FilesInv' /\ f \notin DOMAIN files /\ DOMAIN files' = DOMAIN files \cup {f}
        /\ \A g \in DOMAIN files : files'[g] = files[g]
    BY CreateMakes
  <2> QED
    BY <2>1, <2>3, <2>4
<1>2. f \notin DOMAIN P
  BY <1>1 DEF PagesNow
<1>3. Q = [g \in DOMAIN P \cup {f} |-> IF g = f THEN << >> ELSE P[g]]
  BY <1>1, NoPagesAt DEF PagesNow
<1>4. S = [g \in {g \in DOMAIN files : Whole(g)} |-> PagesAt(files[g].pages)]
  BY ScansSeePages
<1>5. T = [g \in {g \in DOMAIN files' : Whole(g)'} |-> PagesAt(files'[g].pages)]
  BY <1>1, ScansSeePagesThen
<1>6. \A g \in DOMAIN files : Whole(g)' <=> Whole(g)
  BY <1>1 DEF Whole
<1>7. T \in {S, [g \in DOMAIN S \cup {f} |-> IF g = f THEN << >> ELSE S[g]]}
  <2>1. CASE complete
    <3>1. Whole(f)'
      <4>1. NewMetadata # NoMetadata /\ NewMetadata.number_of_pages = 0
        BY HeapFileAssumption DEF NewMetadata
      <4> QED
        BY <1>1, <2>1, <4>1 DEF Whole
    <3>2. {g \in DOMAIN files' : Whole(g)'} = {g \in DOMAIN files : Whole(g)} \cup {f}
      BY <1>1, <1>6, <3>1
    <3>3. T = [g \in DOMAIN S \cup {f} |-> IF g = f THEN << >> ELSE S[g]]
      BY <1>1, <1>4, <1>5, <3>2, NoPagesAt
    <3> QED
      BY <3>3
  <2>2. CASE ~complete
    <3>1. ~Whole(f)'
      BY <1>1, <2>2 DEF Whole
    <3>2. {g \in DOMAIN files' : Whole(g)'} = {g \in DOMAIN files : Whole(g)}
      BY <1>1, <1>6, <3>1
    <3>3. T = S
      BY <1>1, <1>4, <1>5, <3>2
    <3> QED
      BY <3>3
  <2> QED
    BY <2>1, <2>2
<1>8. f \in DOMAIN Q
  BY <1>3
<1>9. Pages!Create(f)
  <2>1. Q = Pages!With(P, f, << >>) /\ T \in {S, Pages!With(S, f, << >>)}
    BY <1>3, <1>7 DEF Pages!With
  <2> QED
    BY <1>2, <2>1 DEF Pages!Create, PagesNow, ScansNow
<1> QED
  BY <1>8, <1>9 DEF Pages!Next, PagesNow

LEMMA DeleteMaps ==
    ASSUME FilesInv, NEW f, Delete(f)
    PROVE  Pages!Next
<1> PICK P, S, Q, T : P = PagesNow /\ S = ScansNow /\ Q = PagesNow' /\ T = ScansNow'
  OBVIOUS
<1>1. /\ FilesInv' /\ f \in DOMAIN files /\ DOMAIN files' = DOMAIN files \ {f}
      /\ \A g \in DOMAIN files' : files'[g] = files[g]
  BY DeleteMakes
<1>2. Q = [g \in DOMAIN P \ {f} |-> P[g]]
  BY <1>1 DEF PagesNow
<1>3. S = [g \in {g \in DOMAIN files : Whole(g)} |-> PagesAt(files[g].pages)]
  BY ScansSeePages
<1>4. T = [g \in {g \in DOMAIN files' : Whole(g)'} |-> PagesAt(files'[g].pages)]
  BY <1>1, ScansSeePagesThen
<1>5. \A g \in DOMAIN files' : Whole(g)' <=> Whole(g)
  BY <1>1 DEF Whole
<1>6. {g \in DOMAIN files' : Whole(g)'} = DOMAIN S \ {f}
  BY <1>1, <1>3, <1>5
<1>7. T = [g \in DOMAIN S \ {f} |-> S[g]]
  BY <1>1, <1>3, <1>4, <1>6
<1>8. Q = Pages!Restrict(P, DOMAIN P \ {f}) /\ T = Pages!Restrict(S, DOMAIN S \ {f})
  BY <1>2, <1>7 DEF Pages!Restrict
<1>9. Pages!Delete(f)
  BY <1>8 DEF Pages!Delete, PagesNow, ScansNow
<1>10. f \in DOMAIN P
  BY <1>1 DEF PagesNow
<1> QED
  BY <1>9, <1>10 DEF Pages!Next, PagesNow

\* The pages of a file that got one more, behind the others and any holes.
LEMMA PagesAtWithNew ==
    ASSUME NEW pages \in Seq(HeapPages), NEW id \in Nat, Len(pages) < id,
           \A i \in DOMAIN pages : pages[i].page_id = i \/ pages[i] = Hole
    PROVE  PagesAt(WithPage(pages, NewPage(id)))
               = [i \in DOMAIN PagesAt(pages) \cup {id} |-> IF i = id THEN {} ELSE PagesAt(pages)[i]]
<1> PICK page : page = NewPage(id)
  OBVIOUS
<1>1. page \in HeapPages /\ page.page_id = id /\ page.rows = {} /\ page.page_id > 0 /\ Len(pages) \in Nat
  BY DEF NewPage, HeapPages
<1> PICK after : after = WithPage(pages, page)
  OBVIOUS
<1>2. /\ Len(after) = id /\ DOMAIN after = 1..id
      /\ \A i \in DOMAIN after : after[i] = IF i = id THEN page ELSE IF i <= Len(pages) THEN pages[i] ELSE Hole
  <2>1. Len(after) = id /\ DOMAIN after = 1..Len(after)
    BY <1>1, WithPageMakes
  <2>2. \A i \in DOMAIN after : after[i] = IF i = page.page_id THEN page ELSE IF i <= Len(pages) THEN pages[i] ELSE Hole
    BY <1>1, WithPageMakes
  <2> QED
    BY <1>1, <2>1, <2>2
<1>3. DOMAIN pages = 1..Len(pages)
  OBVIOUS
<1>4. \A i \in 1..id : Hole.page_id # i
  BY DEF Hole, NewPage
<1>5. {i \in DOMAIN after : after[i].page_id = i} = {i \in DOMAIN pages : pages[i].page_id = i} \cup {id}
  BY <1>1, <1>2, <1>3, <1>4
<1>6. \A i \in {i \in DOMAIN after : after[i].page_id = i} :
          after[i].rows = IF i = id THEN {} ELSE pages[i].rows
  <2> SUFFICES ASSUME NEW i \in 1..id, after[i].page_id = i
               PROVE  after[i].rows = IF i = id THEN {} ELSE pages[i].rows
    BY <1>2
  <2>1. CASE i = id
    BY <1>1, <1>2, <2>1
  <2>2. CASE i # id
    BY <1>2, <1>4, <2>2
  <2> QED
    BY <2>1, <2>2
<1>7. \A i \in {i \in DOMAIN pages : pages[i].page_id = i} : i # id
  BY <1>3
<1> QED
  BY <1>5, <1>6, <1>7 DEF PagesAt

LEMMA AllocateMaps ==
    ASSUME FilesInv, NEW f \in DOMAIN files, NEW complete \in BOOLEAN, AllocatePage(f, complete)
    PROVE  Pages!Next
<1> PICK P, S, Q, T : P = PagesNow /\ S = ScansNow /\ Q = PagesNow' /\ T = ScansNow'
  OBVIOUS
<1> PICK m, pages, after :
        /\ m = files[f].metadata /\ pages = files[f].pages
        /\ after = IF complete THEN WithPage(pages, NewPage(m.next_id)) ELSE pages
  OBVIOUS
<1>1. m # NoMetadata /\ ReadMetadata(f) = m
  BY DEF AllocatePage, ReadMetadata, Exists
<1>2. /\ m \in Metadata /\ m.next_id \in Nat /\ m.number_of_pages \in Nat /\ m.next_id = m.number_of_pages + 1
      /\ Len(pages) <= m.number_of_pages /\ pages \in Seq(HeapPages)
      /\ \A i \in DOMAIN pages : pages[i].page_id = i \/ pages[i] = Hole
  BY <1>1, FileIs
<1>3. /\ FilesInv' /\ DOMAIN files' = DOMAIN files
      /\ \A g \in DOMAIN files : g # f => files'[g] = files[g]
      /\ files'[f] = [metadata |-> Allocated(m), pages |-> after]
      /\ Allocated(m) \in Metadata
  BY <1>1, AllocatePageMakes
<1>4. files'[f].pages = after /\ files'[f].metadata = Allocated(m)
  BY <1>3
<1>5. Allocated(m) # NoMetadata /\ Allocated(m).number_of_pages = m.number_of_pages + 1
  BY <1>3, HeapFileAssumption DEF Allocated, Metadata
<1>6. S = [g \in {g \in DOMAIN files : Whole(g)} |-> PagesAt(files[g].pages)]
  BY ScansSeePages
<1>7. T = [g \in {g \in DOMAIN files : Whole(g)'} |-> PagesAt(files'[g].pages)]
  BY <1>3, ScansSeePagesThen
<1>8. \A g \in DOMAIN files : g # f => (Whole(g)' <=> Whole(g))
  BY <1>3 DEF Whole
<1>9. CASE complete
  <2>1. after = WithPage(pages, NewPage(m.next_id)) /\ Len(after) = m.next_id
    <3>1. NewPage(m.next_id) \in HeapPages /\ NewPage(m.next_id).page_id = m.next_id
      BY <1>2 DEF NewPage, HeapPages
    <3> QED
      BY <1>2, <1>9, <3>1, WithPageMakes
  <2>2. PagesAt(after) = [i \in DOMAIN PagesAt(pages) \cup {m.next_id} |->
                              IF i = m.next_id THEN {} ELSE PagesAt(pages)[i]]
    <3>1. Len(pages) < m.next_id
      BY <1>2
    <3> QED
      BY <1>2, <2>1, <3>1, PagesAtWithNew, ZenonT(60)
  <2>3. PagesAt(after) = Pages!With(PagesAt(pages), m.next_id, {})
    BY <2>2 DEF Pages!With
  <2>4. P[f] = PagesAt(pages) /\ f \in DOMAIN P /\ Q[f] = PagesAt(after)
    BY <1>3, <1>4 DEF PagesNow
  <2>5. Q = [P EXCEPT ![f] = Pages!With(P[f], m.next_id, {})]
    BY <1>3, <2>3, <2>4 DEF PagesNow
  <2>6. m.next_id \in DOMAIN Q[f]
    BY <2>2, <2>4
  <2>7. \A other \in DOMAIN P[f] : m.next_id > other
    BY <1>2, <2>4 DEF PagesAt
  <2>8. Whole(f)'
    BY <1>2, <1>4, <1>5, <2>1 DEF Whole
  <2>9. {g \in DOMAIN files : Whole(g)'} = {g \in DOMAIN files : Whole(g)} \cup {f}
    BY <1>8, <2>8
  <2>10. T = [g \in DOMAIN S \cup {f} |-> IF g = f THEN PagesAt(after) ELSE S[g]]
    BY <1>3, <1>4, <1>6, <1>7, <2>9
  <2>11. T = Pages!With(S, f, Q[f])
    BY <2>4, <2>10 DEF Pages!With
  <2>12. DOMAIN Q = DOMAIN P
    BY <2>5
  <2>13. Pages!Allocate(f)
    BY <2>5, <2>6, <2>7, <2>11, <2>12 DEF Pages!Allocate, PagesNow, ScansNow
  <2> QED
    BY <2>4, <2>13 DEF Pages!Next, PagesNow
<1>10. CASE ~complete
  <2>1. after = pages
    BY <1>10
  <2>2. Q = P
    BY <1>3, <1>4, <2>1 DEF PagesNow
  <2>3. ~Whole(f)'
    BY <1>2, <1>4, <1>5, <2>1 DEF Whole
  <2>4. {g \in DOMAIN files : Whole(g)'} = DOMAIN S \ {f}
    BY <1>6, <1>8, <2>3
  <2>5. T = [g \in DOMAIN S \ {f} |-> S[g]]
    BY <1>3, <1>6, <1>7, <2>4
  <2>6. T = Pages!Restrict(S, DOMAIN S \ {f})
    BY <2>5 DEF Pages!Restrict
  <2>7. Pages!CutShort(f)
    BY <2>2, <2>6 DEF Pages!CutShort, PagesNow, ScansNow
  <2>8. f \in DOMAIN P
    BY DEF PagesNow
  <2> QED
    BY <2>7, <2>8 DEF Pages!Next, PagesNow
<1> QED
  BY <1>9, <1>10

LEMMA WriteMaps ==
    ASSUME FilesInv, NEW f \in DOMAIN files, NEW page \in HeapPages, WritePage(f, page),
           files[f].metadata # NoMetadata, page.page_id \in DOMAIN files[f].pages,
           files[f].pages[page.page_id].page_id = page.page_id
    PROVE  Pages!Next
<1> PICK P, S, Q, T : P = PagesNow /\ S = ScansNow /\ Q = PagesNow' /\ T = ScansNow'
  OBVIOUS
<1> PICK m, pages, id, after :
        /\ m = files[f].metadata /\ pages = files[f].pages /\ id = page.page_id
        /\ after = [pages EXCEPT ![id] = page]
  OBVIOUS
<1>1. /\ FilesInv' /\ DOMAIN files' = DOMAIN files
      /\ \A g \in DOMAIN files : g # f => files'[g] = files[g]
      /\ files'[f] = [metadata |-> m, pages |-> after]
  BY WritePageMakes
<1>2. files'[f].pages = after /\ files'[f].metadata = m
  BY <1>1
<1>3. pages \in Seq(HeapPages) /\ id \in DOMAIN pages /\ pages[id].page_id = id
  BY FileIs
<1>4. Len(after) = Len(pages) /\ DOMAIN after = DOMAIN pages
  BY <1>3
<1>5. PagesAt(after) = [PagesAt(pages) EXCEPT ![id] = page.rows]
  <2>1. {i \in DOMAIN after : after[i].page_id = i} = {i \in DOMAIN pages : pages[i].page_id = i}
    BY <1>3, <1>4
  <2> QED
    BY <1>3, <1>4, <2>1 DEF PagesAt
<1>6. id \in DOMAIN PagesAt(pages)
  BY <1>3 DEF PagesAt
<1>7. P[f] = PagesAt(pages) /\ f \in DOMAIN P /\ Q[f] = PagesAt(after) /\ DOMAIN Q = DOMAIN P
  BY <1>1, <1>2 DEF PagesNow
<1>8. Q[f][id] = page.rows /\ id \in DOMAIN Q[f]
  BY <1>5, <1>6, <1>7
<1>9. Q = [P EXCEPT ![f] = [P[f] EXCEPT ![id] = Q[f][id]]]
  BY <1>1, <1>5, <1>7, <1>8 DEF PagesNow
<1>10. S = [g \in {g \in DOMAIN files : Whole(g)} |-> PagesAt(files[g].pages)]
  BY ScansSeePages
<1>11. T = [g \in {g \in DOMAIN files : Whole(g)'} |-> PagesAt(files'[g].pages)]
  BY <1>1, ScansSeePagesThen
<1>12. Whole(f)' <=> Whole(f)
  BY <1>2, <1>4 DEF Whole
<1>13. \A g \in DOMAIN files : Whole(g)' <=> Whole(g)
  BY <1>1, <1>12 DEF Whole
<1>14. {g \in DOMAIN files : Whole(g)'} = DOMAIN S
  BY <1>10, <1>13
<1>15. CASE f \in DOMAIN S
  <2>1. T = [g \in DOMAIN S \cup {f} |-> IF g = f THEN Q[f] ELSE S[g]]
    BY <1>1, <1>2, <1>7, <1>10, <1>11, <1>14, <1>15
  <2>2. T = Pages!With(S, f, Q[f])
    BY <2>1 DEF Pages!With
  <2> QED
    BY <1>6, <1>7, <1>8, <1>9, <1>15, <2>2 DEF Pages!Write, Pages!Next, PagesNow, ScansNow
<1>16. CASE f \notin DOMAIN S
  <2>1. T = S
    BY <1>1, <1>10, <1>11, <1>14, <1>16
  <2> QED
    BY <1>6, <1>7, <1>8, <1>9, <1>16, <2>1 DEF Pages!Write, Pages!Next, PagesNow, ScansNow
<1> QED
  BY <1>15, <1>16

\* Every step of the catalog is a step of the files or leaves them alone.
LEMMA StepMaps == Inv /\ [Next]_vars => [Pages!Next]_Pages!vars
<1> SUFFICES ASSUME Inv, [Next]_vars PROVE Pages!Next \/ UNCHANGED <<PagesNow, ScansNow>>
  BY DEF Pages!vars, PagesNow, ScansNow
<1>1. FilesInv
  BY DEF Inv, Types, FilesInv
<1>2. ASSUME UNCHANGED files PROVE UNCHANGED <<PagesNow, ScansNow>>
  BY <1>2 DEF PagesNow, ScansNow, Readable, SeqPages, ReadMetadata, Exists
<1>3. CASE UNCHANGED files
  BY <1>2, <1>3
<1>4. CASE CreateTableFile \/ CreateFsmFile
  <2>1. UNCHANGED files \/ \E f, complete : complete \in BOOLEAN /\ Create(f, complete)
    BY <1>4 DEF CreateTableFile, CreateFsmFile, CreateFails
  <2> QED
    BY <1>1, <1>2, <2>1, CreateMaps
<1>5. CASE DeleteTableFile
  BY <1>1, <1>2, <1>5, DeleteMaps DEF DeleteTableFile
<1>6. CASE \E table \in handles : BeginInsert(table)
  <2>1. PICK table \in handles : BeginInsert(table)
    BY <1>6
  <2> PICK f : f = TableFile(table.id)
    OBVIOUS
  <2>2. UNCHANGED files \/ (ReadMetadata(f) # NoMetadata /\ \E complete \in BOOLEAN : AllocatePage(f, complete))
    BY <2>1 DEF BeginInsert
  <2>3. ReadMetadata(f) # NoMetadata => f \in DOMAIN files
    BY DEF ReadMetadata, Exists
  <2> QED
    BY <1>1, <1>2, <2>2, <2>3, AllocateMaps
<1>7. CASE WriteRow
  <2> PICK f, page : f = TableFile(job.table.id) /\ page = [page_id |-> job.page, rows |-> {job.table.columns}]
    OBVIOUS
  <2>1. Doing("insert") /\ WritePage(f, page) /\ page.page_id = job.page
    BY <1>7 DEF WriteRow
  <2>2. page \in HeapPages
    <3>1. job \in InsertJobs
      BY <2>1, JobOfCall DEF Inv
    <3>2. job.page \in Nat /\ job.table.columns \in Seq(Columns)
      BY <3>1 DEF InsertJobs, Tables
    <3> QED
      BY <3>2 DEF HeapPages
  <2>3. /\ f \in DOMAIN files /\ files[f].metadata # NoMetadata
        /\ job.page \in DOMAIN files[f].pages /\ files[f].pages[job.page].page_id = job.page
    BY <2>1 DEF Inv, InsertOK, ReadMetadata, Exists
  <2> QED
    BY <1>1, <2>1, <2>2, <2>3, WriteMaps
<1>8. CASE RefuseColumn \/ PanicWithoutColumns \/ CutShort \/ DeleteTableRow \/ DeleteColumnRow
  BY <1>2, <1>8 DEF RefuseColumn, PanicWithoutColumns, CutShort, DeleteTableRow, DeleteColumnRow
<1>9. CASE DrawId \/ InsertTableRow \/ InsertColumnRow \/ InsertSequenceRow \/ InsertIndexRow
  BY <1>2, <1>9 DEF DrawId, InsertTableRow, InsertColumnRow, InsertSequenceRow, InsertIndexRow
<1>10. CASE \E name \in TableNames : (\E commands \in Commands : BeginCreate(name, commands))
                                    \/ BeginDrop(name) \/ Open(name)
  BY <1>2, <1>10 DEF BeginCreate, BeginDrop, Open
<1>11. CASE \E table \in handles : \E i \in DOMAIN table.columns : DrawValue(table, table.columns[i])
  BY <1>2, <1>11 DEF DrawValue
<1>12. CASE UNCHANGED vars
  BY <1>2, <1>12 DEF vars
<1> QED
  BY <1>4, <1>5, <1>6, <1>7, <1>8, <1>9, <1>10, <1>11, <1>12 DEF Next, CreateTable, DropTable

\* Whatever calls are made and cut short, the files are files of numbered pages:
\* a page holds what was written to it last, and a scan misses no page.
THEOREM FilesArePageMaps == Spec => ImplementsPageMap
<1>1. Init => Pages!Init
  <2> SUFFICES ASSUME files = << >> PROVE Pages!Init
    BY DEF Init
  <2>1. DOMAIN files = {}
    OBVIOUS
  <2> QED
    BY <2>1 DEF Pages!Init
<1>2. Inv /\ [Next]_vars => [Pages!Next]_Pages!vars
  BY StepMaps
<1> QED
  BY <1>1, <1>2, InvHolds, PTL DEF Spec, ImplementsPageMap, Pages!Spec

---------------------------------------------------------------------------
(* Names of one length. *)

SameLengths == \A name, other \in DOMAIN NameLength : NameLength[name] = NameLength[other]

---------------------------------------------------------------------------
(* Reading the columns of a table. *)

\* A row that comes behind the others of its table is read last; k beyond the
\* slots means that there is no new row.
LEMMA ReadExtended ==
    ASSUME NEW cols \in Seq(ColumnSlots), NEW more \in Seq(ColumnSlots), NEW t_id, NEW k \in Nat \ {0},
           Len(cols) <= Len(more),
           \A i \in 1..Len(more) : IsRowOf(more, t_id, i) <=> IsRowOf(cols, t_id, i) \/ i = k,
           \A i \in 1..Len(more) : IsRowOf(cols, t_id, i) => i < k /\ more[i].row = cols[i].row
    PROVE  ReadOf(more, t_id) =
               IF k <= Len(more) THEN Append(ReadOf(cols, t_id), ColumnFrom(more[k].row))
               ELSE ReadOf(cols, t_id)
<1> PICK n, l : n = Len(cols) /\ l = Len(more)
  OBVIOUS
<1>1. n \in Nat /\ l \in Nat /\ n <= l /\ DOMAIN cols = 1..n /\ DOMAIN more = 1..l
  OBVIOUS
<1> PICK f : ReadsOn(f, cols, t_id) /\ ReadOf(cols, t_id) = f[n]
  BY ReadIs
<1> PICK g : ReadsOn(g, more, t_id) /\ ReadOf(more, t_id) = g[l]
  BY ReadIs
<1> DEFINE Before(m) == IF m <= n THEN f[m] ELSE f[n]
           Reads(m)  == g[m] = IF m < k THEN Before(m) ELSE Append(Before(m), ColumnFrom(more[k].row))
           S         == {m \in Nat : m <= l => Reads(m)}
<1>2. 0 \in S
  BY <1>1 DEF ReadsOn
<1>3. ASSUME NEW m \in Nat, m \in S PROVE m + 1 \in S
  <2>1. SUFFICES ASSUME m + 1 <= l PROVE Reads(m + 1)
    OBVIOUS
  <2>2. Reads(m)
    BY <1>1, <1>3, <2>1
  <2>3. g[m + 1] = IF IsRowOf(more, t_id, m + 1) THEN Append(g[m], ColumnFrom(more[m + 1].row)) ELSE g[m]
    BY <1>1, <2>1 DEF ReadsOn
  <2>4. Before(m + 1) = IF IsRowOf(cols, t_id, m + 1) THEN Append(Before(m), ColumnFrom(cols[m + 1].row)) ELSE Before(m)
    <3>1. CASE m + 1 <= n
      <4>1. f[m + 1] = IF IsRowOf(cols, t_id, m + 1) THEN Append(f[m], ColumnFrom(cols[m + 1].row)) ELSE f[m]
        BY <1>1, <3>1 DEF ReadsOn
      <4> QED
        BY <1>1, <3>1, <4>1
    <3>2. CASE m + 1 > n
      <4>1. ~IsRowOf(cols, t_id, m + 1)
        BY <1>1, <3>2 DEF IsRowOf
      <4>2. Before(m + 1) = f[n] /\ Before(m) = f[n]
        BY <1>1, <3>2
      <4> QED
        BY <4>1, <4>2
    <3> QED
      BY <1>1, <3>1, <3>2
  <2>5. IsRowOf(cols, t_id, m + 1) => m + 1 < k /\ more[m + 1].row = cols[m + 1].row
    BY <1>1, <2>1
  <2>6. IsRowOf(more, t_id, m + 1) <=> IsRowOf(cols, t_id, m + 1) \/ m + 1 = k
    BY <1>1, <2>1
  <2> HIDE DEF Before
  <2>7. CASE IsRowOf(cols, t_id, m + 1)
    <3>1. m + 1 < k /\ m < k /\ more[m + 1].row = cols[m + 1].row
      BY <2>5, <2>7
    <3>2. g[m] = Before(m)
      BY <2>2, <3>1
    <3>3. g[m + 1] = Append(Before(m), ColumnFrom(cols[m + 1].row))
      BY <2>3, <2>6, <2>7, <3>1, <3>2
    <3>4. g[m + 1] = Before(m + 1)
      BY <2>4, <2>7, <3>3
    <3> QED
      BY <3>1, <3>4
  <2>8. CASE m + 1 = k
    BY <2>2, <2>3, <2>4, <2>5, <2>6, <2>8
  <2>9. CASE ~IsRowOf(cols, t_id, m + 1) /\ m + 1 # k
    BY <2>2, <2>3, <2>4, <2>6, <2>9
  <2> QED
    BY <2>7, <2>8, <2>9
<1> HIDE DEF S
<1>4. Nat \subseteq S
  BY <1>2, <1>3, SetInduction
<1>5. Reads(l)
  BY <1>1, <1>4 DEF S
<1>6. Before(l) = f[n]
  BY <1>1
<1> QED
  BY <1>1, <1>5, <1>6

\* Other rows do not matter.
LEMMA ReadUntouched ==
    ASSUME NEW cols \in Seq(ColumnSlots), NEW more \in Seq(ColumnSlots), NEW t_id,
           Len(cols) <= Len(more),
           \A i \in 1..Len(more) : IsRowOf(more, t_id, i) <=> IsRowOf(cols, t_id, i),
           \A i \in 1..Len(more) : IsRowOf(cols, t_id, i) => more[i].row = cols[i].row
    PROVE  ReadOf(more, t_id) = ReadOf(cols, t_id)
<1> PICK k : k = Len(more) + 1
  OBVIOUS
<1>1. k \in Nat \ {0} /\ ~(k <= Len(more))
  OBVIOUS
<1>2. \A i \in 1..Len(more) : IsRowOf(more, t_id, i) <=> IsRowOf(cols, t_id, i) \/ i = k
  OBVIOUS
<1>3. \A i \in 1..Len(more) : IsRowOf(cols, t_id, i) => i < k /\ more[i].row = cols[i].row
  OBVIOUS
<1> QED
  BY <1>1, <1>2, <1>3, ReadExtended

\* A table without rows has no columns.
LEMMA ReadNone ==
    ASSUME NEW cols \in Seq(ColumnSlots), NEW t_id, \A i \in DOMAIN cols : ~IsRowOf(cols, t_id, i)
    PROVE  ReadOf(cols, t_id) = << >>
<1>1. << >> \in Seq(ColumnSlots) /\ Len(<< >>) = 0 /\ 0 <= Len(cols)
  OBVIOUS
<1>2. \A i \in 1..Len(cols) : ~IsRowOf(cols, t_id, i) /\ ~IsRowOf(<< >>, t_id, i)
  BY DEF IsRowOf
<1>3. ReadOf(cols, t_id) = ReadOf(<< >>, t_id)
  BY <1>1, <1>2, ReadUntouched
<1>4. PICK f : ReadsOn(f, << >>, t_id) /\ ReadOf(<< >>, t_id) = f[Len(<< >>)]
  BY <1>1, ReadIs
<1> QED
  BY <1>1, <1>3, <1>4 DEF ReadsOn

---------------------------------------------------------------------------
(* The inductive invariant of what is read. *)

\* Rows that clients cause, and free slots, are as long as the name of a column
\* of theirs makes them.
RowsAlike ==
    \A i \in DOMAIN columns :
        columns[i].deleted \/ columns[i].row.t_id > 4 =>
            \E name \in DOMAIN NameLength : columns[i].length = 15 + NameLength[name]

\* The Table values clients hold of a table that is there are what is read of it.
HandlesFit ==
    \A h \in handles : \A t \in tables :
        t.id = h.id => t.name = h.name /\ h.columns # << >> /\ h.columns = ColumnsOf(h.id)

\* The rows in a table's file were written with the columns it has.
FilesFit ==
    \A t \in tables : Exists(TableFile(t.id)) =>
        \A i \in DOMAIN files[TableFile(t.id)].pages :
            files[TableFile(t.id)].pages[i].rows \subseteq {ColumnsOf(t.id)}

\* What create_table has written is what will be read; free slots are behind it.
CreateFits ==
    Doing("create") /\ job.part # "table" =>
        /\ [id |-> job.tbl_id, name |-> job.name] \in tables
        /\ job.columns = ColumnsOf(job.tbl_id)
        /\ \A h \in handles : h.id # job.tbl_id
        /\ IF job.part = "fsm file" THEN job.columns # << >> ELSE ~Exists(TableFile(job.tbl_id))
        /\ \A i \in ColumnRowsOf(job.tbl_id), j \in Deleted(columns) : i < j

\* drop_table takes the row of tables first, then rows of columns of that table.
DropFits ==
    Doing("drop") =>
        /\ job.table.id > 4
        /\ \/ job.rows = None /\ [id |-> job.table.id, name |-> job.table.name] \in tables
           \/ /\ job.rows \subseteq ColumnRowsOf(job.table.id)
              /\ \A t \in tables : t.id # job.table.id /\ t.name # job.table.name

InsertFits == Doing("insert") => job.table \in handles

ReadInv == RowsAlike /\ HandlesFit /\ FilesFit /\ CreateFits /\ DropFits /\ InsertFits
---------------------------------------------------------------------------
(* Steps that leave rows of tables and columns, files and Table values. *)

\* What is read, before and after a step.
LEMMA ReadNow == (\A id : ColumnsOf(id) = ReadOf(columns, id)) /\ (\A id : ColumnsOf(id)' = ReadOf(columns', id))
BY DEF ColumnsOf, ReadOf

Quiet == UNCHANGED <<tables, columns, files, handles>>

LEMMA QuietStays ==
    ASSUME Inv, ReadInv, Quiet, CreateFits' /\ DropFits' /\ InsertFits'
    PROVE  ReadInv'
<1>1. \A id : ColumnsOf(id)' = ColumnsOf(id)
  BY ReadNow DEF Quiet
<1>2. RowsAlike'
  BY DEF ReadInv, RowsAlike, Quiet
<1>3. HandlesFit'
  BY <1>1 DEF ReadInv, HandlesFit, Quiet
<1>4. FilesFit'
  BY <1>1 DEF ReadInv, FilesFit, Quiet, Exists
<1> QED
  BY <1>2, <1>3, <1>4 DEF ReadInv

\* A call that ends, and one that begins with create_table.
LEMMA NoJobReads ==
    ASSUME Inv, ReadInv, Quiet, job' = Idle \/ (job'.op = "create" /\ job'.part = "table")
    PROVE  ReadInv'
<1>1. job'.op \in {"idle", "create"} /\ (job'.op = "create" => job'.part = "table")
  BY DEF Idle
<1>2. CreateFits' /\ DropFits' /\ InsertFits'
  BY <1>1 DEF CreateFits, DropFits, InsertFits, Doing
<1> QED
  BY <1>2, QuietStays

\* create_table goes on without writing rows of tables or columns.
LEMMA CreateReads ==
    ASSUME Inv, ReadInv, Quiet, Doing("create"), job'.op = "create",
           job'.part # "table" =>
              /\ job.part # "table" /\ (job'.part = "fsm file" <=> job.part = "fsm file")
              /\ job'.name = job.name /\ job'.tbl_id = job.tbl_id /\ job'.columns = job.columns
    PROVE  ReadInv'
<1>1. DropFits' /\ InsertFits'
  BY DEF DropFits, InsertFits, Doing
<1>2. CreateFits'
  <2>1. SUFFICES ASSUME job'.part # "table" PROVE CreateFits'
    BY DEF CreateFits
  <2>2. ColumnsOf(job.tbl_id)' = ColumnsOf(job.tbl_id) /\ ColumnRowsOf(job.tbl_id)' = ColumnRowsOf(job.tbl_id)
    BY <2>1, ReadNow DEF Quiet, ColumnRowsOf
  <2> QED
    BY <2>1, <2>2 DEF ReadInv, CreateFits, Quiet, Exists, Deleted
<1> QED
  BY <1>1, <1>2, QuietStays

LEMMA DrawIdReads ==
    ASSUME Inv, ReadInv, DrawId
    PROVE  ReadInv'
<1> PICK id : id = DrawnVal(IdColumn[job.part])
  OBVIOUS
<1>1. Doing("create") /\ Quiet /\ job' = [job EXCEPT !.id = id] /\ job \in CreateJobs
  BY JobOfCall DEF DrawId, Quiet, Inv
<1>2. /\ job'.op = "create" /\ job'.part = job.part
      /\ job'.name = job.name /\ job'.tbl_id = job.tbl_id /\ job'.columns = job.columns
  BY <1>1 DEF CreateJobs
<1> QED
  BY <1>1, <1>2, CreateReads

LEMMA InsertSequenceOrIndexReads ==
    ASSUME Inv, ReadInv, InsertSequenceRow \/ InsertIndexRow
    PROVE  ReadInv'
<1>1. /\ Doing("create") /\ Quiet /\ job.part \in {"sequence", "index"}
      /\ job' \in {Then("index"), NextColumn}
  BY DEF InsertSequenceRow, InsertIndexRow, Todo, Quiet
<1>2. job \in CreateJobs /\ job.todo # << >>
  BY <1>1, JobOfCall DEF Inv, CreateOK
<1>3. Follows(job') /\ job'.part \in {"index", "column", "table file"}
  BY <1>1, <1>2, ThenFollows, NextColumnFollows
<1> QED
  BY <1>1, <1>3, CreateReads DEF Follows

LEMMA BeginDropReads ==
    ASSUME Inv, ReadInv, NEW name \in TableNames, BeginDrop(name)
    PROVE  ReadInv'
<1> PICK table : table = ReadTable(name)
  OBVIOUS
<1>1. /\ job = Idle /\ Quiet
      /\ \/ job' = Idle
         \/ table \notin {Missing, Error, Panic} /\ job' = [op |-> "drop", table |-> table, rows |-> None]
  BY DEF BeginDrop, catalog, Quiet
<1>2. CASE job' = Idle
  BY <1>1, <1>2, NoJobReads
<1>3. CASE table \notin {Missing, Error, Panic} /\ job' = [op |-> "drop", table |-> table, rows |-> None]
  <2>1. PICK t \in tables : t.name = name /\ table = [id |-> t.id, name |-> name, columns |-> table.columns]
    BY <1>3, ReadTableReads DEF Inv
  <2>2. t = [id |-> t.id, name |-> t.name] /\ t.id > 4
    BY <2>1 DEF Inv, Types, TableRows, SystemRows
  <2>3. table.id = t.id /\ table.name = t.name
    BY <2>1
  <2>4. [id |-> table.id, name |-> table.name] \in tables /\ table.id > 4
    BY <2>2, <2>3
  <2>5. job'.op = "drop" /\ job'.table = table /\ job'.rows = None
    BY <1>3
  <2>6. DropFits'
    BY <1>1, <2>4, <2>5 DEF DropFits, Quiet
  <2>7. CreateFits' /\ InsertFits'
    BY <2>5 DEF CreateFits, InsertFits, Doing
  <2> QED
    BY <1>1, <2>6, <2>7, QuietStays
<1> QED
  BY <1>1, <1>2, <1>3

\* What is opened is what is read.
LEMMA OpenReads ==
    ASSUME Inv, ReadInv, NEW name \in TableNames, Open(name)
    PROVE  ReadInv'
<1> PICK table : table = ReadTable(name)
  OBVIOUS
<1>1. /\ job = Idle /\ job' = Idle /\ UNCHANGED <<tables, columns, files>>
      /\ \/ handles' = handles
         \/ table \notin {Missing, Error, Panic} /\ handles' = handles \cup {table}
  BY DEF Open, catalog
<1>2. CASE handles' = handles
  BY <1>1, <1>2, NoJobReads DEF Quiet
<1>3. CASE table \notin {Missing, Error, Panic} /\ handles' = handles \cup {table}
  <2>1. PICK t \in tables : /\ t.name = name
                            /\ table = [id |-> t.id, name |-> name, columns |-> table.columns]
                            /\ table.columns = ColumnsOf(t.id) /\ table.columns # << >>
    BY <1>3, ReadTableReads DEF Inv
  <2>2. table.id = t.id
    BY <2>1
  <2>3. \A id : ColumnsOf(id)' = ColumnsOf(id)
    BY <1>1, ReadNow
  <2>4. HandlesFit'
    <3> SUFFICES ASSUME NEW h \in handles', NEW s \in tables, s.id = h.id
                 PROVE  s.name = h.name /\ h.columns # << >> /\ h.columns = ColumnsOf(h.id)
      BY <1>1, <2>3 DEF HandlesFit
    <3>1. CASE h \in handles
      BY <3>1 DEF ReadInv, HandlesFit
    <3>2. CASE h = table
      <4>1. s = t
        BY <2>2, <3>2 DEF Inv, SystemRows
      <4>2. table.name = name
        BY <2>1
      <4> QED
        BY <2>1, <2>2, <3>2, <4>1, <4>2
    <3> QED
      BY <1>3, <3>1, <3>2
  <2>5. RowsAlike' /\ FilesFit'
    BY <1>1, <2>3 DEF ReadInv, RowsAlike, FilesFit, Exists
  <2>6. CreateFits' /\ DropFits' /\ InsertFits'
    BY <1>1 DEF CreateFits, DropFits, InsertFits, Doing, Idle
  <2> QED
    BY <2>4, <2>5, <2>6 DEF ReadInv
<1> QED
  BY <1>1, <1>2, <1>3

---------------------------------------------------------------------------
(* The rows of tables and columns. *)

\* A new id is no row's: the table begins without columns.
LEMMA InsertTableRowReads ==
    ASSUME Inv, ReadInv, InsertTableRow
    PROVE  ReadInv'
<1> PICK id : id = job.id
  OBVIOUS
<1>1. /\ Doing("create") /\ job.part = "table" /\ id # None
      /\ tables' = tables \cup {[id |-> id, name |-> job.name]}
      /\ job' = [StartColumn(job.todo) EXCEPT !.tbl_id = id]
      /\ UNCHANGED <<columns, files, handles>>
  BY DEF InsertTableRow, Todo
<1>2. job \in CreateJobs /\ job.columns = << >>
  BY <1>1, JobOfCall DEF Inv, CreateOK
<1>3. /\ \A h \in handles : h.id # id
      /\ \A i \in DOMAIN columns : ~columns[i].deleted => columns[i].row.t_id # id
      /\ ~Exists(TableFile(id))
  BY <1>1, NewIds DEF NewIdsMeetNothing, Todo
<1> DEFINE next == StartColumn(job.todo)
<1>4. Follows(next) /\ next.part \in {"column", "table file"}
  BY <1>2, StartColumnFollows DEF CreateJobs
<1> HIDE DEF next
<1>5. /\ job'.op = "create" /\ job'.part \in {"column", "table file"} /\ job'.name = job.name
      /\ job'.columns = << >> /\ job'.tbl_id = id
  BY <1>1, <1>2, <1>4 DEF Follows, CreateJobs, next
<1>6. \A t : ColumnsOf(t)' = ColumnsOf(t)
  BY <1>1, ReadNow
<1>7. ColumnsOf(id) = << >> /\ ColumnRowsOf(id)' = {}
  <2>1. columns \in Seq(ColumnSlots)
    BY DEF Inv, Types
  <2>2. \A i \in DOMAIN columns : ~IsRowOf(columns, id, i)
    BY <1>3 DEF IsRowOf
  <2>3. ReadOf(columns, id) = << >>
    BY <2>1, <2>2, ReadNone
  <2> QED
    BY <1>1, <1>3, <2>3, ReadNow DEF ColumnRowsOf
<1>8. HandlesFit'
  <2> SUFFICES ASSUME NEW h \in handles, NEW t \in tables', t.id = h.id
               PROVE  t.name = h.name /\ h.columns # << >> /\ h.columns = ColumnsOf(h.id)
    BY <1>1, <1>6 DEF HandlesFit
  <2>1. t \in tables
    BY <1>1, <1>3
  <2> QED
    BY <2>1 DEF ReadInv, HandlesFit
<1>9. FilesFit'
  <2>1. ASSUME NEW t \in tables', Exists(TableFile(t.id)) PROVE t \in tables
    BY <1>1, <1>3, <2>1
  <2> QED
    BY <1>1, <1>6, <2>1 DEF ReadInv, FilesFit, Exists
<1>10. RowsAlike'
  BY <1>1 DEF ReadInv, RowsAlike
<1>11. CreateFits'
  <2>1. [id |-> job'.tbl_id, name |-> job'.name] \in tables'
    <3>1. [id |-> id, name |-> job.name] \in tables'
      BY <1>1
    <3> QED
      BY <1>5, <3>1
  <2>2. job'.columns = ColumnsOf(id)'
    BY <1>5, <1>6, <1>7
  <2>3. ~Exists(TableFile(id))'
    BY <1>1, <1>3 DEF Exists
  <2> QED
    BY <1>1, <1>3, <1>5, <1>7, <2>1, <2>2, <2>3 DEF CreateFits
<1>12. DropFits' /\ InsertFits'
  BY <1>5 DEF DropFits, InsertFits, Doing
<1> QED
  BY <1>8, <1>9, <1>10, <1>11, <1>12 DEF ReadInv
\* A row of columns goes into the first free slot, or behind the others.
GoesFirst(cols, more, slot, k) ==
    /\ more \in Seq(ColumnSlots) /\ Len(cols) <= Len(more)
    /\ k \in 1..Len(more) /\ more[k] = slot
    /\ k \in DOMAIN cols => cols[k].deleted
    /\ \A j \in Deleted(cols) : k <= j
    /\ \A i \in 1..Len(more) : i # k => i \in DOMAIN cols /\ more[i] = cols[i]
    /\ Deleted(cols) = {} => k = Len(cols) + 1

LEMMA FirstSlot ==
    ASSUME SameLengths, Inv, RowsAlike, NEW name \in DOMAIN NameLength,
           NEW slot \in ColumnSlots, ~slot.deleted, slot.length = 15 + NameLength[name]
    PROVE  GoesFirst(columns, WithRecord(columns, slot), slot, SlotFor(columns, slot.length))
<1> PICK len : len = slot.length /\ len \in Int
  BY DEF ColumnSlots
<1> PICK cols, free : cols = columns /\ free = Deleted(columns)
  OBVIOUS
<1>1. cols \in Seq(ColumnSlots) /\ DOMAIN cols = 1..Len(cols) /\ Len(cols) \in Nat
  BY DEF Inv, Types
<1>2. free \in SUBSET Nat /\ free \subseteq DOMAIN cols /\ \A j \in free : cols[j].deleted
  BY <1>1 DEF Deleted
<1>3. \A j \in free : cols[j].length = len
  <2> TAKE j \in free
  <2>1. PICK other \in DOMAIN NameLength : cols[j].length = 15 + NameLength[other]
    BY <1>2 DEF RowsAlike
  <2> QED
    BY <2>1 DEF SameLengths
<1>4. {j \in Deleted(cols) : cols[j].length = len} = free /\ {j \in Deleted(cols) : cols[j].length > len} = {}
  <2>1. \A j \in free : ~(cols[j].length > len)
    BY <1>3
  <2> QED
    BY <1>3, <2>1
<1> PICK k : k = SlotFor(cols, len)
  OBVIOUS
<1>5. k = IF free # {} THEN Min(free) ELSE Len(cols) + 1
  BY <1>4 DEF SlotFor
<1> PICK more : more = WithRecord(cols, slot)
  OBVIOUS
<1>6. CASE free = {}
  <2>1. k = Len(cols) + 1 /\ k > Len(cols) /\ k = SlotFor(cols, slot.length)
    BY <1>1, <1>5, <1>6
  <2>2. more = Append(cols, slot)
    BY <2>1 DEF WithRecord
  <2> QED
    BY <1>1, <1>6, <2>1, <2>2 DEF GoesFirst
<1>7. CASE free # {}
  <2>1. k \in free /\ \A j \in free : k <= j
    BY <1>2, <1>5, <1>7, MinIsLeast
  <2>2. k \in 1..Len(cols) /\ ~(k > Len(cols)) /\ cols[k].length = slot.length /\ cols[k].deleted
    BY <1>1, <1>2, <1>3, <2>1
  <2>3. more = [cols EXCEPT ![k] = slot]
    BY <2>2 DEF WithRecord
  <2>4. more \in Seq(ColumnSlots) /\ Len(more) = Len(cols) /\ \A i \in 1..Len(cols) : more[i] = IF i = k THEN slot ELSE cols[i]
    BY <1>1, <2>2, <2>3
  <2> QED
    BY <1>1, <1>7, <2>1, <2>2, <2>4 DEF GoesFirst
<1> QED
  BY <1>6, <1>7

\* The column that create_table makes next, and the row that is written for it.
NewColumn == [id |-> job.id, name |-> Current.name, col_type |-> Current.col_type]
NewSlot   == Slot(ColumnRow(job.id, job.tbl_id, Current.name, Current.col_type), NameLength[Current.name])

LEMMA ColumnRowIs ==
    ASSUME Inv, InsertColumnRow
    PROVE  /\ Doing("create") /\ job.part = "column" /\ job \in CreateJobs /\ job.id # None /\ job.id \in Nat
           /\ job.tbl_id \in Nat /\ job.tbl_id > 4 /\ job.columns \in Seq(Columns)
           /\ Current.name \in DOMAIN NameLength
           /\ columns' = WithRecord(columns, NewSlot)
           /\ NewSlot \in ColumnSlots /\ ~NewSlot.deleted /\ NewSlot.length = 15 + NameLength[Current.name]
           /\ NewSlot.row \in ColumnRows /\ NewSlot.row.name = Current.name
           /\ NewSlot.row.id = job.id /\ NewSlot.row.t_id = job.tbl_id
           /\ ColumnFrom(NewSlot.row) = NewColumn /\ NewColumn \in Columns
           /\ job'.op = "create" /\ job'.name = job.name /\ job'.tbl_id = job.tbl_id
           /\ job'.columns = Append(job.columns, NewColumn)
           /\ job'.part \in {"column", "sequence", "index", "table file"}
<1> PICK id, tbl_id, cmd : id = job.id /\ tbl_id = job.tbl_id /\ cmd = Current
  OBVIOUS
<1>1. Doing("create") /\ job.part = "column" /\ id # None /\ columns' = WithRecord(columns, NewSlot)
  BY DEF InsertColumnRow, Todo, NewSlot
<1>2. /\ job \in CreateJobs /\ id \in Nat /\ job.columns \in Seq(Columns) /\ job.todo # << >>
      /\ tbl_id \in Nat /\ tbl_id > 4
  BY <1>1, JobOfCall DEF Inv, CreateOK, CreateJobs
<1>3. cmd.name \in DOMAIN NameLength /\ cmd.col_type \in ColumnTypes /\ cmd.name \in ColumnNames
  BY <1>2, CurrentIsCommand DEF CreateColumnCommand, ColumnNames
<1> PICK row : row = ColumnRow(id, tbl_id, cmd.name, cmd.col_type)
  OBVIOUS
<1>4. row \in ColumnRows /\ row.id = id /\ row.t_id = tbl_id /\ row.name = cmd.name
  BY <1>2, <1>3, ColumnReadsBack DEF ColumnRow
<1>5. ColumnFrom(row) = NewColumn /\ NewColumn \in Columns
  BY <1>2, <1>3, ColumnReadsBack DEF NewColumn, Columns
<1>6. /\ NewSlot \in ColumnSlots /\ ~NewSlot.deleted /\ NewSlot.row = row
      /\ NewSlot.length = 15 + NameLength[cmd.name]
  <2>1. NewSlot = [row |-> row, length |-> 15 + NameLength[cmd.name], deleted |-> FALSE]
    BY DEF NewSlot, Slot
  <2>2. 15 + NameLength[cmd.name] \in Int
    BY <1>3, CatalogAssumption
  <2> QED
    BY <1>4, <2>1, <2>2 DEF ColumnSlots
<1>7. PICK next \in {Then("sequence"), Then("index"), NextColumn} : job' = AddedTo(next, NewColumn)
  BY DEF InsertColumnRow, AddedTo, NewColumn
<1>8. Follows(next) /\ next.part \in {"column", "sequence", "index", "table file"}
  BY <1>2, ThenFollows, NextColumnFollows
<1>9. /\ job'.op = "create" /\ job'.name = job.name /\ job'.tbl_id = tbl_id /\ job'.part = next.part
      /\ job'.columns = Append(job.columns, NewColumn)
  <2> PICK new, col : new = AddedTo(next, NewColumn) /\ col = NewColumn
    OBVIOUS
  <2>1. Follows(next) /\ col \in Columns /\ new = AddedTo(next, col)
    BY <1>5, <1>8
  <2>2. /\ new.op = "create" /\ new.name = job.name /\ new.tbl_id = job.tbl_id /\ new.part = next.part
        /\ new.columns = Append(job.columns, col)
    BY <2>1, WithColumn
  <2> QED
    BY <1>7, <2>2
<1> QED
  BY <1>1, <1>2, <1>3, <1>4, <1>5, <1>6, <1>8, <1>9

\* The new column is read last of its table, other tables are read as before.
LEMMA InsertColumnRowReads ==
    ASSUME SameLengths, Inv, ReadInv, InsertColumnRow
    PROVE  ReadInv'
<1> PICK slot, id, k : slot = NewSlot /\ id = job.tbl_id /\ k = SlotFor(columns, NewSlot.length)
  OBVIOUS
<1> PICK cols, more : cols = columns /\ more = columns'
  OBVIOUS
<1>1. /\ Doing("create") /\ job.part = "column" /\ id \in Nat /\ id > 4
      /\ slot.row.t_id = id /\ slot.row \in ColumnRows /\ ~slot.deleted
      /\ job'.op = "create" /\ job'.name = job.name /\ job'.tbl_id = id
      /\ job'.columns = Append(job.columns, ColumnFrom(slot.row))
      /\ job'.part \in {"column", "sequence", "index", "table file"}
  BY ColumnRowIs
<1>2. PICK name \in DOMAIN NameLength : slot.length = 15 + NameLength[name]
  BY ColumnRowIs
<1>3. GoesFirst(cols, more, slot, k)
  BY ColumnRowIs, FirstSlot DEF ReadInv
<1>4. UNCHANGED <<tables, files, handles>>
  BY DEF InsertColumnRow
<1>5. cols \in Seq(ColumnSlots) /\ DOMAIN cols = 1..Len(cols) /\ Len(cols) \in Nat
  BY DEF Inv, Types
<1>6. more \in Seq(ColumnSlots) /\ DOMAIN more = 1..Len(more) /\ k \in Nat \ {0} /\ k <= Len(more) /\ Len(cols) <= Len(more)
  BY <1>3 DEF GoesFirst
<1>7. /\ \A h \in handles : h.id # id
      /\ ~Exists(TableFile(id)) /\ [id |-> id, name |-> job.name] \in tables
      /\ job.columns = ColumnsOf(id)
      /\ \A i \in ColumnRowsOf(id), j \in Deleted(cols) : i < j
  BY <1>1 DEF ReadInv, CreateFits
<1>8. \A i \in DOMAIN cols : ~cols[i].deleted => i # k
  BY <1>3 DEF GoesFirst
<1>9. \A t \in Nat : \A i \in 1..Len(more) : IsRowOf(more, t, i) <=> IsRowOf(cols, t, i) \/ (t = id /\ i = k)
  BY <1>1, <1>3, <1>5, <1>6, <1>8, ZenonT(60) DEF GoesFirst, IsRowOf
<1>10. \A t \in Nat : \A i \in 1..Len(more) : IsRowOf(cols, t, i) => more[i] = cols[i] /\ i # k
  BY <1>3, <1>8 DEF GoesFirst, IsRowOf
<1>11. \A i \in 1..Len(more) : IsRowOf(cols, id, i) => i < k
  <2> SUFFICES ASSUME NEW i \in 1..Len(more), IsRowOf(cols, id, i) PROVE i < k
    OBVIOUS
  <2>1. i \in ColumnRowsOf(id)
    BY DEF IsRowOf, ColumnRowsOf
  <2>2. CASE Deleted(cols) = {}
    BY <1>3, <1>5, <2>2 DEF GoesFirst, IsRowOf
  <2>3. CASE Deleted(cols) # {}
    <3>1. k \in DOMAIN cols => k \in Deleted(cols)
      BY <1>3 DEF GoesFirst, Deleted
    <3>2. k \in DOMAIN cols
      <4>1. PICK j \in Deleted(cols) : TRUE
        BY <2>3
      <4>2. j \in DOMAIN cols /\ k <= j
        BY <1>3 DEF GoesFirst, Deleted
      <4> QED
        BY <1>5, <1>6, <4>2
    <3> QED
      BY <1>7, <2>1, <3>1, <3>2
  <2> QED
    BY <2>2, <2>3
<1>12. ColumnsOf(id)' = Append(ColumnsOf(id), ColumnFrom(slot.row))
  <2>1. more[k] = slot
    BY <1>3 DEF GoesFirst
  <2>2. \A i \in 1..Len(more) : IsRowOf(more, id, i) <=> IsRowOf(cols, id, i) \/ i = k
    BY <1>1, <1>9
  <2>3. \A i \in 1..Len(more) : IsRowOf(cols, id, i) => i < k /\ more[i].row = cols[i].row
    BY <1>1, <1>10, <1>11
  <2>4. ReadOf(more, id) = Append(ReadOf(cols, id), ColumnFrom(more[k].row))
    BY <1>5, <1>6, <2>2, <2>3, ReadExtended, SMTT(30)
  <2> QED
    BY <2>1, <2>4, ReadNow
<1>13. \A t \in Nat : t # id => ColumnsOf(t)' = ColumnsOf(t)
  <2> SUFFICES ASSUME NEW t \in Nat, t # id PROVE ReadOf(more, t) = ReadOf(cols, t)
    BY ReadNow
  <2>1. \A i \in 1..Len(more) : IsRowOf(more, t, i) <=> IsRowOf(cols, t, i)
    BY <1>9
  <2>2. \A i \in 1..Len(more) : IsRowOf(cols, t, i) => more[i].row = cols[i].row
    BY <1>10
  <2> QED
    BY <1>5, <1>6, <2>1, <2>2, ReadUntouched
<1>14. \A t \in tables : t.id \in Nat
  BY DEF Inv, Types, TableRows
<1>15. HandlesFit'
  BY <1>4, <1>7, <1>13, <1>14 DEF ReadInv, HandlesFit
<1>16. FilesFit'
  BY <1>4, <1>7, <1>13, <1>14 DEF ReadInv, FilesFit, Exists
<1>17. RowsAlike'
  <2>1. \A i \in DOMAIN more : i # k => i \in DOMAIN cols /\ more[i] = cols[i]
    BY <1>3, <1>6 DEF GoesFirst
  <2>2. more[k] = slot
    BY <1>3 DEF GoesFirst
  <2> QED
    BY <1>2, <2>1, <2>2 DEF ReadInv, RowsAlike
<1>18. CreateFits'
  <2>1. \A i \in ColumnRowsOf(id)', j \in Deleted(more) : i < j
    <3> SUFFICES ASSUME NEW i \in ColumnRowsOf(id)', NEW j \in Deleted(more) PROVE i < j
      OBVIOUS
    <3>1. i \in 1..Len(more) /\ IsRowOf(more, id, i)
      BY <1>6 DEF ColumnRowsOf, IsRowOf
    <3>2. j \in Deleted(cols) /\ k < j
      <4>1. j \in 1..Len(more) /\ more[j].deleted /\ j # k
        BY <1>1, <1>3, <1>6 DEF GoesFirst, Deleted
      <4>2. j \in Deleted(cols)
        BY <1>3, <4>1 DEF GoesFirst, Deleted
      <4>3. k <= j
        BY <1>3, <4>2 DEF GoesFirst
      <4> QED
        BY <1>6, <4>1, <4>2, <4>3
    <3>3. CASE i = k
      BY <3>2, <3>3
    <3>4. CASE i # k
      <4>1. i \in ColumnRowsOf(id)
        BY <1>1, <1>9, <3>1, <3>4 DEF IsRowOf, ColumnRowsOf
      <4> QED
        BY <1>7, <3>2, <4>1
    <3> QED
      BY <3>3, <3>4
  <2>2. ~Exists(TableFile(id))'
    BY <1>4, <1>7 DEF Exists
  <2>3. job'.columns = ColumnsOf(id)'
    BY <1>1, <1>7, <1>12
  <2>4. [id |-> job'.tbl_id, name |-> job'.name] \in tables'
    BY <1>1, <1>4, <1>7
  <2> QED
    BY <1>1, <1>4, <1>7, <2>1, <2>2, <2>3, <2>4 DEF CreateFits
<1>19. DropFits' /\ InsertFits'
  BY <1>1 DEF DropFits, InsertFits, Doing
<1> QED
  BY <1>15, <1>16, <1>17, <1>18, <1>19 DEF ReadInv
\* Only the rows of the table that is gone are taken out.
LEMMA DeleteTableRowReads ==
    ASSUME Inv, ReadInv, DeleteTableRow
    PROVE  ReadInv'
<1> PICK table, rows : table = job.table /\ rows = ColumnRowsOf(job.table.id)
  OBVIOUS
<1>1. /\ Doing("drop") /\ tables' = {t \in tables : t.name # table.name}
      /\ job.rows = None /\ job' = [job EXCEPT !.rows = rows]
      /\ UNCHANGED <<columns, files, handles>>
  BY DEF DeleteTableRow
<1>2. job \in DropJobs
  BY <1>1, JobOfCall DEF Inv
<1>3. job'.op = "drop" /\ job'.table = table /\ job'.rows = rows
  BY <1>1, <1>2 DEF DropJobs
<1>4. \A id : ColumnsOf(id)' = ColumnsOf(id) /\ ColumnRowsOf(id)' = ColumnRowsOf(id)
  BY <1>1, ReadNow DEF ColumnRowsOf
<1>5. table.id > 4 /\ \A t \in tables' : t.id # table.id /\ t.name # table.name
  <2>1. /\ table.id > 4
        /\ \/ [id |-> table.id, name |-> table.name] \in tables
           \/ \A t \in tables : t.id # table.id /\ t.name # table.name
    BY <1>1 DEF ReadInv, DropFits
  <2>2. ASSUME NEW s \in tables, s.id = table.id, s.name = table.name, NEW t \in tables, t.id = table.id
        PROVE  t.name = table.name
    BY <2>2 DEF Inv, SystemRows
  <2>3. [id |-> table.id, name |-> table.name].id = table.id /\ [id |-> table.id, name |-> table.name].name = table.name
    OBVIOUS
  <2> QED
    BY <1>1, <2>1, <2>2, <2>3
<1>6. tables' \subseteq tables
  BY <1>1
<1>7. HandlesFit' /\ FilesFit' /\ RowsAlike'
  BY <1>1, <1>4, <1>6 DEF ReadInv, HandlesFit, FilesFit, RowsAlike, Exists
<1>8. DropFits'
  BY <1>1, <1>3, <1>4, <1>5 DEF DropFits
<1>9. CreateFits' /\ InsertFits'
  BY <1>3 DEF CreateFits, InsertFits, Doing
<1> QED
  BY <1>7, <1>8, <1>9 DEF ReadInv

LEMMA DeleteColumnRowReads ==
    ASSUME Inv, ReadInv, DeleteColumnRow
    PROVE  ReadInv'
<1> PICK k, rows, id : k = Min(job.rows) /\ rows = job.rows /\ id = job.table.id
  OBVIOUS
<1>1. /\ Doing("drop") /\ rows \notin {None, {}}
      /\ columns' = [WithoutRecord(columns, k) EXCEPT ![k].row = None]
      /\ job' = [job EXCEPT !.rows = rows \ {k}]
      /\ UNCHANGED <<tables, files, handles>>
  BY DEF DeleteColumnRow
<1>2. /\ job \in DropJobs /\ id > 4 /\ rows \subseteq ColumnRowsOf(id)
      /\ \A t \in tables : t.id # id /\ t.name # job.table.name
  BY <1>1, JobOfCall DEF Inv, ReadInv, DropFits
<1>3. k \in ColumnRowsOf(id)
  <2>1. rows \in SUBSET Nat
    BY <1>2 DEF ColumnRowsOf, Inv, Types
  <2> QED
    BY <1>1, <1>2, <2>1, MinIsLeast
<1> PICK cols, more : cols = columns /\ more = columns'
  OBVIOUS
<1>4. cols \in Seq(ColumnSlots) /\ k \in DOMAIN cols /\ ~cols[k].deleted /\ cols[k].row.t_id = id /\ cols[k] \in ColumnSlots
  BY <1>3 DEF Inv, Types, ColumnRowsOf
<1> PICK slot : slot = [[cols[k] EXCEPT !.deleted = TRUE] EXCEPT !.row = None]
  OBVIOUS
<1>5. slot \in ColumnSlots /\ slot.deleted /\ slot.length = cols[k].length
  BY <1>4 DEF ColumnSlots
<1>6. /\ more = [cols EXCEPT ![k] = slot]
      /\ more \in Seq(ColumnSlots) /\ DOMAIN more = DOMAIN cols /\ Len(more) = Len(cols)
      /\ \A i \in DOMAIN cols : more[i] = IF i = k THEN slot ELSE cols[i]
  <2>1. more = [cols EXCEPT ![k] = slot]
    BY <1>1, <1>4 DEF WithoutRecord
  <2> QED
    BY <1>4, <1>5, <2>1
<1>7. \A t : t # id => ColumnsOf(t)' = ColumnsOf(t)
  <2> SUFFICES ASSUME NEW t, t # id PROVE ReadOf(more, t) = ReadOf(cols, t)
    BY ReadNow
  <2>1. \A i \in 1..Len(more) : IsRowOf(more, t, i) <=> IsRowOf(cols, t, i)
    BY <1>4, <1>5, <1>6 DEF IsRowOf
  <2>2. \A i \in 1..Len(more) : IsRowOf(cols, t, i) => more[i].row = cols[i].row
    BY <1>4, <1>6 DEF IsRowOf
  <2> QED
    <3>1. cols \in Seq(ColumnSlots) /\ more \in Seq(ColumnSlots) /\ Len(cols) <= Len(more)
      BY <1>4, <1>6
    <3> QED
      BY <2>1, <2>2, <3>1, ReadUntouched
<1>8. job'.op = "drop" /\ job'.table = job.table /\ job'.rows = rows \ {k}
  BY <1>1, <1>2 DEF DropJobs
<1>9. HandlesFit' /\ FilesFit'
  BY <1>1, <1>2, <1>7 DEF ReadInv, HandlesFit, FilesFit, Exists
<1>10. RowsAlike'
  BY <1>2, <1>4, <1>5, <1>6 DEF ReadInv, RowsAlike
<1>11. DropFits'
  <2>1. rows \ {k} \subseteq ColumnRowsOf(id)'
    BY <1>2, <1>6 DEF ColumnRowsOf
  <2> QED
    BY <1>1, <1>2, <1>8, <2>1 DEF DropFits
<1>12. CreateFits' /\ InsertFits'
  BY <1>8 DEF CreateFits, InsertFits, Doing
<1> QED
  BY <1>9, <1>10, <1>11, <1>12 DEF ReadInv

---------------------------------------------------------------------------
(* Files. *)

\* The rows of a file are those it had, or were written as they should be.
LEMMA FilesStillFit ==
    ASSUME Inv, ReadInv, UNCHANGED <<tables, columns>>,
           \A f \in DOMAIN files' : \A i \in DOMAIN files'[f].pages : \A row \in files'[f].pages[i].rows :
              \/ f \in DOMAIN files /\ \E j \in DOMAIN files[f].pages : row \in files[f].pages[j].rows
              \/ \A t \in tables : f = TableFile(t.id) => row = ColumnsOf(t.id)
    PROVE  FilesFit' /\ RowsAlike' /\ \A id : ColumnsOf(id)' = ColumnsOf(id) /\ ColumnRowsOf(id)' = ColumnRowsOf(id)
<1>1. \A id : ColumnsOf(id)' = ColumnsOf(id) /\ ColumnRowsOf(id)' = ColumnRowsOf(id)
  BY ReadNow DEF ColumnRowsOf
<1>2. RowsAlike'
  BY DEF ReadInv, RowsAlike
<1>3. FilesFit'
  <2> SUFFICES ASSUME NEW t \in tables, NEW f, f = TableFile(t.id), f \in DOMAIN files',
                      NEW i \in DOMAIN files'[f].pages, NEW row \in files'[f].pages[i].rows
               PROVE  row = ColumnsOf(t.id)
    BY <1>1 DEF FilesFit, Exists
  <2> QED
    BY DEF ReadInv, FilesFit, Exists
<1> QED
  BY <1>1, <1>2, <1>3

\* A file that is created has no pages; no file of another table changes.
LEMMA CreateFileReads ==
    ASSUME Inv, ReadInv, NEW f, Create(f, TRUE) \/ CreateFails(f), UNCHANGED <<tables, columns>>
    PROVE  /\ FilesFit' /\ RowsAlike'
           /\ \A id : ColumnsOf(id)' = ColumnsOf(id) /\ ColumnRowsOf(id)' = ColumnRowsOf(id)
<1>1. FilesInv
  BY DEF Inv, Types, FilesInv
<1>2. UNCHANGED files \/ \E complete \in BOOLEAN : Create(f, complete)
  BY DEF CreateFails
<1>3. CASE UNCHANGED files
  BY <1>3, FilesStillFit
<1>4. ASSUME NEW complete \in BOOLEAN, Create(f, complete)
      PROVE  \A g \in DOMAIN files' : (g \in DOMAIN files /\ files'[g] = files[g]) \/ files'[g].pages = << >>
  <2>1. /\ DOMAIN files' = DOMAIN files \cup {f} /\ \A g \in DOMAIN files : files'[g] = files[g]
        /\ files'[f] = [metadata |-> IF complete THEN NewMetadata ELSE NoMetadata, pages |-> << >>]
    BY <1>1, <1>4, CreateMakes
  <2> PICK metadata : metadata = IF complete THEN NewMetadata ELSE NoMetadata
    OBVIOUS
  <2>2. files'[f] = [metadata |-> metadata, pages |-> << >>]
    BY <2>1
  <2>3. files'[f].pages = << >>
    BY <2>2
  <2> QED
    BY <2>1, <2>3
<1>5. ASSUME NEW complete \in BOOLEAN, Create(f, complete)
      PROVE  \A g \in DOMAIN files' : \A i \in DOMAIN files'[g].pages : \A row \in files'[g].pages[i].rows :
                g \in DOMAIN files /\ \E j \in DOMAIN files[g].pages : row \in files[g].pages[j].rows
  <2>1. DOMAIN << >> = {}
    OBVIOUS
  <2> QED
    BY <1>4, <1>5, <2>1
<1> QED
  BY <1>2, <1>3, <1>5, FilesStillFit

LEMMA CreateTableFileReads ==
    ASSUME Inv, ReadInv, CreateTableFile
    PROVE  ReadInv'
<1>1. /\ Doing("create") /\ job.part = "table file" /\ UNCHANGED <<tables, columns, handles>>
      /\ job.columns # << >>
      /\ \E f : Create(f, TRUE) \/ CreateFails(f)
      /\ job' = Then("fsm file") \/ job' = Idle
  BY DEF CreateTableFile, Todo, Ends, catalog
<1>2. /\ FilesFit' /\ RowsAlike'
      /\ \A id : ColumnsOf(id)' = ColumnsOf(id) /\ ColumnRowsOf(id)' = ColumnRowsOf(id)
  BY <1>1, CreateFileReads
<1>3. HandlesFit'
  BY <1>1, <1>2 DEF ReadInv, HandlesFit
<1>4. CASE job' = Idle
  BY <1>2, <1>3, <1>4 DEF ReadInv, CreateFits, DropFits, InsertFits, Doing, Idle
<1>5. CASE job' = Then("fsm file")
  <2>1. Follows(job') /\ job'.part = "fsm file"
    BY <1>1, <1>5, ThenFollows, JobOfCall DEF Inv
  <2>2. job'.op = "create" /\ job'.name = job.name /\ job'.tbl_id = job.tbl_id /\ job'.columns = job.columns
    BY <2>1 DEF Follows
  <2>3. CreateFits'
    BY <1>1, <1>2, <2>1, <2>2 DEF ReadInv, CreateFits, Deleted
  <2>4. DropFits' /\ InsertFits'
    BY <2>2 DEF DropFits, InsertFits, Doing
  <2> QED
    BY <1>2, <1>3, <2>3, <2>4 DEF ReadInv
<1> QED
  BY <1>1, <1>4, <1>5

\* The table that create_table returns is the one that will be read.
LEMMA CreateFsmFileReads ==
    ASSUME Inv, ReadInv, CreateFsmFile
    PROVE  ReadInv'
<1> PICK table : table = [id |-> job.tbl_id, name |-> job.name, columns |-> job.columns]
  OBVIOUS
<1>1. /\ Doing("create") /\ job.part = "fsm file" /\ UNCHANGED <<tables, columns>>
      /\ \E f : Create(f, TRUE) \/ CreateFails(f)
      /\ job' = Idle /\ handles' \in {handles, handles \cup {table}}
  BY DEF CreateFsmFile, Todo, Ends, catalog
<1>2. /\ FilesFit' /\ RowsAlike'
      /\ \A id : ColumnsOf(id)' = ColumnsOf(id) /\ ColumnRowsOf(id)' = ColumnRowsOf(id)
  BY <1>1, CreateFileReads
<1>3. table.id = job.tbl_id /\ table.name = job.name /\ table.columns = job.columns
  OBVIOUS
<1>4. /\ [id |-> job.tbl_id, name |-> job.name] \in tables /\ job.columns = ColumnsOf(job.tbl_id)
      /\ job.columns # << >>
  BY <1>1 DEF ReadInv, CreateFits
<1>5. \A t \in tables : t.id = table.id => t.name = table.name
  <2>1. [id |-> job.tbl_id, name |-> job.name].id = table.id /\ [id |-> job.tbl_id, name |-> job.name].name = table.name
    BY <1>3
  <2> QED
    BY <1>4, <2>1 DEF Inv, SystemRows
<1>6. HandlesFit'
  <2> SUFFICES ASSUME NEW h \in handles', NEW t \in tables, t.id = h.id
               PROVE  t.name = h.name /\ h.columns # << >> /\ h.columns = ColumnsOf(h.id)
    BY <1>1, <1>2 DEF HandlesFit
  <2>1. CASE h \in handles
    BY <2>1 DEF ReadInv, HandlesFit
  <2>2. CASE h = table
    BY <1>3, <1>4, <1>5, <2>2
  <2> QED
    BY <1>1, <2>1, <2>2
<1> QED
  BY <1>1, <1>2, <1>6 DEF ReadInv, CreateFits, DropFits, InsertFits, Doing, Idle

LEMMA DeleteTableFileReads ==
    ASSUME Inv, ReadInv, DeleteTableFile
    PROVE  ReadInv'
<1> PICK f : f = TableFile(job.table.id)
  OBVIOUS
<1>1. /\ UNCHANGED <<tables, columns, handles>> /\ job' = Idle
      /\ Delete(f) \/ UNCHANGED files
  BY DEF DeleteTableFile, Ends, catalog
<1>2. DOMAIN files' \subseteq DOMAIN files /\ \A g \in DOMAIN files' : files'[g] = files[g]
  BY <1>1, DeleteMakes DEF Inv, Types, FilesInv
<1>3. FilesFit' /\ RowsAlike' /\ \A id : ColumnsOf(id)' = ColumnsOf(id)
  BY <1>1, <1>2, FilesStillFit
<1>4. HandlesFit'
  BY <1>1, <1>3 DEF ReadInv, HandlesFit
<1> QED
  BY <1>1, <1>3, <1>4 DEF ReadInv, CreateFits, DropFits, InsertFits, Doing, Idle
\* A page is allocated without rows.
LEMMA BeginInsertReads ==
    ASSUME Inv, ReadInv, NEW table \in handles, BeginInsert(table)
    PROVE  ReadInv'
<1> PICK f, id : f = TableFile(table.id) /\ id = ReadMetadata(f).next_id
  OBVIOUS
<1> PICK new : new = [op |-> "insert", table |-> table, page |-> id]
  OBVIOUS
<1>1. /\ UNCHANGED <<tables, columns, handles>> /\ job' \in {Idle, new} /\ job = Idle
      /\ \/ UNCHANGED files
         \/ ReadMetadata(f) # NoMetadata /\ \E complete \in BOOLEAN : AllocatePage(f, complete)
  BY DEF BeginInsert, catalog
<1>2. FilesInv
  BY DEF Inv, Types, FilesInv
<1>3. FilesFit' /\ RowsAlike' /\ \A i : ColumnsOf(i)' = ColumnsOf(i)
  <2>1. CASE UNCHANGED files
    BY <1>1, <2>1, FilesStillFit
  <2>2. ASSUME ReadMetadata(f) # NoMetadata, NEW complete \in BOOLEAN, AllocatePage(f, complete)
        PROVE  \A g \in DOMAIN files' : \A i \in DOMAIN files'[g].pages : \A row \in files'[g].pages[i].rows :
                  g \in DOMAIN files /\ \E j \in DOMAIN files[g].pages : row \in files[g].pages[j].rows
    <3>1. f \in DOMAIN files
      BY <2>2 DEF ReadMetadata, Exists
    <3> PICK m, pages, page, after :
            /\ m = ReadMetadata(f) /\ pages = files[f].pages /\ page = NewPage(m.next_id)
            /\ after = IF complete THEN WithPage(pages, page) ELSE pages
      OBVIOUS
    <3>2. /\ DOMAIN files' = DOMAIN files /\ \A g \in DOMAIN files : g # f => files'[g] = files[g]
          /\ files'[f] = [metadata |-> Allocated(m), pages |-> after]
      BY <1>2, <2>2, <3>1, AllocatePageMakes
    <3>3. files'[f].pages = after
      BY <3>2
    <3>4. /\ m = files[f].metadata /\ m # NoMetadata /\ pages \in Seq(HeapPages)
          /\ m.next_id = m.number_of_pages + 1 /\ m.number_of_pages \in Nat
      BY <1>2, <2>2, <3>1, FileIs DEF ReadMetadata, Exists
    <3>5. page \in HeapPages /\ page.page_id > 0 /\ page.rows = {} /\ Hole.rows = {}
      BY <3>4 DEF NewPage, HeapPages, Hole
    <3>6. \A i \in DOMAIN after : \A row \in after[i].rows : i \in DOMAIN pages /\ row \in pages[i].rows
      <4>1. CASE ~complete
        BY <4>1
      <4>2. CASE complete
        <5> SUFFICES ASSUME NEW i \in DOMAIN after, NEW row \in after[i].rows
                     PROVE  i \in DOMAIN pages /\ row \in pages[i].rows
          OBVIOUS
        <5>1. /\ DOMAIN after = 1..Len(after) /\ Len(after) \in Nat
              /\ after[i] = IF i = page.page_id THEN page ELSE IF i <= Len(pages) THEN pages[i] ELSE Hole
          <6>1. after = WithPage(pages, page)
            BY <4>2
          <6>2. after \in Seq(HeapPages)
            BY <3>4, <3>5, <6>1, WithPageMakes
          <6> QED
            BY <3>4, <3>5, <6>1, <6>2, WithPageMakes
        <5>2. i <= Len(pages) /\ after[i] = pages[i]
          BY <3>5, <5>1
        <5> QED
          BY <3>4, <5>1, <5>2
      <4> QED
        BY <4>1, <4>2
    <3> QED
      BY <3>1, <3>2, <3>3, <3>6
  <2> QED
    BY <1>1, <2>1, <2>2, FilesStillFit
<1>4. HandlesFit'
  BY <1>1, <1>3 DEF ReadInv, HandlesFit
<1>5. CreateFits' /\ DropFits' /\ InsertFits'
  <2>1. CASE job' = Idle
    BY <2>1 DEF CreateFits, DropFits, InsertFits, Doing, Idle
  <2>2. CASE job' = new
    <3>1. job'.op = "insert" /\ job'.table = table
      BY <2>2
    <3> QED
      BY <1>1, <3>1 DEF CreateFits, DropFits, InsertFits, Doing
  <2> QED
    BY <1>1, <2>1, <2>2
<1> QED
  BY <1>3, <1>4, <1>5 DEF ReadInv

\* A row is written through a Table value, which is what is read if the table is there.
LEMMA WriteRowReads ==
    ASSUME Inv, ReadInv, WriteRow
    PROVE  ReadInv'
<1> PICK h, f, page : h = job.table /\ f = TableFile(h.id) /\ page = [page_id |-> job.page, rows |-> {h.columns}]
  OBVIOUS
<1>1. /\ Doing("insert") /\ WritePage(f, page) /\ job' = Idle
      /\ UNCHANGED <<tables, columns, handles>>
  BY DEF WriteRow, Ends, catalog
<1>2. FilesInv /\ job \in InsertJobs /\ h \in handles
  BY <1>1, JobOfCall DEF Inv, Types, FilesInv, ReadInv, InsertFits
<1>3. page \in HeapPages /\ page.page_id = job.page /\ page.rows = {h.columns}
  <2>1. job.page \in Nat /\ h.columns \in Seq(Columns)
    BY <1>2 DEF InsertJobs, Tables
  <2> QED
    BY <2>1 DEF HeapPages
<1> PICK pages, after, m : pages = files[f].pages /\ after = [files[f].pages EXCEPT ![page.page_id] = page] /\ m = files[f].metadata
  OBVIOUS
<1>4. f \in DOMAIN files /\ m # NoMetadata /\ job.page \in DOMAIN pages
  BY <1>1 DEF Inv, InsertOK, ReadMetadata, Exists
<1>5. /\ DOMAIN files' = DOMAIN files /\ \A g \in DOMAIN files : g # f => files'[g] = files[g]
      /\ files'[f] = [metadata |-> m, pages |-> after]
  BY <1>1, <1>2, <1>3, <1>4, WritePageMakes
<1>6. files'[f].pages = after /\ pages \in Seq(HeapPages)
  BY <1>2, <1>4, <1>5, FileIs
<1>7. DOMAIN after = DOMAIN pages /\ \A i \in DOMAIN after : after[i] = IF i = job.page THEN page ELSE pages[i]
  BY <1>3, <1>6
<1>8. \A t \in tables : f = TableFile(t.id) => h.columns = ColumnsOf(t.id)
  BY <1>2 DEF ReadInv, HandlesFit, TableFile
<1>9. \A g \in DOMAIN files' : \A i \in DOMAIN files'[g].pages : \A row \in files'[g].pages[i].rows :
         \/ g \in DOMAIN files /\ \E j \in DOMAIN files[g].pages : row \in files[g].pages[j].rows
         \/ \A t \in tables : g = TableFile(t.id) => row = ColumnsOf(t.id)
  BY <1>3, <1>5, <1>6, <1>7, <1>8
<1>10. FilesFit' /\ RowsAlike' /\ \A i : ColumnsOf(i)' = ColumnsOf(i)
  BY <1>1, <1>9, FilesStillFit
<1>11. HandlesFit'
  BY <1>1, <1>10 DEF ReadInv, HandlesFit
<1> QED
  BY <1>1, <1>10, <1>11 DEF ReadInv, CreateFits, DropFits, InsertFits, Doing, Idle

---------------------------------------------------------------------------
(* What is read is what was created. *)

LEMMA StepReads ==
    ASSUME SameLengths, Inv, ReadInv, [Next]_vars
    PROVE  ReadInv'
<1>1. CASE \E name \in TableNames : (\E commands \in Commands : BeginCreate(name, commands))
                                   \/ BeginDrop(name) \/ Open(name)
  <2>1. PICK name \in TableNames : (\E commands \in Commands : BeginCreate(name, commands))
                                   \/ BeginDrop(name) \/ Open(name)
    BY <1>1
  <2>2. ASSUME NEW commands, BeginCreate(name, commands) PROVE ReadInv'
    <3>1. Quiet /\ (job' = Idle \/ (job'.op = "create" /\ job'.part = "table"))
      BY <2>2 DEF BeginCreate, CreateJob, Quiet, catalog
    <3> QED
      BY <3>1, NoJobReads
  <2> QED
    BY <2>1, <2>2, BeginDropReads, OpenReads
<1>2. CASE CreateTable
  <2>1. CASE RefuseColumn \/ PanicWithoutColumns
    BY <2>1, NoJobReads DEF RefuseColumn, PanicWithoutColumns, Ends, Quiet, catalog
  <2> QED
    BY <1>2, <2>1, DrawIdReads, InsertTableRowReads, InsertColumnRowReads, InsertSequenceOrIndexReads,
       CreateTableFileReads, CreateFsmFileReads DEF CreateTable
<1>3. CASE DropTable
  BY <1>3, DeleteTableRowReads, DeleteColumnRowReads, DeleteTableFileReads DEF DropTable
<1>4. CASE \E table \in handles : BeginInsert(table)
  BY <1>4, BeginInsertReads
<1>5. CASE \E table \in handles : \E i \in DOMAIN table.columns : DrawValue(table, table.columns[i])
  <2>1. Quiet /\ job' = Idle
    BY <1>5 DEF DrawValue, Quiet
  <2> QED
    BY <2>1, NoJobReads
<1>6. CASE WriteRow
  BY <1>6, WriteRowReads
<1>7. CASE CutShort
  BY <1>7, NoJobReads DEF CutShort, Ends, Quiet, catalog
<1>8. CASE UNCHANGED vars
  <2>1. UNCHANGED <<tables, columns, files, handles, job>>
    BY <1>8 DEF vars
  <2>2. \A id : ColumnsOf(id)' = ColumnsOf(id) /\ ColumnRowsOf(id)' = ColumnRowsOf(id)
    BY <2>1, ReadNow DEF ColumnRowsOf
  <2>3. CreateFits' /\ DropFits' /\ InsertFits'
    BY <2>1, <2>2 DEF ReadInv, CreateFits, DropFits, InsertFits, Doing, Deleted, Exists
  <2> QED
    BY <2>1, <2>3, QuietStays DEF Quiet
<1> QED
  BY <1>1, <1>2, <1>3, <1>4, <1>5, <1>6, <1>7, <1>8 DEF Next

LEMMA InitReads == Init => ReadInv
<1> SUFFICES ASSUME Init PROVE ReadInv
  OBVIOUS
<1>1. handles = {} /\ job = Idle /\ DOMAIN files = {} /\ columns = SystemColumns
  BY DEF Init
<1>2. RowsAlike
  BY <1>1, SystemColumnsTyped DEF RowsAlike
<1> QED
  BY <1>1, <1>2 DEF ReadInv, HandlesFit, FilesFit, CreateFits, DropFits, InsertFits, Doing, Idle, Exists

\* What a reader of the catalog relies on holds whatever is created, dropped and cut
\* short, when no two names of columns differ in length.
THEOREM ReadInvHolds == SameLengths => (Spec => [](Inv /\ ReadInv))
<1> SUFFICES ASSUME SameLengths PROVE Spec => [](Inv /\ ReadInv)
  OBVIOUS
<1>1. Init => Inv /\ ReadInv
  BY InitInv, InitReads
<1>2. Inv /\ ReadInv /\ [Next]_vars => (Inv /\ ReadInv)'
  BY StepKeepsInv, StepReads
<1> QED
  BY <1>1, <1>2, PTL DEF Spec

\* read_table finds the one row of the name.
LEMMA ReadsTheTable ==
    ASSUME Inv, NEW t \in tables
    PROVE  ReadTable(t.name) =
               IF ColumnsOf(t.id) = << >> THEN Panic
               ELSE [id |-> t.id, name |-> t.name, columns |-> ColumnsOf(t.id)]
<1> PICK found, first : found = {s \in tables : s.name = t.name} /\ first = CHOOSE s \in found : TRUE
  OBVIOUS
<1>1. found = {t}
  BY DEF Inv, SystemRows
<1>2. Cardinality(found) = 1
  BY <1>1, FS_Singleton
<1>3. first = t /\ found # {}
  <2>1. first \in found
    BY <1>1
  <2> QED
    BY <1>1, <2>1
<1>4. ~(Cardinality(found) > 1)
  BY <1>2
<1> QED
  BY <1>3, <1>4 DEF ReadTable

\* When no two names of columns differ in length, a table is read from the catalog
\* as create_table returned it, whatever was dropped and cut short before.
THEOREM ReadAsCreated == SameLengths => (Spec => []TablesReadAsCreated)
<1>1. Inv /\ ReadInv => TablesReadAsCreated
  <2> SUFFICES ASSUME Inv, ReadInv, NEW h \in handles, [id |-> h.id, name |-> h.name] \in tables
               PROVE  ReadTable(h.name) = h
    BY DEF TablesReadAsCreated
  <2> PICK t \in tables : t = [id |-> h.id, name |-> h.name]
    OBVIOUS
  <2>1. t.id = h.id /\ t.name = h.name
    OBVIOUS
  <2>2. h.columns # << >> /\ h.columns = ColumnsOf(h.id)
    BY <2>1 DEF ReadInv, HandlesFit
  <2>3. h = [id |-> h.id, name |-> h.name, columns |-> h.columns]
    BY DEF Inv, Types, Tables
  <2> QED
    BY <2>1, <2>2, <2>3, ReadsTheTable
<1> QED
  BY <1>1, ReadInvHolds, PTL

\* The rows in a table's file can then be taken apart by the columns it is read with.
THEOREM RowsCanBeRead == SameLengths => (Spec => []RowsFitTheirTable)
<1>1. Inv /\ ReadInv => RowsFitTheirTable
  <2> SUFFICES ASSUME Inv, ReadInv, NEW t \in tables, ReadTable(t.name) # Panic, Exists(TableFile(t.id)),
                      NEW i \in DOMAIN files[TableFile(t.id)].pages
               PROVE  files[TableFile(t.id)].pages[i].rows \subseteq {ReadTable(t.name).columns}
    BY DEF RowsFitTheirTable
  <2> PICK cols : cols = ColumnsOf(t.id)
    OBVIOUS
  <2>1. ReadTable(t.name) = [id |-> t.id, name |-> t.name, columns |-> cols]
    BY ReadsTheTable
  <2>2. ReadTable(t.name).columns = cols
    BY <2>1
  <2> QED
    BY <2>2 DEF ReadInv, FilesFit
<1> QED
  BY <1>1, ReadInvHolds, PTL

---------------------------------------------------------------------------
(***************************************************************************)
(* The catalog implements Schemas: tables by name, with the columns that   *)
(* were commanded.                                                         *)
(*                                                                         *)
(* What create_table writes in many steps is there when it returns, so the *)
(* invariant follows a call: the first columns have all of their rows, the *)
(* current one those of the parts that are done.  No other step touches    *)
(* them, since they have ids of their own.                                 *)
(***************************************************************************)

Live(i) == i \in DOMAIN columns /\ ~columns[i].deleted

\* Columns of clients' tables have names that clients gave them.
NamesFit == \A i : Live(i) /\ columns[i].row.t_id > 4 => columns[i].row.name \in DOMAIN NameLength

\* Every row of columns has an id of its own.
RowsApart == \A i, j : Live(i) /\ Live(j) /\ columns[i].row.id = columns[j].row.id => i = j

\* Someone was given every table that was made.
MadeFits == \A id \in made : \E h \in handles : h.id = id

\* The reply is "running" as long as the call is.
CallFits ==
    /\ job = Idle <=> reply # "running"
    /\ Doing("create") => call.op = "create" /\ call.name = job.name
    /\ Doing("drop") => call.op = "drop" /\ call.name = job.table.name
    /\ Doing("insert") => call.op = "insert"

IndexesOn(t_id, col_id) == {x \in indexes : x.col_ids = col_id /\ x.t_id = t_id}

OneIf(wanted, rows) == IF wanted THEN \E row \in rows : rows = {row} ELSE rows = {}

\* The commands that are done.
Done == Len(call.columns) - Len(job.todo)

\* How far the call is.
Shape ==
    /\ call.columns \in Seq(CreateColumnCommand)
    /\ Done \in Nat /\ \A i \in DOMAIN job.todo : job.todo[i] = call.columns[Done + i]
    /\ Len(job.columns) = IF job.part \in {"sequence", "index"} THEN Done + 1 ELSE Done
    /\ job.part \in {"table file", "fsm file"} => job.todo = << >>
    /\ job.part = "column" /\ job.id # None => Valid(Current)
    /\ job.part = "sequence" => Current.has_sequence
    /\ job.part = "index" => Current.is_unique
    /\ job.part = "fsm file" => ReadMetadata(TableFile(job.tbl_id)) # NoMetadata

\* The column i of the call has its rows, as far as its command was carried out.
ColumnMade(i) ==
    LET command == call.columns[i]
        column  == job.columns[i]
    IN /\ Valid(command)
       /\ column.name = command.name /\ column.col_type = command.col_type
       /\ OneIf(command.has_sequence /\ (i <= Done \/ job.part = "index"), SequencesOn(column.id))
       /\ OneIf(command.is_unique /\ i <= Done, IndexesOn(job.tbl_id, column.id))

ColumnsApart == \A i, j \in DOMAIN job.columns : job.columns[i].id = job.columns[j].id => i = j

Progress ==
    Doing("create") => Shape /\ ColumnsApart /\ \A i \in DOMAIN job.columns : ColumnMade(i)

CallInv == NamesFit /\ RowsApart /\ MadeFits /\ CallFits /\ Progress

---------------------------------------------------------------------------
(* The rows of columns. *)

\* A new row has a name that was commanded and an id of its own.
LEMMA InsertColumnRowRows ==
    ASSUME Inv, NamesFit, RowsApart, InsertColumnRow
    PROVE  NamesFit' /\ RowsApart'
<1> PICK slot, k : slot = NewSlot /\ k = SlotFor(columns, NewSlot.length)
  OBVIOUS
<1>1. /\ Doing("create") /\ job.part = "column" /\ job.id # None
      /\ slot \in ColumnSlots /\ ~slot.deleted
      /\ slot.row.name \in DOMAIN NameLength /\ slot.row.id = job.id
      /\ columns' = WithRecord(columns, slot)
  BY ColumnRowIs
<1>2. \A i \in DOMAIN columns' :
         \/ i = k /\ columns'[i] = slot
         \/ i \in DOMAIN columns /\ i # k /\ columns'[i] = columns[i]
         \/ columns'[i].deleted
  <2>1. columns \in Seq(ColumnSlots) /\ \A i \in DOMAIN columns : columns[i].deleted => columns[i].row = None
    BY DEF Inv, Types
  <2> QED
    BY <1>1, <2>1, WithRecordSlots
<1>3. \A i : Live(i) => columns[i].row.id # job.id
  BY <1>1, NewIds DEF NewIdsMeetNothing, Todo, Live
<1>4. \A i : Live(i)' => \/ i = k /\ columns'[i] = slot
                         \/ Live(i) /\ i # k /\ columns'[i] = columns[i]
  BY <1>2 DEF Live
<1>5. NamesFit'
  BY <1>1, <1>4 DEF NamesFit
<1>6. RowsApart'
  <2> SUFFICES ASSUME NEW i, NEW j, Live(i)', Live(j)', columns'[i].row.id = columns'[j].row.id PROVE i = j
    BY DEF RowsApart
  <2>1. CASE i = k /\ j = k
    BY <2>1
  <2>2. CASE i # k /\ j # k
    BY <1>4, <2>2 DEF RowsApart
  <2>3. CASE i = k /\ j # k
    BY <1>1, <1>3, <1>4, <2>3
  <2>4. CASE i # k /\ j = k
    BY <1>1, <1>3, <1>4, <2>4
  <2> QED
    BY <2>1, <2>2, <2>3, <2>4
<1> QED
  BY <1>5, <1>6

LEMMA DeleteColumnRowRows ==
    ASSUME Inv, ReadInv, NamesFit, RowsApart, DeleteColumnRow
    PROVE  NamesFit' /\ RowsApart'
<1> PICK k, rows : k = Min(job.rows) /\ rows = job.rows
  OBVIOUS
<1>1. /\ Doing("drop") /\ rows \notin {None, {}}
      /\ columns' = [WithoutRecord(columns, k) EXCEPT ![k].row = None]
  BY DEF DeleteColumnRow
<1>2. k \in DOMAIN columns /\ columns[k] \in ColumnSlots
  <2>1. rows \subseteq DOMAIN columns /\ DOMAIN columns \subseteq Nat
    BY <1>1 DEF ReadInv, DropFits, ColumnRowsOf, Inv, Types
  <2>2. k \in rows
    BY <1>1, <2>1, MinIsLeast
  <2> QED
    BY <2>1, <2>2 DEF Inv, Types
<1> PICK cols, slot : cols = columns /\ slot = [[columns[k] EXCEPT !.deleted = TRUE] EXCEPT !.row = None]
  OBVIOUS
<1>3. cols \in Seq(ColumnSlots) /\ slot.deleted /\ k \in DOMAIN cols
  BY <1>2 DEF Inv, Types, ColumnSlots
<1>4. columns' = [cols EXCEPT ![k] = slot]
  BY <1>1, <1>3 DEF WithoutRecord
<1>5. \A i \in DOMAIN columns' : i \in DOMAIN columns /\ columns'[i] = IF i = k THEN slot ELSE columns[i]
  BY <1>3, <1>4
<1>6. \A i : Live(i)' => Live(i) /\ columns'[i] = columns[i]
  BY <1>3, <1>5 DEF Live
<1> QED
  BY <1>6 DEF NamesFit, RowsApart

---------------------------------------------------------------------------
(* Calls other than create_table, and calls that end. *)

LEMMA OthersKeepCalls ==
    ASSUME CallInv, UNCHANGED <<columns, made>>, handles \subseteq handles', ~Doing("create")', CallFits'
    PROVE  CallInv'
<1>1. NamesFit' /\ RowsApart'
  BY DEF CallInv, NamesFit, RowsApart, Live
<1>2. MadeFits'
  BY DEF CallInv, MadeFits
<1> QED
  BY <1>1, <1>2 DEF CallInv, Progress

LEMMA EndsFit ==
    ASSUME job' = Idle, reply' # "running"
    PROVE  CallFits' /\ ~Doing("create")'
BY DEF CallFits, Doing, Idle

\* A call that was cut short, or failed, or succeeded without new tables.
LEMMA EndingKeepsCalls ==
    ASSUME CallInv, UNCHANGED <<columns, made, handles>>, NEW answer, Ends(answer), answer # "running"
    PROVE  CallInv'
<1>1. job' = Idle /\ reply' # "running"
  BY DEF Ends
<1> QED
  BY <1>1, EndsFit, OthersKeepCalls

LEMMA DropKeepsCalls ==
    ASSUME Inv, ReadInv, CallInv, DropTable
    PROVE  CallInv'
<1>1. CASE DeleteTableFile
  <2>1. UNCHANGED <<columns, made, handles>> /\ (Ends("ok") \/ Ends("error"))
    BY <1>1 DEF DeleteTableFile, catalog
  <2> QED
    BY <2>1, EndingKeepsCalls
<1>2. CASE DeleteTableRow \/ DeleteColumnRow
  <2>1. Doing("drop") /\ (\E rows : job' = [job EXCEPT !.rows = rows]) /\ UNCHANGED <<handles, made, call, reply>>
    BY <1>2 DEF DeleteTableRow, DeleteColumnRow
  <2>2. job \in DropJobs
    BY <2>1, JobOfCall DEF Inv
  <2>3. job'.op = "drop" /\ job'.table = job.table
    BY <2>1, <2>2 DEF DropJobs
  <2>4. job # Idle /\ job' # Idle
    BY <2>2, <2>3 DEF DropJobs, Idle
  <2>5. CallFits' /\ ~Doing("create")'
    BY <2>1, <2>3, <2>4 DEF CallInv, CallFits, Doing
  <2>6. CASE DeleteTableRow
    BY <2>1, <2>5, <2>6, OthersKeepCalls DEF DeleteTableRow
  <2>7. CASE DeleteColumnRow
    <3>1. NamesFit' /\ RowsApart'
      BY <2>7, DeleteColumnRowRows DEF CallInv
    <3>2. MadeFits'
      BY <2>1 DEF CallInv, MadeFits
    <3> QED
      BY <2>5, <3>1, <3>2 DEF CallInv, Progress
  <2> QED
    BY <1>2, <2>6, <2>7
<1> QED
  BY <1>1, <1>2 DEF DropTable

LEMMA CutKeepsCalls ==
    ASSUME CallInv, CutShort \/ RefuseColumn \/ PanicWithoutColumns \/ WriteRow
    PROVE  CallInv'
<1>1. UNCHANGED <<columns, made, handles>>
  BY DEF CutShort, RefuseColumn, PanicWithoutColumns, WriteRow, catalog
<1>2. Ends("error") \/ Ends("invalid") \/ Ends("panic") \/ Ends("ok")
  BY DEF CutShort, RefuseColumn, PanicWithoutColumns, WriteRow
<1> QED
  BY <1>1, <1>2, EndingKeepsCalls

LEMMA BeginCreateKeepsCalls ==
    ASSUME Inv, CallInv, NEW name \in TableNames, NEW commands \in Commands, BeginCreate(name, commands)
    PROVE  CallInv'
<1>1. /\ UNCHANGED <<columns, made, handles>> /\ job = Idle
      /\ call' = [op |-> "create", name |-> name, columns |-> commands]
      /\ \/ job' = Idle /\ reply' # "running"
         \/ job' = CreateJob(name, commands) /\ reply' = "running"
  BY DEF BeginCreate, catalog
<1>2. CASE job' = Idle /\ reply' # "running"
  BY <1>1, <1>2, EndsFit, OthersKeepCalls
<1>3. CASE job' = CreateJob(name, commands) /\ reply' = "running"
  <2>1. /\ job'.op = "create" /\ job'.name = name /\ job'.todo = commands
        /\ job'.part = "table" /\ job'.columns = << >>
    BY <1>3 DEF CreateJob
  <2>2. call'.op = "create" /\ call'.name = name /\ call'.columns = commands
    BY <1>1
  <2>3. CallFits'
    BY <1>3, <2>1, <2>2 DEF CallFits, Doing, Idle
  <2>4. commands \in Seq(CreateColumnCommand)
    BY CatalogAssumption
  <2>5. Done' = 0 /\ Len(commands) \in Nat
    BY <2>1, <2>2, <2>4 DEF Done
  <2>6. Len(<< >>) = 0 /\ DOMAIN << >> = {}
    OBVIOUS
  <2>7. Shape'
    <3>1. \A i \in DOMAIN commands : commands[i] = commands[0 + i]
      BY <2>4
    <3> QED
      BY <2>1, <2>2, <2>4, <2>5, <2>6, <3>1 DEF Shape
  <2>8. Progress'
    BY <2>1, <2>6, <2>7 DEF Progress, ColumnsApart
  <2>9. NamesFit' /\ RowsApart' /\ MadeFits'
    BY <1>1 DEF CallInv, NamesFit, RowsApart, Live, MadeFits
  <2> QED
    BY <2>3, <2>8, <2>9 DEF CallInv
<1> QED
  BY <1>1, <1>2, <1>3

LEMMA BeginDropKeepsCalls ==
    ASSUME Inv, CallInv, NEW name \in TableNames, BeginDrop(name)
    PROVE  CallInv'
<1> PICK table : table = ReadTable(name)
  OBVIOUS
<1>1. /\ UNCHANGED <<columns, made, handles>> /\ job = Idle
      /\ call' = [op |-> "drop", name |-> name]
      /\ \/ job' = Idle /\ reply' # "running"
         \/ /\ job' = [op |-> "drop", table |-> table, rows |-> None] /\ reply' = "running"
            /\ table \notin {Missing, Error, Panic}
  BY DEF BeginDrop, catalog
<1>2. CASE job' = Idle /\ reply' # "running"
  BY <1>1, <1>2, EndsFit, OthersKeepCalls
<1>3. CASE /\ job' = [op |-> "drop", table |-> table, rows |-> None] /\ reply' = "running"
           /\ table \notin {Missing, Error, Panic}
  <2>1. job'.op = "drop" /\ job'.table = table
    BY <1>3
  <2>2. table.name = name
    <3>1. PICK cols, id : table = [id |-> id, name |-> name, columns |-> cols]
      BY <1>3, ReadTableReads DEF Inv
    <3> QED
      BY <3>1
  <2>3. call'.op = "drop" /\ call'.name = name
    BY <1>1
  <2>4. CallFits' /\ ~Doing("create")'
    BY <1>3, <2>1, <2>2, <2>3 DEF CallFits, Doing, Idle
  <2> QED
    BY <1>1, <2>4, OthersKeepCalls
<1> QED
  BY <1>1, <1>2, <1>3

LEMMA OpenKeepsCalls ==
    ASSUME CallInv, NEW name \in TableNames, Open(name)
    PROVE  CallInv'
<1>1. job' = Idle /\ reply' # "running" /\ UNCHANGED <<columns, made>> /\ handles \subseteq handles'
  BY DEF Open, catalog
<1> QED
  BY <1>1, EndsFit, OthersKeepCalls

LEMMA DrawValueKeepsCalls ==
    ASSUME CallInv, NEW table, NEW col, DrawValue(table, col)
    PROVE  CallInv'
<1>1. job' = Idle /\ reply' # "running" /\ UNCHANGED <<columns, made, handles>>
  BY DEF DrawValue
<1> QED
  BY <1>1, EndsFit, OthersKeepCalls

LEMMA BeginInsertKeepsCalls ==
    ASSUME CallInv, NEW table, BeginInsert(table)
    PROVE  CallInv'
<1> PICK page : page = ReadMetadata(TableFile(table.id)).next_id
  OBVIOUS
<1>1. /\ UNCHANGED <<columns, made, handles>> /\ job = Idle
      /\ call' = [op |-> "insert", table |-> table]
      /\ \/ job' = Idle /\ reply' # "running"
         \/ job' = [op |-> "insert", table |-> table, page |-> page] /\ reply' = "running"
  BY DEF BeginInsert, catalog
<1>2. CASE job' = Idle /\ reply' # "running"
  BY <1>1, <1>2, EndsFit, OthersKeepCalls
<1>3. CASE job' = [op |-> "insert", table |-> table, page |-> page] /\ reply' = "running"
  <2>1. job'.op = "insert" /\ call'.op = "insert"
    BY <1>1, <1>3
  <2>2. CallFits' /\ ~Doing("create")'
    BY <1>3, <2>1 DEF CallFits, Doing, Idle
  <2> QED
    BY <1>1, <2>2, OthersKeepCalls
<1> QED
  BY <1>1, <1>2, <1>3

---------------------------------------------------------------------------
(* The progress of create_table. *)

\* The current command, among those of the call.
LEMMA CurrentOfCall ==
    ASSUME job \in CreateJobs, job.todo # << >>, Shape
    PROVE  /\ Current = call.columns[Done + 1] /\ Current \in CreateColumnCommand
           /\ Len(job.todo) \in Nat \ {0} /\ Done + 1 \in DOMAIN call.columns
<1>1. job.todo \in Seq(CreateColumnCommand)
  BY DEF CreateJobs
<1>2. Len(job.todo) \in Nat \ {0} /\ 1 \in DOMAIN job.todo /\ Head(job.todo) = job.todo[1]
  BY <1>1
<1>3. Current = call.columns[Done + 1] /\ Current \in CreateColumnCommand
  BY <1>2, CurrentIsCommand DEF Shape, Current
<1>4. Done + 1 \in DOMAIN call.columns
  <2> PICK n, len, left : n = Done /\ len = Len(call.columns) /\ left = Len(job.todo)
    OBVIOUS
  <2>1. call.columns \in Seq(CreateColumnCommand) /\ n \in Nat /\ n = len - left
    BY DEF Shape, Done
  <2>2. len \in Nat /\ DOMAIN call.columns = 1..len
    BY <2>1
  <2>3. left \in Nat /\ left > 0
    BY <1>2
  <2>4. n + 1 \in 1..len
    <3>1. n \in Nat /\ n = len - left
      BY <2>1
    <3>2. len \in Nat
      BY <2>2
    <3>3. n + 1 <= len /\ n + 1 \in Nat /\ 1 <= n + 1
      BY <2>3, <3>1, <3>2
    <3> QED
      BY <3>2, <3>3
  <2> QED
    BY <2>2, <2>4
<1> QED
  BY <1>2, <1>3, <1>4

\* What StartColumn makes of the commands that are left.
LEMMA StartColumnIs ==
    ASSUME job \in CreateJobs, NEW todo
    PROVE  /\ StartColumn(todo).todo = todo
           /\ StartColumn(todo).part = IF todo = << >> THEN "table file" ELSE "column"
BY DEF StartColumn, CreateJobs

LEMMA ThenIs ==
    ASSUME job \in CreateJobs, NEW part
    PROVE  Then(part).todo = job.todo /\ Then(part).part = part
BY DEF Then, CreateJobs

LEMMA NextColumnIs ==
    ASSUME job \in CreateJobs, job.todo # << >>
    PROVE  /\ Len(NextColumn.todo) = Len(job.todo) - 1 /\ DOMAIN NextColumn.todo \subseteq Nat
           /\ \A i \in DOMAIN NextColumn.todo : i + 1 \in DOMAIN job.todo /\ NextColumn.todo[i] = job.todo[i + 1]
           /\ NextColumn.part = IF NextColumn.todo = << >> THEN "table file" ELSE "column"
<1>1. NextColumn.todo = Tail(job.todo) /\ NextColumn.part = IF Tail(job.todo) = << >> THEN "table file" ELSE "column"
  BY StartColumnIs DEF NextColumn
<1>2. job.todo \in Seq(CreateColumnCommand)
  BY DEF CreateJobs
<1>3. DOMAIN Tail(job.todo) \subseteq Nat
  BY <1>2
<1>4. Len(Tail(job.todo)) = Len(job.todo) - 1 /\ \A i \in DOMAIN Tail(job.todo) : i + 1 \in DOMAIN job.todo /\ Tail(job.todo)[i] = job.todo[i + 1]
  BY <1>2
<1> QED
  BY <1>1, <1>3, <1>4

\* The call goes on: the part of the column that is next, or the next column.
GoesOn(next) ==
    /\ call' = call
    /\ job'.op = "create" /\ job'.name = job.name /\ job'.tbl_id = job.tbl_id
    /\ job'.id = None /\ job'.part = next.part /\ job'.todo = next.todo

\* After a part of a column comes another one.
LEMMA ThenShape ==
    ASSUME Shape, job \in CreateJobs, job.todo # << >>, NEW part \in {"sequence", "index"}, GoesOn(Then(part)),
           part = "sequence" => Current.has_sequence, part = "index" => Current.is_unique,
           Len(job'.columns) = Done + 1
    PROVE  Shape' /\ Done' = Done /\ job'.part = part
<1>1. job'.todo = job.todo /\ job'.part = part /\ call' = call
  BY ThenIs DEF GoesOn
<1>2. Done' = Done /\ Current' = Current
  BY <1>1 DEF Done, Current
<1> QED
  BY <1>1, <1>2 DEF Shape

\* After the last part comes the next column.
LEMMA NextShape ==
    ASSUME Shape, job \in CreateJobs, job.todo # << >>, GoesOn(NextColumn), Len(job'.columns) = Done + 1
    PROVE  Shape' /\ Done' = Done + 1 /\ job'.part \in {"column", "table file"}
<1> PICK n, len, left : n = Done /\ len = Len(call.columns) /\ left = Len(job.todo)
  OBVIOUS
<1>1. /\ n \in Nat /\ len \in Nat /\ left \in Nat \ {0} /\ n = len - left
      /\ call.columns \in Seq(CreateColumnCommand) /\ call' = call
  <2>1. call.columns \in Seq(CreateColumnCommand) /\ n \in Nat /\ n = len - left /\ call' = call
    BY DEF Shape, Done, GoesOn
  <2>2. len \in Nat
    BY <2>1
  <2> QED
    BY <2>1, <2>2, CurrentOfCall
<1>2. /\ Len(job'.todo) = left - 1 /\ DOMAIN job'.todo \subseteq Nat
      /\ \A i \in DOMAIN job'.todo : i + 1 \in DOMAIN job.todo /\ job'.todo[i] = job.todo[i + 1]
      /\ job'.part = IF job'.todo = << >> THEN "table file" ELSE "column"
  BY NextColumnIs DEF GoesOn
<1>3. Done' = n + 1
  <2> PICK rest : rest = Len(job'.todo)
    OBVIOUS
  <2>1. Done' = len - rest
    BY <1>1 DEF Done
  <2>2. rest = left - 1
    BY <1>2
  <2>3. n \in Nat /\ len \in Nat /\ left \in Nat /\ n = len - left
    BY <1>1
  <2>4. len - (left - 1) = n + 1
    BY <2>3
  <2> QED
    BY <2>1, <2>2, <2>4
<1>4. \A i \in DOMAIN job'.todo : job'.todo[i] = call.columns[(n + 1) + i]
  <2> TAKE i \in DOMAIN job'.todo
  <2>1. i + 1 \in DOMAIN job.todo /\ job'.todo[i] = job.todo[i + 1] /\ i \in Nat
    BY <1>2
  <2>2. job.todo[i + 1] = call.columns[n + (i + 1)]
    BY <2>1 DEF Shape
  <2>3. n + (i + 1) = (n + 1) + i
    <3>1. n \in Nat /\ i \in Nat
      BY <1>1, <2>1
    <3> QED
      BY <3>1
  <2> QED
    BY <2>1, <2>2, <2>3
<1>5. job'.part \in {"column", "table file"} /\ job'.id = None /\ (job'.part = "table file" => job'.todo = << >>)
  BY <1>2 DEF GoesOn
<1>6. Len(job'.columns) = n + 1 /\ n + 1 \in Nat
  BY <1>1
<1> QED
  BY <1>1, <1>3, <1>4, <1>5, <1>6 DEF Shape

\* A column whose command is done keeps its rows.
LEMMA MadeStays ==
    ASSUME NEW i, ColumnMade(i), i <= Done, i <= Done',
           call' = call, job'.columns[i] = job.columns[i], job'.tbl_id = job.tbl_id,
           \A wanted \in BOOLEAN : OneIf(wanted, SequencesOn(job.columns[i].id)) =>
                                   OneIf(wanted, SequencesOn(job.columns[i].id)'),
           IndexesOn(job.tbl_id, job.columns[i].id)' = IndexesOn(job.tbl_id, job.columns[i].id)
    PROVE  ColumnMade(i)'
<1> PICK command, column, t_id : command = call.columns[i] /\ column = job.columns[i] /\ t_id = job.tbl_id
  OBVIOUS
<1>1. command' = command /\ column' = column /\ job'.columns[i] = column /\ call'.columns[i] = command
  OBVIOUS
<1>2. /\ Valid(command) /\ column.name = command.name /\ column.col_type = command.col_type
      /\ OneIf(command.has_sequence /\ TRUE, SequencesOn(column.id))
      /\ OneIf(command.is_unique /\ TRUE, IndexesOn(t_id, column.id))
  BY DEF ColumnMade
<1> QED
  BY <1>1, <1>2 DEF ColumnMade

\* A step of create_table that goes on keeps the rest of the invariant.
LEMMA GoingOnKeepsCalls ==
    ASSUME CallInv, Doing("create"), job'.op = "create", job'.name = job.name,
           UNCHANGED <<made, handles, call, reply>>, NamesFit' /\ RowsApart', Progress'
    PROVE  CallInv'
<1>1. job # Idle /\ job' # Idle
  BY DEF Doing, Idle
<1>2. CallFits'
  BY <1>1 DEF CallInv, CallFits, Doing
<1>3. MadeFits'
  BY DEF CallInv, MadeFits
<1> QED
  BY <1>2, <1>3 DEF CallInv

LEMMA SameColumnRows ==
    ASSUME CallInv, UNCHANGED columns
    PROVE  NamesFit' /\ RowsApart'
BY DEF CallInv, NamesFit, RowsApart, Live

\* next_val makes no row and takes none away.
LEMMA NextValKeepsRows ==
    ASSUME Types, NEW col_id, NextVal(col_id), NEW c, NEW wanted \in BOOLEAN, OneIf(wanted, SequencesOn(c))
    PROVE  OneIf(wanted, SequencesOn(c)')
<1>1. CASE c # col_id
  BY <1>1, NextValAdds
<1>2. CASE c = col_id
  <2>1. Cardinality(SequencesOn(c)) = 1
    BY <1>2 DEF NextVal
  <2>2. SequencesOn(c) # {}
    BY <2>1, FS_EmptySet
  <2>3. wanted /\ \E row : SequencesOn(c) = {row}
    BY <2>2 DEF OneIf
  <2>4. \E row : SequencesOn(c)' = {row}
    BY <1>2, <2>3, NextValAdds
  <2> QED
    BY <2>3, <2>4 DEF OneIf
<1> QED
  BY <1>1, <1>2

LEMMA DrawIdKeepsCalls ==
    ASSUME Inv, CallInv, DrawId
    PROVE  CallInv'
<1> PICK col_id, id : col_id = IdColumn[job.part] /\ id = DrawnVal(IdColumn[job.part])
  OBVIOUS
<1>1. /\ Doing("create") /\ job' = [job EXCEPT !.id = id] /\ NextVal(col_id)
      /\ (job.part = "column" => Valid(Current)) /\ job.part \in DOMAIN IdColumn
      /\ UNCHANGED <<columns, indexes, files, made, handles, call, reply>>
  BY DEF DrawId, Todo
<1>2. job \in CreateJobs
  BY <1>1, JobOfCall DEF Inv
<1>3. /\ job'.op = "create" /\ job'.name = job.name /\ job'.part = job.part /\ job'.todo = job.todo
      /\ job'.columns = job.columns /\ job'.tbl_id = job.tbl_id
  BY <1>1, <1>2 DEF CreateJobs
<1>4. Done' = Done /\ Current' = Current
  BY <1>1, <1>3 DEF Done, Current
<1>5. Shape /\ ColumnsApart /\ \A i \in DOMAIN job.columns : ColumnMade(i)
  BY <1>1 DEF CallInv, Progress
<1>6. Shape'
  BY <1>1, <1>3, <1>4, <1>5 DEF Shape, ReadMetadata, Exists
<1>7. \A i \in DOMAIN job.columns : ColumnMade(i)'
  <2> SUFFICES ASSUME NEW i \in DOMAIN job.columns PROVE ColumnMade(i)'
    OBVIOUS
  <2> PICK command, column, t_id : command = call.columns[i] /\ column = job.columns[i] /\ t_id = job.tbl_id
    OBVIOUS
  <2> PICK sequenced \in BOOLEAN : sequenced <=> command.has_sequence /\ (i <= Done \/ job.part = "index")
    OBVIOUS
  <2>1. /\ Valid(command) /\ column.name = command.name /\ column.col_type = command.col_type
        /\ OneIf(sequenced, SequencesOn(column.id))
        /\ OneIf(command.is_unique /\ i <= Done, IndexesOn(t_id, column.id))
    BY <1>5 DEF ColumnMade
  <2>2. OneIf(sequenced, SequencesOn(column.id)')
    BY <1>1, <2>1, NextValKeepsRows DEF Inv
  <2>3. IndexesOn(t_id, column.id)' = IndexesOn(t_id, column.id)
    BY <1>1 DEF IndexesOn
  <2> QED
    BY <1>1, <1>3, <1>4, <2>1, <2>2, <2>3 DEF ColumnMade
<1>8. Progress'
  BY <1>3, <1>5, <1>6, <1>7 DEF Progress, ColumnsApart
<1> QED
  BY <1>1, <1>3, <1>8, SameColumnRows, GoingOnKeepsCalls

LEMMA InsertTableRowKeepsCalls ==
    ASSUME Inv, CallInv, InsertTableRow
    PROVE  CallInv'
<1> PICK id, next : id = job.id /\ next = StartColumn(job.todo)
  OBVIOUS
<1>1. /\ Doing("create") /\ job.part = "table" /\ job' = [next EXCEPT !.tbl_id = id]
      /\ UNCHANGED <<columns, made, handles, call, reply>>
  BY DEF InsertTableRow, Todo
<1>2. job \in CreateJobs /\ job.columns = << >>
  BY <1>1, JobOfCall DEF Inv, CreateOK
<1>3. Follows(next) /\ next.todo = job.todo /\ next.part = IF job.todo = << >> THEN "table file" ELSE "column"
  BY <1>2, StartColumnFollows, StartColumnIs DEF CreateJobs
<1>4. /\ job'.op = "create" /\ job'.name = job.name /\ job'.todo = job.todo /\ job'.columns = << >>
      /\ job'.part = (IF job.todo = << >> THEN "table file" ELSE "column") /\ job'.id = None
  BY <1>1, <1>2, <1>3 DEF Follows, CreateJobs
<1>5. Done' = Done
  BY <1>1, <1>4 DEF Done
<1>6. Shape
  BY <1>1 DEF CallInv, Progress
<1>7. Shape'
  <2>1. call' = call /\ job'.part \in {"column", "table file"} /\ (job'.part = "table file" => job'.todo = << >>)
    <3>1. call' = call
      BY <1>1
    <3> QED
      BY <1>4, <3>1
  <2>2. Len(job'.columns) = Done
    BY <1>1, <1>2, <1>4, <1>6 DEF Shape
  <2>3. Done' \in Nat /\ \A i \in DOMAIN job'.todo : job'.todo[i] = call'.columns[Done' + i]
    BY <1>4, <1>5, <1>6, <2>1 DEF Shape
  <2> QED
    BY <1>4, <1>5, <1>6, <2>1, <2>2, <2>3 DEF Shape
<1>8. DOMAIN << >> = {}
  OBVIOUS
<1>9. Progress'
  BY <1>4, <1>7, <1>8 DEF Progress, ColumnsApart
<1> QED
  BY <1>1, <1>4, <1>9, SameColumnRows, GoingOnKeepsCalls

LEMMA CreateTableFileKeepsCalls ==
    ASSUME Inv, CallInv, CreateTableFile
    PROVE  CallInv'
<1>1. UNCHANGED <<columns, sequences, indexes, made, handles, call>>
  BY DEF CreateTableFile, catalog
<1>2. CASE Ends("error")
  BY <1>1, <1>2, EndingKeepsCalls
<1>3. CASE Create(TableFile(job.tbl_id), TRUE) /\ job' = Then("fsm file") /\ UNCHANGED reply
  <2>1. Doing("create") /\ job.part = "table file"
    BY DEF CreateTableFile, Todo
  <2>2. job \in CreateJobs
    BY <2>1, JobOfCall DEF Inv
  <2>3. /\ job'.op = "create" /\ job'.name = job.name /\ job'.todo = job.todo /\ job'.part = "fsm file"
        /\ job'.id = None /\ job'.columns = job.columns /\ job'.tbl_id = job.tbl_id
    BY <1>3, <2>2, ThenFollows, ThenIs DEF Follows
  <2>4. Done' = Done
    BY <1>1, <2>3 DEF Done
  <2>5. Shape /\ ColumnsApart /\ \A i \in DOMAIN job.columns : ColumnMade(i)
    BY <2>1 DEF CallInv, Progress
  <2>6. ReadMetadata(TableFile(job.tbl_id))' # NoMetadata
    <3> PICK f : f = TableFile(job.tbl_id)
      OBVIOUS
    <3>1. FilesInv
      BY DEF Inv, Types, FilesInv
    <3>2. f \in DOMAIN files' /\ files'[f] = [metadata |-> NewMetadata, pages |-> << >>]
      BY <1>3, <3>1, CreateMakes
    <3>3. files'[f].metadata = NewMetadata /\ NewMetadata # NoMetadata
      BY <3>2, HeapFileAssumption DEF NewMetadata
    <3> QED
      BY <2>3, <3>2, <3>3 DEF ReadMetadata, Exists, TableFile
  <2>7. Shape'
    BY <1>1, <2>1, <2>3, <2>4, <2>5, <2>6 DEF Shape
  <2>8. \A i \in DOMAIN job.columns : ColumnMade(i)'
    <3> SUFFICES ASSUME NEW i \in DOMAIN job.columns PROVE ColumnMade(i)'
      OBVIOUS
    <3>1. i <= Done
      <4>1. Len(job.columns) = Done /\ job.columns \in Seq(Columns)
        BY <2>1, <2>2, <2>5 DEF Shape, CreateJobs
      <4> QED
        BY <4>1
    <3>2. SequencesOn(job.columns[i].id)' = SequencesOn(job.columns[i].id)
      BY <1>1, <2>3 DEF SequencesOn
    <3>3. IndexesOn(job.tbl_id, job.columns[i].id)' = IndexesOn(job.tbl_id, job.columns[i].id)
      BY <1>1, <2>3 DEF IndexesOn
    <3> QED
      BY <1>1, <2>3, <2>4, <2>5, <3>1, <3>2, <3>3, MadeStays
  <2>9. Progress'
    BY <2>3, <2>5, <2>7, <2>8 DEF Progress, ColumnsApart
  <2> QED
    BY <1>1, <1>3, <2>1, <2>3, <2>9, SameColumnRows, GoingOnKeepsCalls
<1> QED
  BY <1>2, <1>3 DEF CreateTableFile

LEMMA CreateFsmFileKeepsCalls ==
    ASSUME Inv, CallInv, CreateFsmFile
    PROVE  CallInv'
<1> PICK table : table = [id |-> job.tbl_id, name |-> job.name, columns |-> job.columns]
  OBVIOUS
<1>1. /\ UNCHANGED <<columns, call>>
      /\ \/ Ends("error") /\ UNCHANGED <<made, handles>>
         \/ Ends("ok") /\ handles' = handles \cup {table} /\ made' = made \cup {job.tbl_id}
  BY DEF CreateFsmFile, catalog
<1>2. CASE Ends("error") /\ UNCHANGED <<made, handles>>
  BY <1>1, <1>2, EndingKeepsCalls
<1>3. CASE Ends("ok") /\ handles' = handles \cup {table} /\ made' = made \cup {job.tbl_id}
  <2>1. CallFits' /\ ~Doing("create")'
    BY <1>3, EndsFit DEF Ends
  <2>2. table.id = job.tbl_id
    OBVIOUS
  <2>3. MadeFits'
    BY <1>3, <2>2 DEF CallInv, MadeFits
  <2>4. NamesFit' /\ RowsApart'
    BY <1>1, SameColumnRows
  <2> QED
    BY <2>1, <2>3, <2>4 DEF CallInv, Progress
<1> QED
  BY <1>1, <1>2, <1>3

\* What create_table has when a part of a column is written.
LEMMA ColumnUnderWay ==
    ASSUME Inv, CallInv, Doing("create"), job.part \in {"column", "sequence", "index"}
    PROVE  /\ job \in CreateJobs /\ job.todo # << >> /\ job.columns \in Seq(Columns)
           /\ Shape /\ ColumnsApart /\ \A i \in DOMAIN job.columns : ColumnMade(i)
           /\ Done \in Nat /\ Current = call.columns[Done + 1] /\ Current \in CreateColumnCommand
           /\ DOMAIN job.columns = 1..(IF job.part = "column" THEN Done ELSE Done + 1)
<1>1. job \in CreateJobs /\ job.todo # << >>
  BY JobOfCall DEF Inv, CreateOK
<1>2. job.columns \in Seq(Columns)
  BY <1>1 DEF CreateJobs
<1>3. Shape /\ ColumnsApart /\ \A i \in DOMAIN job.columns : ColumnMade(i)
  BY DEF CallInv, Progress
<1>4. Done \in Nat /\ Len(job.columns) = IF job.part = "column" THEN Done ELSE Done + 1
  BY <1>3 DEF Shape
<1> QED
  BY <1>1, <1>2, <1>3, <1>4, CurrentOfCall

\* The rows of a new column are still to come.
LEMMA NewColumnMade ==
    ASSUME Inv, CallInv, InsertColumnRow
    PROVE  Progress'
<1> PICK next, col, n : /\ col = NewColumn /\ n = Done
                        /\ next = IF Current.has_sequence THEN Then("sequence")
                                  ELSE IF Current.is_unique THEN Then("index") ELSE NextColumn
  OBVIOUS
<1>1. /\ Doing("create") /\ job.part = "column" /\ job.id # None
      /\ job' = AddedTo(next, col)
      /\ UNCHANGED <<sequences, indexes, files, call>>
  BY DEF InsertColumnRow, Todo, AddedTo, NewColumn
<1>2. /\ job \in CreateJobs /\ job.todo # << >> /\ job.columns \in Seq(Columns)
      /\ Shape /\ ColumnsApart /\ \A i \in DOMAIN job.columns : ColumnMade(i)
      /\ n \in Nat /\ Current = call.columns[n + 1] /\ Current \in CreateColumnCommand
      /\ DOMAIN job.columns = 1..n
  BY <1>1, ColumnUnderWay
<1>3. col \in Columns /\ job.id \in Nat
  BY ColumnRowIs
<1>4. next \in {Then("sequence"), Then("index"), NextColumn} /\ Follows(next)
  BY <1>2, ThenFollows, NextColumnFollows
<1> PICK new : new = AddedTo(next, col)
  OBVIOUS
<1>5. /\ new.op = "create" /\ new.id = None /\ new.part = next.part /\ new.todo = next.todo
      /\ new.tbl_id = job.tbl_id /\ new.name = job.name /\ new.columns = Append(job.columns, col)
  BY <1>3, <1>4, WithColumn
<1>6. GoesOn(next) /\ job'.columns = Append(job.columns, col) /\ job'.tbl_id = job.tbl_id
  BY <1>1, <1>5 DEF GoesOn
<1>7. /\ DOMAIN job'.columns = 1..(n + 1) /\ Len(job'.columns) = n + 1
      /\ \A i \in 1..n : job'.columns[i] = job.columns[i]
      /\ job'.columns[n + 1] = col
  BY <1>2, <1>3, <1>6
<1>8. /\ Shape' /\ (Done' = n \/ Done' = n + 1)
      /\ Current.has_sequence => job'.part = "sequence" /\ Done' = n
      /\ Current.is_unique => Done' = n
  <2>1. CASE Current.has_sequence
    <3>1. GoesOn(Then("sequence"))
      BY <1>6, <2>1
    <3> QED
      BY <1>2, <1>7, <2>1, <3>1, ThenShape
  <2>2. CASE ~Current.has_sequence /\ Current.is_unique
    <3>1. GoesOn(Then("index"))
      BY <1>6, <2>2
    <3> QED
      BY <1>2, <1>7, <2>2, <3>1, ThenShape
  <2>3. CASE ~Current.has_sequence /\ ~Current.is_unique
    <3>1. GoesOn(NextColumn)
      BY <1>6, <2>3
    <3> QED
      BY <1>2, <1>7, <2>3, <3>1, NextShape
  <2> QED
    BY <2>1, <2>2, <2>3
<1>9. col.id = job.id /\ col.name = Current.name /\ col.col_type = Current.col_type
  BY DEF NewColumn
<1>10. ColumnsApart'
  <2>1. \A i \in DOMAIN job.columns : job.columns[i].id # job.id
    <3> SUFFICES ASSUME NEW i \in DOMAIN job.columns PROVE job.columns[i].id # job.id
      OBVIOUS
    <3>1. Taken("column", job.columns[i].id) /\ \A s \in SequencesOn(IdColumn["column"]) : job.id = s.current
      BY <1>1 DEF Inv, CreateOK
    <3>2. PICK s : SequencesOn(IdColumn["column"]) = {s}
      <4>1. "column" \in DOMAIN IdColumn
        BY IdColumns
      <4> QED
        BY <4>1 DEF Inv, SystemRows
    <3>3. job.columns[i].id < s.current /\ job.id = s.current
      BY <1>1, <3>1, <3>2 DEF Taken, Pending, Todo
    <3>4. job.columns[i].id \in Nat
      BY <1>2, ColumnIds
    <3> QED
      BY <1>3, <3>3, <3>4
  <2> SUFFICES ASSUME NEW i \in 1..(n + 1), NEW j \in 1..(n + 1), job'.columns[i].id = job'.columns[j].id
               PROVE  i = j
    BY <1>7 DEF ColumnsApart
  <2>2. (i \in 1..n \/ i = n + 1) /\ (j \in 1..n \/ j = n + 1)
    BY <1>2
  <2>3. \A k \in 1..n : job'.columns[k].id = job.columns[k].id /\ job'.columns[k].id # job.id
    BY <1>2, <1>7, <2>1
  <2>4. job'.columns[n + 1].id = job.id
    BY <1>7, <1>9
  <2> QED
    BY <1>2, <2>2, <2>3, <2>4 DEF ColumnsApart
<1>11. ASSUME NEW i \in 1..n PROVE ColumnMade(i)'
  <2>1. i <= Done /\ i <= Done' /\ i \in DOMAIN job.columns
    BY <1>2, <1>8
  <2>2. job'.columns[i] = job.columns[i]
    BY <1>7
  <2>3. SequencesOn(job.columns[i].id)' = SequencesOn(job.columns[i].id)
    BY <1>1, <2>2 DEF SequencesOn
  <2>4. IndexesOn(job.tbl_id, job.columns[i].id)' = IndexesOn(job.tbl_id, job.columns[i].id)
    BY <1>1, <1>6, <2>2 DEF IndexesOn
  <2> QED
    BY <1>1, <1>2, <1>6, <2>1, <2>2, <2>3, <2>4, MadeStays
<1>12. ColumnMade(n + 1)'
  <2>1. /\ \A s \in sequences : s.col_id # job.id
        /\ \A x \in indexes : x.col_ids # job.id
    BY <1>1, NewIds DEF NewIdsMeetNothing, Todo
  <2>2. SequencesOn(job.id) = {} /\ \A t_id : IndexesOn(t_id, job.id) = {}
    BY <2>1 DEF SequencesOn, IndexesOn
  <2> PICK id, t_id : id = job.id /\ t_id = job'.tbl_id
    OBVIOUS
  <2>3. SequencesOn(id)' = {} /\ IndexesOn(t_id, id)' = {}
    BY <1>1, <2>2 DEF SequencesOn, IndexesOn
  <2> PICK command : command = Current
    OBVIOUS
  <2>4. call'.columns[n + 1] = command /\ job'.columns[n + 1] = col /\ Valid(command)
    <3>1. Valid(Current)
      BY <1>1, <1>2 DEF Shape
    <3> QED
      BY <1>1, <1>2, <1>7, <3>1
  <2>5. ~(command.has_sequence /\ (n + 1 <= Done' \/ job'.part = "index")) /\ ~(command.is_unique /\ n + 1 <= Done')
    BY <1>2, <1>8
  <2>6. col.id = id /\ col.name = command.name /\ col.col_type = command.col_type
    BY <1>9
  <2> QED
    BY <2>3, <2>4, <2>5, <2>6 DEF ColumnMade, OneIf
<1>13. \A i \in DOMAIN job'.columns : ColumnMade(i)'
  <2>1. \A i \in 1..(n + 1) : i \in 1..n \/ i = n + 1
    BY <1>2
  <2> QED
    BY <1>7, <1>11, <1>12, <2>1
<1> QED
  BY <1>8, <1>10, <1>13 DEF Progress

LEMMA InsertColumnRowKeepsCalls ==
    ASSUME Inv, CallInv, InsertColumnRow
    PROVE  CallInv'
<1>1. UNCHANGED <<made, handles, call, reply>>
  BY DEF InsertColumnRow
<1>2. Doing("create") /\ job'.op = "create" /\ job'.name = job.name
  BY ColumnRowIs
<1>3. NamesFit' /\ RowsApart'
  BY InsertColumnRowRows DEF CallInv
<1> QED
  BY <1>1, <1>2, <1>3, NewColumnMade, GoingOnKeepsCalls

\* The last column of the call gets its sequence.
LEMMA InsertSequenceRowKeepsCalls ==
    ASSUME Inv, CallInv, InsertSequenceRow
    PROVE  CallInv'
<1> PICK next, n, new : /\ n = Done /\ next = IF Current.is_unique THEN Then("index") ELSE NextColumn
                        /\ new = [id |-> job.id, col_id |-> Last(job.columns).id, current |-> 0]
  OBVIOUS
<1>1. /\ Doing("create") /\ job.part = "sequence" /\ job' = next /\ sequences' = sequences \cup {new}
      /\ UNCHANGED <<columns, indexes, files, made, handles, call, reply>>
  BY DEF InsertSequenceRow, Todo
<1>2. /\ job \in CreateJobs /\ job.todo # << >> /\ job.columns \in Seq(Columns)
      /\ Shape /\ ColumnsApart /\ \A i \in DOMAIN job.columns : ColumnMade(i)
      /\ n \in Nat /\ Current = call.columns[n + 1] /\ Current \in CreateColumnCommand
      /\ DOMAIN job.columns = 1..(n + 1)
  BY <1>1, ColumnUnderWay
<1>3. next \in {Then("index"), NextColumn} /\ Follows(next)
  BY <1>2, ThenFollows, NextColumnFollows
<1>4. GoesOn(next) /\ job'.columns = job.columns /\ job'.tbl_id = job.tbl_id /\ job'.op = "create" /\ job'.name = job.name
  BY <1>1, <1>3 DEF GoesOn, Follows
<1>5. Len(job'.columns) = n + 1
  BY <1>1, <1>2, <1>4 DEF Shape
<1>6. /\ Shape'
      /\ \/ Done' = n /\ job'.part = "index"
         \/ Done' = n + 1 /\ ~Current.is_unique
  <2>1. CASE Current.is_unique
    <3>1. GoesOn(Then("index"))
      BY <1>4, <2>1
    <3> QED
      BY <1>2, <1>5, <2>1, <3>1, ThenShape
  <2>2. CASE ~Current.is_unique
    <3>1. GoesOn(NextColumn)
      BY <1>4, <2>2
    <3> QED
      BY <1>2, <1>5, <2>2, <3>1, NextShape
  <2> QED
    BY <2>1, <2>2
<1> PICK id, t_id : id = job.columns[n + 1].id /\ t_id = job.tbl_id
  OBVIOUS
<1>7. new.col_id = id /\ \A i \in 1..n : job.columns[i].id # id
  <2>1. job.columns # << >> /\ Len(job.columns) = n + 1
    BY <1>1, <1>2 DEF Shape
  <2>2. Last(job.columns) = job.columns[n + 1]
    BY <1>2, <2>1, LastColumn
  <2>3. \A i \in 1..n : i \in 1..(n + 1) /\ i # n + 1 /\ n + 1 \in 1..(n + 1)
    BY <1>2
  <2> QED
    BY <1>2, <2>2, <2>3 DEF ColumnsApart
<1>8. ASSUME NEW i \in 1..n PROVE ColumnMade(i)'
  <2>1. i <= Done /\ i <= Done' /\ i \in DOMAIN job.columns
    BY <1>2, <1>6
  <2>2. SequencesOn(job.columns[i].id)' = SequencesOn(job.columns[i].id)
    BY <1>1, <1>4, <1>7 DEF SequencesOn
  <2>3. IndexesOn(job.tbl_id, job.columns[i].id)' = IndexesOn(job.tbl_id, job.columns[i].id)
    BY <1>1, <1>4 DEF IndexesOn
  <2> QED
    BY <1>1, <1>2, <1>4, <2>1, <2>2, <2>3, MadeStays
<1>9. ColumnMade(n + 1)'
  <2> PICK command, column : command = Current /\ column = job.columns[n + 1]
    OBVIOUS
  <2>1. call.columns[n + 1] = command /\ n + 1 \in DOMAIN job.columns /\ ~(n + 1 <= Done) /\ job.part # "index"
    BY <1>1, <1>2
  <2>2. /\ Valid(command) /\ column.name = command.name /\ column.col_type = command.col_type
        /\ OneIf(FALSE, SequencesOn(id)) /\ OneIf(FALSE, IndexesOn(t_id, id))
    BY <1>2, <2>1 DEF ColumnMade, OneIf
  <2>3. IndexesOn(t_id, id)' = {}
    BY <1>1, <2>2 DEF OneIf, IndexesOn
  <2>4. SequencesOn(id)' = {new}
    BY <1>1, <1>7, <2>2 DEF OneIf, SequencesOn
  <2>5. command.has_sequence /\ (n + 1 <= Done' \/ job'.part = "index") /\ ~(command.is_unique /\ n + 1 <= Done')
    <3>1. command.has_sequence
      BY <1>1, <1>2 DEF Shape
    <3>2. n + 1 <= n + 1 /\ ~(n + 1 <= n)
      <4>1. n \in Nat
        BY <1>2
      <4> QED
        BY <4>1
    <3> QED
      BY <1>6, <3>1, <3>2
  <2>6. call'.columns[n + 1] = command /\ job'.columns[n + 1] = column /\ job'.tbl_id = t_id /\ column.id = id
    BY <1>1, <1>4, <2>1
  <2> QED
    BY <2>2, <2>3, <2>4, <2>5, <2>6 DEF ColumnMade, OneIf
<1>10. Progress'
  <2>1. \A i \in 1..(n + 1) : i \in 1..n \/ i = n + 1
    BY <1>2
  <2>2. \A i \in DOMAIN job'.columns : ColumnMade(i)'
    BY <1>2, <1>4, <1>8, <1>9, <2>1
  <2> QED
    BY <1>2, <1>4, <1>6, <2>2 DEF Progress, ColumnsApart
<1> QED
  BY <1>1, <1>4, <1>10, SameColumnRows, GoingOnKeepsCalls

\* The last column of the call gets its index, which is its last part.
LEMMA InsertIndexRowKeepsCalls ==
    ASSUME Inv, CallInv, InsertIndexRow
    PROVE  CallInv'
<1> PICK n, new : n = Done /\ new = [id |-> job.id, t_id |-> job.tbl_id, col_ids |-> Last(job.columns).id]
  OBVIOUS
<1>1. /\ Doing("create") /\ job.part = "index" /\ job' = NextColumn /\ indexes' = indexes \cup {new}
      /\ UNCHANGED <<columns, sequences, files, made, handles, call, reply>>
  BY DEF InsertIndexRow, Todo
<1>2. /\ job \in CreateJobs /\ job.todo # << >> /\ job.columns \in Seq(Columns)
      /\ Shape /\ ColumnsApart /\ \A i \in DOMAIN job.columns : ColumnMade(i)
      /\ n \in Nat /\ Current = call.columns[n + 1] /\ Current \in CreateColumnCommand
      /\ DOMAIN job.columns = 1..(n + 1)
  BY <1>1, ColumnUnderWay
<1>3. Follows(NextColumn)
  BY <1>2, NextColumnFollows
<1>4. GoesOn(NextColumn) /\ job'.columns = job.columns /\ job'.tbl_id = job.tbl_id /\ job'.op = "create" /\ job'.name = job.name
  BY <1>1, <1>3 DEF GoesOn, Follows
<1>5. Len(job'.columns) = n + 1 /\ Current.is_unique
  BY <1>1, <1>2, <1>4 DEF Shape
<1>6. Shape' /\ Done' = n + 1
  BY <1>2, <1>4, <1>5, NextShape
<1> PICK id, t_id : id = job.columns[n + 1].id /\ t_id = job.tbl_id
  OBVIOUS
<1>7. new.col_ids = id /\ new.t_id = t_id /\ \A i \in 1..n : job.columns[i].id # id
  <2>1. job.columns # << >> /\ Len(job.columns) = n + 1
    BY <1>1, <1>2 DEF Shape
  <2>2. Last(job.columns) = job.columns[n + 1]
    BY <1>2, <2>1, LastColumn
  <2>3. \A i \in 1..n : i \in 1..(n + 1) /\ i # n + 1 /\ n + 1 \in 1..(n + 1)
    BY <1>2
  <2> QED
    BY <1>2, <2>2, <2>3 DEF ColumnsApart
<1>8. ASSUME NEW i \in 1..n PROVE ColumnMade(i)'
  <2>1. i <= Done /\ i <= Done' /\ i \in DOMAIN job.columns
    BY <1>2, <1>6
  <2>2. SequencesOn(job.columns[i].id)' = SequencesOn(job.columns[i].id)
    BY <1>1, <1>4 DEF SequencesOn
  <2>3. IndexesOn(job.tbl_id, job.columns[i].id)' = IndexesOn(job.tbl_id, job.columns[i].id)
    BY <1>1, <1>4, <1>7 DEF IndexesOn
  <2> QED
    BY <1>1, <1>2, <1>4, <2>1, <2>2, <2>3, MadeStays
<1>9. ColumnMade(n + 1)'
  <2> PICK command, column : command = Current /\ column = job.columns[n + 1]
    OBVIOUS
  <2>1. call.columns[n + 1] = command /\ n + 1 \in DOMAIN job.columns /\ ~(n + 1 <= Done)
    BY <1>2
  <2>2. /\ Valid(command) /\ column.name = command.name /\ column.col_type = command.col_type
        /\ OneIf(command.has_sequence /\ TRUE, SequencesOn(id)) /\ OneIf(FALSE, IndexesOn(t_id, id))
    BY <1>1, <1>2, <2>1 DEF ColumnMade, OneIf
  <2>3. IndexesOn(t_id, id)' = {new}
    BY <1>1, <1>7, <2>2 DEF OneIf, IndexesOn
  <2>4. SequencesOn(id)' = SequencesOn(id)
    BY <1>1 DEF SequencesOn
  <2>5. n + 1 <= Done' /\ command.is_unique
    BY <1>2, <1>5, <1>6
  <2>6. call'.columns[n + 1] = command /\ job'.columns[n + 1] = column /\ job'.tbl_id = t_id /\ column.id = id
    BY <1>1, <1>4, <2>1
  <2> QED
    BY <2>2, <2>3, <2>4, <2>5, <2>6 DEF ColumnMade, OneIf
<1>10. Progress'
  <2>1. \A i \in 1..(n + 1) : i \in 1..n \/ i = n + 1
    BY <1>2
  <2>2. \A i \in DOMAIN job'.columns : ColumnMade(i)'
    BY <1>2, <1>4, <1>8, <1>9, <2>1
  <2> QED
    BY <1>2, <1>4, <1>6, <2>2 DEF Progress, ColumnsApart
<1> QED
  BY <1>1, <1>4, <1>10, SameColumnRows, GoingOnKeepsCalls

---------------------------------------------------------------------------
(* Together. *)

\* The ids of the columns of the system's tables.
SystemIds == <<10, 20, 30, 40, 50, 60, 70, 80, 85, 90, 100, 110, 120>>

LEMMA SystemIdsApart ==
    /\ DOMAIN SystemColumns = 1..13
    /\ \A i \in 1..13 : SystemColumns[i].row.id = SystemIds[i]
    /\ \A i, j \in 1..13 : SystemIds[i] = SystemIds[j] => i = j
<1>1. DOMAIN SystemColumns = 1..13
  BY SMT DEF SystemColumns
<1>2. ASSUME NEW i \in 1..13 PROVE SystemColumns[i].row.id = SystemIds[i]
  BY SMT DEF SystemColumns, Slot, ColumnRow, SystemIds
<1>3. ASSUME NEW i \in 1..13, NEW j \in 1..13, SystemIds[i] = SystemIds[j] PROVE i = j
  BY <1>3, SMT DEF SystemIds
<1> QED
  BY <1>1, <1>2, <1>3

LEMMA InitCalls == Init => CallInv
<1> SUFFICES ASSUME Init PROVE CallInv
  OBVIOUS
<1>1. job = Idle /\ reply = "ok" /\ made = {} /\ columns = SystemColumns
  BY DEF Init
<1>2. \A i \in DOMAIN SystemColumns : SystemColumns[i].row.t_id \in 1..4
  BY SystemColumnsTyped
<1>3. CallFits /\ ~Doing("create")
  BY <1>1 DEF CallFits, Doing, Idle
<1>4. RowsApart
  <2> SUFFICES ASSUME NEW i, NEW j, Live(i), Live(j), columns[i].row.id = columns[j].row.id PROVE i = j
    BY DEF RowsApart
  <2>1. i \in 1..13 /\ j \in 1..13
    BY <1>1, SystemIdsApart DEF Live
  <2>2. SystemIds[i] = SystemIds[j]
    BY <1>1, <2>1, SystemIdsApart
  <2> QED
    BY <2>1, <2>2, SystemIdsApart
<1>5. NamesFit
  <2> SUFFICES ASSUME NEW i, Live(i), columns[i].row.t_id > 4 PROVE FALSE
    BY DEF NamesFit
  <2>1. columns[i].row.t_id \in 1..4
    BY <1>1, <1>2 DEF Live
  <2> QED
    BY <2>1
<1> QED
  BY <1>1, <1>3, <1>4, <1>5 DEF CallInv, MadeFits, Progress

LEMMA StepKeepsCalls == Inv /\ ReadInv /\ CallInv /\ [Next]_vars => CallInv'
<1> SUFFICES ASSUME Inv, ReadInv, CallInv, [Next]_vars PROVE CallInv'
  OBVIOUS
<1>1. CASE UNCHANGED vars
  BY <1>1, ZenonT(60) DEF vars, CallInv, NamesFit, RowsApart, Live, MadeFits, CallFits, Doing, Progress, Shape, Done, Current,
              ReadMetadata, Exists, ColumnsApart, ColumnMade, SequencesOn, IndexesOn
<1>2. CASE \E name \in TableNames, commands \in Commands : BeginCreate(name, commands)
  BY <1>2, BeginCreateKeepsCalls
<1>3. CASE \E name \in TableNames : BeginDrop(name) \/ Open(name)
  BY <1>3, BeginDropKeepsCalls, OpenKeepsCalls
<1>4. CASE CreateTable
  BY <1>4, CutKeepsCalls, DrawIdKeepsCalls, InsertTableRowKeepsCalls, InsertColumnRowKeepsCalls,
     InsertSequenceRowKeepsCalls, InsertIndexRowKeepsCalls, CreateTableFileKeepsCalls, CreateFsmFileKeepsCalls
     DEF CreateTable
<1>5. CASE \E table \in handles : BeginInsert(table) \/ \E i \in DOMAIN table.columns : DrawValue(table, table.columns[i])
  BY <1>5, BeginInsertKeepsCalls, DrawValueKeepsCalls
<1>6. CASE DropTable \/ WriteRow \/ CutShort
  BY <1>6, DropKeepsCalls, CutKeepsCalls
<1> QED
  BY <1>1, <1>2, <1>3, <1>4, <1>5, <1>6 DEF Next

\* A column has one sequence at most.
SequencesApart == \A r, s \in sequences : r.col_id = s.col_id => r = s

LEMMA NextValKeepsApart ==
    ASSUME Inv, SequencesApart, NEW col_id, NextVal(col_id)
    PROVE  SequencesApart'
<1>1. /\ \A r \in sequences : r \in SequenceRows
      /\ sequences' = {IF s.col_id = col_id THEN [s EXCEPT !.current = @ + 1] ELSE s : s \in sequences}
  BY DEF Inv, Types, NextVal
<1>2. \A r \in sequences : [r EXCEPT !.current = @ + 1].col_id = r.col_id
  BY <1>1 DEF SequenceRows
<1>3. \A r \in sequences' : \E q \in sequences :
         r.col_id = q.col_id /\ r = IF q.col_id = col_id THEN [q EXCEPT !.current = @ + 1] ELSE q
  BY <1>1, <1>2, ZenonT(60)
<1> SUFFICES ASSUME NEW r \in sequences', NEW s \in sequences', r.col_id = s.col_id PROVE r = s
  BY DEF SequencesApart
<1>4. PICK q \in sequences : r.col_id = q.col_id /\ r = IF q.col_id = col_id THEN [q EXCEPT !.current = @ + 1] ELSE q
  BY <1>3
<1>5. PICK p \in sequences : s.col_id = p.col_id /\ s = IF p.col_id = col_id THEN [p EXCEPT !.current = @ + 1] ELSE p
  BY <1>3
<1>6. p = q
  BY <1>4, <1>5 DEF SequencesApart
<1> QED
  BY <1>4, <1>5, <1>6

LEMMA StepKeepsSequencesApart ==
    ASSUME Inv, CallInv, SequencesApart, [Next]_vars
    PROVE  SequencesApart'
<1>1. CASE UNCHANGED sequences
  BY <1>1 DEF SequencesApart
<1>2. CASE DrawId
  BY <1>2, NextValKeepsApart DEF DrawId
<1>3. CASE \E table \in handles : \E i \in DOMAIN table.columns : DrawValue(table, table.columns[i])
  <2>1. UNCHANGED sequences \/ \E col_id : NextVal(col_id)
    BY <1>3 DEF DrawValue
  <2> QED
    BY <1>1, <2>1, NextValKeepsApart
<1>4. CASE InsertSequenceRow
  <2> PICK new, n : new = [id |-> job.id, col_id |-> Last(job.columns).id, current |-> 0] /\ n = Done
    OBVIOUS
  <2>1. Doing("create") /\ job.part = "sequence" /\ sequences' = sequences \cup {new}
    BY <1>4 DEF InsertSequenceRow, Todo
  <2>2. /\ job.columns \in Seq(Columns) /\ DOMAIN job.columns = 1..(n + 1) /\ n \in Nat
        /\ \A i \in DOMAIN job.columns : ColumnMade(i)
    BY <2>1, ColumnUnderWay
  <2>3. job.columns # << >> /\ Len(job.columns) = n + 1 /\ n + 1 \in DOMAIN job.columns /\ ~(n + 1 <= Done)
    <3>1. Len(job.columns) = n + 1
      BY <2>1 DEF CallInv, Progress, Shape
    <3>2. n + 1 \in 1..(n + 1) /\ ~(n + 1 <= n)
      BY <2>2
    <3> QED
      BY <2>2, <3>1, <3>2
  <2>4. new.col_id = job.columns[n + 1].id
    BY <2>2, <2>3, LastColumn
  <2>5. SequencesOn(job.columns[n + 1].id) = {}
    BY <2>1, <2>2, <2>3 DEF ColumnMade, OneIf
  <2>6. \A s \in sequences : s.col_id # new.col_id
    BY <2>4, <2>5 DEF SequencesOn
  <2> QED
    BY <2>1, <2>6 DEF SequencesApart
<1> QED
  BY <1>1, <1>2, <1>3, <1>4 DEF Next, CreateTable, DropTable, vars, catalog, BeginCreate, BeginDrop, Open, BeginInsert,
     RefuseColumn, InsertTableRow, InsertColumnRow, InsertIndexRow, PanicWithoutColumns, CreateTableFile, CreateFsmFile,
     DeleteTableRow, DeleteColumnRow, DeleteTableFile, WriteRow, CutShort

LEMMA InitSequencesApart == Init => SequencesApart
BY DEF Init, SequencesApart, SystemSequences

\* The inductive invariant of the refinement.
Known == Inv /\ ReadInv /\ CallInv /\ SequencesApart

\* When no two names of columns differ in length, what create_table has written of
\* the columns commanded is there until it returns.
THEOREM KnownHolds == SameLengths => (Spec => []Known)
<1> SUFFICES ASSUME SameLengths PROVE Spec => []Known
  OBVIOUS
<1>1. Init => Known
  BY InitInv, InitReads, InitCalls, InitSequencesApart DEF Known
<1>2. Known /\ [Next]_vars => Known'
  BY StepKeepsInv, StepReads, StepKeepsCalls, StepKeepsSequencesApart DEF Known
<1> QED
  BY <1>1, <1>2, PTL DEF Spec

---------------------------------------------------------------------------
(* What the catalog tells of a name. *)

Creating(name) == Doing("create") /\ job.name = name

ColumnDef(t_id, column) ==
    [name |-> column.name, col_type |-> column.col_type,
     has_sequence |-> Cardinality(SequencesOn(column.id)) = 1,
     is_unique    |-> Cardinality(IndexesOn(t_id, column.id)) = 1]

\* The commands that the rows of a table tell.
DefOf(t_id) == [i \in DOMAIN ColumnsOf(t_id) |-> ColumnDef(t_id, ColumnsOf(t_id)[i])]

\* Columns come from rows.
LEMMA ColumnsAre ==
    ASSUME Inv, NEW t_id
    PROVE  /\ ColumnsOf(t_id) \in Seq(Columns)
           /\ \A k \in DOMAIN ColumnsOf(t_id) : \E i :
                 /\ Live(i) /\ columns[i].row.t_id = t_id
                 /\ ColumnsOf(t_id)[k].id = columns[i].row.id /\ ColumnsOf(t_id)[k].name = columns[i].row.name
<1> PICK read, cols : read = {ColumnFrom(columns[i].row) : i \in ColumnRowsOf(t_id)} /\ cols = ColumnsOf(t_id)
  OBVIOUS
<1>1. cols \in Seq(read)
  <2>1. columns \in Seq(ColumnSlots)
    BY DEF Inv, Types
  <2> QED
    BY <2>1, ColumnsOfRows
<1>2. ASSUME NEW i \in ColumnRowsOf(t_id)
      PROVE  /\ Live(i) /\ columns[i].row.t_id = t_id
             /\ ColumnFrom(columns[i].row) \in Columns
             /\ ColumnFrom(columns[i].row).id = columns[i].row.id
             /\ ColumnFrom(columns[i].row).name = columns[i].row.name
  <2>1. i \in DOMAIN columns /\ ~columns[i].deleted /\ columns[i].row.t_id = t_id
    BY DEF ColumnRowsOf
  <2>2. columns[i].row \in ColumnRows
    BY <2>1 DEF Inv, Types
  <2> QED
    BY <2>1, <2>2, RowsGiveColumns DEF Live, ColumnFrom
<1>3. read \subseteq Columns
  BY <1>2
<1>4. cols \in Seq(Columns)
  BY <1>1, <1>3, SeqMonotonic
<1>5. \A k \in DOMAIN cols : \E i \in ColumnRowsOf(t_id) : cols[k] = ColumnFrom(columns[i].row)
  <2>1. \A k \in DOMAIN cols : cols[k] \in read
    BY <1>1
  <2> QED
    BY <2>1
<1>6. \A k \in DOMAIN cols : \E i :
         /\ Live(i) /\ columns[i].row.t_id = t_id
         /\ cols[k].id = columns[i].row.id /\ cols[k].name = columns[i].row.name
  <2> TAKE k \in DOMAIN cols
  <2> PICK i \in ColumnRowsOf(t_id) : cols[k] = ColumnFrom(columns[i].row)
    BY <1>5
  <2> QED
    BY <1>2
<1> QED
  BY <1>4, <1>6

\* What clients can use has columns.
LEMMA UsableHasColumns ==
    ASSUME Inv, ReadInv, CallInv, NEW t \in tables, Usable(t)
    PROVE  ColumnsOf(t.id) # << >>
<1>1. PICK h \in handles : h.id = t.id
  BY DEF Usable, CallInv, MadeFits
<1> QED
  BY <1>1 DEF ReadInv, HandlesFit

LEMMA NoSchema ==
    ASSUME NEW name, Creating(name) \/ \A t \in tables : t.name # name
    PROVE  SchemaOf(name) = Missing
BY DEF SchemaOf, Creating

LEMMA SchemaIs ==
    ASSUME Inv, ReadInv, CallInv, NEW t \in tables, ~Creating(t.name)
    PROVE  SchemaOf(t.name) = IF Usable(t) THEN DefOf(t.id) ELSE Panic
<1> PICK name, found : name = t.name /\ found = {s \in tables : s.name = t.name}
  OBVIOUS
<1>1. found = {t}
  BY DEF Inv, SystemRows
<1>2. SchemaOf(name) = IF Usable(t) THEN Definition(name) ELSE Panic
  BY <1>1 DEF SchemaOf, Creating
<1>3. ASSUME Usable(t) PROVE Definition(name) = DefOf(t.id)
  <2> PICK id, cols, table : id = t.id /\ cols = ColumnsOf(t.id) /\ table = ReadTable(name)
    OBVIOUS
  <2>1. cols # << >>
    BY <1>3, UsableHasColumns
  <2>2. table = [id |-> id, name |-> name, columns |-> cols]
    BY <2>1, ReadsTheTable
  <2>3. table.id = id /\ table.columns = cols
    BY <2>2
  <2>4. Definition(name) =
           [i \in DOMAIN cols |->
               [name |-> cols[i].name, col_type |-> cols[i].col_type,
                has_sequence |-> Cardinality(SequencesOn(cols[i].id)) = 1,
                is_unique    |-> Cardinality({x \in indexes : x.col_ids = cols[i].id /\ x.t_id = id}) = 1]]
    BY <2>3 DEF Definition
  <2> QED
    BY <2>4 DEF DefOf, ColumnDef, IndexesOn
<1> QED
  BY <1>2, <1>3

\* It is a list of columns, as clients command them.
LEMMA DefIsCommands ==
    ASSUME Inv, CallInv, NEW t \in tables, t.name \in TableNames
    PROVE  DefOf(t.id) \in Seq(CreateColumnCommand)
<1> PICK id, cols : id = t.id /\ cols = ColumnsOf(t.id)
  OBVIOUS
<1>1. id > 4
  BY DEF Inv, SystemRows
<1>2. cols \in Seq(Columns)
  BY ColumnsAre
<1>3. ASSUME NEW k \in DOMAIN cols PROVE ColumnDef(id, cols[k]) \in CreateColumnCommand
  <2>1. cols[k] \in Columns
    BY <1>2
  <2>2. cols[k].name \in DOMAIN NameLength
    <3>1. PICK i : Live(i) /\ columns[i].row.t_id = id /\ cols[k].name = columns[i].row.name
      BY ColumnsAre
    <3> QED
      BY <1>1, <3>1 DEF CallInv, NamesFit
  <2>3. cols[k].col_type \in ColumnTypes
    BY <2>1 DEF Columns
  <2> QED
    BY <2>2, <2>3 DEF ColumnDef, CreateColumnCommand
<1>4. Len(cols) \in Nat /\ DOMAIN cols = 1..Len(cols)
  BY <1>2
<1>5. DefOf(id) = [k \in 1..Len(cols) |-> ColumnDef(id, cols[k])]
  BY <1>4 DEF DefOf
<1> QED
  BY <1>3, <1>4, <1>5

\* A name is free when it has no row, or is about to get its table.
LEMMA SchemaKnown ==
    ASSUME Inv, ReadInv, CallInv, NEW name \in TableNames
    PROVE  SchemaOf(name) = Missing <=> Creating(name) \/ \A t \in tables : t.name # name
<1>1. ASSUME NEW t \in tables, t.name = name, ~Creating(name) PROVE SchemaOf(name) # Missing
  <2>1. SchemaOf(name) = DefOf(t.id) \/ SchemaOf(name) = Panic
    BY <1>1, SchemaIs
  <2>2. DefOf(t.id) \in Seq(CreateColumnCommand)
    BY <1>1, DefIsCommands
  <2> QED
    BY <2>1, <2>2, AnswersAssumption
<1> QED
  BY <1>1, NoSchema

---------------------------------------------------------------------------
(* What a step does not change. *)

SchemasTold ==
    /\ \A t \in tables : ~Creating(t.name) => SchemaOf(t.name) = IF Usable(t) THEN DefOf(t.id) ELSE Panic
    /\ \A name : Creating(name) \/ (\A t \in tables : t.name # name) => SchemaOf(name) = Missing

LEMMA SchemasAre == Known => SchemasTold
BY SchemaIs, NoSchema DEF Known, SchemasTold

LEMMA SchemasAreThen == Known' => SchemasTold'
BY SchemasAre, PTL

\* A step does not change what is told of a table.
Stays(t) == (Usable(t)' <=> Usable(t)) /\ (Usable(t) => DefOf(t.id)' = DefOf(t.id))

LEMMA SchemaStays ==
    ASSUME Known, Known', NEW name, Creating(name)' <=> Creating(name),
           {t \in tables' : t.name = name} = {t \in tables : t.name = name},
           \A t \in tables : t.name = name /\ ~Creating(name) => Stays(t)
    PROVE  SchemaOf(name)' = SchemaOf(name)
<1>1. SchemasTold /\ SchemasTold'
  BY SchemasAre, SchemasAreThen
<1>2. CASE Creating(name) \/ \A t \in tables : t.name # name
  BY <1>1, <1>2 DEF SchemasTold
<1>3. CASE ~Creating(name) /\ \E t \in tables : t.name = name
  <2>1. PICK t \in tables : t.name = name
    BY <1>3
  <2>2. t \in tables' /\ ~Creating(name)' /\ ~Creating(name)
    BY <1>3, <2>1
  <2>3. Stays(t)
    BY <1>3, <2>1
  <2>4. SchemaOf(t.name) = IF Usable(t) THEN DefOf(t.id) ELSE Panic
    BY <1>1, <2>1, <2>2 DEF SchemasTold
  <2>5. SchemaOf(t.name)' = IF Usable(t)' THEN DefOf(t.id)' ELSE Panic
    BY <1>1, <2>1, <2>2 DEF SchemasTold
  <2> QED
    BY <2>1, <2>3, <2>4, <2>5 DEF Stays
<1> QED
  BY <1>2, <1>3

HasColumn(t_id, c) == \E k \in DOMAIN ColumnsOf(t_id) : ColumnsOf(t_id)[k].id = c

\* The sequence and the index on a column stay.
RowsStay(t_id, c) ==
    /\ Cardinality(SequencesOn(c)') = Cardinality(SequencesOn(c))
    /\ IndexesOn(t_id, c)' = IndexesOn(t_id, c)

\* The files of a table keep their headers, or still have none.
HeadersStay(id) == \A f \in {TableFile(id), FsmFile(id)} : ReadMetadata(f)' = NoMetadata <=> ReadMetadata(f) = NoMetadata

LEMMA DefStays ==
    ASSUME Inv, NEW t_id, ColumnsOf(t_id)' = ColumnsOf(t_id), \A c : HasColumn(t_id, c) => RowsStay(t_id, c)
    PROVE  DefOf(t_id)' = DefOf(t_id)
<1> PICK cols : cols = ColumnsOf(t_id)
  OBVIOUS
<1>1. \A k \in DOMAIN cols : ColumnDef(t_id, cols[k])' = ColumnDef(t_id, cols[k])
  <2> SUFFICES ASSUME NEW k \in DOMAIN cols PROVE ColumnDef(t_id, cols[k])' = ColumnDef(t_id, cols[k])
    OBVIOUS
  <2> PICK column : column = cols[k]
    OBVIOUS
  <2> PICK c : c = column.id
    OBVIOUS
  <2>1. RowsStay(t_id, c)
    BY DEF HasColumn
  <2> QED
    BY <2>1 DEF ColumnDef, RowsStay
<1> QED
  BY <1>1 DEF DefOf

LEMMA StaysWhen ==
    ASSUME Inv, NEW t, t.id \in made' <=> t.id \in made, HeadersStay(t.id),
           ColumnsOf(t.id)' = ColumnsOf(t.id), \A c : HasColumn(t.id, c) => RowsStay(t.id, c)
    PROVE  Stays(t)
<1>1. Usable(t)' <=> Usable(t)
  BY DEF Usable, HeadersStay
<1>2. DefOf(t.id)' = DefOf(t.id)
  <2> PICK id : id = t.id
    OBVIOUS
  <2>1. DefOf(id)' = DefOf(id)
    BY DefStays
  <2> QED
    BY <2>1
<1> QED
  BY <1>1, <1>2 DEF Stays

LEMMA SameFiles ==
    ASSUME UNCHANGED files
    PROVE  \A id : HeadersStay(id)
BY DEF HeadersStay, ReadMetadata, Exists

LEMMA SameColumns ==
    ASSUME UNCHANGED columns
    PROVE  \A id : ColumnsOf(id)' = ColumnsOf(id)
BY ReadNow

LEMMA SameRows ==
    ASSUME UNCHANGED <<sequences, indexes>>
    PROVE  \A t_id, c : RowsStay(t_id, c)
BY DEF RowsStay, SequencesOn, IndexesOn

LEMMA NextValRows ==
    ASSUME Known, NEW col_id, NextVal(col_id), UNCHANGED indexes
    PROVE  \A t_id, c : RowsStay(t_id, c)
<1> SUFFICES ASSUME NEW t_id, NEW c PROVE RowsStay(t_id, c)
  OBVIOUS
<1>1. IndexesOn(t_id, c)' = IndexesOn(t_id, c)
  BY DEF IndexesOn
<1>2. Types
  BY DEF Known, Inv
<1>3. CASE c # col_id
  BY <1>1, <1>2, <1>3, NextValAdds DEF RowsStay
<1>4. CASE c = col_id
  <2>1. Cardinality(SequencesOn(c)) = 1
    BY <1>4 DEF NextVal
  <2>2. PICK r : SequencesOn(c) = {r}
    <3>1. PICK r : r \in SequencesOn(c)
      BY <2>1, FS_EmptySet
    <3>2. \A s \in SequencesOn(c) : s = r
      BY <3>1 DEF Known, SequencesApart, SequencesOn
    <3> QED
      BY <3>1, <3>2
  <2>3. PICK s : SequencesOn(c)' = {s}
    BY <1>2, <1>4, <2>2, NextValAdds
  <2>4. Cardinality(SequencesOn(c)') = 1
    BY <2>3, FS_Singleton
  <2> QED
    BY <1>1, <2>1, <2>4 DEF RowsStay
<1> QED
  BY <1>3, <1>4

\* Steps that write nothing but values of sequences.
LEMMA QuietSchema ==
    ASSUME Known, Known', UNCHANGED <<tables, columns, indexes, files, made>>,
           UNCHANGED sequences \/ \E col_id : NextVal(col_id),
           NEW name, Creating(name)' <=> Creating(name)
    PROVE  SchemaOf(name)' = SchemaOf(name)
<1>1. \A t_id, c : RowsStay(t_id, c)
  BY SameRows, NextValRows
<1>2. Inv /\ \A id : HeadersStay(id) /\ ColumnsOf(id)' = ColumnsOf(id)
  BY SameFiles, SameColumns DEF Known
<1>3. \A t \in tables : Stays(t)
  BY <1>1, <1>2, StaysWhen
<1> QED
  BY <1>3, SchemaStays

\* Steps of create_table that go on: the new table is not there yet.
LEMMA CreatingSchemas ==
    ASSUME Known, Known', Doing("create"), job'.op = "create", job'.name = job.name,
           {t \in tables' : t.name # job.name} = {t \in tables : t.name # job.name},
           \A t \in tables : t.name # job.name => Stays(t)
    PROVE  \A name : SchemaOf(name)' = SchemaOf(name)
<1> SUFFICES ASSUME NEW name PROVE SchemaOf(name)' = SchemaOf(name)
  OBVIOUS
<1>1. SchemasTold /\ SchemasTold'
  BY SchemasAre, SchemasAreThen
<1>2. Creating(name)' <=> Creating(name)
  BY DEF Creating, Doing
<1>3. CASE name = job.name
  <2>1. Creating(name)
    BY <1>3 DEF Creating
  <2> QED
    BY <1>1, <1>2, <2>1 DEF SchemasTold
<1>4. CASE name # job.name
  <2>1. {t \in tables' : t.name = name} = {t \in tables : t.name = name}
    BY <1>4
  <2> QED
    BY <1>2, <1>4, <2>1, SchemaStays
<1> QED
  BY <1>3, <1>4

\* The id of the table that is created is no other table's.
LEMMA OtherIds ==
    ASSUME Known, Doing("create"), job.part # "table"
    PROVE  /\ [id |-> job.tbl_id, name |-> job.name] \in tables
           /\ \A t \in tables : t.id = job.tbl_id <=> t.name = job.name
<1> PICK own : own = [id |-> job.tbl_id, name |-> job.name]
  OBVIOUS
<1>1. own \in tables /\ own.id = job.tbl_id /\ own.name = job.name
  BY DEF Known, ReadInv, CreateFits
<1>2. \A t \in tables : t.id = own.id \/ t.name = own.name => t = own
  BY <1>1 DEF Known, Inv, SystemRows
<1> QED
  BY <1>1, <1>2

\* The rows of columns of other tables, too, stay in their slots.
LEMMA InsertColumnRowLeaves ==
    ASSUME Inv, InsertColumnRow
    PROVE  \A t_id : t_id # job.tbl_id => ColumnsOf(t_id)' = ColumnsOf(t_id)
<1> PICK slot, k, cols, more : slot = NewSlot /\ k = SlotFor(columns, NewSlot.length) /\ cols = columns /\ more = columns'
  OBVIOUS
<1>1. slot \in ColumnSlots /\ slot.row.t_id = job.tbl_id /\ ~slot.deleted /\ more = WithRecord(cols, slot) /\ slot.length \in Int
  BY ColumnRowIs DEF ColumnSlots
<1>2. cols \in Seq(ColumnSlots) /\ \A i \in DOMAIN cols : cols[i].deleted => cols[i].row = None
  BY DEF Inv, Types
<1>3. /\ more \in Seq(ColumnSlots) /\ Len(more) >= Len(cols)
      /\ \A i \in DOMAIN more :
            \/ i = k /\ more[i] = slot
            \/ i \in DOMAIN cols /\ i # k /\ more[i] = cols[i]
            \/ i = Len(cols) + 1 /\ more[i].deleted
  BY <1>1, <1>2, WithRecordSlots
<1>4. k \in Deleted(cols) \cup {Len(cols) + 1}
  BY <1>1, <1>2, SlotForIsFree
<1>5. Len(cols) \in Nat /\ Len(more) \in Nat /\ DOMAIN cols = 1..Len(cols) /\ DOMAIN more = 1..Len(more)
  BY <1>2, <1>3
<1>6. k \in DOMAIN cols => cols[k].deleted
  BY <1>4, <1>5 DEF Deleted
<1>7. Len(cols) + 1 \notin DOMAIN cols
  BY <1>5
<1> SUFFICES ASSUME NEW t_id, t_id # job.tbl_id PROVE ReadOf(more, t_id) = ReadOf(cols, t_id)
  BY ReadNow
<1>8. \A i \in 1..Len(more) : IsRowOf(more, t_id, i) <=> IsRowOf(cols, t_id, i)
  <2> TAKE i \in 1..Len(more)
  <2>1. i \in DOMAIN more
    BY <1>5
  <2>2. CASE i = k /\ more[i] = slot
    BY <1>1, <1>6, <2>2 DEF IsRowOf
  <2>3. CASE i \in DOMAIN cols /\ i # k /\ more[i] = cols[i]
    BY <2>1, <2>3 DEF IsRowOf
  <2>4. CASE i = Len(cols) + 1 /\ more[i].deleted
    BY <1>7, <2>4 DEF IsRowOf
  <2> QED
    BY <1>3, <2>1, <2>2, <2>3, <2>4
<1>9. \A i \in 1..Len(more) : IsRowOf(cols, t_id, i) => more[i].row = cols[i].row
  <2> TAKE i \in 1..Len(more)
  <2>1. i \in DOMAIN more
    BY <1>5
  <2> QED
    BY <1>3, <1>6, <1>7, <2>1 DEF IsRowOf
<1> QED
  BY <1>2, <1>3, <1>5, <1>8, <1>9, ReadUntouched

LEMMA DeleteColumnRowLeaves ==
    ASSUME Inv, ReadInv, DeleteColumnRow
    PROVE  \A t_id : t_id # job.table.id => ColumnsOf(t_id)' = ColumnsOf(t_id)
<1> PICK k, rows, id : k = Min(job.rows) /\ rows = job.rows /\ id = job.table.id
  OBVIOUS
<1>1. Doing("drop") /\ rows \notin {None, {}} /\ columns' = [WithoutRecord(columns, k) EXCEPT ![k].row = None]
  BY DEF DeleteColumnRow
<1>2. rows \subseteq ColumnRowsOf(id)
  BY <1>1 DEF ReadInv, DropFits
<1>3. k \in ColumnRowsOf(id)
  <2>1. rows \in SUBSET Nat
    BY <1>2 DEF ColumnRowsOf, Inv, Types
  <2> QED
    BY <1>1, <1>2, <2>1, MinIsLeast
<1> PICK cols, more, slot : cols = columns /\ more = columns' /\ slot = [[columns[k] EXCEPT !.deleted = TRUE] EXCEPT !.row = None]
  OBVIOUS
<1>4. cols \in Seq(ColumnSlots) /\ k \in DOMAIN cols /\ ~cols[k].deleted /\ cols[k].row.t_id = id /\ cols[k] \in ColumnSlots
  BY <1>3 DEF Inv, Types, ColumnRowsOf
<1>5. slot \in ColumnSlots /\ slot.deleted
  BY <1>4 DEF ColumnSlots
<1>6. more = [cols EXCEPT ![k] = slot]
  BY <1>1, <1>4 DEF WithoutRecord
<1>7. /\ more \in Seq(ColumnSlots) /\ DOMAIN more = DOMAIN cols /\ Len(more) = Len(cols) /\ Len(cols) <= Len(more)
      /\ \A i \in DOMAIN cols : more[i] = IF i = k THEN slot ELSE cols[i]
  BY <1>4, <1>5, <1>6
<1> SUFFICES ASSUME NEW t_id, t_id # id PROVE ReadOf(more, t_id) = ReadOf(cols, t_id)
  BY ReadNow
<1>8. \A i \in 1..Len(more) : IsRowOf(more, t_id, i) <=> IsRowOf(cols, t_id, i)
  BY <1>4, <1>5, <1>7 DEF IsRowOf
<1>9. \A i \in 1..Len(more) : IsRowOf(cols, t_id, i) => more[i].row = cols[i].row
  BY <1>4, <1>7 DEF IsRowOf
<1> QED
  BY <1>4, <1>7, <1>8, <1>9, ReadUntouched

\* The columns of two tables have no id in common.
LEMMA ColumnsOfOthers ==
    ASSUME Known, NEW t_id, NEW other, NEW c, HasColumn(t_id, c), HasColumn(other, c)
    PROVE  t_id = other
<1>1. PICK i : Live(i) /\ columns[i].row.t_id = t_id /\ columns[i].row.id = c
  BY ColumnsAre DEF HasColumn, Known
<1>2. PICK j : Live(j) /\ columns[j].row.t_id = other /\ columns[j].row.id = c
  BY ColumnsAre DEF HasColumn, Known
<1>3. i = j
  BY <1>1, <1>2 DEF Known, CallInv, RowsApart
<1> QED
  BY <1>1, <1>2, <1>3

---------------------------------------------------------------------------
(* The steps of create_table. *)

SchemasStay == \A name : SchemaOf(name)' = SchemaOf(name)

LEMMA DrawIdSchemas ==
    ASSUME Known, Known', DrawId
    PROVE  SchemasStay
<1> PICK id : id = DrawnVal(IdColumn[job.part])
  OBVIOUS
<1>1. /\ Doing("create") /\ job' = [job EXCEPT !.id = id] /\ (\E col_id : NextVal(col_id))
      /\ UNCHANGED <<tables, columns, indexes, files, made>>
  BY DEF DrawId
<1>2. job \in CreateJobs
  BY <1>1, JobOfCall DEF Known, Inv
<1>3. job'.op = "create" /\ job'.name = job.name
  BY <1>1, <1>2 DEF CreateJobs
<1>4. \A name : Creating(name)' <=> Creating(name)
  BY <1>1, <1>3 DEF Creating, Doing
<1> QED
  BY <1>1, <1>4, QuietSchema DEF SchemasStay

LEMMA InsertTableRowSchemas ==
    ASSUME Known, Known', InsertTableRow
    PROVE  SchemasStay
<1> PICK id, next, own : /\ id = job.id /\ next = StartColumn(job.todo)
                         /\ own = [id |-> job.id, name |-> job.name]
  OBVIOUS
<1>1. /\ Doing("create") /\ job' = [next EXCEPT !.tbl_id = id] /\ tables' = tables \cup {own}
      /\ UNCHANGED <<columns, sequences, indexes, files, made>>
  BY DEF InsertTableRow, Todo
<1>2. job \in CreateJobs
  BY <1>1, JobOfCall DEF Known, Inv
<1>3. Follows(next)
  BY <1>2, StartColumnFollows DEF CreateJobs
<1>4. job'.op = "create" /\ job'.name = job.name
  BY <1>1, <1>3 DEF Follows, CreateJobs
<1>5. \A t \in tables : Stays(t)
  BY <1>1, SameRows, SameFiles, SameColumns, StaysWhen DEF Known
<1>6. own.name = job.name
  OBVIOUS
<1>7. {t \in tables' : t.name # job.name} = {t \in tables : t.name # job.name}
  BY <1>1, <1>6
<1> QED
  BY <1>1, <1>4, <1>5, <1>7, CreatingSchemas DEF SchemasStay

LEMMA InsertColumnRowSchemas ==
    ASSUME Known, Known', InsertColumnRow
    PROVE  SchemasStay
<1>1. UNCHANGED <<tables, sequences, indexes, files, made>>
  BY DEF InsertColumnRow
<1>2. Doing("create") /\ job.part = "column" /\ job'.op = "create" /\ job'.name = job.name
  BY ColumnRowIs DEF Known
<1>3. ASSUME NEW t \in tables, t.name # job.name PROVE Stays(t)
  <2>1. t.id # job.tbl_id
    BY <1>2, <1>3, OtherIds
  <2>2. ColumnsOf(t.id)' = ColumnsOf(t.id)
    BY <2>1, InsertColumnRowLeaves DEF Known
  <2> QED
    BY <1>1, <2>2, SameRows, SameFiles, StaysWhen DEF Known
<1> QED
  BY <1>1, <1>2, <1>3, CreatingSchemas DEF SchemasStay

LEMMA InsertSequenceOrIndexSchemas ==
    ASSUME Known, Known', InsertSequenceRow \/ InsertIndexRow
    PROVE  SchemasStay
<1> PICK c, t_id, sequence, index :
       /\ c = Last(job.columns).id /\ t_id = job.tbl_id
       /\ sequence = [id |-> job.id, col_id |-> Last(job.columns).id, current |-> 0]
       /\ index = [id |-> job.id, t_id |-> job.tbl_id, col_ids |-> Last(job.columns).id]
  OBVIOUS
<1>1. /\ Doing("create") /\ job.part \in {"sequence", "index"}
      /\ job' \in {Then("index"), NextColumn}
      /\ sequences' \in {sequences, sequences \cup {sequence}} /\ indexes' \in {indexes, indexes \cup {index}}
      /\ UNCHANGED <<tables, columns, files, made>>
  BY DEF InsertSequenceRow, InsertIndexRow, Todo
<1>2. job \in CreateJobs /\ job.todo # << >> /\ job.columns \in Seq(Columns) /\ job.columns # << >>
  <2>1. job \in CreateJobs
    BY <1>1, JobOfCall DEF Known, Inv
  <2> QED
    BY <1>1, <2>1 DEF Known, Inv, CreateOK, CreateJobs
<1>3. job'.op = "create" /\ job'.name = job.name
  BY <1>1, <1>2, ThenFollows, NextColumnFollows DEF Follows
<1>4. HasColumn(t_id, c)
  <2>1. job.columns = ColumnsOf(t_id)
    BY <1>1 DEF Known, ReadInv, CreateFits
  <2> QED
    BY <1>2, <2>1, LastColumn DEF HasColumn
<1>5. sequence.col_id = c /\ index.t_id = t_id
  OBVIOUS
<1>6. ASSUME NEW t \in tables, t.name # job.name PROVE Stays(t)
  <2>1. t.id # t_id
    BY <1>1, <1>6, OtherIds
  <2>2. ASSUME NEW d, HasColumn(t.id, d) PROVE RowsStay(t.id, d)
    <3>1. d # c
      BY <1>4, <2>1, <2>2, ColumnsOfOthers
    <3>2. SequencesOn(d)' = SequencesOn(d)
      BY <1>1, <1>5, <3>1 DEF SequencesOn
    <3>3. IndexesOn(t.id, d)' = IndexesOn(t.id, d)
      BY <1>1, <1>5, <2>1 DEF IndexesOn
    <3> QED
      BY <3>2, <3>3 DEF RowsStay
  <2> QED
    BY <1>1, <2>2, SameFiles, SameColumns, StaysWhen DEF Known
<1> QED
  BY <1>1, <1>3, <1>6, CreatingSchemas DEF SchemasStay

\* A file of one table is none of another's.
LEMMA OtherHeaders ==
    ASSUME Inv, NEW t_id, NEW f \in {TableFile(t_id), FsmFile(t_id)}, Create(f, TRUE) \/ CreateFails(f),
           NEW id, id # t_id
    PROVE  HeadersStay(id)
<1>1. UNCHANGED files \/ \E complete \in BOOLEAN : Create(f, complete)
  BY DEF CreateFails
<1>2. CASE UNCHANGED files
  BY <1>2, SameFiles
<1>3. ASSUME NEW complete \in BOOLEAN, Create(f, complete) PROVE HeadersStay(id)
  <2>1. DOMAIN files' = DOMAIN files \cup {f} /\ \A g \in DOMAIN files : files'[g] = files[g]
    <3>1. FilesInv
      BY DEF Inv, Types, FilesInv
    <3> QED
      BY <1>3, <3>1, CreateMakes
  <2>2. ASSUME NEW g \in {TableFile(id), FsmFile(id)} PROVE g # f
    BY <2>2 DEF TableFile, FsmFile
  <2>3. \A g \in {TableFile(id), FsmFile(id)} : ReadMetadata(g)' = ReadMetadata(g)
    BY <2>1, <2>2 DEF ReadMetadata, Exists
  <2> QED
    BY <2>3 DEF HeadersStay
<1> QED
  BY <1>1, <1>2, <1>3

LEMMA CreateTableFileSchemas ==
    ASSUME Known, Known', Todo("table file"), Create(TableFile(job.tbl_id), TRUE), job' = Then("fsm file"),
           UNCHANGED <<tables, columns, sequences, indexes, made>>
    PROVE  SchemasStay
<1>1. Doing("create") /\ job.part = "table file" /\ job \in CreateJobs
  BY JobOfCall DEF Todo, Known, Inv
<1>2. job'.op = "create" /\ job'.name = job.name
  BY <1>1, ThenFollows DEF Follows
<1>3. ASSUME NEW t \in tables, t.name # job.name PROVE Stays(t)
  <2> PICK t_id, f : t_id = job.tbl_id /\ f = TableFile(job.tbl_id)
    OBVIOUS
  <2>1. t.id # t_id
    BY <1>1, <1>3, OtherIds
  <2>2. HeadersStay(t.id)
    BY <2>1, OtherHeaders DEF Known
  <2> QED
    BY <2>2, SameRows, SameColumns, StaysWhen DEF Known
<1> QED
  BY <1>1, <1>2, <1>3, CreatingSchemas DEF SchemasStay

---------------------------------------------------------------------------
(* The end of create_table. *)

SchemasNow == [name \in TableNames |-> SchemaOf(name)]

\* Only the table of the call is told otherwise.
LEMMA EndOfCreate ==
    ASSUME Known, Known', Doing("create"), job' = Idle, UNCHANGED tables,
           \A t \in tables : t.name # job.name => Stays(t),
           NEW n, n = job.name, NEW value, SchemaOf(n)' = value
    PROVE  /\ SchemasNow' = [SchemasNow EXCEPT ![call.name] = value]
           /\ call.op = "create" /\ reply = "running"
<1>1. call.op = "create" /\ call.name = n /\ reply = "running"
  <2>1. job # Idle
    BY DEF Doing, Idle
  <2> QED
    BY <2>1 DEF Known, CallInv, CallFits
<1>2. ASSUME NEW name, name # n PROVE SchemaOf(name)' = SchemaOf(name)
  <2>1. Creating(name)' <=> Creating(name)
    BY <1>2 DEF Creating, Doing, Idle
  <2>2. \A t \in tables : t.name = name => Stays(t)
    BY <1>2
  <2> QED
    BY <2>1, <2>2, SchemaStays
<1>3. \A name \in TableNames : SchemaOf(name)' = IF name = n THEN value ELSE SchemaOf(name)
  BY <1>2
<1>4. SchemasNow' = [SchemasNow EXCEPT ![n] = value]
  BY <1>3 DEF SchemasNow
<1> QED
  BY <1>1, <1>4

\* The table of the call can be used when it was made.
LEMMA SchemaOfCall ==
    ASSUME Known, Known', Doing("create"), job' = Idle, UNCHANGED tables,
           NEW own, own = [id |-> job.tbl_id, name |-> job.name]
    PROVE  SchemaOf(own.name)' =
               IF job.part = "table" THEN Missing
               ELSE IF Usable(own)' THEN DefOf(own.id)' ELSE Panic
<1> PICK name : name = own.name
  OBVIOUS
<1>1. SchemasTold' /\ name = job.name
  BY SchemasAreThen
<1>2. ~Creating(name)'
  BY DEF Creating, Doing, Idle
<1>3. CASE job.part = "table"
  <2>1. \A t \in tables' : t.name # name
    BY <1>1, <1>3 DEF Known, Inv, CreateOK
  <2> QED
    BY <1>1, <1>3, <2>1 DEF SchemasTold
<1>4. CASE job.part # "table"
  <2>1. own \in tables'
    BY <1>4, OtherIds
  <2> QED
    BY <1>1, <1>2, <1>4, <2>1 DEF SchemasTold
<1> QED
  BY <1>3, <1>4

\* When it was not, it is there without being of use, or not at all.
LEMMA FailedCreate ==
    ASSUME Known, Known', Doing("create"), job' = Idle, UNCHANGED <<tables, made, call>>,
           \A t \in tables : t.name # job.name => Stays(t)
    PROVE  /\ call.op = "create" /\ reply = "running"
           /\ SchemasNow' = [SchemasNow EXCEPT ![call.name] = IF job.part = "table" THEN Missing ELSE Panic]
<1> PICK own, n, value : /\ own = [id |-> job.tbl_id, name |-> job.name] /\ n = job.name
                         /\ value = IF job.part = "table" THEN Missing ELSE Panic
  OBVIOUS
<1>1. own.id = job.tbl_id /\ own.name = n
  OBVIOUS
<1>2. job.part # "table" => ~Usable(own)'
  <2>1. job.part # "table" => job.tbl_id \notin made
    BY DEF Known, CallInv, MadeFits, ReadInv, CreateFits
  <2> QED
    BY <1>1, <2>1 DEF Usable
<1>3. SchemaOf(n)' = value
  BY <1>1, <1>2, SchemaOfCall
<1> QED
  BY <1>3, EndOfCreate

\* A step is one of Schemas, or nothing is told of it.
Maps == Promised!Next \/ (SchemasNow' = SchemasNow /\ call' = call /\ reply' = reply)

LEMMA CutCreateMaps ==
    ASSUME Known, Known', Doing("create"), Ends("error"), UNCHANGED <<tables, made, call>>,
           \A t \in tables : t.name # job.name => Stays(t)
    PROVE  Maps
<1>1. job' = Idle /\ reply' = "error"
  BY DEF Ends
<1> PICK value : value = IF job.part = "table" THEN Missing ELSE Panic
  OBVIOUS
<1>2. /\ call.op = "create" /\ reply = "running"
      /\ SchemasNow' = [SchemasNow EXCEPT ![call.name] = value]
  BY <1>1, FailedCreate
<1>3. value = Missing \/ value = Panic
  OBVIOUS
<1>4. Promised!Becomes(Missing) \/ Promised!Becomes(Panic)
  BY <1>2, <1>3 DEF Promised!Becomes, SchemasNow
<1>5. Promised!CutCreate
  BY <1>1, <1>2, <1>4 DEF Promised!CutCreate, Promised!During
<1> QED
  BY <1>5 DEF Promised!Next, Maps

\* Nothing changes but the call.
LEMMA AllStay ==
    ASSUME Known, UNCHANGED <<columns, sequences, indexes, files, made>>
    PROVE  \A t \in tables : Stays(t)
BY SameRows, SameFiles, SameColumns, StaysWhen DEF Known

\* A column was refused that cannot have what was commanded.
LEMMA RefuseColumnMaps ==
    ASSUME Known, Known', RefuseColumn
    PROVE  Maps
<1>1. /\ Doing("create") /\ job.part = "column" /\ ~Valid(Current) /\ job' = Idle /\ reply' = "invalid"
      /\ UNCHANGED <<tables, columns, sequences, indexes, files, made, call>>
  BY DEF RefuseColumn, Todo, Ends, catalog
<1>2. /\ call.op = "create" /\ reply = "running"
      /\ SchemasNow' = [SchemasNow EXCEPT ![call.name] = Panic]
  <2>1. ~(job.part = "table")
    BY <1>1
  <2>2. \A t \in tables : Stays(t)
    BY <1>1, AllStay
  <2> QED
    BY <1>1, <2>1, <2>2, FailedCreate
<1>3. \E i \in DOMAIN call.columns : ~Valid(call.columns[i])
  <2>1. job \in CreateJobs /\ job.todo # << >> /\ Shape
    BY <1>1, ColumnUnderWay DEF Known
  <2>2. Current = call.columns[Done + 1] /\ Done + 1 \in DOMAIN call.columns
    BY <2>1, CurrentOfCall
  <2> QED
    BY <1>1, <2>2
<1>4. Promised!Becomes(Panic)
  BY <1>2 DEF Promised!Becomes, SchemasNow
<1>5. Promised!FinishCreate
  BY <1>1, <1>2, <1>3, <1>4 DEF Promised!FinishCreate, Promised!During
<1> QED
  BY <1>5 DEF Promised!Next, Maps

\* No columns were commanded.
LEMMA PanicWithoutColumnsMaps ==
    ASSUME Known, Known', PanicWithoutColumns
    PROVE  Maps
<1>1. /\ Doing("create") /\ job.part = "table file" /\ job.columns = << >> /\ job' = Idle /\ reply' = "panic"
      /\ UNCHANGED <<tables, columns, sequences, indexes, files, made, call>>
  BY DEF PanicWithoutColumns, Todo, Ends, catalog
<1>2. /\ call.op = "create" /\ reply = "running"
      /\ SchemasNow' = [SchemasNow EXCEPT ![call.name] = Panic]
  <2>1. ~(job.part = "table")
    BY <1>1
  <2>2. \A t \in tables : Stays(t)
    BY <1>1, AllStay
  <2> QED
    BY <1>1, <2>1, <2>2, FailedCreate
<1>3. call.columns = << >>
  <2>1. Shape
    BY <1>1 DEF Known, CallInv, Progress
  <2>2. job.todo = << >> /\ Len(<< >>) = Done /\ call.columns \in Seq(CreateColumnCommand)
    BY <1>1, <2>1 DEF Shape
  <2>3. Len(call.columns) = 0
    <3> PICK len : len = Len(call.columns)
      OBVIOUS
    <3>1. len \in Nat /\ Len(<< >>) = 0
      BY <2>2
    <3>2. Done = len - 0
      BY <2>2, <3>1 DEF Done
    <3> QED
      BY <2>2, <3>1, <3>2
  <2> QED
    BY <2>2, <2>3
<1>4. Promised!Becomes(Panic)
  BY <1>2 DEF Promised!Becomes, SchemasNow
<1>5. Promised!FinishCreate
  BY <1>1, <1>2, <1>3, <1>4 DEF Promised!FinishCreate, Promised!During
<1> QED
  BY <1>5 DEF Promised!Next, Maps

LEMMA OthersKeepFiles ==
    ASSUME Known, Doing("create"), job.part # "table",
           NEW f \in {TableFile(job.tbl_id), FsmFile(job.tbl_id)}, Create(f, TRUE) \/ CreateFails(f),
           UNCHANGED <<columns, sequences, indexes>>, made' \in {made, made \cup {job.tbl_id}}
    PROVE  \A t \in tables : t.name # job.name => Stays(t)
<1> SUFFICES ASSUME NEW t \in tables, t.name # job.name PROVE Stays(t)
  OBVIOUS
<1> PICK t_id : t_id = job.tbl_id
  OBVIOUS
<1>1. t.id # t_id
  BY OtherIds
<1>2. HeadersStay(t.id)
  BY <1>1, OtherHeaders DEF Known
<1>3. t.id \in made' <=> t.id \in made
  BY <1>1
<1> QED
  BY <1>2, <1>3, SameRows, SameColumns, StaysWhen DEF Known

LEMMA CreateTableFileMaps ==
    ASSUME Known, Known', CreateTableFile
    PROVE  Maps
<1> PICK f : f = TableFile(job.tbl_id)
  OBVIOUS
<1>1. /\ Todo("table file") /\ Doing("create") /\ job.part = "table file"
      /\ UNCHANGED <<tables, columns, sequences, indexes, made, call>>
      /\ \/ Create(f, TRUE) /\ job' = Then("fsm file") /\ UNCHANGED reply
         \/ CreateFails(f) /\ Ends("error")
  BY DEF CreateTableFile, Todo, catalog
<1>2. CASE Create(f, TRUE) /\ job' = Then("fsm file") /\ UNCHANGED reply
  BY <1>1, <1>2, CreateTableFileSchemas DEF SchemasStay, SchemasNow, Maps
<1>3. CASE CreateFails(f) /\ Ends("error")
  <2>1. \A t \in tables : t.name # job.name => Stays(t)
    <3>1. ~(job.part = "table")
      BY <1>1
    <3> QED
      BY <1>1, <1>3, <3>1, OthersKeepFiles
  <2> QED
    BY <1>1, <1>3, <2>1, CutCreateMaps
<1> QED
  BY <1>1, <1>2, <1>3

\* What can be read of the new table is what was commanded.
AllMade == Doing("create") /\ job.part = "fsm file"

LEMMA MadeAsCommanded ==
    ASSUME Known, AllMade
    PROVE  DefOf(job.tbl_id) = call.columns
<1> PICK t_id, cols, asked : t_id = job.tbl_id /\ cols = job.columns /\ asked = call.columns
  OBVIOUS
<1>1. job \in CreateJobs /\ cols \in Seq(Columns)
  <2>1. job \in CreateJobs
    BY JobOfCall DEF Known, Inv, AllMade
  <2> QED
    BY <2>1 DEF CreateJobs
<1>2. Shape /\ \A i \in DOMAIN cols : ColumnMade(i)
  BY DEF Known, CallInv, Progress, AllMade
<1>3. asked \in Seq(CreateColumnCommand) /\ Len(cols) = Len(asked) /\ Done = Len(asked)
  <2>1. asked \in Seq(CreateColumnCommand) /\ job.todo = << >> /\ Len(cols) = Done
    BY <1>2 DEF Shape, AllMade
  <2>2. Done = Len(asked)
    <3> PICK len, left : len = Len(asked) /\ left = Len(job.todo)
      OBVIOUS
    <3>1. len \in Nat
      <4>1. asked \in Seq(CreateColumnCommand)
        BY <2>1
      <4> QED
        BY <4>1
    <3>2. left = 0
      BY <2>1
    <3>3. Done = len - left
      BY DEF Done
    <3> QED
      BY <3>1, <3>2, <3>3
  <2> QED
    BY <2>1, <2>2
<1>4. cols = ColumnsOf(t_id)
  BY DEF Known, ReadInv, CreateFits, AllMade
<1>5. Len(cols) \in Nat /\ DOMAIN cols = 1..Len(cols) /\ DOMAIN asked = DOMAIN cols
  <2>1. cols \in Seq(Columns) /\ asked \in Seq(CreateColumnCommand) /\ Len(cols) = Len(asked)
    BY <1>1, <1>3
  <2> QED
    BY <2>1
<1>6. ASSUME NEW i \in DOMAIN cols PROVE ColumnDef(t_id, cols[i]) = asked[i]
  <2> PICK column, command : column = cols[i] /\ command = asked[i]
    OBVIOUS
  <2>1. command \in CreateColumnCommand /\ i <= Done
    <3>1. i \in DOMAIN asked /\ i \in 1..Len(cols) /\ Len(cols) \in Nat /\ Done = Len(cols)
      BY <1>3, <1>5
    <3>2. asked \in Seq(CreateColumnCommand)
      BY <1>3
    <3> QED
      BY <3>1, <3>2
  <2>2. /\ column.name = command.name /\ column.col_type = command.col_type
        /\ OneIf(command.has_sequence, SequencesOn(column.id)) /\ OneIf(command.is_unique, IndexesOn(t_id, column.id))
    <3>1. /\ command.has_sequence /\ (i <= Done \/ job.part = "index") <=> command.has_sequence
          /\ command.is_unique /\ i <= Done <=> command.is_unique
      BY <2>1
    <3> QED
      BY <1>2, <3>1 DEF ColumnMade, OneIf
  <2>3. \A wanted \in BOOLEAN : \A rows : OneIf(wanted, rows) => (Cardinality(rows) = 1 <=> wanted)
    BY FS_Singleton, FS_EmptySet DEF OneIf
  <2>4. command = [name |-> command.name, col_type |-> command.col_type,
                   has_sequence |-> command.has_sequence, is_unique |-> command.is_unique]
        /\ command.has_sequence \in BOOLEAN /\ command.is_unique \in BOOLEAN
    BY <2>1 DEF CreateColumnCommand
  <2>5. /\ (Cardinality(SequencesOn(column.id)) = 1) = command.has_sequence
        /\ (Cardinality(IndexesOn(t_id, column.id)) = 1) = command.is_unique
    BY <2>2, <2>3, <2>4
  <2> QED
    BY <2>2, <2>4, <2>5 DEF ColumnDef
<1>7. DefOf(t_id) = [i \in DOMAIN asked |-> asked[i]]
  BY <1>4, <1>5, <1>6 DEF DefOf
<1>8. asked = [i \in DOMAIN asked |-> asked[i]]
  <2>1. asked \in Seq(CreateColumnCommand)
    BY <1>3
  <2> QED
    BY <2>1
<1> QED
  BY <1>7, <1>8

LEMMA CreateFsmFileMaps ==
    ASSUME Known, Known', CreateFsmFile
    PROVE  Maps
<1> PICK t_id, f, own : t_id = job.tbl_id /\ f = FsmFile(job.tbl_id) /\ own = [id |-> job.tbl_id, name |-> job.name]
  OBVIOUS
<1>1. /\ Doing("create") /\ job.part = "fsm file" /\ job' = Idle
      /\ UNCHANGED <<tables, columns, sequences, indexes, call>>
      /\ \/ Create(f, TRUE) /\ reply' = "ok" /\ made' = made \cup {t_id}
         \/ CreateFails(f) /\ Ends("error") /\ UNCHANGED made
  BY DEF CreateFsmFile, Todo, catalog, Ends
<1>2. \A t \in tables : t.name # job.name => Stays(t)
  <2>1. ~(job.part = "table")
    BY <1>1
  <2> QED
    BY <1>1, <2>1, OthersKeepFiles
<1>3. CASE CreateFails(f) /\ Ends("error") /\ UNCHANGED made
  BY <1>1, <1>2, <1>3, CutCreateMaps
<1>4. CASE Create(f, TRUE) /\ reply' = "ok" /\ made' = made \cup {t_id}
  <2> PICK n, asked : n = job.name /\ asked = call.columns
    OBVIOUS
  <2>1. own.id = t_id /\ own.name = n
    OBVIOUS
  <2>2. Usable(own)'
    <3>1. FilesInv
      BY DEF Known, Inv, Types, FilesInv
    <3> PICK g : g = TableFile(t_id)
      OBVIOUS
    <3>2. /\ DOMAIN files' = DOMAIN files \cup {f} /\ \A h \in DOMAIN files : files'[h] = files[h]
          /\ files'[f] = [metadata |-> NewMetadata, pages |-> << >>]
      BY <1>4, <3>1, CreateMakes
    <3>3. files'[f].metadata = NewMetadata /\ NewMetadata # NoMetadata
      BY <3>2, HeapFileAssumption DEF NewMetadata
    <3>4. ReadMetadata(f)' # NoMetadata
      BY <3>2, <3>3 DEF ReadMetadata, Exists
    <3>5. ReadMetadata(g) # NoMetadata
      BY <1>1 DEF Known, CallInv, Progress, Shape
    <3>6. ReadMetadata(g)' # NoMetadata
      BY <3>2, <3>5 DEF ReadMetadata, Exists
    <3> QED
      BY <1>4, <2>1, <3>4, <3>6 DEF Usable
  <2>3. DefOf(t_id)' = asked
    <3>1. DefOf(t_id)' = DefOf(t_id)
      BY <1>1, SameRows, SameColumns, DefStays DEF Known
    <3>2. DefOf(t_id) = asked
      BY <1>1, MadeAsCommanded DEF AllMade
    <3> QED
      BY <3>1, <3>2
  <2>4. SchemaOf(n)' = asked
    <3>1. ~(job.part = "table")
      BY <1>1
    <3> QED
      BY <1>1, <2>1, <2>2, <2>3, <3>1, SchemaOfCall
  <2>5. /\ SchemasNow' = [SchemasNow EXCEPT ![call.name] = call.columns]
        /\ call.op = "create" /\ reply = "running"
    BY <1>1, <1>2, <2>4, EndOfCreate
  <2>6. call.columns # << >> /\ \A i \in DOMAIN call.columns : Valid(call.columns[i])
    <3>1. job.columns # << >> /\ job.columns = ColumnsOf(t_id) /\ \A i \in DOMAIN job.columns : Valid(call.columns[i])
      BY <1>1 DEF Known, ReadInv, CreateFits, CallInv, Progress, ColumnMade
    <3>2. DefOf(t_id) = call.columns
      BY <1>1, MadeAsCommanded DEF AllMade
    <3>3. DOMAIN call.columns = DOMAIN job.columns
      BY <3>1, <3>2 DEF DefOf
    <3>4. job.columns \in Seq(Columns)
      BY <3>1, ColumnsAre DEF Known
    <3>5. job.columns # << >> => 1 \in DOMAIN job.columns
      BY <3>4
    <3>6. 1 \in DOMAIN call.columns
      BY <3>1, <3>3, <3>5
    <3>7. DOMAIN << >> = {}
      OBVIOUS
    <3>8. call.columns # << >>
      BY <3>6, <3>7
    <3> QED
      BY <3>1, <3>3, <3>8
  <2>7. Promised!Becomes(call.columns)
    BY <2>5 DEF Promised!Becomes, SchemasNow
  <2>8. Promised!FinishCreate
    BY <1>1, <1>4, <2>5, <2>6, <2>7 DEF Promised!FinishCreate, Promised!During
  <2> QED
    BY <2>8 DEF Promised!Next, Maps
<1> QED
  BY <1>1, <1>3, <1>4

\* Every step of create_table is a step of Schemas, or none.
LEMMA CreateTableMaps ==
    ASSUME Known, Known', CreateTable
    PROVE  Maps
<1>1. CASE DrawId \/ InsertTableRow \/ InsertColumnRow \/ InsertSequenceRow \/ InsertIndexRow
  <2>1. call' = call /\ reply' = reply
    BY <1>1 DEF DrawId, InsertTableRow, InsertColumnRow, InsertSequenceRow, InsertIndexRow
  <2>2. SchemasStay
    BY <1>1, DrawIdSchemas, InsertTableRowSchemas, InsertColumnRowSchemas, InsertSequenceOrIndexSchemas
  <2> QED
    BY <2>1, <2>2 DEF SchemasStay, SchemasNow, Maps
<1> QED
  BY <1>1, RefuseColumnMaps, PanicWithoutColumnsMaps, CreateTableFileMaps, CreateFsmFileMaps DEF CreateTable

---------------------------------------------------------------------------
(* Other calls. *)

\* A table that is read is a table.
LEMMA ReadTableKnown ==
    ASSUME Known, NEW name \in TableNames, ~Creating(name)
    PROVE  /\ ReadTable(name) # Error
           /\ ReadTable(name) = Missing <=> SchemaOf(name) = Missing
           /\ ReadTable(name) = Panic => SchemaOf(name) = Panic
<1> PICK read : read = ReadTable(name)
  OBVIOUS
<1>1. CASE \A t \in tables : t.name # name
  <2>1. {t \in tables : t.name = name} = {}
    BY <1>1
  <2>2. read = Missing
    BY <2>1 DEF ReadTable
  <2> QED
    BY <1>1, <2>2, NoSchema, AnswersAssumption
<1>2. ASSUME NEW t \in tables, t.name = name
      PROVE  /\ read # Error /\ read # Missing /\ SchemaOf(name) # Missing
             /\ read = Panic => SchemaOf(name) = Panic
  <2> PICK id, cols : id = t.id /\ cols = ColumnsOf(t.id)
    OBVIOUS
  <2>1. read = IF cols = << >> THEN Panic ELSE [id |-> id, name |-> name, columns |-> cols]
    BY <1>2, ReadsTheTable DEF Known
  <2>2. id \in Nat /\ id > 4
    BY <1>2 DEF Known, Inv, Types, TableRows, SystemRows
  <2>3. cols \in Seq([id : Nat, name : DOMAIN NameLength, col_type : ColumnTypes])
    <3> PICK Cs : Cs = [id : Nat, name : DOMAIN NameLength, col_type : ColumnTypes]
      OBVIOUS
    <3>1. cols \in Seq(Columns)
      BY ColumnsAre DEF Known
    <3>2. ASSUME NEW k \in DOMAIN cols PROVE cols[k] \in Cs
      <4>1. cols[k] \in Columns
        BY <3>1
      <4>2. PICK i : Live(i) /\ columns[i].row.t_id = id /\ cols[k].name = columns[i].row.name
        BY ColumnsAre DEF Known
      <4>3. cols[k].name \in DOMAIN NameLength
        BY <2>2, <4>2 DEF Known, CallInv, NamesFit
      <4> QED
        BY <4>1, <4>3 DEF Columns
    <3>3. Len(cols) \in Nat /\ DOMAIN cols = 1..Len(cols)
      BY <3>1
    <3>4. cols = [k \in 1..Len(cols) |-> cols[k]]
      BY <3>1
    <3>5. cols \in Seq(Cs)
      <4> PICK n : n = Len(cols)
        OBVIOUS
      <4>1. n \in Nat /\ cols = [k \in 1..n |-> cols[k]] /\ \A k \in 1..n : cols[k] \in Cs
        BY <3>2, <3>3, <3>4
      <4>2. cols \in [1..n -> Cs]
        BY <4>1
      <4> QED
        BY <4>1, <4>2, SeqDef
    <3> QED
      BY <3>5
  <2> PICK table : table = [id |-> id, name |-> name, columns |-> cols]
    OBVIOUS
  <2>4. table \in [id : Nat, name : TableNames,
                   columns : Seq([id : Nat, name : DOMAIN NameLength, col_type : ColumnTypes])]
    BY <2>2, <2>3
  <2>5. table \notin {Missing, Error, Panic}
    BY <2>4, AnswersAssumption
  <2>6. read # Error /\ read # Missing /\ (read = Panic => cols = << >>)
    BY <2>1, <2>5, AnswersAssumption
  <2>7. SchemaOf(name) # Missing
    BY <1>2, SchemaKnown DEF Known
  <2>8. cols = << >> => ~Usable(t)
    BY UsableHasColumns DEF Known
  <2>9. SchemaOf(name) = IF Usable(t) THEN DefOf(id) ELSE Panic
    BY <1>2, SchemasAre DEF SchemasTold
  <2> QED
    BY <2>6, <2>7, <2>8, <2>9
<1> QED
  BY <1>1, <1>2

LEMMA NotCreating ==
    ASSUME job.op # "create"
    PROVE  \A name : ~Creating(name)
BY DEF Creating, Doing

LEMMA BeginCreateMaps ==
    ASSUME Known, Known', NEW name \in TableNames, NEW asked \in Commands, BeginCreate(name, asked)
    PROVE  Maps
<1>1. /\ job = Idle /\ call' = [op |-> "create", name |-> name, columns |-> asked]
      /\ UNCHANGED <<tables, columns, sequences, indexes, files, made>>
      /\ IF \E t \in tables : t.name = name
         THEN reply' = "exists" /\ UNCHANGED job
         ELSE reply' = "running" /\ job' = CreateJob(name, asked)
  BY DEF BeginCreate, catalog
<1>2. call'.op = "create" /\ call'.name = name
  BY <1>1
<1>3. reply # "running" /\ \A n : ~Creating(n)
  BY <1>1, NotCreating DEF Known, CallInv, CallFits, Idle
<1>4. SchemaOf(name) = Missing <=> ~\E t \in tables : t.name = name
  BY <1>3, SchemaKnown DEF Known
<1>5. job'.op = "idle" \/ (job'.op = "create" /\ job'.name = name)
  BY <1>1 DEF Idle, CreateJob
<1>6. \A n : n # name => SchemaOf(n)' = SchemaOf(n)
  <2> SUFFICES ASSUME NEW n, n # name PROVE SchemaOf(n)' = SchemaOf(n)
    OBVIOUS
  <2>1. Creating(n)' <=> Creating(n)
    BY <1>3, <1>5 DEF Creating, Doing
  <2> QED
    BY <1>1, <2>1, QuietSchema
<1>7. SchemaOf(name)' = SchemaOf(name)
  <2>1. CASE \E t \in tables : t.name = name
    <3>1. Creating(name)' <=> Creating(name)
      BY <1>1, <2>1 DEF Creating, Doing
    <3> QED
      BY <1>1, <3>1, QuietSchema
  <2>2. CASE ~\E t \in tables : t.name = name
    <3>1. SchemaOf(name)' = Missing
      BY <1>1, <2>2, SchemasAreThen DEF SchemasTold
    <3> QED
      BY <1>4, <2>2, <3>1
  <2> QED
    BY <2>1, <2>2
<1>8. SchemasNow' = SchemasNow /\ SchemasNow[name] = SchemaOf(name)
  BY <1>6, <1>7 DEF SchemasNow
<1>9. reply' = IF SchemasNow[name] = Missing THEN "running" ELSE "exists"
  BY <1>1, <1>4, <1>8
<1>10. Promised!Begin
  BY <1>2, <1>3, <1>8, <1>9 DEF Promised!Begin, SchemasNow
<1> QED
  BY <1>10 DEF Promised!Next, Maps

LEMMA BeginDropMaps ==
    ASSUME Known, Known', NEW name \in TableNames, BeginDrop(name)
    PROVE  Maps
<1> PICK table : table = ReadTable(name)
  OBVIOUS
<1>1. /\ job = Idle /\ call' = [op |-> "drop", name |-> name]
      /\ UNCHANGED <<tables, columns, sequences, indexes, files, made>>
      /\ CASE table = Missing -> reply' = "missing" /\ UNCHANGED job
           [] table = Error   -> reply' = "error" /\ UNCHANGED job
           [] table = Panic   -> reply' = "panic" /\ UNCHANGED job
           [] OTHER           -> reply' = "running" /\ job' = [op |-> "drop", table |-> table, rows |-> None]
  BY DEF BeginDrop, catalog
<1>2. call'.op = "drop" /\ call'.name = name
  BY <1>1
<1>3. reply # "running" /\ \A n : ~Creating(n)
  BY <1>1, NotCreating DEF Known, CallInv, CallFits, Idle
<1>4. /\ table # Error /\ (table = Missing <=> SchemaOf(name) = Missing)
      /\ table = Panic => SchemaOf(name) = Panic
  BY <1>3, ReadTableKnown
<1>5. job'.op # "create"
  BY <1>1 DEF Idle
<1>6. \A n : SchemaOf(n)' = SchemaOf(n)
  <2>1. \A n : Creating(n)' <=> Creating(n)
    BY <1>3, <1>5 DEF Creating, Doing
  <2> QED
    BY <1>1, <2>1, QuietSchema
<1>7. SchemasNow' = SchemasNow /\ SchemasNow[name] = SchemaOf(name)
  BY <1>6 DEF SchemasNow
<1>8. IF SchemasNow[name] = Missing THEN reply' = "missing"
      ELSE reply' = "running" \/ (SchemasNow[name] = Panic /\ reply' = "panic")
  <2>1. CASE table = Missing
    <3>1. reply' = "missing"
      BY <1>1, <2>1, AnswersAssumption
    <3> QED
      BY <1>4, <1>7, <2>1, <3>1
  <2>2. CASE table = Panic
    <3>1. reply' = "panic" /\ table # Missing
      BY <1>1, <2>2, AnswersAssumption
    <3> QED
      BY <1>4, <1>7, <2>2, <3>1
  <2>3. CASE table # Missing /\ table # Panic
    <3>1. reply' = "running"
      BY <1>1, <1>4, <2>3
    <3> QED
      BY <1>4, <1>7, <2>3, <3>1
  <2> QED
    BY <2>1, <2>2, <2>3
<1>9. Promised!Begin
  BY <1>2, <1>3, <1>7, <1>8 DEF Promised!Begin, SchemasNow
<1> QED
  BY <1>9 DEF Promised!Next, Maps

\* Calls that are not about a name, and what they begin with.
LEMMA BeginOtherMaps ==
    ASSUME Known, job = Idle, SchemasStay, call'.op \notin {"create", "drop"}
    PROVE  Maps
<1>1. reply # "running"
  BY DEF Known, CallInv, CallFits
<1>2. SchemasNow' = SchemasNow
  BY DEF SchemasStay, SchemasNow
<1>3. Promised!Begin
  BY <1>1, <1>2 DEF Promised!Begin, SchemasNow
<1> QED
  BY <1>3 DEF Promised!Next, Maps

LEMMA OpenMaps ==
    ASSUME Known, Known', NEW name \in TableNames, Open(name)
    PROVE  Maps
<1>1. /\ job = Idle /\ job' = job /\ call' = [op |-> "open", name |-> name]
      /\ UNCHANGED <<tables, columns, sequences, indexes, files, made>>
  BY DEF Open, catalog
<1>2. call'.op = "open"
  BY <1>1
<1>3. \A n : Creating(n)' <=> Creating(n)
  BY <1>1 DEF Creating, Doing
<1>4. SchemasStay
  BY <1>1, <1>3, QuietSchema DEF SchemasStay
<1> QED
  BY <1>1, <1>2, <1>4, BeginOtherMaps

LEMMA DrawValueMaps ==
    ASSUME Known, Known', NEW table, NEW col, DrawValue(table, col)
    PROVE  Maps
<1>1. /\ job = Idle /\ job' = job /\ call' = [op |-> "next_val", table |-> table, column |-> col]
      /\ UNCHANGED <<tables, columns, indexes, files, made>>
      /\ UNCHANGED sequences \/ \E col_id : NextVal(col_id)
  BY DEF DrawValue
<1>2. call'.op = "next_val"
  BY <1>1
<1>3. \A n : Creating(n)' <=> Creating(n)
  BY <1>1 DEF Creating, Doing
<1>4. SchemasStay
  BY <1>1, <1>3, QuietSchema DEF SchemasStay
<1> QED
  BY <1>1, <1>2, <1>4, BeginOtherMaps

\* Files that have a header keep one.
LEMMA HeadersKept ==
    ASSUME Known, Known', UNCHANGED <<tables, columns, sequences, indexes, made>>,
           \A t \in tables : HeadersStay(t.id), job.op # "create", job'.op # "create"
    PROVE  SchemasStay
<1> SUFFICES ASSUME NEW name PROVE SchemaOf(name)' = SchemaOf(name)
  BY DEF SchemasStay
<1>1. \A t \in tables : Stays(t)
  BY SameRows, SameColumns, StaysWhen DEF Known
<1>2. Creating(name)' <=> Creating(name)
  BY DEF Creating, Doing
<1> QED
  BY <1>1, <1>2, SchemaStays

LEMMA BeginInsertMaps ==
    ASSUME Known, Known', NEW table, BeginInsert(table)
    PROVE  Maps
<1> PICK f, page : f = TableFile(table.id) /\ page = ReadMetadata(TableFile(table.id)).next_id
  OBVIOUS
<1>1. /\ job = Idle /\ job' \in {Idle, [op |-> "insert", table |-> table, page |-> page]}
      /\ call' = [op |-> "insert", table |-> table]
      /\ UNCHANGED <<tables, columns, sequences, indexes, made>>
      /\ UNCHANGED files \/ \E complete \in BOOLEAN : AllocatePage(f, complete)
  BY DEF BeginInsert, catalog
<1>2. call'.op = "insert" /\ job.op # "create" /\ job'.op # "create"
  BY <1>1 DEF Idle
<1>3. \A id : HeadersStay(id)
  <2>1. ASSUME NEW complete \in BOOLEAN, AllocatePage(f, complete) PROVE \A id : HeadersStay(id)
    <3>1. FilesInv
      BY DEF Known, Inv, Types, FilesInv
    <3>2. f \in DOMAIN files /\ ReadMetadata(f) # NoMetadata
      BY <2>1 DEF AllocatePage, ReadMetadata, Exists
    <3> PICK m, after : /\ m = Allocated(ReadMetadata(f))
                        /\ after = IF complete THEN WithPage(files[f].pages, NewPage(ReadMetadata(f).next_id))
                                   ELSE files[f].pages
      OBVIOUS
    <3>3. /\ DOMAIN files' = DOMAIN files /\ \A g \in DOMAIN files : g # f => files'[g] = files[g]
          /\ files'[f] = [metadata |-> m, pages |-> after] /\ m \in Metadata
      BY <2>1, <3>1, <3>2, AllocatePageMakes
    <3>4. files'[f].metadata = m /\ m # NoMetadata
      BY <3>3, HeapFileAssumption DEF Metadata
    <3>5. \A g : ReadMetadata(g)' = NoMetadata <=> ReadMetadata(g) = NoMetadata
      BY <3>2, <3>3, <3>4 DEF ReadMetadata, Exists
    <3> QED
      BY <3>5 DEF HeadersStay
  <2> QED
    BY <1>1, <2>1, SameFiles
<1>4. SchemasStay
  BY <1>1, <1>2, <1>3, HeadersKept
<1> QED
  BY <1>1, <1>2, <1>4, BeginOtherMaps

\* The call that is under way ends, or goes on, without changing what is told.
LEMMA UnderWay ==
    ASSUME Known
    PROVE  /\ job # Idle => reply = "running" /\ (Doing("create") \/ Doing("drop") \/ Doing("insert"))
           /\ Doing("drop") => job # Idle /\ call.op = "drop" /\ call.name = job.table.name
           /\ Doing("insert") => job # Idle /\ call.op = "insert"
<1>1. job # Idle => job \in CreateJobs \cup DropJobs \cup InsertJobs
  BY DEF Known, Inv, Types
<1>2. job # Idle => Doing("create") \/ Doing("drop") \/ Doing("insert")
  BY <1>1 DEF Doing, CreateJobs, DropJobs, InsertJobs
<1>3. Doing("drop") \/ Doing("insert") => job # Idle
  BY DEF Doing, Idle
<1> QED
  BY <1>2, <1>3 DEF Known, CallInv, CallFits

LEMMA WriteRowMaps ==
    ASSUME Known, Known', WriteRow
    PROVE  Maps
<1> PICK f, page, h : /\ f = TableFile(job.table.id) /\ page = [page_id |-> job.page, rows |-> {job.table.columns}]
                      /\ h = job.table
  OBVIOUS
<1>1. /\ Doing("insert") /\ job' = Idle /\ WritePage(f, page) /\ call' = call
      /\ UNCHANGED <<tables, columns, sequences, indexes, made>>
  BY DEF WriteRow, Ends, catalog
<1>2. FilesInv /\ job \in InsertJobs
  BY <1>1, JobOfCall DEF Known, Inv, Types, FilesInv
<1>3. page \in HeapPages /\ page.page_id = job.page
  <2>1. job.page \in Nat /\ h.columns \in Seq(Columns)
    BY <1>2 DEF InsertJobs, Tables
  <2> QED
    BY <2>1 DEF HeapPages
<1>4. f \in DOMAIN files /\ files[f].metadata # NoMetadata /\ job.page \in DOMAIN files[f].pages
  BY <1>1 DEF Known, Inv, InsertOK, ReadMetadata, Exists
<1> PICK m, after : m = files[f].metadata /\ after = [files[f].pages EXCEPT ![page.page_id] = page]
  OBVIOUS
<1>5. /\ DOMAIN files' = DOMAIN files /\ \A g \in DOMAIN files : g # f => files'[g] = files[g]
      /\ files'[f] = [metadata |-> m, pages |-> after]
  BY <1>1, <1>2, <1>3, <1>4, WritePageMakes
<1>6. files'[f].metadata = files[f].metadata
  BY <1>5
<1>7. \A id : HeadersStay(id)
  BY <1>5, <1>6 DEF HeadersStay, ReadMetadata, Exists
<1>8. SchemasNow' = SchemasNow
  <2>1. job.op # "create" /\ job'.op # "create"
    BY <1>1 DEF Doing, Idle
  <2> QED
    BY <1>1, <1>7, <2>1, HeadersKept DEF SchemasStay, SchemasNow
<1>9. call.op = "insert" /\ reply = "running"
  BY <1>1, UnderWay
<1>10. Promised!FinishOther
  BY <1>1, <1>8, <1>9 DEF Promised!FinishOther, Promised!During, SchemasNow
<1> QED
  BY <1>10 DEF Promised!Next, Maps

---------------------------------------------------------------------------
(* The steps of drop_table, and calls that are cut short. *)

\* With the row of tables the name is free again.
LEMMA DeleteTableRowMaps ==
    ASSUME Known, Known', DeleteTableRow
    PROVE  Maps
<1> PICK n, id, rows : n = job.table.name /\ id = job.table.id /\ rows = ColumnRowsOf(job.table.id)
  OBVIOUS
<1>1. /\ Doing("drop") /\ tables' = {t \in tables : t.name # n} /\ job' = [job EXCEPT !.rows = rows]
      /\ UNCHANGED <<columns, sequences, indexes, files, made, call, reply>>
  BY DEF DeleteTableRow
<1>2. call.op = "drop" /\ call.name = n /\ reply = "running"
  BY <1>1, UnderWay
<1>3. job \in DropJobs
  BY <1>1, JobOfCall DEF Known, Inv
<1>4. job.op = "drop" /\ job'.op = "drop"
  BY <1>1, <1>3 DEF DropJobs
<1>5. \A name : ~Creating(name) /\ ~Creating(name)'
  BY <1>4 DEF Creating, Doing
<1>6. SchemaOf(n)' = Missing
  <2>1. \A t \in tables' : t.name # n
    BY <1>1
  <2> QED
    BY <2>1, SchemasAreThen DEF SchemasTold
<1>7. ASSUME NEW name, name # n PROVE SchemaOf(name)' = SchemaOf(name)
  <2>1. {t \in tables' : t.name = name} = {t \in tables : t.name = name}
    BY <1>1, <1>7
  <2>2. \A t \in tables : Stays(t)
    BY <1>1, AllStay
  <2> QED
    BY <1>5, <2>1, <2>2, SchemaStays
<1>8. \A name \in TableNames : SchemaOf(name)' = IF name = n THEN Missing ELSE SchemaOf(name)
  BY <1>6, <1>7
<1>9. SchemasNow' = [SchemasNow EXCEPT ![n] = Missing]
  BY <1>8 DEF SchemasNow
<1>10. SchemasNow' = [SchemasNow EXCEPT ![call.name] = Missing]
  BY <1>2, <1>9
<1>11. Promised!Becomes(Missing)
  BY <1>10 DEF Promised!Becomes, SchemasNow
<1>12. Promised!Vanish
  BY <1>1, <1>2, <1>11 DEF Promised!Vanish, Promised!During
<1> QED
  BY <1>12 DEF Promised!Next, Maps

\* The rows of columns that are left are no other table's.
LEMMA DeleteColumnRowMaps ==
    ASSUME Known, Known', DeleteColumnRow
    PROVE  Maps
<1> PICK id, rows : id = job.table.id /\ rows = job.rows
  OBVIOUS
<1>1. /\ Doing("drop") /\ rows \notin {None, {}} /\ (\E left : job' = [job EXCEPT !.rows = left])
      /\ UNCHANGED <<tables, sequences, indexes, files, made, call, reply>>
  BY DEF DeleteColumnRow
<1>2. job \in DropJobs /\ \A t \in tables : t.id # id
  BY <1>1, JobOfCall DEF Known, Inv, ReadInv, DropFits
<1>3. job.op = "drop" /\ job'.op = "drop"
  BY <1>1, <1>2 DEF DropJobs
<1>4. \A name : ~Creating(name) /\ ~Creating(name)'
  BY <1>3 DEF Creating, Doing
<1>5. ASSUME NEW t \in tables PROVE Stays(t)
  <2>1. ColumnsOf(t.id)' = ColumnsOf(t.id)
    BY <1>2, DeleteColumnRowLeaves DEF Known
  <2> QED
    BY <1>1, <2>1, SameRows, SameFiles, StaysWhen DEF Known
<1>6. SchemasStay
  BY <1>1, <1>4, <1>5, SchemaStays DEF SchemasStay
<1> QED
  BY <1>1, <1>6 DEF SchemasStay, SchemasNow, Maps

\* drop_table ends, when the name is free or before.
LEMMA EndOfDrop ==
    ASSUME Known, Doing("drop"), SchemasStay, UNCHANGED call,
           reply' = "error" \/ (reply' = "ok" /\ job.rows = {})
    PROVE  Maps
<1> PICK n : n = job.table.name
  OBVIOUS
<1>1. call.op = "drop" /\ call.name = n /\ reply = "running"
  BY UnderWay
<1>2. SchemasNow' = SchemasNow
  BY DEF SchemasStay, SchemasNow
<1>3. ASSUME job.rows = {} PROVE SchemasNow[n] = Missing
  <2>1. job.rows # None
    BY <1>3, CatalogAssumption
  <2>2. \A t \in tables : t.name # n
    BY <2>1 DEF Known, ReadInv, DropFits
  <2>3. SchemaOf(n) = Missing
    BY <2>2, NoSchema
  <2>4. n \in TableNames
    BY JobOfCall DEF Known, Inv, DropJobs, Tables
  <2> QED
    BY <2>3, <2>4 DEF SchemasNow
<1>4. Promised!FinishDrop
  BY <1>1, <1>2, <1>3 DEF Promised!FinishDrop, Promised!During, SchemasNow
<1> QED
  BY <1>4 DEF Promised!Next, Maps

\* The file that is deleted is no other table's.
LEMMA DeleteTableFileMaps ==
    ASSUME Known, Known', DeleteTableFile
    PROVE  Maps
<1> PICK id, f : id = job.table.id /\ f = TableFile(job.table.id)
  OBVIOUS
<1>1. /\ Doing("drop") /\ job.rows = {} /\ job' = Idle /\ (Delete(f) \/ UNCHANGED files)
      /\ reply' \in {"ok", "error"}
      /\ UNCHANGED <<tables, columns, sequences, indexes, made, call>>
  BY DEF DeleteTableFile, Ends, catalog
<1>2. job.op # "create" /\ job'.op # "create"
  BY <1>1 DEF Doing, Idle
<1>3. \A t \in tables : t.id # id
  <2>1. job.rows # None
    BY <1>1, CatalogAssumption
  <2> QED
    BY <1>1, <2>1 DEF Known, ReadInv, DropFits
<1>4. ASSUME NEW t \in tables PROVE HeadersStay(t.id)
  <2>1. CASE UNCHANGED files
    BY <2>1, SameFiles
  <2>2. CASE Delete(f)
    <3>1. DOMAIN files' = DOMAIN files \ {f} /\ \A g \in DOMAIN files' : files'[g] = files[g]
      BY <2>2, DeleteMakes DEF Known, Inv, Types, FilesInv
    <3>2. f # TableFile(t.id) /\ f # FsmFile(t.id)
      BY <1>3 DEF TableFile, FsmFile
    <3>3. \A g : g # f => ReadMetadata(g)' = ReadMetadata(g)
      BY <3>1 DEF ReadMetadata, Exists
    <3> QED
      BY <3>2, <3>3 DEF HeadersStay
  <2> QED
    BY <1>1, <2>1, <2>2
<1>5. SchemasStay
  BY <1>1, <1>2, <1>4, HeadersKept
<1> QED
  BY <1>1, <1>5, EndOfDrop

LEMMA CutShortMaps ==
    ASSUME Known, Known', CutShort
    PROVE  Maps
<1>1. /\ job # Idle /\ job' = Idle /\ reply' = "error" /\ Ends("error")
      /\ UNCHANGED <<tables, columns, sequences, indexes, files, made, call>>
  BY DEF CutShort, Ends, catalog
<1>2. reply = "running" /\ (Doing("create") \/ Doing("drop") \/ Doing("insert"))
  BY <1>1, UnderWay
<1>3. CASE Doing("create")
  <2>1. \A t \in tables : t.name # job.name => Stays(t)
    BY <1>1, AllStay
  <2> QED
    BY <1>1, <1>3, <2>1, CutCreateMaps
<1>4. ASSUME ~Doing("create") PROVE SchemasStay
  <2>1. job.op # "create" /\ job'.op # "create"
    BY <1>1, <1>4 DEF Doing, Idle
  <2> QED
    BY <1>1, <2>1, SameFiles, HeadersKept
<1>5. CASE Doing("drop")
  <2>1. SchemasStay
    BY <1>4, <1>5 DEF Doing
  <2> QED
    BY <1>1, <1>5, <2>1, EndOfDrop
<1>6. CASE Doing("insert")
  <2>1. call.op = "insert" /\ SchemasStay
    BY <1>4, <1>6, UnderWay DEF Doing
  <2>2. SchemasNow' = SchemasNow
    BY <2>1 DEF SchemasStay, SchemasNow
  <2>3. Promised!FinishOther
    BY <1>1, <1>2, <2>1, <2>2 DEF Promised!FinishOther, Promised!During, SchemasNow
  <2> QED
    BY <2>3 DEF Promised!Next, Maps
<1> QED
  BY <1>2, <1>3, <1>5, <1>6

---------------------------------------------------------------------------
(* The refinement. *)

LEMMA StepMapsSchemas ==
    ASSUME Known, Known', [Next]_vars
    PROVE  Maps
<1>1. CASE UNCHANGED vars
  <2>1. UNCHANGED <<tables, columns, sequences, indexes, files, job, made, call, reply>>
    BY <1>1 DEF vars
  <2>2. \A name : Creating(name)' <=> Creating(name)
    BY <2>1 DEF Creating, Doing
  <2>3. SchemasStay
    BY <2>1, <2>2, QuietSchema DEF SchemasStay
  <2> QED
    BY <2>1, <2>3 DEF SchemasStay, SchemasNow, Maps
<1>2. ASSUME NEW name \in TableNames, NEW commands \in Commands, BeginCreate(name, commands) PROVE Maps
  BY <1>2, BeginCreateMaps
<1>3. ASSUME NEW name \in TableNames, BeginDrop(name) PROVE Maps
  BY <1>3, BeginDropMaps
<1>4. ASSUME NEW name \in TableNames, Open(name) PROVE Maps
  BY <1>4, OpenMaps
<1>5. CASE CreateTable
  BY <1>5, CreateTableMaps
<1>6. CASE DropTable
  BY <1>6, DeleteTableRowMaps, DeleteColumnRowMaps, DeleteTableFileMaps DEF DropTable
<1>7. ASSUME NEW table \in handles, BeginInsert(table) PROVE Maps
  BY <1>7, BeginInsertMaps
<1>8. ASSUME NEW table, NEW column, DrawValue(table, column) PROVE Maps
  BY <1>8, DrawValueMaps
<1>9. CASE WriteRow
  BY <1>9, WriteRowMaps
<1>10. CASE CutShort
  BY <1>10, CutShortMaps
<1> QED
  BY <1>1, <1>2, <1>3, <1>4, <1>5, <1>6, <1>7, <1>8, <1>9, <1>10 DEF Next

LEMMA InitMapsSchemas ==
    ASSUME Init
    PROVE  SchemasNow = [name \in TableNames |-> Missing] /\ call = [op |-> "new"] /\ reply = "ok"
<1>1. \A name \in TableNames : \A t \in tables : t.name # name
  BY CatalogAssumption DEF Init
<1>2. \A name \in TableNames : SchemaOf(name) = Missing
  BY <1>1, NoSchema
<1> QED
  BY <1>2 DEF SchemasNow, Init

\* When no two names of columns differ in length, the catalog implements Schemas:
\* create_table adds a table with the columns commanded or none that can be used,
\* drop_table takes it away, and no call touches a table it does not name.
THEOREM TablesAreAsPromised == SameLengths => (Spec => ImplementsSchemas)
<1>1. Init => Promised!Init
  BY InitMapsSchemas DEF Promised!Init, SchemasNow
<1>2. Known /\ Known' /\ [Next]_vars => [Promised!Next]_<<SchemasNow, call, reply>>
  BY StepMapsSchemas DEF Maps
<1>3. Known /\ Known' /\ [Next]_vars => [Promised!Next]_<<[name \in TableNames |-> SchemaOf(name)], call, reply>>
  BY <1>2 DEF SchemasNow
<1>4. SUFFICES ASSUME SameLengths PROVE Spec => ImplementsSchemas
  OBVIOUS
<1>5. Spec => []Known
  BY <1>4, KnownHolds
<1> QED
  BY <1>1, <1>3, <1>5, PTL DEF Spec, ImplementsSchemas, Promised!Spec

=============================================================================
