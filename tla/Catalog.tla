------------------------------ MODULE Catalog ------------------------------
(***************************************************************************)
(* Database (src/database/mod.rs) and SeqAccess (src/database/             *)
(* seq_access.rs): the system tables tables, columns, sequences and        *)
(* indexes, and the files of the tables they describe.                     *)
(*                                                                         *)
(* A call is a job of several steps, one for each write.  An I/O error or  *)
(* the end of the process can come between any two; what was written       *)
(* stays.  Reads of system tables are part of the step that needs them.    *)
(*                                                                         *)
(* Of table access it is used that a system table holds the rows that were *)
(* inserted.  The rows of columns are kept in the slots of their page,     *)
(* since read_table depends on their order.                                *)
(***************************************************************************)
EXTENDS HeapFile, HeapPage

CONSTANTS
    TableNames, \* what clients call their tables
    NameLength, \* for each name of a column its length
    Commands,   \* what clients create: sequences of CreateColumnCommand
    None,       \* no id yet, no row
    Missing, Error, Panic,  \* what read_table returns besides a table
    MaxTables, MaxUses  \* bounds of the model

VARIABLES
    tables,     \* the rows of tables
    columns,    \* the slots of columns with their rows
    sequences,  \* the rows of sequences
    indexes,    \* the rows of indexes
    trees,      \* the ids of the indexes with a file
    handles,    \* the Table values clients hold
    job,        \* the call under way
    made,       \* the ids of the tables create_table returned
    call, reply \* the last call and what it returned

catalog == <<tables, columns, sequences, indexes>>
vars == <<tables, columns, sequences, indexes, files, trees, handles, job, made, call, reply>>

TableFile(id) == <<"table", id>>
FsmFile(id)   == <<"fsm", id>>

---------------------------------------------------------------------------
(* The rows of the system tables. *)

RawTypes == <<"Int", "Varchar", "Byte">>

\* A Varchar's length is stored beside the code.
TypeCode(col_type)     == (CHOOSE i \in DOMAIN RawTypes : RawTypes[i] = col_type.raw) - 1
TypeOf(code, length)   == [raw |-> RawTypes[code + 1], length |-> IF code = 1 THEN length ELSE 0]

ColumnRow(id, t_id, name, col_type) ==
    [id |-> id, t_id |-> t_id, name |-> name, type |-> TypeCode(col_type), length |-> col_type.length]

\* Three integers, a byte, and the name behind its length.
Slot(row, nameLength) == [row |-> row, length |-> 15 + nameLength, deleted |-> FALSE]

IntType          == [raw |-> "Int", length |-> 0]
ByteType         == [raw |-> "Byte", length |-> 0]
VarcharType(len) == [raw |-> "Varchar", length |-> len]

\* init_column_table
SystemColumns ==
    << Slot(ColumnRow(10, 1, "id", IntType), 2),       Slot(ColumnRow(20, 1, "name", VarcharType(512)), 4),
       Slot(ColumnRow(30, 2, "id", IntType), 2),       Slot(ColumnRow(40, 2, "t_id", IntType), 4),
       Slot(ColumnRow(50, 2, "name", VarcharType(512)), 4), Slot(ColumnRow(60, 2, "type", ByteType), 4),
       Slot(ColumnRow(70, 2, "length", IntType), 6),   Slot(ColumnRow(80, 3, "id", IntType), 2),
       Slot(ColumnRow(85, 3, "col_id", IntType), 6),   Slot(ColumnRow(90, 3, "current", IntType), 7),
       Slot(ColumnRow(100, 4, "id", IntType), 2),      Slot(ColumnRow(110, 4, "t_id", IntType), 4),
       Slot(ColumnRow(120, 4, "col_ids", VarcharType(512)), 7) >>

SystemTables ==
    {[id |-> 1, name |-> "tables"], [id |-> 2, name |-> "columns"],
     [id |-> 3, name |-> "sequences"], [id |-> 4, name |-> "indexes"]}

SystemSequences ==
    {[id |-> 1, col_id |-> 10, current |-> 4],  [id |-> 2, col_id |-> 30, current |-> 120],
     [id |-> 4, col_id |-> 80, current |-> 4],  [id |-> 3, col_id |-> 100, current |-> 0]}

U16 == 0..65535

\* No call is under way.
Idle == [op |-> "idle"]

ColumnTypes == {IntType, ByteType} \cup {VarcharType(len) : len \in U16}

CreateColumnCommand ==
    [name : DOMAIN NameLength, col_type : ColumnTypes, has_sequence : BOOLEAN, is_unique : BOOLEAN]

\* Clients have names of their own for their tables.
ASSUME CatalogAssumption ==
    /\ \A t \in SystemTables : t.name \notin TableNames
    /\ Commands \subseteq Seq(CreateColumnCommand)
    /\ \A name \in DOMAIN NameLength : NameLength[name] \in Nat
    /\ None \notin Int \cup {{}}
    /\ MaxTables \in Nat /\ MaxUses \in Nat

\* What read_table returns besides tables is no table, and no list of columns.
ASSUME AnswersAssumption ==
    /\ Missing # Error /\ Missing # Panic /\ Error # Panic
    /\ \A answer \in {Missing, Error, Panic} :
          /\ answer \notin Seq(CreateColumnCommand)
          /\ answer \notin [id : Nat, name : TableNames,
                            columns : Seq([id : Nat, name : DOMAIN NameLength, col_type : ColumnTypes])]

Init ==
    /\ tables    = SystemTables
    /\ columns   = SystemColumns
    /\ sequences = SystemSequences
    /\ indexes   = {}
    /\ files     = << >>
    /\ trees     = {}
    /\ handles   = {}
    /\ job       = Idle
    /\ made      = {}
    /\ call      = [op |-> "new"]
    /\ reply     = "ok"

---------------------------------------------------------------------------
(* Reading. *)

ColumnRowsOf(t_id) == {i \in DOMAIN columns : ~columns[i].deleted /\ columns[i].row.t_id = t_id}

ColumnFrom(row) ==
    [id |-> row.id, name |-> row.name, col_type |-> TypeOf(row.type, row.length)]

\* The columns of a table, in the order of the slots of their rows.
ColumnsOf(t_id) ==
    LET upTo[i \in 0..Len(columns)] ==
            IF i = 0 THEN << >>
            ELSE IF ~columns[i].deleted /\ columns[i].row.t_id = t_id
            THEN Append(upTo[i - 1], ColumnFrom(columns[i].row))
            ELSE upTo[i - 1]
    IN upTo[Len(columns)]

\* read_table; a schema without columns panics.
ReadTable(name) ==
    LET found == {t \in tables : t.name = name}
        id    == (CHOOSE t \in found : TRUE).id
        read  == ColumnsOf(id)
    IN IF found = {} THEN Missing
       ELSE IF Cardinality(found) > 1 THEN Error
       ELSE IF read = << >> THEN Panic
       ELSE [id |-> id, name |-> name, columns |-> read]

SequencesOn(col_id) == {s \in sequences : s.col_id = col_id}

\* Wrong: the new value is returned but not saved.
NextValUnsaved(col_id) ==
    /\ Cardinality(SequencesOn(col_id)) = 1
    /\ sequences' = sequences

\* next_val saves the value, then returns it; without its one row it is an error.
NextVal(col_id) ==
    /\ Cardinality(SequencesOn(col_id)) = 1
    /\ sequences' = {IF s.col_id = col_id THEN [s EXCEPT !.current = @ + 1] ELSE s : s \in sequences}

DrawnVal(col_id) == (CHOOSE s \in SequencesOn(col_id) : TRUE).current + 1

---------------------------------------------------------------------------
(* create_table *)

Valid(command) == command.is_unique \/ command.has_sequence => command.col_type = IntType

\* The column whose sequence the id of a row comes from.
IdColumn ==
    [part \in {"table", "column", "sequence", "index"} |->
        CASE part = "table"    -> 10
          [] part = "column"   -> 30
          [] part = "sequence" -> 80
          [] part = "index"    -> 100]

\* A call under way: the commands still to be carried out, the part of the first
\* of them (or of the table) that is next, and what was made so far.
CreateJob(name, commands) ==
    [op |-> "create", name |-> name, todo |-> commands, part |-> "table",
     id |-> None, tbl_id |-> None, columns |-> << >>]

\* Wrong: it is not looked whether there is a table of this name.
BeginCreateUnchecked(name, commands) ==
    /\ job = Idle
    /\ call' = [op |-> "create", name |-> name, columns |-> commands]
    /\ reply' = "running"
    /\ job' = CreateJob(name, commands)
    /\ UNCHANGED <<catalog, files, trees, handles, made>>

BeginCreate(name, commands) ==
    /\ job = Idle
    /\ call' = [op |-> "create", name |-> name, columns |-> commands]
    /\ IF \E t \in tables : t.name = name
       THEN reply' = "exists" /\ UNCHANGED job
       ELSE /\ reply' = "running"
            /\ job' = CreateJob(name, commands)
    /\ UNCHANGED <<catalog, files, trees, handles, made>>

Doing(op) == job.op = op

Todo(part) == Doing("create") /\ job.part = part

Current == Head(job.todo)

Ends(answer) == job' = Idle /\ reply' = answer

\* A column is looked at before its id is drawn.
RefuseColumn ==
    /\ Todo("column") /\ job.id = None
    /\ ~Valid(Current)
    /\ Ends("invalid")
    /\ UNCHANGED <<catalog, files, trees, handles, made, call>>

DrawId ==
    /\ Doing("create") /\ job.id = None
    /\ job.part \in DOMAIN IdColumn
    /\ Todo("column") => Valid(Current)
    /\ LET col_id == IdColumn[job.part] IN
          /\ NextVal(col_id)
          /\ job' = [job EXCEPT !.id = DrawnVal(col_id)]
    /\ UNCHANGED <<tables, columns, indexes, files, trees, handles, made, call, reply>>

\* What comes next: another part, or the next column.
Then(part) == [job EXCEPT !.part = part, !.id = None]

StartColumn(todo) ==
    [job EXCEPT !.todo = todo, !.part = IF todo = << >> THEN "table file" ELSE "column", !.id = None]

NextColumn == StartColumn(Tail(job.todo))

InsertTableRow ==
    /\ Todo("table") /\ job.id # None
    /\ tables' = tables \cup {[id |-> job.id, name |-> job.name]}
    /\ job' = [StartColumn(job.todo) EXCEPT !.tbl_id = job.id]
    /\ UNCHANGED <<columns, sequences, indexes, files, trees, handles, made, call, reply>>

\* The row goes where the page has room for it; the model has one page.
InsertColumnRow ==
    /\ Todo("column") /\ job.id # None
    /\ LET slot == Slot(ColumnRow(job.id, job.tbl_id, Current.name, Current.col_type),
                        NameLength[Current.name])
           next == IF Current.has_sequence THEN Then("sequence")
                   ELSE IF Current.is_unique THEN Then("index") ELSE NextColumn
       IN /\ CanInsert(columns, slot.length)
          /\ columns' = WithRecord(columns, slot)
          /\ job' = [next EXCEPT !.columns = Append(@,
                        [id |-> job.id, name |-> Current.name, col_type |-> Current.col_type])]
    /\ UNCHANGED <<tables, sequences, indexes, files, trees, handles, made, call, reply>>

\* Wrong: the sequence is for its own id.
InsertSequenceRowOnItself ==
    /\ Todo("sequence") /\ job.id # None
    /\ sequences' = sequences \cup {[id |-> job.id, col_id |-> job.id, current |-> 0]}
    /\ job' = IF Current.is_unique THEN Then("index") ELSE NextColumn
    /\ UNCHANGED <<tables, columns, indexes, files, trees, handles, made, call, reply>>

InsertSequenceRow ==
    /\ Todo("sequence") /\ job.id # None
    /\ sequences' = sequences \cup {[id |-> job.id, col_id |-> Last(job.columns).id, current |-> 0]}
    /\ job' = IF Current.is_unique THEN Then("index") ELSE NextColumn
    /\ UNCHANGED <<tables, columns, indexes, files, trees, handles, made, call, reply>>

InsertIndexRow ==
    /\ Todo("index") /\ job.id # None
    /\ indexes' = indexes \cup
          {[id |-> job.id, t_id |-> job.tbl_id, col_ids |-> Last(job.columns).id]}
    /\ job' = NextColumn
    /\ UNCHANGED <<tables, columns, sequences, files, trees, handles, made, call, reply>>

\* create of the store, when it fails: before or after the file is there.
CreateFails(f) == IF Exists(f) THEN UNCHANGED files ELSE Create(f, FALSE)

\* A schema without columns panics.
PanicWithoutColumns ==
    /\ Todo("table file") /\ job.columns = << >>
    /\ Ends("panic")
    /\ UNCHANGED <<catalog, files, trees, handles, made, call>>

CreateTableFile ==
    /\ Todo("table file") /\ job.columns # << >>
    /\ \/ Create(TableFile(job.tbl_id), TRUE) /\ job' = Then("fsm file") /\ UNCHANGED reply
       \/ CreateFails(TableFile(job.tbl_id)) /\ Ends("error")
    /\ UNCHANGED <<catalog, trees, handles, made, call>>

\* The last step: the table is returned.
CreateFsmFile ==
    /\ Todo("fsm file")
    /\ \/ /\ Create(FsmFile(job.tbl_id), TRUE)
          /\ Ends("ok")
          /\ handles' = handles \cup {[id |-> job.tbl_id, name |-> job.name, columns |-> job.columns]}
          /\ made' = made \cup {job.tbl_id}
       \/ /\ CreateFails(FsmFile(job.tbl_id))
          /\ Ends("error")
          /\ UNCHANGED <<handles, made>>
    /\ UNCHANGED <<catalog, trees, call>>

---------------------------------------------------------------------------
(* drop_table: the row of tables, the rows of columns, the file with the     *)
(* rows.  Sequences, indexes, their files and the map's file stay.           *)

BeginDrop(name) ==
    /\ job = Idle
    /\ call' = [op |-> "drop", name |-> name]
    /\ LET table == ReadTable(name) IN
          CASE table = Missing -> reply' = "missing" /\ UNCHANGED job
            [] table = Error   -> reply' = "error" /\ UNCHANGED job
            [] table = Panic   -> reply' = "panic" /\ UNCHANGED job
            [] OTHER           -> /\ reply' = "running"
                                  /\ job' = [op |-> "drop", table |-> table, rows |-> None]
    /\ UNCHANGED <<catalog, files, trees, handles, made>>

DeleteTableRow ==
    /\ Doing("drop") /\ job.rows = None
    /\ tables' = {t \in tables : t.name # job.table.name}
    /\ job' = [job EXCEPT !.rows = ColumnRowsOf(job.table.id)]
    /\ UNCHANGED <<columns, sequences, indexes, files, trees, handles, made, call, reply>>

\* The records found are deleted one by one.
DeleteColumnRow ==
    /\ Doing("drop") /\ job.rows \notin {None, {}}
    /\ columns' = [WithoutRecord(columns, Min(job.rows)) EXCEPT ![Min(job.rows)].row = None]
    /\ job' = [job EXCEPT !.rows = @ \ {Min(@)}]
    /\ UNCHANGED <<tables, sequences, indexes, files, trees, handles, made, call, reply>>

DeleteTableFile ==
    /\ Doing("drop") /\ job.rows = {}
    /\ \/ Delete(TableFile(job.table.id)) /\ Ends("ok")
       \/ ~Exists(TableFile(job.table.id)) /\ Ends("error") /\ UNCHANGED files
    /\ UNCHANGED <<catalog, trees, handles, made, call>>

---------------------------------------------------------------------------
(* What clients do with a table: table_access opens its indexes and creates *)
(* their files where they are missing; a row is inserted into a new page;   *)
(* a value is drawn from a sequence.                                        *)

Open(name) ==
    /\ job = Idle
    /\ call' = [op |-> "open", name |-> name]
    /\ LET table == ReadTable(name) IN
          CASE table \in {Missing, Error} -> reply' = "missing" /\ UNCHANGED handles
            [] table = Panic -> reply' = "panic" /\ UNCHANGED handles
            [] OTHER         -> reply' = "ok" /\ handles' = handles \cup {table}
    /\ UNCHANGED <<catalog, files, trees, job, made>>

IndexesOf(table) == {x.id : x \in {x \in indexes : x.t_id = table.id}}

\* Bound of the model: the pages allocated and values drawn.
Uses ==
    MapThenSumSet(LAMBDA f : files[f].metadata.number_of_pages,
                  {f \in DOMAIN files : ReadMetadata(f) # NoMetadata})
    + MapThenSumSet(LAMBDA s : s.current, {s \in sequences : s.id > 4})

BeginInsert(table) ==
    /\ job = Idle
    /\ call' = [op |-> "insert", table |-> table]
    /\ trees' = trees \cup IndexesOf(table)
    /\ LET file == TableFile(table.id) IN
       IF NoMetadata \in {ReadMetadata(FsmFile(table.id)), ReadMetadata(file)}
       THEN reply' = "error" /\ UNCHANGED <<files, job>>
       ELSE /\ Uses < MaxUses
            /\ \/ /\ AllocatePage(file, TRUE)
                  /\ reply' = "running"
                  /\ job' = [op |-> "insert", table |-> table, page |-> ReadMetadata(file).next_id]
               \/ /\ AllocatePage(file, FALSE)
                  /\ reply' = "error" /\ UNCHANGED job
    /\ UNCHANGED <<catalog, handles, made>>

\* A row is written as the columns of the Table say.
WriteRow ==
    /\ Doing("insert")
    /\ WritePage(TableFile(job.table.id), [page_id |-> job.page, rows |-> {job.table.columns}])
    /\ Ends("ok")
    /\ UNCHANGED <<catalog, trees, handles, made, call>>

DrawValue(table, col) ==
    /\ job = Idle
    /\ call' = [op |-> "next_val", table |-> table, column |-> col]
    /\ IF col.col_type = IntType /\ Cardinality(SequencesOn(col.id)) = 1
       THEN Uses < MaxUses /\ NextVal(col.id) /\ reply' = "ok"
       ELSE reply' = "error" /\ UNCHANGED sequences
    /\ UNCHANGED <<tables, columns, indexes, files, trees, handles, job, made>>

---------------------------------------------------------------------------
\* An I/O error ends the call, or the process ends.  That clients lose their
\* Table values with the process, as in a panic, only takes behaviours away.
CutShort ==
    /\ job # Idle
    /\ Ends("error")
    /\ UNCHANGED <<catalog, files, trees, handles, made, call>>

CreateTable ==
    \/ RefuseColumn \/ DrawId
    \/ InsertTableRow \/ InsertColumnRow \/ InsertSequenceRow \/ InsertIndexRow
    \/ PanicWithoutColumns \/ CreateTableFile \/ CreateFsmFile

DropTable == DeleteTableRow \/ DeleteColumnRow \/ DeleteTableFile

Next ==
    \/ \E name \in TableNames :
          \/ /\ DrawnVal(10) <= 4 + MaxTables
             /\ \E commands \in Commands : BeginCreate(name, commands)
          \/ BeginDrop(name)
          \/ Open(name)
    \/ CreateTable \/ DropTable
    \/ \E table \in handles :
          \/ BeginInsert(table)
          \/ \E i \in DOMAIN table.columns : DrawValue(table, table.columns[i])
    \/ WriteRow
    \/ CutShort

Spec == Init /\ [][Next]_vars

\* Nothing fails.
SpecUndisturbed == Init /\ [][Next /\ reply' # "error"]_vars

---------------------------------------------------------------------------
(* Properties. *)

\* One row each for the system's sequences and tables; a name is a table's only once.
TypeOK ==
    /\ FilesOK
    /\ SystemTables \subseteq tables
    /\ \A t, other \in tables : t.id = other.id \/ t.name = other.name => t = other
    /\ \A i \in DOMAIN columns :
          IF columns[i].deleted THEN columns[i].row = None
          ELSE columns[i].row.id \in Nat /\ columns[i].row.t_id \in Nat
    /\ \A part \in DOMAIN IdColumn : Cardinality(SequencesOn(IdColumn[part])) = 1
    /\ Doing("create") => (job.part \in {"column", "sequence", "index"} => job.todo # << >>)

\* An id that was drawn for a row is met by nothing that is left of an earlier
\* table: drop_table and calls that were cut short leave rows and files behind,
\* and clients hold on to Table values (next_val; create_table 670, 695, 720, 733).
NewIdsMeetNothing ==
    Doing("create") /\ job.id # None =>
        LET id == job.id IN
        CASE Todo("table") ->
                /\ \A t \in tables \cup handles : t.id # id
                /\ \A i \in DOMAIN columns : ~columns[i].deleted => columns[i].row.t_id # id
                /\ \A x \in indexes : x.t_id # id
                /\ ~Exists(TableFile(id)) /\ ~Exists(FsmFile(id))
          [] Todo("column") ->
                /\ \A i \in DOMAIN columns : ~columns[i].deleted => columns[i].row.id # id
                /\ \A s \in sequences : s.col_id # id
                /\ \A x \in indexes : x.col_ids # id
                /\ \A t \in handles : \A i \in DOMAIN t.columns : t.columns[i].id # id
          [] Todo("sequence") -> \A s \in sequences : s.id # id
          [] Todo("index")    -> id \notin trees /\ \A x \in indexes : x.id # id

\* The rows in a table's file were written through Table values with the columns
\* it has when it is read from the catalog: otherwise they would be taken apart
\* wrongly (Row::deserialize goes by the columns in their order).
RowsFitTheirTable ==
    \A t \in tables \ SystemTables :
        LET table == ReadTable(t.name) IN
        table # Panic /\ Exists(TableFile(t.id)) =>
            \A i \in DOMAIN files[TableFile(t.id)].pages :
                files[TableFile(t.id)].pages[i].rows \subseteq {table.columns}

\* A table that was created is read from the catalog as create_table returned it.
TablesReadAsCreated ==
    \A table \in handles :
        [id |-> table.id, name |-> table.name] \in tables /\ ~Doing("drop") =>
            ReadTable(table.name) = table

\* The files are files of numbered pages, whatever is cut short.
Pages == INSTANCE PageMap WITH
    pages <- [f \in DOMAIN files |-> PagesAt(files[f].pages)],
    scans <- [f \in {f \in DOMAIN files : Readable(f)} |-> PagesAt(SeqPages(f))],
    Empty <- {}

ImplementsPageMap == Pages!Spec

\* What clients know of a table, put together from all that create_table wrote.
Definition(name) ==
    LET table == ReadTable(name) IN
    [i \in DOMAIN table.columns |->
        LET c == table.columns[i] IN
        [name         |-> c.name,
         col_type     |-> c.col_type,
         has_sequence |-> Cardinality(SequencesOn(c.id)) = 1,
         is_unique    |-> Cardinality({x \in indexes : x.col_ids = c.id /\ x.t_id = table.id}) = 1]]

Usable(t) ==
    /\ t.id \in made
    /\ ReadMetadata(TableFile(t.id)) # NoMetadata /\ ReadMetadata(FsmFile(t.id)) # NoMetadata

SchemaOf(name) ==
    LET found == {t \in tables : t.name = name} IN
    IF found = {} \/ (Doing("create") /\ job.name = name) THEN Missing
    ELSE IF \E t \in found : Usable(t) THEN Definition(name)
    ELSE Panic

\* The catalog promises tables by name: what create_table wrote in many steps is
\* there at once, as it was commanded, and no call disturbs another table.
Promised == INSTANCE Schemas WITH
    schemas  <- [name \in TableNames |-> SchemaOf(name)],
    NoTable  <- Missing,
    Unusable <- Panic

ImplementsSchemas == Promised!Spec

=============================================================================
