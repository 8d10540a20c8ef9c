-------------------------------- MODULE Rows --------------------------------
(***************************************************************************)
(* Rows, their schemas and results of queries: src/schema/table.rs and     *)
(* QueryResult of src/database/table_access.rs.                            *)
(*                                                                         *)
(* A row is a sequence of cells, a schema one of columns.  The text of a   *)
(* Varchar is a sequence of bytes.  Of the four bytes of an Int it is kept *)
(* whose bytes they are and which.                                         *)
(***************************************************************************)
EXTENDS Integers, SequencesExt

\* What is returned: a value, or an error.
Ok(value) == [ok |-> TRUE, value |-> value]
Err       == [ok |-> FALSE]

IntCell(v)        == [raw |-> "Int", value |-> v]
VarcharCell(text) == [raw |-> "Varchar", value |-> text]
ByteCell(v)      == [raw |-> "Byte", value |-> v]

IsASequence(s) == s \in Seq(Range(s))

IsACell(cell) ==
    \/ cell \in {IntCell(cell.value), ByteCell(cell.value)}
    \/ cell = VarcharCell(cell.value) /\ IsASequence(cell.value)

\* A Varchar's largest length.
ColumnOf(name, raw, length) == [name |-> name, col_type |-> [raw |-> raw, length |-> length]]

IsOfType(cell, col_type) == cell.raw = col_type.raw

---------------------------------------------------------------------------
(* Row::validate *)

IsTooLong(cell, col_type) == cell.raw = "Varchar" /\ Len(cell.value) > col_type.length

\* Wrong: the length of a Varchar is not looked at.
ValidateTypes(row, schema) ==
    IF Len(row) # Len(schema) THEN "LengthMismatch"
    ELSE IF \E i \in DOMAIN row : ~IsOfType(row[i], schema[i].col_type) THEN "TypeMismatch"
    ELSE "ok"

\* The first cell that is wrong.
Validate(row, schema) ==
    LET wrong   == {i \in DOMAIN schema : ~IsOfType(row[i], schema[i].col_type)}
        tooLong == {i \in DOMAIN schema \ wrong : IsTooLong(row[i], schema[i].col_type)}
    IN IF Len(row) # Len(schema) THEN "LengthMismatch"
       ELSE IF wrong \cup tooLong = {} THEN "ok"
       ELSE IF Min(wrong \cup tooLong) \in wrong THEN "TypeMismatch" ELSE "VarcharTooLong"

---------------------------------------------------------------------------
(* The bytes of a row. *)

\* The values of a byte: a Varchar's length is written as two.
Base == 256

IntBytes(v) == [i \in 1..4 |-> <<v, i>>]

SerializeCell(cell) ==
    CASE cell.raw = "Int"     -> IntBytes(cell.value)
      [] cell.raw = "Varchar" ->
            <<(Len(cell.value) \div Base) % Base, Len(cell.value) % Base>> \o cell.value
      [] cell.raw = "Byte"    -> <<cell.value>>

Serialize(row) ==
    LET bytes[n \in 0..Len(row)] ==
            IF n = 0 THEN << >> ELSE bytes[n - 1] \o SerializeCell(row[n])
    IN bytes[Len(row)]

\* The cell a column's bytes start with, and how many they are.
DeserializeCell(bytes, col_type) ==
    LET str_len == bytes[1] * Base + bytes[2]
        taken(n) == SubSeq(bytes, 1, n)
        read(cell, n) == Ok([cell |-> cell, size |-> n])
    IN CASE col_type.raw = "Int" ->
              IF Len(bytes) < 4 THEN Err
              ELSE read(IntCell(IF taken(4) = IntBytes(bytes[1][1]) THEN bytes[1][1] ELSE taken(4)), 4)
         [] col_type.raw = "Varchar" ->
              IF Len(bytes) < 2 THEN Err
              ELSE IF Len(bytes) < 2 + str_len \/ str_len > col_type.length THEN Err
              ELSE read(VarcharCell(SubSeq(bytes, 3, 2 + str_len)), 2 + str_len)
         [] col_type.raw = "Byte" ->
              IF bytes = << >> THEN Err ELSE read(ByteCell(bytes[1]), 1)

\* Column by column; bytes behind the last column are ignored.
Deserialize(bytes, schema) ==
    LET read[n \in 0..Len(schema)] ==
            IF n = 0 THEN Ok([row |-> << >>, rest |-> bytes])
            ELSE IF ~read[n - 1].ok THEN Err
            ELSE LET st   == read[n - 1].value
                     next == DeserializeCell(st.rest, schema[n].col_type)
                 IN IF ~next.ok THEN Err
                    ELSE Ok([row  |-> Append(st.row, next.value.cell),
                             rest |-> SubSeq(st.rest, next.value.size + 1, Len(st.rest))])
    IN IF read[Len(schema)].ok THEN Ok(read[Len(schema)].value.row) ELSE Err

---------------------------------------------------------------------------
(* Results: a schema and rows in the order of pages and slots. *)

\* The first column of the name; 0: there is none.
FindColumn(schema, name) ==
    LET named == {i \in DOMAIN schema : schema[i].name = name}
    IN IF named = {} THEN 0 ELSE Min(named)

\* The elements of s that are in S, in their order.
Only(s, S) ==
    LET only[n \in 0..Len(s)] ==
            IF n = 0 THEN << >>
            ELSE IF s[n] \in S THEN Append(only[n - 1], s[n]) ELSE only[n - 1]
    IN only[Len(s)]

\* A query is the set of the rows that it accepts.
Filter(result, query) == [result EXCEPT !.rows = Only(@, query)]

\* The rows with this cell.
Sharing(rows, j, key) == {row \in ToSet(rows) : row[j] = key}

\* Wrong: of the rows with the same cell the last is kept.
HashedLast(rows, j) ==
    [key \in {row[j] : row \in ToSet(rows)} |->
        <<Last(Only(rows, Sharing(rows, j, key)))>>]

Hashed(rows, j) ==
    [key \in {row[j] : row \in ToSet(rows)} |-> Only(rows, Sharing(rows, j, key))]

\* The inner rows are put under their cells, then the outer rows meet theirs.
HashJoin(outer, inner, this, that) ==
    LET i == FindColumn(outer.schema, this)
        j == FindColumn(inner.schema, that)
        hashes == Hashed(inner.rows, j)
        Joined(row) == IF row[i] \notin DOMAIN hashes THEN << >>
                       ELSE [k \in DOMAIN hashes[row[i]] |-> row \o hashes[row[i]][k]]
    IN IF 0 \in {i, j} THEN Err
       ELSE IF outer.schema[i].col_type.raw # inner.schema[j].col_type.raw THEN Err
       ELSE Ok([schema |-> outer.schema \o inner.schema,
                rows   |-> FlattenSeq([k \in DOMAIN outer.rows |-> Joined(outer.rows[k])])])

=============================================================================
