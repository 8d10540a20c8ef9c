----------------------------- MODULE MCCatalog -----------------------------
(* A small catalog for TLC. *)
EXTENDS Catalog

CONSTANTS table1, table2, colA, colB

Command(name, col_type, has_sequence, is_unique) ==
    [name |-> name, col_type |-> col_type, has_sequence |-> has_sequence, is_unique |-> is_unique]

\* An indexed column with a sequence, and a Varchar; a column that is refused; none.
MCCommands ==
    {<<Command(colA, IntType, TRUE, TRUE), Command(colB, VarcharType(8), FALSE, FALSE)>>,
     <<Command(colA, ByteType, TRUE, FALSE)>>,
     << >>}

\* The same columns in either order.
BothOrders ==
    {<<Command(colA, IntType, FALSE, FALSE), Command(colB, IntType, FALSE, FALSE)>>,
     <<Command(colB, IntType, FALSE, FALSE), Command(colA, IntType, FALSE, FALSE)>>}

\* The names of columns.
OtherLength == (colA :> 1) @@ (colB :> 3)
SameLength == [name \in {colA, colB} |-> 1]

Symmetry == Permutations({table1, table2})

\* The next step does not depend on them.
View == <<tables, columns, sequences, indexes, files, trees, handles, job, made>>
=============================================================================
