------------------------------ MODULE MCTable ------------------------------
(* Small tables for TLC. *)
EXTENDS Table

CONSTANTS one, two, three, x, y, letter

MCSchema ==
    <<ColumnOf("id", "Int", 0), ColumnOf("count", "Int", 0), ColumnOf("name", "Varchar", 6),
      ColumnOf("flag", "Byte", 0)>>

Ids    == {IntCell(v) : v \in {one, two, three}}
Counts == {IntCell(v) : v \in {x, y}}

Name(length) == VarcharCell([i \in 1..length |-> letter])
Flag == ByteCell(letter)

\* A page has room for two rows without name or for one with and one without.
\* The lengths differ by less than a directory entry, so that the directory never
\* outgrows its page (see Page).
Named == {<<id, count, name, Flag>> : id \in Ids, count \in Counts, name \in {Name(0), Name(6)}}

\* A name too long, a cell of the wrong type, a cell short.
Invalid ==
    {<<id, count, Name(7), Flag>> : id \in Ids, count \in Counts}
        \cup {<<id, Name(0), Name(0), Flag>> : id \in Ids}
        \cup {<<id, count, Name(0)>> : id \in Ids, count \in Counts}

MCCandidates == Named \cup Invalid

\* find_all, find by count, filter by id
MCQueries ==
    {Named} \cup {RowsWith(1, id) : id \in Ids} \cup {RowsWith(2, count) : count \in Counts}

\* the id, the count, the name, or the id and the name; a name for a count
MCChanges ==
    {Restrict(row, cols) : row \in Named, cols \in {{1}, {2}, {3}, {1, 3}}}
        \cup {(2 :> Name(0))}

Symmetry ==
    Permutations({one, two, three}) \cup Permutations({x, y})

\* The next step does not depend on the last call and its reply.
View == <<heap, index>>

=============================================================================
