----------------------------- MODULE Relations -----------------------------
(***************************************************************************)
(* What a table promises its clients: a set of rows in which no two share  *)
(* a value of an indexed column, and operations that are done in full or   *)
(* refused.                                                                *)
(***************************************************************************)
CONSTANTS
    Candidates, \* what clients try to insert
    Refused,    \* of which these are no rows of the table
    Indexed, Queries,
    Changes,
    Mismatched  \* changes that are not of the columns' types

VARIABLES
    rows,
    call,   \* the last operation
    reply

Init == rows = {} /\ call = [op |-> "create"] /\ reply = "ok"

Clashes(row) == \E other \in rows : \E col \in Indexed : row[col] = other[col]

\* There need not be room for a row.
Insert(row) ==
    /\ call' = [op |-> "insert", row |-> row]
    /\ IF row \in Refused THEN reply' = "invalid" /\ UNCHANGED rows
       ELSE \/ reply' = "critical" /\ UNCHANGED rows
            \/ IF Clashes(row) THEN reply' = "duplicate" /\ UNCHANGED rows
                               ELSE reply' = "ok" /\ rows' = rows \cup {row}

Delete(query) ==
    /\ call' = [op |-> "delete", query |-> query]
    /\ rows' = rows \ query
    /\ reply' = "ok"

Updated(row, change) ==
    [col \in DOMAIN row |-> IF col \in DOMAIN change THEN change[col] ELSE row[col]]

Update(query, change) ==
    /\ call' = [op |-> "update", query |-> query, change |-> change]
    /\ IF change \in Mismatched THEN reply' = "invalid" /\ UNCHANGED rows
       ELSE /\ reply' = "ok"
            /\ rows' = (rows \ query) \cup {Updated(row, change) : row \in rows \cap query}

Next ==
    \/ \E row \in Candidates : Insert(row)
    \/ \E query \in Queries : Delete(query) \/ \E change \in Changes : Update(query, change)

vars == <<rows, call, reply>>

Spec == Init /\ [][Next]_vars

=============================================================================
