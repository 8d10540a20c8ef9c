---------------------------- MODULE UniqueIndex ----------------------------
(***************************************************************************)
(* What a unique index promises: a map from keys to row pointers, each     *)
(* operation one step, whatever the shape of the tree below it.            *)
(***************************************************************************)
EXTENDS TLC

CONSTANTS
    Keys,
    PointerOf,  \* the pointer inserted with a key
    None        \* the reply for a key that is not there

VARIABLES
    index,      \* the map
    call,       \* the last operation and its key
    reply       \* what it returned

ValueAt(key) == IF key \in DOMAIN index THEN index[key] ELSE None

Insert(key) ==
    /\ call' = <<"insert", key>>
    /\ IF key \in DOMAIN index
       THEN reply' = "duplicate" /\ UNCHANGED index
       ELSE reply' = "ok" /\ index' = (key :> PointerOf[key]) @@ index

Delete(key) ==
    /\ call' = <<"delete", key>>
    /\ reply' = ValueAt(key)
    /\ LET before == index
       IN index' = [k \in DOMAIN before \ {key} |-> before[k]]

Find(key) ==
    /\ call' = <<"find", key>>
    /\ reply' = ValueAt(key)
    /\ UNCHANGED index

Next == \E key \in Keys : Insert(key) \/ Delete(key) \/ Find(key)

\* An index can be opened with entries in it.
Init ==
    /\ DOMAIN index \subseteq Keys
    /\ \A key \in DOMAIN index : index[key] = PointerOf[key]
    /\ call = <<"open">>
    /\ reply = "none"

Spec == Init /\ [][Next]_<<index, call, reply>>

=============================================================================
