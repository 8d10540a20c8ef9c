----------------------------- MODULE SlotStore -----------------------------
(***************************************************************************)
(* What a heap page promises its callers: rows kept under slot numbers     *)
(* that stay valid until the row is removed, a working copy in memory and  *)
(* the copy saved last.                                                    *)
(***************************************************************************)
EXTENDS Integers, Sequences

CONSTANTS Positions, Rows

VARIABLES working, saved

vars == <<working, saved>>

Without(store, i) == [j \in DOMAIN store \ {i} |-> store[j]]
With(store, i, r) == [j \in DOMAIN store \cup {i} |->
                         IF j = i THEN r ELSE store[j]]

Init == working = << >> /\ saved = << >>

\* A new row takes a slot number no other row has.
Insert(i, r) ==
    /\ i \notin DOMAIN working
    /\ working' = With(working, i, r)
    /\ UNCHANGED saved

\* A row is replaced by one of the same length.
Replace(i, r) ==
    /\ i \in DOMAIN working
    /\ Len(r) = Len(working[i])
    /\ working' = With(working, i, r)
    /\ UNCHANGED saved

Remove(i) ==
    /\ i \in DOMAIN working
    /\ working' = Without(working, i)
    /\ UNCHANGED saved

Commit == saved' = working /\ UNCHANGED working
Revert == working' = saved /\ UNCHANGED saved

Next ==
    \/ \E i \in Positions, r \in Rows : Insert(i, r) \/ Replace(i, r)
    \/ \E i \in Positions : Remove(i)
    \/ Commit
    \/ Revert

Spec == Init /\ [][Next]_vars

=============================================================================
