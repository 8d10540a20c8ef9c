-------------------------- MODULE MCBinarySearch --------------------------
(* Bounds for BinarySearch.tla. *)
EXTENDS BinarySearch, FiniteSets

MCKeys == 1..9

\* The elements of a set in ascending order.
Ascending(S) ==
    [length |-> Cardinality(S),
     keys   |-> [p \in 0..(Cardinality(S) - 1) |->
                    CHOOSE k \in S : Cardinality({j \in S : j < k}) = p]]

\* Every sorted array of these keys; with a stretch of 2 the longest of them
\* are bisected twice.
MCArrays == {Ascending(S) : S \in SUBSET MCKeys}

=============================================================================
