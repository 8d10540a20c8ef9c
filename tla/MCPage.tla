------------------------------ MODULE MCPage ------------------------------
(* Model values and bounds for Page.tla. *)
EXTENDS Page, TLC

CONSTANTS a, b

MCValues == {a, b}
Symmetry == Permutations(MCValues)

\* Lengths that differ by less than a directory entry.
MCNarrowLengths == {4, 9}

\* Lengths that differ by more than a directory entry.
MCWideLengths == {1, 18}

=============================================================================
