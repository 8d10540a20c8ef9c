------------------------------ MODULE MCBTree ------------------------------
(* Small trees for TLC. *)
EXTENDS BTree

CONSTANTS even, odd

\* Neighbouring keys have different pointers.
MCPointerOf == [key \in 1..20 |-> IF key % 2 = 0 THEN even ELSE odd]

Empty == {<< >>}
More  == 1..6

\* Degree 6: nineteen keys give three levels, and so do twenty.  With these keys
\* inner nodes are lent to from both sides, and merged.
NineteenOrTwenty == {[i \in 1..19 |-> i], [i \in 1..20 |-> i]}
Spread           == {6, 7, 8, 12, 13}

\* A separator that is inserted again where its child is the last one and is split.
Twenty == {[i \in 1..20 |-> i]}
Upper  == 11..15

\* What the operations depend on.  States that differ only in the last call and
\* its reply are explored once; every step is checked with its own.
View == store

=============================================================================
