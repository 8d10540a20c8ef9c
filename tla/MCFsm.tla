------------------------------- MODULE MCFsm -------------------------------
(* Free space maps for TLC: pages of 4096 bytes. *)
EXTENDS Fsm

\* One row to a page.  The slot of a deleted 3008 byte row has the category a
\* 3004 byte row needs, but not the space for the row and the slot of the rest.
Large == {3004, 3008}

=============================================================================
