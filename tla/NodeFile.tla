------------------------------ MODULE NodeFile ------------------------------
(***************************************************************************)
(* A node as it lies in the index file (src/tree/store.rs): arrays of      *)
(* fixed length for keys, children and values, then the link to the next   *)
(* leaf.  Nothing says how many entries of an array are in use; what is    *)
(* not in use holds i32::MIN, which is NoPage here.                        *)
(*                                                                         *)
(* Positions are counted in words of four bytes from the first key.  A     *)
(* value is a page and a slot, two words.                                  *)
(***************************************************************************)
EXTENDS TreeNode

\* Wrong: as if a node had one key less than it can have.
ChildrenOffsetShort == MaxDegree - 2

KeyOffset      == 0
ChildrenOffset == MaxDegree - 1
ValuesOffset   == ChildrenOffset + MaxDegree
NextLeafOffset == ValuesOffset + 2 * (MaxDegree - 1)

\* The words of values one after the other.
WordsOf(values) ==
    [w \in 1..(2 * Len(values)) |->
        <<values[(w + 1) \div 2], IF w % 2 = 1 THEN "page" ELSE "slot">>]

\* Entries written one after the other from offset on.
WithWords(words, offset, entries) ==
    [at \in DOMAIN words |->
        IF at - offset + 1 \in DOMAIN entries THEN entries[at - offset + 1] ELSE words[at]]

\* write_page
WordsOfNode(n) ==
    LET empty    == [at \in 0..NextLeafOffset |-> NoPage]
        keys     == WithWords(empty, KeyOffset, n.keys)
        children == WithWords(keys, ChildrenOffset, n.children)
        values   == WithWords(children, ValuesOffset, WordsOf(n.values))
    IN [next_deleted_page |-> n.next_deleted_page,
        words             |-> WithWords(values, NextLeafOffset, <<n.next_leaf>>)]

\* The entries from offset on up to the first that is not in use, at most this many.
EntriesAt(words, offset, most) ==
    LET used == {k \in 0..most : \A i \in 1..k : words[offset + i - 1] # NoPage}
    IN [i \in 1..Max(used) |-> words[offset + i - 1]]

\* try_from; a value is in use when both of its words are.
NodeOfWords(file) ==
    LET words  == file.words
        values == EntriesAt(words, ValuesOffset, 2 * (MaxDegree - 1))
    IN [keys              |-> EntriesAt(words, KeyOffset, MaxDegree - 1),
        children          |-> EntriesAt(words, ChildrenOffset, MaxDegree),
        values            |-> [i \in 1..(Len(values) \div 2) |-> values[2 * i][1]],
        next_leaf         |-> words[NextLeafOffset],
        next_deleted_page |-> file.next_deleted_page]

=============================================================================
