----------------------------- MODULE TreeNode -----------------------------
(***************************************************************************)
(* The nodes of the B+ tree (src/tree/node.rs), and what splitting,        *)
(* lending and merging do to them.  A node without children is a leaf; a   *)
(* leaf has a value for each key and a link to the leaf on its right.      *)
(*                                                                         *)
(* Positions count from 1 here, from 0 in the code.                        *)
(***************************************************************************)
EXTENDS Integers, SequencesExt

CONSTANTS
    MaxDegree,  \* max_degree, the most children a node has
    NoPage      \* None

\* BTreeStore::new refuses other degrees.
ASSUME DegreeAssumption == MaxDegree \in Nat /\ MaxDegree >= 4 /\ MaxDegree % 2 = 0

EmptyNode == [keys |-> << >>, children |-> << >>, values |-> << >>,
              next_leaf |-> NoPage, next_deleted_page |-> NoPage]

MinKeys == (MaxDegree \div 2) - 1
MaxKeys == MaxDegree - 1

IsLeaf(n)            == n.children = << >>
IsFull(n)            == Len(n.keys) >= MaxKeys
CanLendKeys(n)       == Len(n.keys) > MinKeys
LacksTwoKeys(n)      == Len(n.keys) < MinKeys - 1   \* wrong: one key too late
IsLessThanMinimal(n) == Len(n.keys) < MinKeys

KeySet(n) == ToSet(n.keys)
PositionOf(n, key) == CHOOSE i \in DOMAIN n.keys : n.keys[i] = key

\* How many keys are at most (less than) this one.  The keys are sorted, so
\* this is the position of the last of them.
KeysUpTo(n, key)  == Cardinality({i \in DOMAIN n.keys : n.keys[i] <= key})
KeysBelow(n, key) == Cardinality({i \in DOMAIN n.keys : n.keys[i] < key})

\* The child insert and delete go to: that of the first key greater than key,
\* or the last child.
ChildIndex(n, key) ==
    IF KeysUpTo(n, key) = Len(n.keys) THEN Len(n.children) ELSE KeysUpTo(n, key) + 1

---------------------------------------------------------------------------
(* insert_key_value, and the removal of a key of a leaf in delete. *)

WithKey(n, key, value) ==
    LET at == KeysBelow(n, key) + 1 IN
    [n EXCEPT !.keys   = InsertAt(@, at, key),
              !.values = InsertAt(@, at, value)]

\* Wrong: the value of the first key goes.
WithoutFirstValue(n, key) ==
    [n EXCEPT !.keys = RemoveAt(@, PositionOf(n, key)), !.values = Tail(@)]

WithoutKey(n, key) ==
    LET at == PositionOf(n, key) IN
    [n EXCEPT !.keys = RemoveAt(@, at), !.values = RemoveAt(@, at)]

---------------------------------------------------------------------------
(* split: the upper half moves to a new node.  A leaf keeps the promoted key *)
(* in its right half, an inner node gives it up.                             *)

Middle(n) == Len(n.keys) \div 2

PromotedKey(n) == n.keys[Middle(n) + 1]

LeftHalf(n, right_id) ==
    [n EXCEPT !.keys      = SubSeq(@, 1, Middle(n)),
              !.children  = IF IsLeaf(n) THEN @ ELSE SubSeq(@, 1, Middle(n) + 1),
              !.values    = IF IsLeaf(n) THEN SubSeq(@, 1, Middle(n)) ELSE @,
              !.next_leaf = IF IsLeaf(n) THEN right_id ELSE @]

\* The page is the one allocated for it; an inner node keeps its next_leaf.
RightHalf(n, page) ==
    IF IsLeaf(n)
    THEN [page EXCEPT !.keys      = SubSeq(n.keys, Middle(n) + 1, Len(n.keys)),
                      !.values    = SubSeq(n.values, Middle(n) + 1, Len(n.values)),
                      !.next_leaf = n.next_leaf]
    ELSE [page EXCEPT !.keys     = SubSeq(n.keys, Middle(n) + 2, Len(n.keys)),
                      !.children = SubSeq(n.children, Middle(n) + 2, Len(n.children))]

\* The parent of a child that was split, and where the insert goes on.  When
\* the child was the last one, a key equal to the promoted one goes to the left.
ParentOfSplit(p, idx, promoted, right_id) ==
    [p EXCEPT !.keys     = InsertAt(@, idx, promoted),
              !.children = InsertAt(@, idx + 1, right_id)]

\* Wrong: the insert goes on in the child that was split.
SideOfSplitLeft(p, idx, promoted, key) == idx

SideOfSplit(p, idx, promoted, key) ==
    IF idx = Len(p.keys) + 1
    THEN IF key > promoted THEN idx + 1 ELSE idx
    ELSE IF key >= promoted THEN idx + 1 ELSE idx

---------------------------------------------------------------------------
(* delete gives a child that is short of keys one from a neighbour, or merges *)
(* the two.  p is the parent, t the target, at position idx of the parent.    *)

\* Wrong: the separator in the parent stays.
LendFromLeftOldSeparator(p, idx, left, t) ==
    [left   |-> [left EXCEPT !.keys     = Front(@),
                             !.children = IF IsLeaf(t) THEN @ ELSE Front(@),
                             !.values   = IF IsLeaf(t) THEN Front(@) ELSE @],
     target |-> [t EXCEPT
        !.keys     = <<IF IsLeaf(t) THEN Last(left.keys) ELSE p.keys[idx - 1]>> \o @,
        !.children = IF IsLeaf(t) THEN @ ELSE <<Last(left.children)>> \o @,
        !.values   = IF IsLeaf(t) THEN <<Last(left.values)>> \o @ ELSE @],
     parent |-> p]

LendFromLeft(p, idx, left, t) ==
    IF IsLeaf(t)
    THEN [left   |-> [left EXCEPT !.keys = Front(@), !.values = Front(@)],
          target |-> [t EXCEPT !.keys   = <<Last(left.keys)>> \o @,
                               !.values = <<Last(left.values)>> \o @],
          parent |-> [p EXCEPT !.keys[idx - 1] = Last(left.keys)]]
    ELSE [left   |-> [left EXCEPT !.keys = Front(@), !.children = Front(@)],
          target |-> [t EXCEPT !.keys     = <<p.keys[idx - 1]>> \o @,
                               !.children = <<Last(left.children)>> \o @],
          parent |-> [p EXCEPT !.keys[idx - 1] = Last(left.keys)]]

LendFromRight(p, idx, right, t) ==
    IF IsLeaf(t)
    THEN [right  |-> [right EXCEPT !.keys = Tail(@), !.values = Tail(@)],
          target |-> [t EXCEPT !.keys   = Append(@, Head(right.keys)),
                               !.values = Append(@, Head(right.values))],
          parent |-> [p EXCEPT !.keys[idx] = right.keys[2]]]
    ELSE [right  |-> [right EXCEPT !.keys = Tail(@), !.children = Tail(@)],
          target |-> [t EXCEPT !.keys     = Append(@, p.keys[idx]),
                               !.children = Append(@, Head(right.children))],
          parent |-> [p EXCEPT !.keys[idx] = Head(right.keys)]]

\* Wrong: a leaf keeps its link to the leaf that is emptied into it.
MergedWithOldLink(p, idx, left, right) ==
    IF IsLeaf(left)
    THEN [left EXCEPT !.keys = @ \o right.keys, !.values = @ \o right.values]
    ELSE [left EXCEPT !.keys     = Append(@, p.keys[idx]) \o right.keys,
                      !.children = @ \o right.children]

\* right, the child at idx + 1 of p, is emptied into left, the child at idx.
Merged(p, idx, left, right) ==
    IF IsLeaf(left)
    THEN [left EXCEPT !.keys      = @ \o right.keys,
                      !.values    = @ \o right.values,
                      !.next_leaf = right.next_leaf]
    ELSE [left EXCEPT !.keys     = Append(@, p.keys[idx]) \o right.keys,
                      !.children = @ \o right.children]

\* Wrong: the child that took the keys goes, not the emptied one.
ParentWithoutLeft(p, idx) ==
    [p EXCEPT !.keys = RemoveAt(@, idx), !.children = RemoveAt(@, idx)]

ParentOfMerged(p, idx) ==
    [p EXCEPT !.keys = RemoveAt(@, idx), !.children = RemoveAt(@, idx + 1)]

=============================================================================
