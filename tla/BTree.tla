------------------------------- MODULE BTree -------------------------------
(***************************************************************************)
(* BTreeStore, the unique index of a table (src/tree/store.rs), over the   *)
(* nodes of TreeNode.  insert splits full nodes on its way down, delete    *)
(* refills or merges nodes that are short of keys on its way down; both go *)
(* through the pager, which hands out deleted pages again.                 *)
(*                                                                         *)
(* The handle is the only one open, so that its page cache and the file    *)
(* never differ, and the order of the writes of one operation cannot be    *)
(* seen: they are made at once.  Page ids count from 1, not 0.             *)
(***************************************************************************)
EXTENDS NodeFile

CONSTANTS
    Keys,       \* the keys the callers use
    PointerOf,  \* the pointer a caller inserts with a key: a row's address
    Preloads,   \* the sequences of keys trees were filled with before
    None,       \* Ok(None)
    Panic       \* the operation panics

AllKeys == Keys \cup UNION {ToSet(keys) : keys \in Preloads}

ASSUME KeysAssumption ==
    /\ Keys \subseteq Int /\ Preloads \subseteq Seq(Int)
    /\ AllKeys \subseteq DOMAIN PointerOf

\* i32::MIN, which stands for an entry that is not in use, is no key, no number of a
\* page and in no pointer.
ASSUME NoPageAssumption ==
    /\ NoPage \notin Int
    /\ \A key \in AllKeys, word \in {"page", "slot"} : NoPage # <<PointerOf[key], word>>

VARIABLES
    store,      \* the file: its pages, and root and first_deleted_page
    call,       \* the last operation and its key
    reply       \* what it returned

vars == <<store, call, reply>>

EmptyStore == [pages |-> << >>, root |-> NoPage, first_deleted_page |-> NoPage]

Page(st, id) == st.pages[id]

---------------------------------------------------------------------------
(* The pager. *)

WritePage(st, id, node) == [st EXCEPT !.pages[id] = node]

\* Wrong: the number the next new page will have is noted.
DeletePageToCome(st, id) == [st EXCEPT !.first_deleted_page = Len(st.pages) + 1]

\* Only a copy of the page is marked: what is stored keeps its next_leaf, and
\* next_deleted_page stays None.
DeletePage(st, id) == [st EXCEPT !.first_deleted_page = id]

\* A deleted page is blanked and written, which clears its changed flag; a new
\* page is returned with the flag set.
AllocateNewPage(st) ==
    IF st.first_deleted_page = NoPage
    THEN [store   |-> [st EXCEPT !.pages = Append(@, EmptyNode)],
          id      |-> Len(st.pages) + 1,
          node    |-> EmptyNode,
          changed |-> TRUE]
    ELSE LET id   == st.first_deleted_page
             node == [EmptyNode EXCEPT !.next_leaf = Page(st, id).next_leaf]
         IN [store   |-> [WritePage(st, id, node) EXCEPT
                             !.first_deleted_page = Page(st, id).next_deleted_page],
             id      |-> id,
             node    |-> node,
             changed |-> FALSE]

\* root: the first operation on an empty file allocates it.
WithRoot(st) ==
    IF st.root # NoPage THEN st
    ELSE LET new == AllocateNewPage(st) IN [new.store EXCEPT !.root = new.id]

---------------------------------------------------------------------------
(* insert *)

\* write_page does nothing for a right half whose changed flag is not set.
Split(st, id) ==
    LET node  == Page(st, id)
        new   == AllocateNewPage(st)
        after == IF new.changed
                 THEN WritePage(new.store, new.id, RightHalf(node, new.node))
                 ELSE new.store
    IN [store    |-> WritePage(after, id, LeftHalf(node, new.id)),
        right    |-> new.id,
        promoted |-> PromotedKey(node)]

\* From a node to the child where the insert goes on; a leaf is where it ends.
InsertStep(at, key) ==
    LET node  == Page(at.store, at.id)
        idx   == ChildIndex(node, key)
        child == node.children[idx]
        split == Split(at.store, child)
        grown == ParentOfSplit(node, idx, split.promoted, split.right)
        side  == SideOfSplit(node, idx, split.promoted, key)
    IN IF IsLeaf(node) THEN at
       ELSE IF IsFull(Page(at.store, child))
       THEN [store |-> WritePage(split.store, at.id, grown), id |-> grown.children[side]]
       ELSE [store |-> at.store, id |-> child]

\* No path is longer than there are pages.
InsertPath(st, key) ==
    LET at[n \in 0..Len(st.pages)] ==
            IF n = 0 THEN [store |-> st, id |-> st.root] ELSE InsertStep(at[n - 1], key)
    IN at

\* What the insert into a child returns is dropped: only a leaf that is the
\* root reports a duplicate.
InsertAtLeaf(at, key) ==
    LET leaf == Page(at.store, at.id) IN
    IF key \in KeySet(leaf)
    THEN [store |-> at.store,
          reply |-> IF at.id = at.store.root THEN "duplicate" ELSE "ok"]
    ELSE [store |-> WritePage(at.store, at.id, WithKey(leaf, key, PointerOf[key])),
          reply |-> "ok"]

\* A full root becomes the left child of a new one.
SplitRoot(st) ==
    LET split == Split(st, st.root)
        new   == AllocateNewPage(split.store)
    IN [WritePage(new.store, new.id,
                  [new.node EXCEPT !.keys     = <<split.promoted>>,
                                   !.children = <<st.root, split.right>>])
           EXCEPT !.root = new.id]

InsertAtRoot(st, key) == InsertAtLeaf(InsertPath(st, key)[Len(st.pages)], key)

InsertKey(st, key) ==
    LET opened == WithRoot(st) IN
    IF IsFull(Page(opened, opened.root))
    THEN InsertAtRoot(SplitRoot(opened), key)
    ELSE InsertAtRoot(opened, key)

---------------------------------------------------------------------------
(* delete *)

\* The child at idx of page id has too few keys.  id is where delete goes on.
Refill(st, id, idx) ==
    LET p      == Page(st, id)
        kid(i) == Page(st, p.children[i])
        hasLeft    == idx > 1
        hasRight   == idx < Len(p.children)
        leftLends  == hasLeft /\ CanLendKeys(kid(idx - 1))
        rightLends == hasRight /\ CanLendKeys(kid(idx + 1))
        fromLeft   == LendFromLeft(p, idx, kid(idx - 1), kid(idx))
        fromRight  == LendFromRight(p, idx, kid(idx + 1), kid(idx))
        Lend(i, loan, giver) ==
            WritePage(WritePage(WritePage(st, p.children[idx], loan.target), p.children[i], giver),
                      id, loan.parent)
        Merge(i) ==     \* the child at i + 1 into the one at i
            DeletePage(WritePage(WritePage(st, p.children[i], Merged(p, i, kid(i), kid(i + 1))),
                                 id, ParentOfMerged(p, i)),
                       p.children[i + 1])
    IN [id    |-> IF hasLeft /\ ~leftLends /\ ~rightLends
                  THEN p.children[idx - 1] ELSE p.children[idx],
        store |->
           IF leftLends       THEN Lend(idx - 1, fromLeft, fromLeft.left)
           ELSE IF rightLends THEN Lend(idx + 1, fromRight, fromRight.right)
           ELSE IF hasLeft    THEN Merge(idx - 1)
           ELSE IF hasRight   THEN Merge(idx)
           ELSE st]

DeleteStep(at, key) ==
    LET node == Page(at.store, at.id)
        idx  == ChildIndex(node, key)
    IN IF IsLeaf(node) THEN at
       ELSE IF IsLessThanMinimal(Page(at.store, node.children[idx]))
       THEN Refill(at.store, at.id, idx)
       ELSE [store |-> at.store, id |-> node.children[idx]]

DeletePath(st, key) ==
    LET at[n \in 0..Len(st.pages)] ==
            IF n = 0 THEN [store |-> st, id |-> st.root] ELSE DeleteStep(at[n - 1], key)
    IN at

DeleteAtLeaf(at, key) ==
    LET leaf == Page(at.store, at.id) IN
    IF key \in KeySet(leaf)
    THEN [store |-> WritePage(at.store, at.id, WithoutKey(leaf, key)),
          reply |-> leaf.values[PositionOf(leaf, key)]]
    ELSE [store |-> at.store, reply |-> None]

\* A root out of keys gives way to its only child.
CollapseRoot(st) ==
    LET root == Page(st, st.root) IN
    IF root.keys = << >> /\ ~IsLeaf(root)
    THEN [DeletePage(st, st.root) EXCEPT !.root = root.children[1]]
    ELSE st

DeleteKey(st, key) ==
    LET opened == WithRoot(st)
        done   == DeleteAtLeaf(DeletePath(opened, key)[Len(opened.pages)], key)
    IN [store |-> CollapseRoot(done.store), reply |-> done.reply]

---------------------------------------------------------------------------
(* find *)

\* A key equal to a separator is in the child on its right.  binary_search
\* answers GreaterThanTheLast(0) for a node without keys, so the search goes to
\* its second child; indexing past the last child panics.
FindStep(st, id, key) ==
    LET node == Page(st, id)
        idx  == IF node.keys = << >> THEN 2 ELSE KeysUpTo(node, key) + 1
    IN IF id = Panic \/ IsLeaf(node) THEN id
       ELSE IF idx > Len(node.children) THEN Panic
       ELSE node.children[idx]

FindPath(st, key) ==
    LET at[n \in 0..Len(st.pages)] ==
            IF n = 0 THEN st.root ELSE FindStep(st, at[n - 1], key)
    IN at

FindNode(st, key) ==
    LET id == FindPath(st, key)[Len(st.pages)] IN
    IF id = Panic THEN Panic
    ELSE IF key \in KeySet(Page(st, id)) THEN id ELSE NoPage

FindValue(st, key) ==
    LET id == FindNode(st, key) IN
    IF id = NoPage THEN None
    ELSE IF id = Panic THEN Panic
    ELSE Page(st, id).values[PositionOf(Page(st, id), key)]

---------------------------------------------------------------------------
(* Range queries: the leaves are read along their links. *)

LeftMost(st) ==
    LET below(id) == IF IsLeaf(Page(st, id)) THEN id ELSE Page(st, id).children[1]
        at[n \in 0..Len(st.pages)] == IF n = 0 THEN st.root ELSE below(at[n - 1])
    IN at[Len(st.pages)]

\* The leaves from id on, up to and with the leaf last (NoPage: to the end): no
\* more than there are pages, where the code would follow a cycle of links for ever.
LeavesFrom(st, id, last) ==
    LET next(leaf) == Page(st, leaf).next_leaf
        longer(leaves) ==
            IF Last(leaves) = last \/ next(Last(leaves)) = NoPage THEN leaves
            ELSE Append(leaves, next(Last(leaves)))
        read[n \in 1..Len(st.pages)] == IF n = 1 THEN <<id>> ELSE longer(read[n - 1])
    IN IF id = NoPage THEN << >> ELSE read[Len(st.pages)]

\* The values of the leaves: of the leaf edge those of the keys wanted, of the
\* others all.
ValuesAlong(st, leaves, edge, wanted) ==
    LET kept == SelectSeq(Page(st, edge).keys, LAMBDA k : k \in wanted)
        edgeValues == [i \in DOMAIN kept |->
                          Page(st, edge).values[PositionOf(Page(st, edge), kept[i])]]
    IN FlattenSeq([i \in DOMAIN leaves |->
          IF leaves[i] = edge THEN edgeValues ELSE Page(st, leaves[i]).values])

\* Nothing, when the key is not there.
FindSmallerThan(st, key, withEqual) ==
    LET target == FindNode(st, key) IN
    IF target = NoPage THEN << >>
    ELSE ValuesAlong(st, LeavesFrom(st, LeftMost(st), target),
                     target, {k \in AllKeys : k < key \/ (withEqual /\ k = key)})

FindGreaterThan(st, key, withEqual) ==
    LET target == FindNode(st, key) IN
    ValuesAlong(st, LeavesFrom(st, target, NoPage),
                target, {k \in AllKeys : k > key \/ (withEqual /\ k = key)})

---------------------------------------------------------------------------
(* The operations of the store. *)

\* The store after inserts of these keys.
Filled(keys) ==
    LET after[n \in 0..Len(keys)] ==
            IF n = 0 THEN EmptyStore ELSE InsertKey(after[n - 1], keys[n]).store
    IN after[Len(keys)]

Init ==
    /\ \E keys \in Preloads : store = Filled(keys)
    /\ call  = <<"open">>
    /\ reply = "none"

Insert(key) ==
    /\ call'  = <<"insert", key>>
    /\ store' = InsertKey(store, key).store
    /\ reply' = InsertKey(store, key).reply

Delete(key) ==
    /\ call'  = <<"delete", key>>
    /\ store' = DeleteKey(store, key).store
    /\ reply' = DeleteKey(store, key).reply

Find(key) ==
    /\ call'  = <<"find", key>>
    /\ store' = WithRoot(store)
    /\ reply' = FindValue(WithRoot(store), key)

Next == \E key \in Keys : Insert(key) \/ Delete(key) \/ Find(key)

Spec == Init /\ [][Next]_vars

---------------------------------------------------------------------------
(* What is in the tree. *)

Children(st, id) == ToSet(Page(st, id).children)

\* The pages that are n links below a page.
Levels(st, id) ==
    LET level[n \in 0..Len(st.pages)] ==
            IF n = 0 THEN {id} ELSE UNION {Children(st, above) : above \in level[n - 1]}
    IN level

PagesUnder(st, id) ==
    LET level == Levels(st, id) IN UNION {level[n] : n \in DOMAIN level}

TreePages == IF store.root = NoPage THEN {} ELSE PagesUnder(store, store.root)

TreeLeaves == {id \in TreePages : IsLeaf(Page(store, id))}

Present == UNION {KeySet(Page(store, id)) : id \in TreeLeaves}

\* The pointers of the keys in the leaves.
Contents ==
    LET With(map, id) ==
            LET node == Page(store, id) IN
            map @@ [key \in KeySet(node) |-> node.values[PositionOf(node, key)]]
    IN FoldSet(LAMBDA id, map : With(map, id), << >>, TreeLeaves)

\* The step handed out a deleted page.
Reuses == store.first_deleted_page # NoPage /\ store'.first_deleted_page = NoPage

\* Callers that insert only keys that are not there.
NextAbsent == \E key \in Keys : (key \notin Present /\ Insert(key)) \/ Delete(key) \/ Find(key)

SpecAbsent == Init /\ [][NextAbsent]_vars

\* The same up to the first time a deleted page is reused.
SpecFresh == Init /\ [][NextAbsent /\ ~Reuses]_vars

\* The keys in the nodes of the tree, also those that are only separators: a key
\* that was deleted can still be one.
TreeKeys(st) ==
    IF st.root = NoPage THEN {}
    ELSE UNION {KeySet(Page(st, id)) : id \in PagesUnder(st, st.root)}

\* ... and when only keys are inserted that no node of the tree holds.
NextNew ==
    \E key \in Keys : (key \notin TreeKeys(store) /\ Insert(key)) \/ Delete(key) \/ Find(key)

SpecNewKeys == Init /\ [][NextNew /\ ~Reuses]_vars

---------------------------------------------------------------------------
(* Properties. *)

PageIds == DOMAIN store.pages

TypeOK ==
    /\ store.root \in PageIds \cup {NoPage}
    /\ store.first_deleted_page \in PageIds \cup {NoPage}
    /\ \A id \in PageIds :
          /\ Page(store, id).keys \in Seq(AllKeys)
          /\ Page(store, id).children \in Seq(PageIds)
          /\ Page(store, id).next_leaf \in PageIds \cup {NoPage}
          /\ Page(store, id).next_deleted_page \in PageIds \cup {NoPage}

\* What check_node_invariants asserts of the arrays of one node, and how short of
\* keys a node may be: delete refills a node only when it comes by the next time.
NodesWellFormed ==
    \A id \in TreePages :
        LET node == Page(store, id) IN
        /\ Len(node.keys) <= MaxKeys
        /\ IF IsLeaf(node)
           THEN Len(node.values) = Len(node.keys)
           ELSE node.values = << >> /\ Len(node.children) = Len(node.keys) + 1
        /\ id # store.root => Len(node.keys) >= MinKeys - 1

\* Every page is read from the file as it was written there: no node outgrows its
\* arrays, however it is split, lent to and merged (write_page, try_from).
NodesReadBack ==
    \A id \in PageIds : NodeOfWords(WordsOfNode(Page(store, id))) = Page(store, id)

\* What validate asserts of the order of the keys: those of a node ascend, and
\* every key below a child of it lies between the separators on the two sides of
\* the child.
KeysInRange ==
    \A id \in TreePages :
        LET node == Page(store, id) IN
        /\ \A i \in 1..(Len(node.keys) - 1) : node.keys[i] < node.keys[i + 1]
        /\ \A i \in DOMAIN node.children :
              \A below \in PagesUnder(store, node.children[i]) :
                  \A key \in KeySet(Page(store, below)) :
                      /\ i > 1 => key >= node.keys[i - 1]
                      /\ i <= Len(node.keys) => key < node.keys[i]

\* All leaves are equally deep, and every page of the tree has one parent, the
\* root none and the page next to be reused is not in the tree: splits, merges
\* and the collapse of the root keep the tree a balanced tree.
TreeIsBalanced ==
    store.root # NoPage =>
        /\ LET level == Levels(store, store.root)
           IN \A n \in DOMAIN level : \A id, other \in level[n] :
                 IsLeaf(Page(store, id)) => IsLeaf(Page(store, other))
        /\ LET links == UNION {{<<id, i>> : i \in DOMAIN Page(store, id).children} :
                                 id \in TreePages}
               to(l) == Page(store, l[1]).children[l[2]]
           IN /\ \A l, m \in links : to(l) = to(m) => l = m
              /\ \A l \in links : to(l) # store.root
        /\ store.first_deleted_page \notin TreePages

\* All keys in ascending order.
SortedKeys ==
    [i \in 1..Cardinality(AllKeys) |->
        CHOOSE k \in AllKeys : Cardinality({l \in AllKeys : l < k}) = i - 1]

\* A range query from a key of the index returns exactly the rows of the keys on
\* its side, in key order: the links between the leaves and the descent agree
\* after every split, loan and merge.
RangeQueriesCorrect ==
    LET contents == Contents
        sorted   == SelectSeq(SortedKeys, LAMBDA k : k \in DOMAIN contents)
        upTo(i)  == [j \in 1..i |-> contents[sorted[j]]]
        from(i)  == [j \in 1..(Len(sorted) - i + 1) |-> contents[sorted[i + j - 1]]]
    IN \A i \in DOMAIN sorted :
          /\ FindSmallerThan(store, sorted[i], TRUE)  = upTo(i)
          /\ FindSmallerThan(store, sorted[i], FALSE) = upTo(i - 1)
          /\ FindGreaterThan(store, sorted[i], TRUE)  = from(i)
          /\ FindGreaterThan(store, sorted[i], FALSE) = from(i + 1)

\* The store is a map: each operation has the effect and the reply of one on a
\* map from keys to pointers, however the tree is split and merged, as long as
\* callers insert keys that no node holds and no deleted page is reused (insert,
\* delete and find of BTreeStore).
Index == INSTANCE UniqueIndex WITH Keys <- AllKeys, index <- Contents

ImplementsIndex == Index!Spec

\* An insert of a key that is there is refused with TryInsertDuplicate.
DuplicatesRefused ==
    [][\A key \in Present : Insert(key) => reply' = "duplicate"]_vars

\* After an insert that was answered with Ok, the key and all keys that were
\* there are found.
InsertedKeysAreFound ==
    [][\A key \in Keys : Insert(key) /\ reply' = "ok" =>
           \A k \in Present \cup {key} : FindValue(store', k) = PointerOf[k]]_vars

=============================================================================
