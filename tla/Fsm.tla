-------------------------------- MODULE Fsm --------------------------------
(***************************************************************************)
(* The free space map of a table (src/freespace/fsm.rs) and the heap pages *)
(* it describes, with the operations of TableAccess that use it            *)
(* (raw_insert, delete and update of src/database/table_access.rs).        *)
(*                                                                         *)
(* The map is a tree of FSM pages, Depth levels high.  An FSM page has a   *)
(* category for each of its Slots slots: on level 0 a slot stands for a    *)
(* heap page, above for an FSM page.  The binary tree within an FSM page   *)
(* is the map from slots to categories that BinaryTree is shown to         *)
(* implement, its root the largest category of the page.  Of a heap page   *)
(* the slot directory is kept (see Page for the bytes).                    *)
(*                                                                         *)
(* The program is single threaded and has no crash recovery, so that an    *)
(* operation is one step.                                                  *)
(***************************************************************************)
EXTENDS HeapPage

CONSTANTS
    CategoryStep,   \* fsm_category_step, page_size / 256
    Slots,          \* slots of an FSM page
    Depth,          \* levels of the map
    Lengths,        \* row lengths
    MaxPages        \* bound of the model: heap pages

ASSUME FsmAssumption ==
    /\ CategoryStep \in Nat \ {0}
    /\ Slots \in Nat \ {0, 1} /\ Depth \in Nat \ {0, 1}
    /\ Lengths \subseteq 1..MaxTuple
    /\ MaxPages \in Nat

VARIABLES
    heap,   \* the slot directories of the heap pages; page ids count from 1
    fsm     \* the FSM pages: the category of each slot

vars == <<heap, fsm>>

HeapIds   == 1..Len(heap)
SlotIds   == 0..(Slots - 1)
Levels    == 0..(Depth - 1)
RootLevel == Depth - 1
Space     == 0..255

---------------------------------------------------------------------------
(* Categories. *)

\* Wrong: rounded up, as the category that is needed.
CategoryOfSpaceUp(available) ==
    IF available >= MaxTuple THEN 255
    ELSE Min({(available + CategoryStep - 1) \div CategoryStep, 254})

\* page_space_to_category: rounded down, 255 for the space of an empty page.
CategoryOfSpace(available) ==
    IF available >= MaxTuple THEN 255
    ELSE Min({available \div CategoryStep, 254})

Category(p) == CategoryOfSpace(MaxAvailableSpace(p))

\* space_needed_to_category: rounded up.
Needed(len) == Min({(len + CategoryStep - 1) \div CategoryStep, 255})

---------------------------------------------------------------------------
(* Addresses in the map.  Heap page h has number h - 1 on level 0; a slot of *)
(* level l has a number among all slots of the level, which is that of the   *)
(* FSM page below it on level l - 1.                                         *)

\* parent, level by level: the numbers above number n of a level.
Above(n) == LET up[k \in Nat] == IF k = 0 THEN n ELSE up[k - 1] \div Slots IN up

\* child, along the first slots: the first number k levels below number n.
FirstBelow(k, n) == LET down[j \in Nat] == IF j = 0 THEN n ELSE down[j - 1] * Slots IN down[k]

\* Heap page h is below node NodeAt(h, l) of level l, behind its slot SlotAt(h, l).
NodeAt(h, l) == Above(h - 1)[l + 1]
SlotAt(h, l) == Above(h - 1)[l] % Slots

\* The heap pages the map has slots for.
Capacity == FirstBelow(Depth, 1)

ASSUME CapacityAssumption == MaxPages <= Capacity

\* The FSM pages up to that of a leaf, the extra ones below a node with it.
PagesUpTo(leaf) ==
    LET pages[k \in Nat] == IF k = 0 THEN 0 ELSE pages[k - 1] + Above(leaf)[k - 1] + 1
    IN pages[Depth]

\* Wrong: the pages below the node are counted.
FsmPageIdOfLeaf(l, node) == PagesUpTo(FirstBelow(l, node))

\* logical_addr_to_fms_page_id: the pages are laid out depth first.
FsmPageId(l, node) == PagesUpTo(FirstBelow(l, node)) - l

EmptyFsmPage == [s \in SlotIds |-> 0]

\* allocate_new_fsm_and_init, up to the FSM page id.
Extended(f, id) ==
    [i \in 1..Max({id, Len(f)}) |-> IF i <= Len(f) THEN f[i] ELSE EmptyFsmPage]

\* Wrong: only the leaf is updated.
UpdatedLeaf(f, h, p) ==
    LET id == FsmPageId(0, NodeAt(h, 0)) IN
    [Extended(f, id) EXCEPT ![id][SlotAt(h, 0)] = Category(p)]

\* Wrong: above the leaf a category is raised but never lowered.
UpdatedUpwards(f, h, p) ==
    LET extended == Extended(f, FsmPageId(0, NodeAt(h, 0)))
        OnPath(id, s) == \E l \in Levels : id = FsmPageId(l, NodeAt(h, l)) /\ s = SlotAt(h, l)
    IN [id \in DOMAIN extended |-> [s \in SlotIds |->
           IF id = FsmPageId(0, NodeAt(h, 0)) /\ s = SlotAt(h, 0) THEN Category(p)
           ELSE IF OnPath(id, s) THEN Max({Category(p), extended[id][s]})
           ELSE extended[id][s]]]

\* update: the category of the heap page goes into its slot on every level.
Updated(f, h, p) ==
    LET extended == Extended(f, FsmPageId(0, NodeAt(h, 0)))
        OnPath(id, s) == \E l \in Levels : id = FsmPageId(l, NodeAt(h, l)) /\ s = SlotAt(h, l)
    IN [id \in DOMAIN extended |-> [s \in SlotIds |->
           IF OnPath(id, s) THEN Category(p) ELSE extended[id][s]]]

---------------------------------------------------------------------------
(* find_available_page *)

\* The first call makes the FSM pages on the way to the first leaf.
Opened(f) == Extended(f, Depth)

RootHas(f, cat) == \E s \in SlotIds : f[1][s] >= cat

\* find_available on the FSM page: its first slot with the space.
IsFirst(page, s, cat) == page[s] >= cat /\ \A t \in 0..(s - 1) : page[t] < cat

\* The search from the root comes out at heap page h.
LeadsTo(f, h, cat) ==
    \A l \in Levels :
        /\ FsmPageId(l, NodeAt(h, l)) \in DOMAIN f
        /\ IsFirst(f[FsmPageId(l, NodeAt(h, l))], SlotAt(h, l), cat)

Found(f, cat) == {h \in HeapIds : LeadsTo(f, h, cat)}

---------------------------------------------------------------------------
(* Operations. *)

Init == heap = << >> /\ fsm = << >>

WithRow(p, len) == WithRecord(p, [length |-> len, deleted |-> FALSE])

Store(h, p, f) ==
    /\ heap' = IF h \in HeapIds THEN [heap EXCEPT ![h] = p] ELSE Append(heap, p)
    /\ fsm'  = Updated(f, h, p)

\* raw_insert, into the page the map leads to
InsertFound(len) ==
    \E h \in Found(Opened(fsm), Needed(len)) :
        /\ CanInsert(heap[h], len)
        /\ Store(h, WithRow(heap[h], len), Opened(fsm))

\* ... or into a new page, when the root has no slot with the space,
InsertAllocated(len) ==
    /\ ~RootHas(Opened(fsm), Needed(len))
    /\ Len(heap) < MaxPages
    /\ CanInsert(<< >>, len)
    /\ Store(Len(heap) + 1, WithRow(<< >>, len), Opened(fsm))

\* ... or not, "Critical: FSM returned page with too little space".
InsertCritical(len) ==
    /\ \E h \in Found(Opened(fsm), Needed(len)) : ~CanInsert(heap[h], len)
    /\ fsm' = Opened(fsm)
    /\ UNCHANGED heap

\* before_saving_hook fails (a duplicate key): the page is not written and the
\* map not updated, but a page that was allocated stays.
InsertRejected(len) ==
    /\ ~RootHas(Opened(fsm), Needed(len))
    /\ Len(heap) < MaxPages
    /\ heap' = Append(heap, << >>)
    /\ fsm'  = Opened(fsm)

\* allocate_page fails: the file cannot be read or written.
InsertWithoutPage(len) ==
    /\ ~RootHas(Opened(fsm), Needed(len))
    /\ fsm' = Opened(fsm)
    /\ UNCHANGED heap

\* Wrong: the map is not told of the deleted row.
DeleteOnly(h, i) ==
    /\ ~heap[h][i].deleted
    /\ heap' = [heap EXCEPT ![h] = WithoutRecord(heap[h], i)]
    /\ UNCHANGED fsm

\* delete, of one row
Delete(h, i) ==
    /\ ~heap[h][i].deleted
    /\ Store(h, WithoutRecord(heap[h], i), fsm)

\* update that changes the length of a row: deleted and inserted again into the
\* same page if it can be.  If not, delete is followed by raw_insert.
Update(h, i, len) ==
    LET without == WithoutRecord(heap[h], i) IN
    /\ ~heap[h][i].deleted
    /\ CanInsert(without, len)
    /\ Store(h, WithRow(without, len), fsm)

Next ==
    \/ \E len \in Lengths :
          \/ InsertFound(len) \/ InsertAllocated(len)
          \/ InsertCritical(len) \/ InsertRejected(len) \/ InsertWithoutPage(len)
    \/ \E h \in HeapIds : \E i \in DOMAIN heap[h] :
          \/ Delete(h, i)
          \/ \E len \in Lengths : Update(h, i, len)

Spec == Init /\ [][Next]_vars

---------------------------------------------------------------------------
(* Properties. *)

TypeOK ==
    /\ \A h \in HeapIds : \A i \in DOMAIN heap[h] :
          heap[h][i].length \in 1..PageDataSize /\ heap[h][i].deleted \in BOOLEAN
    /\ \A id \in DOMAIN fsm : fsm[id] \in [SlotIds -> Space]

\* When the root has a slot with the space, the descent finds on every level a
\* slot that has it and ends at a heap page that exists (fsm.rs 183-184, "if the
\* root points to enough space, the next iterations must not fail", and 225).
\* A category between two that are in the map is searched for as the larger one.
Categories == UNION {{fsm[id][s] : s \in SlotIds} : id \in DOMAIN fsm}

RootNeverLies ==
    \A cat \in Categories \ {0} : RootHas(fsm, cat) => Found(fsm, cat) # {}

\* On level 0 every heap page has the category of its space, or 0 as long as it
\* was never written: no row is lost and no insert fails because the map is out
\* of date.
LeafUpToDate ==
    \A h \in HeapIds :
        LET id  == FsmPageId(0, NodeAt(h, 0))
            cat == IF id \in DOMAIN fsm THEN fsm[id][SlotAt(h, 0)] ELSE 0
        IN cat = Category(heap[h]) \/ (cat = 0 /\ heap[h] = << >>)

\* No two nodes of the map share an FSM page, and a node comes after its parent,
\* so that update, which makes pages up to that of a leaf, has all above it.
NodesHaveDistinctPages ==
    \A h, g \in 1..Capacity, l, m \in Levels :
        /\ FsmPageId(l, NodeAt(h, l)) = FsmPageId(m, NodeAt(g, m))
               => l = m /\ NodeAt(h, l) = NodeAt(g, m)
        /\ l < m => FsmPageId(m, NodeAt(h, m)) < FsmPageId(l, NodeAt(h, l))

NodePages == {FsmPageId(l, NodeAt(h, l)) : h \in 1..Capacity, l \in Levels}

\* ... and every page of the map's file is the page of a node: the numbering of
\* logical_addr_to_fms_page_id fits the order in which pages are made.
FsmPagesAreATree == NodesHaveDistinctPages /\ DOMAIN fsm \subseteq NodePages

\* A page that gets space back is offered: after update of its category the root
\* has that category.  (Pages that were offered before may be hidden by it.)
SpaceIsOffered ==
    [][\A h \in HeapIds :
          heap'[h] # heap[h] => RootHas(fsm', Category(heap'[h]))]_vars

\* A page the map leads to has, in one piece, as many bytes as were asked for: the
\* space of a page is rounded down and the space needed up, and the category a
\* search finds is the page's of now (page_space_to_category,
\* space_needed_to_category, find_available_page).
FoundPageHasBytes ==
    \A len \in Lengths : \A h \in Found(Opened(fsm), Needed(len)) :
        len <= MaxAvailableSpace(heap[h])

\* It is "a page with enough free space" (fsm.rs 163) for the row that is to be
\* inserted.
FoundPageHasRoom ==
    \A len \in Lengths : \A h \in Found(Opened(fsm), Needed(len)) :
        CanInsert(heap[h], len)

=============================================================================
