---------------------------- MODULE BinaryTree ----------------------------
(***************************************************************************)
(* The binary tree a page of the free space map holds                      *)
(* (src/freespace/binary_tree.rs): an array of categories, the first       *)
(* NonLeafNodes of them inner nodes, the rest leaves, one per slot.  An    *)
(* inner node holds the larger of its children.  Because the array is cut  *)
(* at the size of a page, inner nodes at the end have one child or none.   *)
(*                                                                         *)
(* A step is one iteration of the loop of set_available_space or of        *)
(* find_available.  Where the code would index past the end of the array   *)
(* (and panic) no step is enabled, so the deadlock check covers it.        *)
(***************************************************************************)
EXTENDS Integers

CONSTANTS
    Nodes,          \* length of the array
    NonLeafNodes,   \* number of inner nodes
    MaxSpace        \* the largest category (255, a u8)

\* node_structure: page_size - 21 nodes, page_size / 2 - 1 of them inner.
ASSUME TreeAssumption ==
    /\ Nodes \in Nat
    /\ NonLeafNodes \in Nat \ {0}
    /\ NonLeafNodes < Nodes
    /\ Nodes <= 2 * NonLeafNodes + 1
    /\ MaxSpace \in Nat

VARIABLES
    arr,        \* the nodes
    pc,         \* "idle", or the operation under way: "set" or "find"
    node,       \* node_number of set_available_space, current of find_available
    wanted,     \* min_space_needed of the last find_available
    result      \* the slot found last, NoSlot for None

vars == <<arr, pc, node, wanted, result>>

Index  == 0..(Nodes - 1)
Leaf   == NonLeafNodes..(Nodes - 1)
Inner  == 0..(NonLeafNodes - 1)
Space  == 0..MaxSpace
Slots  == 0..(Nodes - NonLeafNodes - 1)
NoSlot == -1

LeftChild(x)  == 2 * x + 1
RightChild(x) == 2 * x + 2
Parent(x)     == (x - 1) \div 2

\* A right child may be missing; it counts as 0.
RightValue(x) == IF RightChild(x) \in Index THEN arr[RightChild(x)] ELSE 0
LargerChild(x) ==
    IF arr[LeftChild(x)] >= RightValue(x) THEN arr[LeftChild(x)] ELSE RightValue(x)

Init ==
    /\ arr = [x \in Index |-> 0]
    /\ pc = "idle"
    /\ node = 0
    /\ wanted = 0
    /\ result = NoSlot

---------------------------------------------------------------------------
(* set_available_space *)

\* The leaf is written, unless it has the value already and the root is not
\* smaller.
SetAvailableSpace(slot, space) ==
    LET leaf == NonLeafNodes + slot IN
    /\ pc = "idle"
    /\ ~(arr[leaf] = space /\ space <= arr[0])
    /\ arr' = [arr EXCEPT ![leaf] = space]
    /\ pc' = "set"
    /\ node' = leaf
    /\ UNCHANGED <<wanted, result>>

\* Wrong: a parent is raised but never lowered.
RaiseParent ==
    LET up == Parent(node)
        worth == IF arr[up] > LargerChild(up) THEN arr[up] ELSE LargerChild(up)
    IN
    /\ pc = "set"
    /\ LeftChild(up) \in Index
    /\ arr' = [arr EXCEPT ![up] = worth]
    /\ IF arr[up] = worth \/ up = 0
       THEN pc' = "idle" /\ node' = 0
       ELSE pc' = "set" /\ node' = up
    /\ UNCHANGED <<wanted, result>>

\* Wrong: the loop does not stop at the root.
UpdatePastRoot ==
    LET up == Parent(node) IN
    /\ pc = "set"
    /\ LeftChild(up) \in Index
    /\ arr' = [arr EXCEPT ![up] = LargerChild(up)]
    /\ IF arr[up] = LargerChild(up)
       THEN pc' = "idle" /\ node' = 0
       ELSE pc' = "set" /\ node' = up
    /\ UNCHANGED <<wanted, result>>

\* One iteration: the parent gets the larger child; the loop ends when it had
\* that value or is the root.
UpdateParent ==
    LET up == Parent(node) IN
    /\ pc = "set"
    /\ LeftChild(up) \in Index
    /\ arr' = [arr EXCEPT ![up] = LargerChild(up)]
    /\ IF arr[up] = LargerChild(up) \/ up = 0
       THEN pc' = "idle" /\ node' = 0
       ELSE pc' = "set" /\ node' = up
    /\ UNCHANGED <<wanted, result>>

---------------------------------------------------------------------------
(* find_available *)

NothingAvailable(min) ==
    /\ pc = "idle"
    /\ arr[0] < min
    /\ wanted' = min
    /\ result' = NoSlot
    /\ UNCHANGED <<arr, pc, node>>

FindAvailable(min) ==
    /\ pc = "idle"
    /\ arr[0] >= min
    /\ pc' = "find"
    /\ node' = 0
    /\ wanted' = min
    /\ UNCHANGED <<arr, result>>

\* Wrong: the left child is compared by one too little.
DescendTooSoon ==
    /\ pc = "find"
    /\ node \in Inner
    /\ LeftChild(node) \in Index
    /\ node' = IF arr[LeftChild(node)] >= wanted - 1
               THEN LeftChild(node) ELSE RightChild(node)
    /\ UNCHANGED <<arr, pc, wanted, result>>

\* Wrong: the right child is preferred.
DescendRightFirst ==
    /\ pc = "find"
    /\ node \in Inner
    /\ LeftChild(node) \in Index
    /\ node' = IF RightValue(node) >= wanted THEN RightChild(node) ELSE LeftChild(node)
    /\ UNCHANGED <<arr, pc, wanted, result>>

\* One iteration: to the left child if it has the space, else to the right.
Descend ==
    /\ pc = "find"
    /\ node \in Inner
    /\ LeftChild(node) \in Index
    /\ \/ /\ arr[LeftChild(node)] >= wanted
          /\ node' = LeftChild(node)
       \/ /\ arr[LeftChild(node)] < wanted
          /\ RightValue(node) >= wanted
          /\ node' = RightChild(node)
    /\ UNCHANGED <<arr, pc, wanted, result>>

\* Neither child has what their parent promised: "the tree is corrupted".
Corrupted ==
    /\ pc = "find"
    /\ node \in Inner
    /\ LeftChild(node) \in Index => LargerChild(node) < wanted

\* Wrong: the number of the node is returned, not that of the slot.
EndSearchAtNode ==
    /\ pc = "find"
    /\ node \in Leaf
    /\ result' = node
    /\ pc' = "idle"
    /\ node' = 0
    /\ UNCHANGED <<arr, wanted>>

\* The search ends at a leaf, or with None at a node that is corrupted.
EndSearch ==
    /\ pc = "find"
    /\ node \in Inner => Corrupted /\ LeftChild(node) \in Index
    /\ result' = IF node \in Leaf THEN node - NonLeafNodes ELSE NoSlot
    /\ pc' = "idle"
    /\ node' = 0
    /\ UNCHANGED <<arr, wanted>>

\* The iterations of an operation that is under way.
Step == UpdateParent \/ Descend \/ EndSearch

\* Categories asked for start at 1 (space_needed_to_category).
Next ==
    \/ \E slot \in Slots, space \in Space : SetAvailableSpace(slot, space)
    \/ \E min \in Space \ {0} : NothingAvailable(min) \/ FindAvailable(min)
    \/ Step

\* The loops run on: nothing else happens in the program meanwhile.
Spec == Init /\ [][Next]_vars /\ WF_vars(Step)

---------------------------------------------------------------------------
(* Properties. *)

TypeOK ==
    /\ arr \in [Index -> Space]
    /\ pc \in {"idle", "set", "find"}
    /\ node \in Index
    /\ wanted \in Space
    /\ result \in Slots \cup {NoSlot}

\* What an inner node is worth: the larger child, 0 without children.
Worth(x) ==
    IF LeftChild(x) \in Index THEN LargerChild(x) ELSE 0

\* The node whose children set_available_space has not looked at yet.
Pending == IF pc = "set" THEN {Parent(node)} ELSE {}

\* Every inner node holds the larger of its children, except the one
\* set_available_space is about to update (binary_tree.rs 153-177): the loop
\* may stop at the first parent that does not change.
HeapOrdered == \A x \in Inner \ Pending : arr[x] = Worth(x)

\* Once the root promised enough space, every step of the descent finds a
\* child that has it: binary_tree.rs 120, "This should never be reached,
\* otherwise the tree is corrupted".
NeverCorrupted == ~Corrupted

\* A search the root has space for ends at a slot that has it.
FoundHasSpace ==
    [][pc = "find" /\ pc' = "idle"
           => result' \in Slots /\ arr[NonLeafNodes + result'] >= wanted]_vars

\* The tree implements a map from slots to free space.  Setting a slot takes
\* effect with the first write; a search answers with the leftmost slot that
\* has the space, and with None only when no slot has it.
Map == INSTANCE SpaceMap WITH
           space <- [slot \in Slots |-> arr[NonLeafNodes + slot]]

ImplementsSpaceMap == Map!Spec

\* Every operation ends (no endless loop, no index past the array).
OperationsEnd == (pc # "idle") ~> (pc = "idle")

=============================================================================
