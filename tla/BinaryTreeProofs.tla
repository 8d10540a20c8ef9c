------------------------- MODULE BinaryTreeProofs -------------------------
(***************************************************************************)
(* Proofs about BinaryTree.tla, for a tree of any size.                    *)
(*                                                                         *)
(* HeapOrdered says what set_available_space keeps; for NeverCorrupted one *)
(* also needs that a search only stands on nodes that have the space it    *)
(* wants (SearchInv).                                                      *)
(***************************************************************************)
EXTENDS BinaryTree, NatSets

SearchInv ==
    /\ pc = "find" => wanted > 0 /\ arr[node] >= wanted
    /\ pc = "set" => node # 0

TreeInv == TypeOK /\ HeapOrdered /\ SearchInv

\* A node is a child of its parent and of no other node.
LEMMA Family ==
    ASSUME NEW x \in Nat, NEW y \in Nat
    PROVE  /\ LeftChild(x) = y \/ RightChild(x) = y => x = Parent(y) /\ y # 0
           /\ y # 0 => Parent(y) \in Nat /\ Parent(y) < y
           /\ y # 0 => LeftChild(Parent(y)) = y \/ RightChild(Parent(y)) = y
           /\ LeftChild(x) # x /\ RightChild(x) # x
BY DEF LeftChild, RightChild, Parent

\* The sizes of the tree.
LEMMA Sizes ==
    /\ Nodes \in Nat /\ NonLeafNodes \in Nat /\ 0 < NonLeafNodes
    /\ 0 \in Inner /\ Inner \subseteq Index /\ Index \subseteq Nat
    /\ \A y \in Index : y # 0 => Parent(y) \in Inner /\ LeftChild(Parent(y)) \in Index
<1>1. /\ Nodes \in Nat /\ NonLeafNodes \in Nat /\ 0 < NonLeafNodes
      /\ NonLeafNodes < Nodes /\ Nodes <= 2 * NonLeafNodes + 1
  BY TreeAssumption
<1>2. 0 \in Inner /\ Inner \subseteq Index /\ Index \subseteq Nat
  BY <1>1 DEF Inner, Index
<1>3. ASSUME NEW y \in Index, y # 0
      PROVE  Parent(y) \in Inner /\ LeftChild(Parent(y)) \in Index
  BY <1>1, <1>3 DEF Inner, Index, Parent, LeftChild
<1> QED
  BY <1>1, <1>2, <1>3

\* The value of a child is a category.
LEMMA ChildSpace ==
    ASSUME TypeOK, NEW x \in Nat
    PROVE  /\ RightValue(x) \in Space
           /\ LeftChild(x) \in Index => LargerChild(x) \in Space
           /\ LeftChild(x) \in Index => \/ LargerChild(x) = arr[LeftChild(x)]
                                        \/ LargerChild(x) = RightValue(x)
<1>1. 0 \in Space
  BY TreeAssumption DEF Space
<1> QED
  BY <1>1 DEF TypeOK, RightValue, LargerChild

\* Writing a node changes the worth of no node but its parent.
LEMMA WorthUnchanged ==
    ASSUME TypeOK, NEW y \in Index, NEW v, arr' = [arr EXCEPT ![y] = v],
           NEW x \in Inner, x # Parent(y) \/ y = 0
    PROVE  Worth(x)' = Worth(x)
<1>1. x \in Nat /\ y \in Nat
  BY Sizes
<1>2. LeftChild(x) # y /\ RightChild(x) # y
  BY <1>1, Family
<1>3. \A z \in Index : z # y => arr'[z] = arr[z]
  BY DEF TypeOK
<1>4. LeftChild(x)' = LeftChild(x) /\ RightChild(x)' = RightChild(x)
  BY DEF LeftChild, RightChild
<1>5. RightValue(x)' = RightValue(x)
  BY <1>2, <1>3, <1>4 DEF RightValue
<1>6. LeftChild(x) \in Index => LargerChild(x)' = LargerChild(x)
  BY <1>2, <1>3, <1>4, <1>5 DEF LargerChild
<1> QED
  BY <1>4, <1>6 DEF Worth

LEMMA TreeInvInit == Init => TreeInv
<1> SUFFICES ASSUME Init PROVE TreeInv
  OBVIOUS
<1>1. 0 \in Space /\ 0 \in Index
  BY Sizes, TreeAssumption DEF Space
<1>2. TypeOK
  BY <1>1 DEF Init, TypeOK
<1>3. HeapOrdered
  <2>1. SUFFICES ASSUME NEW x \in Inner PROVE arr[x] = Worth(x)
    BY DEF HeapOrdered
  <2>2. arr[x] = 0 /\ RightValue(x) = 0
    BY Sizes DEF Init, RightValue
  <2>3. LeftChild(x) \in Index => LargerChild(x) = 0
    BY <2>2 DEF Init, LargerChild
  <2> QED
    BY <2>2, <2>3 DEF Worth
<1>4. SearchInv
  BY DEF Init, SearchInv
<1> QED
  BY <1>2, <1>3, <1>4 DEF TreeInv

\* Starting an update puts only the parent of the leaf out of order.
LEMMA SetAvailableSpaceKeeps ==
    ASSUME TreeInv, NEW slot \in Slots, NEW space \in Space,
           SetAvailableSpace(slot, space)
    PROVE  TreeInv'
<1> DEFINE leaf == NonLeafNodes + slot
<1>1. leaf \in Index /\ leaf # 0 /\ leaf \notin Inner
  BY Sizes DEF Slots, Index, Inner
<1>2. /\ pc = "idle" /\ pc' = "set" /\ node' = leaf
      /\ arr' = [arr EXCEPT ![leaf] = space]
      /\ wanted' = wanted /\ result' = result
  BY DEF SetAvailableSpace
<1> HIDE DEF leaf
<1>3. TypeOK'
  BY <1>1, <1>2 DEF TreeInv, TypeOK
<1>4. HeapOrdered'
  <2>1. SUFFICES ASSUME NEW x \in Inner, x # Parent(leaf)
                 PROVE  arr'[x] = Worth(x)'
    BY <1>2 DEF HeapOrdered, Pending, Parent
  <2>2. arr[x] = Worth(x)
    BY <1>2 DEF TreeInv, HeapOrdered, Pending
  <2>3. Worth(x)' = Worth(x)
    BY <1>1, <1>2, <2>1, WorthUnchanged DEF TreeInv
  <2>4. arr'[x] = arr[x]
    BY <1>1, <1>2, Sizes DEF TreeInv, TypeOK
  <2> QED
    BY <2>2, <2>3, <2>4
<1>5. SearchInv'
  BY <1>1, <1>2 DEF SearchInv
<1> QED
  BY <1>3, <1>4, <1>5 DEF TreeInv

\* One iteration of the update moves the disorder to the parent's parent, or
\* ends it.
LEMMA UpdateParentKeeps ==
    ASSUME TreeInv, UpdateParent
    PROVE  TreeInv'
<1>1. node \in Index /\ node # 0 /\ pc = "set"
  BY DEF UpdateParent, TreeInv, TypeOK, SearchInv
<1> PICK up \in Inner : up = Parent(node)
  BY <1>1, Sizes
<1> PICK v : v = LargerChild(up)
  OBVIOUS
<1>2. up \in Index /\ up \in Nat /\ LeftChild(up) \in Index
  BY <1>1, Sizes
<1>3. v \in Space
  BY <1>2, ChildSpace DEF TreeInv
<1>4. /\ arr' = [arr EXCEPT ![up] = v]
      /\ wanted' = wanted /\ result' = result
      /\ \/ pc' = "idle" /\ node' = 0 /\ (arr[up] = v \/ up = 0)
         \/ pc' = "set" /\ node' = up /\ up # 0
  BY DEF UpdateParent
<1>5. v = Worth(up)
  BY <1>2 DEF Worth
<1>6. \A x \in Inner : x # up => arr[x] = Worth(x)
  BY <1>1 DEF TreeInv, HeapOrdered, Pending
<1>7. up # Parent(up) \/ up = 0
  BY <1>2, Family
<1>8. TypeOK'
  BY <1>2, <1>3, <1>4, Sizes DEF TreeInv, TypeOK
<1>9. arr'[up] = Worth(up)'
  <2>1. Worth(up)' = Worth(up)
    BY <1>2, <1>4, <1>7, WorthUnchanged DEF TreeInv
  <2> QED
    BY <1>2, <1>4, <1>5, <2>1 DEF TreeInv, TypeOK
<1>10. ASSUME NEW x \in Inner, x # up, x # Parent(up) \/ up = 0 \/ arr[up] = v
       PROVE  arr'[x] = Worth(x)'
  <2>1. arr'[x] = arr[x]
    BY <1>2, <1>4, <1>10, Sizes DEF TreeInv, TypeOK
  <2>2. Worth(x)' = Worth(x)
    <3>1. CASE arr[up] = v
      <4>1. arr' = arr
        BY <3>1, <1>2, <1>4 DEF TreeInv, TypeOK
      <4> QED
        BY <4>1 DEF Worth, LargerChild, RightValue, LeftChild, RightChild
    <3>2. CASE x # Parent(up) \/ up = 0
      BY <3>2, <1>2, <1>4, WorthUnchanged DEF TreeInv
    <3> QED
      BY <3>1, <3>2, <1>10
  <2> QED
    BY <1>6, <1>10, <2>1, <2>2
<1>11. HeapOrdered'
  <2>1. ASSUME NEW x \in Inner, x \notin Pending'
        PROVE  arr'[x] = Worth(x)'
    <3>1. CASE x = up
      BY <3>1, <1>9
    <3>2. CASE x # up /\ pc' = "idle"
      BY <3>2, <1>4, <1>10
    <3>3. CASE x # up /\ pc' = "set"
      <4>1. x # Parent(up)
        BY <2>1, <3>3, <1>4 DEF Pending, Parent
      <4> QED
        BY <3>3, <4>1, <1>10
    <3> QED
      BY <3>1, <3>2, <3>3, <1>4
  <2> QED
    BY <2>1 DEF HeapOrdered
<1>12. SearchInv'
  BY <1>4 DEF SearchInv
<1> QED
  BY <1>8, <1>11, <1>12 DEF TreeInv

\* TreeInv is inductive.
LEMMA TreeInvInductive == TreeInv /\ [Next]_vars => TreeInv'
<1> SUFFICES ASSUME TreeInv, [Next]_vars
             PROVE  TreeInv'
  OBVIOUS
<1>1. ASSUME NEW slot \in Slots, NEW space \in Space, SetAvailableSpace(slot, space)
      PROVE  TreeInv'
  BY <1>1, SetAvailableSpaceKeeps
<1>2. CASE UpdateParent
  BY <1>2, UpdateParentKeeps
<1>3. ASSUME arr' = arr, pc # "set", pc' # "set"
      PROVE  HeapOrdered'
  <2>1. Pending = {} /\ Pending' = {}
    BY <1>3 DEF Pending
  <2>2. \A x \in Inner : Worth(x)' = Worth(x)
    BY <1>3 DEF Worth, LargerChild, RightValue, LeftChild, RightChild
  <2> QED
    BY <1>3, <2>1, <2>2 DEF TreeInv, HeapOrdered
<1>4. ASSUME NEW min \in Space \ {0}, NothingAvailable(min)
      PROVE  TreeInv'
  <2>1. NoSlot \in Slots \cup {NoSlot}
    OBVIOUS
  <2> QED
    BY <1>3, <1>4, <2>1 DEF NothingAvailable, TreeInv, TypeOK, SearchInv
<1>5. ASSUME NEW min \in Space \ {0}, FindAvailable(min)
      PROVE  TreeInv'
  <2>1. HeapOrdered'
    BY <1>3, <1>5 DEF FindAvailable
  <2>2. min > 0
    BY TreeAssumption DEF Space
  <2> QED
    BY <1>5, <2>1, <2>2, Sizes DEF FindAvailable, TreeInv, TypeOK, SearchInv
<1>6. CASE Descend
  <2>1. HeapOrdered'
    BY <1>3, <1>6 DEF Descend
  <2>2. wanted > 0 /\ wanted \in Nat
    BY <1>6, TreeAssumption DEF Descend, TreeInv, SearchInv, TypeOK, Space
  <2>3. node' \in Index /\ arr[node'] >= wanted
    <3>1. CASE node' = LeftChild(node) /\ arr[LeftChild(node)] >= wanted
      BY <1>6, <3>1 DEF Descend
    <3>2. CASE node' = RightChild(node) /\ RightValue(node) >= wanted
      <4>1. RightChild(node) \in Index
        BY <2>2, <3>2 DEF RightValue
      <4> QED
        BY <3>2, <4>1 DEF RightValue
    <3> QED
      BY <1>6, <3>1, <3>2 DEF Descend
  <2> QED
    BY <1>6, <2>1, <2>2, <2>3 DEF Descend, TreeInv, TypeOK, SearchInv
<1>7. CASE EndSearch
  <2>1. HeapOrdered'
    BY <1>3, <1>7 DEF EndSearch
  <2>2. result' \in Slots \cup {NoSlot}
    <3>1. node \in Leaf => node - NonLeafNodes \in Slots
      BY Sizes DEF Leaf, Slots
    <3> QED
      BY <1>7, <3>1 DEF EndSearch
  <2>3. 0 \in Space /\ 0 \in Index
    BY Sizes, TreeAssumption DEF Space
  <2> QED
    BY <1>7, <2>1, <2>2, <2>3 DEF EndSearch, TreeInv, TypeOK, SearchInv
<1>8. CASE UNCHANGED vars
  BY <1>8 DEF vars, TreeInv, TypeOK, HeapOrdered, SearchInv, Pending, Worth,
              LargerChild, RightValue, LeftChild, RightChild, Parent
<1> QED
  BY <1>1, <1>2, <1>4, <1>5, <1>6, <1>7, <1>8 DEF Next, Step

\* A search that stands on an inner node of an ordered tree can go on.
LEMMA CanDescend == TreeInv => NeverCorrupted
<1> SUFFICES ASSUME TreeInv, pc = "find", node \in Inner
             PROVE  LeftChild(node) \in Index /\ ~(LargerChild(node) < wanted)
  BY DEF NeverCorrupted, Corrupted
<1>1. arr[node] = Worth(node)
  BY DEF TreeInv, HeapOrdered, Pending
<1>2. wanted > 0 /\ arr[node] >= wanted /\ wanted \in Nat
  BY TreeAssumption DEF TreeInv, SearchInv, TypeOK, Space
<1>3. LeftChild(node) \in Index
  BY <1>1, <1>2 DEF Worth
<1>4. LargerChild(node) \in Nat
  <2>1. node \in Nat
    BY Sizes
  <2> QED
    BY <1>3, <2>1, ChildSpace DEF TreeInv, Space
<1> QED
  BY <1>1, <1>2, <1>3, <1>4 DEF Worth

\* Every node, slot and category is one, whatever the loops do.
THEOREM TreeTypes == Spec => []TypeOK
<1>1. TreeInv => TypeOK
  BY DEF TreeInv
<1> QED
  BY <1>1, TreeInvInit, TreeInvInductive, PTL DEF Spec

\* Whatever slots are set in whatever order, the tree stays ordered outside the
\* node being updated.
THEOREM TreeStaysOrdered == Spec => []HeapOrdered
<1>1. TreeInv => HeapOrdered
  BY DEF TreeInv
<1> QED
  BY <1>1, TreeInvInit, TreeInvInductive, PTL DEF Spec

\* The branch of find_available that "should never be reached" is not reached.
THEOREM SearchNeverCorrupted == Spec => []NeverCorrupted
  BY CanDescend, TreeInvInit, TreeInvInductive, PTL DEF Spec

\* A search that the root has space for returns a slot that has it.
THEOREM SearchFinds == Spec => FoundHasSpace
<1>1. ASSUME TreeInv, [Next]_vars, pc = "find", pc' = "idle"
      PROVE  result' \in Slots /\ arr[NonLeafNodes + result'] >= wanted
  <2>1. EndSearch
    BY <1>1 DEF Next, Step, SetAvailableSpace, NothingAvailable, FindAvailable,
                UpdateParent, Descend, vars
  <2>2. node \in Leaf
    <3>1. node \notin Inner
      BY <1>1, <2>1, CanDescend DEF EndSearch, NeverCorrupted
    <3> QED
      BY <1>1, <3>1, Sizes DEF TreeInv, TypeOK, Index, Inner, Leaf
  <2>3. result' = node - NonLeafNodes /\ node \in Int /\ NonLeafNodes \in Int
    BY <2>1, <2>2, Sizes DEF EndSearch, Leaf
  <2>4. result' \in Slots /\ NonLeafNodes + result' = node
    BY <2>2, <2>3, Sizes DEF Leaf, Slots
  <2> QED
    BY <1>1, <2>4 DEF TreeInv, SearchInv
<1>2. TreeInv /\ [Next]_vars =>
         [pc = "find" /\ pc' = "idle"
             => result' \in Slots /\ arr[NonLeafNodes + result'] >= wanted]_vars
  BY <1>1
<1> QED
  BY <1>2, TreeInvInit, TreeInvInductive, PTL DEF Spec, FoundHasSpace

---------------------------------------------------------------------------
(* The map from slots to space. *)

\* The first nodes of the levels, from the root to the leaves: all leaves are on
\* one level.  So it is when the size of a page is a power of two, which the
\* code insists on (page.rs 45).
Levels(firsts) ==
    /\ firsts \subseteq 0..NonLeafNodes
    /\ 0 \in firsts
    /\ \A l \in firsts : l = NonLeafNodes \/ LeftChild(l) \in firsts

OneLevel == \E firsts : Levels(firsts)

\* A search has left nothing behind it on its level.
LeftOfSearch(firsts) ==
    pc = "find" => \E l \in firsts : /\ node \in l..(2 * l)
                                    /\ \A y \in l..(node - 1) : arr[y] < wanted

\* Outside set_available_space no node is worth more than its parent.
LEMMA ParentIsWorthMore ==
    ASSUME TreeInv, pc # "set", NEW y \in Index, y # 0
    PROVE  arr[y] <= arr[Parent(y)]
<1> PICK up : up = Parent(y)
  OBVIOUS
<1>1. up \in Inner /\ LeftChild(up) \in Index /\ up \in Nat /\ y \in Nat
  BY Sizes, Family
<1>2. LeftChild(up) = y \/ RightChild(up) = y
  BY <1>1, Family
<1>3. arr[up] = LargerChild(up)
  BY <1>1 DEF TreeInv, HeapOrdered, Pending, Worth
<1>4. arr[LeftChild(up)] \in Nat /\ RightValue(up) \in Nat /\ arr[y] \in Nat
  <2>1. TypeOK /\ arr \in [Index -> Space] /\ Space \subseteq Nat
    BY TreeAssumption DEF TreeInv, TypeOK, Space
  <2>2. RightValue(up) \in Space
    BY <1>1, <2>1, ChildSpace
  <2> QED
    BY <1>1, <2>1, <2>2
<1>5. CASE LeftChild(up) = y
  BY <1>3, <1>4, <1>5 DEF LargerChild
<1>6. CASE RightChild(up) = y
  <2>1. RightValue(up) = arr[y]
    BY <1>6 DEF RightValue
  <2> QED
    BY <1>3, <1>4, <2>1 DEF LargerChild
<1> QED
  BY <1>2, <1>5, <1>6

\* The root is worth most.
LEMMA RootIsWorthMost ==
    ASSUME TreeInv, pc # "set", NEW y \in Index
    PROVE  arr[y] <= arr[0]
<1> DEFINE T == {x \in Index : arr[x] > arr[0]}
<1>1. \A x \in Index : arr[x] \in Nat
  BY DEF TreeInv, TypeOK, Space
<1>2. 0 \in Index /\ Index \subseteq Nat
  BY Sizes
<1>3. SUFFICES ASSUME T # {} PROVE FALSE
  BY <1>1, <1>2
<1>4. PICK x \in T : \A z \in T : x <= z
  BY <1>2, <1>3, LeastExists
<1>5. x \in Index /\ x \in Nat /\ arr[x] > arr[0] /\ x # 0
  BY <1>1, <1>2, <1>4
<1>6. Parent(x) \in Index /\ Parent(x) < x /\ Parent(x) \in Nat
  BY <1>5, Sizes, Family
<1>7. arr[x] <= arr[Parent(x)]
  BY <1>5, ParentIsWorthMore
<1>8. Parent(x) \in T
  BY <1>1, <1>2, <1>5, <1>6, <1>7
<1> QED
  BY <1>4, <1>5, <1>6, <1>8

\* The nodes left of a child on its level are children of the nodes left of its
\* parent, or the parent's left child.
LeftOf(y, child, x, l) ==
    /\ y \in Nat /\ y # 0 /\ y < child
    /\ Parent(y) = x => y = LeftChild(x) /\ child = RightChild(x)
    /\ Parent(y) # x => Parent(y) \in l..(x - 1)

LEMMA NextLevel ==
    ASSUME NEW l \in Nat, NEW x \in l..(2 * l), NEW child \in {LeftChild(x), RightChild(x)}
    PROVE  /\ child \in LeftChild(l)..(2 * LeftChild(l))
           /\ \A y \in LeftChild(l)..(child - 1) : LeftOf(y, child, x, l)
<1>1. x \in Nat /\ l <= x /\ x <= 2 * l /\ child \in {2 * x + 1, 2 * x + 2}
  BY DEF LeftChild, RightChild
<1>2. child \in Nat /\ 2 * l + 1 <= child /\ child <= 4 * l + 2
  BY <1>1
<1>3. ASSUME NEW y \in (2 * l + 1)..(child - 1)
      PROVE  /\ y \in Nat /\ y # 0 /\ y < child
             /\ (y - 1) \div 2 = x => y = 2 * x + 1 /\ child = 2 * x + 2
             /\ (y - 1) \div 2 # x => (y - 1) \div 2 \in l..(x - 1)
  BY <1>1, <1>2
<1> QED
  BY <1>2, <1>3 DEF LeftOf, LeftChild, RightChild, Parent

\* A step down goes on on the next level.
LEMMA DescendLeaves ==
    ASSUME NEW firsts, Levels(firsts), TreeInv, LeftOfSearch(firsts), Descend
    PROVE  LeftOfSearch(firsts)'
<1>1. /\ pc = "find" /\ pc' = "find" /\ node \in Inner /\ arr' = arr /\ wanted' = wanted
      /\ LeftChild(node) \in Index /\ wanted \in Nat /\ wanted > 0
      /\ \/ node' = LeftChild(node)
         \/ arr[LeftChild(node)] < wanted /\ RightValue(node) >= wanted /\ node' = RightChild(node)
  BY TreeAssumption DEF Descend, TreeInv, SearchInv, TypeOK, Space
<1>2. PICK l \in firsts : node \in l..(2 * l) /\ \A y \in l..(node - 1) : arr[y] < wanted
  BY <1>1 DEF LeftOfSearch
<1>3. l \in Nat /\ node \in Nat /\ NonLeafNodes \in Nat /\ l # NonLeafNodes
  BY <1>1, <1>2, Sizes DEF Levels, Inner
<1>4. LeftChild(l) \in firsts
  BY <1>2, <1>3 DEF Levels
<1>5. node' \in {LeftChild(node), RightChild(node)} /\ node' \in Index
  <2>1. RightValue(node) >= wanted => RightChild(node) \in Index
    BY <1>1 DEF RightValue
  <2> QED
    BY <1>1, <2>1
<1>6. node' \in LeftChild(l)..(2 * LeftChild(l))
  BY <1>2, <1>3, <1>5, NextLevel
<1>7. ASSUME NEW y, y \in LeftChild(l)..(node' - 1) PROVE arr[y] < wanted
  <2>0. ASSUME NEW x \in l..(2 * l), NEW child \in {LeftChild(x), RightChild(x)},
               y \in LeftChild(l)..(child - 1)
        PROVE  LeftOf(y, child, x, l)
    BY <1>3, <2>0, NextLevel
  <2>1. /\ y \in Nat /\ y # 0 /\ y < node'
        /\ Parent(y) = node => y = LeftChild(node) /\ node' = RightChild(node)
        /\ Parent(y) # node => Parent(y) \in l..(node - 1)
    BY <1>2, <1>5, <1>7, <2>0, Zenon DEF LeftOf
  <2>2. y \in Index
    <3>1. \A a \in Index, b \in Nat : b < a => b \in Index
      BY Sizes DEF Index
    <3> QED
      BY <1>5, <2>1, <3>1
  <2>3. CASE Parent(y) = node
    BY <1>1, <1>3, <2>1, <2>3 DEF LeftChild, RightChild
  <2>4. CASE Parent(y) # node
    <3>1. arr[Parent(y)] < wanted /\ arr[y] <= arr[Parent(y)]
      BY <1>1, <1>2, <2>1, <2>2, <2>4, ParentIsWorthMore
    <3>2. arr[y] \in Nat /\ arr[Parent(y)] \in Nat
      <4>1. Parent(y) \in Index
        BY <2>1, <2>2, Sizes
      <4>2. arr \in [Index -> Space] /\ Space \subseteq Nat
        BY TreeAssumption DEF TreeInv, TypeOK, Space
      <4> QED
        BY <2>2, <4>1, <4>2
    <3> QED
      BY <1>1, <3>1, <3>2
  <2> QED
    BY <2>3, <2>4
<1> QED
  BY <1>1, <1>4, <1>6, <1>7 DEF LeftOfSearch

LEMMA LeftOfSearchInductive ==
    ASSUME NEW firsts, Levels(firsts)
    PROVE  TreeInv /\ LeftOfSearch(firsts) /\ [Next]_vars => LeftOfSearch(firsts)'
<1> SUFFICES ASSUME TreeInv, LeftOfSearch(firsts), [Next]_vars PROVE LeftOfSearch(firsts)'
  OBVIOUS
<1>1. ASSUME NEW min, FindAvailable(min) PROVE LeftOfSearch(firsts)'
  <2>1. node' = 0 /\ 0 \in firsts
    BY <1>1 DEF FindAvailable, Levels
  <2> QED
    BY <2>1 DEF LeftOfSearch
<1>2. CASE Descend
  BY <1>2, DescendLeaves
<1>3. ASSUME pc' # "find" PROVE LeftOfSearch(firsts)'
  BY <1>3 DEF LeftOfSearch
<1>4. CASE UNCHANGED vars
  BY <1>4 DEF vars, LeftOfSearch
<1> QED
  BY <1>1, <1>2, <1>3, <1>4 DEF Next, Step, SetAvailableSpace, UpdateParent, NothingAvailable, EndSearch

\* What the map's variable is here.
SpaceNow == [slot \in Slots |-> arr[NonLeafNodes + slot]]

LEMMA SlotLeaves ==
    /\ \A slot \in Slots : NonLeafNodes + slot \in Index /\ NonLeafNodes + slot \notin Inner /\ slot \in Nat
    /\ \A slot, other \in Slots : NonLeafNodes + slot = NonLeafNodes + other => slot = other
BY Sizes DEF Slots, Index, Inner

LEMMA StepMaps ==
    ASSUME NEW firsts, Levels(firsts)
    PROVE  TreeInv /\ LeftOfSearch(firsts) /\ [Next]_vars => [Map!Next]_Map!vars
<1> SUFFICES ASSUME TreeInv, LeftOfSearch(firsts), [Next]_vars
             PROVE  Map!Next \/ UNCHANGED <<SpaceNow, pc, wanted, result>>
  BY DEF Map!vars, SpaceNow
<1>1. arr \in [Index -> Space] /\ node \in Index /\ Space \subseteq Nat /\ wanted \in Nat
  BY TreeAssumption DEF TreeInv, TypeOK, Space
<1>2. ASSUME NEW slot \in Slots, NEW space \in Space, SetAvailableSpace(slot, space) PROVE Map!Next
  <2>1. SpaceNow' = [SpaceNow EXCEPT ![slot] = space]
    BY <1>1, <1>2, SlotLeaves DEF SetAvailableSpace, SpaceNow
  <2> QED
    BY <1>2, <2>1 DEF SetAvailableSpace, Map!Next, Map!Set, SpaceNow
<1>3. CASE UpdateParent
  <2>1. Parent(node) \in Inner
    BY <1>3, Sizes DEF UpdateParent, TreeInv, SearchInv, TypeOK
  <2>2. arr' = [arr EXCEPT ![Parent(node)] = LargerChild(Parent(node))]
    BY <1>3 DEF UpdateParent
  <2>3. SpaceNow' = SpaceNow
    BY <1>1, <2>1, <2>2, SlotLeaves DEF SpaceNow
  <2> QED
    BY <1>3, <2>3 DEF UpdateParent, Map!Next, Map!Finish, SpaceNow
<1>4. ASSUME arr' = arr PROVE SpaceNow' = SpaceNow
  BY <1>4 DEF SpaceNow
<1>5. ASSUME NEW min \in Space \ {0}, NothingAvailable(min) PROVE Map!Next
  <2>1. \A slot \in Slots : SpaceNow[slot] < min
    <3> SUFFICES ASSUME NEW slot \in Slots PROVE arr[NonLeafNodes + slot] < min
      BY DEF SpaceNow
    <3>1. arr[NonLeafNodes + slot] <= arr[0] /\ arr[0] < min
      BY <1>5, SlotLeaves, RootIsWorthMost DEF NothingAvailable
    <3>2. arr[0] \in Nat /\ arr[NonLeafNodes + slot] \in Nat /\ min \in Nat
      BY <1>1, Sizes, SlotLeaves
    <3> QED
      BY <3>1, <3>2
  <2>2. Map!Refuse(min)
    BY <1>4, <1>5, <2>1 DEF NothingAvailable, Map!Refuse, Map!IsFirst, SpaceNow
  <2> QED
    BY <1>5, <2>2 DEF Map!Next
<1>6. ASSUME NEW min \in Space \ {0}, FindAvailable(min) PROVE Map!Next
  <2>1. Map!Ask(min)
    BY <1>4, <1>6 DEF FindAvailable, Map!Ask, SpaceNow
  <2> QED
    BY <1>6, <2>1 DEF Map!Next
<1>7. CASE Descend
  BY <1>4, <1>7 DEF Descend
<1>8. CASE EndSearch
  <2>1. node \in Leaf
    <3>1. node \notin Inner
      BY <1>8, CanDescend DEF EndSearch, NeverCorrupted
    <3> QED
      BY <1>1, <3>1, Sizes DEF Index, Inner, Leaf
  <2>2. /\ pc = "find" /\ pc' = "idle" /\ arr' = arr /\ wanted' = wanted
        /\ result' = node - NonLeafNodes /\ arr[node] >= wanted
    BY <1>8, <2>1 DEF EndSearch, TreeInv, SearchInv
  <2>3. PICK l \in firsts : node \in l..(2 * l) /\ \A y \in l..(node - 1) : arr[y] < wanted
    BY <2>2 DEF LeftOfSearch
  <2>4. l = NonLeafNodes
    <3>1. 2 * l + 1 \notin firsts
      BY <2>1, <2>3, Sizes DEF Levels, Leaf
    <3> QED
      BY <2>3, <3>1 DEF Levels, LeftChild
  <2> PICK found : found = node - NonLeafNodes
    OBVIOUS
  <2>5. found \in Slots /\ NonLeafNodes + found = node /\ found \in Nat
    BY <2>1, Sizes DEF Leaf, Slots
  <2>6. SpaceNow[found] >= wanted
    BY <2>2, <2>5 DEF SpaceNow
  <2>7. \A s \in Slots : s < found => SpaceNow[s] < wanted
    <3> SUFFICES ASSUME NEW s \in Slots, s < found PROVE arr[NonLeafNodes + s] < wanted
      BY DEF SpaceNow
    <3>1. NonLeafNodes + s \in l..(node - 1)
      BY <2>4, <2>5, Sizes, SlotLeaves
    <3> QED
      BY <2>3, <3>1
  <2>8. Map!Answer
    BY <1>4, <2>2, <2>5, <2>6, <2>7 DEF Map!Answer, Map!IsFirst, SpaceNow
  <2> QED
    BY <2>8 DEF Map!Next
<1>9. CASE UNCHANGED vars
  BY <1>4, <1>9 DEF vars
<1> QED
  BY <1>2, <1>3, <1>5, <1>6, <1>7, <1>8, <1>9 DEF Next, Step

\* Setting a slot takes effect with its first write; a search answers with the
\* leftmost slot that has the space, and with None only when no slot has it.
THEOREM TreeIsSpaceMap ==
    ASSUME OneLevel PROVE Spec => ImplementsSpaceMap
<1>1. PICK firsts : Levels(firsts)
  BY DEF OneLevel
<1>2. Init => Map!Init /\ LeftOfSearch(firsts)
  BY SlotLeaves DEF Init, Map!Init, LeftOfSearch
<1>3. TreeInv /\ LeftOfSearch(firsts) /\ [Next]_vars => LeftOfSearch(firsts)'
  BY <1>1, LeftOfSearchInductive
<1>4. TreeInv /\ LeftOfSearch(firsts) /\ [Next]_vars => [Map!Next]_Map!vars
  BY <1>1, StepMaps
<1> QED
  BY <1>2, <1>3, <1>4, TreeInvInit, TreeInvInductive, PTL DEF Spec, ImplementsSpaceMap, Map!Spec

=============================================================================
