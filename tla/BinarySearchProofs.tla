------------------------ MODULE BinarySearchProofs ------------------------
(***************************************************************************)
(* Proofs about BinarySearch.tla, for key arrays of any length.            *)
(*                                                                         *)
(* SearchInv is the loop invariant: everything below low (below i during   *)
(* the scan) is smaller than the key, and the element at high is not.      *)
(***************************************************************************)
EXTENDS BinarySearch, TLAPS

Increasing == \A p, q \in Position : p < q => keys[p] < keys[q]

SearchInv ==
    /\ TypeOK
    /\ Increasing
    /\ pc = "start" => low = 0 /\ high = LastElement
    /\ pc \in {"bisect", "scan"} =>
          /\ \A p \in Position : p < low => keys[p] < key
          /\ key <= keys[high]
    /\ pc = "scan" =>
          /\ i <= high
          /\ \A p \in Position : p < i => keys[p] < key
    /\ AnswerCorrect

LEMMA SearchInvInit == Init => SearchInv
<1> SUFFICES ASSUME Init PROVE SearchInv
  OBVIOUS
<1>1. PICK a \in Arrays : keys = a.keys /\ length = a.length
  BY DEF Init
<1>2. /\ length \in Nat /\ keys \in [Position -> Int]
      /\ Increasing
  BY <1>1, SearchAssumption DEF Position, Increasing
<1>3. key \in Int
  <2>1. PICK b \in Arrays : \E p \in 0..(b.length - 1) : \E d \in {-1, 0, 1} :
           key = b.keys[p] + d
    BY DEF Init, Sought
  <2> PICK p \in 0..(b.length - 1), d \in {-1, 0, 1} : key = b.keys[p] + d
    BY <2>1
  <2>2. b.keys[p] \in Int
    BY SearchAssumption
  <2> QED
    BY <2>2
<1> QED
  BY <1>2, <1>3 DEF Init, SearchInv, TypeOK, LastElement, AnswerCorrect,
                    GreaterThanTheLast, Response

LEMMA SearchInvInductive == SearchInv /\ [Next]_vars => SearchInv'
<1> SUFFICES ASSUME SearchInv, [Next]_vars
             PROVE  SearchInv'
  OBVIOUS
<1>1. CASE Start
  <2>1. CASE length = 0 \/ key > keys[LastElement]
    <3>1. answer' = GreaterThanTheLast(LastElement) /\ pc' = "done"
          /\ UNCHANGED <<keys, length, key, low, high, i>>
      BY <1>1, <2>1 DEF Start, Return
    <3>2. \A p \in Position : keys[p] < key
      BY <2>1 DEF SearchInv, TypeOK, Position, Increasing, LastElement
    <3>3. LastElement \in Nat
      BY DEF SearchInv, TypeOK, LastElement
    <3> QED
      BY <3>1, <3>2, <3>3 DEF SearchInv, TypeOK, Increasing, AnswerCorrect, Means,
                              GreaterThanTheLast, Response, Position, LastElement
  <2>2. CASE ~(length = 0 \/ key > keys[LastElement])
    <3>1. pc' = "bisect" /\ UNCHANGED <<keys, length, key, answer, low, high, i>>
      BY <1>1, <2>2 DEF Start, Goto
    <3>2. /\ low = 0 /\ high = length - 1 /\ high \in Position /\ low <= high
          /\ key <= keys[high]
      BY <1>1, <2>2 DEF Start, SearchInv, TypeOK, LastElement, Position
    <3> QED
      BY <3>1, <3>2 DEF SearchInv, TypeOK, Increasing, AnswerCorrect, Position
  <2> QED
    BY <2>1, <2>2
<1>2. CASE Bisect
  <2> DEFINE mid == (low + high) \div 2
  <2>1. /\ low \in Nat /\ high \in Position /\ low <= high /\ pc = "bisect"
        /\ key \in Int /\ keys \in [Position -> Int] /\ length \in Nat
    BY <1>2 DEF Bisect, SearchInv, TypeOK
  <2>2. mid \in Position /\ low <= mid /\ mid < high
    BY <1>2, <2>1, SearchAssumption DEF Bisect, Position
  <2>3. CASE key = keys[mid] /\ Return(Equal(mid))
    BY <2>1, <2>2, <2>3 DEF Return, SearchInv, TypeOK, Increasing, AnswerCorrect,
                            Means, Equal, Response, Position
  <2>4. CASE key < keys[mid] /\ high' = mid /\ Goto("bisect") /\ UNCHANGED <<low, i>>
    <3> HIDE DEF mid
    <3> QED
      BY <2>1, <2>2, <2>4 DEF Goto, SearchInv, TypeOK, Increasing, AnswerCorrect,
                              Position
  <2>5. CASE key > keys[mid] /\ low' = mid + 1 /\ Goto("bisect") /\ UNCHANGED <<high, i>>
    <3>1. \A p \in Position : p < mid + 1 => keys[p] < key
      BY <2>1, <2>2, <2>5, SMTT(30) DEF SearchInv, Increasing, Position
    <3> HIDE DEF mid
    <3>2. mid + 1 \in Nat /\ mid + 1 <= high
      BY <2>1, <2>2 DEF Position
    <3> QED
      BY <2>1, <2>2, <2>5, <3>1, <3>2 DEF Goto, SearchInv, TypeOK, Increasing,
                                          AnswerCorrect, Position
  <2> QED
    BY <1>2, <2>3, <2>4, <2>5 DEF Bisect
<1>3. CASE EndBisect
  BY <1>3 DEF EndBisect, Goto, SearchInv, TypeOK, Increasing, AnswerCorrect, Position
<1>4. CASE Scan
  <2>1. /\ low \in Nat /\ high \in Position /\ low <= high /\ i \in Nat /\ pc = "scan"
        /\ key \in Int /\ keys \in [Position -> Int] /\ length \in Nat /\ i <= high
        /\ key <= keys[high]
        /\ \A p \in Position : p < i => keys[p] < key
    BY <1>4 DEF Scan, SearchInv, TypeOK
  <2>2. i \in Position
    BY <2>1 DEF Position
  <2>3. CASE key < keys[i] /\ Return(LessThan(i))
    BY <2>1, <2>2, <2>3 DEF Return, SearchInv, TypeOK, Increasing, AnswerCorrect,
                            Means, LessThan, Response, Position
  <2>4. CASE key = keys[i] /\ Return(Equal(i))
    BY <2>1, <2>2, <2>4 DEF Return, SearchInv, TypeOK, Increasing, AnswerCorrect,
                            Means, Equal, Response, Position
  <2>5. CASE key > keys[i] /\ i' = i + 1 /\ Goto("scan") /\ UNCHANGED <<low, high>>
    <3>1. i # high
      BY <2>1, <2>2, <2>5
    <3>2. i + 1 <= high /\ \A p \in Position : p < i + 1 => keys[p] < key
      BY <2>1, <2>2, <2>5, <3>1 DEF Position
    <3> QED
      BY <2>1, <2>5, <3>2 DEF Goto, SearchInv, TypeOK, Increasing, AnswerCorrect,
                              Position
  <2> QED
    BY <1>4, <2>3, <2>4, <2>5 DEF Scan
<1>5. CASE UNCHANGED vars
  BY <1>5 DEF vars, SearchInv, TypeOK, Increasing, AnswerCorrect, Means, Position,
              LastElement
<1> QED
  BY <1>1, <1>2, <1>3, <1>4, <1>5 DEF Next, Step, Done

\* binary_search stays within the keys and answers right, whatever the length
\* of the node and the stretch it scans.
THEOREM SearchCorrect == Spec => []AnswerCorrect
<1>1. SearchInv => AnswerCorrect
  BY DEF SearchInv
<1> QED
  BY <1>1, SearchInvInit, SearchInvInductive, PTL DEF Spec

\* No index leaves the keys and no subtraction underflows.
THEOREM SearchInBounds == Spec => []TypeOK
<1>1. SearchInv => TypeOK
  BY DEF SearchInv
<1> QED
  BY <1>1, SearchInvInit, SearchInvInductive, PTL DEF Spec

\* The return at the end of the function is never reached.
THEOREM ScanNeverRunsOut == Spec => []NeverPastTheEnd
<1>1. SearchInv => NeverPastTheEnd
  BY DEF SearchInv, NeverPastTheEnd, PastTheEnd, TypeOK, Position
<1> QED
  BY <1>1, SearchInvInit, SearchInvInductive, PTL DEF Spec

=============================================================================
