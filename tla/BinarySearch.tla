--------------------------- MODULE BinarySearch ---------------------------
(***************************************************************************)
(* binary_search over the keys of a B+ tree node (src/tree/node.rs 14-46): *)
(* bisection down to a short stretch of keys, then a scan of it.  A step   *)
(* is one iteration.  Positions count from 0, as in the code.              *)
(***************************************************************************)
EXTENDS Integers

CONSTANTS
    Arrays,     \* the key arrays nodes can have
    Stretch     \* the loop ends when high - low is at most this (8)

\* The keys of a node are integers, sorted and distinct.
ASSUME SearchAssumption ==
    /\ \A a \in Arrays :
          /\ a.length \in Nat
          /\ a.keys \in [0..(a.length - 1) -> Int]
          /\ \A p, q \in 0..(a.length - 1) : p < q => a.keys[p] < a.keys[q]
    /\ Stretch \in Nat

VARIABLES
    keys,       \* the keys of the node, a function on 0..(length - 1)
    length,
    key,        \* the key looked for
    pc,         \* "start", "bisect", "scan" or "done"
    low, high,
    i,          \* position of the scan
    answer      \* the response

vars == <<keys, length, key, pc, low, high, i, answer>>

Position == 0..(length - 1)

Response == [kind : {"GreaterThanTheLast", "Equal", "LessThan"}, index : Nat]

GreaterThanTheLast(p) == [kind |-> "GreaterThanTheLast", index |-> p]
Equal(p)              == [kind |-> "Equal", index |-> p]
LessThan(p)           == [kind |-> "LessThan", index |-> p]

\* Wrong: len() - 1.
LastElementOfSome == length - 1

\* len().saturating_sub(1)
LastElement == IF length = 0 THEN 0 ELSE length - 1

\* Keys looked for: those of the arrays and their neighbours.
Sought == UNION {{a.keys[p] + d : p \in 0..(a.length - 1), d \in {-1, 0, 1}} :
                    a \in Arrays}

Init ==
    /\ \E a \in Arrays : keys = a.keys /\ length = a.length
    /\ key \in Sought
    /\ pc = "start"
    /\ low = 0
    /\ high = LastElement
    /\ i = 0
    /\ answer = GreaterThanTheLast(0)

Return(r) ==
    /\ answer' = r
    /\ pc' = "done"
    /\ UNCHANGED <<keys, length, key, low, high, i>>

Goto(where) == pc' = where /\ UNCHANGED <<keys, length, key, answer>>

\* The early return: no keys, or none that is not smaller.
Start ==
    /\ pc = "start"
    /\ IF length = 0 \/ key > keys[LastElement]
       THEN Return(GreaterThanTheLast(LastElement))
       ELSE Goto("bisect") /\ UNCHANGED <<low, high, i>>

\* Wrong: the middle is left out although it may be the first larger key.
BisectBelowMiddle ==
    LET mid == (low + high) \div 2 IN
    /\ pc = "bisect"
    /\ high - low > Stretch
    /\ \/ key = keys[mid] /\ Return(Equal(mid))
       \/ key < keys[mid] /\ high' = mid - 1 /\ Goto("bisect") /\ UNCHANGED <<low, i>>
       \/ key > keys[mid] /\ low' = mid + 1 /\ Goto("bisect") /\ UNCHANGED <<high, i>>

Bisect ==
    LET mid == (low + high) \div 2 IN
    /\ pc = "bisect"
    /\ high - low > Stretch
    /\ \/ key = keys[mid] /\ Return(Equal(mid))
       \/ key < keys[mid] /\ high' = mid /\ Goto("bisect") /\ UNCHANGED <<low, i>>
       \/ key > keys[mid] /\ low' = mid + 1 /\ Goto("bisect") /\ UNCHANGED <<high, i>>

EndBisect ==
    /\ pc = "bisect"
    /\ high - low <= Stretch
    /\ i' = low
    /\ Goto("scan") /\ UNCHANGED <<low, high>>

\* Wrong: an equal key counts as larger.
ScanEqualAsLess ==
    /\ pc = "scan"
    /\ i <= high
    /\ \/ key <= keys[i] /\ Return(LessThan(i))
       \/ key > keys[i] /\ i' = i + 1 /\ Goto("scan") /\ UNCHANGED <<low, high>>

\* Wrong: the scan does not move on.
ScanStays ==
    /\ pc = "scan"
    /\ i <= high
    /\ \/ key < keys[i] /\ Return(LessThan(i))
       \/ key = keys[i] /\ Return(Equal(i))
       \/ key > keys[i] /\ UNCHANGED vars

Scan ==
    /\ pc = "scan"
    /\ i <= high
    /\ \/ key < keys[i] /\ Return(LessThan(i))
       \/ key = keys[i] /\ Return(Equal(i))
       \/ key > keys[i] /\ i' = i + 1 /\ Goto("scan") /\ UNCHANGED <<low, high>>

\* The scan ran past high: "Should never reach this point".  The code would
\* answer GreaterThanTheLast; here nothing is enabled, and the deadlock check
\* and NeverPastTheEnd say that it does not happen.
PastTheEnd == pc = "scan" /\ i > high

Done == pc = "done" /\ UNCHANGED vars

Step == Start \/ Bisect \/ EndBisect \/ Scan
Next == Step \/ Done

\* The loops run on.
Spec == Init /\ [][Next]_vars /\ WF_vars(Step)

---------------------------------------------------------------------------
(* Properties. *)

\* Every index stays within the keys; high - low, a usize, never underflows.
TypeOK ==
    /\ length \in Nat
    /\ keys \in [Position -> Int]
    /\ key \in Int
    /\ pc \in {"start", "bisect", "scan", "done"}
    /\ low \in Nat /\ high \in Nat /\ i \in Nat
    /\ pc \in {"bisect", "scan"} => low <= high /\ high \in Position
    /\ answer \in Response

\* What each response says about the keys.
Means(r) ==
    CASE r.kind = "Equal" ->
            r.index \in Position /\ keys[r.index] = key
      [] r.kind = "LessThan" ->
            /\ r.index \in Position
            /\ key < keys[r.index]
            /\ \A p \in Position : p < r.index => keys[p] < key
      [] r.kind = "GreaterThanTheLast" ->
            /\ \A p \in Position : keys[p] < key
            /\ r.index = LastElement

\* The answer is right: the position of the key, or of the first larger key,
\* or that there is none.
AnswerCorrect == pc = "done" => Means(answer)

\* node.rs 44, "Should never reach this point".
NeverPastTheEnd == ~PastTheEnd

\* Every search ends.
SearchEnds == <>(pc = "done")

=============================================================================
