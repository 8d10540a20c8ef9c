------------------------------ MODULE SpaceMap ------------------------------
(***************************************************************************)
(* What a free space tree promises: a map from slots to the space each     *)
(* has, and a search for the leftmost slot with at least some space.       *)
(***************************************************************************)
EXTENDS Integers

CONSTANTS Slots, Space, NoSlot

VARIABLES
    space,      \* the map
    pc,         \* "idle", or what is under way: "set" or "find"
    wanted,     \* the space looked for last
    result      \* the slot found last

vars == <<space, pc, wanted, result>>

\* The first slot with at least min, or NoSlot.
IsFirst(slot, min) ==
    \/ /\ slot \in Slots
       /\ space[slot] >= min
       /\ \A s \in Slots : s < slot => space[s] < min
    \/ /\ slot = NoSlot
       /\ \A s \in Slots : space[s] < min

Init ==
    /\ space = [s \in Slots |-> 0]
    /\ pc = "idle"
    /\ wanted = 0
    /\ result = NoSlot

Set(slot, value) ==
    /\ pc = "idle" /\ pc' = "set"
    /\ space' = [space EXCEPT ![slot] = value]
    /\ UNCHANGED <<wanted, result>>

Finish == pc = "set" /\ pc' = "idle" /\ UNCHANGED <<space, wanted, result>>

\* A search that may succeed takes time, one that cannot is answered at once.
Ask(min) ==
    /\ pc = "idle" /\ pc' = "find"
    /\ wanted' = min
    /\ UNCHANGED <<space, result>>

Answer ==
    /\ pc = "find" /\ pc' = "idle"
    /\ IsFirst(result', wanted)
    /\ UNCHANGED <<space, wanted>>

Refuse(min) ==
    /\ pc = "idle"
    /\ IsFirst(NoSlot, min)
    /\ wanted' = min
    /\ result' = NoSlot
    /\ UNCHANGED <<space, pc>>

Next ==
    \/ \E slot \in Slots, value \in Space : Set(slot, value)
    \/ Finish
    \/ \E min \in Space \ {0} : Ask(min) \/ Refuse(min)
    \/ Answer

Spec == Init /\ [][Next]_vars

=============================================================================
