------------------------------ MODULE PageMap ------------------------------
(***************************************************************************)
(* What the file store promises: files of numbered pages.  A number is     *)
(* given out once, a page holds what was written to it last, and a scan    *)
(* sees every page that was given out, unless the creation of the file or  *)
(* its last allocation was cut short; then it fails.                       *)
(***************************************************************************)
EXTENDS Integers, Functions

CONSTANT
    Empty       \* what a new page holds

VARIABLES
    pages,      \* the files there are, each a function from page numbers to contents
    scans       \* for each file whose scan does not fail, what it sees

vars == <<pages, scans>>

Init == pages = << >> /\ scans = << >>

With(map, f, value) == [g \in DOMAIN map \cup {f} |-> IF g = f THEN value ELSE map[g]]

Create(f) ==
    /\ f \notin DOMAIN pages
    /\ pages' = With(pages, f, << >>)
    /\ scans' \in {scans, With(scans, f, << >>)}

\* A number no page of the file has had.
Allocate(f) ==
    /\ DOMAIN pages' = DOMAIN pages
    /\ \E id \in DOMAIN pages'[f] :
          /\ \A other \in DOMAIN pages[f] : id > other
          /\ pages' = [pages EXCEPT ![f] = With(@, id, Empty)]
    /\ scans' = With(scans, f, pages'[f])

CutShort(f) == pages' = pages /\ scans' = Restrict(scans, DOMAIN scans \ {f})

\* Anything can be written, to one page.
Write(f, id) ==
    /\ DOMAIN pages' = DOMAIN pages /\ id \in DOMAIN pages'[f]
    /\ pages' = [pages EXCEPT ![f][id] = pages'[f][id]]
    /\ scans' = IF f \in DOMAIN scans THEN With(scans, f, pages'[f]) ELSE scans

Delete(f) ==
    /\ pages' = Restrict(pages, DOMAIN pages \ {f})
    /\ scans' = Restrict(scans, DOMAIN scans \ {f})

Next ==
    \/ \E f \in DOMAIN pages' : Create(f)
    \/ \E f \in DOMAIN pages :
          \/ Allocate(f)
          \/ CutShort(f)
          \/ \E id \in DOMAIN pages[f] : Write(f, id)
          \/ Delete(f)

Spec == Init /\ [][Next]_vars

=============================================================================
