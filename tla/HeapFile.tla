------------------------------ MODULE HeapFile ------------------------------
(***************************************************************************)
(* The files of FileStore (src/store/file_store.rs): pages of one size     *)
(* behind a header with the next page number and the number of pages.      *)
(*                                                                         *)
(* Numbers count from 1 as in the code.  What a page holds is the set of   *)
(* its rows.  A page or a header is written as a whole or not at all, but  *)
(* between two writes a call can fail and the process can end.             *)
(***************************************************************************)
EXTENDS Integers, Sequences, Functions

CONSTANT
    NoMetadata      \* the header of a file that has none yet

ASSUME HeapFileAssumption == NoMetadata \notin [next_id : Nat, number_of_pages : Nat]

VARIABLE
    files           \* the files there are

Exists(f) == f \in DOMAIN files

NewMetadata == [next_id |-> 1, number_of_pages |-> 0]

NewPage(id) == [page_id |-> id, rows |-> {}]

\* The bytes between the end of a file and a page written behind it are zero,
\* which is read as a page without slots whose number is 0.
Hole == NewPage(0)

\* allocate_next_page_id
Allocated(metadata) ==
    [next_id         |-> metadata.next_id + 1,
     number_of_pages |-> metadata.number_of_pages + 1]

\* write_page puts a page where its number says.
WithPage(pages, page) ==
    [i \in 1..(IF page.page_id > Len(pages) THEN page.page_id ELSE Len(pages)) |->
        IF i = page.page_id THEN page ELSE IF i <= Len(pages) THEN pages[i] ELSE Hole]

ReadMetadata(f) == IF Exists(f) THEN files[f].metadata ELSE NoMetadata

\* The page iterator reads as many pages as the header says, from the first on;
\* without a header, or where the file is too short, it fails.
Readable(f) ==
    /\ ReadMetadata(f) # NoMetadata
    /\ ReadMetadata(f).number_of_pages <= Len(files[f].pages)

SeqPages(f) == SubSeq(files[f].pages, 1, ReadMetadata(f).number_of_pages)

---------------------------------------------------------------------------
(* Operations. *)

\* create; complete tells whether the header was written.
Create(f, complete) ==
    /\ ~Exists(f)
    /\ files' = [g \in DOMAIN files \cup {f} |->
           IF g # f THEN files[g]
           ELSE [metadata |-> IF complete THEN NewMetadata ELSE NoMetadata, pages |-> << >>]]

\* Wrong: the page is written before the header, and complete is about the header.
AllocatePageFirst(f, complete) ==
    LET metadata == ReadMetadata(f) IN
    /\ metadata # NoMetadata
    /\ files' = [files EXCEPT
           ![f].metadata = IF complete THEN Allocated(@) ELSE @,
           ![f].pages    = WithPage(@, NewPage(metadata.next_id))]

\* allocate_page; complete tells whether the page was written after the header.
AllocatePage(f, complete) ==
    LET metadata == ReadMetadata(f) IN
    /\ metadata # NoMetadata
    /\ files' = [files EXCEPT
           ![f].metadata = Allocated(@),
           ![f].pages    = IF complete THEN WithPage(@, NewPage(metadata.next_id)) ELSE @]

\* write_page; page 0 has no place.
WritePage(f, page) ==
    /\ Exists(f)
    /\ page.page_id > 0
    /\ files' = [files EXCEPT ![f].pages = WithPage(@, page)]

\* delete
Delete(f) ==
    /\ Exists(f)
    /\ files' = Restrict(files, DOMAIN files \ {f})

---------------------------------------------------------------------------
(* Properties. *)

\* Numbers of pages follow each other; no page lies behind the header's count.
FilesOK ==
    \A f \in DOMAIN files :
        /\ files[f].metadata = NoMetadata => files[f].pages = << >>
        /\ files[f].metadata # NoMetadata =>
              /\ files[f].metadata.next_id = files[f].metadata.number_of_pages + 1
              /\ Len(files[f].pages) <= files[f].metadata.number_of_pages
        /\ \A i \in DOMAIN files[f].pages :
              files[f].pages[i].page_id = i \/ files[f].pages[i] = Hole

\* The pages that are there, by their numbers.
PagesAt(pages) == [i \in {i \in DOMAIN pages : pages[i].page_id = i} |-> pages[i].rows]

=============================================================================
