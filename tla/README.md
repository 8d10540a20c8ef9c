# A TLA+ model of fiddlers-db

fiddlers-db is a single-threaded row store written in Rust: slotted heap pages in
one file per table, a free space map per table, B+ trees as unique indexes, and a
catalog that is kept in tables of its own. This directory has TLA+ modules for its
parts, configurations with which TLC checks them on small instances, and theorems
which TLAPS checks for every instance. `PROJECT.json` maps each definition to the
lines it stands for.

Nothing runs concurrently here and nothing is made to survive a crash
(`src/README.md` 42-46). What is hard to test is the data structures: long sequences
of legal calls, arithmetic at the edges of pages and arrays, two or three
structures (page, map, index) that are written one after the other and have to agree,
and calls like create_table that are cut short between two of their many writes.

    tlc -workers 2 -config MCPage_narrow.cfg MCPage
    tlapm PageProofs.tla

## Inventory

| Part | State | Operations | Works with | What makes it correct |
|---|---|---|---|---|
| Heap page, `data/page.rs` | slot directory, row bytes, free area; the image on disk | insert_record, write_record, delete_record, can_insert, serialize, deserialize | everyone who stores rows | no byte in two slots; the directory never over a row; slot numbers stay valid |
| Free space tree, `freespace/binary_tree.rs` | array of categories | set_available_space, find_available | one per FSM page | inner nodes are the larger child; a search ends where there is space |
| Free space map, `freespace/fsm.rs` | tree of FSM pages in a file | update, find_available_page | table access; allocates heap pages | the root promises only what the descent finds; leaves up to date; pages of nodes distinct |
| B+ tree nodes, `tree/node.rs` | keys, children, values, links | insert, delete, split, find | the pager | sorted, balanced, separators right, filled as required |
| B+ tree store and pager, `tree/store.rs` | pages with changed flags, root, list of deleted pages, cache | insert, delete, find, find_smaller_than, find_greater_than | table access | a map from keys to row addresses |
| Table access, `database/table_access.rs`, `store/mod.rs` | none of its own: pages, map, indexes | insert, find, delete, update, hash_join | all of the above | a set of rows; pages and indexes agree |
| File store, `store/file_store.rs` | files with page count and next id | allocate_page, read_page, write_page, iterate, create, delete | all of the above | pages read as written; ids not given twice |
| Database and catalog, `database/mod.rs` | tables `tables`, `columns`, `sequences`, `indexes` | create_table, drop_table, read_table, init | table access, sequences | the catalog describes the files there are |
| Sequences, `database/seq_access.rs` | one row per sequence | next_val | table access | no value twice |
| Schema and rows, `schema/` | none | validate, serialize, deserialize | table access | what is read is what was written |

Calls go straight down: table access asks the free space map for a page, changes it
in memory, changes the indexes, writes the page and tells the map. There is no
cache of heap pages; each B+ tree handle has a cache of nodes. Queries are lazy:
a `QueryResult` reads its pages when its rows are asked for.

## Plan

Done, in this order:

1. `Page` with the abstract `SlotStore`; `PageProofs`.
2. `BinaryTree` with `SpaceMap`; `BinaryTreeProofs`.
3. `BinarySearch`; `BinarySearchProofs`.
4. `TreeNode`, `BTree` with `UniqueIndex`.
5. `HeapPage`, `Fsm`.
6. `Table`, which composes pages and indexes, with `Relations`.
7. `Rows`: validation, the bytes of a row, filter and hash_join; `Table` uses them.
8. `NodeFile`: how a node lies in the index file; `BTree` uses it.
9. `HeapFile` with `PageMap`: the file store, its page numbers and counts, calls that
   are cut short between two writes.
10. `Catalog` with `Schemas`: create_table, drop_table, read_table and next_val over the
    system tables and over `HeapFile`.

11. `NatSets`, `CatalogProofs`, `FsmProofs`, `TableProofs`; the refinements of
    `SlotStore` in `PageProofs`, of `SpaceMap` in `BinaryTreeProofs` and of `Schemas` in `CatalogProofs`.
12. `BTreeProofs`: the tree stays balanced and filled, its nodes are read back, its keys stay
    between their separators.

Next:

13. Proofs: from the order of the keys, that a lookup finds what was inserted, and with it the
    refinement of `UniqueIndex`.
14. Queries that are read after the table has changed; several handles on an index, each
    with its cache; updates that set a Varchar longer than its column.

## Modules

**`Page`** is one page with its bytes. The directory is a sequence of slots, as
`Vec<Slot>` is; `data` maps byte positions to row contents, and `disk` is the image
written last. `InsertRecord` is `insert_record` with its call of `can_insert`, in the
two cases of the code: a deleted slot, of which the rest becomes a new deleted slot,
and the free area. `Save` and `Load` are `serialize` and `deserialize`. Sizes are
numbers and `usize` wraps around at `AddressSpace`. **`SlotStore`** is what callers
rely on: rows under slot numbers, a working copy and a saved copy.

**`HeapPage`** is the slot directory as a value with the same decisions as operators
(`CanInsert`, `SlotFor`, `WithRecord`, ...). `Fsm` and `Table` are about many pages
and use it; they do not need the bytes.

**`BinaryTree`** is the array of one FSM page. A step is one iteration of a loop; `pc`
says which loop is running. **`SpaceMap`** is a map from slots to space, in which a
search answers with the leftmost slot that fits.

**`BinarySearch`** is `binary_search` of a node, one iteration a step, with the length
of the final scan (8 in the code) as a constant.

**`TreeNode`** has the pure operations on nodes: insert and remove a key, the halves of
a split, the three nodes a loan changes, the two a merge changes. **`BTree`** is the
store over them: `Split`, `InsertStep`, `InsertAtLeaf`, `Refill`, `DeleteStep` and `DeleteAtLeaf` are the
methods of `NodePage`, `AllocateNewPage`, `DeletePage` and `WritePage` those of the pager, with its
changed flag and its list of deleted pages as they are. Where the code calls itself for a
child, `InsertPath` and `DeletePath` give the store and the page the call is at after
each step down. **`UniqueIndex`** is a map with insert, refusal of duplicates, delete and find.

**`Fsm`** has heap pages (directories) and the map. An operation of `TableAccess` is an
action; insert has one for each way it can end: a page found, a page allocated, the
error "Critical: FSM returned page with too little space", the row refused by an index,
and no page to be had. The descent is stated as a relation (`LeadsTo`) between map
and heap page. What `BinaryTree` is shown to do is used here of each FSM page. What the map
promises of the page it leads to is `FoundPageHasBytes`: room for the bytes of the row, not for
its directory entry.

**`Table`** has heap pages with rows and one map per unique index. `RawInsert`, `Delete`,
`UpdateInPlace`, `UpdateElsewhere`, `InsertMoved` and `UpdateIndex` are the functions of
`table_access.rs`, with their early ends: what was written before an error stays. Rows
that do not validate and changes of the wrong type are refused before anything is
written. The free space map may lead to any page with the bytes of the row, `FoundPageHasBytes`,
or to a new one (`FindAvailablePage`), and is asked anew for each row that is moved. `RawInsert` has
one result for each of these pages, so that operations come to sets of states; where the entry
does not fit the result is "Critical" with nothing written. The order in which hash maps
are traversed is left open as well. **`Relations`** is a set of rows with unique values in indexed
columns; inserts are done, refused, or critical, and updates are done in full or refused.

**`Rows`** has no state: cells, `Validate`, `Serialize` and `Deserialize` of rows, and the
results of queries with `Filter` and `HashJoin`. `Deserialize` goes through the bytes
column by column as the code does and fails where it fails. `Table` states about all
the tables it reaches that rows are read back and joins are complete.

**`NodeFile`** is the layout of a node in the index file: the offsets of its arrays, how
`write_page` fills them and how `try_from` finds out how long they are.

**`HeapFile`** is the file store: a header with the next page number and the number of pages,
then the pages. `Create`, `AllocatePage`, `WritePage` and `Delete` are its functions; a
parameter says whether the second of two writes was done. `SeqPages` is the page
iterator. **`PageMap`** promises files of numbered pages, in which no number is given out twice.

**`Catalog`** has the rows of the four system tables, the files of `HeapFile`, the index
files and the `Table` values that clients hold. create_table and drop_table are jobs
with one action for each write (`InsertTableRow`, `InsertColumnRow`, `CreateTableFile`, ...,
`DeleteColumnRow`, `DeleteTableFile`), and ids are drawn from the sequences by `DrawId`, which is
`next_val`. `CutShort` ends a job anywhere. `ReadTable` puts a table together from the
rows of `tables` and `columns`, these in the order of their slots, which are those of
`HeapPage`. `Open`, `BeginInsert`, `WriteRow` and `DrawValue` are clients that use a table.
**`Schemas`** promises tables by name: there at once with the columns commanded, or not there,
or a name that can not be used.

The `MC*` modules give constants for TLC. Operators under a comment that starts
with "Wrong:" are deliberately broken variants of the definition after them; they are
used by no specification and serve to show that a property notices such a bug.

## Runs

| Run | Configuration | What it shows |
|---|---|---|
| `page` | `MCPage_narrow.cfg` | rows never overlap, the directory never reaches a row, the page implements `SlotStore` |
| `page_reload` | `MCPage_reload.cfg` | violated: with row lengths further apart, saving overwrites a row |
| `space_tree` | `MCBinaryTree.cfg` | heap order, descent, refinement of `SpaceMap`, loops end |
| `binary_search` | `MCBinarySearch.cfg` | the answer is right for every array, the search ends |
| `index` | `MCBTree.cfg` | three-level trees stay balanced and filled, fit into their arrays in the file, answer lookups and range queries, and implement `UniqueIndex` |
| `index_duplicates` | `MCBTree_duplicates.cfg` | violated: a duplicate below the root is not refused |
| `index_insert` | `MCBTree_insert.cfg` | violated: a key is inserted into a reused page with Ok and not found |
| `fsm` | `MCFsm.cfg` | the map leads to pages that exist and have the bytes asked for, its leaves are up to date |
| `table` | `MCTable.cfg` | pages and index agree, rows are read back, joins are complete, rows that are not changed keep their address, the table implements `Relations` |
| `table_by_index` | `MCTable_by_index.cfg` | violated: deleting what an index found deletes another row |
| `catalog` | `MCCatalog.cfg` | whatever is cut short and left behind: ids are new, files match their tables, the catalog implements `Schemas` and its files `PageMap` |
| `catalog_columns` | `MCCatalog_columns.cfg` | violated: a table's columns come back in another order |

Three more configurations show on their own what is left out of the runs above. Each ends in a
violation after two to four steps:

| Configuration | Module | What it shows |
|---|---|---|
| `MCBTree_separator.cfg` | `MCBTree` | violated, `InsertedKeysAreFound`: a key that is still a separator is inserted with Ok and not found |
| `MCFsm_room.cfg` | `MCFsm` | violated, `FoundPageHasRoom`: the map leads to a page without room for the directory entry |
| `MCTable_moved.cfg` | `MCTable` | violated, `UpdatesKeepRows`: an update loses a row it was moving, and leaves its index entry |

### Bounds

* `page`: 50 bytes, at most four inserts, rows of 4 and 9 bytes. Four rows fill the
  page; a 9 byte slot takes a 4 byte row and leaves a deleted slot of 5 that can be split
  again. Row contents are symmetric. The lengths differ by less than a directory
  entry on purpose (see below); `page_reload` has 1 and 18.
* `space_tree`: 12 nodes of which 7 are inner: four levels, an inner node with one
  child and one with none, as where the code cuts the array at the page size. Four categories.
* `binary_search`: all 512 arrays over nine keys, all keys and their neighbours, a
  stretch of 2 so that the loop runs twice and leaves on each side.
* `index`: degree 6, where a node may be short of one key and loan and minimum differ.
  Trees start with nineteen or twenty keys, which is three levels; five keys in different
  parts of the tree are inserted and deleted, so that all of lending left and right, merging left
  and right, at leaves and at inner nodes, splits and the collapse of the root happen. Two pointers
  tell neighbouring keys apart. States that differ only in the last call and its reply
  are explored once (`VIEW`): the next step does not depend on them, and TLC checks each
  step with the call and reply it has. `index_duplicates` and `index_insert` start with an empty
  tree and six keys, which is enough for their counterexamples; `MCBTree_separator` takes twenty keys
  and those in the upper half, where a node's last child is split.
* `fsm`: pages of 4096 bytes with 16 byte categories as in the code, but two slots
  to an FSM page, so that three levels and six heap pages have several nodes on each
  level. One row fills a page, and the two lengths are chosen so that a category is
  enough for one row and its page is not enough for the other. `MCFsm_room` has the same bounds.
* `table`: three pages of 42 bytes with room for one or two rows, three ids, two
  counts, names of two lengths, a byte; one unique index. Rows move within a page, to
  another page, and into slots that are split. Candidates include names that are too
  long, cells of another type and rows short of a cell. A deleted slot can have the bytes of a
  row on a page without room for another entry, so that "Critical" is reached; two pages are enough
  for `MCTable_moved`. Ids and counts are symmetric. The
  joins checked are of the table with itself on each pair of columns that have one type.
* `catalog`: two tables are created at most (`MaxTables`; a refused or interrupted one
  counts), so that the second can meet what the first has left. Their columns are an Int
  with sequence and unique index followed by a Varchar, a column that is refused, or none.
  `MaxUses` bounds the pages allocated and values drawn together at two; each insert
  allocates a page, as rows on one page are the business of `Table`. The rows of `columns`
  stay on one page of 4082 bytes. Table names are symmetric. Names of columns have one
  length in `catalog`; two lengths are what `catalog_columns` is about.

### Fairness

Only `BinaryTree` and `BinarySearch` have liveness properties. They assume weak
fairness of the iteration under way: the program is single threaded and a loop that has
been entered runs on until it ends. That an operation starts is not assumed. The other
modules have operations as single steps and no liveness; the jobs of `Catalog` are finite lists
of writes, which end or are cut short.

### Restrictions of the clients

Some specifications restrict what clients do or what happens, so that the rest of a
module can be checked although the code does not hold in general, or so that a
counterexample is not the one another run is about:

* `BTree!SpecAbsent`: no key is inserted that is in the index (`index_duplicates` is what
  happens otherwise). `BTree!SpecFresh`: in addition, behaviours end where a deleted page would be
  reused (`index_insert` is what happens otherwise). `BTree!SpecNewKeys`, which `index` checks: in
  addition, no key is inserted that any node of the tree holds, be it as a separator only: a key that was
  deleted may have to wait until it is no separator any more (`MCBTree_separator` is what
  happens otherwise). `BTreeProofs` has one more: `SpecNoReuse` is any calls, also with keys that
  are there, up to the first reuse.
* `Table!SafeSpec`: clients update and delete what a scan found, not what an index found
  (`table_by_index`); they set an indexed column to a value no other row has, in at most
  one row; they set an indexed column whenever they set a Varchar column, and never a
  Varchar to more than its length (`TableAssumption`). Inserts of duplicates and of rows that do not validate are
  in, and are refused as they should be, and so are inserts that end in "Critical". `SafeSpec` ends
  where an update ends in "Critical", as it loses a row then (`LosesRow`); `SpecSafeCalls` is the
  same calls beyond that, which `MCTable_moved` is about.
* `Catalog!Spec`: clients create and drop tables of their own names, not the system
  tables. They keep their `Table` values across a restart of the process, which no real client
  can: this allows more than happens. `Catalog!SpecUndisturbed` has no failures, so that the order
  of columns is not mixed up by a table cut short.

## Where the code does not do what is said of it

Five runs end in a violation. Each is a `finding` with the line it contradicts:

1. `page_reload`: `can_insert` (`page.rs` 372) does not see that the rest of a split slot needs
   a directory entry. The directory grows over the rows and `serialize` writes it.
2. `index_duplicates`: `node.rs` 469 drops the result of the insert into a child.
3. `index_insert`: `store.rs` 406 returns a page whose changed flag is cleared; what is put
   into it is not written.
4. `table_by_index`: `RecordIterator::from_slots` (`page.rs` 186) renumbers the slots.
5. `catalog_columns`: `read_table` takes columns in the order of their slots; the rows of a
   dropped table's columns leave slots that fit the new columns in another order.

And the three further configurations:

6. `MCBTree_separator`: where the last child of a node is split, `node.rs` 443 has `>` where 453 has
   `>=`. A key that was deleted and left as a separator is promoted by the split, and inserting
   it again puts it on the side on which it is not looked for, and where "values LESS than the
   key" must be (`node.rs` 313).
7. `MCFsm_room`: `space_needed_to_category` (`fsm.rs` 292) leaves out the directory entry, so that the
   page found has the bytes and may have no room for the entry. It is then not "a page with enough free
   space" (`fsm.rs` 163), and the insert fails with "Critical" although a new page could be had.
8. `MCTable_moved`: `update` takes a row that does not fit off its page, writes the page and
   tells the map (`table_access.rs` 521-542) before `raw_insert` looks for "another page" (524). The map
   can lead back to that page, and `raw_insert` ends in "Critical" (583): the row is lost, its index
   entry stays.

Others were met while modelling and are kept as notes at their hazards, as no text of
the repository says otherwise or no property forbids them:

* Index: at degree 4 a lookup can panic on an inner node without keys; a range query
  from a key that is not in the index is empty; `delete_page` marks a copy, so that all
  deleted pages but the last are lost; a key that is `i32::MIN` would end its node.
* Map: `update` puts one category into all ancestors and can hide pages with more space.
* Table: an update of a Varchar column does not move the entries of other indexes; an
  update refused by an index leaves its row without an entry; a row to be moved is
  lost when any error comes first, as in 8.; `update` does not look at the length of a Varchar
  (`README.md` 114 says it does), and a row with one that is too long makes every scan fail.
* Catalog: create_table inserts the table before it looks at its columns. A column that is
  refused or an empty list leaves a name that can neither be used nor created again;
  without any column row `read_table`, and with it drop_table, panics. drop_table leaves sequences, rows of
  `indexes`, index files and the map's file. `catalog` shows that none of this
  is met by a later table. `delete_all` of the file store deletes nothing (`file_store.rs` 72).

## Proofs

The assumptions are the named `ASSUME`s of the modules, which TLC evaluates in the runs, and
where a theorem says so a hypothesis, of which these are used outside one theorem or need a reason:

* `Narrow`: no two lengths of rows differ by a directory entry (7 bytes) or more. Without it a
  page may overwrite its rows: run `page_reload` shows how.
* `OneLevel`: the leaves of the tree of an FSM page are on one level, which they are as the
  code insists on page sizes that are a power of two (`page.rs` 45).
* `SameLengths`: the names of columns have one length. Without it a table's columns come back in
  another order: run `catalog_columns`.
* `DistinctPreloads`: the keys a tree was filled with before are different. Duplicates are what
  run `index_duplicates` is about.

`NatSets` has what the others need of numbers: least and greatest elements, and the principle of
induction and recursive definition as facts about sets (`SetInduction`, `RecursionExists`). No
prover here can instantiate an induction theorem with a predicate, but each can with the
set of the numbers that satisfy one.

**`PageProofs`**, for every page size, set of row lengths and of values:

* `TypeCorrect` and `SlotsStayDisjoint`. The type invariant is not inductive: that the rest
  of a split slot lies within the page follows from the slot lying within it. `PageInv`
  takes both together. Each way an insert goes has a lemma (`SplitSlot`,
  `InsertIntoFreeAreaPreserves`, ...), below it one about directories as sequences.
* `FreeAreaInsertIsSafe`: from `PageInv`, as the path to the free area is taken only when
  no deleted slot can have satisfied `can_insert`.
* `NarrowLengthsFit`: under `Narrow` the directory never covers a row. `FitInv` adds that
  every slot is no longer than some row: then no deleted slot is long enough to mislead
  `can_insert`, and a split is paid from the free area.

* `NarrowPageIsSlotStore`, the refinement of `SlotStore` under `Narrow`. Writing a row leaves the
  others alone as extents are disjoint, and saving does as the directory does not reach
  them. `StoreInv` adds to `FitInv` that a directory has at most two slots for each
  insert, in memory and in the image.

**`BinaryTreeProofs`**, for a tree of any size: `TreeTypes`, `TreeStaysOrdered`, `SearchNeverCorrupted` and
`SearchFinds`. `TreeInv` is the type, `HeapOrdered` and that a search stands on a node
which has the space it wants. `HeapOrdered` exempts the parent that
`set_available_space` is about to look at; stopping early is right because a parent that
does not change leaves nothing pending. `TreeIsSpaceMap` is the refinement under `OneLevel`: that
the slot found is the first one needs a second invariant, that a search has left no node
with the space it wants to its left on its level.

**`BinarySearchProofs`**, for arrays of any length: `SearchCorrect`, `SearchInBounds` and
`ScanNeverRunsOut`, from the loop invariant that everything below `low` is smaller than the
key and the element at `high` is not.

**`FsmProofs`**, for any page size, number of slots and depth, as long as the map has numbers for
all heap pages (`CapacityAssumption`):

* `NodesAreApart`: the numbering of the map's pages, depth first with the extra pages of inner nodes
  counted before, gives no number twice. It is a statement about constants, from lemmas on
  `Above` and `PagesUpTo`, and part of `FsmPagesAreATree`.
* `FsmTypes`, `LeavesStayUpToDate`, `PagesFormATree`, `RootNeverLiesHolds` and `SpaceIsAlwaysOffered` from `FsmInv`.
  A category of an inner node is not the largest below it, as `update` puts the category of
  one heap page over all ancestors. What is inductive is weaker: it is the category of
  some slot below (`DescentGoesOn`). With leaves that are only set for heap pages there are, a
  descent that the root starts goes on and comes out at a page.
* `FoundPagesHaveBytes`: with `LeafUpToDate` the category found is that of the page as it is, space is rounded
  down and need rounded up, so the page has the bytes (`CategoryCovers`). It is what `Table` takes of the map.

**`CatalogProofs`**, for any number of tables, any commands, and calls cut short anywhere:

* `TypesHold` and `NewIdsAreNew` from `Inv`. Its core is `IdsTaken`: whatever has an id, a row, a file, an
  index, a handle, has one that its sequence is past, also when what it belonged to is gone;
  and a drawn id that is in no row yet is strictly above all of them. `SystemRows` says that the
  catalog's own rows and sequences are left alone, by which clients' ids are above theirs;
  `CreateOK`, `DropOK` and `InsertOK` what a call under way can rely on at each of its writes.
* `FilesArePageMaps`: the refinement of `PageMap`, by `FilesOK`: the next id is one more than the count,
  which may be above the pages there are, and a page has the id of its place or is a hole.

The second half of **`CatalogProofs`**, under `SameLengths`, for any number of tables and columns:

* `ReadAsCreated` and `RowsCanBeRead` from `ReadInv`. Under `SameLengths` all rows that clients cause
  in `columns` are equally long (`RowsAlike`), so a new one takes the first free slot. That it
  comes behind the other rows of its table needs more: while a table is created, every free slot
  is behind the rows it has (`CreateFits`). Then reading appends (`ReadExtended`), and what
  create_table returns is what will be read. A row written by a handle fits because its handle
  has the columns that are read as long as the table is there (`HandlesFit`, `FilesFit`), and a
  file that stays behind belongs to no table that can come (`NewIdsAreNew`).
* `TablesAreAsPromised`: the refinement of `Schemas`. create_table writes its rows and files one by one,
  yet the table is there at once, with the columns commanded, when it returns, and no step of
  any call changes what is told of another table. The invariant (`Known`, by `KnownHolds`) adds to
  `Inv` and `ReadInv` how far the call is (`Progress`): the columns whose commands are done have one row
  of `sequences` and `indexes` each where that was commanded and none otherwise, the current one
  those of the parts that are done, and the commands still to be done are the last of the call's. This is
  inductive only together with `RowsApart` and `ColumnsApart`: no two columns, of any table, have an id in
  common, so that a row for one is never counted for another, and with `SequencesApart`, so that
  next_val, which replaces the rows of a column, leaves their number. Each action then maps to an
  action of `Schemas` or to a stutter (`Maps`; `StepMapsSchemas` puts the lemmas together): the writes of create_table to
  stutters, its last to `FinishCreate`, `DeleteTableRow` to `Vanish`, the deletes after it to stutters again, and
  a cut call to `CutCreate`, `FinishDrop` or `FinishOther`.

**`TableProofs`**, for every schema, all rows and changes of it, and any set of indexes, under
`SafeSpec`, so up to the first update that loses a row it was moving; inserts that end in "Critical", and
all pages the map may lead to, are in:

* `RowsAreReadBack`: `RowReadBack`, below it, is about operators only: for every row that
  `Validate` accepts, `Deserialize(Serialize(row))` is the row. Both fold over the
  columns; the lemma is an induction over the columns read, with the bytes not yet read as those of the
  remaining cells. That a u16 can hold the length is in `SchemaAssumption` and needed.
* `IndexesMatch` from `TableInv`: pages are sequences of slots, and the entries of each index are
  exactly the records (`Matches`). An update is not one step for the proof but as many as it
  has records, then as many as it has put aside, the latter over the set of states that the
  map's answers lead to (`AllInserted`); `Halfway` is the invariant of this fold. It
  speaks of the records that are left, those with their new row, and those put aside, which
  are on no page and whose entry still has the old value. This last makes `Matches` fail halfway,
  and it is why `SafeSpec` lets a change of an indexed column touch one record only.
  That an update in place never meets a row of another length is `LengthStays`.
* `RowsStayPut` and `TableIsRelation` from the same lemmas on each operation (`InsertStep`,
  `DeleteStep`, `UpdateStep`), which also say what becomes of the set of rows and what is replied.
* `PagesHaveRoom`: `TypeOK` under `Narrow`. `Pages` in `TableInv` carries the room of each page; the sums over
  a directory are followed through appending, replacing and splitting a slot (`SumOfAppended`,
  `SumOfReplaced`, `PageInserted`).
* `JoinsYieldAllPairs`: `JoinsAreComplete`, under two more hypotheses. `Indexed # {}`: equal rows of a table
  without unique index are joined as often as they are there, and `JoinsAreComplete` counts sets. `NamesApart`:
  no two columns have one name, which create_table does not check; `find_column_for_query` takes the
  first of them. `Lists(s, S)` says that a sequence has the elements of a set, each once. What reading does
  keeps it: the rows of each page (`OnlyLists`) put together (`FlattenLists`) list those of the table
  (`FindAllIs`), a filter lists those it keeps (`OnlyOfList`), the rows of a key give the partners of an outer
  row (`PartnersAre`), and outer rows have none in common, since all rows have the length of
  the schema and a joined row can be cut in two only there (`JoinedRowsApart`). `OnlyLists` and `FlattenLists` are
  inductions over the recursive functions `Only` and `FlattenSeq`.

**`BTreeProofs`**, for every even degree from 4 on, all keys and pointers, trees of any height:

* `TypesHold`, `NodesStayWellFormed` and `TreeStaysBalanced`, under `SpecNoReuse`. `Shape` is the invariant: each
  page of the tree has a height, one more than its children's, each but the root one parent and one place
  among its children, and each is at most one key short (`IsTree`); the page to be reused is not in the
  tree, and the tree is less high than the file has pages. Heights stay as they are where pages are
  split, lend and merge (`SplitKeepsTree`, `LendKeepsTree`, `MergeKeepsTree`), and this is what makes the depth of
  the leaves follow. It is not inductive over the steps of one call: while a delete is under way,
  the page it is at must be able to give a key away (`CanSpare`), and while an insert is, the page must
  not be full. `Inserting` and `Deleting` say so after k steps; a path ends at a leaf, because it goes down
  by one height with each step (`InsertPathEnds`, `DeletePathEnds`). An insert that is handed a deleted page
  loses keys, but by then there is no deleted page any more, which is what `Reuses` looks at (`IsSpent`).
* `NodesAreReadBack`, under `SpecNoReuse`: no node has more entries than its arrays in the file, no entry is
  the mark for one that is not in use, and so `try_from` counts them as they were written (`NodeReadBack`).
* `KeysStayInRange`, under `SpecNewKeys`, for trees that were filled with different keys (`DistinctPreloads`). The
  invariant says of each page the range of numbers it is for: the root is for all, and the keys of a
  page cut its range into those of its children (`Holds`, `IsOrdered`). A split cuts the range of a child at the
  promoted key, a loan moves the border between two neighbours, a merge takes it away (`SplitKeepsOrder`,
  `LendKeepsOrder`, `MergeKeepsOrder`). Two things had to be added. A border needs a smaller number in the range to
  its left (`Separates`), else a loan could put one where another is. And the keys are all of a set `K`
  (`InOrder`), to which the inserted key does not belong: then it is never equal to a promoted key, for
  which the code goes to the wrong side when the last child is split. So it is inserted into the
  page whose range it is in (`OrderedFor`, `InsertStepOrder`). That `SpecNewKeys` cannot be weakened to keys that are in
  no leaf is what `MCBTree_separator` shows. Deletes may be of any key: a deleted key stays in
  `K` as long as it is a separator (`DeleteKeyOrder`), and between two calls `K` is what the nodes
  hold (`OwnKeysOrder`).

The catalog and table theorems assume of `SafeSpec`, `Commands`, `Candidates` and `Changes` no more than what
*Restrictions of the clients* lists and the assumptions of the modules say: changes leave a row a row
of the table (`TableAssumption`).

Model-checked only:

* Liveness (`OperationsEnd`, `SearchEnds`), which is out of the prover's reach.
* `RangeQueriesCorrect` and the refinement of `UniqueIndex`: they speak of the values in the leaves, which
  `BTreeProofs` counts but does not follow, and of the links between leaves.
* The violations.

## Not modelled

`Database::new` and the writes of `init`: the state after them is where `Catalog` starts; a start
that is cut short leaves a directory that is never initialised again (a hazard without
property). Reads and writes that fail, apart from `CutShort`, `AllocatePage` and `InsertWithoutPage`.
The node cache, its eviction and several handles on an index. Query results that are read
after the table has changed. The bytes of heap file headers and free space map pages. The
benchmark in `main.rs`; error texts and display functions. `number_of_records` of a page counts
inserts and is read by nobody; the model bounds it instead of letting its u16 overflow.
