# accdb in TLA+

accdb is a Go library that reads and writes Access 2010+ database files (`.accdb`) without the
Access engine. A `Database` is one byte buffer of 4096-byte pages and the structures parsed from
it. Every write call copies the buffer, changes the copy step by step and puts it in place of the
original, or drops it at the first error; `Save` writes the whole buffer to a temporary file and
renames it over the target. This directory holds TLA+ models of that machinery, the TLC instances
that check them, and proofs for TLAPS. Line numbers refer to the sources beside it.

## 1. Inventory

| Part | Source | State it keeps | Operations | Modules |
|---|---|---|---|---|
| Rows and index of a table | `row.go`, `index.go` | data pages, leaf entries, row count, overflow pointers | Insert, Update, Delete, DeleteAt, RowAt, FindBy... | `TableTxn`, `TableStore` |
| Data page layout | `row.go:95-121, 837-883, 1074-1147` | slot directory, row bytes, free-space field | writeRowToPage, rebuildDataPage, findRowEnd | `DataPage`, `SlottedPage` |
| Long values (Memo, OLE) | `long_value.go`, `row.go:1149-1244` | LVAL pages, chunk chains, descriptors in rows | writeLongValue, readLongValue, freeLongValue | `LongValue`, `LongStore` |
| Page allocation, usage maps, catalog | `table.go:182-356, 550-817`, `database.go:162-186, 310-568` | bitmap of taken pages, inline usage maps, carrier pages, MSysObjects | allocatePage, freePage, markTableDataPage, CreateTable, DropTable, loading | `PageAlloc` |
| Write transactions and handles | `database.go:1009-1133` | working copy, `db.tables`, `*Table` handles | withWriteTransaction, deepClone, replaceState | `WriteTxn`, `Catalog` |
| Saving and opening | `database.go:85-115, 861-979` | the file, a temporary file, the directory | Save, SaveAs, Open | `AtomicSave`, `SavedFile` |
| Column layout and definitions | `table.go:81-179, 235-262, 358-548, 716-757`, `database.go:570-773`, `row.go:203-290, 530-604` | the definition page, the columns of handles | validateTableDef, calculateOffsets, writeTableDefPage, parseTableDef, buildRowData, parseRowAt | `Layout`, `TypedTable` |
| Values and keys | `codec.go`, `encoding.go`, `row.go:292-369, 607-788, 885-1036`, `index.go:29-81` | none | validateColumnValue, writeColumnValue, readColumnValue, EncodeKey | `ColumnValue`, `TypedTable` |
| Queries | `query.go` | the statement | Execute; UPDATE, DELETE and CREATE TABLE statements | `Query`, `TypedTable` |
| Page store | `page_store.go` | a copy of the bytes, behind a mutex | ReadPage, WritePage | not modelled |
| Profiles, constants, encryption stubs, programs | `format_profile.go`, `constants.go`, `encryption.go`, `cmd/`, `example/` | none | none that change state | not modelled |

How they meet. A row operation runs in a write transaction, on tables that `deepClone` has parsed
anew from the copied bytes. It frees and writes long values, asks for data pages (which
`markTableDataPage` enters in the table's usage map), rewrites index leaves, and stores the row
count. All of that is plain sequential code on the copy; what outlives a transaction is the byte
buffer, the bitmap, and the handles callers keep, which `replaceState` overwrites where they are.
`Save` hands the buffer to `atomicWriteFile`.

What is hard about it, and which properties are about it:

- *Inference.* No row length is stored: a row ends where another offset begins, two functions
  disagree on which, and a rebuild of a page moves everything (`RowsApart`, `RowsReadBack`,
  `FreeSeesNoOther`).
- *Indirection.* Rows move to overflow payloads behind pointers, long values to chains of chunks on
  shared pages; nothing counts references (`PointersExact`, `ChunksUnshared`, `PagesAccounted`).
- *Two copies of one fact.* Index and rows, count and rows, header free space and slots, bitmap and
  maps, handles and bytes (`IndexSound`, `IndexComplete`, `CountExact`, `FreeExact`,
  `InUseMarked`, `DataPagesMapped`, `HandlesCurrent`).
- *Batches.* An Update plans the index changes of all its rows before the first is made
  (`UniqueKeys`, `AllOrNothing`).
- *Reentrance.* The predicate of an Update or Delete may call the database, in the middle of a
  transaction (`Serial`, `HandleKeepsName`, `Isolated`).
- *Failure.* A batch that fails half way; any step of a Save that fails, a crash at any moment,
  several processes (`AtomicCalls`, `NeverTorn`, `SavesFile`, `ReadsWhole`).
- *Four tables of kinds.* Which Go values a column accepts, which it writes, which an index has a
  key for and which a query compares are decided in four places (`ReadsAsGiven`, `LookupsExact`,
  `OrderedByNumbers`); two evaluators take a WHERE apart (`WritesWithinSelect`).
- *Limits.* Full leaves, pages, carriers and maps, and numbers stored in one byte.

`PROJECT.json` lists every such hazard at its line, those that no property covers yet included.

## 2. Modules

Each component has a module that follows the code, and where callers of the component are
promised something simple, a second module that states just that; the first is checked (or proved)
to implement it with `INSTANCE ... WITH`. `MC...` modules only give TLC what a `.cfg` cannot say.

**`TableTxn` implements `TableStore`.** One table. The state is the committed database `db`, the
working copy `w` of the running transaction, and the rows a batch call has selected (`batch`) and
not yet done (`todo`). A page is a sequence of slots, each a live row, an overflow pointer, a
payload behind one, or dead; `free` is its header's field. `Insert` and `DeleteAt` are one action
each; Update and Delete are `BeginUpdate`/`BeginDelete` (the scan and the plan), one
`UpdateInPlace`, `UpdateOverflow` or `DeleteNext` for each row in scan order, and `Commit` or
`Abort`. A call that is refused before it changes anything is no step. `Reload` is what
`deepClone` does to a table: it reads the index back from its leaf, where a row number has one
byte. Abstracted: a row is the value of one indexed column and an encoded length; the index has one
leaf, as in the code, with its two different estimates of the room in it. `TableStore` is a set of
rows at permanent addresses, changed by whole calls.

**`DataPage` implements `SlottedPage`.** The bytes of one page. A cell of the page is a model
value that tells whose byte it is and which, so that a row that reads back wrong is seen. `SlottedPage` is a
list of numbered rows and the bytes left, which is what `TableTxn` takes a page for: this is the
justification of its abstraction of offsets.

**`LongValue` implements `LongStore`.** LVAL pages with chunks, the bitmap, and the rows of a
data page as far as they decide which chunks are freed: `packed` says that a dead slot has lost
its bytes, which is when `freeRowLongValues` does not find the descriptor of the row behind it. A
chunk holds a piece of a value, so a chain that is cut or crossed reads back as another value.
`LongStore` is one value per row.

**`PageAlloc`.** Who owns which page: definition, index root, data pages, carriers, long-value
pages, and the orphans a dropped table leaves. Each action is one whole transaction. `Reopen` is
Save followed by Open: the maps in the file survive, the bitmap is made anew.

**`WriteTxn` implements `Catalog` while predicates only read.** `disk` is the catalog in the
bytes, `reg` is `db.tables`, `heap` what each handle says, and `stack` holds the copies of
Update and Delete calls that wait for their predicate, which may call the database in turn if
`nested`. A row stands for the call that wrote it. The system table is left out.

**`AtomicSave` implements `SavedFile`.** `atomicWriteFile` in steps (create, write in part and in
whole, sync, rename, sync of the directory, return), readers that read a file in pieces, errors at
each step, and crashes. The file system is the part that is not in the repository: data reaches
the disk by a sync, or at any time before; a rename is atomic, and on disk after the directory's
sync, or at any time before. `SavedFile` is a file that is always one whole version.

**`ColumnValue`, `Layout` and `Query`** are the pure code, as operators; **`TypedTable`** composes
them to one table whose columns have types and which has several, also composite, indexes.
`ColumnValue` has the four tables of Go kinds as they stand in the code, integers in two's
complement of bytes with `Base` values, texts compressed or in UTF-16 (characters are numbers; what
matters is whether they fit one byte, two, or a pair), and the bytes of index keys. `Layout` is
the definition page written and parsed, the places of columns, and a row as bytes with its null
bits and variable-length offsets. `Query` is conditions, paging, projection, the bubble sort and
the separate evaluation of UPDATE and DELETE. In `TypedTable` the definition is read from its page by
every transaction and written again (`Commit`), while `given` remembers what callers passed; each
call is one action, since how rows lie in pages, batches and partial failures are `TableTxn`'s.
`lossy` remembers in which columns a value was given that the column accepts but does not store or key as such
(`Exact` says which those are), so that the promises are about all the others.

## 3. Runs

| Run | Module, cfg | Properties | Shows |
|---|---|---|---|
| `table_txn` | `MCTableTxn`, `MCTableTxn.cfg` | TypeOK, IndexSound, IndexComplete, UniqueKeys, CountExact, PointersExact, FreeExact, AtomicCalls, AllOrNothing | rows, index, count, pointers and page headers agree after every call, and calls are atomic, if an Update assigns a unique column in one row only |
| `table_batch_key` | `MCTableTxn`, `MCTableBatch.cfg` | UniqueKeys, violated | an Update that gives two rows one value of a unique column is accepted |
| `table_row_byte` | `MCTableTxn`, `MCTableRowByte.cfg` | IndexSound, violated | with more rows on a page than the row byte has values, a lookup finds another row |
| `data_page` | `MCDataPage`, `MCDataPage.cfg` | TypeOK, RowsApart, FreeSeesNoOther, RowsReadBack | rows read back byte for byte through inserts, rebuilds and deletes |
| `long_value` | `MCLongValue`, `MCLongValue.cfg` | TypeOK, ChunksUnshared, ChainsSpread, PagesAccounted, ValuesReadBack | long values read back whatever is freed and reused around them |
| `long_value_leak` | `MCLongValue`, `MCLongValueLeak.cfg` | NoneLeaked, violated | chunks of a row behind a deleted and repacked one are never freed |
| `page_alloc` | `MCPageAlloc`, `MCPageAlloc.cfg` | TypeOK, PagesUnshared, InUseMarked, MapsUnshared, DataPagesMapped, PagesKept | pages have one owner, and bitmap and maps cover them |
| `atomic_save` | `MCAtomicSave`, `MCAtomicSave.cfg` | TypeOK, NeverTorn, ReadsWhole, TempsOwned, SavesFile, SavesEnd | the file is always one whole version, through errors, crashes and other processes, and each call ends |
| `save_report` | `MCAtomicSave`, `MCAtomicSaveReport.cfg` | ReportedOnDisk, violated | Save reports success although a crash brings the old file back |
| `write_txn` | `MCWriteTxn`, `MCWriteTxn.cfg` | TypeOK, HandlesCurrent, NamesUnique, HandleKeepsName, Serial | handles and bytes agree after every commit; without nested writes, calls are serial |
| `typed_table` | `MCTypedTable`, `MCTypedTable.cfg` | TypeOK, ReadsAsGiven, LookupsExact, WritesWithinSelect, OrderedByNumbers | definitions survive their page, values read back as given, lookups find exactly the equal rows, SQL writes stay within what SELECT shows, ORDER BY orders numbers |
| `write_txn_nested` | `MCWriteTxn`, `MCWriteTxnNested.cfg` | Isolated, violated | what a predicate commits is undone by the call it belongs to |

Bounds, and why they are enough:

- `table_txn`: two pages of 17 bytes, keys `{k1, k2}`, row lengths 4 and 9, a leaf of two entries.
  Two short rows nearly fill a page, so a row that grows overflows; a payload shares its page with
  rows that are repacked later; the leaf refuses a third entry, and the first estimate of its room
  is stricter than the second, as in the code. Batches select up to two rows. Pages, leaf and
  lengths keep the proportions that make each branch happen; slots are never reused, so a table
  fills up and the state space is finite without a bound on calls.
- `table_row_byte`: the same with `RowMod` 2 in place of 256. A page of 4096 bytes has room for several
  hundred short rows.
- `data_page`: 24 bytes, up to four slots, contents shorter than, as long as and longer than a pointer.
- `long_value`: chunks of five bytes with a reference of one, pages of nine, four pages, two rows:
  values in the row, in one chunk, and in chains of two and three, with the relation of sizes on
  which `ChainsSpread` rests (`ChunkAssumption`: a full chunk does not fit beside the shortest last one;
  in the code 4076 + 2 and 5 + 2 bytes of 4082).
- `page_alloc`: five pages that grow by two up to eleven, three tables on two carriers, maps of ten pages:
  page 10 can be allocated and is refused as a data page; the catalog gets a second page.
- `atomic_save`: two processes, three Saves: two overlap and a third follows a crash.
- `write_txn`: two names, calls two deep, six commits: a table is dropped, created again and
  written through an old handle while another call waits.
- `typed_table`: bytes of eight values (`Base`), so that every integer type has a smallest and a
  largest number within reach; three rows and two AutoNumbers, after which Insert is refused. Seven
  definitions are accepted: keys with AutoNumber and text, a composite key of two texts whose parts
  could run together, the numeric types with a unique Money index, what CREATE TABLE makes, nine Booleans
  (two bytes of null bits), a `Length` that is too short, and an AutoNumber of type BigInt. An eighth is refused.
  The rows given have values of kinds that are accepted and not written, texts with a byte
  order mark, a zero or a pair of UTF-16 units, and a number that truncates (`Dips`).

`CHECK_DEADLOCK FALSE` stands in the three runs whose model ends at a bound that counts calls or
slots (`data_page`, `page_alloc`, `write_txn`, and the nested variant of the last).

### What the violated properties say

Each has the words it checks in the comment on the definition.

1. `UniqueKeys` in `table_batch_key`: `updateInternal` plans every row against the index as it was
   (`row.go:1464-1470`), and `commitIndexChanges` drops the error of the insertion that is then
   refused (`index.go:340`). Two live rows have one primary key, and the index names one of them.
2. `IndexSound` in `table_row_byte`: `writeIndexLeafPage` stores `byte(RowNumber)`
   (`index.go:447`); from the 257th row of a page on an entry read back leads to another row.
3. `NoneLeaked` in `long_value_leak`: `freeRowLongValues` takes the previous slot's offset for the
   end of the row (`row.go:1196`); a dead slot that was repacked has offset 0.
4. `ReportedOnDisk` in `save_report`: errors of the directory's sync are dropped
   (`database.go:914-919`), against "Never return `nil` or report success if data was not written
   to disk" (`CONTRIBUTING.md:8`).
5. `Isolated` in `write_txn_nested`: a transaction installs its copy without looking whether the
   original has changed (`database.go:1118-1131`).

### Liveness and fairness

`SavesEnd` says that each call of Save ends: its process answers, or the machine goes down. `FairSpec`
assumes weak fairness of `Proceed(p)`, the next step of a call that process `p` has begun,
whatever that step is. The code justifies it: `atomicWriteFile` is sequential, without a loop or a
lock, and a system call returns, with an error if not with success. Nothing is assumed about calls
being made, about readers, or about a step's success; crashes may happen for ever. What could fail
is the cleaning up: an error path that neither goes on nor returns.

No other specification assumes fairness. The library has no threads, schedulers, queues or
retries: each call is sequential code that runs to its end, and whether a program makes another
call is not the library's to say. A predicate that calls back may stop for good. That loops end is
in the shape of the models (`todo` loses a row with each step, a chain never revisits a page).

## 4. Proofs

Each theorem holds for every value of the constants that satisfies the module's assumptions.

**`TableTxnProofs`**: `Invariance`, `TypeCorrect`, `IndexSoundness`, `PointersPaired`. The invariants
of the committed database are not inductive: a batch changes `w` while the rest of its plan was
made for an earlier state of it. `IInv` therefore says, of both copies, that no page has more slots than
its directory has room for (`RoomOK`), that the fields of slots fit their kinds (`KindOK`), that
each pointer leads to a payload of its own (`TargetsOK`, `UnsharedOK`) and each entry to a live row
with its key (`IdxOK`); and of the plan, that each remaining change is still about a live row with
the key it was planned for, and no two about one row (`PlanOK`). Lemmas say what appending a slot, rebuilding a page
around a slot and killing a slot do to every other address; each action then has a
lemma of its own. The theorems assume `[]RowNumbersFit`: no page has more rows than the row byte
counts. That is exactly the assumption that `table_row_byte` shows necessary; the code does not
enforce it. They do *not* assume anything about batches: index soundness and pointers
survive even the duplicate keys of finding 1.

The second half of **`TableTxnProofs`** (under the same assumption): `RowsInvariance`,
`CountTrue`, `WholeCalls`, `StoreImplemented`, `FreeTrue`, `IndexInvariance`, `LookupsComplete`,
`UniqueTrue`. An address keeps its row through every change that is not about it:
`SameRow` says so of one address, `SameElse` of all but one, and a lemma per page operation
(append, rebuild, kill, move behind a pointer) shows it. `RInv` adds to `IInv` that the
stored count is the number of rows, in both copies, and `Progress`: the working copy has the
planned change of every row that is done, and is the committed database everywhere else. When
`todo` is empty, `Progress` is the whole call, which gives `AllOrNothing` (`WholeCalls`), and, with
the map from addresses to rows, each commit is one step of `TableStore` and everything before it a
stutter (`StoreImplemented`, which is `AtomicCalls` for every instance). Cardinality lemmas
of the library carry the count through adding and removing one address.

`FreeTrue` adds that each page's free field is what its slots leave, a sum over the slots: a slot
appended or replaced adds its difference, whatever the order in which the sum is taken.

The index is complete and its keys are unique (`IndexInvariance`) where no Update assigns the unique column in two rows. Then
`CInv` adds to `RInv` that every row has its entry (`Complete`), that a unique index has one row for a
key (`KeysOK`), that the entries fit the leaf (`LeafOK`), and that what is planned still can be done
(`PlansHold`): the new keys are not taken, and there is room in the leaf for every entry that
remains to be changed. `UniqueTrue` has the hypothesis `MaxUniqueBatch \in {0, 1}` and `LookupsComplete`
has besides `MaxBatch \in {0, 1}` or keys of one length (`EqualLens`). Both are about what the code
does *not* promise: a plan is made against the index before the first change, and an insertion refused in the middle is
dropped (`index.go:340`). `table_batch_key` shows the first hypothesis necessary; the second is the
same about room, when a batch changes keys for longer ones.

**`PageAllocProofs`**: `TypeCorrect`, `Unshared`, `BitmapCovers`, `Mapped`, `Addressable`,
`Permanence`. Here ownership, the bitmap and the maps are proved together, since each needs the
others: a page handed out is new because everything in use is marked, and stays marked because
freed long-value pages are nobody else's. What is added is `MapRowsOK`: pairs of map rows are
numbered from one on each carrier, so that the next pair is no table's. `NewPages` is the lemma
about the four pages `CreateTable` may take, one after the other, each from the file the one before left.

**`AtomicSaveProofs`**: `TypeCorrect`, `Untorn`, `NoMixture`, `NoLitter`, and
`SavesWholeVersions`, which is the refinement `Spec => SavesFile`. The invariant adds `FreshOK`
(inodes no Save has had yet are nowhere), `SavingOK` (a Save works on an inode of its own, which
the path cannot have before the rename, and which is whole and on disk at the rename) and
`ReadingOK`. The refinement has one lemma per visible action and one for the hidden ones.

**`WriteTxnProofs`**: `TypeCorrect`, `Current`, `OneRowPerName`, `HandlesKeepNames`, and
`SerialCalls`, the refinement `Spec => Serial`. That the registered handles agree with the bytes is not
inductive: a nested call may end before the one that waits, and the outer one then installs
a copy made long before. The invariant therefore has the same agreement for every copy on the
stack (`CopyOK`), unique names in each of them (`Unique`), and that a handle keeps the name it was made
with (`HandlesOK`); it holds with nested writes too. `Serial` promises nothing where
predicates write (`nested`); where they only read, the extra fact is `Alone`: at most one call
waits, and its copy is what the bytes still are, so that nothing is lost when it is installed.

**`DataPageProofs`**: `LayoutInvariance`, `TypeCorrect`, `ApartTrue`, `FreeSeesTrue`, and `ReadsBackTrue`,
the refinement `Spec => Page!Spec` of `SlottedPage`. `PInv` is what makes the inference of row ends right:
offsets fall with the slot number, but for dead slots with none (`Descending`), the bytes from one offset to the one
before are that row's, in order (`Placed`), the directory ends at or below the lowest offset, and
`free` is the gap between. One lemma says what each of the two ways to find a row's end returns on such a directory, and one what a
rebuild makes of it: offsets again from the end of the page, by the sum of the lengths before.
A deleted slot keeps its offset until the next rebuild, and its bytes are nobody's until then.

**`LongValueProofs`**: `ChainInvariance`, `TypeCorrect`, `AccountTrue`, `SpreadTrue`, `UnsharedTrue`,
and `ReadsBackTrue`, the refinement of `LongStore`. `LInv` is a statement about chains although it mentions
single references only: a chunk that is referred to exists and holds the next piece of the same
value (`Linked`), no two chunks refer to one (`Unjoined`), lengths are those of the pieces
(`Sized`), any two chunks of a page fit on it (`Roomy`), the usage map is what lives on the pages (`Accounted`), and each live row's descriptor
is the head of its own value's chain, unlike every other's (`Held`). Pieces are numbered, so a chain
that goes on comes to an end, and that it takes a new page with each chunk (a full chunk
and another have no room on one page, `ChunkAssumption`) is why the readers' test for circles never stops it early. `Chain` is a recursive
function over lists of references; that such a function exists is proved first, since without that the
definition says nothing. Writing a value from its last chunk to its first, freeing a chain, and freeing the rows
of a batch are folds, proved by one lemma each about a single step and by `Folding`. Chunks that
leak (finding 3) are in the invariant: they stay linked and accounted for, and nobody refers to their heads.

**`TypedTableProofs`**: `TypeCorrect`, `SqlWithinSelect`, `RowRoundTrip`, `ReadsTrue`, `OrderTrue`,
`LookupsTrue`. It goes from bytes to tables:

- *Definitions.* `Shape(Columns(def))` is a fixed point of writing the definition page and parsing it
  (`TInv`), since a variable-length column is counted again each time and the length of a Text is
  doubled and halved.
- *Numbers and texts.* A number in range is the sum of its bytes, and half the range more
  or less does not change how the low bytes divide (`PowerDivides`, `ModShift`), so that a number, its bytes
  and its key with the sign flipped determine each other (`NumberKeyTells`). A text reads back
  by cases, compressed or wide (`NarrowRoundTrip`, `WideRoundTrip`).
- *Rows.* A row is seven parts end to end; `RowShape` says where each begins, `MaskFacts` what the
  null bits say, `StartRead` and `VarRead` that the offsets, stored last first, lead to the bytes of their column, and
  `OwnBytes` that columns that share no byte keep theirs. `RowRoundTrip` joins them. A column that overlaps another (`Roomy` false) still
  reads as some value of its kind, which the invariant needs.
- *Tables.* `RInv` says of each live row that it was built of well formed values and reads as given (`Kept`).
  That it was *built* is the strengthening: an Update writes back what it has read, so what is read of a row
  must be writable again and read the same (`KeptChanged`).
- *Order.* The bubble sort with its rounds cut short is two nested folds; a round settles the greatest of what is left
  (`SortSettles`) and only swaps, so that each row occurs as often as before (`SortRearranges`, `RearrangedCounts`).
- *Lookups.* Parts of a composite key are framed by a flag and a length, so none begins another and a key
  has one reading (`FramesMeet`, `FramesApart`); each part tells values apart as `Same` does (`PieceTells`), and the values read back
  have the key of those given (`KeysAgree`). `LInv` adds to `RInv` that values in columns outside `lossy` are exact (`ExactRows`) and that
  a leaf over such columns is the set of its rows' entries (`LeavesKept`). Entries are found by the values read back and
  replaced by those of the new values: `UpdateIndexed` is where the two must agree.

The theorems rest on what callers can write down (`SchemaAssumption`, `InputAssumption`, `WhereAssumption`,
`QueryAssumption`), on an even number of byte values (`ValueAssumption`), and on rows shorter than two
bytes count (`RowAssumption`). What they leave out is in the properties themselves: `IsExact`, `Roomy`.

**`Folding`** is lemmas about operators of the community modules, for any operator folded, which is a
constant of the module; each proof module has an instance for each operator that the code folds. Induction is
over sets: to prove that P holds of all numbers, `Inductive` takes the set of those it holds of, where the
library's theorems take the operator P, which these provers cannot instantiate. A left fold over a sequence is the last of
its steps; `MapThenSumSet` exists (its definition is recursive over the parts of a set), does not
depend on the order in which elements are chosen, and grows by one element's value when an
element is added.

Where a step cites `Zenon`, the SMT solver does not find it and is spared the attempt.

Only model-checked:

- `SavesEnd`: liveness and ENABLED are out of the provers' reach.
- the five violated properties, which are counterexamples.

Every safety property that a passing run checks is a theorem.

No module declares a RECURSIVE operator, since the SMT backend is lost in modules that do.

## 5. Assumptions and omissions

- `NoRef` is no reference and `Gone` no value's pieces, and `LeafRoom` is a number: these are needed
  by proofs and say nothing about the code.
- Random names of temporary files differ. What several processes keep in memory is not compared:
  the last Save wins, as the code has it.
- No two tables have names that differ only in case; `replaceState` and `Table` disagree on such
  names (listed as a hazard).
- `PageAlloc` has at most one index per table; definitions take one page, as `CreateTable` checks.
- `TableTxn` has one index on one column, never null, and the rest of a row is a length; that
  a row which is too long for any page is refused is part of `Insert`.
- `TypedTable` assumes of its inputs what Go's types and the parser guarantee: as many values as columns, each well formed
  (`IsValue`), indexes over numbered columns, conditions and orders as records, no negative OFFSET.
- `TypedTable` knows columns by position and leaves out names and their folding, index flags and
  names, the AutoNumber reported to the caller, GUID columns, the size limit of a definition, and index leaves that are full. Memo and OLE
  columns are `LongValue`'s.
- `ColumnValue` takes numbers as exact: no rounding of floats, NaN or infinities, no part of a
  second of a DateTime; the one loss it has is Money's truncation. In the code a compressed text is written as
  its UTF-8 bytes, and characters between 128 and 255 take two; the model's take one.
- `Query` leaves out LIKE (Go's regular expressions), the splitting of SQL text, and how a float
  is printed. `First` and the statements that only call the operations above have no model of their own.
- The `Encode`, `Decode` and `Compare` methods of the codecs are called nowhere in the library.
- `LongValue` has one long column and no empty values. Refusing a chain by its length or a size limit is input
  validation and left out, as is all parsing of malformed files.
- `AtomicSave` leaves out which path a `Database` is bound to (`SaveAs`) and `Close`.
- `MemoryPageStore` is filled from the byte buffer and read by nothing that writes it back.

Not modelled, and why: `MemoryPageStore` (it meets the database only when it is made), the
constants, profiles and encryption stubs (no state; the stubs return an error), and the programs
under `cmd/` and `example/`.

### Where the code and its words part, outside the runs

Met while modelling; the models have them as the code does, and the properties of `typed_table`
say by their conditions where they stop.

- `<`, `>` and ORDER BY take texts, Short Integers and Bytes for 0 (`query.go:309-328`), so that
  `OrderByAsc("LastName")` of the documentation leaves an order that has nothing to do with
  names. `OrderedByNumbers` is about rows whose ordered columns have kinds that `toFloat` knows.
- OFFSET and LIMIT apply before ORDER BY (`query.go:141-178`), and `First` leaves its limit
  of one on the query.
- Kinds that are accepted and not written become 0: int64 in Short Integer and Byte columns,
  int32 and int64 in Money, int16 in BigInt. SQL statements give int64. These, texts that begin with
  U+FEFF, end with NUL or hold pairs of UTF-16 units, and Money amounts that truncate, are what `Exact` leaves out.
- A `Length` below the size of a fixed-length type lets the column overlap the next one (`Roomy`).
- A required column is so only until the first transaction: the definition page does not say it.
- SQL's PRIMARY KEY and UNIQUE make no index, IS NULL and IN never match in SQL text, and UPDATE
  and DELETE take OR for AND.
- An AutoNumber is an int32, for which a BigInt column has no key: with a primary key on it the second Insert is refused.
- A lookup with a number outside the column's range finds the row of the number it wraps to.

## 6. Plan

Done, in this order, most important first: `TableTxn` with its proofs, `DataPage`, `LongValue`,
`PageAlloc` with its proofs, `AtomicSave` with its proofs and liveness, `WriteTxn` with its proofs,
`ColumnValue`, `Layout` and `Query` under `TypedTable`, the theorems
about calls and about the index in the second half of `TableTxnProofs`, and the proofs of `DataPage`, `LongValue` and
`TypedTable`.

Left:

1. `WriteTxn` with folded names and AutoNumber: the hazards at `database.go:1076` and `row.go:402`.
2. A composition of `LongValue` with `PageAlloc`, so that long values and data pages compete for pages
   through one bitmap.
3. Several long columns in a row of `LongValue`.
