# A TLA+ model of the relational database

The program is a small relational database in C++: pages in one file per
database, a buffer pool, heap files of slotted pages, a catalog stored in heaps
of its own, and query operators on top. It has one thread. What makes it hard is
not parallelism but the sharing of a few frames by many callers, pointers into
frames that may be evicted, pages that reach the file in any order or never, and
arithmetic at the end of a page.

## The system

| Component | State | Operations | Uses |
|---|---|---|---|
| DiskManager | the file, `next_page_id_`, `free_list` | ReadPage, WritePage, AllocatePage, DeallocatePage, GetNumPages, constructor | fstream |
| BufferManager, FreeList | `pool_`, `page_table_`, pin counts, dirty flags, free list | request, release, evict, pin, unpin, mark_dirty, flush_all | DiskManager, ClockPolicy |
| ClockPolicy | `ref_bits_`, `hand_` | choose_victim, record_access, record_load, record_unpin | pin counts of the frames |
| SlottedPage | header, directory and records in the bytes of a page | Init, Insert, Get, Update, Delete, FreeSpace | - |
| HeapFile | `_first_page_id`; pages linked by `next_page_id` | Create, Open, Get, Insert, Update, Delete | BufferManager, DiskManager, SlottedPage |
| HeapIterator | page, slot, `_has_next` | HasNext, Next, Advance; `begin`, `*`, `++` of the heap's iterator | HeapFile, BufferManager |
| Catalog | page 0 with the magic value; heaps db_tables, db_attributes, db_types | Init, CreateTable, LookupTable, GetTableColumns | HeapFile, both managers |
| TableManager | `_cache` of opened tables | OpenTable, CreateTable | Catalog, HeapFile |
| Relation, UserTable, DynamicCodec, catalog codecs | the buffer of a row being encoded, the offset of one being decoded | Encode, Decode, WriteData, ReadData, padding, ToValues | HeapFile |
| DbServer | `_cache`: DiskManagers by name; the files in DATA_PATH | Init, OpenDatabase, CreateDatabase, DeleteDatabase | DiskManager, file system |
| PhysicalPlanner | - | Build | TableManager |
| Executor, operators | operator tree over one scan, `_produced` of each limit | Execute, ExecuteAndCollect; Open, Next, Close | HeapIterator, UserTable, PhysicalPlanner |

All interaction is by call. Shared state is the pool (any caller may evict any
unpinned frame of any other) and the file (what is in it when the process ends is
what the next one starts from).

What must be right, component by component:

- **DiskManager** never hands out a page that is in use, in this process or on disk.
- **DbServer** has one manager per database and knows every file that is there; a pointer
  that a client holds stays good, and a file keeps its pages until it is deleted.
- **BufferManager** shows each caller the last write of a page, keeps pinned frames
  where they are, and loses nothing but what a crash loses.
- **ClockPolicy** finds a victim whenever there is one, and prefers frames that were
  not used since the last lap.
- **SlottedPage** keeps directory and records apart and every record as it was stored.
- **HeapFile** keeps its chain apart from all others; a RID names one record for good.
- **HeapIterator** returns each record once, ends, pins nothing when it is idle, and
  what it returns can be read.
- **Codecs** give back what they were given, and a row takes a byte at least, because
  `Get()` takes a record of length 0 for a deleted one.
- **Executor** delivers the query over the rows, in order, each time a plan is opened.
- **Catalog** resolves a name to one table with its columns, before and after restarts.
- **TableManager** never serves a stale table.

## Modules

Each layer states what it promises in a module of its own, and the next layer is
modelled over the promise rather than the detail.

| Module | Models | Notes |
|---|---|---|
| `DiskFile` | ReadPage, WritePage, GetNumPages as operators on a file | short reads leave the buffer as it was, holes read as zeros |
| `DiskManager` | what the constructor finds in the file, AllocatePage, DeallocatePage: operators on a manager | extends DiskFile |
| `DbServer` | databases, their files and managers, clients with pointers, restarts | extends DiskManager; clients give back pages they own, drop pointers to a database they delete, and call Init() once and first |
| `ClockPolicy` | `choose_victim` in closed form, the record functions | the state is used by BufferManager and ClockSecondChance |
| `ClockSweep` | the loop of `choose_victim` as it runs | checked against the closed form in every state of the pool |
| `ClockSecondChance` | the policy alone, under the calls the pool makes | for the comment it contradicts |
| `PageStore` | what the pool promises: a store of pages with pins and crashes | abstract |
| `BufferManager` | the pool, one action per path of each function | `ImplementsPageStore` |
| `PageRecords` | one page as a sequence of records: operators | shared by RecordPage and HeapFile |
| `RecordPage` | the page as a state machine over these operators | abstract |
| `SlottedPage` | the bytes of a page: header, directory, records | `ImplementsRecordPage` |
| `RecordStore` | what the heaps promise: rows by RID | abstract |
| `HeapFile` | heaps as chains of pages of `PageRecords`: one action per path of Create, Insert (a heap without pages included), Update and Delete | `ImplementsRecordStore` |
| `HeapRecovery` | the heaps over a file, write-back, flush, crash | extends HeapFile |
| `HeapIterator` | a scan interleaved with calls that change the heaps | extends HeapFile |
| `HeapScan` | the iterator one request and release at a time, with another client of the pool | extends BufferManager |
| `Planner` | `PhysicalPlanner::Build`, and what a plan asks for | a plan is its table and the nodes above the scan, root first, since each node has one child; what a node does is a function of its place in that chain. `Meaning` is what results are compared with |
| `Executor` | operators over that scan, pull by pull; row decoding as a read of the frame | extends HeapScan and Planner |
| `RowCodec` | DynamicCodec and the three catalog codecs, field by field over bytes | |
| `Catalog` | bootstrap, load, CreateTable row by row, lookups, write-back, crash | rows have sizes; a row goes to the first page of its heap with room for it, else to a new page, and one too large for a page is refused. Calls are not kept from a catalog that a crash left broken: `CreateTable()` goes on, and a read of a page that was never initialised makes the phase "undefined" |
| `TableManager` | OpenTable and its cache | extends Catalog |
| `MC*` | constants for TLC | |
| `SlottedPage_proofs`, `BufferManager_proofs`, `HeapFile_proofs`, `HeapHistories_proofs`, `RowCodec_proofs`, `DbServer_proofs`, `Catalog_proofs`, `Executor_proofs` | theorems | `BufferManager_proofs` is about `ClockSweep` and `HeapScan` too, `HeapHistories_proofs` about `HeapRecovery` and `HeapIterator`, `Catalog_proofs` about `TableManager`, `Executor_proofs` about `Planner` |

How state corresponds: names are those of the code (`pageTable` is `page_table_`,
`refBits` is `ref_bits_`, and so on). A page's bytes are a function in
`SlottedPage`, a value elsewhere. A record is its length and a value. UUIDs are
ids that are never issued twice. The file maps a page to its content or to
`Unwritten`. `ret` is the outcome of the last call and, for pages and heaps, the
record it was given, so that a contract can tell what was to be stored. A byte of
a row is told apart by the value it belongs to and its place in it, so that a reader that
is off by one byte gets garbage. Variables marked "history" in a module exist for the
properties only.

Definitions called mutants are plausible slips of the code, kept beside the
definition they would replace; each property has one that breaks it.

## Runs

| Run | Instance | Shows |
|---|---|---|
| `slotted_page` | one page of eight bytes, records of up to three | no overlap of directory and records, records disjoint, and the page is an array of records |
| `clock_second_chance` | 3 frames, one pin each | **violated**: a frame just released is the next victim, although the comment promises it a second chance |
| `db_server` | 2 databases, one whose file discovery passes over, 2 managers each, 3 pages, restarts | pointers stay good, the cache knows every file discovery can see, no page in use is handed out again, files survive |
| `row_codec` | schemas of none to four columns with integers after strings, strings of 0 to 5 bytes, and the catalog's own | a row comes back as it went in, field by field in the order of the schema, and has a byte at least |
| `buffer_manager` | 2 frames, 3 pages | coherence of page table, frames and free list; clean frames equal the file; pinned frames stay; the two-lap loop of the policy stops where the closed form says; the pool implements PageStore |
| `heap_file` | 2 heaps, 3 pages of four bytes, records of 1 and 2 bytes and one that fits no page | chains stay apart, links lead forward to initialised pages, the heaps implement RecordStore |
| `heap_crash` | the same with a file, crash at any point, any subset written | links of initialised pages lead forward, holes of the file are read as zeros, and walks end where no chain leads to one; a flushed record that was not touched since survives every later crash |
| `heap_iterator` | scan against inserts, updates and deletes in two heaps | no record twice, and none missed that was there throughout |
| `executor` | 7 plans, one for a table that does not exist, over a heap of three pages, one of them without records, and a page of another heap; 2 frames, another client | at most one pin, none when idle; what a plan delivers is the query over the rows, each time it is opened; it ends |
| `returned_record` | the same heap and pool | **violated**: the record that `Next()` returned may have been evicted by its own `Advance()` |
| `table_manager` | 2 tables made over all processes, without columns or with a larger one before a smaller; names with one of the system's, one whose row fills what a page has left, and one whose row fits no page; catalog heaps that grow | see below |
| `column_order` | same, catalog only | **violated**: the columns of a table are not stored in the order `CreateTable()` was given them |

`table_manager` lets the process end between any two inserts and any two page
writes, and lets callers reuse names, that of `db_types` among them. A crash may lose a
page that a chain of the catalog leads to, and the next process does not look for that.
`CreateTable()` runs on such a catalog (`CreateAs`), and may be given the very page that
is missing. A lookup or an insert that comes to the missing page reads what its frame
held before, or zeros: what follows is not defined, and the process of the model stops there
(`LookupLost`, `InsertLost`; the deadlock check is off in the two catalog runs for this
alone). The history variable `sound` says that every call so far found the three heaps whole. All
that is said below of rows and lookups is said of such histories, and what a
scan returns only of a heap that it comes to the end of (`ScanEnds`). That the page of a
flushed table is never handed out again needs neither. The run shows that
a table that is not lost, nor refused for its size, has all its columns and is found, and that
two of its columns change places only when the later one is smaller; that columns of
different tables never mix, not even after a crash that kept only some of a
table's rows; that a flushed table's page is never handed out again; that the catalog describes itself
after every restart that follows a complete bootstrap; and that the columns in the cache of
TableManager are those of the catalog. That a name the file resolves keeps its meaning for
good, and that a cached name is the table the catalog resolves it to, are stated under the
condition that rows of that name are scanned in the order of their inserts
(`InInsertOrder`): one table has the name, or all rows of tables have one size and fit a
page. "What the models found" says what happens otherwise.

Why the bounds are enough: every hazard above needs at most two owners of a page,
one page beyond what the pool or a chain has, and one restart between them. The
instances have two heaps and a chain that two heaps can contend for, fewer frames
than pages, and unbounded restarts. Bounds are the constants commented as such
(`MaxPages`, `MaxTables`, `MaxPin`); pages are small enough that the last byte and
the last slot are reached in many orders. `db_server` has two managers per database so
that a second one could be made while the first is in use, and one more page than a
restart needs to recount. In `row_codec` strings have every length modulo the alignment.

### What the models found

- A restart after a crash recomputes `next_page_id_` from the size of the file. A
  link or a catalog row that was written while the page it names was not then
  names a page that the next caller is given. In the heaps a chain may end in a
  page that is not in the file (`NoDanglingLink` fails with crashes; it holds
  without). In the catalog two tables may have the same first page: this is why
  `FlushedTablesKeepTheirPages` speaks of tables made later only.
- A lost page that is not the last of the file is a hole, and `ReadPage()` shows zeros: a
  page whose link is page 0. When 0 leads to 1, 1 was lost and 2 was written, the walk from 0
  goes 0, 1, 0, 1 and so on. `LinksForward` is a property of pages that were initialised:
  it makes walks end only where a heap has no other (`SoundWalksEnd`).
- The catalog is written to after such a crash without a look at its chains. When the link of
  db_attributes was written and the page it leads to was not, the next `CreateTable()`
  may take that page for its user table, and a page after it for db_tables: rows of
  two heaps then share a page. Without `sound`, TLC finds `CatalogTypeOK` violated, and lookups
  of `TablesResolve`, `ColumnsNeverMixed` and `SelfDescribing` that meet rows of another heap.
  A crash that left nothing but page 0 leads there in the simplest way: the next process
  takes 1 and 2, the roots of two catalog heaps, for its user tables.
- `SeqScanOp` decodes a record after the iterator has moved on. When the frame went to
  another page in between (`returned_record`), the row that is delivered is one of that
  page. `ResultIsQuery` holds of the executions in which this did not happen, which it
  tells apart by the history variable `lost`.
- The magic value is written before the catalog it vouches for. `SelfDescribing` is
  stated for databases whose bootstrap ran to its end; for others the next `Init()`
  opens catalog heaps whose pages do not exist. What calls do with those is not defined.
- `Insert()` puts a row on the first page that has room for it. A column whose row is
  longer than what the first page has left goes to the next page, and a shorter one that
  comes after it to the first: `GetColumns()` then returns them exchanged, and a row is
  encoded by that order (`column_order`).
- For the same reason two tables of one name with rows of different sizes between them can
  change places for a lookup after a crash that kept a later page of db_tables and lost
  what filled an earlier one. TLC finds `DurableNamesStable` and `CacheAgrees` violated
  without `InInsertOrder` when four tables are made, more than `table_manager` has; with
  it, both are proved for any number.
- `CreateTable()` flushes nothing, so a restart undoes it unless its pages happened to be
  written; `src/README.md:122` says that the catalog ensures its
  durability, and does not mention that its owner has to flush.
- `CreateTable()` drops the results of its inserts. A table whose row fits no page gets an
  id, and columns under that id, and cannot be found by its name.
- A table without columns is accepted, and its rows are records of length 0, which
  `Get()` takes for deleted ones (`RowsAreRecords` is stated for the others).
- A record that fits no page, inserted into a heap without pages, leaves it with two
  empty ones; each further attempt adds another.
- `DbServer::Init()` assigns to the cache, so a call of it after `OpenDatabase()` would
  replace managers in use. The model has it first and once, as the server's README does.
- `LimitOp` with a limit of 0 delivers nothing; `ast.h:30` says that 0 means no limit.
  Nothing in the repository connects the two.
- `Insert()` reads `next_page_id` through the frame it has released (heap_file.cpp:71).
  With one thread nothing comes between the two lines.

## Fairness

Only `Executor` has liveness. A call that was begun goes on (weak fairness of its
steps: one thread runs it to its return), and a plan that was opened is pulled until
it ends (strong fairness: other calls on the pool may come between two pulls, and a
pull is not enabled while they run). `Execute()` and `ExecuteAndCollect()` do exactly
this and make no other calls; the operators' own callers in the tests do too. Nothing
is assumed of the other client. All other modules state safety and assume no progress.

## Proofs

TLC checks the instances above. The following holds for all values of the
constants that satisfy the named assumptions in the modules.

**SlottedPage_proofs.** Assumed (`SizeAssumption`, `ByteAssumption`): the sizes of page,
header and directory entry are natural numbers, an entry has a byte at least, and
the page has room for the header; records may be empty. The
inductive invariant says that the directory ends before `free_space_offset`, that every
live slot's bytes lie between that offset and the end of the page, that any two
of them are disjoint, and that the directory's bytes hold the directory. `LayoutOK`
alone is not inductive: an update in place must know that the record it overwrites
lies wholly in the data area, and disjointness after a relocation follows from the
new record lying below all others. From it follow type correctness, `LayoutOK`,
`RecordsDisjoint`, `DirectoryIntact`, and, action by action, that the page
implements `RecordPage` (`PageImplementsRecords`): an operation that writes the bytes
of one record leaves what `Get()` says of the others.

**BufferManager_proofs.** The invariant joins `PageTableCoherent` and `FreeListSound`:
each is needed for the other, since a frame taken from the free list must be in no
entry of the table. With it, `PinnedNeverEvicted`, `SecondChance` and
`CleanAgreesWithFile` follow by cases on the paths of `request`. The refinement
`PoolImplementsStore` maps a page to what `request()` would show of it: its frame if it
has one, the file otherwise. A path of `request` changes neither, because a frame
that is dropped is written first or was clean; only writes and crashes do.

The loop of `choose_victim` is `LoopIsThePolicy`: until the turn at which a frame stops
it, the loop has moved the hand on and cleared the bits it passed (`PassesUntil`, by the
least turn at which this fails), and that turn is the least of `StopsAfter`.

`ScansLeakNoPin` is about HeapScan over this pool. Nobody writes, so frames and file hold
the heap as it is on disk, and a scan is led along its links only (`ScanInv`); the two
callers hold their page one at a time, so a frame is free whenever one of them asks.
Assumed (`OnDiskAssumption`): the heap on disk is well formed: there are finitely many pages, links
lead forward to pages, and a page has records only in the slots it has.

**HeapFile_proofs: chains.** `Chain(x)` is defined by a walk that counts steps. The lemmas show
that, where links lead forward, it is the least set with x and the successors of its
pages (`ChainStarts`, `ChainFollows`, `ChainLeast`). What else is said of chains follows
from that by naming a closed set, without induction.

**HeapFile_proofs: heaps.** The invariant is `LinksForward`, `OneOwner` and `AllocatedOnce`
together: a new page is nobody's because the pages in use are exactly those below
`nextPageId`, and links lead forward because the new id is above all others. It
gives `NoDanglingLink` as well, which is what makes every call defined. For
`HeapsImplementStore`, `Owned` adds that every page is on some chain; `OneChain`, from
`OneOwner`, makes that chain the only one, so that the heap of a RID is a function of
the page. A call adds links and moves none, so chains grow and a page keeps its heap.

**HeapHistories_proofs: crashes.** `CrashInv` says that the file is an older version of the pages:
a link in the file is a link of the page, though the page may have one since; that
each record in `kept` is in the file; and that each page with such a record, if it is on the
chain of a heap, is reached from that heap's first page by links in the file alone.
The last part is what a crash needs. It survives write-backs, which only add links, and
calls, which can bring no old page onto a chain. `SoundWalksEndAfterCrash` (links of initialised
pages lead forward, and walks of heaps without holes end) and `FlushedRecordsAreKept` follow.

**HeapHistories_proofs: scans.** A link leads to a larger page id, so the order in which a scan
meets records is that of their RIDs, by page and then by slot, and `Advance()` moves to the
next live record of the heap in that order. `IterInv` says that the RIDs returned are in
that order and not ahead of the position (hence `ScansReturnOnce`), and that each record
that was there from `begin()` on was returned or is ahead (hence `ScansMissNothing`). The caller's
calls are known only by the contract of `RecordStore`, which `HeapsImplementStore` gives:
RIDs are never reused and stay with their heap. Assumed (`NoScanAssumption`): the value for
"no scan" is no heap.

**RowCodec_proofs.** While a row is encoded, every field that was written lies where
`ends` says, after the padding that follows the field before; while it is decoded, the
offset is the end of the last field read. The decoder skips the same padding because it
stands at the same offset (`RowsComeBack`). `RowsHaveBytes` follows from the width of
an integer and the length field of a string. `TuplesFollowColumns` pairs the names of the
codec with the places of its fields, for the catalog's own codecs and for user tables.

**DbServer_proofs.** Assumed: `ServerAssumption` and `NullAssumption` (page ids are 0 up to the bound; no manager
and no file are values of their own). The invariant ties every manager that exists to
its cache entry, its counter to the pages that are written or handed out, and its free list
to pages nobody has; after `Init()` every file that discovery can see is in the cache.

**Catalog_proofs: heaps.** Assumed: `CatalogAssumption` (every name has a row size, no row is
empty, there is room for the four first pages, and the rows of the three system names,
which are short, fit one page together). The theorems about rows and lookups are about histories in which every
call found the catalog heaps whole: while `sound` holds, a step is one of `SoundNext`
(`SoundStep`), and each invariant below is kept by those. What needs no condition
is `PlainInvariant`: ids, page counts and phases, and that the page of a flushed table is never handed out again
(`FlushedPagesKept`), where existence in the file counts, because the file is what the next process
counts its next page id from. A heap is what a walk from its root meets
(`PagesOf`). Links lead forward, so a walk of as many steps as there are pages meets all of
them, and `PagesOf` is the least set with the root and the successors of its pages
(`PagesStart`, `PagesFollow`, `PagesLeast`). `CatInv` says that the file is an older version of
the pool, in which a link is there or not yet; that the three heaps share no page; that a
page of a heap has rows of that heap, in the pool and in what was written of it; that while
rows are being inserted every link leads to a page; and that the first page of a kept
table exists. A crash leaves the heaps of the file, which are part of those of the pool
(`OlderPages`), so they are still apart. `CatalogTypeCorrect` follows: no page has rows of two
heaps.

**Catalog_proofs: rows and lookups.** The place of a row is its page and its slot. A scan
meets places in their order (`RowsListed`), `GetColumns()` lists those with its table id
(`ColumnsListed`), and `Lookup()` finds the first of its name (`TableFound`). What these operators
compute is defined by recursion over pages and rows; instead of induction the lemmas take the least
step at which the claim would fail. Rows never move, and the file has the first rows
of each page, so a crash takes places away and changes none. On top of that
- `ColumnsIn`: every row of a column is of a table that was made, no two are alike, and what a
  call has left to insert comes after all that is there. `ColumnsStayApart` follows.
- `TablesIn`, `AllFit`, `InOrder`, `KeptIn`: rows are of tables that were made and fit
  a page; of two rows of one table, the later one is before the earlier only if it is smaller,
  because first fit passed the pages between for want of room; and a table that
  `CreateTable()` returned, or `flush_all()` wrote, has all its rows, in the pool or in the
  file, while those of a call that runs are there or still to come. `TablesAreFound` follows.
- `RootRoom`, `SystemFirst`: the catalog inserts its own three rows while nothing is
  written and the first page of db_tables has room for them, so they are before all others of
  their names, in the file as well. `CatalogDescribesItself` follows; the columns of system tables
  are of one size, so `InOrder` puts them in the order of their positions.
- `LinksFull`: when rows are of one size, a page with a link has no room for one, nor had it
  when it was written, and what came to a page after it was written had room then. So no row
  comes before one that the file has, unless the file has it too, and
  `NamesAreDurable` follows.

**Catalog_proofs: the cache.** `ManagedCatalog`: a TableManager changes nothing that is stored,
so what holds of the catalog holds under it. `CacheInv` says that the running call has no row left
for a table that was opened: between calls nothing is left to insert, and a new table has
an id of its own. What `OpenTable()` read therefore stays what the catalog says, and by
`LinksFull` no later row of that name comes before it. `CacheIsFresh` follows.

**Executor_proofs.** `QueriesAnswered` is the claim of the whole read path, for every plan, heap,
pool and row content: what the operators deliver over the pool is the query over the rows of the
heap. Assumed, besides `OnDiskAssumption` and what the pool assumes: the columns of a table have names
of their own (`SchemaAssumption`); nodes of a plan are of the three kinds of the code, a limit is a
number, and a predicate is about a column of its child (`PlansAssumption`); a row has a value for
each column (`DecodeAssumption`). The proof has three layers under the invariant.
- The heap. Its pages are one ascending chain (`HeapLinks`): a page
  with a later one in the heap has a link, and no page of the heap lies between it and where
  that leads. So the iterator passes the
  places of rows in their order and leaves none out (`ScanPos`, `Seen`), through every `request()`
  in which the pool evicts and reloads, and an idle scan without a next
  record has passed all of them (`SeenFacts`).
- Columns. Every tuple above a projection has the values of the columns that all projections below
  keep, in the order of the table (`NamesFacts`, `OutputFacts`), so the position that the planner
  computed for a filter is that of its column by name, at every height of the plan.
- Limits. `RowsAt(j)` are the rows that node j should let through. A row of the child is one of
  them exactly while `produced` is below the limit, because `produced` counts those passed before (`NextRow`,
  `LimitFacts`).

`ExecInv` relates three counts of the same rows: the places the scan has passed, those
that each `LimitOp` has counted (`CountsOK`), and those that reached the root, which are the result
(`ResultOK`). `ResultIsQuery` alone is not inductive: that the result is the right prefix says
nothing about which row comes next. The invariant also needs that at the record in hand no limit is
exhausted (`Unlost`): an operator that pulls again after a rejection does so below limits that were
looked at before, and they have counted nothing since. A limit that is exhausted, or the end of the scan,
means that no further row is wanted, which gives equality at the end.
All of it is under `~lost`, as `ResultIsQuery` is; TLC finds it violated without. `QueriesLeakNoPin` follows from
the part of `ExecInv` that is the invariant of the scan. Sizes of sets take the place of induction
over sequences: the k-th row is the one with k - 1 before it (`Ranks`, `Kth`), and what holds
at every node follows by taking the last node at which it would fail (`Downward`).

Model-checked only: `QueryEnds`, because liveness and ENABLED are out of the prover's reach. What
would make a proof of it is proved: walks and links go forward (`WalksEnd`, `SoundWalksEndAfterCrash`), no request of
a plan throws (`QueriesLeakNoPin`), and a frame is found in two laps (`LoopIsThePolicy`).
The three properties that runs violate are false. All other properties that the passing runs check are proved.

## Not modelled

- What calls do on a page that was never initialised. It holds what its frame held before, or
  zeros if it is a hole of the file: no slots, a link to page 0 and a free space that wraps.
  `HeapRecovery` reads holes as zeros (`Reopen`), but `HeapFile` disables the calls on a chain
  that has such a page (`Sound`). `Catalog` lets them begin: `CreateTable()` writes wherever the
  chains lead, and a lookup or an insert that comes to the page ends in the phase
  "undefined".
- A catalog table opened as a user table: `OpenTable("db_tables")` decodes its rows with a
  codec other than the one that wrote them.
- Values of another type than their column, and type ids other than INT and TEXT:
  nothing in the code checks either, and no caller has them.
- `CompilePredicate`, `BuildOutputSchema` and `ColumnsToPositions` are declared and not
  defined in the repository. `Planner` takes them to resolve names in the child's tuples.
  Parser, optimiser and logical planner are declarations only.
- A constructor of DiskManager that fails to open a file that exists; I/O errors other
  than reads at the end of the file; torn writes of a page.
- `main.cpp` of the disk manager, a demonstration.

## Plan

1. Done: file, server, pool, policy, page, heap, iterator, recovery, codecs, planner,
   executor, catalog, table manager; the proofs above.
2. Left, modelling: calls on pages of zeros, which a crash can leave behind, and with them the
   `Init()` of a database whose bootstrap was cut short; a catalog table
   scanned as a user table; values of another type than their column.
