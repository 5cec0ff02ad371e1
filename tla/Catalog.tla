------------------------------ MODULE Catalog ------------------------------
(***************************************************************************)
(* Class Catalog: the tables db_tables, db_attributes and db_types, heaps  *)
(* with their first pages at 1, 2 and 3 of the database file, and page 0,  *)
(* whose magic value says that the database was initialised.  Init(),      *)
(* CreateTable() and the lookups, over a pool whose pages reach the file   *)
(* when they are evicted or flushed, and a process that may end at any     *)
(* point.                                                                  *)
(*                                                                         *)
(* A call inserts its rows one by one; an eviction or the end of the       *)
(* process comes between any two.  Rows are as long as the names in them,  *)
(* and a row goes to the first page of its heap that has room for it: a    *)
(* heap grows when a row fits none of its pages, and a shorter row that    *)
(* comes later may still go to an earlier page.  HeapFile.tla has heaps in *)
(* general, and what user tables hold.                                     *)
(***************************************************************************)
EXTENDS Integers, Sequences, SequencesExt

CONSTANTS Name,        \* table names callers use
          RowSize,     \* name -> the size of its row of db_tables
          Schema,      \* tables callers ask for: the sizes of the rows of their columns
          Capacity,    \* the room of an empty page
          MaxTables,   \* bound: CreateTable() calls, over all processes
          MaxPages,    \* bound: page ids ever allocated
          NoTable      \* std::nullopt

SystemName == <<"db_tables", "db_attributes", "db_types">>

ASSUME CatalogAssumption ==
  /\ RowSize \in [Name \cup ToSet(SystemName) -> Nat \ {0}]
  /\ Schema \subseteq Seq(Nat \ {0}) /\ Capacity \in Nat \ {0}
  /\ MaxTables \in Nat /\ MaxPages \in Nat /\ MaxPages >= 4
  \* Three short names: their rows fit one page.
  /\ RowSize["db_tables"] + RowSize["db_attributes"] + RowSize["db_types"] <= Capacity

Page == 0 .. MaxPages - 1

\* DB_*_ROOT_PAGE_ID, and what InsertCatalogMetadata() says of each table.  Sizes
\* are counted in rows that describe a column of a catalog table.
TablesRoot == 1
AttributesRoot == 2
TypesRoot == 3
System == TablesRoot .. TypesRoot
SystemSchema == <<<<1, 1, 1, 1>>, <<1, 1, 1, 1>>, <<1, 1, 1>>>>

\* Table ids: those of the system tables, then GenerateUUID()'s, all distinct.
Id == 1 .. TypesRoot + MaxTables
FirstUserId == TypesRoot + 1

NoPage == -1           \* INVALID_PAGE_ID

VARIABLES content,     \* page -> Unwritten, Header, or a heap page: [rows, next]
          file,        \* page -> its bytes on disk, likewise
          nextPageId,  \* DiskManager::next_page_id_
          phase,       \* what Catalog is doing
          todo,        \* inserts the running call has left: <<page, row>>
          made,        \* history: the tables of all CreateTable() calls, by id
          kept,        \* history: ids that CreateTable() returned and no crash lost
          flushed,     \* history: those of them that flush_all() wrote
          booted,      \* history: BootstrapCatalogs() ran to its end
          sound        \* history: every call found the catalog heaps whole

catalogVars ==
  <<content, file, nextPageId, phase, todo, made, kept, flushed, booted, sound>>

----------------------------------------------------------------------------
(* Rows and pages.                                                         *)

TableInfo(id, name, first) ==
  [id |-> id, name |-> name, first |-> first, size |-> RowSize[name]]
SystemTable(i) == TableInfo(i, SystemName[i], i)

Columns(id, sizes) ==
  [i \in DOMAIN sizes |-> [table |-> id, position |-> i, size |-> sizes[i]]]

\* CatalogTable::Insert() of each row in turn.
Inserts(page, rows) == [i \in DOMAIN rows |-> <<page, rows[i]>>]

InsertBuiltinTypes ==
  Inserts(TypesRoot, <<[type |-> "INT", size |-> 1], [type |-> "TEXT", size |-> 1]>>)

Describe(i) ==
  Inserts(TablesRoot, <<SystemTable(i)>>)
    \o Inserts(AttributesRoot, Columns(i, SystemSchema[i]))

InsertCatalogMetadata ==
  Describe(TablesRoot) \o Describe(AttributesRoot) \o Describe(TypesRoot)

\* A page that nobody initialised, page 0 with DB_MAGIC, and a heap page without
\* rows.  The first is no page of a heap, whatever request() shows of it: zeros with
\* a link to page 0 where it is a hole of the file, or else what its frame held
\* before, perhaps a copy of another page.
Unwritten == [kind |-> "unwritten", rows |-> <<>>, room |-> 0, next |-> NoPage]
Header == [Unwritten EXCEPT !.kind = "header"]
EmptyPage == [kind |-> "heap", rows |-> <<>>, room |-> Capacity, next |-> NoPage]

\* SlottedPage::Insert()
Accepts(page, row) == row.size <= page.room
WithRow(page, row) ==
  [page EXCEPT !.rows = Append(@, row), !.room = @ - row.size]

\* Where what is known of a walk along a catalog heap ends: after the last page, or
\* before one that was never initialised.  The code follows a link to such a page:
\* LookupLost and InsertLost.
Ends(disk, p) == p = NoPage \/ disk[p] = Unwritten

\* The i-th page of a heap: its root, and pages after the roots.
Walk(disk, root) ==
  LET at[i \in 0 .. MaxPages] ==
        IF i = 0 THEN root
        ELSE IF Ends(disk, at[i - 1]) THEN NoPage ELSE disk[at[i - 1]].next
  IN  at

\* The steps of a walk that are at a page.
Steps(disk, root) == {i \in 0 .. MaxPages : ~ Ends(disk, Walk(disk, root)[i])}

\* Every page that the chain of a heap names was initialised: a walk or a scan along
\* it ends after its last page.
ScanEnds(disk, root) ==
  /\ disk[root] # Unwritten
  /\ \A i \in Steps(disk, root) :
       LET next == disk[Walk(disk, root)[i]].next
       IN  next # NoPage => disk[next] # Unwritten

\* The rows of a heap, in the order of a scan.  A scan of a heap with a page that
\* was never initialised begins with these rows, and goes on into that page.
RowsOf(disk, root) ==
  LET at == Walk(disk, root)
  IN  FlattenSeq([i \in 1 .. MaxPages |->
        IF Ends(disk, at[i - 1]) THEN <<>> ELSE disk[at[i - 1]].rows])

\* Mutant of Lookup: the scan does not stop at the first match.
LookupLast(disk, name) ==
  LET rows == RowsOf(disk, TablesRoot)
      found == {i \in DOMAIN rows : rows[i].name = name}
  IN  IF found = {} THEN NoTable
                    ELSE rows[CHOOSE i \in found : \A j \in found : j <= i]

\* TablesCatalog::Lookup(): the first row with this name, at which the scan stops.
\* There may be none only if the scan ends.
Lookup(disk, name) ==
  LET rows == RowsOf(disk, TablesRoot)
      found == {i \in DOMAIN rows : rows[i].name = name}
  IN  IF found = {} THEN NoTable
                    ELSE rows[CHOOSE i \in found : \A j \in found : i <= j]

\* AttributesCatalog::GetColumns(): the rows with this table id, in the order of the
\* scan, if it ends.
GetColumns(disk, id) ==
  LET rows == RowsOf(disk, AttributesRoot)
      upTo[n \in 0 .. Len(rows)] ==
        IF n = 0 THEN <<>>
        ELSE IF rows[n].table = id THEN Append(upTo[n - 1], rows[n]) ELSE upTo[n - 1]
  IN  upTo[Len(rows)]

----------------------------------------------------------------------------
(* Init().                                                                 *)

Exists(p) == content[p] # Unwritten

CatalogInit ==
  /\ content = [p \in Page |-> Unwritten]
  /\ file = [p \in Page |-> Unwritten]
  /\ nextPageId = 0
  /\ phase = "closed"
  /\ todo = <<>>
  /\ made = <<>>
  /\ kept = {}
  /\ flushed = {}
  /\ booted = FALSE
  /\ sound = TRUE

\* IsInitialised() reads page 0 from the file.
IsInitialised == file[0] = Header

LoadCatalogs ==
  /\ phase = "closed"
  /\ IsInitialised
  /\ phase' = "open"
  /\ UNCHANGED <<content, file, nextPageId, todo, made, kept, flushed, booted, sound>>

\* BootstrapCatalogs() up to its inserts: the header goes to the file, the
\* first pages of the catalog heaps only to the pool.
BootstrapCatalogs ==
  /\ phase = "closed"
  /\ ~ IsInitialised
  /\ nextPageId = 0
  /\ file' = [file EXCEPT ![0] = Header]
  /\ content' = [content EXCEPT ![0] = Header, ![TablesRoot] = EmptyPage,
                                ![AttributesRoot] = EmptyPage, ![TypesRoot] = EmptyPage]
  /\ nextPageId' = TypesRoot + 1
  /\ phase' = "bootstrap"
  /\ todo' = InsertBuiltinTypes \o InsertCatalogMetadata
  /\ UNCHANGED <<made, kept, flushed, booted, sound>>

\* The next Insert() of a running call: into the first page with room for the row,
\* else into a new page, which stays empty when the row does not fit there either.
\* Nobody looks at the result.
InsertRow ==
  /\ todo # <<>>
  /\ LET root == Head(todo)[1]
         row == Head(todo)[2]
         at == Walk(content, root)
         steps == Steps(content, root)
         room == {i \in steps : Accepts(content[at[i]], row)}
     IN  IF room # {}
         THEN \E i \in room :
                /\ \A j \in room : i <= j
                /\ content' = [content EXCEPT ![at[i]] = WithRow(@, row)]
                /\ UNCHANGED nextPageId
         ELSE \E last \in steps :
                /\ \A j \in steps : j <= last
                /\ ScanEnds(content, root)
                /\ nextPageId < MaxPages
                /\ content' = [content EXCEPT
                     ![at[last]].next = nextPageId,
                     ![nextPageId] = IF Accepts(EmptyPage, row)
                                     THEN WithRow(EmptyPage, row) ELSE EmptyPage]
                /\ nextPageId' = nextPageId + 1
  /\ todo' = Tail(todo)
  /\ UNCHANGED <<file, phase, made, kept, flushed, booted, sound>>

\* No page before one that was never initialised has room, and Insert() goes on into
\* that one: in zeros, FreeSpace() wraps and the row is written outside the page.
\* What the process does from here on is not defined.
InsertLost ==
  /\ todo # <<>>
  /\ LET root == Head(todo)[1]
         row == Head(todo)[2]
     IN  /\ ~ ScanEnds(content, root)
         /\ \A i \in Steps(content, root) :
              ~ Accepts(content[Walk(content, root)[i]], row)
  /\ phase' = "undefined"
  /\ todo' = <<>>
  /\ sound' = FALSE
  /\ UNCHANGED <<content, file, nextPageId, made, kept, flushed, booted>>

\* Mutant of FlushAll: BootstrapCatalogs() and the caller do not flush.
FlushNothing ==
  /\ phase \in {"bootstrap", "open"}
  /\ todo = <<>>
  /\ phase' = "open"
  /\ flushed' = kept
  /\ booted' = (booted \/ phase = "bootstrap")
  /\ UNCHANGED <<content, file, nextPageId, todo, made, kept, sound>>

\* flush_all(), at the end of BootstrapCatalogs() or called by the owner of the
\* pool.  WriteBack() has the states between its writes.
FlushAll ==
  /\ phase \in {"bootstrap", "open"}
  /\ todo = <<>>
  /\ file' = content
  /\ phase' = "open"
  /\ flushed' = kept
  /\ booted' = (booted \/ phase = "bootstrap")
  /\ UNCHANGED <<content, nextPageId, todo, made, kept, sound>>

----------------------------------------------------------------------------
(* Tables.                                                                 *)

\* The catalog heaps are whole.  After a crash a chain may lead to a page that was
\* lost, or, if it was the last one of the file, is handed out again.
Sound == \A root \in System : ScanEnds(content, root)

\* A lookup whose scan goes on into a page that was never initialised; or that comes,
\* after a call that found the catalog broken, to rows of another heap.  What it
\* finds there, and whether it ends, is not defined.
LookupLost ==
  /\ phase = "open"
  /\ ~ (sound /\ Sound)
  /\ phase' = "undefined"
  /\ sound' = FALSE
  /\ UNCHANGED <<content, file, nextPageId, todo, made, kept, flushed, booted>>

\* CreateTable() up to its inserts, giving the table this id and its row to this
\* heap.  Nothing is said of a name in use, and nobody looks whether the catalog
\* heaps are whole: the new page may be one that a chain still leads to.
CreateAs(name, sizes, id, heap) ==
  /\ phase = "open"
  /\ Len(made) < MaxTables
  /\ nextPageId < MaxPages
  /\ LET row == TableInfo(id, name, nextPageId)
     IN  /\ todo' = Inserts(heap, <<row>>) \o Inserts(AttributesRoot, Columns(id, sizes))
         /\ made' = Append(made, [row |-> row, sizes |-> sizes])
  /\ content' = [content EXCEPT ![nextPageId] = EmptyPage]
  /\ nextPageId' = nextPageId + 1
  /\ phase' = "create"
  /\ sound' = (sound /\ Sound)
  /\ UNCHANGED <<file, kept, flushed, booted>>

\* Mutants of CreateTable: ids are counted from the rows of db_tables; the row
\* goes to the heap just created.
CreateCounting(name, sizes) ==
  CreateAs(name, sizes, Len(content[TablesRoot].rows) + 1, TablesRoot)
CreateInOwnHeap(name, sizes) ==
  CreateAs(name, sizes, FirstUserId + Len(made), nextPageId)

CreateTable(name, sizes) ==
  CreateAs(name, sizes, FirstUserId + Len(made), TablesRoot)

CreateReturns ==
  /\ phase = "create"
  /\ todo = <<>>
  /\ phase' = "open"
  /\ kept' = kept \cup {Last(made).row.id}
  /\ UNCHANGED <<content, file, nextPageId, todo, made, flushed, booted, sound>>

----------------------------------------------------------------------------
(* The pool and the process.                                               *)

\* A frame is evicted, or flush_all() comes to it.  BootstrapCatalogs() touches
\* three pages, and no pool is that small: there, only flush_all() writes.
WriteBack(p) ==
  /\ phase \in {"bootstrap", "open", "create"}
  /\ phase = "bootstrap" => todo = <<>>
  /\ Exists(p)
  /\ file[p] # content[p]
  /\ file' = [file EXCEPT ![p] = content[p]]
  /\ UNCHANGED <<content, nextPageId, phase, todo, made, kept, flushed, booted, sound>>

\* Mutant of NumPages: the id of the last page, not the count.
LastPage == CHOOSE n \in Page :
  \A p \in Page : file[p] # Unwritten => p <= n /\ file[n] # Unwritten

\* GetNumPages(), from which DiskManager's constructor counts on.
NumPages == CHOOSE n \in 0 .. MaxPages :
  /\ \A p \in Page : p >= n => file[p] = Unwritten
  /\ n > 0 => file[n - 1] # Unwritten

\* The process ends, in whatever it was doing, and another one starts.  Nothing
\* is written: BufferManager has no destructor.  A page that is not in the file is
\* one that nobody initialised, in a hole (below NumPages) or past the end.
Restart ==
  /\ phase # "undefined"
  /\ content' = file
  /\ nextPageId' = NumPages
  /\ phase' = "closed"
  /\ todo' = <<>>
  /\ kept' = flushed
  /\ UNCHANGED <<file, made, flushed, booted, sound>>

CatalogNext ==
  \/ LoadCatalogs \/ BootstrapCatalogs \/ InsertRow \/ InsertLost \/ FlushAll
  \/ \E name \in Name, sizes \in Schema : CreateTable(name, sizes)
  \/ CreateReturns \/ LookupLost
  \/ \E p \in Page : WriteBack(p)
  \/ Restart

CatalogSpec == CatalogInit /\ [][CatalogNext]_catalogVars

----------------------------------------------------------------------------
(* Properties, of a catalog that was whole whenever a call was made (sound).  *)
(* What a scan returns is said of heaps that it comes to the end of.       *)

\* The rows of the three heaps: no page holds rows of two of them.
Fields == {{"id", "name", "first", "size"}, {"table", "position", "size"}, {"type", "size"}}

IsHeapPage(page) ==
  /\ DOMAIN page = DOMAIN EmptyPage /\ page.kind = "heap"
  /\ page.next \in {NoPage} \cup (TypesRoot + 1 .. MaxPages - 1)
  /\ page.room \in 0 .. Capacity
  /\ \E fields \in Fields : \A i \in 1 .. Len(page.rows) : DOMAIN page.rows[i] = fields

PagesOK(disk) ==
  /\ DOMAIN disk = Page
  /\ disk[0] \in {Unwritten, Header}
  /\ \A p \in Page \ {0} : disk[p] = Unwritten \/ IsHeapPage(disk[p])

\* A CreateTable() on a catalog that a crash left broken may put a table's page, or
\* those of two heaps, where a chain still leads.
CatalogTypeOK ==
  /\ sound => PagesOK(content) /\ PagesOK(file)
  /\ nextPageId \in 0 .. MaxPages
  /\ phase \in {"closed", "bootstrap", "open", "create", "undefined"}
  /\ \A i \in 1 .. Len(todo) : todo[i][1] \in System
  /\ Len(made) <= MaxTables
  /\ flushed \subseteq kept
  /\ kept \subseteq Id \ System
  /\ booted \in BOOLEAN /\ sound \in BOOLEAN

Made(id) == made[id - TypesRoot]

Fits(row) == row.size <= Capacity

\* The rows of columns are those of their table that fit a page, each of them once,
\* and two of them change places only if the one that was given later is smaller.
Described(columns, table) ==
  /\ ToSet(columns) = {c \in ToSet(Columns(table.row.id, table.sizes)) : Fits(c)}
  /\ IsInjective(columns)
  /\ \A i, j \in DOMAIN columns :
       (i < j /\ columns[j].position < columns[i].position)
         => columns[i].size < columns[j].size

\* The tables that CreateTable() was given this name for.
Named(name) == {i \in 1 .. Len(made) : made[i].row.name = name}

\* A table that CreateTable() returned, in this process or before the last
\* flush_all(), has its row, before any page that a crash lost, and exactly its
\* columns, over however many pages; and if no other call used its name,
\* LookupTable() finds it.  Only a row too large for a page is missing: its table
\* cannot be found, though CreateTable() returned an id.  Columns of one size are
\* in the order they were given.
TablesResolve ==
  (sound /\ phase = "open") => \A id \in kept :
    /\ Fits(Made(id).row) => Made(id).row \in ToSet(RowsOf(content, TablesRoot))
    /\ (ScanEnds(content, TablesRoot) /\ ~ Fits(Made(id).row))
         => Made(id).row \notin ToSet(RowsOf(content, TablesRoot))
    /\ ScanEnds(content, AttributesRoot) => Described(GetColumns(content, id), Made(id))
    /\ (Fits(Made(id).row) /\ Named(Made(id).row.name) = {id - TypesRoot})
         => LET found == Lookup(content, Made(id).row.name)
            IN  found = Made(id).row \/ found.id \in System

\* tests/catalog/test_catalog.cpp, TableColumnsArePersisted: the columns of a table
\* are stored in the order CreateTable() was given them.
ColumnsInOrder ==
  phase = "open" =>
    \A id \in kept : GetColumns(content, id) = Columns(id, Made(id).sizes)

\* Wherever calls and processes ended, the columns that a scan to the end of
\* db_attributes finds under a table's id are of those it was created with, each of
\* them once, never another table's.
ColumnsNeverMixed ==
  (sound /\ ScanEnds(content, AttributesRoot)) => \A i \in 1 .. Len(made) :
    LET columns == GetColumns(content, made[i].row.id) IN
      /\ ToSet(columns) \subseteq ToSet(Columns(made[i].row.id, made[i].sizes))
      /\ IsInjective(columns)

\* Once a table is flushed its page is never handed out again: no table made
\* later has it.  (An earlier one may: a crash that kept the row of a table and
\* lost its page leaves the page id to the next CreateTable().)
FlushedTablesKeepTheirPages ==
  \A id \in flushed :
    LET page == Made(id).row.first IN
      /\ page < nextPageId
      /\ \A i \in 1 .. Len(made) : made[i].row.id > id => made[i].row.first # page

\* Rows of this name are scanned in the order of their inserts: there is one at
\* most, or no row could pass by another one of db_tables.
InInsertOrder(name) ==
  \/ \A i, j \in Named(name) : i = j
  \/ \A i, j \in 1 .. Len(made) :
       Fits(made[i].row) /\ made[i].row.size = made[j].row.size

\* A name that the file resolves keeps resolving to the same table, through
\* later tables of that name, evictions and crashes, as long as rows are scanned in
\* the order of their inserts.
DurableNamesStable ==
  [][\A name \in Name :
       (sound /\ Lookup(file, name) # NoTable /\ InInsertOrder(name))
         => Lookup(file', name) = Lookup(file, name)]_file

\* Once BootstrapCatalogs() has run to its end, every process that opens the
\* database finds the rows of the three catalog tables, before any page that a crash
\* lost, and user tables that take their names do not hide them; a scan to the end
\* of db_attributes finds all their columns.
SelfDescribing ==
  (sound /\ phase = "open" /\ booted) =>
    \A i \in System :
      /\ Lookup(content, SystemName[i]) = SystemTable(i)
      /\ ScanEnds(content, AttributesRoot)
           => GetColumns(content, i) = Columns(i, SystemSchema[i])
=============================================================================
