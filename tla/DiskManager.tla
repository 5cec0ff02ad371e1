---------------------------- MODULE DiskManager ----------------------------
(***************************************************************************)
(* Class DiskManager: what the constructor finds in the database file, and *)
(* which page id AllocatePage() hands out.  next_page_id_ and the free     *)
(* list live in the object only; a new one counts on from the length of    *)
(* the file.  A manager is a record of the two.  DbServer.tla has the      *)
(* managers, the files and who calls them.                                 *)
(***************************************************************************)
EXTENDS DiskFile, Sequences

\* Mutant of GetNumPages(): the last page, not the count.
LastPageId(disk) == CHOOSE n \in Page \cup {0} :
  PastEnd(disk, n + 1) /\ (n > 0 => ~ PastEnd(disk, n))

\* GetNumPages(): the file ends after its last page.
GetNumPages(disk) == CHOOSE n \in {0} \cup {p + 1 : p \in Page} :
  PastEnd(disk, n) /\ (n > 0 => ~ PastEnd(disk, n - 1))

EmptyFile == [p \in Page |-> Unwritten]

\* The constructor's manager of a file.
Constructed(disk) == [nextPageId |-> GetNumPages(disk), freeList |-> <<>>]

\* AllocatePage(): the page given back last, or the next one.
AllocatedPage(m) ==
  IF m.freeList # <<>> THEN m.freeList[Len(m.freeList)] ELSE m.nextPageId

\* Mutant of Allocated: two ids are taken, the free list is dropped.
AllocatedSkipping(m) == [nextPageId |-> m.nextPageId + 2, freeList |-> <<>>]

\* The manager after AllocatePage().
Allocated(m) ==
  IF m.freeList # <<>>
  THEN [m EXCEPT !.freeList = SubSeq(@, 1, Len(@) - 1)]
  ELSE [m EXCEPT !.nextPageId = @ + 1]

\* The manager after DeallocatePage(p).
Deallocated(m, p) == [m EXCEPT !.freeList = Append(@, p)]
=============================================================================
