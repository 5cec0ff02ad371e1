------------------------------ MODULE HeapFile ------------------------------
(***************************************************************************)
(* Class HeapFile: heaps are chains of slotted pages linked by             *)
(* next_page_id, all in one database file.  Get, Insert, Update and Delete *)
(* address records by RID = (page, slot).                                  *)
(*                                                                         *)
(* The pages are those of PageStore, as request() shows them.  One call is *)
(* one step: the program is single-threaded, and no call of another client *)
(* comes between the requests of a call.  HeapRecovery.tla adds the file.  *)
(***************************************************************************)
EXTENDS Integers, PageRecords

CONSTANTS Heap,        \* HeapFile objects
          Data,        \* records a caller may store
          MaxPages,    \* bound: page ids ever allocated
          Unwritten,   \* what a page holds before InitHeapPage(): what its frame held
          Zero         \* what a hole of the file is read as: zeros, without a header

ASSUME HeapAssumption ==
  MaxPages \in Nat /\ Capacity \in Nat /\ SlotSize \in Nat \ {0}
ASSUME DataAssumption == \A d \in Data : d.len \in Nat

Page == 0 .. MaxPages - 1

InvalidPage == -1      \* INVALID_PAGE_ID

VARIABLES content,     \* page -> [next: HeapPageHeader::next_page_id, page: its records]
          nextPageId,  \* DiskManager::next_page_id_; heaps never give a page back
          first,       \* HeapFile::_first_page_id
          ret          \* the last call's outcome and record, as in RecordStore

vars == <<content, nextPageId, first, ret>>

----------------------------------------------------------------------------
\* InitHeapPage() was called for p, and its page was not lost.
Exists(p) == content[p] \notin {Unwritten, Zero}

\* InitHeapPage()
FreshPage == [next |-> InvalidPage, page |-> EmptyPage]

Successor(p) ==
  IF p # InvalidPage /\ Exists(p) THEN content[p].next ELSE InvalidPage

\* The walk of Insert(): Walk(p)[i] is the i-th page of the chain from p.
Walk(p) ==
  LET at[i \in 0 .. MaxPages] == IF i = 0 THEN p ELSE Successor(at[i - 1])
  IN  at

\* Pages the chain from p names.
Chain(p) == LET at == Walk(p) IN Page \cap {at[i] : i \in 0 .. MaxPages}

\* Slots of p that were ever handed out.
Slots(p) == IF Exists(p) THEN 0 .. content[p].page.n - 1 ELSE {}

\* The calls are defined on a chain whose pages were all initialised.  A crash may
\* leave a link to a page that was not: past the end of the file it holds whatever
\* its frame held before, and in a hole zeros, which have no slots, a link back
\* to page 0, and a free space that wraps.
Sound(h) == first[h] # InvalidPage /\ \A p \in Chain(first[h]) : Exists(p)

\* The walk with d stops at p: p has room, and no page before it has.
StopsAt(h, p, d) ==
  \E i \in 0 .. MaxPages :
    /\ Walk(first[h])[i] = p
    /\ Fits(content[p].page, d)
    /\ \A j \in 0 .. i - 1 : ~ Fits(content[Walk(first[h])[j]].page, d)

----------------------------------------------------------------------------
Init ==
  /\ content = [p \in Page |-> Unwritten]
  /\ nextPageId = 0
  /\ first = [h \in Heap |-> InvalidPage]
  /\ ret = <<"accepted", Tombstone>>

\* Mutant of Create(): AllocatePage() does not count up.
CreateUncounted(h) ==
  /\ first[h] = InvalidPage
  /\ nextPageId < MaxPages
  /\ first' = [first EXCEPT ![h] = nextPageId]
  /\ content' = [content EXCEPT ![nextPageId] = FreshPage]
  /\ ret' = <<"accepted", Tombstone>>
  /\ UNCHANGED nextPageId

\* Create()
Create(h) ==
  /\ first[h] = InvalidPage
  /\ nextPageId < MaxPages
  /\ first' = [first EXCEPT ![h] = nextPageId]
  /\ content' = [content EXCEPT ![nextPageId] = FreshPage]
  /\ nextPageId' = nextPageId + 1
  /\ ret' = <<"accepted", Tombstone>>

\* Insert() into a heap without pages: the first one is made, and takes the record.
InsertCreates(h, d) ==
  /\ first[h] = InvalidPage
  /\ Fits(EmptyPage, d)
  /\ nextPageId < MaxPages
  /\ first' = [first EXCEPT ![h] = nextPageId]
  /\ content' = [content EXCEPT ![nextPageId] = [FreshPage EXCEPT !.page = Put(@, d)]]
  /\ nextPageId' = nextPageId + 1
  /\ ret' = <<"accepted", d>>

\* The same of a record that fits in no page: a second page is linked in vain.
RefusedCreates(h, d) ==
  /\ first[h] = InvalidPage
  /\ ~ Fits(EmptyPage, d)
  /\ nextPageId + 1 < MaxPages
  /\ first' = [first EXCEPT ![h] = nextPageId]
  /\ content' = [content EXCEPT
       ![nextPageId] = [FreshPage EXCEPT !.next = nextPageId + 1],
       ![nextPageId + 1] = FreshPage]
  /\ nextPageId' = nextPageId + 2
  /\ ret' = <<"refused", d>>

\* Insert() into the first page of the chain that has room.
InsertInto(h, d, p) ==
  /\ Sound(h)
  /\ StopsAt(h, p, d)
  /\ content' = [content EXCEPT ![p].page = Put(@, d)]
  /\ ret' = <<"accepted", d>>
  /\ UNCHANGED <<nextPageId, first>>

\* What the mutants of InsertAppends() make of a page that is full for d.
AppendAs(h, d, last, newContent, newNext) ==
  /\ Sound(h)
  /\ last \in Chain(first[h])
  /\ content[last].next = InvalidPage
  /\ \A p \in Chain(first[h]) : ~ Fits(content[p].page, d)
  /\ nextPageId < MaxPages
  /\ content' = newContent
  /\ nextPageId' = newNext
  /\ ret' = <<"accepted", d>>
  /\ UNCHANGED first

\* Mutant of InsertAppends(): InitHeapPage() of the new page is missing.
AppendUninitialised(h, d, last) ==
  AppendAs(h, d, last, [content EXCEPT ![last].next = nextPageId], nextPageId + 1)

\* Mutant of InsertAppends(): AllocatePage() does not count up.
AppendUncounted(h, d, last) ==
  AppendAs(h, d, last,
    [content EXCEPT ![last].next = nextPageId, ![nextPageId] = FreshPage], nextPageId)

\* Insert() when no page has room: a new page is linked from the last one, then
\* initialised.  A record that does not fit there either leaves it empty.
InsertAppends(h, d, last) ==
  /\ Sound(h)
  /\ last \in Chain(first[h])
  /\ content[last].next = InvalidPage
  /\ \A p \in Chain(first[h]) : ~ Fits(content[p].page, d)
  /\ nextPageId < MaxPages
  /\ content' = [content EXCEPT
       ![last].next = nextPageId,
       ![nextPageId] = IF Fits(EmptyPage, d) THEN [FreshPage EXCEPT !.page = Put(@, d)]
                                             ELSE FreshPage]
  /\ nextPageId' = nextPageId + 1
  /\ ret' = <<IF Fits(EmptyPage, d) THEN "accepted" ELSE "refused", d>>
  /\ UNCHANGED first

\* Update() of the record with RID (p, s); callers pass RIDs they were given.
Update(h, p, s, d) ==
  /\ Sound(h)
  /\ p \in Chain(first[h])
  /\ s \in Slots(p)
  /\ LET pg == content[p].page IN
       /\ content' = IF Accepts(pg, s, d)
                     THEN [content EXCEPT ![p].page = Change(pg, s, d)] ELSE content
       /\ ret' = <<IF Accepts(pg, s, d) THEN "accepted" ELSE "refused", d>>
  /\ UNCHANGED <<nextPageId, first>>

Delete(h, p, s) ==
  /\ Sound(h)
  /\ p \in Chain(first[h])
  /\ s \in Slots(p)
  /\ content' = [content EXCEPT ![p].page = Remove(@, s)]
  /\ ret' = <<"accepted", Tombstone>>
  /\ UNCHANGED <<nextPageId, first>>

\* Calls that create a heap or add a record.
Adds(h) ==
  \/ Create(h)
  \/ \E d \in Data : InsertCreates(h, d) \/ RefusedCreates(h, d)
  \/ \E d \in Data, p \in Page : InsertInto(h, d, p) \/ InsertAppends(h, d, p)

\* Calls on the record with RID (p, s).
Changes(h, p, s) == Delete(h, p, s) \/ \E d \in Data : Update(h, p, s, d)

Next ==
  \E h \in Heap :
    Adds(h) \/ \E p \in Page : \E s \in Slots(p) : Changes(h, p, s)

Spec == Init /\ [][Next]_vars

----------------------------------------------------------------------------
(* Properties                                                              *)

\* A slot takes a byte at least.
RecordsPage ==
  UNION {[n : {k}, free : 0 .. Capacity - k,
          recs : [0 .. k - 1 -> Data \cup {Tombstone}]] : k \in 0 .. Capacity}

HeapPage == [next : Page \cup {InvalidPage}, page : RecordsPage]

ASSUME UnwrittenAssumption == HeapPage \cap {Unwritten, Zero} = {}

TypeOK ==
  /\ content \in [Page -> HeapPage \cup {Unwritten, Zero}]
  /\ nextPageId \in 0 .. MaxPages
  /\ first \in [Heap -> Page \cup {InvalidPage}]
  /\ ret \in {"accepted", "refused"} \X (Data \cup {Tombstone})

\* An initialised page links to a larger page id, whatever a crash left of the other
\* pages: a walk or a scan that meets no page but initialised ones ends.  (In a
\* hole it goes back to page 0, and may come round to the hole again.)
LinksForward ==
  \A p \in Page :
    Exists(p) => content[p].next = InvalidPage \/ content[p].next > p

\* Every page that a heap or a page links to was initialised.
NoDanglingLink ==
  /\ \A h \in Heap : first[h] # InvalidPage => Exists(first[h])
  /\ \A p \in Page :
       (Exists(p) /\ content[p].next # InvalidPage) => Exists(content[p].next)

\* A page has one owner: it is the first page of one heap, or the successor of
\* one page, so that no two heaps share a page and no chain joins another.
OneOwner ==
  /\ \A g, h \in Heap : (first[g] = first[h] /\ first[g] # InvalidPage) => g = h
  /\ \A p, q \in Page :
       (Exists(p) /\ Exists(q) /\ content[p].next = content[q].next
          /\ content[p].next # InvalidPage) => p = q
  /\ \A h \in Heap, p \in Page :
       (Exists(p) /\ content[p].next # InvalidPage) => content[p].next # first[h]

\* Only allocated pages are in use: the next page a heap allocates is nobody's.
AllocatedOnce == \A p \in Page : Exists(p) <=> p < nextPageId

----------------------------------------------------------------------------
(* The contract of the heaps.                                              *)

UsedRIDs == UNION {{p} \X Slots(p) : p \in Page}
RecordAt(r) == content[r[1]].page.recs[r[2]]

\* The heap that reaches p.
HeapOf(p) == CHOOSE h \in Heap : p \in Chain(first[h])

\* Heaps with a page, and each RID that was handed out with its heap and record.
Opened == {h \in Heap : first[h] # InvalidPage}
Rows == [r \in UsedRIDs |-> [heap |-> HeapOf(r[1]), rec |-> RecordAt(r)]]

Contract == INSTANCE RecordStore WITH
  open <- Opened, rows <- Rows, RID <- Page \X (0 .. Capacity)

\* By RID, the chained pages are a table per heap: Insert() adds one record under
\* a RID that was never used, Update() and Delete() touch the record named and no
\* other of any heap, what is stored is what the call was given, and a call is
\* refused only for want of room.
ImplementsRecordStore == Contract!Spec
=============================================================================
