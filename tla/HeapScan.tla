------------------------------ MODULE HeapScan ------------------------------
(***************************************************************************)
(* A HeapIterator over the real buffer pool, one request() or release() at *)
(* a time.  The scan reads a heap that is in the file; between its calls   *)
(* the caller looks at other pages through the same pool.  A Record that   *)
(* Next() or operator* returns is a pointer into a frame: it is the record *)
(* only while the frame holds the page.  Executor.tla runs queries over it. *)
(***************************************************************************)
EXTENDS BufferManager, FiniteSets

CONSTANT OnDisk      \* page -> [next, n: number of slots, live: slots with a record]
ASSUME OnDiskAssumption ==
  /\ OnDisk \in [Page -> Content] /\ 0 \in Page /\ IsFiniteSet(Page)
  /\ \A p \in Page :
       /\ OnDisk[p].next \in Page \cup {InvalidPage}
       /\ OnDisk[p].next # InvalidPage => p < OnDisk[p].next
       /\ OnDisk[p].n \in Nat /\ OnDisk[p].live \subseteq 0 .. OnDisk[p].n - 1

VARIABLES pc,        \* what the thread is about to do, "idle" between two calls
          currPage,  \* _curr_page
          currSlot,  \* _curr_slot
          hasNext,   \* _has_next
          rec        \* the last Record: [from: the call, page, slot, frame], or NoRecord

iterVars == <<currPage, currSlot, hasNext, rec>>
scanVars == <<vars, pc, iterVars>>

NoRecord == [from |-> "none", page |-> InvalidPage, slot |-> 0, frame |-> NoFrame]

----------------------------------------------------------------------------
ScanInit ==
  /\ file = OnDisk
  /\ Constructed
  /\ pc = "idle"
  /\ currPage = InvalidPage /\ currSlot = 0 /\ hasNext = FALSE
  /\ rec = NoRecord

\* begin() makes a new iterator and runs Advance() from the first page.
Begin ==
  /\ pc = "idle"
  /\ currPage' = 0 /\ currSlot' = 0 /\ hasNext' = TRUE
  /\ pc' = "advance"
  /\ rec' = NoRecord
  /\ UNCHANGED vars

\* A request() that throws ends the call and the scan.
Requests(p, next) == Request(p) /\ pc' = IF ret' = "throws" THEN "failed" ELSE next

\* Get() of the current record, within Next() or within operator*.
NextRequest ==
  /\ pc = "idle" /\ hasNext
  /\ Requests(currPage, "getNext")
  /\ UNCHANGED iterVars

DerefRequest ==
  /\ pc = "idle" /\ hasNext
  /\ Requests(currPage, "getDeref")
  /\ UNCHANGED iterVars

Got(call) ==
  rec' = [from |-> call, page |-> currPage, slot |-> currSlot, frame |-> pageTable[currPage]]

DerefRelease ==
  /\ pc = "getDeref"
  /\ Release(currPage) /\ Got("deref")
  /\ pc' = "idle"
  /\ UNCHANGED <<currPage, currSlot, hasNext>>

\* Next() goes on to advance past the record it will return.
NextRelease ==
  /\ pc = "getNext"
  /\ Release(currPage) /\ Got("next")
  /\ currSlot' = currSlot + 1
  /\ pc' = "advance"
  /\ UNCHANGED <<currPage, hasNext>>

\* operator++
Increment ==
  /\ pc = "idle" /\ hasNext
  /\ currSlot' = currSlot + 1
  /\ pc' = "advance"
  /\ rec' = NoRecord
  /\ UNCHANGED <<vars, currPage, hasNext>>

AdvanceRequest ==
  /\ pc = "advance" /\ currPage # InvalidPage
  /\ Requests(currPage, "inspect")
  /\ hasNext' = FALSE
  /\ UNCHANGED <<currPage, currSlot, rec>>

\* The slots of the pinned page from currSlot on that hold a record.
LiveHere == {s \in data[pageTable[currPage]].live : s >= currSlot}

\* Mutant of AdvanceFound: the early return forgets release().
AdvanceFoundKeepsPin ==
  /\ pc = "inspect" /\ LiveHere # {}
  /\ currSlot' \in LiveHere /\ \A s \in LiveHere : currSlot' <= s
  /\ hasNext' = TRUE
  /\ pc' = "idle"
  /\ UNCHANGED <<vars, currPage, rec>>

AdvanceFound ==
  /\ pc = "inspect" /\ LiveHere # {}
  /\ currSlot' \in LiveHere /\ \A s \in LiveHere : currSlot' <= s
  /\ hasNext' = TRUE
  /\ Release(currPage)
  /\ pc' = "idle"
  /\ UNCHANGED <<currPage, rec>>

\* Mutant of AdvanceToNextPage: _curr_page is not set to the next page.
AdvanceStays ==
  /\ pc = "inspect" /\ LiveHere = {}
  /\ currSlot' = 0
  /\ Release(currPage)
  /\ pc' = "advance"
  /\ UNCHANGED <<currPage, hasNext, rec>>

AdvanceToNextPage ==
  /\ pc = "inspect" /\ LiveHere = {}
  /\ currPage' = data[pageTable[currPage]].next
  /\ currSlot' = 0
  /\ Release(currPage)
  /\ pc' = "advance"
  /\ UNCHANGED <<hasNext, rec>>

AdvanceEnds ==
  /\ pc = "advance" /\ currPage = InvalidPage
  /\ hasNext' = FALSE
  /\ pc' = "idle"
  /\ UNCHANGED <<vars, currPage, currSlot, rec>>

\* Between two calls of the scan, its caller makes a HeapFile call of its own.
OtherRequest ==
  /\ pc = "idle"
  /\ \E p \in Page : Requests(p, "other")
  /\ rec' = NoRecord
  /\ UNCHANGED <<currPage, currSlot, hasNext>>

OtherRelease ==
  /\ pc = "other"
  /\ \E p \in Page : Cached(p) /\ pinCount[pageTable[p]] > 0 /\ Release(p)
  /\ pc' = "idle"
  /\ UNCHANGED iterVars

InCall ==
  DerefRelease \/ NextRelease \/ AdvanceRequest \/ AdvanceFound
    \/ AdvanceToNextPage \/ AdvanceEnds \/ OtherRelease

ScanNext ==
  Begin \/ NextRequest \/ DerefRequest \/ Increment \/ InCall \/ OtherRequest

ScanSpec == ScanInit /\ [][ScanNext]_scanVars

----------------------------------------------------------------------------
(* Properties                                                              *)

\* "No buffer pin leaks": between two calls nothing is pinned, and within one
\* no more than one pin is held, so that a pool of one frame is enough and no
\* request() of a scan throws.
NoPinLeak ==
  /\ pc = "idle" => \A f \in Frame : pinCount[f] = 0
  /\ \A f, g \in Frame : pinCount[f] > 0 /\ pinCount[g] > 0 => f = g
  /\ \A f \in Frame : pinCount[f] <= 1
  /\ pc # "failed"

\* "No use-after-unpin", "safe under aggressive eviction": the record a call of
\* the scan returned is in its frame when the caller gets it.
ReturnedRecordValid ==
  (pc = "idle" /\ rec.from # "none") => pageId[rec.frame] = rec.page
=============================================================================
