---------------------------- MODULE HeapIterator ----------------------------
(***************************************************************************)
(* Class HeapIterator: a scan of one heap of HeapFile, used through        *)
(* HasNext()/Next() or through begin(), operator* and operator++, while    *)
(* its caller inserts, updates and deletes between the calls.  An iterator *)
(* is a position, found when it was last advanced, and nothing more.       *)
(* HeapScan.tla looks at the frames under one call.                        *)
(***************************************************************************)
EXTENDS HeapFile, Sequences

ASSUME NoScanAssumption == "none" \notin Heap

VARIABLES scan,      \* _heap, or "none" before begin()
          currPage,  \* _curr_page
          currSlot,  \* _curr_slot
          hasNext,   \* _has_next
          returned,  \* history: the RIDs the scan returned, in order
          throughout \* history: the RIDs live at begin() and ever since

iterVars == <<scan, currPage, currSlot, hasNext, returned, throughout>>

----------------------------------------------------------------------------
Live(r) == r \in UsedRIDs /\ RecordAt(r).len > 0

\* Mutant of Ahead(): the slot is not reset on the next page.
AheadKeepsSlot(p, s) ==
  LET at == Walk(p) IN
  {x \in (0 .. MaxPages) \X (0 .. Capacity) : Live(<<at[x[1]], x[2]>>) /\ x[2] >= s}

\* Places of live records from slot s of page p on, in the order of the chain:
\* <<i, t>> is slot t of the i-th page from p.
Ahead(p, s) ==
  LET at == Walk(p) IN
  {x \in (0 .. MaxPages) \X (0 .. Capacity) :
     Live(<<at[x[1]], x[2]>>) /\ (x[1] = 0 => x[2] >= s)}

Before(x, y) == x[1] < y[1] \/ (x[1] = y[1] /\ x[2] < y[2])

\* Mutant of Advance(): the page that follows in the file is taken for the next one.
AdvanceInFile(p, s) ==
  LET Found == {r \in UsedRIDs : Live(r) /\ (r[1] > p \/ (r[1] = p /\ r[2] >= s))}
  IN
  \/ /\ Found = {}
     /\ currPage' = InvalidPage /\ currSlot' = 0 /\ hasNext' = FALSE
  \/ \E x \in Found :
       /\ \A y \in Found : y = x \/ Before(x, y)
       /\ currPage' = x[1] /\ currSlot' = x[2] /\ hasNext' = TRUE

\* Advance(), called at slot s of page p.
Advance(p, s) ==
  \/ /\ Ahead(p, s) = {}
     /\ currPage' = InvalidPage /\ currSlot' = 0 /\ hasNext' = FALSE
  \/ \E x \in Ahead(p, s) :
       /\ \A y \in Ahead(p, s) : y = x \/ Before(x, y)
       /\ currPage' = Walk(p)[x[1]] /\ currSlot' = x[2] /\ hasNext' = TRUE

Current == <<currPage, currSlot>>

\* The caller has the record the iterator stands on.
Taken == returned # <<>> /\ returned[Len(returned)] = Current

----------------------------------------------------------------------------
IterInit ==
  /\ Init
  /\ scan = "none"
  /\ currPage = InvalidPage /\ currSlot = 0 /\ hasNext = FALSE
  /\ returned = <<>> /\ throughout = {}

\* begin(): the constructor advances to the first live record.
Begin(h) ==
  /\ scan = "none"
  /\ first[h] # InvalidPage
  /\ scan' = h
  /\ Advance(first[h], 0)
  /\ returned' = <<>>
  /\ throughout' = {r \in UsedRIDs : Live(r) /\ HeapOf(r[1]) = h}
  /\ UNCHANGED vars

\* Next(): Get() the record, then advance past it.  When the record is gone,
\* value() throws and the iterator stays where it is.
NextRecord ==
  /\ hasNext /\ Live(Current) /\ ~ Taken
  /\ returned' = Append(returned, Current)
  /\ Advance(currPage, currSlot + 1)
  /\ UNCHANGED <<vars, scan, throughout>>

\* operator*
Dereference ==
  /\ hasNext /\ Live(Current) /\ ~ Taken
  /\ returned' = Append(returned, Current)
  /\ UNCHANGED <<vars, scan, currPage, currSlot, hasNext, throughout>>

\* operator++, after the record was read.
Increment ==
  /\ hasNext /\ Taken
  /\ Advance(currPage, currSlot + 1)
  /\ UNCHANGED <<vars, scan, returned, throughout>>

\* The caller's inserts, updates and deletes, and begin() again later on.
CallerChanges ==
  /\ Next
  /\ throughout' = {r \in throughout : Live(r)'}
  /\ UNCHANGED <<scan, currPage, currSlot, hasNext, returned>>

Finish ==
  /\ scan # "none" /\ ~ hasNext
  /\ scan' = "none"
  /\ returned' = <<>> /\ throughout' = {}
  /\ UNCHANGED <<vars, currPage, currSlot, hasNext>>

IterNext ==
  (\E h \in Heap : Begin(h)) \/ NextRecord \/ Dereference \/ Increment
    \/ CallerChanges \/ Finish

IterSpec == IterInit /\ [][IterNext]_<<vars, iterVars>>

----------------------------------------------------------------------------
(* Properties                                                              *)

Returned == {returned[i] : i \in 1 .. Len(returned)}

\* "No duplicate records during scan": a scan returns no RID twice and keeps to
\* its heap, whatever its caller inserts, moves or deletes meanwhile.
NoDuplicates ==
  /\ \A i, j \in 1 .. Len(returned) : returned[i] = returned[j] => i = j
  /\ \A r \in Returned : HeapOf(r[1]) = scan

\* A scan that reached the end equals end() and returned every record there from
\* begin() on: no insertion, relocation or deletion makes it skip one.
ScanComplete ==
  (scan # "none" /\ ~ hasNext) =>
    /\ throughout \subseteq Returned
    /\ currPage = InvalidPage /\ currSlot = 0
=============================================================================
