--------------------------- MODULE BufferManager ---------------------------
(***************************************************************************)
(* Class BufferManager over the database file: PoolSize frames cache the   *)
(* pages, a frame in use is pinned, a modified one is dirty, and a miss    *)
(* evicts the frame ClockPolicy chooses, writing it back when dirty.       *)
(* Nothing is written back when the process ends, in order or not.         *)
(*                                                                         *)
(* A caller modifies a page and calls mark_dirty() while it holds a pin;   *)
(* Write is the two together, as no other call can come between them.      *)
(***************************************************************************)
EXTENDS DiskFile, ClockPolicy, Sequences

CONSTANT MaxPin      \* bound: pins held on one frame

InvalidPage == -1    \* INVALID_PAGE_ID
NoFrame == -1        \* page_table_.end()

ASSUME PinAssumption == MaxPin \in Nat \ {0}

VARIABLES file,      \* page id -> its bytes on disk
          pageTable, \* page_table_
          pageId,    \* Frame::page_id
          dirty,     \* Frame::dirty
          data,      \* Frame::data
          freeList,  \* free_list_, the next frame to hand out last
          ret        \* "ok", or "throws"

frameVars == <<pageTable, pageId, dirty, data, freeList>>
vars == <<file, frameVars, pinCount, clockVars, ret>>

----------------------------------------------------------------------------
\* The constructor.  The frames' bytes are not initialised.
Constructed ==
  /\ pageTable = [p \in Page |-> NoFrame]
  /\ pageId = [f \in Frame |-> InvalidPage]
  /\ pinCount = [f \in Frame |-> 0]
  /\ dirty = [f \in Frame |-> FALSE]
  /\ data \in [Frame -> Buffer]
  /\ freeList = [i \in 1 .. PoolSize |-> i - 1]
  /\ ClockInit
  /\ ret = "ok"

\* A new file.
Init == file = [p \in Page |-> Unwritten] /\ Constructed

Cached(p) == pageTable[p] # NoFrame

Pin(f) == pinCount' = [pinCount EXCEPT ![f] = @ + 1]

\* Mutant of Unmapped(): evict() does not erase the old mapping.
StillMapped(f) == pageTable

\* page_table_ without the mapping of the page that f holds, if it holds one.
Unmapped(f) ==
  [p \in Page |-> IF p = pageId[f] THEN NoFrame ELSE pageTable[p]]

\* read(): f becomes the frame of p, with whatever ReadPage() leaves in it.
Read(disk, p, f, table) ==
  /\ data' = [data EXCEPT ![f] = ReadPage(disk, p, @)]
  /\ pageTable' = [table EXCEPT ![p] = f]
  /\ pageId' = [pageId EXCEPT ![f] = p]
  /\ dirty' = [dirty EXCEPT ![f] = FALSE]

\* flush() of the frames of F that are dirty.
Flushed(F) ==
  [p \in Page |->
     IF \E f \in F : dirty[f] /\ pageId[f] = p THEN data[pageTable[p]] ELSE file[p]]

RequestHit(p) ==
  /\ Cached(p)
  /\ LET f == pageTable[p] IN
       /\ pinCount[f] < MaxPin
       /\ Pin(f)
       /\ refBits' = Referenced(refBits, f)
  /\ ret' = "ok"
  /\ UNCHANGED <<file, frameVars, hand>>

\* Mutant of RequestFree(): the frame stays on the free list.
RequestFreeKeeps(p) ==
  /\ ~ Cached(p)
  /\ freeList # <<>>
  /\ LET f == freeList[Len(freeList)] IN
       /\ pinCount[f] < MaxPin
       /\ Pin(f)
       /\ Read(file, p, f, pageTable)
       /\ refBits' = Referenced(refBits, f)
  /\ ret' = "ok"
  /\ UNCHANGED <<file, freeList, hand>>

RequestFree(p) ==
  /\ ~ Cached(p)
  /\ freeList # <<>>
  /\ LET f == freeList[Len(freeList)] IN
       /\ Pin(f)
       /\ Read(file, p, f, pageTable)
       /\ refBits' = Referenced(refBits, f)
  /\ freeList' = SubSeq(freeList, 1, Len(freeList) - 1)
  /\ ret' = "ok"
  /\ UNCHANGED <<file, hand>>

\* evict() f, then load p into it: f's old page is in the file by then.
RequestEvict(p, f) ==
  /\ ~ Cached(p)
  /\ freeList = <<>>
  /\ ChooseVictim(f)
  /\ file' = Flushed({f})
  /\ Pin(f)
  /\ Read(file', p, f, Unmapped(f))
  /\ refBits' = Referenced(SweptTo(f), f)
  /\ ret' = "ok"
  /\ UNCHANGED freeList

RequestThrows(p) ==
  /\ ~ Cached(p)
  /\ freeList = <<>>
  /\ NoVictim
  /\ ret' = "throws"
  /\ UNCHANGED <<file, frameVars, pinCount, clockVars>>

Request(p) ==
  \/ RequestHit(p) \/ RequestFree(p) \/ RequestThrows(p)
  \/ \E f \in Frame : RequestEvict(p, f)

\* Mutant of Release(): the check of the pin count is dropped.
ReleaseUnchecked(p) ==
  /\ Cached(p)
  /\ pinCount' = [pinCount EXCEPT ![pageTable[p]] = @ - 1]
  /\ ret' = "ok"
  /\ UNCHANGED <<file, frameVars, clockVars>>

Release(p) ==
  /\ Cached(p)
  /\ LET f == pageTable[p] IN
       /\ pinCount[f] > 0
       /\ pinCount' = [pinCount EXCEPT ![f] = @ - 1]
       /\ refBits' = IF pinCount[f] = 1 THEN Released(refBits, f) ELSE refBits
  /\ ret' = "ok"
  /\ UNCHANGED <<file, frameVars, hand>>

ReleaseThrows(p) ==
  /\ Cached(p) => pinCount[pageTable[p]] <= 0
  /\ ret' = "throws"
  /\ UNCHANGED <<file, frameVars, pinCount, clockVars>>

\* unpin(), which Catalog calls in place of release(): the policy is not told.
Unpin(f) ==
  /\ pinCount[f] > 0
  /\ pinCount' = [pinCount EXCEPT ![f] = @ - 1]
  /\ ret' = "ok"
  /\ UNCHANGED <<file, frameVars, clockVars>>

Write(f, c) ==
  /\ pinCount[f] > 0
  /\ data' = [data EXCEPT ![f] = c]
  /\ dirty' = [dirty EXCEPT ![f] = TRUE]
  /\ ret' = "ok"
  /\ UNCHANGED <<file, pageTable, pageId, freeList, pinCount, clockVars>>

\* Mutant of FlushAll: pinned frames are passed over, but marked clean.
FlushUnpinned ==
  /\ file' = Flushed(Unpinned)
  /\ dirty' = [f \in Frame |-> FALSE]
  /\ ret' = "ok"
  /\ UNCHANGED <<pageTable, pageId, data, freeList, pinCount, clockVars>>

FlushAll ==
  /\ file' = Flushed(Frame)
  /\ dirty' = [f \in Frame |-> FALSE]
  /\ ret' = "ok"
  /\ UNCHANGED <<pageTable, pageId, data, freeList, pinCount, clockVars>>

\* The process ends and another one opens the file.  It ends between two
\* calls, within flush_all() after some frames in pool order, or within a
\* request() that had written its victim back.
Restart(F) ==
  /\ \/ \E k \in 0 .. PoolSize : F = 0 .. k - 1
     \/ \E f \in Unpinned : F = {f}
  /\ file' = Flushed(F)
  /\ pageTable' = [p \in Page |-> NoFrame]
  /\ pageId' = [f \in Frame |-> InvalidPage]
  /\ pinCount' = [f \in Frame |-> 0]
  /\ dirty' = [f \in Frame |-> FALSE]
  /\ data' \in [Frame -> Buffer]
  /\ freeList' = [i \in 1 .. PoolSize |-> i - 1]
  /\ refBits' = [f \in Frame |-> 0]
  /\ hand' = 0
  /\ ret' = "ok"

Next ==
  \/ \E p \in Page : Request(p) \/ Release(p) \/ ReleaseThrows(p)
  \/ \E f \in Frame : Unpin(f) \/ \E c \in Content : Write(f, c)
  \/ FlushAll
  \/ \E F \in SUBSET Frame : Restart(F)

Spec == Init /\ [][Next]_vars

----------------------------------------------------------------------------
(* Properties                                                              *)

TypeOK ==
  /\ file \in [Page -> Buffer \cup {Unwritten}]
  /\ pageTable \in [Page -> Frame \cup {NoFrame}]
  /\ pageId \in [Frame -> Page \cup {InvalidPage}]
  /\ pinCount \in [Frame -> 0 .. MaxPin]
  /\ dirty \in [Frame -> BOOLEAN]
  /\ data \in [Frame -> Buffer]
  /\ freeList \in Seq(Frame)
  /\ refBits \in [Frame -> {0, 1}]
  /\ hand \in Frame
  /\ ret \in {"ok", "throws"}

\* A page is cached in one frame at most, and the page table and the frames'
\* page ids name each other through hits, loads, evictions and restarts.
PageTableCoherent ==
  /\ \A p \in Page : Cached(p) => pageId[pageTable[p]] = p
  /\ \A f \in Frame : pageId[f] # InvalidPage => pageTable[pageId[f]] = f

\* The free list holds exactly the frames that hold no page, each of them once,
\* unpinned and clean: no frame is handed out twice and none is lost.
FreeListSound ==
  /\ \A f \in Frame :
       (pageId[f] = InvalidPage) <=> \E i \in 1 .. Len(freeList) : freeList[i] = f
  /\ \A i, j \in 1 .. Len(freeList) : freeList[i] = freeList[j] => i = j
  /\ \A f \in Frame : pageId[f] = InvalidPage => pinCount[f] = 0 /\ ~ dirty[f]

\* A clean frame holds what the file holds, so that dropping it loses nothing.
CleanAgreesWithFile ==
  \A f \in Frame :
    (pageId[f] # InvalidPage /\ ~ dirty[f] /\ file[pageId[f]] # Unwritten)
      => data[f] = file[pageId[f]]

\* A caller's frame keeps the caller's page for as long as it is pinned: only
\* the end of the process takes it away.
PinnedNeverEvicted ==
  [][\A f \in Frame : (pinCount[f] > 0 /\ pageId'[f] # pageId[f])
       => \A g \in Frame : pageId'[g] = InvalidPage]_vars

\* CLOCK's second chance: a frame whose reference bit is set is evicted only
\* when every other frame that could go has its bit set too.
SecondChance ==
  [][\A f \in Frame :
       (pageId[f] # InvalidPage /\ pageId'[f] \notin {pageId[f], InvalidPage}
          /\ refBits[f] = 1)
       => \A g \in Unpinned : refBits[g] = 1]_vars

----------------------------------------------------------------------------
(* The contract the pool implements.                                       *)

\* What a caller that requests p is shown, once p was ever written.
ContentOf(p) ==
  IF Cached(p) /\ (dirty[pageTable[p]] \/ file[p] # Unwritten)
  THEN data[pageTable[p]] ELSE file[p]

Shown == [p \in Page |-> ContentOf(p)]
Pins == [p \in Page |-> IF Cached(p) THEN pinCount[pageTable[p]] ELSE 0]

Contract == INSTANCE PageStore WITH content <- Shown, stable <- file, pins <- Pins

\* Seen through request(), the frames, the free list and the clock are a store
\* of pages that always shows the last write, and a failing request() means
\* that as many pages are pinned as there are frames.
ImplementsPageStore == Contract!Spec
=============================================================================
