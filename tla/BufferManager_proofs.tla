------------------------ MODULE BufferManager_proofs ------------------------
(***************************************************************************)
(* Proofs about BufferManager for every pool size, set of pages and        *)
(* contents.  The page table, the frames' page ids and the free list keep  *)
(* each other right, so the three properties about them are inductive only *)
(* together: a frame of the free list is unpinned and holds no page, which *)
(* is what lets a load take it without a look at either.                   *)
(***************************************************************************)
EXTENDS HeapScan, ClockSweep, SequenceTheorems, WellFoundedInduction, TLAPS

\* What the three properties say of frames and pages, without the clock.
Inv == TypeOK /\ PageTableCoherent /\ FreeListSound

LEMMA ConstantFacts ==
  /\ 0 \in Frame
  /\ \A p \in Page : p \in Nat /\ p # InvalidPage
  /\ \A f \in Frame : f \in Nat /\ f # NoFrame
BY PoolAssumption, PageAssumption DEF Frame, InvalidPage, NoFrame

\* The free list of a pool that was just constructed holds every frame once.
LEMMA FullFreeList ==
  ASSUME NEW list, list = [i \in 1 .. PoolSize |-> i - 1]
  PROVE  /\ list \in Seq(Frame)
         /\ \A f \in Frame : \E i \in 1 .. Len(list) : list[i] = f
         /\ \A i, j \in 1 .. Len(list) : list[i] = list[j] => i = j
<1>1. list \in Seq(Frame) /\ Len(list) = PoolSize
  BY PoolAssumption DEF Frame
<1>2. \A i \in 1 .. PoolSize : list[i] = i - 1
  OBVIOUS
<1>3. \A f \in Frame : f + 1 \in 1 .. PoolSize /\ list[f + 1] = f
  BY PoolAssumption, <1>2 DEF Frame
<1>4. \A i, j \in 1 .. Len(list) : list[i] = list[j] => i = j
  BY PoolAssumption, <1>1, <1>2
<1>5. \A f \in Frame : \E i \in 1 .. Len(list) : list[i] = f
  BY <1>1, <1>3
<1> QED
  BY <1>1, <1>4, <1>5

\* get() takes the last frame of the free list and keeps the others.
LEMMA TakeLast ==
  ASSUME NEW list \in Seq(Frame), list # <<>>,
         \A i, j \in 1 .. Len(list) : list[i] = list[j] => i = j,
         NEW rest, rest = SubSeq(list, 1, Len(list) - 1)
  PROVE  /\ list[Len(list)] \in Frame
         /\ rest \in Seq(Frame)
         /\ \A i, j \in 1 .. Len(rest) : rest[i] = rest[j] => i = j
         /\ \A f \in Frame :
              (\E i \in 1 .. Len(rest) : rest[i] = f)
                <=> f # list[Len(list)] /\ \E i \in 1 .. Len(list) : list[i] = f
<1>1. Len(list) \in Nat /\ Len(list) > 0
  OBVIOUS
<1>2. rest \in Seq(Frame) /\ Len(rest) = Len(list) - 1
        /\ \A i \in 1 .. Len(rest) : rest[i] = list[i]
  <2> DEFINE n == Len(list) - 1
  <2>1. n \in Nat /\ \A i \in 1 .. n : list[i] \in Frame
    BY <1>1
  <2>2. /\ SubSeq(list, 1, n) \in Seq(Frame)
        /\ Len(SubSeq(list, 1, n)) = IF 1 <= n THEN n - 1 + 1 ELSE 0
        /\ \A i \in 1 .. n - 1 + 1 : SubSeq(list, 1, n)[i] = list[1 + i - 1]
    <3> HIDE DEF n
    <3> QED
      BY <2>1, SubSeqProperties
  <2>3. ASSUME NEW i \in 1 .. n
        PROVE  SubSeq(list, 1, n)[i] = list[i]
    <3>1. i \in 1 .. n - 1 + 1 /\ 1 + i - 1 = i
      BY <2>1
    <3> QED
      BY <2>2, <3>1
  <2>4. Len(SubSeq(list, 1, n)) = n
    <3> HIDE DEF n
    <3>1. CASE n = 0
      BY <2>2, <3>1
    <3>2. CASE n # 0
      <4>1. 1 <= n /\ n - 1 + 1 = n
        BY <2>1, <3>2
      <4> QED
        BY <2>2, <4>1
    <3> QED
      BY <3>1, <3>2
  <2> QED
    BY <2>2, <2>3, <2>4
<1>3. list[Len(list)] \in Frame
  BY <1>1
<1>4. \A i, j \in 1 .. Len(rest) : rest[i] = rest[j] => i = j
  BY <1>1, <1>2
<1>5. ASSUME NEW f \in Frame
      PROVE  (\E i \in 1 .. Len(rest) : rest[i] = f)
               <=> f # list[Len(list)] /\ \E i \in 1 .. Len(list) : list[i] = f
  <2>1. ASSUME NEW i \in 1 .. Len(rest), rest[i] = f
        PROVE  f # list[Len(list)] /\ \E k \in 1 .. Len(list) : list[k] = f
    BY <1>1, <1>2, <2>1
  <2>2. ASSUME f # list[Len(list)], NEW i \in 1 .. Len(list), list[i] = f
        PROVE  \E k \in 1 .. Len(rest) : rest[k] = f
    BY <1>1, <1>2, <2>2
  <2> QED
    BY <2>1, <2>2
<1> QED
  BY <1>2, <1>3, <1>4, <1>5

\* What ReadPage() leaves in a frame is what a frame may hold.
LEMMA ReadPageType ==
  ASSUME NEW disk \in [Page -> Buffer \cup {Unwritten}], NEW p \in Page, NEW buf \in Buffer
  PROVE  ReadPage(disk, p, buf) \in Buffer
BY DEF ReadPage, Buffer

\* What flush() leaves in the file.
LEMMA FlushedType ==
  ASSUME TypeOK, PageTableCoherent, NEW F \in SUBSET Frame
  PROVE  Flushed(F) \in [Page -> Buffer \cup {Unwritten}]
<1> SUFFICES ASSUME NEW p \in Page, NEW f \in F, pageId[f] = p
             PROVE  data[pageTable[p]] \in Buffer
  BY DEF Flushed, TypeOK
<1>1. pageTable[p] = f
  BY ConstantFacts DEF PageTableCoherent
<1> QED
  BY <1>1 DEF TypeOK

\* A pool that was just constructed has its type.
LEMMA ConstructedTyped ==
  ASSUME Constructed, file \in [Page -> Buffer \cup {Unwritten}]
  PROVE  TypeOK
<1>1. freeList \in Seq(Frame)
  <2>1. freeList = [i \in 1 .. PoolSize |-> i - 1]
    BY DEF Constructed
  <2> QED BY <2>1, FullFreeList
<1>2. pageTable \in [Page -> Frame \cup {NoFrame}]
  BY DEF Constructed
<1>3. pageId \in [Frame -> Page \cup {InvalidPage}]
  BY DEF Constructed
<1>4. pinCount \in [Frame -> 0 .. MaxPin]
  <2>1. 0 \in 0 .. MaxPin
    BY PinAssumption
  <2> QED BY <2>1 DEF Constructed
<1>5. dirty \in [Frame -> BOOLEAN]
  BY DEF Constructed
<1>6. data \in [Frame -> Buffer] /\ ret \in {"ok", "throws"}
  BY DEF Constructed
<1>7. refBits \in [Frame -> {0, 1}] /\ hand \in Frame
  BY ConstantFacts DEF Constructed, ClockInit
<1> QED
  BY <1>1, <1>2, <1>3, <1>4, <1>5, <1>6, <1>7 DEF TypeOK

LEMMA InitInv == Init => Inv
<1> SUFFICES ASSUME Init PROVE Inv
  OBVIOUS
<1>1. freeList = [i \in 1 .. PoolSize |-> i - 1]
  BY DEF Init, Constructed
<1>2. TypeOK
  <2>1. file \in [Page -> Buffer \cup {Unwritten}]
    BY DEF Init
  <2> QED BY <2>1, ConstructedTyped DEF Init
<1>3. PageTableCoherent
  BY DEF Init, Constructed, PageTableCoherent, Cached
<1>4. FreeListSound
  BY <1>1, FullFreeList DEF Init, Constructed, FreeListSound
<1> QED
  BY <1>2, <1>3, <1>4 DEF Inv

\* The calls that move no page between frames.
LEMMA SameFramesInv ==
  ASSUME Inv, UNCHANGED <<pageTable, pageId, freeList>>, TypeOK',
         \A f \in Frame : pageId[f] = InvalidPage => pinCount'[f] = 0 /\ ~ dirty'[f]
  PROVE  Inv'
BY DEF Inv, PageTableCoherent, FreeListSound, Cached

LEMMA RequestHitInv ==
  ASSUME Inv, NEW p \in Page, RequestHit(p)
  PROVE  Inv'
<1>1. pageTable[p] \in Frame /\ pageId[pageTable[p]] = p
  BY DEF Inv, TypeOK, PageTableCoherent, RequestHit, Cached
<1>2. TypeOK'
  BY <1>1, PinAssumption DEF Inv, TypeOK, RequestHit, Pin, Referenced, frameVars
<1>3. \A f \in Frame : pageId[f] = InvalidPage => pinCount'[f] = 0 /\ ~ dirty'[f]
  BY <1>1, ConstantFacts DEF Inv, TypeOK, FreeListSound, RequestHit, Pin, frameVars
<1> QED
  BY <1>2, <1>3, SameFramesInv DEF RequestHit, frameVars


\* A load of p into the unpinned frame f, which leaves the free list if it was
\* on it, whatever the clock did.
LEMMA LoadInv ==
  ASSUME Inv, NEW p \in Page, NEW f \in Frame,
         ~ Cached(p), pinCount[f] = 0,
         NEW disk \in [Page -> Buffer \cup {Unwritten}], Pin(f), Read(disk, p, f, Unmapped(f)),
         freeList' \in Seq(Frame),
         \A i, j \in 1 .. Len(freeList') : freeList'[i] = freeList'[j] => i = j,
         \A g \in Frame : (\E i \in 1 .. Len(freeList') : freeList'[i] = g)
                            <=> g # f /\ \E i \in 1 .. Len(freeList) : freeList[i] = g,
         file' \in [Page -> Buffer \cup {Unwritten}],
         NEW bits \in [Frame -> {0, 1}], refBits' = Referenced(bits, f),
         hand' \in Frame, ret' = "ok"
  PROVE  Inv'
<1>1. /\ pinCount' = [pinCount EXCEPT ![f] = @ + 1]
      /\ data' = [data EXCEPT ![f] = ReadPage(disk, p, @)]
      /\ pageTable' = [q \in Page |-> IF q = p THEN f
                                      ELSE IF q = pageId[f] THEN NoFrame ELSE pageTable[q]]
      /\ pageId' = [pageId EXCEPT ![f] = p]
      /\ dirty' = [dirty EXCEPT ![f] = FALSE]
  BY DEF Pin, Read, Unmapped
<1>2. TypeOK'
  <2>1. data' \in [Frame -> Buffer]
    BY <1>1, ReadPageType DEF Inv, TypeOK
  <2>2. refBits' \in [Frame -> {0, 1}]
    BY DEF Referenced
  <2>3. pinCount' \in [Frame -> 0 .. MaxPin]
    BY <1>1, PinAssumption DEF Inv, TypeOK
  <2>4. /\ pageTable' \in [Page -> Frame \cup {NoFrame}]
        /\ pageId' \in [Frame -> Page \cup {InvalidPage}]
        /\ dirty' \in [Frame -> BOOLEAN]
    BY <1>1 DEF Inv, TypeOK
  <2> QED
    BY <2>1, <2>2, <2>3, <2>4 DEF TypeOK
<1>3. \A g \in Frame : /\ pageId'[g] = IF g = f THEN p ELSE pageId[g]
                       /\ pageId[g] # p
                       /\ pageId[g] \in Page \cup {InvalidPage}
  BY <1>1, ConstantFacts DEF Inv, TypeOK, PageTableCoherent, Cached
<1>4. PageTableCoherent'
  <2>1. ASSUME NEW q \in Page, pageTable'[q] # NoFrame
        PROVE  pageId'[pageTable'[q]] = q
    BY <1>1, <1>3, <2>1 DEF Inv, TypeOK, PageTableCoherent, Cached
  <2>2. ASSUME NEW g \in Frame, pageId'[g] # InvalidPage
        PROVE  pageTable'[pageId'[g]] = g
    <3>1. CASE g = f
      BY <1>1, <1>3, <3>1
    <3>2. CASE g # f
      <4>1. pageId'[g] = pageId[g] /\ pageId[g] \in Page /\ pageTable[pageId[g]] = g
        BY <1>3, <2>2, <3>2 DEF Inv, PageTableCoherent
      <4>2. pageId[g] # pageId[f]
        BY <3>2, <4>1, ConstantFacts DEF Inv, PageTableCoherent
      <4> QED
        BY <1>1, <1>3, <4>1, <4>2
    <3> QED
      BY <3>1, <3>2
  <2> QED
    BY <2>1, <2>2 DEF PageTableCoherent, Cached
<1>5. FreeListSound'
  <2>1. \A g \in Frame :
          (pageId'[g] = InvalidPage) <=> \E i \in 1 .. Len(freeList') : freeList'[i] = g
    <3>1. \A g \in Frame :
            (pageId[g] = InvalidPage) <=> \E i \in 1 .. Len(freeList) : freeList[i] = g
      BY DEF Inv, FreeListSound
    <3>2. \A g \in Frame : (pageId'[g] = InvalidPage) <=> (g # f /\ pageId[g] = InvalidPage)
      BY <1>3, ConstantFacts
    <3> QED
      BY <3>1, <3>2
  <2>2. \A g \in Frame : pageId'[g] = InvalidPage => pinCount'[g] = 0 /\ ~ dirty'[g]
    BY <1>1, <1>3, ConstantFacts DEF Inv, TypeOK, FreeListSound
  <2> QED
    BY <2>1, <2>2 DEF FreeListSound
<1> QED
  BY <1>2, <1>4, <1>5 DEF Inv

LEMMA RequestFreeInv ==
  ASSUME Inv, NEW p \in Page, RequestFree(p)
  PROVE  Inv'
<1> DEFINE f == freeList[Len(freeList)]
<1>1. /\ freeList \in Seq(Frame)
      /\ freeList # <<>>
      /\ freeList' = SubSeq(freeList, 1, Len(freeList) - 1)
      /\ \A i, j \in 1 .. Len(freeList) : freeList[i] = freeList[j] => i = j
  BY DEF Inv, TypeOK, FreeListSound, RequestFree
<1>2. /\ f \in Frame
      /\ freeList' \in Seq(Frame)
      /\ \A i, j \in 1 .. Len(freeList') : freeList'[i] = freeList'[j] => i = j
      /\ \A g \in Frame : (\E i \in 1 .. Len(freeList') : freeList'[i] = g)
                            <=> g # f /\ \E i \in 1 .. Len(freeList) : freeList[i] = g
  BY <1>1, TakeLast
<1>3. pageId[f] = InvalidPage /\ pinCount[f] = 0
  <2>1. Len(freeList) \in 1 .. Len(freeList)
    BY <1>1
  <2> QED
    BY <1>2, <2>1 DEF Inv, FreeListSound
<1>4. Unmapped(f) = pageTable
  BY <1>3, ConstantFacts DEF Unmapped, Inv, TypeOK
<1>5. /\ ~ Cached(p) /\ Pin(f) /\ Read(file, p, f, Unmapped(f))
      /\ refBits' = Referenced(refBits, f)
      /\ ret' = "ok" /\ file' = file /\ hand' = hand
  BY <1>4 DEF RequestFree
<1>6. /\ file \in [Page -> Buffer \cup {Unwritten}]
      /\ refBits \in [Frame -> {0, 1}] /\ hand \in Frame
  BY DEF Inv, TypeOK
<1> HIDE DEF f
<1> QED
  BY <1>2, <1>3, <1>5, <1>6, LoadInv

LEMMA RequestEvictInv ==
  ASSUME Inv, NEW p \in Page, NEW f \in Frame, RequestEvict(p, f)
  PROVE  Inv'
<1>1. /\ freeList = <<>> /\ freeList' = freeList /\ freeList \in Seq(Frame)
      /\ ~ Cached(p) /\ pinCount[f] = 0
      /\ Pin(f) /\ Read(file', p, f, Unmapped(f))
      /\ file' = Flushed({f}) /\ hand' = f /\ ret' = "ok"
      /\ refBits' = Referenced(SweptTo(f), f)
  BY DEF Inv, TypeOK, RequestEvict, ChooseVictim, Unpinned
<1>2. file' \in [Page -> Buffer \cup {Unwritten}]
  BY <1>1, FlushedType DEF Inv
<1>3. SweptTo(f) \in [Frame -> {0, 1}]
  BY DEF Inv, TypeOK, SweptTo
<1>4. /\ \A i, j \in 1 .. Len(freeList') : freeList'[i] = freeList'[j] => i = j
      /\ \A g \in Frame : ~ \E i \in 1 .. Len(freeList) : freeList[i] = g
      /\ \A g \in Frame : ~ \E i \in 1 .. Len(freeList') : freeList'[i] = g
  BY <1>1
<1>5. freeList' \in Seq(Frame) /\ hand' \in Frame
  BY <1>1
<1> QED
  BY <1>1, <1>2, <1>3, <1>4, <1>5, LoadInv

LEMMA ReleaseInv ==
  ASSUME Inv, NEW p \in Page, Release(p)
  PROVE  Inv'
<1>1. pageTable[p] \in Frame /\ pinCount[pageTable[p]] > 0
  BY DEF Inv, TypeOK, Release, Cached
<1>2. TypeOK'
  <2>1. pinCount' \in [Frame -> 0 .. MaxPin]
    BY <1>1, PinAssumption DEF Inv, TypeOK, Release
  <2>2. refBits' \in [Frame -> {0, 1}]
    BY <1>1 DEF Inv, TypeOK, Release, Released
  <2> QED
    BY <2>1, <2>2 DEF Inv, TypeOK, Release, frameVars
<1>3. \A f \in Frame : pageId[f] = InvalidPage => pinCount'[f] = 0 /\ ~ dirty'[f]
  BY <1>1 DEF Inv, TypeOK, FreeListSound, Release, frameVars
<1> QED
  BY <1>2, <1>3, SameFramesInv DEF Release, frameVars

LEMMA UnpinInv ==
  ASSUME Inv, NEW f \in Frame, Unpin(f)
  PROVE  Inv'
<1>1. TypeOK'
  <2>1. pinCount' \in [Frame -> 0 .. MaxPin]
    BY PinAssumption DEF Inv, TypeOK, Unpin
  <2> QED
    BY <2>1 DEF Inv, TypeOK, Unpin, frameVars, clockVars
<1>2. \A g \in Frame : pageId[g] = InvalidPage => pinCount'[g] = 0 /\ ~ dirty'[g]
  BY DEF Inv, TypeOK, FreeListSound, Unpin, frameVars
<1> QED
  BY <1>1, <1>2, SameFramesInv DEF Unpin, frameVars

LEMMA WriteInv ==
  ASSUME Inv, NEW f \in Frame, NEW c \in Content, Write(f, c)
  PROVE  Inv'
<1>1. TypeOK'
  BY DEF Inv, TypeOK, Buffer, Write, clockVars
<1>2. \A g \in Frame : pageId[g] = InvalidPage => pinCount'[g] = 0 /\ ~ dirty'[g]
  BY DEF Inv, TypeOK, FreeListSound, Write
<1> QED
  BY <1>1, <1>2, SameFramesInv DEF Write

LEMMA FlushAllInv ==
  ASSUME Inv, FlushAll
  PROVE  Inv'
<1>1. file' \in [Page -> Buffer \cup {Unwritten}]
  BY FlushedType DEF Inv, FlushAll
<1>2. TypeOK'
  BY <1>1 DEF Inv, TypeOK, FlushAll, clockVars
<1>3. \A g \in Frame : pageId[g] = InvalidPage => pinCount'[g] = 0 /\ ~ dirty'[g]
  BY DEF Inv, TypeOK, FreeListSound, FlushAll
<1> QED
  BY <1>2, <1>3, SameFramesInv DEF FlushAll

LEMMA RestartInv ==
  ASSUME Inv, NEW F \in SUBSET Frame, Restart(F)
  PROVE  Inv'
<1>1. freeList' = [i \in 1 .. PoolSize |-> i - 1]
  BY DEF Restart
<1>2. file' \in [Page -> Buffer \cup {Unwritten}]
  BY FlushedType DEF Inv, Restart
<1>3. freeList' \in Seq(Frame)
  BY <1>1, FullFreeList
<1>4. TypeOK'
  BY <1>2, <1>3, ConstantFacts, PinAssumption DEF Restart, TypeOK
<1>5. PageTableCoherent'
  BY DEF Restart, PageTableCoherent, Cached
<1>6. FreeListSound'
  BY <1>1, FullFreeList DEF Restart, FreeListSound
<1> QED
  BY <1>4, <1>5, <1>6 DEF Inv

\* A call that throws, or a stutter.
LEMMA SameInv ==
  ASSUME Inv, UNCHANGED <<file, frameVars, pinCount, clockVars>>, ret' \in {"ok", "throws"}
  PROVE  Inv'
BY DEF Inv, TypeOK, PageTableCoherent, FreeListSound, Cached, frameVars, clockVars

LEMMA NextInv == Inv /\ [Next]_vars => Inv'
<1> SUFFICES ASSUME Inv, [Next]_vars PROVE Inv'
  OBVIOUS
<1>1. ASSUME NEW p \in Page, Request(p) PROVE Inv'
  <2>1. CASE RequestThrows(p)
    BY <2>1, SameInv DEF RequestThrows
  <2> QED
    BY <1>1, <2>1, RequestHitInv, RequestFreeInv, RequestEvictInv DEF Request
<1>2. ASSUME NEW p \in Page, ReleaseThrows(p) PROVE Inv'
  BY <1>2, SameInv DEF ReleaseThrows
<1>3. CASE UNCHANGED vars
  BY <1>3, SameInv DEF vars, Inv, TypeOK
<1>4. CASE Next
  BY <1>1, <1>2, <1>4, ReleaseInv, UnpinInv, WriteInv, FlushAllInv, RestartInv DEF Next
<1> QED
  BY <1>3, <1>4

\* The page table and the frames name each other in every state of every pool,
\* so that a page is never cached in two frames.
THEOREM PoolIsCoherent == Spec => []PageTableCoherent
<1>1. Inv => PageTableCoherent
  BY DEF Inv
<1> QED
  BY <1>1, InitInv, NextInv, PTL DEF Spec

\* The free list never holds a frame twice, nor one that is pinned, dirty or the
\* frame of a page, and never loses one.
THEOREM FreeListIsSound == Spec => []FreeListSound
<1>1. Inv => FreeListSound
  BY DEF Inv
<1> QED
  BY <1>1, InitInv, NextInv, PTL DEF Spec

\* Every state of the pool is well typed: no pin count is negative.
THEOREM PoolTypeCorrect == Spec => []TypeOK
<1>1. Inv => TypeOK
  BY DEF Inv
<1> QED
  BY <1>1, InitInv, NextInv, PTL DEF Spec

\* Steps that load no page leave the frames' page ids alone, or end the process.
LEMMA PageIdChanges ==
  ASSUME Inv, [Next]_vars
  PROVE  \/ pageId' = pageId
         \/ \A g \in Frame : pageId'[g] = InvalidPage
         \/ \E p \in Page : RequestFree(p) \/ \E f \in Frame : RequestEvict(p, f)
<1>1. ASSUME NEW p \in Page, Request(p) \/ Release(p) \/ ReleaseThrows(p)
      PROVE  \/ pageId' = pageId
             \/ RequestFree(p) \/ \E f \in Frame : RequestEvict(p, f)
  BY <1>1 DEF Request, RequestHit, RequestThrows, Release, ReleaseThrows, frameVars
<1>2. ASSUME NEW f \in Frame, Unpin(f) \/ \E c \in Content : Write(f, c)
      PROVE  pageId' = pageId
  BY <1>2 DEF Unpin, Write, frameVars
<1>3. CASE FlushAll
  BY <1>3 DEF FlushAll
<1>4. ASSUME NEW F \in SUBSET Frame, Restart(F)
      PROVE  \A g \in Frame : pageId'[g] = InvalidPage
  BY <1>4 DEF Restart
<1>5. CASE UNCHANGED vars
  BY <1>5 DEF vars, frameVars
<1> QED
  BY <1>1, <1>2, <1>3, <1>4, <1>5 DEF Next

\* A pinned frame keeps its page, whatever pages other callers ask for, until
\* the process ends.
THEOREM PinnedStays == Spec => PinnedNeverEvicted
<1> DEFINE Kept ==
      \A f \in Frame : (pinCount[f] > 0 /\ pageId'[f] # pageId[f])
        => \A g \in Frame : pageId'[g] = InvalidPage
<1>1. ASSUME Inv, [Next]_vars PROVE Kept
  <2>1. ASSUME NEW p \in Page, RequestFree(p) PROVE Kept
    <3>1. Len(freeList) \in 1 .. Len(freeList) /\ freeList[Len(freeList)] \in Frame
      <4>1. freeList \in Seq(Frame) /\ freeList # <<>>
        BY <1>1, <2>1 DEF RequestFree, Inv, TypeOK
      <4> QED
        BY <4>1
    <3>2. pinCount[freeList[Len(freeList)]] = 0
      BY <1>1, <3>1 DEF Inv, FreeListSound
    <3>3. pageId' = [pageId EXCEPT ![freeList[Len(freeList)]] = p]
      BY <2>1 DEF RequestFree, Read
    <3> QED
      BY <1>1, <3>1, <3>2, <3>3 DEF Inv, TypeOK
  <2>2. ASSUME NEW p \in Page, NEW v \in Frame, RequestEvict(p, v) PROVE Kept
    <3>1. pinCount[v] = 0 /\ pageId' = [pageId EXCEPT ![v] = p]
      BY <2>2 DEF RequestEvict, ChooseVictim, Unpinned, Read
    <3> QED
      BY <1>1, <3>1 DEF Inv, TypeOK
  <2> QED
    BY <1>1, <2>1, <2>2, PageIdChanges
<1>2. Inv /\ [Next]_vars => [Kept]_vars
  BY <1>1
<1> QED
  BY <1>2, InitInv, NextInv, PTL DEF Spec, PinnedNeverEvicted

\* How far the hand is from a frame.
LEMMA DistanceFacts ==
  ASSUME TypeOK
  PROVE  \A f \in Frame : Distance(f) \in 0 .. PoolSize - 1
BY PoolAssumption DEF TypeOK, Frame, Distance

\* CLOCK's second chance, for every number of frames and every state of the
\* bits: a frame with its bit set goes only when all that could go have theirs.
THEOREM SecondChanceHolds == Spec => SecondChance
<1> DEFINE Chance ==
      \A f \in Frame :
        (pageId[f] # InvalidPage /\ pageId'[f] \notin {pageId[f], InvalidPage}
           /\ refBits[f] = 1)
        => \A g \in Unpinned : refBits[g] = 1
<1>1. ASSUME Inv, [Next]_vars PROVE Chance
  <2>1. ASSUME NEW p \in Page, RequestFree(p) PROVE Chance
    <3>1. Len(freeList) \in 1 .. Len(freeList) /\ freeList[Len(freeList)] \in Frame
      <4>1. freeList \in Seq(Frame) /\ freeList # <<>>
        BY <1>1, <2>1 DEF RequestFree, Inv, TypeOK
      <4> QED
        BY <4>1
    <3>2. pageId[freeList[Len(freeList)]] = InvalidPage
      BY <1>1, <3>1 DEF Inv, FreeListSound
    <3>3. pageId' = [pageId EXCEPT ![freeList[Len(freeList)]] = p]
      BY <2>1 DEF RequestFree, Read
    <3> QED
      BY <1>1, <3>1, <3>2, <3>3 DEF Inv, TypeOK
  <2>2. ASSUME NEW p \in Page, NEW v \in Frame, RequestEvict(p, v) PROVE Chance
    <3>1. /\ v \in Unpinned
          /\ \A g \in Unpinned : StopsAfter(v) <= StopsAfter(g)
          /\ pageId' = [pageId EXCEPT ![v] = p]
      BY <2>2 DEF RequestEvict, ChooseVictim, Read
    <3>2. ASSUME refBits[v] = 1, NEW g \in Unpinned PROVE refBits[g] = 1
      <4>1. g \in Frame /\ refBits[g] \in {0, 1}
        BY <1>1 DEF Unpinned, Inv, TypeOK
      <4>2. /\ Distance(v) \in 0 .. PoolSize - 1
            /\ Distance(g) \in 0 .. PoolSize - 1
        BY <1>1, <4>1, DistanceFacts DEF Inv
      <4>3. StopsAfter(v) = Distance(v) + PoolSize /\ StopsAfter(v) <= StopsAfter(g)
        BY <3>1, <3>2 DEF StopsAfter
      <4> QED
        BY <4>1, <4>2, <4>3, PoolAssumption DEF StopsAfter
    <3> QED
      BY <1>1, <3>1, <3>2 DEF Inv, TypeOK
  <2> QED
    BY <1>1, <2>1, <2>2, PageIdChanges
<1>2. Inv /\ [Next]_vars => [Chance]_vars
  BY <1>1
<1> QED
  BY <1>2, InitInv, NextInv, PTL DEF Spec, SecondChance

----------------------------------------------------------------------------
(* What a clean frame holds.  Coherence is what makes the write-back of one *)
(* frame invisible to the frames of other pages.                           *)

\* flush() changes the file only where a dirty frame holds the page, and leaves
\* there what that frame holds.
LEMMA FlushedFile ==
  ASSUME Inv, NEW F \in SUBSET Frame, NEW f \in Frame, pageId[f] # InvalidPage
  PROVE  /\ pageId[f] \in Page
         /\ Flushed(F)[pageId[f]] = IF f \in F /\ dirty[f] THEN data[f] ELSE file[pageId[f]]
<1>1. pageId[f] \in Page /\ pageTable[pageId[f]] = f
  BY DEF Inv, TypeOK, PageTableCoherent
<1>2. \A g \in F : pageId[g] = pageId[f] => g = f
  BY <1>1 DEF Inv, PageTableCoherent
<1> QED
  BY <1>1, <1>2 DEF Flushed

LEMMA CleanNext ==
  ASSUME Inv, CleanAgreesWithFile, [Next]_vars
  PROVE  CleanAgreesWithFile'
<1>1. ASSUME NEW p \in Page, NEW f \in Frame, ~ Cached(p),
             NEW disk, file' = disk, Read(disk, p, f, Unmapped(f)),
             \A g \in Frame : (g # f /\ pageId[g] # InvalidPage)
                                => disk[pageId[g]] = file[pageId[g]]
      PROVE  CleanAgreesWithFile'
  <2>1. /\ data' = [data EXCEPT ![f] = ReadPage(disk, p, @)]
        /\ pageId' = [pageId EXCEPT ![f] = p]
        /\ dirty' = [dirty EXCEPT ![f] = FALSE]
    BY <1>1 DEF Read
  <2>2. ASSUME NEW g \in Frame, pageId'[g] # InvalidPage, ~ dirty'[g],
               file'[pageId'[g]] # Unwritten
        PROVE  data'[g] = file'[pageId'[g]]
    <3>1. CASE g = f
      BY <1>1, <2>1, <2>2, <3>1 DEF Inv, TypeOK, ReadPage
    <3>2. CASE g # f
      BY <1>1, <2>1, <2>2, <3>2 DEF Inv, TypeOK, CleanAgreesWithFile
    <3> QED
      BY <3>1, <3>2
  <2> QED
    BY <2>2 DEF CleanAgreesWithFile
<1>2. ASSUME NEW p \in Page, RequestFree(p) PROVE CleanAgreesWithFile'
  <2> DEFINE f == freeList[Len(freeList)]
  <2>1. f \in Frame /\ pageId[f] = InvalidPage
    <3>1. Len(freeList) \in 1 .. Len(freeList) /\ f \in Frame
      <4>1. freeList \in Seq(Frame) /\ freeList # <<>>
        BY <1>2 DEF RequestFree, Inv, TypeOK
      <4> QED
        BY <4>1
    <3> QED
      BY <3>1 DEF Inv, FreeListSound
  <2>2. Unmapped(f) = pageTable
    BY <2>1, ConstantFacts DEF Unmapped, Inv, TypeOK
  <2>3. ~ Cached(p) /\ file' = file /\ Read(file, p, f, Unmapped(f))
    BY <1>2, <2>2 DEF RequestFree
  <2> HIDE DEF f
  <2> QED
    BY <1>1, <2>1, <2>3
<1>3. ASSUME NEW p \in Page, NEW f \in Frame, RequestEvict(p, f) PROVE CleanAgreesWithFile'
  <2>1. ~ Cached(p) /\ file' = Flushed({f}) /\ Read(file', p, f, Unmapped(f))
    BY <1>3 DEF RequestEvict
  <2>2. \A g \in Frame : (g # f /\ pageId[g] # InvalidPage)
                           => file'[pageId[g]] = file[pageId[g]]
    BY <2>1, FlushedFile
  <2> QED
    BY <1>1, <2>1, <2>2
<1>4. ASSUME NEW p \in Page, RequestHit(p) \/ RequestThrows(p) \/ Release(p) \/ ReleaseThrows(p)
      PROVE  CleanAgreesWithFile'
  BY <1>4 DEF CleanAgreesWithFile, RequestHit, RequestThrows, Release, ReleaseThrows, frameVars
<1>5. ASSUME NEW f \in Frame, Unpin(f) PROVE CleanAgreesWithFile'
  BY <1>5 DEF CleanAgreesWithFile, Unpin, frameVars
<1>6. ASSUME NEW f \in Frame, NEW c \in Content, Write(f, c) PROVE CleanAgreesWithFile'
  BY <1>6 DEF CleanAgreesWithFile, Write, Inv, TypeOK
<1>7. CASE FlushAll
  <2>1. /\ file' = Flushed(Frame) /\ pageId' = pageId /\ data' = data
    BY <1>7 DEF FlushAll
  <2>2. \A f \in Frame : pageId[f] # InvalidPage =>
          file'[pageId[f]] = IF dirty[f] THEN data[f] ELSE file[pageId[f]]
    BY <2>1, FlushedFile
  <2> QED
    BY <2>1, <2>2 DEF CleanAgreesWithFile
<1>8. ASSUME NEW F \in SUBSET Frame, Restart(F) PROVE CleanAgreesWithFile'
  BY <1>8 DEF CleanAgreesWithFile, Restart
<1>9. CASE UNCHANGED vars
  BY <1>9 DEF CleanAgreesWithFile, vars, frameVars
<1> QED
  BY <1>2, <1>3, <1>4, <1>5, <1>6, <1>7, <1>8, <1>9 DEF Next, Request

\* A clean frame holds the page as it is in the file, through every write-back,
\* flush and eviction, so that evicting it without a write loses nothing.
THEOREM CleanFramesAgree == Spec => []CleanAgreesWithFile
<1>1. Init => CleanAgreesWithFile
  BY DEF Init, Constructed, CleanAgreesWithFile
<1>2. Inv /\ CleanAgreesWithFile /\ [Next]_vars => CleanAgreesWithFile'
  BY CleanNext
<1> QED
  BY <1>1, <1>2, InitInv, NextInv, PTL DEF Spec

----------------------------------------------------------------------------
(* The pool implements PageStore.  A page is shown as its dirty frame has   *)
(* it, and as the file has it otherwise: that is what lets a clean frame be *)
(* loaded and dropped unseen.                                               *)

\* What the contract needs of every state.
Sound == Inv /\ CleanAgreesWithFile

DirtyIn(p) == Cached(p) /\ dirty[pageTable[p]]

\* Where a page that is shown to its readers is.
LEMMA ShownFacts ==
  ASSUME Sound, NEW p \in Page
  PROVE  /\ Shown[p] = IF DirtyIn(p) THEN data[pageTable[p]] ELSE file[p]
         /\ Cached(p) => pageTable[p] \in Frame /\ pageId[pageTable[p]] = p
<1>1. Cached(p) => pageTable[p] \in Frame /\ pageId[pageTable[p]] = p
  BY DEF Sound, Inv, TypeOK, PageTableCoherent, Cached
<1>2. Cached(p) /\ ~ dirty[pageTable[p]] /\ file[p] # Unwritten => data[pageTable[p]] = file[p]
  BY <1>1, ConstantFacts DEF Sound, CleanAgreesWithFile
<1>3. Shown[p] = ContentOf(p)
  BY DEF Shown
<1> QED
  BY <1>1, <1>2, <1>3 DEF ContentOf, DirtyIn

\* The same of the state that a call leaves.
LEMMA ShownNext ==
  ASSUME Sound', NEW p \in Page
  PROVE  Shown'[p] = IF DirtyIn(p)' THEN data'[pageTable'[p]] ELSE file'[p]
<1>1. Cached(p)' => pageTable'[p] \in Frame /\ pageId'[pageTable'[p]] = p
  BY DEF Sound, Inv, TypeOK, PageTableCoherent, Cached
<1>2. Cached(p)' /\ ~ dirty'[pageTable'[p]] /\ file'[p] # Unwritten
        => data'[pageTable'[p]] = file'[p]
  BY <1>1, ConstantFacts DEF Sound, CleanAgreesWithFile
<1>3. Shown'[p] = ContentOf(p)'
  BY DEF Shown
<1> QED
  BY <1>1, <1>2, <1>3 DEF ContentOf, DirtyIn

\* The frame of a page, seen from the frame.
LEMMA FrameFacts ==
  ASSUME Sound, NEW f \in Frame, pageId[f] # InvalidPage
  PROVE  /\ pageId[f] \in Page /\ pageTable[pageId[f]] = f /\ Cached(pageId[f])
         /\ Pins[pageId[f]] = pinCount[f]
BY ConstantFacts DEF Sound, Inv, TypeOK, PageTableCoherent, Cached, Pins

\* flush() writes to the file what is shown of the pages it writes.
LEMMA FlushedIsShown ==
  ASSUME Sound, NEW F \in SUBSET Frame
  PROVE  \E S \in SUBSET Page :
           /\ Flushed(F) = Contract!Synced(S)
           /\ \A p \in Page : p \in S <=> \E f \in F : dirty[f] /\ pageId[f] = p
<1> DEFINE S == {p \in Page : \E f \in F : dirty[f] /\ pageId[f] = p}
<1>1. ASSUME NEW p \in S
      PROVE  Shown[p] = data[pageTable[p]]
  <2>1. PICK f \in F : dirty[f] /\ pageId[f] = p
    OBVIOUS
  <2>2. f \in Frame /\ pageId[f] # InvalidPage
    BY <2>1, ConstantFacts
  <2>3. pageTable[p] = f /\ Cached(p)
    BY <2>1, <2>2, FrameFacts
  <2> QED BY <2>1, <2>3, ShownFacts DEF DirtyIn
<1>2. \A p \in Page : Flushed(F)[p] = IF p \in S THEN data[pageTable[p]] ELSE file[p]
  BY DEF Flushed
<1>3. \A p \in Page : Flushed(F)[p] = IF p \in S THEN Shown[p] ELSE file[p]
  BY <1>1, <1>2
<1>4. Flushed(F) = [p \in Page |-> IF p \in S THEN Shown[p] ELSE file[p]]
  BY <1>3 DEF Flushed
<1> QED
  BY <1>4 DEF Contract!Synced

\* The pool starts as the store does.
LEMMA InitStore == Init => Contract!Init
<1> SUFFICES ASSUME Init PROVE Contract!Init
  OBVIOUS
<1>1. file = [p \in Page |-> Unwritten] /\ ret = "ok" /\ \A p \in Page : ~ Cached(p)
  BY DEF Init, Constructed, Cached
<1>2. Shown = [p \in Page |-> Unwritten]
  BY <1>1 DEF Shown, ContentOf
<1>3. Pins = [p \in Page |-> 0]
  BY <1>1 DEF Pins
<1> QED
  BY <1>1, <1>2, <1>3 DEF Contract!Init

\* One pin more, or one less, on the frame of p is one on p and no other page.
LEMMA PinsOfFrame ==
  ASSUME Sound, NEW p \in Page, NEW f \in Frame, pageTable[p] = f, NEW n \in Int,
         pinCount' = [pinCount EXCEPT ![f] = n], pageTable' = pageTable
  PROVE  Pins' = [Pins EXCEPT ![p] = n]
<1>1. \A q \in Page : Cached(q)' <=> Cached(q)
  BY DEF Cached
<1>2. Cached(p)
  BY ConstantFacts DEF Cached
<1>3. \A q \in Page : Cached(q) /\ q # p => pageTable[q] \in Frame /\ pageTable[q] # f
  BY <1>2, ShownFacts
<1>4. pinCount \in [Frame -> 0 .. MaxPin]
  BY DEF Sound, Inv, TypeOK
<1>5. \A q \in Page : Pins'[q] = IF q = p THEN n ELSE Pins[q]
  BY <1>1, <1>2, <1>3, <1>4 DEF Pins
<1> QED
  BY <1>5 DEF Pins

\* A call that changes no frame's bytes or marks shows readers the same.
LEMMA SameShown ==
  ASSUME UNCHANGED <<file, pageTable, dirty, data>>
  PROVE  Shown' = Shown
BY DEF Shown, ContentOf, Cached

\* A request for a page that is in a frame is a fetch.
LEMMA HitStore ==
  ASSUME Sound, NEW p \in Page, RequestHit(p)
  PROVE  Contract!Fetch(p)
<1> DEFINE f == pageTable[p]
<1>1. /\ f \in Frame /\ pinCount[f] < MaxPin /\ pinCount[f] \in Int
      /\ pinCount' = [pinCount EXCEPT ![f] = pinCount[f] + 1]
      /\ UNCHANGED <<file, frameVars>> /\ ret' = "ok"
  BY DEF RequestHit, Pin, Sound, Inv, TypeOK, Cached
<1>2. Pins[p] = pinCount[f]
  BY DEF RequestHit, Pins
<1>3. Pins' = [Pins EXCEPT ![p] = pinCount[f] + 1]
  <2>1. pageTable' = pageTable /\ pinCount[f] + 1 \in Int
    BY <1>1 DEF frameVars
  <2> QED BY <1>1, <2>1, PinsOfFrame
<1>4. Shown' = Shown
  BY <1>1, SameShown DEF frameVars
<1> QED
  BY <1>1, <1>2, <1>3, <1>4 DEF Contract!Fetch

\* A page loaded into a frame that is free by then is pinned once and shown as the
\* file has it; other pages that are cached stay as they are.
LEMMA LoadStore ==
  ASSUME Sound, Sound', NEW p \in Page, NEW f \in Frame, ~ Cached(p), pinCount[f] = 0,
         Pin(f), Read(file', p, f, Unmapped(f)),
         file'[p] = file[p],
         \A q \in Page : q # pageId[f] => file'[q] = file[q],
         pageId[f] # InvalidPage => file'[pageId[f]] = Shown[pageId[f]]
  PROVE  Pins' = [Pins EXCEPT ![p] = 1] /\ Pins[p] = 0 /\ Shown' = Shown
<1>1. /\ data' = [data EXCEPT ![f] = ReadPage(file', p, data[f])]
      /\ pageTable' = [Unmapped(f) EXCEPT ![p] = f]
      /\ dirty' = [dirty EXCEPT ![f] = FALSE]
      /\ pinCount' = [pinCount EXCEPT ![f] = 1]
  BY DEF Read, Pin
<1>2. /\ pinCount \in [Frame -> 0 .. MaxPin] /\ dirty \in [Frame -> BOOLEAN]
      /\ data \in [Frame -> Buffer] /\ pageTable \in [Page -> Frame \cup {NoFrame}]
  BY DEF Sound, Inv, TypeOK
<1>3. pageTable'[p] = f /\ Cached(p)' /\ pinCount'[f] = 1 /\ dirty'[f] = FALSE
  BY <1>1, <1>2, ConstantFacts DEF Unmapped, Cached
<1>4. ASSUME NEW q \in Page, q # p, q = pageId[f]
      PROVE  /\ ~ Cached(q)' /\ Pins[q] = 0 /\ file'[q] = Shown[q]
  <2>1. pageTable'[q] = NoFrame
    BY <1>1, <1>4 DEF Unmapped
  <2>2. pageId[f] # InvalidPage
    BY <1>4, ConstantFacts
  <2> QED BY <1>4, <2>1, <2>2, FrameFacts DEF Cached
<1>5. ASSUME NEW q \in Page, q # p, q # pageId[f]
      PROVE  /\ Cached(q)' <=> Cached(q)
             /\ pageTable'[q] = pageTable[q] /\ file'[q] = file[q]
             /\ Cached(q) => /\ pageTable[q] \in Frame /\ pageTable[q] # f
                             /\ dirty'[pageTable[q]] = dirty[pageTable[q]]
                             /\ data'[pageTable[q]] = data[pageTable[q]]
                             /\ pinCount'[pageTable[q]] = pinCount[pageTable[q]]
  <2>1. pageTable'[q] = pageTable[q]
    BY <1>1, <1>2, <1>5 DEF Unmapped
  <2>2. Cached(q) => pageTable[q] \in Frame /\ pageTable[q] # f
    BY <1>5, ShownFacts
  <2> QED BY <1>1, <1>2, <1>5, <2>1, <2>2 DEF Cached
<1>6. \A q \in Page : Pins'[q] = IF q = p THEN 1 ELSE Pins[q]
  BY <1>3, <1>4, <1>5 DEF Pins
<1>7. Pins' = [Pins EXCEPT ![p] = 1] /\ Pins[p] = 0
  BY <1>6 DEF Pins
<1>8. \A q \in Page : Shown'[q] = IF DirtyIn(q)' THEN data'[pageTable'[q]] ELSE file'[q]
  BY ShownNext
<1>9. ASSUME NEW q \in Page
      PROVE  Shown'[q] = Shown[q]
  <2>1. CASE q = p
    <3>1. Shown[q] = file[q]
      BY <2>1, ShownFacts DEF DirtyIn
    <3> QED BY <1>3, <1>8, <2>1, <3>1 DEF DirtyIn
  <2>2. CASE q # p /\ q = pageId[f]
    BY <1>4, <1>8, <2>2 DEF DirtyIn
  <2>3. CASE q # p /\ q # pageId[f]
    BY <1>5, <1>8, <2>3, ShownFacts DEF DirtyIn
  <2> QED BY <2>1, <2>2, <2>3
<1>10. Shown' = Shown
  BY <1>9 DEF Shown
<1> QED
  BY <1>7, <1>10

\* So is one that reads the page into a frame from the free list.
LEMMA FreeStore ==
  ASSUME Sound, Sound', NEW p \in Page, RequestFree(p)
  PROVE  Contract!Fetch(p)
<1> DEFINE f == freeList[Len(freeList)]
<1>1. f \in Frame /\ pageId[f] = InvalidPage /\ pinCount[f] = 0
  <2>1. freeList \in Seq(Frame) /\ freeList # <<>>
    BY DEF RequestFree, Sound, Inv, TypeOK
  <2>2. Len(freeList) \in 1 .. Len(freeList) /\ f \in Frame
    BY <2>1
  <2> QED BY <2>2 DEF Sound, Inv, FreeListSound
<1>2. Unmapped(f) = pageTable
  BY <1>1, ConstantFacts DEF Unmapped, Sound, Inv, TypeOK
<1>3. /\ ~ Cached(p) /\ Pin(f) /\ Read(file', p, f, Unmapped(f))
      /\ ret' = "ok" /\ file' = file
  BY <1>2 DEF RequestFree
<1> HIDE DEF f
<1>4. Pins' = [Pins EXCEPT ![p] = 1] /\ Pins[p] = 0 /\ Shown' = Shown
  BY <1>1, <1>3, LoadStore
<1> QED
  BY <1>3, <1>4, PinAssumption DEF Contract!Fetch

\* So is one that evicts; a dirty victim reaches the file first and stays what it was.
LEMMA EvictStore ==
  ASSUME Sound, Sound', NEW p \in Page, NEW f \in Frame, RequestEvict(p, f)
  PROVE  Contract!Fetch(p)
<1>1. /\ ~ Cached(p) /\ freeList = <<>> /\ pinCount[f] = 0
      /\ file' = Flushed({f}) /\ Pin(f) /\ Read(file', p, f, Unmapped(f)) /\ ret' = "ok"
  BY DEF RequestEvict, ChooseVictim, Unpinned
<1>2. pageId[f] # InvalidPage
  BY <1>1 DEF Sound, Inv, FreeListSound
<1> DEFINE q == pageId[f]
<1>3. q \in Page /\ pageTable[q] = f /\ Cached(q) /\ Pins[q] = 0 /\ q # p
  BY <1>1, <1>2, FrameFacts
<1>4. file'[q] = Shown[q]
  <2>1. file'[q] = IF dirty[f] THEN data[f] ELSE file[q]
    BY <1>1, <1>2, FlushedFile DEF Sound
  <2> QED BY <1>3, <2>1, ShownFacts DEF DirtyIn
<1>5. \A x \in Page : x # q => file'[x] = file[x]
  BY <1>1 DEF Flushed
<1>6. Pins' = [Pins EXCEPT ![p] = 1] /\ Pins[p] = 0 /\ Shown' = Shown
  BY <1>1, <1>2, <1>3, <1>4, <1>5, LoadStore
<1>7. q \in Page \ Contract!Held
  BY <1>3 DEF Contract!Held
<1>8. file' = Contract!Synced({q})
  <2>1. \A x \in Page : file'[x] = IF x \in {q} THEN Shown[x] ELSE file[x]
    BY <1>4, <1>5
  <2>2. file' = [x \in Page |-> IF x \in {q} THEN Shown[x] ELSE file[x]]
    BY <1>1, <2>1 DEF Flushed
  <2> QED BY <2>2 DEF Contract!Synced
<1>9. \E x \in Page \ Contract!Held : file' = Contract!Synced({x})
  BY <1>7, <1>8
<1> HIDE DEF q
<1>10. Pins[p] < MaxPin /\ Pins' = [Pins EXCEPT ![p] = Pins[p] + 1]
  BY <1>6, PinAssumption
<1> QED
  BY Zenon, <1>1, <1>6, <1>9, <1>10 DEF Contract!Fetch

\* A request that throws finds as many pages pinned as there are frames.
LEMMA ThrowsStore ==
  ASSUME Sound, NEW p \in Page, RequestThrows(p)
  PROVE  Contract!FetchFails(p)
<1>1. /\ ~ Cached(p) /\ freeList = <<>> /\ Unpinned = {}
      /\ UNCHANGED <<file, frameVars, pinCount>> /\ ret' = "throws"
  BY DEF RequestThrows, NoVictim
<1>2. ASSUME NEW f \in Frame
      PROVE  pageId[f] # InvalidPage /\ pinCount[f] > 0
  <2>1. pinCount[f] # 0 /\ pinCount[f] \in 0 .. MaxPin
    BY <1>1 DEF Unpinned, Sound, Inv, TypeOK
  <2>2. pageId[f] # InvalidPage
    BY <1>1 DEF Sound, Inv, FreeListSound
  <2> QED BY <2>1, <2>2, PinAssumption
<1>3. \A f \in Frame : pageId[f] \in Contract!Held
  BY <1>2, FrameFacts DEF Contract!Held
<1>4. \A f, g \in Frame : pageId[f] = pageId[g] => f = g
  BY <1>2, FrameFacts
<1>5. pageId \in [Frame -> Contract!Held]
  BY <1>3 DEF Sound, Inv, TypeOK
<1>6. Contract!Full
  BY <1>4, <1>5 DEF Contract!Full
<1>7. Pins[p] = 0
  BY <1>1 DEF Pins
<1>8. Shown' = Shown /\ Pins' = Pins /\ file' = file
  BY <1>1, SameShown DEF frameVars, Pins, Cached
<1> QED
  BY <1>1, <1>6, <1>7, <1>8 DEF Contract!FetchFails

\* One pin less on the frame of p.
LEMMA UnpinStore ==
  ASSUME Sound, NEW p \in Page, NEW f \in Frame, pageTable[p] = f, pinCount[f] > 0,
         pinCount' = [pinCount EXCEPT ![f] = pinCount[f] - 1],
         UNCHANGED <<file, frameVars>>, ret' = "ok"
  PROVE  Contract!Release(p)
<1>1. pageTable' = pageTable /\ pinCount[f] \in Int /\ pinCount[f] - 1 \in Int
  BY DEF frameVars, Sound, Inv, TypeOK
<1>2. Pins' = [Pins EXCEPT ![p] = pinCount[f] - 1]
  BY <1>1, PinsOfFrame
<1>3. Pins[p] = pinCount[f]
  BY ConstantFacts DEF Pins, Cached
<1>4. Shown' = Shown
  BY SameShown DEF frameVars
<1> QED
  BY <1>2, <1>3, <1>4 DEF Contract!Release

\* A write through a pinned frame is a write of its page.
LEMMA WriteStore ==
  ASSUME Sound, Sound', NEW f \in Frame, NEW c \in Content, Write(f, c)
  PROVE  \E p \in Page : Contract!Write(p, c)
<1> DEFINE p == pageId[f]
<1>1. /\ pinCount[f] > 0 /\ ret' = "ok"
      /\ data' = [data EXCEPT ![f] = c] /\ dirty' = [dirty EXCEPT ![f] = TRUE]
      /\ UNCHANGED <<file, pageTable, pinCount>>
  BY DEF Write
<1>2. pageId[f] # InvalidPage
  BY <1>1 DEF Sound, Inv, FreeListSound
<1>3. p \in Page /\ pageTable[p] = f /\ Cached(p) /\ Pins[p] = pinCount[f]
  BY <1>2, FrameFacts
<1> HIDE DEF p
<1>4. Pins' = Pins
  BY <1>1 DEF Pins, Cached
<1>5. dirty \in [Frame -> BOOLEAN] /\ data \in [Frame -> Buffer]
  BY DEF Sound, Inv, TypeOK
<1>6. ASSUME NEW q \in Page
      PROVE  Shown'[q] = IF q = p THEN c ELSE Shown[q]
  <2>1. Shown'[q] = IF DirtyIn(q)' THEN data'[pageTable[q]] ELSE file[q]
    BY <1>1, ShownNext
  <2>2. CASE q = p
    BY <1>1, <1>3, <1>5, <2>1, <2>2 DEF DirtyIn, Cached
  <2>3. CASE q # p
    <3>1. Cached(q) => pageTable[q] \in Frame /\ pageTable[q] # f
      BY <1>3, <2>3, ShownFacts DEF p
    <3> QED BY <1>1, <1>5, <2>1, <2>3, <3>1, ShownFacts DEF DirtyIn, Cached
  <2> QED BY <2>2, <2>3
<1>7. Shown' = [Shown EXCEPT ![p] = c]
  BY <1>6 DEF Shown
<1>8. Contract!Write(p, c)
  BY <1>1, <1>3, <1>4, <1>7 DEF Contract!Write
<1> QED
  BY <1>3, <1>8

\* flush_all() makes stable what is shown of every page.
LEMMA FlushStore ==
  ASSUME Sound, Sound', FlushAll
  PROVE  Contract!FlushAll
<1>1. /\ file' = Flushed(Frame) /\ dirty' = [f \in Frame |-> FALSE] /\ ret' = "ok"
      /\ UNCHANGED <<pageTable, pinCount>>
  BY DEF FlushAll
<1>2. ASSUME NEW p \in Page
      PROVE  file'[p] = Shown[p]
  <2>1. CASE Cached(p)
    <3> DEFINE f == pageTable[p]
    <3>1. f \in Frame /\ pageId[f] = p
      BY <2>1, ShownFacts
    <3>2. file'[p] = IF dirty[f] THEN data[f] ELSE file[p]
      BY <1>1, <3>1, FlushedFile, ConstantFacts DEF Sound
    <3> QED BY <2>1, <3>2, ShownFacts DEF DirtyIn
  <2>2. CASE ~ Cached(p)
    <3>1. \A f \in Frame : pageId[f] # p
      BY <2>2, FrameFacts, ConstantFacts
    <3>2. file'[p] = file[p]
      BY <1>1, <3>1 DEF Flushed
    <3> QED BY <2>2, <3>2, ShownFacts DEF DirtyIn
  <2> QED BY <2>1, <2>2
<1>3. file' = Shown
  BY <1>1, <1>2 DEF Flushed, Shown
<1>4. \A p \in Page : Shown'[p] = file'[p]
  <2> SUFFICES ASSUME NEW p \in Page
               PROVE  Shown'[p] = file'[p]
    OBVIOUS
  <2>1. Cached(p)' => pageTable'[p] \in Frame
    BY DEF Sound, Inv, TypeOK, Cached
  <2> QED BY <1>1, <2>1, ShownNext DEF DirtyIn
<1>5. Shown' = Shown
  BY <1>3, <1>4 DEF Shown
<1>6. Pins' = Pins
  BY <1>1 DEF Pins, Cached
<1> QED
  BY <1>1, <1>3, <1>5, <1>6 DEF Contract!FlushAll

\* A crash loses what was not written and nothing else.
LEMMA RestartStore ==
  ASSUME Sound, NEW F \in SUBSET Frame, Restart(F)
  PROVE  \E S \in SUBSET Page : Contract!Restart(S)
<1>1. /\ file' = Flushed(F) /\ pageTable' = [p \in Page |-> NoFrame] /\ ret' = "ok"
  BY DEF Restart
<1>2. PICK S \in SUBSET Page : file' = Contract!Synced(S)
  BY <1>1, FlushedIsShown
<1>3. \A p \in Page : ~ Cached(p)'
  BY <1>1 DEF Cached
<1>4. Pins' = [p \in Page |-> 0]
  BY <1>3 DEF Pins
<1>5. Shown' = [p \in Page |-> file'[p]]
  BY <1>3 DEF Shown, ContentOf
<1>6. file' = [p \in Page |-> file'[p]]
  BY <1>1 DEF Flushed
<1>7. Shown' = file'
  BY <1>5, <1>6
<1>8. Contract!Restart(S)
  BY <1>1, <1>2, <1>4, <1>7 DEF Contract!Restart
<1> QED
  BY <1>8

\* Every step of the pool is one of the store, or leaves the store as it is.
LEMMA StepStore ==
  ASSUME Sound, Sound', [Next]_vars
  PROVE  [Contract!Next]_Contract!vars
<1>1. ASSUME NEW p \in Page, Request(p)
      PROVE  Contract!Fetch(p) \/ Contract!FetchFails(p)
  BY <1>1, HitStore, FreeStore, EvictStore, ThrowsStore DEF Request
<1>2. ASSUME NEW p \in Page, Release(p)
      PROVE  Contract!Release(p)
  <2> DEFINE f == pageTable[p]
  <2>1. f \in Frame /\ pinCount[f] > 0
    BY <1>2, ShownFacts DEF Release
  <2>2. /\ pinCount' = [pinCount EXCEPT ![f] = pinCount[f] - 1]
        /\ UNCHANGED <<file, frameVars>> /\ ret' = "ok"
    BY <1>2 DEF Release
  <2> QED BY <2>1, <2>2, UnpinStore
<1>3. ASSUME NEW p \in Page, ReleaseThrows(p)
      PROVE  Contract!ReleaseFails(p)
  <2>1. UNCHANGED <<file, frameVars, pinCount>> /\ ret' = "throws"
    BY <1>3 DEF ReleaseThrows
  <2>2. Pins[p] = 0
    <3>1. CASE Cached(p)
      <4>1. pinCount[pageTable[p]] \in 0 .. MaxPin
        BY <3>1, ShownFacts DEF Sound, Inv, TypeOK
      <4> QED BY <1>3, <3>1, <4>1, PinAssumption DEF ReleaseThrows, Pins
    <3>2. CASE ~ Cached(p)
      BY <3>2 DEF Pins
    <3> QED BY <3>1, <3>2
  <2>3. Shown' = Shown /\ Pins' = Pins /\ file' = file
    BY <2>1, SameShown DEF frameVars, Pins, Cached
  <2> QED BY <2>1, <2>2, <2>3 DEF Contract!ReleaseFails
<1>4. ASSUME NEW f \in Frame, Unpin(f)
      PROVE  \E p \in Page : Contract!Release(p)
  <2>1. /\ pinCount[f] > 0 /\ pinCount' = [pinCount EXCEPT ![f] = pinCount[f] - 1]
        /\ UNCHANGED <<file, frameVars>> /\ ret' = "ok"
    BY <1>4 DEF Unpin
  <2>2. pageId[f] # InvalidPage
    BY <2>1 DEF Sound, Inv, FreeListSound
  <2>3. pageId[f] \in Page /\ pageTable[pageId[f]] = f
    BY <2>2, FrameFacts
  <2> QED BY <2>1, <2>3, UnpinStore
<1>5. ASSUME NEW f \in Frame, NEW c \in Content, Write(f, c)
      PROVE  \E p \in Page : Contract!Write(p, c)
  BY <1>5, WriteStore
<1>6. ASSUME FlushAll
      PROVE  Contract!FlushAll
  BY <1>6, FlushStore
<1>7. ASSUME NEW F \in SUBSET Frame, Restart(F)
      PROVE  \E S \in SUBSET Page : Contract!Restart(S)
  BY <1>7, RestartStore
<1>8. CASE UNCHANGED vars
  BY <1>8, SameShown DEF vars, frameVars, Pins, Cached, Contract!vars
<1>9. ASSUME NEW p \in Page, Request(p) \/ Release(p) \/ ReleaseThrows(p)
      PROVE  Contract!Next
  BY Zenon, <1>1, <1>2, <1>3, <1>9 DEF Contract!Next
<1>10. ASSUME NEW f \in Frame, Unpin(f) \/ \E c \in Content : Write(f, c)
       PROVE  Contract!Next
  BY Zenon, <1>4, <1>5, <1>10 DEF Contract!Next
<1>11. ASSUME NEW F \in SUBSET Frame, Restart(F)
       PROVE  Contract!Next
  BY Zenon, <1>7, <1>11 DEF Contract!Next
<1>12. ASSUME FlushAll
       PROVE  Contract!Next
  BY Zenon, <1>6, <1>12 DEF Contract!Next
<1>13. CASE Next
  BY Zenon, <1>9, <1>10, <1>11, <1>12, <1>13 DEF Next
<1> QED
  BY <1>8, <1>13

\* Read through request(), frames, free list, clock and write-backs are a store of
\* pages: a reader is shown the last write, a request fails only when as many pages
\* are pinned as there are frames, and a crash loses what was not written back.
THEOREM PoolImplementsStore == Spec => ImplementsPageStore
<1>1. Init => Sound
  BY InitInv DEF Sound, Init, Constructed, CleanAgreesWithFile
<1>2. Sound /\ [Next]_vars => Sound'
  BY NextInv, CleanNext DEF Sound
<1>3. Sound /\ Sound' /\ [Next]_vars => [Contract!Next]_Contract!vars
  BY StepStore
<1> QED
  BY <1>1, <1>2, <1>3, InitStore, PTL DEF Spec, ImplementsPageStore, Contract!Spec

----------------------------------------------------------------------------
(* The loop of choose_victim().  Until a turn n at which a frame stops it,  *)
(* the loop has only moved the hand n frames on and cleared the bits of the *)
(* unpinned frames it passed; of the frames that could stop it, the one it  *)
(* reaches first is that with the least StopsAfter, within two laps.        *)

\* Hand, bits and pin counts as the pool has them.
ClockTypeOK ==
  /\ hand \in Frame
  /\ refBits \in [Frame -> {0, 1}]
  /\ \A f \in Frame : pinCount[f] \in Nat

\* Where the hand is after n turns, and the bits it has left, as long as no frame
\* was taken.
TurnsTo(n) ==
  IF hand + n < PoolSize THEN hand + n
  ELSE IF hand + n < Scans THEN hand + n - PoolSize ELSE hand + n - Scans

Swept(n) == [g \in Frame |-> IF g \in Unpinned /\ Distance(g) < n THEN 0 ELSE refBits[g]]

Passing(n) == [victim |-> None, hand |-> TurnsTo(n), bits |-> Swept(n)]

\* A nonempty set of natural numbers has a least element.
LEMMA LeastOf ==
  ASSUME NEW T \in SUBSET Nat, T # {}
  PROVE  \E x \in T : \A y \in T : x <= y
<1> DEFINE R == {p \in Nat \X Nat : p[1] < p[2]}
<1>1. IsWellFoundedOn(R, Nat)
  BY NatLessThanWellFounded DEF OpToRel
<1>2. PICK x \in T : \A y \in T : ~ (<<y, x>> \in R)
  BY <1>1, WFMin
<1>3. \A y \in T : x <= y
  <2> SUFFICES ASSUME NEW y \in T
               PROVE  x <= y
    OBVIOUS
  <2>1. ~ (y < x)
    BY <1>2
  <2> QED BY <2>1
<1> QED
  BY <1>2, <1>3

\* The recursion that defines the loop has a solution, so that each turn is LoopBody.
LEMMA LoopTurns ==
  ASSUME ClockTypeOK
  PROVE  /\ Walk[0] = [victim |-> None, hand |-> hand, bits |-> refBits]
         /\ \A n \in 1 .. Scans : Walk[n] = LoopBody(Walk[n - 1])
<1>1. Scans \in Nat
  BY PoolAssumption DEF Scans
<1> PICK start : start = [victim |-> None, hand |-> hand, bits |-> refBits]
  OBVIOUS
<1> DEFINE Turns(w, n) == w = [i \in 0 .. n |-> IF i = 0 THEN start ELSE LoopBody(w[i - 1])]
           Bad == {n \in Nat : ~ \E w : Turns(w, n)}
<1>2. Bad = {}
  <2> SUFFICES ASSUME Bad # {}
               PROVE  FALSE
    OBVIOUS
  <2>1. PICK n \in Bad : \A m \in Bad : n <= m
    <3>1. Bad \in SUBSET Nat
      OBVIOUS
    <3> HIDE DEF Bad
    <3> QED BY <3>1, LeastOf
  <2>2. CASE n = 0
    <3>1. Turns([i \in 0 .. 0 |-> start], 0)
      OBVIOUS
    <3> QED BY <2>1, <2>2, <3>1
  <2>3. CASE n # 0
    <3>1. n \in Nat /\ n - 1 \in Nat /\ ~ (n <= n - 1)
      BY <2>3
    <3>2. n - 1 \notin Bad
      <4> HIDE DEF Bad
      <4> QED BY <2>1, <3>1
    <3>3. PICK w : Turns(w, n - 1)
      BY <3>1, <3>2
    <3> DEFINE v == [i \in 0 .. n |-> IF i < n THEN w[i] ELSE LoopBody(w[n - 1])]
    <3>4. ASSUME NEW i \in 0 .. n
          PROVE  v[i] = IF i = 0 THEN start ELSE LoopBody(v[i - 1])
      <4>1. CASE i < n
        <5>1. i \in 0 .. n - 1 /\ (i # 0 => i - 1 \in 0 .. n /\ i - 1 < n)
          BY <3>1, <4>1
        <5>2. w[i] = IF i = 0 THEN start ELSE LoopBody(w[i - 1])
          BY <3>3, <5>1
        <5> QED BY <4>1, <5>1, <5>2
      <4>2. CASE i = n
        <5>1. n - 1 \in 0 .. n /\ n - 1 < n /\ ~ (n < n)
          BY <3>1
        <5> QED BY <2>3, <4>2, <5>1
      <4> QED BY <4>1, <4>2
    <3>5. Turns(v, n)
      BY <3>4
    <3> QED BY <2>1, <3>5
  <2> QED BY <2>2, <2>3
<1>3. PICK walk : Turns(walk, Scans)
  BY <1>1, <1>2
<1>4. Walk = CHOOSE w : w = [n \in 0 .. Scans |-> IF n = 0 THEN start ELSE LoopBody(w[n - 1])]
  BY DEF Walk
<1>5. Walk = [n \in 0 .. Scans |-> IF n = 0 THEN start ELSE LoopBody(Walk[n - 1])]
  BY <1>3, <1>4
<1> QED
  BY <1>1, <1>5

LEMMA ScansFacts == PoolSize \in Nat /\ PoolSize > 0 /\ Scans = PoolSize + PoolSize /\ Scans \in Nat
BY PoolAssumption DEF Scans

\* Turn n is at the frame whose distance is n, or n less one lap.
LEMMA TurnFacts ==
  ASSUME ClockTypeOK, NEW n \in Nat, n < Scans
  PROVE  /\ TurnsTo(n) \in Frame
         /\ n < PoolSize => Distance(TurnsTo(n)) = n
         /\ n >= PoolSize => Distance(TurnsTo(n)) = n - PoolSize
         /\ AdvanceHand(TurnsTo(n)) = TurnsTo(n + 1)
<1>1. hand \in Int /\ 0 <= hand /\ hand < PoolSize
  BY ScansFacts DEF ClockTypeOK, Frame
<1>2. TurnsTo(n) \in Frame
  BY <1>1, ScansFacts DEF TurnsTo, Frame
<1>3. n < PoolSize => Distance(TurnsTo(n)) = n
  BY <1>1, ScansFacts DEF TurnsTo, Distance
<1>4. n >= PoolSize => Distance(TurnsTo(n)) = n - PoolSize
  BY <1>1, ScansFacts DEF TurnsTo, Distance
<1>5. AdvanceHand(TurnsTo(n)) = TurnsTo(n + 1)
  BY <1>1, ScansFacts DEF TurnsTo, AdvanceHand
<1> QED
  BY <1>2, <1>3, <1>4, <1>5

\* A frame's distance is less than a lap, and tells it from the others.
LEMMA ClockFacts ==
  ASSUME ClockTypeOK
  PROVE  /\ \A f \in Frame : Distance(f) \in 0 .. PoolSize - 1 /\ refBits[f] \in {0, 1}
         /\ \A f, g \in Frame : Distance(f) = Distance(g) => f = g
         /\ \A f \in Frame : StopsAfter(f) \in Nat /\ StopsAfter(f) < Scans
<1>1. hand \in Int /\ 0 <= hand /\ hand < PoolSize
  BY ScansFacts DEF ClockTypeOK, Frame
<1>2. \A f \in Frame : Distance(f) \in 0 .. PoolSize - 1 /\ refBits[f] \in {0, 1}
  BY <1>1, ScansFacts DEF Distance, Frame, ClockTypeOK
<1>3. \A f, g \in Frame : Distance(f) = Distance(g) => f = g
  BY <1>1, ScansFacts DEF Distance, Frame
<1>4. \A f \in Frame : StopsAfter(f) \in Nat /\ StopsAfter(f) < Scans
  BY <1>2, ScansFacts DEF StopsAfter
<1> QED
  BY <1>2, <1>3, <1>4

\* A turn at which no frame stops only moves the hand and clears the bit it passes.
LEMMA PassingTurn ==
  ASSUME ClockTypeOK, NEW n \in Nat, n < Scans,
         \A g \in Unpinned : StopsAfter(g) >= n + 1
  PROVE  LoopBody(Passing(n)) = Passing(n + 1)
<1> PICK g : g = TurnsTo(n)
  OBVIOUS
<1>1. /\ g \in Frame
      /\ n < PoolSize => Distance(g) = n
      /\ n >= PoolSize => Distance(g) = n - PoolSize
      /\ AdvanceHand(g) = TurnsTo(n + 1)
  BY TurnFacts
<1>2. \A f \in Frame : /\ Distance(f) \in 0 .. PoolSize - 1 /\ refBits[f] \in {0, 1}
                       /\ Distance(f) = Distance(g) => f = g
  BY <1>1, ClockFacts
<1>3. g \in Unpinned => n < PoolSize /\ refBits[g] = 1
  <2> SUFFICES ASSUME g \in Unpinned
               PROVE  n < PoolSize /\ refBits[g] = 1
    OBVIOUS
  <2>1. Distance(g) + (IF refBits[g] = 1 THEN PoolSize ELSE 0) >= n + 1
    BY DEF StopsAfter
  <2> QED BY <2>1, <1>1, <1>2, ScansFacts
<1>4. g \in Unpinned <=> pinCount[g] = 0
  BY <1>1 DEF Unpinned
<1>5. Swept(n)[g] = 0 => g \notin Unpinned
  BY <1>1, <1>3, ScansFacts DEF Swept
<1>6. Swept(n + 1) = [Swept(n) EXCEPT ![g] = IF pinCount[g] = 0 THEN 0 ELSE @]
  <2>1. ASSUME NEW f \in Frame, f # g, f \in Unpinned
        PROVE  Distance(f) < n + 1 <=> Distance(f) < n
    BY <2>1, <1>1, <1>2, ScansFacts
  <2>2. \A f \in Frame : f # g => Swept(n + 1)[f] = Swept(n)[f]
    BY <2>1 DEF Swept
  <2>3. g \in Unpinned => Swept(n + 1)[g] = 0
    BY <1>1, <1>3 DEF Swept
  <2>4. g \notin Unpinned => Swept(n + 1)[g] = Swept(n)[g]
    BY <1>1 DEF Swept
  <2>5. Swept(n) = [f \in Frame |-> Swept(n)[f]] /\ Swept(n + 1) = [f \in Frame |-> Swept(n + 1)[f]]
    BY DEF Swept
  <2> QED BY <1>1, <1>4, <2>2, <2>3, <2>4, <2>5
<1>7. Passing(n).victim = None /\ Passing(n).hand = g /\ Passing(n).bits = Swept(n)
  BY DEF Passing
<1>8. LoopBody(Passing(n)) = [Passing(n) EXCEPT !.hand = AdvanceHand(@),
                                !.bits[Passing(n).hand] = IF pinCount[Passing(n).hand] = 0 THEN 0 ELSE @]
  BY <1>4, <1>5, <1>7 DEF LoopBody
<1>9. LoopBody(Passing(n)) = [victim |-> None, hand |-> AdvanceHand(g),
                              bits |-> [Swept(n) EXCEPT ![g] = IF pinCount[g] = 0 THEN 0 ELSE @]]
  BY <1>8 DEF Passing
<1> QED
  BY <1>1, <1>6, <1>9 DEF Passing

\* As long as no frame stops it, the loop passes.
LEMMA PassesUntil ==
  ASSUME ClockTypeOK, NEW n \in 0 .. Scans, \A g \in Unpinned : StopsAfter(g) >= n
  PROVE  Walk[n] = Passing(n)
<1> DEFINE Bad == {m \in Nat : m <= n /\ Walk[m] # Passing(m)}
<1>1. Bad = {}
  <2> SUFFICES ASSUME Bad # {}
               PROVE  FALSE
    OBVIOUS
  <2>1. PICK m \in Bad : \A k \in Bad : m <= k
    <3>1. Bad \in SUBSET Nat
      OBVIOUS
    <3> HIDE DEF Bad
    <3> QED BY <3>1, LeastOf
  <2>2. m \in Nat /\ m <= n /\ Walk[m] # Passing(m) /\ m <= Scans
    BY <2>1, ScansFacts
  <2>3. Passing(0) = [victim |-> None, hand |-> hand, bits |-> refBits]
    <3>1. TurnsTo(0) = hand
      BY ScansFacts DEF TurnsTo, ClockTypeOK, Frame
    <3>2. \A g \in Frame : ~ (Distance(g) < 0)
      BY ClockFacts, ScansFacts
    <3>3. Swept(0) = refBits
      BY <3>2 DEF Swept, ClockTypeOK
    <3> QED BY <3>1, <3>3 DEF Passing
  <2>4. m # 0
    BY <2>2, <2>3, LoopTurns
  <2>5. m - 1 \in Nat /\ m - 1 < Scans /\ m - 1 <= n /\ ~ (m <= m - 1) /\ (m - 1) + 1 = m
        /\ m \in 1 .. Scans
    BY <2>2, <2>4, ScansFacts
  <2>6. Walk[m - 1] = Passing(m - 1)
    <3> HIDE DEF Bad
    <3>1. m - 1 \notin Bad
      BY <2>1, <2>5
    <3> QED BY <3>1, <2>5 DEF Bad
  <2>7. \A g \in Unpinned : StopsAfter(g) >= (m - 1) + 1
    <3>1. \A g \in Unpinned : StopsAfter(g) \in Nat
      BY ClockFacts DEF Unpinned
    <3> QED BY <3>1, <2>2, <2>5
  <2>8. LoopBody(Passing(m - 1)) = Passing((m - 1) + 1)
    BY <2>5, <2>7, PassingTurn
  <2> QED BY <2>2, <2>5, <2>6, <2>8, LoopTurns
<1> QED
  BY <1>1, ScansFacts

\* The frame that stops the loop keeps being its victim.
LEMMA Stopped ==
  ASSUME ClockTypeOK, NEW k \in Nat, k < Scans, Walk[k] = Passing(k),
         NEW f \in Unpinned, TurnsTo(k) = f, Swept(k)[f] = 0
  PROVE  Walk[Scans] = [victim |-> f, hand |-> f, bits |-> Swept(k)]
<1> PICK v : v = [victim |-> f, hand |-> f, bits |-> Swept(k)]
  OBVIOUS
<1>1. Walk[k + 1] = v
  <2>1. k + 1 \in 1 .. Scans /\ (k + 1) - 1 = k
    BY ScansFacts
  <2>2. Walk[k + 1] = LoopBody(Passing(k))
    BY <2>1, LoopTurns
  <2>3. pinCount[f] = 0
    BY DEF Unpinned
  <2>4. LoopBody(Passing(k)) = [Passing(k) EXCEPT !.victim = Passing(k).hand]
    BY <2>3 DEF LoopBody, Passing
  <2> QED BY <2>2, <2>4 DEF Passing
<1> DEFINE Bad == {m \in Nat : k < m /\ m <= Scans /\ Walk[m] # v}
<1>2. Bad = {}
  <2> SUFFICES ASSUME Bad # {}
               PROVE  FALSE
    OBVIOUS
  <2>1. PICK m \in Bad : \A j \in Bad : m <= j
    <3>1. Bad \in SUBSET Nat
      OBVIOUS
    <3> HIDE DEF Bad
    <3> QED BY <3>1, LeastOf
  <2>2. m \in 1 .. Scans /\ m - 1 \in Nat /\ k < m - 1 /\ m - 1 <= Scans /\ ~ (m <= m - 1)
    BY <1>1, <2>1, ScansFacts
  <2>3. Walk[m - 1] = v
    <3> HIDE DEF Bad
    <3>1. m - 1 \notin Bad
      BY <2>1, <2>2
    <3> QED BY <3>1, <2>2 DEF Bad
  <2>4. Walk[m] = LoopBody(v)
    BY <2>2, <2>3, LoopTurns
  <2>5. v.victim # None
    BY ScansFacts DEF Frame, None, Unpinned
  <2>6. LoopBody(v) = v
    BY <2>5 DEF LoopBody
  <2> QED BY <2>1, <2>4, <2>6
<1> QED
  BY <1>2, ScansFacts

\* Two laps are enough, and end where ClockPolicy says.
LEMMA LoopAgrees ==
  ASSUME ClockTypeOK
  PROVE  LoopStopsWhereStated
<1>1. \A f \in Frame : StopsAfter(f) \in Nat /\ StopsAfter(f) < Scans
  BY ClockFacts
<1>2. CASE NoVictim
  <2>1. Unpinned = {} /\ Scans \in 0 .. Scans
    BY <1>2, ScansFacts DEF NoVictim
  <2>2. Walk[Scans] = Passing(Scans)
    BY <2>1, PassesUntil
  <2>3. TurnsTo(Scans) = hand
    BY ScansFacts DEF TurnsTo, ClockTypeOK, Frame
  <2>4. Swept(Scans) = refBits
    BY <2>1 DEF Swept, ClockTypeOK
  <2> QED BY <1>2, <2>2, <2>3, <2>4 DEF LoopStopsWhereStated, ChosenByLoop, Passing
<1>3. CASE ~ NoVictim
  <2> DEFINE Stops == {StopsAfter(g) : g \in Unpinned}
  <2>1. Stops \in SUBSET Nat /\ Stops # {}
    BY <1>1, <1>3 DEF Unpinned, NoVictim
  <2>2. PICK k \in Stops : \A j \in Stops : k <= j
    <3> HIDE DEF Stops
    <3> QED BY <2>1, LeastOf
  <2>3. PICK f \in Unpinned : StopsAfter(f) = k
    BY <2>2
  <2>4. f \in Frame /\ k \in Nat /\ k < Scans /\ k \in 0 .. Scans
    BY <1>1, <2>3, ScansFacts DEF Unpinned
  <2>5. \A g \in Unpinned : k <= StopsAfter(g)
    BY <2>2
  <2>6. Walk[k] = Passing(k)
    <3>1. \A g \in Unpinned : StopsAfter(g) >= k
      BY <1>1, <2>4, <2>5 DEF Unpinned
    <3> QED BY <2>4, <3>1, PassesUntil
  <2>7. Distance(f) \in 0 .. PoolSize - 1 /\ refBits[f] \in {0, 1}
    BY <2>4, ClockFacts
  <2>8. k = Distance(f) + (IF refBits[f] = 1 THEN PoolSize ELSE 0)
    BY <2>3 DEF StopsAfter
  <2>9. TurnsTo(k) = f
    <3>1. Distance(TurnsTo(k)) = Distance(f)
      <4>1. k < PoolSize => Distance(TurnsTo(k)) = k
        BY <2>4, TurnFacts
      <4>2. k >= PoolSize => Distance(TurnsTo(k)) = k - PoolSize
        BY <2>4, TurnFacts
      <4> QED BY <2>7, <2>8, <4>1, <4>2, ScansFacts
    <3>2. TurnsTo(k) \in Frame
      BY <2>4, TurnFacts
    <3> QED BY <2>4, <3>1, <3>2, ClockFacts
  <2>10. Swept(k)[f] = 0
    <3>1. refBits[f] = 1 => Distance(f) < k
      BY <2>7, <2>8, ScansFacts
    <3> QED BY <2>4, <2>7, <3>1 DEF Swept
  <2>11. Walk[Scans] = [victim |-> f, hand |-> f, bits |-> Swept(k)]
    BY <2>4, <2>6, <2>9, <2>10, Stopped
  <2>12. Swept(k) = SweptTo(f)
    BY <2>3 DEF Swept, SweptTo
  <2> QED BY <1>3, <2>3, <2>5, <2>11, <2>12 DEF LoopStopsWhereStated, ChosenByLoop
<1> QED
  BY <1>2, <1>3

\* Two laps of choose_victim() find the frame that ClockPolicy states, for any
\* number of frames, and leave the hand and the bits that it states.
THEOREM LoopIsThePolicy == Spec => []LoopStopsWhereStated
<1>1. TypeOK => ClockTypeOK
  BY DEF TypeOK, ClockTypeOK
<1>2. TypeOK => LoopStopsWhereStated
  BY <1>1, LoopAgrees
<1> QED
  BY <1>2, PoolTypeCorrect, PTL

----------------------------------------------------------------------------
(* The scan of HeapScan over the pool.  Its pins are its own and the other  *)
(* caller's, never both: each of the two holds one page at a time.  That it *)
(* only reads keeps every frame equal to the file, so that the pages it is  *)
(* led to are those of the heap.                                            *)

\* The pool holds clean copies of the heap on disk.
CopiesOfDisk ==
  /\ file = OnDisk
  /\ \A f \in Frame : ~ dirty[f]
  /\ \A f \in Frame : pageId[f] # InvalidPage => data[f] = OnDisk[pageId[f]]

AllUnpinned == \A f \in Frame : pinCount[f] = 0

\* The page p is pinned once, and nothing else is.
OnlyPin(p) ==
  Cached(p) /\ \A f \in Frame : pinCount[f] = IF f = pageTable[p] THEN 1 ELSE 0

ScanInv ==
  /\ Inv /\ CopiesOfDisk
  /\ pc \in {"idle", "advance", "getNext", "getDeref", "inspect", "other"}
  /\ currPage \in Page \cup {InvalidPage}
  /\ hasNext => currPage \in Page /\ pc # "inspect"
  /\ pc \in {"idle", "advance"} => AllUnpinned
  /\ pc \in {"getNext", "getDeref", "inspect"} => currPage \in Page /\ OnlyPin(currPage)
  /\ pc = "other" => \E p \in Page : OnlyPin(p)

\* A load into an unpinned frame, free or evicted, of a page that is not cached.
LEMMA LoadsCopy ==
  ASSUME Inv, CopiesOfDisk, AllUnpinned, NEW p \in Page, NEW f \in Frame,
         ~ Cached(p), file' = file, Pin(f), Read(file, p, f, Unmapped(f)), Inv'
  PROVE  CopiesOfDisk' /\ OnlyPin(p)'
<1>1. /\ data' = [data EXCEPT ![f] = ReadPage(file, p, @)]
      /\ pageTable'[p] = f
      /\ pageId' = [pageId EXCEPT ![f] = p]
      /\ dirty' = [dirty EXCEPT ![f] = FALSE]
      /\ pinCount' = [pinCount EXCEPT ![f] = @ + 1]
  BY DEF Read, Pin, Unmapped
<1>2. ReadPage(file, p, data[f]) = OnDisk[p]
  BY OnDiskAssumption, ContentAssumption DEF CopiesOfDisk, ReadPage
<1>3. CopiesOfDisk'
  <2>1. \A g \in Frame : ~ dirty'[g]
    BY <1>1 DEF CopiesOfDisk, Inv, TypeOK
  <2>2. \A g \in Frame : pageId'[g] # InvalidPage => data'[g] = OnDisk[pageId'[g]]
    BY <1>1, <1>2 DEF CopiesOfDisk, Inv, TypeOK
  <2> QED
    BY <2>1, <2>2 DEF CopiesOfDisk
<1>4. OnlyPin(p)'
  BY <1>1, ConstantFacts DEF OnlyPin, AllUnpinned, Cached, Inv, TypeOK
<1> QED
  BY <1>3, <1>4

\* A request of a scan, or of its caller between two calls, is never refused.
LEMMA ScanRequests ==
  ASSUME Inv, CopiesOfDisk, AllUnpinned, NEW p \in Page, Request(p)
  PROVE  Inv' /\ CopiesOfDisk' /\ OnlyPin(p)' /\ ret' = "ok"
<1>1. Inv'
  BY NextInv DEF Next
<1>2. CASE RequestHit(p)
  <2>1. /\ Cached(p) /\ pageTable[p] \in Frame
        /\ pinCount' = [pinCount EXCEPT ![pageTable[p]] = @ + 1]
        /\ UNCHANGED <<file, pageTable, pageId, dirty, data>> /\ ret' = "ok"
    BY <1>2 DEF RequestHit, Pin, frameVars, Cached, Inv, TypeOK
  <2>2. OnlyPin(p)'
    BY <2>1 DEF OnlyPin, AllUnpinned, Cached, Inv, TypeOK
  <2>3. CopiesOfDisk'
    BY <2>1 DEF CopiesOfDisk
  <2> QED
    BY <1>1, <2>1, <2>2, <2>3
<1>3. CASE RequestFree(p)
  <2>1. PICK f : f = freeList[Len(freeList)]
    OBVIOUS
  <2>2. f \in Frame /\ pageId[f] = InvalidPage
    <3>1. freeList \in Seq(Frame) /\ freeList # <<>>
      BY <1>3 DEF RequestFree, Inv, TypeOK
    <3>2. Len(freeList) \in 1 .. Len(freeList)
      BY <3>1
    <3>3. f \in Frame
      BY <2>1, <3>1, <3>2
    <3> QED
      BY <2>1, <3>2, <3>3 DEF Inv, FreeListSound
  <2>3. Unmapped(f) = pageTable
    BY <2>2, ConstantFacts DEF Unmapped, Inv, TypeOK
  <2>4. /\ ~ Cached(p) /\ Pin(f) /\ Read(file, p, f, Unmapped(f))
        /\ file' = file /\ ret' = "ok"
    BY <1>3, <2>1, <2>3 DEF RequestFree
  <2> QED
    BY <1>1, <2>2, <2>4, LoadsCopy
<1>4. CASE RequestThrows(p)
  <2>1. Unpinned = Frame /\ Frame # {}
    BY ConstantFacts DEF AllUnpinned, Unpinned
  <2> QED
    BY <1>4, <2>1 DEF RequestThrows, NoVictim
<1>5. ASSUME NEW f \in Frame, RequestEvict(p, f)
      PROVE  CopiesOfDisk' /\ OnlyPin(p)' /\ ret' = "ok"
  <2>1. file' = file
    <3>1. \A q \in Page : Flushed({f})[q] = file[q]
      BY DEF Flushed, CopiesOfDisk
    <3>2. Flushed({f}) = [q \in Page |-> file[q]]
      BY <3>1 DEF Flushed
    <3> QED
      BY <1>5, <3>2 DEF RequestEvict, Inv, TypeOK
  <2>2. ~ Cached(p) /\ Pin(f) /\ Read(file, p, f, Unmapped(f)) /\ ret' = "ok"
    BY <1>5, <2>1 DEF RequestEvict
  <2> QED
    BY <1>1, <2>1, <2>2, LoadsCopy
<1> QED
  BY <1>1, <1>2, <1>3, <1>4, <1>5 DEF Request

\* The release of the one page that is pinned.
LEMMA ScanReleases ==
  ASSUME Inv, CopiesOfDisk, NEW p \in Page, OnlyPin(p), NEW q \in Page, Release(q)
  PROVE  Inv' /\ CopiesOfDisk' /\ AllUnpinned'
<1>1. Inv'
  BY NextInv DEF Next
<1>2. /\ pageTable[q] \in Frame /\ pinCount[pageTable[q]] > 0
      /\ pinCount' = [pinCount EXCEPT ![pageTable[q]] = @ - 1]
      /\ UNCHANGED <<file, pageId, dirty, data>>
  BY DEF Release, frameVars, Cached, Inv, TypeOK
<1>3. pageTable[q] = pageTable[p] /\ pinCount[pageTable[q]] = 1
  BY <1>2 DEF OnlyPin
<1>4. AllUnpinned'
  BY <1>2, <1>3 DEF OnlyPin, AllUnpinned, Inv, TypeOK
<1>5. CopiesOfDisk'
  BY <1>2 DEF CopiesOfDisk
<1> QED
  BY <1>1, <1>4, <1>5

LEMMA ScanInitInv == ScanInit => ScanInv
<1> SUFFICES ASSUME ScanInit PROVE ScanInv
  OBVIOUS
<1>1. Inv
  <2>1. freeList = [i \in 1 .. PoolSize |-> i - 1]
    BY DEF ScanInit, Constructed
  <2>2. TypeOK
    <3>1. file \in [Page -> Buffer \cup {Unwritten}]
      BY OnDiskAssumption DEF ScanInit, Buffer
    <3> QED BY <3>1, ConstructedTyped DEF ScanInit
  <2>3. PageTableCoherent
    BY DEF ScanInit, Constructed, PageTableCoherent, Cached
  <2>4. FreeListSound
    BY <2>1, FullFreeList DEF ScanInit, Constructed, FreeListSound
  <2> QED
    BY <2>2, <2>3, <2>4 DEF Inv
<1>2. CopiesOfDisk /\ AllUnpinned
  BY DEF ScanInit, Constructed, CopiesOfDisk, AllUnpinned
<1> QED
  BY <1>1, <1>2 DEF ScanInit, ScanInv

\* A request with which a call of the scan, or its caller, goes on.
LEMMA RequestsInv ==
  ASSUME ScanInv, NEW p \in Page, NEW next, Requests(p, next), AllUnpinned
  PROVE  Inv' /\ CopiesOfDisk' /\ OnlyPin(p)' /\ pc' = next
BY ScanRequests DEF ScanInv, Requests

LEMMA ScanNextInv == ScanInv /\ [ScanNext]_scanVars => ScanInv'
<1> SUFFICES ASSUME ScanInv, [ScanNext]_scanVars
             PROVE  ScanInv'
  OBVIOUS
<1>1. CASE Begin
  BY <1>1, OnDiskAssumption DEF Begin, vars, frameVars, clockVars, ScanInv, Inv, TypeOK,
     PageTableCoherent, FreeListSound, CopiesOfDisk, AllUnpinned, Cached
<1>2. CASE Increment
  BY <1>2 DEF Increment, vars, frameVars, clockVars, ScanInv, Inv, TypeOK,
     PageTableCoherent, FreeListSound, CopiesOfDisk, AllUnpinned, Cached
<1>3. CASE AdvanceEnds
  BY <1>3 DEF AdvanceEnds, vars, frameVars, clockVars, ScanInv, Inv, TypeOK,
     PageTableCoherent, FreeListSound, CopiesOfDisk, AllUnpinned, Cached
<1>4. CASE NextRequest \/ DerefRequest
  <2>1. currPage \in Page /\ AllUnpinned /\ UNCHANGED <<currPage, hasNext>>
    BY <1>4 DEF NextRequest, DerefRequest, iterVars, ScanInv
  <2>2. Inv' /\ CopiesOfDisk' /\ OnlyPin(currPage)' /\ pc' \in {"getNext", "getDeref"}
    BY <1>4, <2>1, RequestsInv DEF NextRequest, DerefRequest
  <2> QED
    BY <2>1, <2>2 DEF ScanInv, OnlyPin
<1>5. CASE AdvanceRequest
  <2>1. /\ currPage \in Page /\ AllUnpinned /\ currPage' = currPage /\ hasNext' = FALSE
        /\ Requests(currPage, "inspect")
    BY <1>5 DEF AdvanceRequest, ScanInv
  <2>2. Inv' /\ CopiesOfDisk' /\ OnlyPin(currPage)' /\ pc' = "inspect"
    BY <2>1, RequestsInv
  <2> QED
    BY <2>1, <2>2 DEF ScanInv, OnlyPin
<1>6. CASE OtherRequest
  <2>1. AllUnpinned /\ UNCHANGED <<currPage, hasNext>>
    BY <1>6 DEF OtherRequest, ScanInv
  <2>2. PICK p \in Page : Requests(p, "other")
    BY <1>6 DEF OtherRequest
  <2>3. Inv' /\ CopiesOfDisk' /\ OnlyPin(p)' /\ pc' = "other"
    BY <2>1, <2>2, RequestsInv
  <2>4. (\E q \in Page : OnlyPin(q))'
    BY <2>3
  <2> QED
    BY <2>1, <2>3, <2>4 DEF ScanInv
<1>7. CASE DerefRelease \/ NextRelease \/ AdvanceFound
  <2>1. /\ currPage \in Page /\ OnlyPin(currPage) /\ Release(currPage)
        /\ currPage' = currPage /\ pc' \in {"idle", "advance"}
    BY <1>7 DEF DerefRelease, NextRelease, AdvanceFound, ScanInv
  <2>2. Inv' /\ CopiesOfDisk' /\ AllUnpinned'
    BY <2>1, ScanReleases DEF ScanInv
  <2> QED
    BY <2>1, <2>2 DEF ScanInv
<1>8. CASE AdvanceToNextPage
  <2>1. /\ currPage \in Page /\ OnlyPin(currPage) /\ Release(currPage)
        /\ currPage' = data[pageTable[currPage]].next /\ ~ hasNext'
        /\ pc' = "advance"
    BY <1>8 DEF AdvanceToNextPage, ScanInv
  <2>2. Inv' /\ CopiesOfDisk' /\ AllUnpinned'
    BY <2>1, ScanReleases DEF ScanInv
  <2>3. data[pageTable[currPage]] = OnDisk[currPage]
    BY <2>1, ConstantFacts
    DEF ScanInv, Inv, TypeOK, PageTableCoherent, CopiesOfDisk, OnlyPin, Cached
  <2>4. currPage' \in Page \cup {InvalidPage}
    BY <2>1, <2>3, OnDiskAssumption
  <2> QED
    BY <2>1, <2>2, <2>4 DEF ScanInv
<1>9. CASE OtherRelease
  <2>1. PICK p \in Page : OnlyPin(p)
    BY <1>9 DEF OtherRelease, ScanInv
  <2>2. Inv' /\ CopiesOfDisk' /\ AllUnpinned'
    BY <1>9, <2>1, ScanReleases DEF OtherRelease, ScanInv
  <2>3. pc' = "idle" /\ currPage' = currPage /\ hasNext' = hasNext
    BY <1>9 DEF OtherRelease, iterVars
  <2> QED
    BY <2>2, <2>3 DEF ScanInv
<1>10. CASE UNCHANGED scanVars
  BY <1>10 DEF scanVars, iterVars, vars, frameVars, clockVars, ScanInv, Inv, TypeOK,
     PageTableCoherent, FreeListSound, CopiesOfDisk, AllUnpinned, OnlyPin, Cached
<1> QED
  BY <1>1, <1>2, <1>3, <1>4, <1>5, <1>6, <1>7, <1>8, <1>9, <1>10 DEF ScanNext, InCall

\* Between two calls of a scan nothing is pinned, within one at most one page is,
\* once, and no request() of it throws, whatever the heap, the pool and the pages
\* the caller looks at in between.
THEOREM ScansLeakNoPin == ScanSpec => []NoPinLeak
<1>1. ScanInv => NoPinLeak
  BY ConstantFacts DEF ScanInv, AllUnpinned, OnlyPin, NoPinLeak
<1> QED
  BY <1>1, ScanInitInv, ScanNextInv, PTL DEF ScanSpec
=============================================================================
