----------------------- MODULE HeapHistories_proofs ------------------------
(***************************************************************************)
(* The heaps of HeapFile_proofs over the time of more than one call: what  *)
(* a crash leaves of them, and what a scan returns among the calls of its  *)
(* caller.  The two parts share only the facts about the heaps.            *)
(***************************************************************************)
EXTENDS HeapRecovery, HeapIterator, HeapFile_proofs

(***************************************************************************)
(* Crashes, for any number of heaps, pages and records.  The file is an    *)
(* older version of what request() shows: its links are links of content,  *)
(* though not all of them.  What was flushed is reached by links that were *)
(* flushed with it, and links are never moved; so it is reached from the   *)
(* file alone, whatever was lost with the process.                         *)
(***************************************************************************)

OnFile(p) == file[p] # Unwritten
FileLeads(p, q) == OnFile(p) /\ file[p].next = q

\* The pages that links in the file reach from x: those in every set that has x
\* and the successors of its pages.
FileReach(x) ==
  {p \in Page : \A S \in SUBSET Page :
     (x \in S /\ \A a, b \in Page : (a \in S /\ FileLeads(a, b)) => b \in S) => p \in S}

HeapsSound ==
  /\ Linked
  /\ nextPageId \in 0 .. MaxPages
  /\ first \in [Heap -> Page \cup {InvalidPage}]
  /\ \A p \in Page : Exists(p) => p < nextPageId
  /\ \A h \in Heap : first[h] # InvalidPage => Exists(first[h])

FileOlder ==
  /\ file \in [Page -> HeapPage \cup {Unwritten}]
  /\ \A p \in Page : OnFile(p) =>
       /\ Exists(p)
       /\ file[p].next # InvalidPage => content[p].next = file[p].next

KeptOnFile ==
  \A r \in kept :
    /\ r \in UsedRIDs /\ OnFile(r[1])
    /\ r[2] \in 0 .. file[r[1]].page.n - 1
    /\ RecordAt(r) = file[r[1]].page.recs[r[2]]

KeptReached ==
  \A r \in kept, h \in Heap :
    r[1] \in Chain(first[h]) => OnFile(first[h]) /\ r[1] \in FileReach(first[h])

CrashInv == HeapsSound /\ FileOlder /\ KeptOnFile /\ KeptReached

----------------------------------------------------------------------------
(* What a call does to pages, links, first pages and records.              *)

Effects ==
  /\ Linked'
  /\ nextPageId' \in 0 .. MaxPages /\ nextPageId <= nextPageId'
  /\ first' \in [Heap -> Page \cup {InvalidPage}]
  /\ \A p \in Page : Exists(p) => Exists(p)'
  /\ \A p \in Page : Exists(p)' => p < nextPageId'
  /\ \A p, q \in Page : Leads(p, q) => Leads(p, q)'
  /\ \A p, q \in Page : Leads(p, q)' => q >= nextPageId \/ Leads(p, q)
  /\ \A h \in Heap :
       \/ first'[h] = first[h]
       \/ first[h] = InvalidPage /\ first'[h] >= nextPageId /\ Exists(first[h])'

Keeps(r) == r \in UsedRIDs' /\ RecordAt(r)' = RecordAt(r)

\* A record that is where it was, on a page that has its slot.
LEMMA IsKept ==
  ASSUME NEW p \in Page, NEW s \in Slots(p), s \in Slots(p)',
         content'[p].page.recs[s] = content[p].page.recs[s]
  PROVE  Keeps(<<p, s>>)
<1>1. Page' = Page
  BY DEF Page
<1> QED
  BY <1>1, RIDsNext DEF Keeps, RecordAt

\* Records of one page change.
LEMMA PageEffects ==
  ASSUME HeapsSound, NEW p \in Page, Exists(p), NEW pg \in RecordsPage,
         content' = [content EXCEPT ![p].page = pg], UNCHANGED <<nextPageId, first>>
  PROVE  /\ Effects /\ content'[p].page = pg
         /\ \A q \in Page \ {p} : \A s \in Slots(q) : Keeps(<<q, s>>)
<1>1. content \in [Page -> HeapPage \cup {Unwritten, Zero}] /\ content[p] \in HeapPage
  BY DEF HeapsSound, Linked, Exists
<1>2. /\ content' \in [Page -> HeapPage \cup {Unwritten, Zero}]
      /\ content'[p] \in HeapPage /\ content'[p].page = pg /\ content'[p].next = content[p].next
      /\ \A q \in Page \ {p} : content'[q] = content[q]
  BY <1>1 DEF HeapPage
<1>3. \A q \in Page : /\ Exists(q)' <=> Exists(q)
                      /\ Exists(q) => content'[q].next = content[q].next
  BY <1>1, <1>2, UnwrittenAssumption DEF Exists
<1>4. Linked'
  BY <1>2, <1>3 DEF HeapsSound, Linked, LinksForward, Page
<1>5. \A a, b \in Page : Leads(a, b)' <=> Leads(a, b)
  BY <1>3 DEF Leads
<1>6. nextPageId' \in 0 .. MaxPages /\ nextPageId <= nextPageId'
  BY HeapAssumption DEF HeapsSound
<1>7. Effects
  BY <1>3, <1>4, <1>5, <1>6 DEF Effects, HeapsSound
<1>8. ASSUME NEW q \in Page \ {p}, NEW s \in Slots(q)
      PROVE  Keeps(<<q, s>>)
  BY <1>2, <1>8, IsKept DEF Slots, Exists
<1> QED
  BY <1>2, <1>7, <1>8

\* A heap is given its first page.
LEMMA FirstPageEffects ==
  ASSUME HeapsSound, NEW h \in Heap, first[h] = InvalidPage, nextPageId < MaxPages,
         NEW page \in HeapPage, page.next = InvalidPage,
         first' = [first EXCEPT ![h] = nextPageId],
         content' = [content EXCEPT ![nextPageId] = page],
         nextPageId' = nextPageId + 1
  PROVE  Effects /\ \A r \in UsedRIDs : Keeps(r)
<1>1. nextPageId \in Page
  BY HeapAssumption DEF HeapsSound, Page
<1> PICK n \in Page : n = nextPageId
  BY <1>1
<1>2. /\ ~ Exists(n) /\ n \in Nat /\ n + 1 \in 0 .. MaxPages
      /\ content \in [Page -> HeapPage \cup {Unwritten, Zero}]
  BY HeapAssumption, PageFacts DEF HeapsSound, Linked
<1>3. /\ content' \in [Page -> HeapPage \cup {Unwritten, Zero}]
      /\ content'[n] = page
      /\ \A q \in Page \ {n} : content'[q] = content[q]
  BY <1>2
<1>4. \A q \in Page : /\ Exists(q)' <=> Exists(q) \/ q = n
                      /\ Exists(q) => content'[q] = content[q]
  BY <1>2, <1>3, UnwrittenAssumption DEF Exists
<1>5. Linked'
  BY <1>3, <1>4 DEF HeapsSound, Linked, LinksForward, Page
<1>6. \A a, b \in Page : Leads(a, b)' <=> Leads(a, b)
  BY <1>2, <1>3, <1>4, PageFacts DEF Leads
<1>7. /\ first' \in [Heap -> Page \cup {InvalidPage}] /\ first'[h] = n
      /\ \A g \in Heap \ {h} : first'[g] = first[g]
  BY DEF HeapsSound
<1>8. nextPageId' \in 0 .. MaxPages /\ nextPageId <= nextPageId' /\ n < nextPageId'
  BY <1>2
<1>9. \A p \in Page : Exists(p)' => p < nextPageId'
  BY <1>2, <1>4, PageFacts DEF HeapsSound
<1>10. n >= nextPageId
  BY <1>2
<1>11. \A g \in Heap :
        \/ first'[g] = first[g]
        \/ first[g] = InvalidPage /\ first'[g] >= nextPageId /\ Exists(first[g])'
  BY <1>4, <1>7, <1>10
<1>12. Effects
  BY <1>4, <1>5, <1>6, <1>7, <1>8, <1>9, <1>11 DEF Effects
<1>13. ASSUME NEW r \in UsedRIDs
       PROVE  Keeps(r)
  <2>1. PICK p \in Page : \E s \in Slots(p) : r = <<p, s>>
    BY RIDs
  <2>2. Exists(p)
    BY <2>1 DEF Slots
  <2>3. content'[p] = content[p] /\ Slots(p)' = Slots(p)
    BY <1>4, <2>2 DEF Slots
  <2> QED BY <2>1, <2>3, IsKept
<1> QED
  BY <1>12, <1>13

\* A heap is given two pages at once.
LEMMA RefusedEffects ==
  ASSUME HeapsSound, NEW h \in Heap, NEW d \in Data, RefusedCreates(h, d)
  PROVE  Effects /\ \A r \in UsedRIDs : Keeps(r)
<1>1. /\ nextPageId \in Page /\ nextPageId + 1 \in Page /\ nextPageId + 2 \in 0 .. MaxPages
      /\ nextPageId \in Nat
  BY HeapAssumption DEF HeapsSound, Page, RefusedCreates
<1> PICK n \in Page : n = nextPageId
  BY <1>1
<1>2. n + 1 \in Page /\ n + 1 # n /\ n \in Nat
  BY <1>1
<1> PICK m \in Page : m = n + 1
  BY <1>2
<1>3. /\ ~ Exists(n) /\ ~ Exists(m) /\ n # m /\ m > n
      /\ content \in [Page -> HeapPage \cup {Unwritten, Zero}]
      /\ first[h] = InvalidPage /\ first' = [first EXCEPT ![h] = n] /\ nextPageId' = n + 2
  BY <1>1, <1>2 DEF HeapsSound, Linked, RefusedCreates
<1>4. /\ content'[n] = [FreshPage EXCEPT !.next = m] /\ content'[m] = FreshPage
      /\ \A q \in Page \ {n, m} : content'[q] = content[q]
      /\ DOMAIN content' = Page
  BY <1>1, <1>2, <1>3 DEF RefusedCreates
<1>5. /\ content'[n] \in HeapPage /\ content'[m] \in HeapPage
      /\ content'[n].next = m /\ content'[m].next = InvalidPage
  BY <1>4, FreshPageType, EmptyPageType DEF FreshPage, HeapPage
<1>6. content' \in [Page -> HeapPage \cup {Unwritten, Zero}]
  <2>1. content' = [content EXCEPT ![n] = content'[n], ![m] = content'[m]]
    BY <1>1, <1>2, <1>3, <1>4 DEF RefusedCreates
  <2> QED BY <1>3, <1>5, <2>1
<1>7. \A q \in Page : /\ Exists(q)' <=> Exists(q) \/ q = n \/ q = m
                      /\ Exists(q) => content'[q] = content[q]
  BY <1>3, <1>4, <1>5, UnwrittenAssumption DEF Exists
<1>8. Linked'
  BY <1>3, <1>5, <1>6, <1>7 DEF HeapsSound, Linked, LinksForward, Page
<1>9. \A a, b \in Page : Leads(a, b)' <=> Leads(a, b) \/ (a = n /\ b = m)
  BY <1>3, <1>5, <1>7, PageFacts DEF Leads
<1>10. /\ first' \in [Heap -> Page \cup {InvalidPage}] /\ first'[h] = n
       /\ \A g \in Heap \ {h} : first'[g] = first[g]
  BY <1>3 DEF HeapsSound
<1>11. /\ nextPageId' \in 0 .. MaxPages /\ nextPageId <= nextPageId'
       /\ n < nextPageId' /\ m < nextPageId' /\ n >= nextPageId /\ m >= nextPageId
  BY <1>1, <1>2, <1>3
<1>12. \A p \in Page : Exists(p)' => p < nextPageId'
  BY <1>1, <1>7, <1>11, PageFacts DEF HeapsSound
<1>13. \A g \in Heap :
        \/ first'[g] = first[g]
        \/ first[g] = InvalidPage /\ first'[g] >= nextPageId /\ Exists(first[g])'
  BY <1>3, <1>7, <1>10, <1>11
<1>14. Effects
  BY <1>7, <1>8, <1>9, <1>10, <1>11, <1>12, <1>13 DEF Effects
<1>15. ASSUME NEW r \in UsedRIDs
       PROVE  Keeps(r)
  <2>1. PICK p \in Page : \E s \in Slots(p) : r = <<p, s>>
    BY RIDs
  <2>2. content'[p] = content[p] /\ Slots(p)' = Slots(p)
    BY <1>7, <2>1 DEF Slots
  <2> QED BY <2>1, <2>2, IsKept
<1> QED
  BY <1>14, <1>15

\* A new page is linked from the last one.
LEMMA AppendEffects ==
  ASSUME HeapsSound, NEW h \in Heap, NEW d \in Data, NEW last \in Page, InsertAppends(h, d, last)
  PROVE  Effects /\ \A r \in UsedRIDs : Keeps(r)
<1>1. /\ nextPageId \in Page /\ nextPageId + 1 \in 0 .. MaxPages /\ nextPageId \in Nat
  BY HeapAssumption DEF HeapsSound, Page, InsertAppends
<1> PICK n \in Page : n = nextPageId
  BY <1>1
<1>2. /\ ~ Exists(n) /\ Exists(last) /\ last < n /\ last # n
      /\ content \in [Page -> HeapPage \cup {Unwritten, Zero}]
      /\ content[last].next = InvalidPage /\ first' = first /\ nextPageId' = n + 1
  BY <1>1, PageFacts DEF HeapsSound, Linked, InsertAppends, Sound
<1> PICK new : new = IF Fits(EmptyPage, d) THEN [FreshPage EXCEPT !.page = Put(@, d)]
                                           ELSE FreshPage
  OBVIOUS
<1>3. new \in HeapPage /\ new.next = InvalidPage
  BY FreshPageType, EmptyPageType, PutType DEF FreshPage, HeapPage
<1>4. content' = [content EXCEPT ![last].next = n, ![n] = new]
  BY DEF InsertAppends
<1>5. content[last] \in HeapPage
  BY <1>2 DEF Exists
<1>6. /\ content'[n] = new /\ content'[last] \in HeapPage /\ content'[last].next = n
      /\ content'[last].page = content[last].page
      /\ \A q \in Page \ {n, last} : content'[q] = content[q]
  BY <1>2, <1>4, <1>5 DEF HeapPage
<1>7. content' \in [Page -> HeapPage \cup {Unwritten, Zero}]
  BY <1>2, <1>3, <1>4, <1>6
<1>8. \A q \in Page : /\ Exists(q)' <=> Exists(q) \/ q = n
                      /\ Exists(q) => content'[q].page = content[q].page
  BY <1>2, <1>3, <1>6, UnwrittenAssumption DEF Exists
<1>9. Linked'
  BY <1>2, <1>3, <1>6, <1>7, <1>8 DEF HeapsSound, Linked, LinksForward, Page, Exists
<1>10. \A a, b \in Page : Leads(a, b)' <=> Leads(a, b) \/ (a = last /\ b = n)
  <2> SUFFICES ASSUME NEW a \in Page, NEW b \in Page
               PROVE  Leads(a, b)' <=> Leads(a, b) \/ (a = last /\ b = n)
    OBVIOUS
  <2>1. CASE a = n
    BY <1>2, <1>3, <1>6, <2>1, PageFacts DEF Leads
  <2>2. CASE a = last
    BY <1>2, <1>6, <1>8, <2>2, PageFacts DEF Leads
  <2>3. CASE a # n /\ a # last
    BY <1>6, <1>8, <2>3 DEF Leads
  <2> QED BY <2>1, <2>2, <2>3
<1>11. /\ nextPageId' \in 0 .. MaxPages /\ nextPageId <= nextPageId'
       /\ n < nextPageId' /\ n >= nextPageId
  BY <1>1, <1>2
<1>12. \A p \in Page : Exists(p)' => p < nextPageId'
  BY <1>1, <1>8, <1>11, PageFacts DEF HeapsSound
<1>13. Effects
  BY <1>2, <1>8, <1>9, <1>10, <1>11, <1>12 DEF Effects, HeapsSound
<1>14. ASSUME NEW r \in UsedRIDs
       PROVE  Keeps(r)
  <2>1. PICK p \in Page : \E s \in Slots(p) : r = <<p, s>>
    BY RIDs
  <2>2. content'[p].page = content[p].page /\ Slots(p)' = Slots(p)
    BY <1>8, <2>1 DEF Slots
  <2> QED BY <2>1, <2>2, IsKept
<1> QED
  BY <1>13, <1>14

\* The page a call works on.
LEMMA CallPage ==
  ASSUME HeapsSound, NEW h \in Heap, NEW p \in Page, p \in Chain(first[h]), Sound(h)
  PROVE  Exists(p) /\ content[p].page \in RecordsPage
<1>1. Exists(p)
  BY DEF Sound
<1> QED
  BY <1>1 DEF HeapsSound, Linked, HeapPage, Exists

\* Insert() into a page with room keeps every record.
LEMMA InsertIntoEffects ==
  ASSUME HeapsSound, NEW h \in Heap, NEW d \in Data, NEW p \in Page, InsertInto(h, d, p)
  PROVE  Effects /\ \A r \in UsedRIDs : Keeps(r)
<1>1. /\ Sound(h) /\ Fits(content[p].page, d) /\ p \in Chain(first[h])
      /\ content' = [content EXCEPT ![p].page = Put(content[p].page, d)]
      /\ UNCHANGED <<nextPageId, first>>
  BY DEF InsertInto, StopsAt, Chain
<1>2. Exists(p) /\ content[p].page \in RecordsPage
  BY <1>1, CallPage
<1> PICK pg : pg = Put(content[p].page, d)
  OBVIOUS
<1>3. pg \in RecordsPage
  BY <1>1, <1>2, PutType
<1>4. /\ Effects /\ content'[p].page = pg
      /\ \A q \in Page \ {p} : \A s \in Slots(q) : Keeps(<<q, s>>)
  BY <1>1, <1>2, <1>3, PageEffects
<1>5. Exists(p)'
  BY <1>2, <1>4 DEF Effects
<1>6. content[p].page.n \in Nat
  BY <1>2, RecordsPageFields, HeapAssumption
<1>7. ASSUME NEW s \in Slots(p)
      PROVE  Keeps(<<p, s>>)
  <2>1. s \in 0 .. content[p].page.n - 1
    BY <1>2 DEF Slots
  <2>2. s \in 0 .. content[p].page.n /\ s # content[p].page.n
    BY <1>6, <2>1
  <2>3. s \in Slots(p)' /\ content'[p].page.recs[s] = content[p].page.recs[s]
    BY <1>4, <1>5, <1>6, <2>1, <2>2 DEF Put, Slots
  <2> QED BY <2>3, IsKept
<1> QED
  BY <1>4, <1>7, RIDs

\* Update() and Delete() keep every record but the one they name.
LEMMA ChangesEffects ==
  ASSUME HeapsSound, NEW h \in Heap, NEW p \in Page, NEW s \in Slots(p), Changes(h, p, s)
  PROVE  Effects /\ \A r \in UsedRIDs \ {<<p, s>>} : Keeps(r)
<1>1. /\ Exists(p) /\ content[p].page \in RecordsPage /\ s \in 0 .. content[p].page.n - 1
      /\ UNCHANGED <<nextPageId, first>>
  BY CallPage DEF Changes, Delete, Update, Slots
<1>2. ASSUME NEW pg \in RecordsPage, NEW rec, content' = [content EXCEPT ![p].page = pg],
             pg.n = content[p].page.n, pg.recs = [content[p].page.recs EXCEPT ![s] = rec]
      PROVE  Effects /\ \A r \in UsedRIDs \ {<<p, s>>} : Keeps(r)
  <2>1. /\ Effects /\ content'[p].page = pg
        /\ \A q \in Page \ {p} : \A t \in Slots(q) : Keeps(<<q, t>>)
    BY <1>1, <1>2, PageEffects
  <2>2. Exists(p)'
    BY <1>1, <2>1 DEF Effects
  <2>3. ASSUME NEW t \in Slots(p), t # s
        PROVE  Keeps(<<p, t>>)
    <3>1. t \in Slots(p)'
      BY <1>1, <1>2, <2>1, <2>2 DEF Slots
    <3>2. content'[p].page.recs[t] = content[p].page.recs[t]
      BY <1>1, <1>2, <2>1, <2>3, RecordsPageFields DEF Slots
    <3> QED BY <3>1, <3>2, IsKept
  <2> QED BY <2>1, <2>3, RIDs
<1>3. CASE Delete(h, p, s)
  <2> PICK pg : pg = Remove(content[p].page, s)
    OBVIOUS
  <2>1. pg \in RecordsPage
    BY <1>1, RemoveType
  <2>2. /\ content' = [content EXCEPT ![p].page = pg] /\ pg.n = content[p].page.n
        /\ pg.recs = [content[p].page.recs EXCEPT ![s] = Tombstone]
    BY <1>3 DEF Delete, Remove
  <2> QED BY <1>2, <2>1, <2>2
<1>4. ASSUME NEW d \in Data, Update(h, p, s, d), Accepts(content[p].page, s, d)
      PROVE  Effects /\ \A r \in UsedRIDs \ {<<p, s>>} : Keeps(r)
  <2> PICK pg : pg = Change(content[p].page, s, d)
    OBVIOUS
  <2>1. pg \in RecordsPage
    BY <1>1, <1>4, ChangeType
  <2>2. content' = [content EXCEPT ![p].page = Change(content[p].page, s, d)]
    BY <1>4 DEF Update
  <2>3. /\ content' = [content EXCEPT ![p].page = pg] /\ pg.n = content[p].page.n
        /\ pg.recs = [content[p].page.recs EXCEPT ![s] = Stored(d)]
    BY <2>2 DEF Change
  <2> QED BY <1>2, <2>1, <2>3
<1>5. ASSUME NEW d \in Data, Update(h, p, s, d), ~ Accepts(content[p].page, s, d)
      PROVE  Effects /\ \A r \in UsedRIDs \ {<<p, s>>} : Keeps(r)
  <2>1. content' = content
    BY <1>5 DEF Update
  <2>2. content' = [content EXCEPT ![p].page = content[p].page]
    <3>1. content \in [Page -> HeapPage \cup {Unwritten, Zero}] /\ content[p] \in HeapPage
      BY <1>1 DEF HeapsSound, Linked, Exists
    <3> QED BY <2>1, <3>1 DEF HeapPage
  <2>3. content[p].page.recs = [content[p].page.recs EXCEPT ![s] = content[p].page.recs[s]]
    BY <1>1, RecordsPageFields
  <2> PICK pg \in RecordsPage : pg = content[p].page
    BY <1>1
  <2> QED BY <1>2, <2>2, <2>3
<1> QED
  BY <1>3, <1>4, <1>5 DEF Changes

\* Every call: what it makes of the pages, and of the records it does not name.
LEMMA CallEffects ==
  ASSUME HeapsSound, Call
  PROVE  /\ Effects /\ file' = file /\ kept' \subseteq kept
         /\ \A r \in kept' \cap UsedRIDs : Keeps(r)
<1>1. ASSUME NEW h \in Heap, Adds(h)
      PROVE  Effects /\ \A r \in UsedRIDs : Keeps(r)
  <2>1. CASE Create(h)
    BY <2>1, FirstPageEffects, FreshPageType DEF Create
  <2>2. ASSUME NEW d \in Data, InsertCreates(h, d)
        PROVE  Effects /\ \A r \in UsedRIDs : Keeps(r)
    <3> PICK page : page = [FreshPage EXCEPT !.page = Put(EmptyPage, d)]
      OBVIOUS
    <3>1. page \in HeapPage /\ page.next = InvalidPage
      BY <2>2, EmptyPageType, PutType DEF FreshPage, HeapPage, InsertCreates
    <3>2. content' = [content EXCEPT ![nextPageId] = page]
      BY <2>2 DEF InsertCreates, FreshPage
    <3> QED BY <2>2, <3>1, <3>2, FirstPageEffects DEF InsertCreates
  <2> QED
    BY <1>1, <2>1, <2>2, RefusedEffects, InsertIntoEffects, AppendEffects DEF Adds
<1>2. PICK h \in Heap :
        \/ Adds(h) /\ kept' = kept
        \/ \E p \in Page : \E s \in Slots(p) : Changes(h, p, s) /\ kept' = kept \ {<<p, s>>}
  BY DEF Call
<1>3. file' = file
  BY DEF Call
<1>4. CASE Adds(h) /\ kept' = kept
  BY <1>1, <1>3, <1>4
<1>5. ASSUME NEW p \in Page, NEW s \in Slots(p), Changes(h, p, s), kept' = kept \ {<<p, s>>}
      PROVE  /\ Effects /\ kept' \subseteq kept
             /\ \A r \in kept' \cap UsedRIDs : Keeps(r)
  BY <1>5, ChangesEffects
<1> QED
  BY <1>2, <1>3, <1>4, <1>5

----------------------------------------------------------------------------
(* Chains and the file.                                                    *)

\* The links in the file are links between the pages.
LEMMA FileLinks == FileOlder => \A a, b \in Page : FileLeads(a, b) => Leads(a, b)
BY PageFacts DEF FileOlder, FileLeads, Leads

\* A page on the chain of a heap after a call, if it is not a new one, was on it.
LEMMA ReachedBefore ==
  ASSUME HeapsSound, Effects, NEW h \in Heap, NEW p \in Page, p < nextPageId,
         p \in Chain(first[h])'
  PROVE  first[h] \in Page /\ first'[h] = first[h] /\ p \in Chain(first[h])
<1>1. Page' = Page /\ InvalidPage' = InvalidPage
  BY DEF Page, InvalidPage
<1> PICK n : n = nextPageId
  OBVIOUS
<1> PICK x \in Page : x = first'[h]
  <2>1. first'[h] \in Page \cup {InvalidPage} /\ Linked'
    BY DEF Effects
  <2>2. first'[h] # InvalidPage
    BY <1>1, <2>1, NoChainNext
  <2> QED BY <2>1, <2>2
<1>2. p \in Chain(x)'
  OBVIOUS
<1>3. first'[h] = first[h]
  <2> SUFFICES ASSUME first'[h] # first[h]
               PROVE  FALSE
    OBVIOUS
  <2> DEFINE S == {q \in Page : q >= n}
  <2>1. x \in S
    BY DEF Effects
  <2>2. \A a, b \in Page : (a \in S /\ Leads(a, b)') => b \in S
    BY PageFacts DEF Effects, HeapsSound, Leads
  <2> HIDE DEF S
  <2>3. Chain(x)' \subseteq S
    BY <1>1, <2>1, <2>2, ChainLeastNext DEF Effects
  <2> QED BY <1>2, <2>3, PageFacts DEF S, HeapsSound
<1>4. p \in Chain(x)
  <2> PICK S : S = Chain(x) \cup {q \in Page : q >= n}
    OBVIOUS
  <2>1. x \in S
    BY ChainStarts
  <2>2. \A a, b \in Page : (a \in S /\ Leads(a, b)') => b \in S
    <3> SUFFICES ASSUME NEW a \in Page, NEW b \in Page, a \in S, Leads(a, b)', b < n
                 PROVE  b \in Chain(x)
      BY PageFacts DEF HeapsSound
    <3>1. Leads(a, b)
      BY PageFacts DEF Effects, HeapsSound
    <3>2. a < n
      BY <3>1 DEF Leads, HeapsSound
    <3> QED BY <3>1, <3>2, ChainFollows, PageFacts DEF HeapsSound
  <2>3. Chain(x)' \subseteq S
    BY <1>1, <2>1, <2>2, ChainLeastNext DEF Effects
  <2> QED BY <1>2, <2>3, PageFacts DEF HeapsSound
<1> QED
  BY <1>3, <1>4

\* A page on the chain of a heap stays on it through a call.
LEMMA ReachedAfter ==
  ASSUME HeapsSound, Effects, NEW h \in Heap, NEW p \in Chain(first[h])
  PROVE  p \in Chain(first[h])'
<1> PICK x : x = first[h]
  OBVIOUS
<1>1. x \in Page /\ first'[h] = x
  BY NoChain DEF HeapsSound, Effects
<1>2. Chain(x) \subseteq Chain(x)'
  BY <1>1, ChainGrows DEF HeapsSound, Effects, Chain
<1> QED
  BY <1>1, <1>2

\* GetNumPages() is above every page in the file.
LEMMA NumPages ==
  ASSUME FileOlder
  PROVE  NextFromFile \in 0 .. MaxPages /\ \A p \in Page : OnFile(p) => p < NextFromFile
<1> DEFINE T == {n \in 0 .. MaxPages : Disk!PastEnd(file, n)}
<1>1. MaxPages \in Nat /\ Page = 0 .. MaxPages - 1
  BY HeapAssumption DEF Page
<1>2. MaxPages \in T
  BY <1>1 DEF Disk!PastEnd
<1>3. PICK n \in T : \A y \in T : n <= y
  <2>1. T \in SUBSET Nat /\ T # {}
    BY <1>1, <1>2
  <2> HIDE DEF T
  <2> QED BY <2>1, LeastOf
<1>4. n > 0 => ~ Disk!PastEnd(file, n - 1)
  BY <1>1, <1>3
<1>5. NextFromFile \in 0 .. MaxPages /\ Disk!PastEnd(file, NextFromFile)
  BY <1>3, <1>4 DEF NextFromFile
<1> HIDE DEF T
<1> QED
  BY <1>1, <1>5 DEF Disk!PastEnd, OnFile

----------------------------------------------------------------------------
(* The steps: each keeps the invariant and loses nothing that was flushed. *)

Survives ==
  \A r \in kept \cap kept' :
    /\ r \in UsedRIDs'
    /\ RecordAt(r)' = RecordAt(r)
    /\ \A h \in Heap : r[1] \in Chain(first[h]) => r[1] \in Chain(first[h])'

\* No page, and nothing flushed.
LEMMA InitCrash == RecoveryInit => CrashInv
<1> SUFFICES ASSUME RecoveryInit PROVE CrashInv
  OBVIOUS
<1>1. HeapsSound
  BY HeapAssumption
  DEF RecoveryInit, Init, HeapsSound, Linked, LinksForward, Exists
<1>2. FileOlder /\ KeptOnFile /\ KeptReached
  BY DEF RecoveryInit, FileOlder, OnFile, KeptOnFile, KeptReached
<1> QED
  BY <1>1, <1>2 DEF CrashInv

\* A call touches no page of the file, and no record that stays in kept.
LEMMA CallCrash ==
  ASSUME CrashInv, Call
  PROVE  CrashInv' /\ Survives
<1>1. /\ Effects /\ file' = file /\ kept' \subseteq kept
      /\ \A r \in kept' \cap UsedRIDs : Keeps(r)
  BY CallEffects DEF CrashInv
<1>2. Page' = Page /\ InvalidPage' = InvalidPage /\ \A p \in Page : OnFile(p)' <=> OnFile(p)
  BY <1>1 DEF Page, InvalidPage, OnFile
<1>3. \A x : FileReach(x)' = FileReach(x)
  BY <1>1 DEF FileReach, FileLeads, OnFile, Page
<1>4. HeapsSound'
  BY <1>1, <1>2 DEF CrashInv, HeapsSound, Effects
<1>5. FileOlder'
  <2>1. ASSUME NEW p \in Page, OnFile(p), file[p].next # InvalidPage
        PROVE  content'[p].next = file[p].next
    <3>1. Exists(p) /\ content[p].next = file[p].next
      BY <2>1 DEF CrashInv, FileOlder
    <3>2. PICK q \in Page : q = content[p].next
      BY <2>1, <3>1 DEF CrashInv, HeapsSound, Linked, HeapPage, Exists
    <3>3. Leads(p, q)'
      BY <1>1, <3>1, <3>2 DEF Leads, Effects
    <3> QED BY <3>1, <3>2, <3>3 DEF Leads
  <2> QED BY <1>1, <1>2, <2>1 DEF CrashInv, FileOlder, Effects, HeapPage, RecordsPage
<1>6. KeptOnFile'
  BY <1>1, <1>2 DEF CrashInv, KeptOnFile, Keeps, OnFile
<1>7. KeptReached'
  <2> SUFFICES ASSUME NEW r \in kept', NEW h \in Heap, r[1] \in Chain(first[h])'
               PROVE  OnFile(first[h])' /\ r[1] \in FileReach(first[h])'
    BY DEF KeptReached
  <2>1. r \in kept /\ OnFile(r[1]) /\ r[1] \in Page
    BY <1>1, RIDs DEF CrashInv, KeptOnFile
  <2>2. r[1] < nextPageId
    BY <2>1 DEF CrashInv, FileOlder, HeapsSound
  <2>3. first[h] \in Page /\ first'[h] = first[h] /\ r[1] \in Chain(first[h])
    BY <1>1, <2>1, <2>2, ReachedBefore DEF CrashInv
  <2>4. OnFile(first[h]) /\ r[1] \in FileReach(first[h])
    BY <2>1, <2>3 DEF CrashInv, KeptReached
  <2> QED BY <1>2, <1>3, <2>3, <2>4
<1>8. Survives
  BY <1>1, ReachedAfter DEF CrashInv, KeptOnFile, Keeps, Survives
<1> QED
  BY <1>4, <1>5, <1>6, <1>7, <1>8 DEF CrashInv

\* A write-back brings one page of the file up to date, so links are only added.
LEMMA WriteBackCrash ==
  ASSUME CrashInv, NEW p \in Page, WriteBack(p)
  PROVE  CrashInv' /\ Survives
<1>1. /\ UNCHANGED <<content, nextPageId, first, kept>> /\ Exists(p)
      /\ file \in [Page -> HeapPage \cup {Unwritten}]
      /\ content[p] \in HeapPage /\ content[p] # Unwritten
  BY DEF WriteBack, vars, CrashInv, HeapsSound, Linked, FileOlder, Exists
<1>2. /\ file' \in [Page -> HeapPage \cup {Unwritten}] /\ file'[p] = content[p]
      /\ \A q \in Page \ {p} : file'[q] = file[q]
  BY <1>1 DEF WriteBack
<1>3. Page' = Page /\ \A q \in Page : OnFile(q)' <=> OnFile(q) \/ q = p
  BY <1>1, <1>2 DEF Page, OnFile
<1>4. HeapsSound'
  BY <1>1 DEF CrashInv, HeapsSound, Linked, LinksForward, Exists
<1>5. FileOlder'
  BY <1>1, <1>2, <1>3 DEF CrashInv, FileOlder, Exists, InvalidPage, OnFile, HeapPage, RecordsPage
<1>6. UsedRIDs' = UsedRIDs /\ \A r : RecordAt(r)' = RecordAt(r)
  BY <1>1 DEF UsedRIDs, Slots, Exists, RecordAt, Page
<1>7. KeptOnFile'
  <2> SUFFICES ASSUME NEW r \in kept
               PROVE  /\ OnFile(r[1])' /\ r[2] \in 0 .. file'[r[1]].page.n - 1
                      /\ RecordAt(r) = file'[r[1]].page.recs[r[2]]
    BY <1>1, <1>6 DEF CrashInv, KeptOnFile
  <2>1. PICK q \in Page : \E s \in Slots(q) : r = <<q, s>>
    BY RIDs DEF CrashInv, KeptOnFile
  <2>2. CASE q = p
    BY <1>2, <1>3, <2>1, <2>2 DEF RecordAt, Slots
  <2>3. CASE q # p
    BY <1>2, <1>3, <2>1, <2>3 DEF CrashInv, KeptOnFile
  <2> QED BY <2>2, <2>3
<1>8. \A a, b \in Page : FileLeads(a, b) => FileLeads(a, b)'
  BY <1>2, <1>3, PageFacts DEF CrashInv, FileOlder, FileLeads
<1>9. \A x : FileReach(x) \subseteq FileReach(x)'
  BY <1>3, <1>8 DEF FileReach
<1>10. \A h \in Heap : Chain(first[h])' = Chain(first[h])
  BY <1>1 DEF Chain, Walk, Successor, Exists, Page
<1>11. KeptReached'
  <2> SUFFICES ASSUME NEW r \in kept, NEW h \in Heap, r[1] \in Chain(first[h])
               PROVE  OnFile(first[h])' /\ r[1] \in FileReach(first[h])'
    BY <1>1, <1>10 DEF KeptReached
  <2>1. OnFile(first[h]) /\ r[1] \in FileReach(first[h])
    BY DEF CrashInv, KeptReached
  <2>2. first[h] \in Page
    BY NoChain DEF CrashInv, HeapsSound
  <2> QED BY <1>1, <1>3, <1>9, <2>1, <2>2
<1>12. Survives
  BY <1>1, <1>6, <1>10 DEF CrashInv, KeptOnFile, Survives
<1> QED
  BY <1>4, <1>5, <1>7, <1>11, <1>12 DEF CrashInv

\* After flush_all() the file has every link, so it reaches every page.
LEMMA FlushAllCrash ==
  ASSUME CrashInv, FlushAll
  PROVE  CrashInv' /\ Survives
<1>1. /\ UNCHANGED <<content, nextPageId, first>> /\ kept' = UsedRIDs
      /\ file' = [p \in Page |-> IF Exists(p) THEN content[p] ELSE file[p]]
      /\ content \in [Page -> HeapPage \cup {Unwritten, Zero}]
      /\ file \in [Page -> HeapPage \cup {Unwritten}]
  BY DEF FlushAll, vars, CrashInv, HeapsSound, Linked, FileOlder
<1>1a. \A p \in Page : /\ Exists(p) => file'[p] = content[p] /\ content[p] \in HeapPage
                       /\ ~ Exists(p) => file'[p] = Unwritten
  BY <1>1 DEF CrashInv, FileOlder, OnFile, Exists
<1>2. Page' = Page /\ \A p \in Page : OnFile(p)' <=> Exists(p)
  BY <1>1a DEF Page, OnFile, Exists
<1>3. HeapsSound'
  BY <1>1 DEF CrashInv, HeapsSound, Linked, LinksForward, Exists
<1>4. FileOlder'
  <2>1. file' \in [Page -> HeapPage \cup {Unwritten}]
    BY <1>1, <1>1a
  <2>2. \A p \in Page : Exists(p)' <=> Exists(p)
    BY <1>1 DEF Exists
  <2> QED BY <1>1, <1>2, <1>1a, <2>1, <2>2 DEF FileOlder, HeapPage, RecordsPage, InvalidPage
<1>5. UsedRIDs' = UsedRIDs /\ \A r : RecordAt(r)' = RecordAt(r)
  BY <1>1 DEF UsedRIDs, Slots, Exists, RecordAt, Page
<1>6. KeptOnFile'
  <2> SUFFICES ASSUME NEW r \in UsedRIDs
               PROVE  /\ OnFile(r[1])' /\ r[2] \in 0 .. file'[r[1]].page.n - 1
                      /\ RecordAt(r) = file'[r[1]].page.recs[r[2]]
    BY <1>1, <1>5 DEF KeptOnFile
  <2>1. PICK q \in Page : \E s \in Slots(q) : r = <<q, s>>
    BY RIDs
  <2> QED BY <1>1, <1>2, <1>1a, <2>1 DEF RecordAt, Slots
<1>7. \A a, b \in Page : FileLeads(a, b)' <=> Leads(a, b)
  BY <1>2, <1>1a DEF FileLeads, Leads
<1>8. \A x \in Page : Chain(x) \subseteq FileReach(x)'
  <2> SUFFICES ASSUME NEW x \in Page, NEW p \in Chain(x), NEW S \in SUBSET Page, x \in S,
                      \A a, b \in Page : (a \in S /\ Leads(a, b)) => b \in S
               PROVE  p \in S
    BY <1>2, <1>7 DEF FileReach, Chain
  <2> QED BY ChainLeast DEF CrashInv, HeapsSound
<1>9. \A h \in Heap : Chain(first[h])' = Chain(first[h])
  BY <1>1 DEF Chain, Walk, Successor, Exists, Page
<1>10. KeptReached'
  <2> SUFFICES ASSUME NEW r \in UsedRIDs, NEW h \in Heap, r[1] \in Chain(first[h])
               PROVE  OnFile(first[h])' /\ r[1] \in FileReach(first[h])'
    BY <1>1, <1>9 DEF KeptReached
  <2>1. first[h] \in Page /\ Exists(first[h])
    BY NoChain, PageFacts DEF CrashInv, HeapsSound
  <2> QED BY <1>1, <1>2, <1>8, <2>1
<1>11. Survives
  BY <1>5, <1>9 DEF CrashInv, KeptOnFile, Survives
<1> QED
  BY <1>3, <1>4, <1>6, <1>10, <1>11 DEF CrashInv

\* The crash: what is left is what the file has.
LEMMA ReopenCrash ==
  ASSUME CrashInv, Reopen
  PROVE  CrashInv' /\ Survives
<1>1. /\ nextPageId' = NextFromFile /\ file' = file /\ kept' = kept
      /\ content' = [p \in Page |-> Disk!ReadPage(file, p, Unwritten)]
      /\ file \in [Page -> HeapPage \cup {Unwritten}]
      /\ first \in [Heap -> Page \cup {InvalidPage}]
  BY DEF Reopen, CrashInv, FileOlder, HeapsSound
<1>2. Page' = Page /\ InvalidPage' = InvalidPage
  BY DEF Page, InvalidPage
<1>2a. \A p \in Page : /\ OnFile(p) => content'[p] = file[p] /\ content'[p] \in HeapPage
                       /\ ~ OnFile(p) => content'[p] \in {Unwritten, Zero}
  BY <1>1 DEF OnFile, Disk!ReadPage
<1>3. \A p \in Page : /\ Exists(p)' <=> OnFile(p)
                      /\ OnFile(p)' <=> OnFile(p)
  BY <1>1, <1>2a, UnwrittenAssumption DEF Exists, OnFile
<1>4. \A h \in Heap :
        \/ first'[h] = InvalidPage
        \/ first'[h] = first[h] /\ first[h] \in Page /\ OnFile(first[h])
  BY <1>1 DEF Reopen, OnFile
<1>5. \A h \in Heap : first[h] \in Page /\ OnFile(first[h]) => first'[h] = first[h]
  BY PageFacts DEF Reopen, OnFile
<1>6. HeapsSound'
  <2>1. first' \in [Heap -> Page \cup {InvalidPage}]
    BY <1>1 DEF Reopen
  <2>2. Linked'
    <3>1. content' \in [Page -> HeapPage \cup {Unwritten, Zero}]
      BY <1>1, <1>2a
    <3>2. ASSUME NEW p \in Page, OnFile(p)
          PROVE  content'[p].next = InvalidPage \/ content'[p].next > p
      BY <1>2a, <3>2 DEF CrashInv, HeapsSound, FileOlder, Linked, LinksForward
    <3> QED BY <1>2, <1>3, <3>1, <3>2 DEF Linked, LinksForward
  <2>3. NextFromFile \in 0 .. MaxPages /\ \A p \in Page : OnFile(p) => p < NextFromFile
    BY NumPages DEF CrashInv
  <2>4. \A h \in Heap : first'[h] # InvalidPage => Exists(first[h])'
    <3> SUFFICES ASSUME NEW h \in Heap, first'[h] # InvalidPage
                 PROVE  Exists(first[h])'
      OBVIOUS
    <3> PICK x \in Page : x = first'[h] /\ OnFile(x)
      BY <1>4
    <3>1. Exists(x)'
      BY <1>3
    <3> QED BY <3>1
  <2>5. \A p \in Page : Exists(p)' => p < nextPageId'
    BY <1>1, <1>3, <2>3
  <2>6. nextPageId' \in 0 .. MaxPages
    BY <1>1, <2>3
  <2> QED BY <1>2, <2>1, <2>2, <2>4, <2>5, <2>6 DEF HeapsSound
<1>7. FileOlder'
  BY <1>1, <1>2, <1>3, <1>2a DEF FileOlder, HeapPage, RecordsPage
<1>8. \A r \in kept : r \in UsedRIDs' /\ RecordAt(r)' = RecordAt(r)
  <2> SUFFICES ASSUME NEW r \in kept
               PROVE  r \in UsedRIDs' /\ RecordAt(r)' = RecordAt(r)
    OBVIOUS
  <2>1. PICK p \in Page : \E s \in Slots(p) : r = <<p, s>>
    BY RIDs DEF CrashInv, KeptOnFile
  <2>2. /\ OnFile(p) /\ r = <<p, r[2]>> /\ r[2] \in 0 .. file[p].page.n - 1
        /\ RecordAt(r) = file[p].page.recs[r[2]]
    BY <2>1 DEF CrashInv, KeptOnFile
  <2>3. r[2] \in Slots(p)'
    BY <1>2a, <1>3, <2>2 DEF Slots
  <2> QED BY <1>2, <1>2a, <2>2, <2>3, RIDsNext DEF RecordAt
<1>9. KeptOnFile'
  BY <1>1, <1>3, <1>8 DEF CrashInv, KeptOnFile, OnFile
<1>10. \A a, b \in Page : Leads(a, b)' <=> FileLeads(a, b)
  BY <1>2a, <1>3 DEF Leads, FileLeads
<1>11. \A x : FileReach(x)' = FileReach(x)
  BY <1>1 DEF FileReach, FileLeads, OnFile, Page
<1>12. \A x \in Page : Chain(x)' \subseteq FileReach(x)
  <2> SUFFICES ASSUME NEW x \in Page, NEW p \in Chain(x)', NEW S \in SUBSET Page, x \in S,
                      \A a, b \in Page : (a \in S /\ FileLeads(a, b)) => b \in S
               PROVE  p \in S
    BY <1>2 DEF FileReach, Chain
  <2>1. Linked'
    BY <1>6 DEF HeapsSound
  <2> QED BY <1>2, <1>10, <2>1, ChainLeastNext
<1>13. \A x \in Page : FileReach(x) \subseteq Chain(x)'
  <2> SUFFICES ASSUME NEW x \in Page, NEW p \in FileReach(x)
               PROVE  p \in Chain(x)'
    OBVIOUS
  <2> PICK S : S = Chain(x)'
    OBVIOUS
  <2>1. Linked'
    BY <1>6 DEF HeapsSound
  <2>2. S \in SUBSET Page /\ x \in S
    BY <1>2, ChainStartsNext DEF Chain
  <2>3. \A a, b \in Page : (a \in S /\ FileLeads(a, b)) => b \in S
    BY <1>2, <1>10, <2>1, ChainFollowsNext
  <2> QED BY <2>2, <2>3 DEF FileReach
<1>14. KeptReached'
  <2> SUFFICES ASSUME NEW r \in kept, NEW h \in Heap, r[1] \in Chain(first[h])'
               PROVE  OnFile(first[h])' /\ r[1] \in FileReach(first[h])'
    BY <1>1 DEF KeptReached
  <2>1. first'[h] # InvalidPage
    BY <1>2, <1>6, NoChainNext DEF HeapsSound
  <2> PICK x \in Page : x = first'[h] /\ OnFile(x)
    BY <1>4, <2>1
  <2>2. r[1] \in FileReach(x)
    BY <1>12
  <2> QED BY <1>3, <1>11, <2>2
<1>15. Survives
  <2> SUFFICES ASSUME NEW r \in kept, NEW h \in Heap, r[1] \in Chain(first[h])
               PROVE  r[1] \in Chain(first[h])'
    BY <1>8 DEF Survives
  <2>1. OnFile(first[h]) /\ r[1] \in FileReach(first[h])
    BY DEF CrashInv, KeptReached
  <2> PICK x \in Page : x = first[h]
    BY NoChain DEF CrashInv, HeapsSound
  <2>2. first'[h] = x /\ r[1] \in Chain(x)'
    BY <1>5, <1>13, <2>1
  <2> QED BY <2>2
<1> QED
  BY <1>6, <1>7, <1>9, <1>14, <1>15 DEF CrashInv

\* Every step, the stutter included.
LEMMA CrashStep ==
  CrashInv /\ [RecoveryNext \/ Reopen]_recoveryVars => CrashInv' /\ Survives
<1> SUFFICES ASSUME CrashInv, [RecoveryNext \/ Reopen]_recoveryVars
             PROVE  CrashInv' /\ Survives
  OBVIOUS
<1>1. CASE UNCHANGED recoveryVars
  <2>1. UNCHANGED <<content, nextPageId, first, file, kept>>
    BY <1>1 DEF recoveryVars, vars
  <2>2. HeapsSound' /\ FileOlder'
    BY <2>1 DEF CrashInv, HeapsSound, FileOlder, Linked, LinksForward, Exists, OnFile, Page,
                HeapPage, RecordsPage, InvalidPage
  <2>3. \A h \in Heap : Chain(first[h])' = Chain(first[h])
    BY <2>1 DEF Chain, Walk, Successor, Exists, Page
  <2>4. UsedRIDs' = UsedRIDs /\ \A r : RecordAt(r)' = RecordAt(r)
    BY <2>1 DEF UsedRIDs, Slots, Exists, RecordAt, Page
  <2>5. \A x : FileReach(x)' = FileReach(x)
    BY <2>1 DEF FileReach, FileLeads, OnFile, Page
  <2>6. KeptOnFile' /\ KeptReached'
    BY <2>1, <2>3, <2>4, <2>5 DEF CrashInv, KeptOnFile, KeptReached, OnFile
  <2> QED BY <2>1, <2>2, <2>3, <2>4, <2>6 DEF CrashInv, KeptOnFile, Survives
<1> QED
  BY <1>1, CallCrash, WriteBackCrash, FlushAllCrash, ReopenCrash DEF RecoveryNext

\* A walk of a heap that has no page but initialised ones is over after MaxPages pages.
SoundWalksEnd ==
  \A h \in Heap : Sound(h) => Walk(first[h])[MaxPages] = InvalidPage

\* Whatever a crash left of the file, holes included, the initialised pages link to
\* larger page ids, so that a walk of Insert() or a scan along a heap that has no
\* other pages ends.  Of a heap with a page that was lost nothing is said: a hole's
\* zeros link to page 0.
THEOREM SoundWalksEndAfterCrash == CrashSpec => [](LinksForward /\ SoundWalksEnd)
<1>1. CrashInv => LinksForward
  BY DEF CrashInv, HeapsSound, Linked
<1>2. CrashInv => SoundWalksEnd
  <2> SUFFICES ASSUME CrashInv, NEW h \in Heap, Sound(h)
               PROVE  Walk(first[h])[MaxPages] = InvalidPage
    BY DEF SoundWalksEnd
  <2>1. Linked /\ first[h] \in Page \cup {InvalidPage} /\ MaxPages \in 0 .. MaxPages
    BY HeapAssumption DEF CrashInv, HeapsSound
  <2>2. \A p \in Page : ~ (p >= MaxPages)
    BY HeapAssumption DEF Page
  <2> QED BY <2>1, <2>2, WalkClimbs
<1> QED
  BY <1>1, <1>2, InitCrash, CrashStep, PTL DEF CrashSpec

\* Whatever write-backs were lost with the process, a record that flush_all() saw
\* and no later call touched is in its page, on the chain of its heap.
THEOREM FlushedRecordsAreKept == CrashSpec => FlushedRecordsSurvive
<1>1. CrashInv /\ [RecoveryNext \/ Reopen]_recoveryVars => Survives
  BY CrashStep
<1> QED
  BY <1>1, InitCrash, CrashStep, PTL DEF CrashSpec, FlushedRecordsSurvive, Survives

----------------------------------------------------------------------------
(***************************************************************************)
(* A scan among the calls of its caller, for any heaps, pages and records. *)
(* Links lead to larger page ids, so the order of a scan is that of the    *)
(* RIDs, by page and then by slot.  Advance() moves to the next live       *)
(* record of the chain in that order; what the caller does meanwhile is    *)
(* known from the contract of the heaps: RIDs stay, and stay with their    *)
(* heap.  So the records before the position were returned, those that    *)
(* were there from begin() on are returned or ahead, and new ones land     *)
(* anywhere without moving the others.                                     *)
(***************************************************************************)

\* The order of RIDs in the file.
Less(a, b) == a[1] < b[1] \/ (a[1] = b[1] /\ a[2] < b[2])

\* r is a RID of the heap that is scanned.
Mine(r) == r \in DOMAIN Rows /\ Rows[r].heap = scan

IterType ==
  /\ scan \in Heap \cup {"none"}
  /\ hasNext \in BOOLEAN
  /\ currPage \in Page \cup {InvalidPage} /\ currSlot \in Nat
  /\ returned \in Seq(Page \X Nat)

\* The scan returned its RIDs in order, up to where it stands.
InOrder ==
  /\ \A i \in 1 .. Len(returned) : Mine(returned[i])
  /\ \A i, j \in 1 .. Len(returned) : i < j => Less(returned[i], returned[j])
  /\ hasNext => \A i \in 1 .. Len(returned) : returned[i] = Current \/ Less(returned[i], Current)

\* What was there from begin() on was returned, or is ahead.
Covered ==
  /\ \A r \in throughout : Mine(r) /\ Live(r)
  /\ \A r \in throughout : r \in Returned \/ (hasNext /\ (r = Current \/ Less(Current, r)))

IterInv ==
  /\ StoreInv
  /\ IterType
  /\ scan = "none" => ~ hasNext /\ returned = <<>> /\ throughout = {}
  /\ IF hasNext THEN Mine(Current) ELSE currPage = InvalidPage /\ currSlot = 0
  /\ InOrder
  /\ Covered

----------------------------------------------------------------------------
\* Places of records as RIDs of the contract, and of those of one heap that are live.
LiveIn(h) == {r \in DOMAIN Rows : Rows[r].heap = h /\ Rows[r].rec.len > 0}

\* The row of a RID.
LEMMA RowIs ==
  /\ DOMAIN Rows = UsedRIDs
  /\ \A r \in UsedRIDs : Rows[r].heap = HeapOf(r[1]) /\ Rows[r].rec = RecordAt(r)
BY DEF Rows

\* A RID is a page and a slot.
LEMMA RIDIs ==
  ASSUME StoreInv, NEW r \in UsedRIDs
  PROVE  r \in Page \X (0 .. Capacity) /\ r = <<r[1], r[2]>> /\ Exists(r[1])
<1>1. PICK p \in Page : \E s \in Slots(p) : r = <<p, s>>
  BY RIDs
<1>2. PICK s \in Slots(p) : r = <<p, s>>
  BY <1>1
<1>3. Exists(p) /\ s \in 0 .. content[p].page.n - 1
  BY <1>2 DEF Slots
<1>4. content[p].page.n \in 0 .. Capacity
  <2>1. content[p].page \in RecordsPage
    BY <1>3 DEF StoreInv, Inv, TypeOK, HeapPage, Exists
  <2> QED BY <2>1, RecordsPageFields
<1>5. s \in 0 .. Capacity
  BY <1>3, <1>4, HeapAssumption
<1> QED
  BY <1>2, <1>3, <1>5

\* The live records of a heap are those on its chain.
LEMMA LiveOnChain ==
  ASSUME StoreInv, NEW h \in Heap
  PROVE  \A r : r \in LiveIn(h) <=> Live(r) /\ r[1] \in Chain(first[h])
<1> SUFFICES ASSUME NEW r
             PROVE  r \in LiveIn(h) <=> Live(r) /\ r[1] \in Chain(first[h])
  OBVIOUS
<1>1. CASE r \notin UsedRIDs
  BY <1>1, RowIs DEF LiveIn, Live
<1>2. CASE r \in UsedRIDs
  <2>1. r[1] \in Page /\ Exists(r[1])
    BY <1>2, RIDIs
  <2>2. PICK g \in Heap : r[1] \in Chain(first[g])
    BY <2>1 DEF StoreInv, Owned
  <2>3. HeapOf(r[1]) = g
    BY <2>1, <2>2, HeapOfIs DEF StoreInv
  <2>4. HeapOf(r[1]) = h <=> r[1] \in Chain(first[h])
    BY <2>1, <2>2, <2>3, HeapOfIs DEF StoreInv
  <2> QED BY <1>2, <2>4, RowIs DEF LiveIn, Live
<1> QED
  BY <1>1, <1>2

\* The chain from a page of a chain is a part of it.
LEMMA ChainWithin ==
  ASSUME Linked, NEW x \in Page, NEW p \in Chain(x)
  PROVE  Chain(p) \subseteq Chain(x)
<1>1. p \in Page
  BY DEF Chain
<1>2. \A q, r \in Page : (q \in Chain(x) /\ Leads(q, r)) => r \in Chain(x)
  BY ChainFollows
<1> QED
  BY <1>1, <1>2, ChainLeast

\* Advance() from slot s of page p goes to the first live record of the heap that
\* is not before it, in the order of RIDs.
LEMMA AdvanceMoves ==
  ASSUME StoreInv, NEW h \in Heap, NEW p \in Page, p \in Chain(first[h]), NEW s \in Nat,
         Advance(p, s)
  PROVE  \/ /\ hasNext' = FALSE /\ currPage' = InvalidPage /\ currSlot' = 0
            /\ \A r \in LiveIn(h) : Less(r, <<p, s>>)
         \/ /\ hasNext' = TRUE /\ <<currPage', currSlot'>> \in LiveIn(h)
            /\ ~ Less(<<currPage', currSlot'>>, <<p, s>>)
            /\ \A r \in LiveIn(h) : \/ Less(r, <<p, s>>)
                                     \/ r = <<currPage', currSlot'>>
                                     \/ Less(<<currPage', currSlot'>>, r)
<1> PICK x : x = first[h]
  OBVIOUS
<1>1. Linked /\ x \in Page
  <2>1. Linked /\ x \in Page \cup {InvalidPage}
    BY InvLinked DEF StoreInv, Inv, TypeOK
  <2> QED BY <2>1, NoChain
<1>2. p \in Chain(x) /\ p \in Chain(p) /\ Chain(p) \subseteq Chain(x)
  BY <1>1, ChainStarts, ChainWithin
<1>3. Walk(p)[0] = p /\ 0 \in 0 .. MaxPages /\ MaxPages \in Nat
  BY WalkSteps, HeapAssumption
<1>4. \A q \in Page : q \in Nat /\ q # InvalidPage
  BY DEF Page, InvalidPage
<1>5. \A i, j \in 0 .. MaxPages :
        (i < j /\ Walk(p)[j] # InvalidPage) => Walk(p)[i] \in Page /\ Walk(p)[i] < Walk(p)[j]
  BY <1>1, WalkOrder
<1>6. ASSUME NEW r \in LiveIn(h), ~ Less(r, <<p, s>>)
      PROVE  \E i \in 0 .. MaxPages : <<i, r[2]>> \in Ahead(p, s) /\ Walk(p)[i] = r[1] /\ r = <<r[1], r[2]>>
  <2>1. Live(r) /\ r[1] \in Chain(x)
    BY LiveOnChain
  <2>2. r \in Page \X (0 .. Capacity) /\ r = <<r[1], r[2]>>
    BY <2>1, RIDIs DEF Live
  <2>3. r[1] >= p /\ (r[1] = p => r[2] >= s)
    BY <1>4, <1>6, <2>2, HeapAssumption DEF Less
  <2>4. r[1] \in Chain(p)
    BY <1>1, <1>2, <2>1, <2>3, ChainRest
  <2>5. PICK i \in 0 .. MaxPages : r[1] = Walk(p)[i]
    BY <2>4 DEF Chain
  <2>6. <<i, r[2]>> \in (0 .. MaxPages) \X (0 .. Capacity) /\ <<Walk(p)[i], r[2]>> = r
    BY <2>2, <2>5
  <2>7. i = 0 => r[2] >= s
    BY <1>3, <2>3, <2>5
  <2>8. <<i, r[2]>> \in Ahead(p, s)
    BY <2>1, <2>6, <2>7 DEF Ahead
  <2> QED BY <2>2, <2>5, <2>8
<1>7. ASSUME NEW y \in Ahead(p, s)
      PROVE  /\ y[1] \in 0 .. MaxPages /\ y[2] \in Nat /\ y = <<y[1], y[2]>>
             /\ <<Walk(p)[y[1]], y[2]>> \in LiveIn(h)
             /\ ~ Less(<<Walk(p)[y[1]], y[2]>>, <<p, s>>)
  <2>1. /\ y \in (0 .. MaxPages) \X (0 .. Capacity)
        /\ Live(<<Walk(p)[y[1]], y[2]>>) /\ (y[1] = 0 => y[2] >= s)
    BY DEF Ahead
  <2>2. Walk(p)[y[1]] \in Page
    BY <2>1, RIDIs DEF Live
  <2>3. Walk(p)[y[1]] \in Chain(p)
    BY <2>1, <2>2 DEF Chain
  <2>4. <<Walk(p)[y[1]], y[2]>> \in LiveIn(h)
    BY <1>2, <2>1, <2>3, LiveOnChain
  <2>5. y[1] # 0 => p < Walk(p)[y[1]]
    BY <1>3, <1>4, <1>5, <2>1, <2>2
  <2>6. ~ Less(<<Walk(p)[y[1]], y[2]>>, <<p, s>>)
    BY <1>3, <1>4, <2>1, <2>2, <2>5, HeapAssumption DEF Less
  <2> QED BY <2>1, <2>4, <2>6, HeapAssumption
<1>8. CASE /\ Ahead(p, s) = {}
           /\ currPage' = InvalidPage /\ currSlot' = 0 /\ hasNext' = FALSE
  BY <1>6, <1>8
<1>9. ASSUME NEW y \in Ahead(p, s), \A z \in Ahead(p, s) : z = y \/ Before(y, z),
             currPage' = Walk(p)[y[1]], currSlot' = y[2], hasNext' = TRUE
      PROVE  /\ <<currPage', currSlot'>> \in LiveIn(h)
             /\ ~ Less(<<currPage', currSlot'>>, <<p, s>>)
             /\ \A r \in LiveIn(h) : \/ Less(r, <<p, s>>)
                                      \/ r = <<currPage', currSlot'>>
                                      \/ Less(<<currPage', currSlot'>>, r)
  <2>1. <<currPage', currSlot'>> \in LiveIn(h) /\ ~ Less(<<currPage', currSlot'>>, <<p, s>>)
    BY <1>7, <1>9
  <2>2. ASSUME NEW r \in LiveIn(h), ~ Less(r, <<p, s>>)
        PROVE  r = <<currPage', currSlot'>> \/ Less(<<currPage', currSlot'>>, r)
    <3>1. PICK i \in 0 .. MaxPages : <<i, r[2]>> \in Ahead(p, s) /\ Walk(p)[i] = r[1] /\ r = <<r[1], r[2]>>
      BY <1>6, <2>2
    <3>2. <<i, r[2]>> = y \/ Before(y, <<i, r[2]>>)
      BY <1>9, <3>1
    <3>3. CASE <<i, r[2]>> = y
      BY <1>9, <3>1, <3>3
    <3>4. CASE y[1] < i
      <4>1. r[1] \in Page
        BY RIDIs, LiveOnChain DEF Live
      <4>2. Walk(p)[y[1]] < r[1]
        BY <1>4, <1>5, <1>7, <3>1, <3>4, <4>1
      <4> QED BY <1>9, <4>2 DEF Less
    <3>5. CASE y[1] = i /\ y[2] < r[2]
      BY <1>9, <3>1, <3>5 DEF Less
    <3> QED BY <3>2, <3>3, <3>4, <3>5 DEF Before
  <2> QED BY <2>1, <2>2
<1> QED
  BY <1>8, <1>9 DEF Advance

----------------------------------------------------------------------------
(* The steps of a scan.  A step leaves the heaps as they are and moves the  *)
(* position, or is a call of the caller, which leaves the position.         *)

\* Less is an order of the RIDs.
LEMMA LessOrders ==
  /\ \A a, b, c \in Page \X Nat : Less(a, b) /\ Less(b, c) => Less(a, c)
  /\ \A a, b \in Page \X Nat : Less(a, b) => a # b /\ ~ Less(b, a)
  /\ \A a \in Page \X Nat : \A p \in Page, s \in Nat :
       Less(a, <<p, s + 1>>) <=> Less(a, <<p, s>>) \/ a = <<p, s>>
<1>1. \A p \in Page : p \in Nat
  BY DEF Page
<1>2. \A a \in Page \X Nat : a = <<a[1], a[2]>> /\ a[1] \in Nat /\ a[2] \in Nat
  BY <1>1
<1> QED
  BY <1>1, <1>2 DEF Less

\* Everything about rows is as it was when the heaps are.
LEMMA SameRows ==
  ASSUME StoreInv, UNCHANGED vars
  PROVE  StoreInv' /\ Rows' = Rows /\ UsedRIDs' = UsedRIDs
<1>1. StoreInv' /\ [Contract!Next]_Contract!vars
  BY StepStore
<1>2. content' = content /\ first' = first
  BY DEF vars
<1>3. Grows
  BY <1>2 DEF Grows, Leads, Exists
<1>4. Rows' = Rows
  BY <1>1, <1>2, <1>3, RowsUnchanged DEF StoreInv, Slots, Exists, RecordAt
<1>5. DOMAIN Rows = UsedRIDs /\ DOMAIN Rows' = UsedRIDs'
  BY DEF Rows
<1> QED
  BY <1>1, <1>4, <1>5

\* A live record in terms of rows.
LEMMA LiveIs == \A r : Live(r) <=> r \in DOMAIN Rows /\ Rows[r].rec.len > 0
BY RowIs DEF Live

LEMMA LiveIsNext == (\A r : Live(r) <=> r \in DOMAIN Rows /\ Rows[r].rec.len > 0)'
BY LiveIs, PTL

\* RIDs stay with their heap, whatever call is made.
LEMMA CallsKeep ==
  ASSUME StoreInv, [Next]_vars
  PROVE  StoreInv' /\ \A r \in DOMAIN Rows : r \in DOMAIN Rows' /\ Rows'[r].heap = Rows[r].heap
<1>1. StoreInv' /\ [Contract!Next]_Contract!vars
  BY StepStore
<1>2. \A r \in DOMAIN Rows : Rows[r] = [heap |-> Rows[r].heap, rec |-> Rows[r].rec]
  BY DEF Rows
<1>3. CASE UNCHANGED Rows
  BY <1>1, <1>3
<1>4. ASSUME NEW h \in Heap, NEW d \in Data, NEW r, Contract!Insert(h, d, r)
      PROVE  \A q \in DOMAIN Rows : q \in DOMAIN Rows' /\ Rows'[q].heap = Rows[q].heap
  BY <1>4 DEF Contract!Insert, Contract!Writes
<1>5. ASSUME NEW r \in DOMAIN Rows, NEW rec, Contract!Writes(r, [Rows[r] EXCEPT !.rec = rec])
      PROVE  \A q \in DOMAIN Rows : q \in DOMAIN Rows' /\ Rows'[q].heap = Rows[q].heap
  <2>1. Rows'[r].heap = Rows[r].heap
    BY <1>2, <1>5 DEF Contract!Writes
  <2> QED BY <1>5, <2>1 DEF Contract!Writes
<1>6. ASSUME NEW r \in DOMAIN Rows, Contract!Delete(r)
      PROVE  \A q \in DOMAIN Rows : q \in DOMAIN Rows' /\ Rows'[q].heap = Rows[q].heap
  BY <1>5, <1>6 DEF Contract!Delete
<1>7. ASSUME NEW r \in DOMAIN Rows, NEW d \in Data, Contract!Update(r, d)
      PROVE  \A q \in DOMAIN Rows : q \in DOMAIN Rows' /\ Rows'[q].heap = Rows[q].heap
  BY <1>5, <1>7 DEF Contract!Update
<1>8. CASE \E h \in Heap : Contract!Create(h) \/ \E d \in Data : Contract!InsertRefused(h, d)
  BY <1>3, <1>8 DEF Contract!Create, Contract!InsertRefused
<1>9. CASE \E r \in DOMAIN Rows, d \in Data : Contract!UpdateRefused(r, d)
  BY <1>3, <1>9 DEF Contract!UpdateRefused
<1>10. CASE UNCHANGED Contract!vars
  BY <1>3, <1>10 DEF Contract!vars
<1> QED
  BY <1>1, <1>4, <1>6, <1>7, <1>8, <1>9, <1>10 DEF Contract!Next

\* No scan goes on before the first begin().
LEMMA InitIter == IterInit => IterInv
<1> SUFFICES ASSUME IterInit
             PROVE  IterInv
  OBVIOUS
<1>1. StoreInv
  BY InitStore DEF IterInit
<1>2. returned = <<>> /\ returned \in Seq(Page \X Nat) /\ Len(returned) = 0
  BY DEF IterInit
<1>3. IterType
  BY <1>2 DEF IterInit, IterType
<1>4. InOrder
  BY <1>2 DEF IterInit, InOrder
<1>5. Covered
  BY DEF IterInit, Covered
<1> QED
  BY <1>1, <1>3, <1>4, <1>5 DEF IterInit, IterInv

\* Where Advance() leads, the scan can go on: what it returned is behind, and what
\* is not returned is ahead.
LEMMA AdvanceKeeps ==
  ASSUME IterInv, NEW h \in Heap, UNCHANGED vars, scan' = h,
         NEW p \in Page, p \in Chain(first[h]), NEW s \in Nat, Advance(p, s),
         returned' \in Seq(Page \X Nat),
         \A i \in 1 .. Len(returned') :
           /\ returned'[i] \in DOMAIN Rows /\ Rows[returned'[i]].heap = h
           /\ Less(returned'[i], <<p, s>>),
         \A i, j \in 1 .. Len(returned') : i < j => Less(returned'[i], returned'[j]),
         throughout' \subseteq LiveIn(h),
         \A r \in throughout' :
           Less(r, <<p, s>>) => \E i \in 1 .. Len(returned') : returned'[i] = r
  PROVE  IterInv'
<1> DEFINE c == <<currPage', currSlot'>>
<1>1. StoreInv /\ StoreInv' /\ Rows' = Rows /\ UsedRIDs' = UsedRIDs /\ DOMAIN Rows = UsedRIDs
  BY SameRows, RowIs DEF IterInv
<1>2. \A r : r \in LiveIn(h) => r \in Page \X Nat /\ r \in DOMAIN Rows' /\ Rows'[r].heap = h
  BY <1>1, RIDIs, HeapAssumption DEF LiveIn
<1>3. \A r \in LiveIn(h) : Live(r)'
  BY <1>1, LiveIsNext DEF LiveIn
<1>4. \/ /\ hasNext' = FALSE /\ currPage' = InvalidPage /\ currSlot' = 0
         /\ \A r \in LiveIn(h) : Less(r, <<p, s>>)
      \/ /\ hasNext' = TRUE /\ c \in LiveIn(h) /\ ~ Less(c, <<p, s>>)
         /\ \A r \in LiveIn(h) : Less(r, <<p, s>>) \/ r = c \/ Less(c, r)
  BY <1>1, AdvanceMoves
<1>5. \A i \in 1 .. Len(returned') : returned'[i] \in Page \X Nat
  OBVIOUS
<1>6. h # "none" /\ Page' = Page
  BY NoScanAssumption DEF Page
<1>7. IterType'
  <2>1. c \in LiveIn(h) => currPage' \in Page /\ currSlot' \in Nat
    BY <1>2
  <2> HIDE DEF c
  <2>2. currPage' \in Page \cup {InvalidPage} /\ currSlot' \in Nat /\ hasNext' \in BOOLEAN
    <3>1. CASE hasNext' = FALSE /\ currPage' = InvalidPage /\ currSlot' = 0
      BY <3>1
    <3>2. CASE hasNext' = TRUE /\ c \in LiveIn(h)
      BY <2>1, <3>2
    <3> QED BY <1>4, <3>1, <3>2
  <2> QED BY <1>6, <2>2 DEF IterType, InvalidPage
<1>8. (IF hasNext THEN Mine(Current) ELSE currPage = InvalidPage /\ currSlot = 0)'
  BY <1>1, <1>2, <1>4 DEF Mine, Current
<1>9. InOrder'
  <2>1. \A i \in 1 .. Len(returned') : hasNext' => Less(returned'[i], c)
    BY <1>2, <1>4, <1>5 DEF Less, Page
  <2> QED BY <1>1, <2>1 DEF InOrder, Mine, Current
<1>10. Covered'
  BY <1>2, <1>3, <1>4 DEF Covered, Mine, Current, Returned
<1> QED
  BY <1>1, <1>6, <1>7, <1>8, <1>9, <1>10 DEF IterInv

\* begin(): nothing of the chain is before slot 0 of its first page.
LEMMA BeginKeeps ==
  ASSUME IterInv, NEW h \in Heap, Begin(h)
  PROVE  IterInv'
<1> PICK p : p = first[h]
  OBVIOUS
<1>1. /\ UNCHANGED vars /\ scan' = h /\ Advance(p, 0) /\ p # InvalidPage
      /\ returned' = <<>> /\ throughout' = {r \in UsedRIDs : Live(r) /\ HeapOf(r[1]) = h}
  BY DEF Begin
<1>2. Linked /\ p \in Page /\ p \in Nat
  <2>1. Linked /\ first[h] \in Page \cup {InvalidPage}
    BY InvLinked DEF IterInv, StoreInv, Inv, TypeOK
  <2> QED BY <1>1, <2>1 DEF Page
<1>3. p \in Chain(first[h])
  BY <1>2, ChainStarts
<1>4. throughout' \subseteq LiveIn(h)
  BY <1>1, RowIs DEF LiveIn, Live
<1>5. \A r \in LiveIn(h) : ~ Less(r, <<p, 0>>)
  <2> SUFFICES ASSUME NEW r \in LiveIn(h)
               PROVE  ~ Less(r, <<p, 0>>)
    OBVIOUS
  <2>1. Live(r) /\ r[1] \in Chain(p)
    BY LiveOnChain DEF IterInv
  <2>2. r[1] \in Nat /\ r[2] \in Nat
    BY <2>1, RIDIs, HeapAssumption DEF IterInv, Live, Page
  <2>3. r[1] >= p
    BY <1>2, <2>1, ChainAbove
  <2> QED BY <1>2, <2>2, <2>3 DEF Less
<1>6. returned' \in Seq(Page \X Nat) /\ Len(returned') = 0
  BY <1>1
<1> QED
  BY <1>1, <1>2, <1>3, <1>4, <1>5, <1>6, AdvanceKeeps

\* The position is a record of the heap that is scanned.
LEMMA CurrentFacts ==
  ASSUME IterInv, hasNext
  PROVE  /\ scan \in Heap /\ currPage \in Page /\ currSlot \in Nat /\ currSlot + 1 \in Nat
         /\ currPage \in Chain(first[scan])
         /\ Current \in DOMAIN Rows /\ Rows[Current].heap = scan /\ Current \in Page \X Nat
         /\ throughout \subseteq LiveIn(scan)
         /\ returned \in Seq(Page \X Nat)
         /\ \A i \in 1 .. Len(returned) : returned[i] \in DOMAIN Rows /\ Rows[returned[i]].heap = scan
<1>1. scan \in Heap
  BY DEF IterInv, IterType
<1>2. Current \in UsedRIDs /\ HeapOf(Current[1]) = scan /\ Rows[Current].heap = scan
  BY RowIs DEF IterInv, Mine
<1>3. currPage \in Page /\ Exists(currPage) /\ currSlot \in Nat
  BY <1>2, RIDIs DEF IterInv, IterType, Current
<1>4. PICK g \in Heap : currPage \in Chain(first[g])
  BY <1>3 DEF IterInv, StoreInv, Owned
<1>5. g = scan
  BY <1>2, <1>3, <1>4, HeapOfIs DEF IterInv, StoreInv, Current
<1>6. throughout \subseteq LiveIn(scan)
  BY LiveIs DEF IterInv, Covered, Mine, LiveIn
<1>7. \A i \in 1 .. Len(returned) : returned[i] \in DOMAIN Rows /\ Rows[returned[i]].heap = scan
  BY DEF IterInv, InOrder, Mine
<1> QED
  BY <1>1, <1>2, <1>3, <1>4, <1>5, <1>6, <1>7, RowIs DEF IterInv, IterType, Current

\* Next() adds the current record to those returned, all of them before it.
LEMMA ReturnKeeps ==
  ASSUME IterInv, hasNext, ~ Taken, NEW list, list = Append(returned, Current)
  PROVE  /\ list \in Seq(Page \X Nat) /\ Len(list) = Len(returned) + 1 /\ Len(returned) \in Nat
         /\ list[Len(list)] = Current
         /\ \A i \in 1 .. Len(returned) : list[i] = returned[i] /\ Less(returned[i], Current)
         /\ \A i, j \in 1 .. Len(list) : i < j => Less(list[i], list[j])
<1>1. returned \in Seq(Page \X Nat) /\ Current \in Page \X Nat
  BY CurrentFacts
<1>2. Len(returned) \in Nat /\ \A i \in 1 .. Len(returned) : returned[i] \in Page \X Nat
  BY <1>1
<1>3. /\ list \in Seq(Page \X Nat) /\ Len(list) = Len(returned) + 1
      /\ list[Len(returned) + 1] = Current
      /\ \A i \in 1 .. Len(returned) : list[i] = returned[i]
  BY <1>1
<1>4. /\ \A i, j \in 1 .. Len(returned) : i < j => Less(returned[i], returned[j])
      /\ \A i \in 1 .. Len(returned) : returned[i] = Current \/ Less(returned[i], Current)
  BY DEF IterInv, InOrder
<1>5. ASSUME NEW i \in 1 .. Len(returned)
      PROVE  Less(returned[i], Current)
  <2> DEFINE n == Len(returned)
  <2>1. n \in 1 .. n /\ returned # <<>>
    BY <1>2, <1>5
  <2>2. Less(returned[n], Current)
    BY <1>4, <2>1 DEF Taken
  <2>3. CASE i = n
    BY <2>2, <2>3
  <2>4. CASE i < n
    <3>1. Less(returned[i], returned[n])
      BY <1>4, <2>1, <2>4
    <3> QED BY <1>1, <1>2, <2>1, <2>2, <3>1, LessOrders
  <2> QED BY <1>2, <2>3, <2>4
<1>6. ASSUME NEW i \in 1 .. Len(list), NEW j \in 1 .. Len(list), i < j
      PROVE  Less(list[i], list[j])
  <2>1. i \in 1 .. Len(returned)
    BY <1>2, <1>3, <1>6
  <2>2. CASE j = Len(returned) + 1
    BY <1>3, <1>5, <2>1, <2>2
  <2>3. CASE j \in 1 .. Len(returned)
    BY <1>3, <1>4, <1>6, <2>1, <2>3
  <2> QED BY <1>2, <1>3, <2>2, <2>3
<1> QED
  BY <1>2, <1>3, <1>5, <1>6

\* Next() returns the record it stands on and goes on past it.
LEMMA NextRecordKeeps == IterInv /\ NextRecord => IterInv'
<1> SUFFICES ASSUME IterInv, NextRecord
             PROVE  IterInv'
  OBVIOUS
<1>1. /\ hasNext /\ ~ Taken /\ UNCHANGED vars /\ scan' = scan /\ throughout' = throughout
      /\ Advance(currPage, currSlot + 1)
  BY DEF NextRecord
<1> PICK list : list = Append(returned, Current)
  OBVIOUS
<1>2. returned' = list
  BY DEF NextRecord
<1>3. /\ list \in Seq(Page \X Nat) /\ Len(list) = Len(returned) + 1 /\ Len(returned) \in Nat
      /\ list[Len(list)] = Current
      /\ \A i \in 1 .. Len(returned) : list[i] = returned[i] /\ Less(returned[i], Current)
      /\ \A i, j \in 1 .. Len(list) : i < j => Less(list[i], list[j])
  BY <1>1, ReturnKeeps
<1>4. /\ scan \in Heap /\ currPage \in Page /\ currSlot \in Nat /\ currSlot + 1 \in Nat
      /\ currPage \in Chain(first[scan])
      /\ Current \in DOMAIN Rows /\ Rows[Current].heap = scan /\ Current \in Page \X Nat
      /\ throughout \subseteq LiveIn(scan)
      /\ \A i \in 1 .. Len(returned) : returned[i] \in DOMAIN Rows /\ Rows[returned[i]].heap = scan
  BY <1>1, CurrentFacts
<1>5. \A a \in Page \X Nat :
        Less(a, <<currPage, currSlot + 1>>) <=> Less(a, Current) \/ a = Current
  BY <1>4, LessOrders DEF Current
<1>6. ASSUME NEW i \in 1 .. Len(list)
      PROVE  /\ list[i] \in DOMAIN Rows /\ Rows[list[i]].heap = scan
             /\ Less(list[i], <<currPage, currSlot + 1>>)
  <2>1. list[i] \in Page \X Nat
    BY <1>3
  <2>2. CASE i = Len(list)
    BY <1>3, <1>4, <1>5, <2>2
  <2>3. CASE i \in 1 .. Len(returned)
    BY <1>3, <1>4, <1>5, <2>1, <2>3
  <2> QED BY <1>3, <2>2, <2>3
<1>7. ASSUME NEW r \in throughout, Less(r, <<currPage, currSlot + 1>>)
      PROVE  \E i \in 1 .. Len(list) : list[i] = r
  <2>1. r \in Page \X Nat
    BY <1>4, RIDIs, RowIs, HeapAssumption DEF LiveIn, IterInv
  <2>2. Less(r, Current) \/ r = Current
    BY <1>5, <1>7, <2>1
  <2>3. r \in Returned \/ r = Current
    BY <1>4, <2>1, <2>2, LessOrders DEF IterInv, Covered
  <2>4. Len(list) \in 1 .. Len(list) /\ 1 .. Len(returned) \subseteq 1 .. Len(list)
    BY <1>3
  <2> QED BY <1>3, <2>3, <2>4 DEF Returned
<1>8. /\ returned' \in Seq(Page \X Nat)
      /\ \A i, j \in 1 .. Len(returned') : i < j => Less(returned'[i], returned'[j])
  BY <1>2, <1>3
<1>9. \A i \in 1 .. Len(returned') :
        /\ returned'[i] \in DOMAIN Rows /\ Rows[returned'[i]].heap = scan
        /\ Less(returned'[i], <<currPage, currSlot + 1>>)
  BY <1>2, <1>6
<1>10. /\ throughout' \subseteq LiveIn(scan)
       /\ \A r \in throughout' :
            Less(r, <<currPage, currSlot + 1>>) => \E i \in 1 .. Len(returned') : returned'[i] = r
  BY <1>1, <1>2, <1>4, <1>7
<1>11. PICK s \in Nat : s = currSlot + 1
  BY <1>4
<1>12. Advance(currPage, s)
  BY <1>1, <1>11
<1>13. \A i \in 1 .. Len(returned') :
         /\ returned'[i] \in DOMAIN Rows /\ Rows[returned'[i]].heap = scan
         /\ Less(returned'[i], <<currPage, s>>)
  BY <1>9, <1>11
<1>14. \A r \in throughout' :
         Less(r, <<currPage, s>>) => \E i \in 1 .. Len(returned') : returned'[i] = r
  BY <1>10, <1>11
<1>15. scan' = scan /\ UNCHANGED vars /\ throughout' \subseteq LiveIn(scan)
  BY <1>1, <1>10
<1> QED
  BY <1>4, <1>8, <1>12, <1>13, <1>14, <1>15, AdvanceKeeps

\* operator++ goes on past the record that operator* returned.
LEMMA IncrementKeeps == IterInv /\ Increment => IterInv'
<1> SUFFICES ASSUME IterInv, Increment
             PROVE  IterInv'
  OBVIOUS
<1>1. /\ hasNext /\ Taken /\ UNCHANGED vars /\ scan' = scan /\ throughout' = throughout
      /\ returned' = returned /\ Advance(currPage, currSlot + 1)
  BY DEF Increment
<1>2. /\ scan \in Heap /\ currPage \in Page /\ currSlot \in Nat /\ currSlot + 1 \in Nat
      /\ currPage \in Chain(first[scan])
      /\ Current \in Page \X Nat
      /\ throughout \subseteq LiveIn(scan)
      /\ returned \in Seq(Page \X Nat)
      /\ \A i \in 1 .. Len(returned) : returned[i] \in DOMAIN Rows /\ Rows[returned[i]].heap = scan
  BY <1>1, CurrentFacts
<1>3. \A a \in Page \X Nat :
        Less(a, <<currPage, currSlot + 1>>) <=> Less(a, Current) \/ a = Current
  BY <1>2, LessOrders DEF Current
<1>4. /\ \A i, j \in 1 .. Len(returned) : i < j => Less(returned[i], returned[j])
      /\ \A i \in 1 .. Len(returned) : returned[i] = Current \/ Less(returned[i], Current)
  BY <1>1 DEF IterInv, InOrder
<1>5. ASSUME NEW i \in 1 .. Len(returned)
      PROVE  /\ returned[i] \in DOMAIN Rows /\ Rows[returned[i]].heap = scan
             /\ Less(returned[i], <<currPage, currSlot + 1>>)
  <2>1. returned[i] \in Page \X Nat
    BY <1>2
  <2> QED BY <1>2, <1>3, <1>4, <2>1
<1>6. ASSUME NEW r \in throughout, Less(r, <<currPage, currSlot + 1>>)
      PROVE  \E i \in 1 .. Len(returned) : returned[i] = r
  <2>1. r \in Page \X Nat
    BY <1>2, RIDIs, RowIs, HeapAssumption DEF LiveIn, IterInv
  <2>2. Less(r, Current) \/ r = Current
    BY <1>3, <1>6, <2>1
  <2>3. r \in Returned \/ r = Current
    BY <1>2, <2>1, <2>2, LessOrders DEF IterInv, Covered
  <2>4. Len(returned) \in 1 .. Len(returned)
    BY <1>1, <1>2 DEF Taken
  <2> QED BY <1>1, <2>3, <2>4 DEF Returned, Taken
<1> QED
  BY <1>1, <1>2, <1>4, <1>5, <1>6, AdvanceKeeps

\* operator* returns the record and stays on it.
LEMMA DereferenceKeeps == IterInv /\ Dereference => IterInv'
<1> SUFFICES ASSUME IterInv, Dereference
             PROVE  IterInv'
  OBVIOUS
<1>1. /\ hasNext /\ ~ Taken /\ UNCHANGED vars /\ scan' = scan /\ throughout' = throughout
      /\ currPage' = currPage /\ currSlot' = currSlot /\ hasNext' = hasNext
  BY DEF Dereference
<1> PICK list : list = Append(returned, Current)
  OBVIOUS
<1>2. returned' = list
  BY DEF Dereference
<1>3. /\ list \in Seq(Page \X Nat) /\ Len(list) = Len(returned) + 1 /\ Len(returned) \in Nat
      /\ list[Len(list)] = Current
      /\ \A i \in 1 .. Len(returned) : list[i] = returned[i] /\ Less(returned[i], Current)
      /\ \A i, j \in 1 .. Len(list) : i < j => Less(list[i], list[j])
  BY <1>1, ReturnKeeps
<1>4. StoreInv' /\ Rows' = Rows /\ UsedRIDs' = UsedRIDs /\ Current' = Current /\ Page' = Page
  BY <1>1, SameRows DEF IterInv, Current, Page
<1>5. /\ scan \in Heap /\ Mine(Current)
      /\ \A i \in 1 .. Len(returned) : Mine(returned[i])
      /\ \A r \in throughout : Mine(r) /\ Live(r) /\ (r \in Returned \/ r = Current \/ Less(Current, r))
  BY <1>1 DEF IterInv, IterType, InOrder, Covered, Mine
<1>6. \A r : (Mine(r) <=> Mine(r)') /\ (Live(r) <=> Live(r)')
  BY <1>1, <1>4, LiveIs, LiveIsNext DEF Mine
<1>7. \A i \in 1 .. Len(list) : i = Len(list) \/ i \in 1 .. Len(returned)
  BY <1>3
<1>8. IterType'
  BY <1>1, <1>2, <1>3, <1>4 DEF IterInv, IterType, InvalidPage
<1>9. InOrder'
  <2>1. \A i \in 1 .. Len(list) : Mine(list[i])'
    BY <1>3, <1>5, <1>6, <1>7
  <2>2. \A i \in 1 .. Len(list) : list[i] = Current \/ Less(list[i], Current)
    BY <1>3, <1>7
  <2> QED BY <1>2, <1>3, <1>4, <2>1, <2>2 DEF InOrder
<1>10. Covered'
  <2>1. \A r \in Returned : r \in Returned'
    <3>1. \A i \in 1 .. Len(returned) : i \in 1 .. Len(list)
      BY <1>3
    <3> QED BY <1>2, <1>3, <3>1 DEF Returned
  <2> QED BY <1>1, <1>4, <1>5, <1>6, <2>1 DEF Covered
<1>11. scan # "none"
  BY <1>5, NoScanAssumption
<1> QED
  BY <1>1, <1>4, <1>5, <1>6, <1>8, <1>9, <1>10, <1>11 DEF IterInv

\* What the caller does leaves the position where it is, and what was returned with
\* its heap; what was there throughout and is no longer, needs not be returned.
LEMMA CallerKeeps == IterInv /\ CallerChanges => IterInv'
<1> SUFFICES ASSUME IterInv, CallerChanges
             PROVE  IterInv'
  OBVIOUS
<1>1. /\ scan' = scan /\ currPage' = currPage /\ currSlot' = currSlot /\ hasNext' = hasNext
      /\ returned' = returned
  BY DEF CallerChanges
<1>2. \A r : r \in throughout' <=> r \in throughout /\ Live(r)'
  BY DEF CallerChanges
<1>3. StoreInv' /\ \A r \in DOMAIN Rows : r \in DOMAIN Rows' /\ Rows'[r].heap = Rows[r].heap
  BY CallsKeep DEF IterInv, CallerChanges
<1>4. \A r : Mine(r) => Mine(r)'
  BY <1>1, <1>3 DEF Mine
<1>5. Current' = Current /\ Returned' = Returned /\ Page' = Page
  BY <1>1 DEF Current, Returned, Page
<1>6. IterType'
  BY <1>1, <1>5 DEF IterInv, IterType, InvalidPage
<1>7. InOrder'
  BY <1>1, <1>4, <1>5 DEF IterInv, InOrder
<1>8. Covered'
  BY <1>1, <1>2, <1>4, <1>5 DEF IterInv, Covered
<1>9. throughout = {} => throughout' = {}
  BY <1>2
<1>10. (IF hasNext THEN Mine(Current) ELSE currPage = InvalidPage /\ currSlot = 0)'
  BY <1>1, <1>4, <1>5 DEF IterInv, InvalidPage
<1> QED
  BY <1>1, <1>3, <1>6, <1>7, <1>8, <1>9, <1>10 DEF IterInv

\* A scan that ended leaves nothing of itself.
LEMMA FinishKeeps == IterInv /\ (Finish \/ UNCHANGED <<vars, iterVars>>) => IterInv'
<1> SUFFICES ASSUME IterInv, Finish \/ UNCHANGED <<vars, iterVars>>
             PROVE  IterInv'
  OBVIOUS
<1>1. /\ UNCHANGED vars
      /\ currPage' = currPage /\ currSlot' = currSlot /\ hasNext' = hasNext
  BY DEF Finish, iterVars
<1>2. StoreInv' /\ Rows' = Rows /\ UsedRIDs' = UsedRIDs /\ Current' = Current /\ Page' = Page
  BY <1>1, SameRows DEF IterInv, Current, Page
<1>3. CASE Finish
  <2>1. ~ hasNext /\ scan' = "none" /\ returned' = <<>> /\ throughout' = {}
    BY <1>3 DEF Finish
  <2>2. returned' \in Seq(Page \X Nat) /\ Len(returned') = 0
    BY <2>1
  <2>3. IterType'
    BY <1>1, <1>2, <2>1, <2>2 DEF IterInv, IterType, InvalidPage
  <2>4. InOrder'
    BY <1>1, <2>1, <2>2 DEF InOrder
  <2>5. Covered'
    BY <2>1 DEF Covered
  <2> QED BY <1>1, <1>2, <2>1, <2>3, <2>4, <2>5 DEF IterInv, InvalidPage
<1>4. CASE UNCHANGED iterVars
  <2>1. scan' = scan /\ returned' = returned /\ throughout' = throughout
    BY <1>4 DEF iterVars
  <2>2. \A r : (Mine(r) <=> Mine(r)') /\ (Live(r) <=> Live(r)')
    BY <1>2, <2>1, LiveIs, LiveIsNext DEF Mine
  <2>3. IterType'
    BY <1>1, <1>2, <2>1 DEF IterInv, IterType, InvalidPage
  <2>4. InOrder'
    BY <1>1, <1>2, <2>1, <2>2 DEF IterInv, InOrder
  <2>5. Covered'
    BY <1>1, <1>2, <2>1, <2>2 DEF IterInv, Covered, Returned
  <2> QED BY <1>1, <1>2, <2>1, <2>2, <2>3, <2>4, <2>5 DEF IterInv, InvalidPage
<1> QED
  BY <1>3, <1>4

\* The invariant of a scan and its caller.
THEOREM ScanInvariant == IterSpec => []IterInv
<1>1. IterInv /\ [IterNext]_<<vars, iterVars>> => IterInv'
  BY BeginKeeps, NextRecordKeeps, DereferenceKeeps, IncrementKeeps, CallerKeeps, FinishKeeps
     DEF IterNext
<1> QED
  BY <1>1, InitIter, PTL DEF IterSpec

\* A scan returns no record twice and none of another heap, for any heaps and
\* whatever its caller inserts, moves and deletes between its calls.
THEOREM ScansReturnOnce == IterSpec => []NoDuplicates
<1>1. IterInv => NoDuplicates
  <2> SUFFICES ASSUME IterInv
               PROVE  NoDuplicates
    OBVIOUS
  <2>1. /\ \A i \in 1 .. Len(returned) : returned[i] \in Page \X Nat
        /\ \A i \in 1 .. Len(returned) : Mine(returned[i])
        /\ \A i, j \in 1 .. Len(returned) : i < j => Less(returned[i], returned[j])
        /\ Len(returned) \in Nat
    BY DEF IterInv, IterType, InOrder
  <2>2. ASSUME NEW i \in 1 .. Len(returned), NEW j \in 1 .. Len(returned), i < j
        PROVE  returned[i] # returned[j]
    BY <2>1, <2>2, LessOrders
  <2>3. \A i, j \in 1 .. Len(returned) : returned[i] = returned[j] => i = j
    BY <2>1, <2>2
  <2>4. \A r \in Returned : HeapOf(r[1]) = scan
    BY <2>1, RowIs DEF Returned, Mine
  <2> QED BY <2>3, <2>4 DEF NoDuplicates
<1> QED
  BY <1>1, ScanInvariant, PTL

\* When a scan ends it has returned every record of the heap that was there from
\* begin() on, and equals end().
THEOREM ScansMissNothing == IterSpec => []ScanComplete
<1>1. IterInv => ScanComplete
  BY DEF IterInv, Covered, ScanComplete
<1> QED
  BY <1>1, ScanInvariant, PTL
============================================================================
