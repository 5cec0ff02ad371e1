--------------------------- MODULE Catalog_proofs ---------------------------
(***************************************************************************)
(* Proofs about Catalog for any names, schemas, sizes of rows and pages.   *)
(*                                                                         *)
(* The three catalog heaps have no page in common, in the pool and in the  *)
(* file: a page that a heap takes is the next page id, which no page has;  *)
(* and the file is an older version of the pool, in which a link is there  *)
(* or not yet, so that what a crash leaves of a heap is part of what it    *)
(* was.  Rows stay in their places, a page and a slot, and a scan meets    *)
(* them in the order of places.  What GetColumns() and Lookup() say, now   *)
(* and after crashes, follows from where first fit puts a row.  All this   *)
(* is so as long as calls find the catalog heaps whole (sound): a call     *)
(* that follows a link to a page which a crash took may do anything.       *)
(*                                                                         *)
(* A TableManager on top only reads, and what it read stays true.          *)
(***************************************************************************)
EXTENDS TableManager, WellFoundedInduction, TLAPS

\* A nonempty set of natural numbers has a least element.
LEMMA LeastOf ==
  ASSUME NEW T \in SUBSET Nat, T # {}
  PROVE  \E x \in T : \A y \in T : x <= y
<1> DEFINE R == {p \in Nat \X Nat : p[1] < p[2]}
<1>1. IsWellFoundedOn(R, Nat)
  BY NatLessThanWellFounded DEF OpToRel
<1>2. PICK x \in T : \A y \in T : ~ (<<y, x>> \in R)
  BY <1>1, WFMin
<1>3. \A y \in T : x <= y
  <2> SUFFICES ASSUME NEW y \in T
               PROVE  x <= y
    OBVIOUS
  <2>1. ~ (y < x)
    BY <1>2
  <2> QED BY <2>1
<1> QED
  BY <1>2, <1>3

LEMMA ConstantFacts ==
  /\ MaxPages \in Nat /\ MaxPages >= 4 /\ Capacity \in Nat /\ MaxTables \in Nat
  /\ TablesRoot = 1 /\ AttributesRoot = 2 /\ TypesRoot = 3 /\ NoPage = -1
  /\ System \subseteq Page /\ Page \subseteq Nat /\ NoPage \notin Page /\ 0 \in Page
  /\ System = {TablesRoot, AttributesRoot, TypesRoot}
BY CatalogAssumption
DEF TablesRoot, AttributesRoot, TypesRoot, NoPage, System, Page

----------------------------------------------------------------------------
(* Walks along links that lead forward.                                    *)

\* Where a walk along a heap goes from p.
Onward(disk, p) == IF Ends(disk, p) THEN NoPage ELSE disk[p].next

LinkedUp(disk) ==
  \A p \in Page : (disk[p] # Unwritten /\ disk[p].next # NoPage) =>
    disk[p].next \in Page /\ p < disk[p].next

\* The pages of a heap.
PagesOf(disk, root) == {Walk(disk, root)[i] : i \in Steps(disk, root)}

IsWalk(disk, root, at) ==
  at = [i \in 0 .. MaxPages |-> IF i = 0 THEN root ELSE Onward(disk, at[i - 1])]

\* The recursion that defines a walk has a solution.
LEMMA WalkExists ==
  ASSUME NEW disk, NEW root
  PROVE  \E at : IsWalk(disk, root, at)
<1> DEFINE Goes(f, n) == f = [i \in 0 .. n |-> IF i = 0 THEN root ELSE Onward(disk, f[i - 1])]
           Bad == {n \in Nat : ~ \E f : Goes(f, n)}
<1>1. Bad = {}
  <2> SUFFICES ASSUME Bad # {}
               PROVE  FALSE
    OBVIOUS
  <2>1. PICK n \in Bad : \A m \in Bad : n <= m
    <3>1. Bad \in SUBSET Nat
      OBVIOUS
    <3> HIDE DEF Bad
    <3> QED BY <3>1, LeastOf
  <2>2. CASE n = 0
    <3>1. Goes([i \in 0 .. 0 |-> root], 0)
      OBVIOUS
    <3> QED BY <2>1, <2>2, <3>1
  <2>3. CASE n # 0
    <3>1. n \in Nat /\ n - 1 \in Nat /\ ~ (n <= n - 1)
      BY <2>3
    <3>2. n - 1 \notin Bad
      <4> HIDE DEF Bad
      <4> QED BY <2>1, <3>1
    <3>3. PICK f : Goes(f, n - 1)
      BY <3>1, <3>2
    <3> DEFINE g == [i \in 0 .. n |-> IF i < n THEN f[i] ELSE Onward(disk, f[n - 1])]
    <3>4. ASSUME NEW i \in 0 .. n
          PROVE  g[i] = IF i = 0 THEN root ELSE Onward(disk, g[i - 1])
      <4>1. CASE i < n
        <5>1. i \in 0 .. n - 1 /\ (i # 0 => i - 1 \in 0 .. n /\ i - 1 < n)
          BY <3>1, <4>1
        <5>2. f[i] = IF i = 0 THEN root ELSE Onward(disk, f[i - 1])
          BY <3>3, <5>1
        <5> QED BY <4>1, <5>1, <5>2
      <4>2. CASE i = n
        <5>1. i # 0 /\ i - 1 \in 0 .. n /\ i - 1 < n /\ ~ (i < n) /\ i - 1 = n - 1
          BY <2>3, <3>1, <4>2
        <5> QED BY <5>1
      <4> QED BY <3>1, <4>1, <4>2
    <3>5. Goes(g, n)
      <4> HIDE DEF Bad
      <4> QED BY <3>4
    <3> QED BY <2>1, <3>5
  <2> QED BY <2>2, <2>3
<1>2. MaxPages \notin Bad /\ MaxPages \in Nat
  BY <1>1, ConstantFacts
<1> QED
  BY <1>2 DEF IsWalk

\* A walk starts at its root and goes from each page to the next.
LEMMA WalkSteps ==
  ASSUME NEW disk, NEW root
  PROVE  /\ Walk(disk, root)[0] = root
         /\ \A i \in 1 .. MaxPages : Walk(disk, root)[i] = Onward(disk, Walk(disk, root)[i - 1])
<1>1. Walk(disk, root) = CHOOSE at : IsWalk(disk, root, at)
  BY DEF Walk, Onward, IsWalk
<1>2. \E at : IsWalk(disk, root, at)
  BY WalkExists
<1>3. IsWalk(disk, root, Walk(disk, root))
  BY <1>1, <1>2
<1>4. 0 \in 0 .. MaxPages /\ \A i \in 1 .. MaxPages : i \in 0 .. MaxPages /\ i # 0
  BY ConstantFacts
<1> QED
  BY <1>3, <1>4 DEF IsWalk

\* The i-th page of a walk is no smaller than i.
LEMMA WalkClimbs ==
  ASSUME NEW disk, LinkedUp(disk), NEW root \in System
  PROVE  \A i \in Steps(disk, root) :
           /\ i \in 0 .. MaxPages /\ Walk(disk, root)[i] \in Page \ {0}
           /\ disk[Walk(disk, root)[i]] # Unwritten
           /\ i <= Walk(disk, root)[i]
<1> DEFINE at == Walk(disk, root)
           Good(i) == Ends(disk, at[i]) \/ (at[i] \in Page \ {0} /\ i <= at[i])
           Bad == {i \in 0 .. MaxPages : ~ Good(i)}
<1>1. at[0] = root /\ \A i \in 1 .. MaxPages : at[i] = Onward(disk, at[i - 1])
  BY WalkSteps
<1> HIDE DEF at
<1>2. Bad = {}
  <2> SUFFICES ASSUME Bad # {}
               PROVE  FALSE
    OBVIOUS
  <2>1. PICK i \in Bad : \A j \in Bad : i <= j
    <3>1. Bad \in SUBSET Nat
      OBVIOUS
    <3> HIDE DEF Bad
    <3> QED BY <3>1, LeastOf
  <2>2. i \in 0 .. MaxPages /\ ~ Good(i)
    BY <2>1
  <2>3. i # 0
    BY <1>1, <2>2, ConstantFacts DEF System
  <2>4. i \in 1 .. MaxPages /\ i - 1 \in 0 .. MaxPages /\ ~ (i <= i - 1)
    BY <2>2, <2>3, ConstantFacts
  <2>5. Good(i - 1)
    <3>1. i - 1 \notin Bad
      <4> HIDE DEF Bad
      <4> QED BY <2>1, <2>4
    <3> QED BY <2>4, <3>1
  <2>6. at[i] = Onward(disk, at[i - 1])
    BY <1>1, <2>4
  <2>7. CASE Ends(disk, at[i - 1])
    <3>1. at[i] = NoPage
      BY <2>6, <2>7 DEF Onward
    <3> QED BY <2>2, <3>1 DEF Ends
  <2>8. CASE ~ Ends(disk, at[i - 1])
    <3>1. /\ at[i - 1] \in Page /\ i - 1 <= at[i - 1] /\ disk[at[i - 1]] # Unwritten
          /\ at[i] = disk[at[i - 1]].next
      BY <2>5, <2>6, <2>8 DEF Onward, Ends
    <3>2. at[i] # NoPage
      BY <2>2 DEF Ends
    <3>3. at[i] \in Page /\ at[i - 1] < at[i]
      BY <3>1, <3>2 DEF LinkedUp
    <3>4. at[i - 1] \in Nat /\ at[i] \in Nat
      BY <3>1, <3>3, ConstantFacts
    <3>5. i <= at[i] /\ at[i] # 0
      BY <2>4, <3>1, <3>3, <3>4
    <3> QED BY <2>2, <3>3, <3>5
  <2> QED BY <2>7, <2>8
<1> QED
  BY <1>2 DEF Steps, Ends, at

\* The pages of a heap are its root and, with a page, the page it links to, if it was
\* initialised; and they are the least such set.
LEMMA PagesStart ==
  ASSUME NEW disk, NEW root \in System, disk[root] # Unwritten
  PROVE  root \in PagesOf(disk, root)
<1>1. 0 \in 0 .. MaxPages /\ root # NoPage
  BY ConstantFacts
<1> QED
  BY <1>1, WalkSteps DEF PagesOf, Steps, Ends

LEMMA PagesExist ==
  ASSUME NEW disk, LinkedUp(disk), NEW root \in System, NEW p \in PagesOf(disk, root)
  PROVE  p \in Page \ {0} /\ disk[p] # Unwritten
BY WalkClimbs DEF PagesOf

LEMMA StepsFollow ==
  ASSUME NEW disk, LinkedUp(disk), NEW root \in System, NEW i \in Steps(disk, root),
         NEW p, p = Walk(disk, root)[i],
         disk[p].next # NoPage, disk[disk[p].next] # Unwritten
  PROVE  \E j \in Steps(disk, root) : i < j /\ Walk(disk, root)[j] = disk[p].next
<1>1. i \in 0 .. MaxPages /\ p \in Page /\ i <= p /\ disk[p] # Unwritten
  BY WalkClimbs
<1>2. PICK j \in 1 .. MaxPages : j - 1 = i /\ i < j
  <2>1. p \in Nat /\ p <= MaxPages - 1
    BY <1>1, ConstantFacts DEF Page
  <2>2. i + 1 \in 1 .. MaxPages /\ (i + 1) - 1 = i /\ i < i + 1
    BY <1>1, <2>1, ConstantFacts
  <2>3. \A k : (k = i + 1) => (k \in 1 .. MaxPages /\ k - 1 = i /\ i < k)
    BY <2>2
  <2> QED BY <2>3
<1>3. Walk(disk, root)[j] = Onward(disk, Walk(disk, root)[j - 1])
  BY WalkSteps
<1>4. ~ Ends(disk, p)
  BY DEF Steps
<1>5. Walk(disk, root)[j] = disk[p].next
  BY <1>2, <1>3, <1>4 DEF Onward
<1>6. j \in Steps(disk, root)
  BY <1>5, ConstantFacts DEF Steps, Ends
<1> QED
  BY <1>2, <1>5, <1>6

LEMMA PagesFollow ==
  ASSUME NEW disk, LinkedUp(disk), NEW root \in System, NEW p \in PagesOf(disk, root),
         disk[p].next # NoPage, disk[disk[p].next] # Unwritten
  PROVE  disk[p].next \in PagesOf(disk, root)
<1>1. PICK i \in Steps(disk, root) : p = Walk(disk, root)[i]
  BY DEF PagesOf
<1>2. PICK j \in Steps(disk, root) : i < j /\ Walk(disk, root)[j] = disk[p].next
  BY <1>1, StepsFollow
<1> QED
  BY <1>2 DEF PagesOf

LEMMA PagesLeast ==
  ASSUME NEW disk, NEW root \in System, NEW T, disk[root] = Unwritten \/ root \in T,
         \A p \in T : (disk[p] # Unwritten /\ disk[p].next # NoPage
                         /\ disk[disk[p].next] # Unwritten) => disk[p].next \in T
  PROVE  PagesOf(disk, root) \subseteq T
<1> DEFINE at == Walk(disk, root)
           Good(i) == Ends(disk, at[i]) \/ at[i] \in T
           Bad == {i \in 0 .. MaxPages : ~ Good(i)}
<1>1. at[0] = root /\ \A i \in 1 .. MaxPages : at[i] = Onward(disk, at[i - 1])
  BY WalkSteps
<1> HIDE DEF at
<1>2. Bad = {}
  <2> SUFFICES ASSUME Bad # {}
               PROVE  FALSE
    OBVIOUS
  <2>1. PICK i \in Bad : \A j \in Bad : i <= j
    <3>1. Bad \in SUBSET Nat
      OBVIOUS
    <3> HIDE DEF Bad
    <3> QED BY <3>1, LeastOf
  <2>2. i \in 0 .. MaxPages /\ ~ Good(i)
    BY <2>1
  <2>3. i \in 1 .. MaxPages /\ i - 1 \in 0 .. MaxPages /\ ~ (i <= i - 1)
    <3>1. i # 0
      BY <1>1, <2>2 DEF Ends
    <3> QED BY <2>2, <3>1, ConstantFacts
  <2>4. Good(i - 1)
    <3>1. i - 1 \notin Bad
      <4> HIDE DEF Bad
      <4> QED BY <2>1, <2>3
    <3> QED BY <2>3, <3>1
  <2>5. at[i] = Onward(disk, at[i - 1])
    BY <1>1, <2>3
  <2> QED
    BY <2>2, <2>4, <2>5 DEF Onward, Ends
<1> QED
  BY <1>2 DEF PagesOf, Steps, at

\* A disk that is older than another one has part of its heaps.
Older(old, new) ==
  \A p \in Page : old[p] # Unwritten =>
    /\ new[p] # Unwritten
    /\ old[p].next = NoPage \/ old[p].next = new[p].next

LEMMA OlderPages ==
  ASSUME NEW old, NEW new, LinkedUp(new), Older(old, new), NEW root \in System
  PROVE  PagesOf(old, root) \subseteq PagesOf(new, root)
<1> DEFINE T == PagesOf(new, root)
<1>1. old[root] = Unwritten \/ root \in T
  BY PagesStart, ConstantFacts DEF Older
<1>2. ASSUME NEW p \in T, old[p] # Unwritten, old[p].next # NoPage,
             old[old[p].next] # Unwritten
      PROVE  old[p].next \in T
  <2>1. p \in Page /\ new[p] # Unwritten
    BY PagesExist
  <2>2. old[p].next = new[p].next
    BY <1>2, <2>1 DEF Older
  <2>3. new[p].next \in Page
    BY <1>2, <2>1, <2>2 DEF LinkedUp
  <2>4. new[new[p].next] # Unwritten
    BY <1>2, <2>2, <2>3 DEF Older
  <2> QED BY <1>2, <2>2, <2>4, PagesFollow
<1> HIDE DEF T
<1>3. PagesOf(old, root) \subseteq T
  BY <1>1, <1>2, PagesLeast
<1> QED
  BY <1>3 DEF T

----------------------------------------------------------------------------
(* Rows by their places: a page and a slot.  A scan goes from page to page  *)
(* along links that lead forward, so it meets places in their order.        *)

Before(a, b) == a[1] < b[1] \/ (a[1] = b[1] /\ a[2] < b[2])

RowAt(disk, place) == disk[place[1]].rows[place[2]]

Places(disk, root) ==
  {place \in PagesOf(disk, root) \X (Nat \ {0}) : place[2] <= Len(disk[place[1]].rows)}

\* at says where the rows of list are: at these places, in their order, all of them.
Lists(at, list, disk, places) ==
  /\ at \in [1 .. Len(list) -> places]
  /\ \A k, l \in 1 .. Len(list) : k < l => Before(at[k], at[l])
  /\ \A k \in 1 .. Len(list) : list[k] = RowAt(disk, at[k])
  /\ \A place \in places : \E k \in 1 .. Len(list) : at[k] = place

\* The rows of the first pages of a walk: those before step n.
FirstPlaces(disk, root, n) ==
  {place \in Places(disk, root) :
     \E i \in 0 .. n - 1 : i \in Steps(disk, root) /\ place[1] = Walk(disk, root)[i]}

RowsAtStep(disk, root) ==
  [i \in 1 .. MaxPages |->
     IF Ends(disk, Walk(disk, root)[i - 1]) THEN <<>> ELSE disk[Walk(disk, root)[i - 1]].rows]

IsFlattening(seqs, f) ==
  f = [i \in 1 .. Len(seqs) |-> IF i = 1 THEN seqs[i] ELSE f[i - 1] \o seqs[i]]

\* The recursion that defines FlattenSeq has a solution.
LEMMA FlatteningExists ==
  ASSUME NEW S, NEW seqs \in Seq(S), seqs # <<>>
  PROVE  \E f : IsFlattening(seqs, f)
<1> DEFINE Goes(f, n) == f = [i \in 1 .. n |-> IF i = 1 THEN seqs[i] ELSE f[i - 1] \o seqs[i]]
           Bad == {n \in Nat : n # 0 /\ ~ \E f : Goes(f, n)}
<1>1. Bad = {}
  <2> SUFFICES ASSUME Bad # {}
               PROVE  FALSE
    OBVIOUS
  <2>1. PICK n \in Bad : \A m \in Bad : n <= m
    <3>1. Bad \in SUBSET Nat
      OBVIOUS
    <3> HIDE DEF Bad
    <3> QED BY <3>1, LeastOf
  <2>2. CASE n = 1
    <3>1. Goes([i \in 1 .. 1 |-> seqs[1]], 1)
      OBVIOUS
    <3> QED BY <2>1, <2>2, <3>1
  <2>3. CASE n # 1
    <3>1. n \in Nat /\ n - 1 \in Nat /\ n - 1 # 0 /\ ~ (n <= n - 1)
      BY <2>3
    <3>2. n - 1 \notin Bad
      <4> HIDE DEF Bad
      <4> QED BY <2>1, <3>1
    <3>3. PICK f : Goes(f, n - 1)
      BY <3>1, <3>2
    <3> DEFINE g == [i \in 1 .. n |-> IF i < n THEN f[i] ELSE f[n - 1] \o seqs[n]]
    <3>4. ASSUME NEW i \in 1 .. n
          PROVE  g[i] = IF i = 1 THEN seqs[i] ELSE g[i - 1] \o seqs[i]
      <4>1. CASE i < n
        <5>1. i \in 1 .. n - 1 /\ (i # 1 => i - 1 \in 1 .. n /\ i - 1 < n)
          BY <3>1, <4>1
        <5>2. f[i] = IF i = 1 THEN seqs[i] ELSE f[i - 1] \o seqs[i]
          BY <3>3, <5>1
        <5> QED BY <4>1, <5>1, <5>2
      <4>2. CASE i = n
        <5>1. i # 1 /\ i - 1 \in 1 .. n /\ i - 1 < n /\ ~ (i < n) /\ i - 1 = n - 1
          BY <2>3, <3>1, <4>2
        <5> QED BY <4>2, <5>1
      <4> QED BY <3>1, <4>1, <4>2
    <3>5. Goes(g, n)
      <4> HIDE DEF Bad
      <4> QED BY <3>4
    <3> QED BY <2>1, <3>5
  <2> QED BY <2>2, <2>3
<1>2. Len(seqs) \in Nat /\ Len(seqs) # 0
  OBVIOUS
<1>3. Len(seqs) \notin Bad
  <2> HIDE DEF Bad
  <2> QED BY <1>1
<1> QED
  BY <1>2, <1>3 DEF IsFlattening

LEMMA FlattensBySteps ==
  ASSUME NEW S, NEW seqs \in Seq(S), seqs # <<>>
  PROVE  \E f : /\ FlattenSeq(seqs) = f[Len(seqs)]
                /\ f[1] = seqs[1]
                /\ \A i \in 2 .. Len(seqs) : f[i] = f[i - 1] \o seqs[i]
<1>1. Len(seqs) \in Nat /\ Len(seqs) # 0
  OBVIOUS
<1> DEFINE f == CHOOSE g : IsFlattening(seqs, g)
<1>2. FlattenSeq(seqs) = f[Len(seqs)]
  BY <1>1 DEF FlattenSeq, IsFlattening
<1>3. IsFlattening(seqs, f)
  BY FlatteningExists
<1> HIDE DEF f
<1>4. 1 \in 1 .. Len(seqs) /\ \A i \in 2 .. Len(seqs) : i \in 1 .. Len(seqs) /\ i # 1
  BY <1>1
<1>5. f[1] = seqs[1] /\ \A i \in 2 .. Len(seqs) : f[i] = f[i - 1] \o seqs[i]
  BY <1>3, <1>4 DEF IsFlattening
<1> QED
  BY <1>2, <1>5

\* A walk meets each page once, in the order of the page ids.
LEMMA WalkRises ==
  ASSUME NEW disk, LinkedUp(disk), NEW root \in System
  PROVE  \A i, j \in Steps(disk, root) : i < j => Walk(disk, root)[i] < Walk(disk, root)[j]
<1> DEFINE at == Walk(disk, root)
           Good(j) == \A i \in Steps(disk, root) : i < j => at[i] < at[j]
           Bad == {j \in Steps(disk, root) : ~ Good(j)}
<1>1. \A i \in 1 .. MaxPages : at[i] = Onward(disk, at[i - 1])
  BY WalkSteps
<1>2. \A i \in Steps(disk, root) : i \in 0 .. MaxPages /\ at[i] \in Page /\ disk[at[i]] # Unwritten
                                   /\ ~ Ends(disk, at[i])
  BY WalkClimbs DEF Steps
<1>3. \A i \in 0 .. MaxPages : ~ Ends(disk, at[i]) => i \in Steps(disk, root)
  BY DEF Steps
<1> HIDE DEF at
<1>4. Bad = {}
  <2> SUFFICES ASSUME Bad # {}
               PROVE  FALSE
    OBVIOUS
  <2>1. PICK j \in Bad : \A k \in Bad : j <= k
    <3>1. Bad \in SUBSET Nat
      BY <1>2
    <3> HIDE DEF Bad
    <3> QED BY <3>1, LeastOf
  <2>2. j \in Steps(disk, root) /\ ~ Good(j) /\ j \in 0 .. MaxPages
    BY <1>2
  <2>3. PICK i \in Steps(disk, root) : i < j /\ ~ (at[i] < at[j])
    BY <2>2
  <2>4. j \in 1 .. MaxPages /\ j - 1 \in 0 .. MaxPages /\ ~ (j <= j - 1)
        /\ i \in 0 .. MaxPages /\ (i < j - 1 \/ i = j - 1)
    BY <1>2, <2>2, <2>3, ConstantFacts
  <2>5. at[j] = Onward(disk, at[j - 1])
    BY <1>1, <2>4
  <2>6. j - 1 \in Steps(disk, root)
    <3>1. ~ Ends(disk, at[j - 1])
      BY <1>2, <2>2, <2>5 DEF Onward, Ends
    <3> QED BY <1>3, <2>4, <3>1
  <2>7. at[j - 1] < at[j]
    <3>1. at[j] = disk[at[j - 1]].next /\ at[j] # NoPage
      BY <1>2, <2>2, <2>5, <2>6 DEF Onward, Ends
    <3> QED BY <1>2, <2>6, <3>1 DEF LinkedUp
  <2>8. Good(j - 1)
    <3>1. j - 1 \notin Bad
      <4> HIDE DEF Bad
      <4> QED BY <2>1, <2>4
    <3> QED BY <2>6, <3>1
  <2>9. at[i] = at[j - 1] \/ at[i] < at[j - 1]
    BY <2>3, <2>4, <2>8
  <2>10. at[i] \in Nat /\ at[j] \in Nat /\ at[j - 1] \in Nat
    BY <1>2, <2>2, <2>6, ConstantFacts
  <2> QED BY <2>3, <2>7, <2>9, <2>10
<1> QED
  BY <1>4 DEF at

\* The places of one more page of a walk come after those of the pages before.
LEMMA ListsNext ==
  ASSUME NEW disk, LinkedUp(disk), NEW root \in System, NEW S,
         \A p \in PagesOf(disk, root) : disk[p].rows \in Seq(S),
         NEW n \in 0 .. MaxPages - 1, NEW list \in Seq(S), NEW at,
         Lists(at, list, disk, FirstPlaces(disk, root, n))
  PROVE  /\ list \o RowsAtStep(disk, root)[n + 1] \in Seq(S)
         /\ \E b : Lists(b, list \o RowsAtStep(disk, root)[n + 1], disk,
                         FirstPlaces(disk, root, n + 1))
<1>1. n \in Nat /\ n + 1 \in 1 .. MaxPages /\ (n + 1) - 1 = n /\ n \in 0 .. MaxPages
      /\ \A i : i \in 0 .. (n + 1) - 1 <=> i \in 0 .. n - 1 \/ i = n
  BY ConstantFacts
<1>2. PICK p : p = Walk(disk, root)[n]
  OBVIOUS
<1>3. RowsAtStep(disk, root)[n + 1] = IF Ends(disk, p) THEN <<>> ELSE disk[p].rows
  BY <1>1, <1>2 DEF RowsAtStep
<1>4. CASE Ends(disk, p)
  <2>1. n \notin Steps(disk, root)
    BY <1>2, <1>4 DEF Steps
  <2>2. FirstPlaces(disk, root, n + 1) = FirstPlaces(disk, root, n)
    BY <1>1, <2>1 DEF FirstPlaces
  <2>3. list \o RowsAtStep(disk, root)[n + 1] = list
    BY <1>3, <1>4
  <2> QED BY <2>2, <2>3
<1>5. CASE ~ Ends(disk, p)
  <2>1. n \in Steps(disk, root) /\ p \in PagesOf(disk, root)
    BY <1>1, <1>2, <1>5 DEF Steps, PagesOf
  <2>2. PICK rows \in Seq(S) : rows = disk[p].rows
    BY <2>1
  <2>3. PICK L \in Nat : L = Len(list)
    OBVIOUS
  <2>4. PICK M \in Nat : M = Len(rows)
    OBVIOUS
  <2>5. PICK all : all = list \o rows
    OBVIOUS
  <2>6. /\ all = list \o RowsAtStep(disk, root)[n + 1] /\ all \in Seq(S) /\ Len(all) = L + M
        /\ \A k \in 1 .. L : all[k] = list[k]
        /\ \A k \in 1 .. L + M : ~ (k <= L) => all[k] = rows[k - L]
    BY <1>3, <1>5, <2>2, <2>3, <2>4, <2>5
  <2>7. PICK b : b = [k \in 1 .. L + M |-> IF k <= L THEN at[k] ELSE <<p, k - L>>]
    OBVIOUS
  <2>8. \A k \in 1 .. L + M : k <= L => k \in 1 .. L /\ b[k] = at[k]
    BY <2>7
  <2>9. \A k \in 1 .. L + M : ~ (k <= L) => b[k] = <<p, k - L>> /\ k - L \in 1 .. M
    BY <2>7
  <2>10. \A s \in 1 .. M : <<p, s>> \in FirstPlaces(disk, root, n + 1)
    <3>1. \A s \in 1 .. M : <<p, s>> \in Places(disk, root)
      BY <2>1, <2>2, <2>4 DEF Places
    <3> QED BY <1>1, <1>2, <2>1, <3>1 DEF FirstPlaces
  <2>11. \A place \in FirstPlaces(disk, root, n) :
           /\ place \in FirstPlaces(disk, root, n + 1)
           /\ place[1] < p
    <3> SUFFICES ASSUME NEW place \in FirstPlaces(disk, root, n)
                 PROVE  place \in FirstPlaces(disk, root, n + 1) /\ place[1] < p
      OBVIOUS
    <3>1. PICK i \in 0 .. n - 1 : i \in Steps(disk, root) /\ place[1] = Walk(disk, root)[i]
      BY DEF FirstPlaces
    <3>2. i \in 0 .. (n + 1) - 1 /\ i < n
      BY <1>1
    <3>3. place[1] < p
      BY <1>2, <2>1, <3>1, <3>2, WalkRises
    <3> QED BY <3>1, <3>2, <3>3 DEF FirstPlaces
  <2>12. \A k \in 1 .. L : at[k] \in FirstPlaces(disk, root, n) /\ list[k] = RowAt(disk, at[k])
    BY <2>3 DEF Lists
  <2>13. b \in [1 .. L + M -> FirstPlaces(disk, root, n + 1)]
    <3>1. \A k \in 1 .. L + M : b[k] \in FirstPlaces(disk, root, n + 1)
      BY <2>8, <2>9, <2>10, <2>11, <2>12
    <3> QED BY <2>7, <3>1
  <2>14. ASSUME NEW k \in 1 .. L + M, NEW l \in 1 .. L + M, k < l
         PROVE  Before(b[k], b[l])
    <3>1. CASE l <= L
      <4>1. k \in 1 .. L /\ l \in 1 .. L /\ b[k] = at[k] /\ b[l] = at[l]
        <5>1. k <= L
          BY <2>14, <3>1
        <5> QED BY <2>8, <3>1, <5>1
      <4> QED BY <2>3, <2>14, <4>1 DEF Lists
    <3>2. CASE k <= L /\ ~ (l <= L)
      <4>1. b[k][1] < p /\ b[l][1] = p
        BY <2>8, <2>9, <2>11, <2>12, <3>2
      <4> QED BY <4>1 DEF Before
    <3>3. CASE ~ (k <= L)
      <4>1. ~ (l <= L) /\ k - L < l - L
        BY <2>14, <3>3
      <4>2. b[k] = <<p, k - L>> /\ b[l] = <<p, l - L>>
        BY <2>9, <3>3, <4>1
      <4> QED BY <4>1, <4>2 DEF Before
    <3> QED BY <3>1, <3>2, <3>3
  <2>15. ASSUME NEW k \in 1 .. L + M
         PROVE  all[k] = RowAt(disk, b[k])
    <3>1. CASE k <= L
      BY <2>6, <2>8, <2>12, <3>1
    <3>2. CASE ~ (k <= L)
      <4>1. all[k] = rows[k - L] /\ b[k] = <<p, k - L>>
        BY <2>6, <2>9, <3>2
      <4> QED BY <2>2, <4>1 DEF RowAt
    <3> QED BY <3>1, <3>2
  <2>16. ASSUME NEW place \in FirstPlaces(disk, root, n + 1)
         PROVE  \E k \in 1 .. L + M : b[k] = place
    <3>1. place \in Places(disk, root)
      BY DEF FirstPlaces
    <3>2. PICK i \in 0 .. (n + 1) - 1 : i \in Steps(disk, root) /\ place[1] = Walk(disk, root)[i]
      BY DEF FirstPlaces
    <3>3. CASE i = n
      <4>1. place = <<p, place[2]>> /\ place[2] \in 1 .. M
        BY <1>2, <2>2, <2>4, <3>1, <3>2, <3>3 DEF Places
      <4>2. PICK k \in 1 .. L + M : k - L = place[2] /\ ~ (k <= L)
        <5>1. \A k : (k = L + place[2]) => (k \in 1 .. L + M /\ k - L = place[2] /\ ~ (k <= L))
          BY <4>1
        <5> QED BY <5>1
      <4> QED BY <2>9, <4>1, <4>2
    <3>4. CASE i \in 0 .. n - 1
      <4>1. place \in FirstPlaces(disk, root, n)
        BY <3>1, <3>2, <3>4 DEF FirstPlaces
      <4>2. PICK k \in 1 .. L : at[k] = place
        BY <2>3, <4>1 DEF Lists
      <4>3. k \in 1 .. L + M /\ k <= L
        OBVIOUS
      <4> QED BY <2>8, <4>2, <4>3
    <3> QED BY <1>1, <3>3, <3>4
  <2>17. Lists(b, all, disk, FirstPlaces(disk, root, n + 1))
    BY <2>6, <2>13, <2>14, <2>15, <2>16 DEF Lists
  <2> QED BY <2>6, <2>17
<1> QED
  BY <1>4, <1>5

\* A scan returns the rows of its heap, in the order of their places.
LEMMA RowsListed ==
  ASSUME NEW disk, LinkedUp(disk), NEW root \in System, NEW S,
         \A p \in PagesOf(disk, root) : disk[p].rows \in Seq(S)
  PROVE  /\ RowsOf(disk, root) \in Seq(S)
         /\ \E at : Lists(at, RowsOf(disk, root), disk, Places(disk, root))
<1>1. PICK seqs : seqs = RowsAtStep(disk, root)
  OBVIOUS
<1>2. seqs \in Seq(Seq(S)) /\ Len(seqs) = MaxPages /\ seqs # <<>>
  <2>1. ASSUME NEW i \in 1 .. MaxPages
        PROVE  seqs[i] \in Seq(S)
    <3>1. i - 1 \in 0 .. MaxPages
      BY ConstantFacts
    <3>2. ~ Ends(disk, Walk(disk, root)[i - 1])
            => Walk(disk, root)[i - 1] \in PagesOf(disk, root)
      BY <3>1 DEF PagesOf, Steps
    <3> QED BY <1>1, <3>2 DEF RowsAtStep
  <2>2. seqs \in [1 .. MaxPages -> Seq(S)]
    BY <1>1, <2>1 DEF RowsAtStep
  <2> QED BY <2>2, ConstantFacts
<1>3. RowsOf(disk, root) = FlattenSeq(seqs)
  BY <1>1 DEF RowsOf, RowsAtStep
<1>4. PICK f : /\ FlattenSeq(seqs) = f[MaxPages]
               /\ f[1] = seqs[1]
               /\ \A i \in 2 .. MaxPages : f[i] = f[i - 1] \o seqs[i]
  <2> DEFINE T == Seq(S)
  <2>1. seqs \in Seq(T) /\ seqs # <<>>
    BY <1>2
  <2> HIDE DEF T
  <2> QED BY <1>2, <2>1, FlattensBySteps
<1> DEFINE Good(n) == f[n] \in Seq(S)
                        /\ \E at : Lists(at, f[n], disk, FirstPlaces(disk, root, n))
           Bad == {n \in 1 .. MaxPages : ~ Good(n)}
<1>5. Good(1)
  <2>1. Lists(<<>>, <<>>, disk, FirstPlaces(disk, root, 0))
    <3>1. FirstPlaces(disk, root, 0) = {}
      BY DEF FirstPlaces
    <3> QED BY <3>1 DEF Lists
  <2>2. 0 \in 0 .. MaxPages - 1 /\ 0 + 1 = 1 /\ <<>> \in Seq(S)
    BY ConstantFacts
  <2>3. /\ <<>> \o RowsAtStep(disk, root)[0 + 1] \in Seq(S)
        /\ \E b : Lists(b, <<>> \o RowsAtStep(disk, root)[0 + 1], disk,
                        FirstPlaces(disk, root, 0 + 1))
    BY <2>1, <2>2, ListsNext
  <2>4. 1 \in 1 .. MaxPages
    BY ConstantFacts
  <2>5. seqs[1] \in Seq(S)
    BY <1>2, <2>4
  <2>6. <<>> \o RowsAtStep(disk, root)[0 + 1] = f[1]
    BY <1>1, <1>4, <2>2, <2>5
  <2> QED BY <2>2, <2>3, <2>6
<1>6. Bad = {}
  <2> SUFFICES ASSUME Bad # {}
               PROVE  FALSE
    OBVIOUS
  <2>1. PICK n \in Bad : \A m \in Bad : n <= m
    <3>1. Bad \in SUBSET Nat
      OBVIOUS
    <3> HIDE DEF Bad
    <3> QED BY <3>1, LeastOf
  <2>2. n \in 1 .. MaxPages /\ ~ Good(n)
    BY <2>1
  <2>3. n # 1
    BY <1>5, <2>2
  <2>4. PICK m \in 0 .. MaxPages - 1 : m = n - 1
    BY <2>2, ConstantFacts
  <2>5. m \in 1 .. MaxPages /\ ~ (n <= m) /\ n \in 2 .. MaxPages /\ n = m + 1
    BY <2>2, <2>3, <2>4, ConstantFacts
  <2>6. Good(m)
    <3>1. m \notin Bad
      <4> HIDE DEF Bad
      <4> QED BY <2>1, <2>5
    <3> QED BY <2>5, <3>1
  <2>7. f[n] = f[m] \o RowsAtStep(disk, root)[m + 1]
    BY <1>1, <1>4, <2>4, <2>5
  <2>8. PICK at : Lists(at, f[m], disk, FirstPlaces(disk, root, m))
    BY <2>6
  <2>9. Good(n)
    BY <2>5, <2>6, <2>7, <2>8, ListsNext
  <2> QED BY <2>2, <2>9
<1>7. Good(MaxPages)
  <2>1. MaxPages \in 1 .. MaxPages
    BY ConstantFacts
  <2> QED BY <1>6, <2>1
<1>8. FirstPlaces(disk, root, MaxPages) = Places(disk, root)
  <2> SUFFICES ASSUME NEW place \in Places(disk, root)
               PROVE  \E i \in 0 .. MaxPages - 1 :
                        i \in Steps(disk, root) /\ place[1] = Walk(disk, root)[i]
    BY DEF FirstPlaces
  <2>1. place[1] \in PagesOf(disk, root)
    BY DEF Places
  <2>2. PICK i \in Steps(disk, root) : place[1] = Walk(disk, root)[i]
    BY <2>1 DEF PagesOf
  <2>3. i \in 0 .. MaxPages /\ place[1] \in Page /\ i <= place[1]
    BY <2>2, WalkClimbs
  <2>4. i \in 0 .. MaxPages - 1
    BY <2>3, ConstantFacts DEF Page
  <2> QED BY <2>2, <2>4
<1> QED
  BY <1>3, <1>4, <1>7, <1>8

----------------------------------------------------------------------------
(* GetColumns() lists the rows with its table id, in the order of the scan. *)

IsSelection(rows, id, f) ==
  f = [n \in 0 .. Len(rows) |->
         IF n = 0 THEN <<>>
         ELSE IF rows[n].table = id THEN Append(f[n - 1], rows[n]) ELSE f[n - 1]]

\* The recursion that defines GetColumns() has a solution.
LEMMA SelectionExists ==
  ASSUME NEW S, NEW rows \in Seq(S), NEW id
  PROVE  \E f : IsSelection(rows, id, f)
<1> DEFINE Next1(f, n) == IF rows[n].table = id THEN Append(f[n - 1], rows[n]) ELSE f[n - 1]
           Goes(f, n) == f = [i \in 0 .. n |-> IF i = 0 THEN <<>> ELSE Next1(f, i)]
           Bad == {n \in Nat : ~ \E f : Goes(f, n)}
<1>1. Bad = {}
  <2> SUFFICES ASSUME Bad # {}
               PROVE  FALSE
    OBVIOUS
  <2>1. PICK n \in Bad : \A m \in Bad : n <= m
    <3>1. Bad \in SUBSET Nat
      OBVIOUS
    <3> HIDE DEF Bad
    <3> QED BY <3>1, LeastOf
  <2>2. CASE n = 0
    <3>1. Goes([i \in 0 .. 0 |-> <<>>], 0)
      OBVIOUS
    <3> QED BY <2>1, <2>2, <3>1
  <2>3. CASE n # 0
    <3>1. n \in Nat /\ n - 1 \in Nat /\ ~ (n <= n - 1)
      BY <2>3
    <3>2. n - 1 \notin Bad
      <4> HIDE DEF Bad
      <4> QED BY <2>1, <3>1
    <3>3. PICK f : Goes(f, n - 1)
      BY <3>1, <3>2
    <3> DEFINE g == [i \in 0 .. n |-> IF i < n THEN f[i] ELSE Next1(f, n)]
    <3>4. ASSUME NEW i \in 0 .. n
          PROVE  g[i] = IF i = 0 THEN <<>> ELSE Next1(g, i)
      <4>1. CASE i < n
        <5>1. i \in 0 .. n - 1 /\ (i # 0 => i - 1 \in 0 .. n /\ i - 1 < n)
          BY <3>1, <4>1
        <5>2. f[i] = IF i = 0 THEN <<>> ELSE Next1(f, i)
          BY <3>3, <5>1
        <5> QED BY <4>1, <5>1, <5>2
      <4>2. CASE i = n
        <5>1. i # 0 /\ i - 1 \in 0 .. n /\ i - 1 < n /\ ~ (i < n) /\ i - 1 = n - 1
          BY <2>3, <3>1, <4>2
        <5> QED BY <4>2, <5>1
      <4> QED BY <3>1, <4>1, <4>2
    <3>5. Goes(g, n)
      <4> HIDE DEF Bad
      <4> QED BY <3>4
    <3> QED BY <2>1, <3>5
  <2> QED BY <2>2, <2>3
<1>2. Len(rows) \in Nat
  OBVIOUS
<1>3. Len(rows) \notin Bad
  <2> HIDE DEF Bad
  <2> QED BY <1>1
<1> QED
  BY <1>2, <1>3 DEF IsSelection

LEMMA SelectsBySteps ==
  ASSUME NEW S, NEW disk, NEW id, NEW rows \in Seq(S), rows = RowsOf(disk, AttributesRoot)
  PROVE  \E f : /\ GetColumns(disk, id) = f[Len(rows)]
                /\ f[0] = <<>>
                /\ \A n \in 1 .. Len(rows) :
                     f[n] = IF rows[n].table = id THEN Append(f[n - 1], rows[n]) ELSE f[n - 1]
<1> DEFINE f == CHOOSE g : IsSelection(rows, id, g)
<1>1. GetColumns(disk, id) = f[Len(rows)]
  BY DEF GetColumns, IsSelection
<1>2. IsSelection(rows, id, f)
  BY SelectionExists
<1> HIDE DEF f
<1>3. Len(rows) \in Nat /\ 0 \in 0 .. Len(rows)
      /\ \A n \in 1 .. Len(rows) : n \in 0 .. Len(rows) /\ n # 0
  OBVIOUS
<1>4. f[0] = <<>> /\ \A n \in 1 .. Len(rows) :
        f[n] = IF rows[n].table = id THEN Append(f[n - 1], rows[n]) ELSE f[n - 1]
  BY <1>2, <1>3 DEF IsSelection
<1> QED
  BY <1>1, <1>4

ColumnPlaces(disk, id) ==
  {place \in Places(disk, AttributesRoot) : RowAt(disk, place).table = id}

LEMMA ColumnsListed ==
  ASSUME NEW disk, LinkedUp(disk), NEW S, NEW id,
         \A p \in PagesOf(disk, AttributesRoot) : disk[p].rows \in Seq(S)
  PROVE  /\ GetColumns(disk, id) \in Seq(S)
         /\ \E at : Lists(at, GetColumns(disk, id), disk, ColumnPlaces(disk, id))
<1>1. AttributesRoot \in System
  BY ConstantFacts
<1>2. PICK rows \in Seq(S) : rows = RowsOf(disk, AttributesRoot)
  BY <1>1, RowsListed
<1>3. PICK at : Lists(at, rows, disk, Places(disk, AttributesRoot))
  BY <1>1, <1>2, RowsListed
<1>4. PICK f : /\ GetColumns(disk, id) = f[Len(rows)]
               /\ f[0] = <<>>
               /\ \A n \in 1 .. Len(rows) :
                    f[n] = IF rows[n].table = id THEN Append(f[n - 1], rows[n]) ELSE f[n - 1]
  BY <1>2, SelectsBySteps
<1> DEFINE W(n) == {place \in ColumnPlaces(disk, id) : \E k \in 1 .. n : at[k] = place}
           Good(n) == f[n] \in Seq(S) /\ \E b : Lists(b, f[n], disk, W(n))
           Bad == {n \in 0 .. Len(rows) : ~ Good(n)}
<1>5. Good(0)
  <2>1. W(0) = {}
    OBVIOUS
  <2>2. Lists(<<>>, f[0], disk, {})
    BY <1>4 DEF Lists
  <2>3. f[0] \in Seq(S)
    BY <1>4
  <2> HIDE DEF W
  <2> QED BY <2>1, <2>2, <2>3
<1>6. ASSUME NEW n \in 1 .. Len(rows), Good(n - 1)
      PROVE  Good(n)
  <2>1. PICK m \in Nat : m = n - 1
    OBVIOUS
  <2>2. /\ n \in Nat /\ n - 1 = m /\ ~ (n \in 1 .. m)
        /\ \A k : k \in 1 .. n <=> k \in 1 .. m \/ k = n
    BY <2>1
  <2>3. PICK list \in Seq(S) : list = f[m]
    BY <1>6, <2>1
  <2>4. PICK b : Lists(b, list, disk, W(m))
    BY <1>6, <2>1, <2>3
  <2>5. /\ at[n] \in Places(disk, AttributesRoot) /\ rows[n] = RowAt(disk, at[n])
        /\ rows[n] \in S
    BY <1>3 DEF Lists
  <2>6. CASE rows[n].table # id
    <3>1. at[n] \notin ColumnPlaces(disk, id)
      BY <2>5, <2>6 DEF ColumnPlaces
    <3>2. W(n) = W(m)
      BY <2>2, <3>1
    <3>3. f[n] = list
      BY <1>4, <2>2, <2>3, <2>6
    <3> QED BY <2>4, <3>2, <3>3
  <2>7. CASE rows[n].table = id
    <3>1. PICK place \in ColumnPlaces(disk, id) : place = at[n]
      BY <2>5, <2>7 DEF ColumnPlaces
    <3>2. PICK L \in Nat : L = Len(list)
      OBVIOUS
    <3>3. PICK more : more = Append(list, rows[n])
      OBVIOUS
    <3>4. /\ f[n] = more /\ more \in Seq(S)
          /\ Len(more) = L + 1 /\ more[L + 1] = rows[n]
          /\ \A k \in 1 .. L : more[k] = list[k]
      <4>1. f[n] = more
        BY <1>4, <2>2, <2>3, <2>7, <3>3
      <4>2. \A row \in S : /\ Append(list, row) \in Seq(S)
                           /\ Len(Append(list, row)) = L + 1
                           /\ Append(list, row)[L + 1] = row
                           /\ \A k \in 1 .. L : Append(list, row)[k] = list[k]
        BY <3>2
      <4> QED BY <2>5, <3>3, <4>1, <4>2
    <3>5. PICK c : c = [k \in 1 .. L + 1 |-> IF k = L + 1 THEN place ELSE b[k]]
      OBVIOUS
    <3>6. /\ c[L + 1] = place
          /\ \A k \in 1 .. L : k \in 1 .. L + 1 /\ c[k] = b[k]
          /\ \A k \in 1 .. L + 1 : k \in 1 .. L \/ k = L + 1
      BY <3>5
    <3>7. \A k \in 1 .. L : b[k] \in W(m) /\ list[k] = RowAt(disk, b[k])
      BY <2>4, <3>2 DEF Lists
    <3>8. \A x : x \in W(n) <=> x \in W(m) \/ x = place
      BY <2>2, <3>1
    <3>9. \A x \in W(m) : Before(x, place)
      <4> SUFFICES ASSUME NEW x \in W(m) PROVE Before(x, place)
        OBVIOUS
      <4>1. PICK k \in 1 .. m : at[k] = x
        OBVIOUS
      <4>2. k \in 1 .. Len(rows) /\ k < n
        BY <2>1, <2>2
      <4> QED BY <1>3, <3>1, <4>1, <4>2 DEF Lists
    <3> HIDE DEF W
    <3>10. c \in [1 .. L + 1 -> W(n)]
      <4>1. \A k \in 1 .. L + 1 : c[k] \in W(n)
        BY <3>6, <3>7, <3>8
      <4> QED BY <3>5, <4>1
    <3>11. \A k, l \in 1 .. L + 1 : k < l => Before(c[k], c[l])
      <4> SUFFICES ASSUME NEW k \in 1 .. L + 1, NEW l \in 1 .. L + 1, k < l
                   PROVE  Before(c[k], c[l])
        OBVIOUS
      <4>1. k \in 1 .. L
        BY <3>2
      <4>2. CASE l = L + 1
        BY <3>6, <3>7, <3>9, <4>1, <4>2
      <4>3. CASE l \in 1 .. L
        BY <2>4, <3>2, <3>6, <4>1, <4>3 DEF Lists
      <4> QED BY <3>6, <4>2, <4>3
    <3>12. \A k \in 1 .. L + 1 : more[k] = RowAt(disk, c[k])
      <4>1. \A k \in 1 .. L : more[k] = RowAt(disk, c[k])
        BY <3>4, <3>6, <3>7
      <4>2. more[L + 1] = RowAt(disk, c[L + 1])
        BY <2>5, <3>1, <3>4, <3>6
      <4> QED BY <3>6, <4>1, <4>2
    <3>13. \A x \in W(n) : \E k \in 1 .. L + 1 : c[k] = x
      <4> SUFFICES ASSUME NEW x \in W(n) PROVE \E k \in 1 .. L + 1 : c[k] = x
        OBVIOUS
      <4>1. CASE x = place
        BY <3>2, <3>6, <4>1
      <4>2. CASE x \in W(m)
        <5>1. PICK k \in 1 .. L : b[k] = x
          BY <2>4, <3>2, <4>2 DEF Lists
        <5> QED BY <3>6, <5>1
      <4> QED BY <3>8, <4>1, <4>2
    <3>14. Lists(c, more, disk, W(n))
      BY <3>4, <3>10, <3>11, <3>12, <3>13 DEF Lists
    <3> QED BY <3>4, <3>14
  <2> QED BY <2>6, <2>7
<1>7. Bad = {}
  <2> SUFFICES ASSUME Bad # {}
               PROVE  FALSE
    OBVIOUS
  <2>1. PICK n \in Bad : \A m \in Bad : n <= m
    <3>1. Bad \in SUBSET Nat
      OBVIOUS
    <3> HIDE DEF Bad
    <3> QED BY <3>1, LeastOf
  <2>2. n \in 0 .. Len(rows) /\ ~ Good(n)
    BY <2>1
  <2> HIDE DEF Good
  <2>3. n # 0
    BY <1>5, <2>2
  <2>4. n \in 1 .. Len(rows) /\ n - 1 \in 0 .. Len(rows) /\ ~ (n <= n - 1)
    BY <2>2, <2>3
  <2>5. n - 1 \notin Bad
    <3> HIDE DEF Bad
    <3> QED BY <2>1, <2>4
  <2> QED BY <1>6, <2>2, <2>4, <2>5
<1>8. Good(Len(rows))
  <2> HIDE DEF Good
  <2>1. Len(rows) \in 0 .. Len(rows)
    OBVIOUS
  <2> QED BY <1>7, <2>1
<1>9. W(Len(rows)) = ColumnPlaces(disk, id)
  BY <1>3 DEF Lists, ColumnPlaces
<1> QED
  BY <1>4, <1>8, <1>9

----------------------------------------------------------------------------
(* The invariant.                                                          *)

TableRow ==
  [id : Id, name : Name \cup ToSet(SystemName), first : Page, size : Nat \ {0}]
ColumnRow == [table : Id, position : Nat, size : Nat \ {0}]
TypeRow == [type : {"INT", "TEXT"}, size : Nat \ {0}]

\* The rows of each catalog heap.
RowsFor(root) ==
  IF root = TablesRoot THEN TableRow
  ELSE IF root = AttributesRoot THEN ColumnRow ELSE TypeRow

RowSeqs == Seq(TableRow) \cup Seq(ColumnRow) \cup Seq(TypeRow)

HeapPage ==
  [kind : {"heap"}, rows : RowSeqs, room : 0 .. Capacity,
   next : {NoPage} \cup (TypesRoot + 1 .. MaxPages - 1)]

Disk ==
  {disk \in [Page -> {Unwritten, Header} \cup HeapPage] :
     \A p \in Page : disk[p] = Header => p = 0}

\* An insert that a call has left: a row for the heap it goes to.
Insertion ==
  {insert \in System \X (TableRow \cup ColumnRow \cup TypeRow) : insert[2] \in RowsFor(insert[1])}

\* Everything that does not relate a page to another one.
Typed ==
  /\ content \in Disk /\ file \in Disk
  /\ content[0] \in {Unwritten, Header} /\ file[0] \in {Unwritten, Header}
  /\ nextPageId \in 0 .. MaxPages
  /\ phase \in {"closed", "bootstrap", "open", "create"}
  /\ todo \in Seq(Insertion)
  /\ made \in Seq([row : TableRow, sizes : Schema])
  /\ Len(made) <= MaxTables
  /\ \A i \in 1 .. Len(made) : made[i].row.id = TypesRoot + i
  /\ flushed \subseteq kept
  /\ kept \subseteq {made[i].row.id : i \in 1 .. Len(made)}
  /\ booted \in BOOLEAN

\* Page ids are handed out once in a process, links lead forward, and the file is
\* an older version of the pool.
Allocated ==
  /\ \A p \in Page : content[p] # Unwritten => p < nextPageId
  /\ LinkedUp(content) /\ LinkedUp(file)
  /\ Older(file, content)

\* The catalog heaps share no page, and each has its own rows, on its pages in the
\* pool and on what was written of them.
Apart ==
  /\ \A r, s \in System : r # s => PagesOf(content, r) \cap PagesOf(content, s) = {}
  /\ \A r \in System : \A p \in PagesOf(content, r) :
       content[p].rows \in Seq(RowsFor(r)) /\ file[p].rows \in Seq(RowsFor(r))

\* A call that inserts rows found the heaps whole, and they stay so.
Whole ==
  \A r \in System :
    /\ content[r] # Unwritten
    /\ \A p \in PagesOf(content, r) :
         content[p].next # NoPage => content[content[p].next] # Unwritten
Inserting ==
  todo # <<>> => phase \in {"bootstrap", "create"} /\ Whole

\* The first page of a table that is kept exists and no later table has it.
FirstPages ==
  /\ \A i \in 1 .. Len(made) :
       made[i].row.id \in kept =>
         /\ content[made[i].row.first] # Unwritten
         /\ \A j \in 1 .. Len(made) : i < j => made[j].row.first # made[i].row.first
  /\ \A i \in 1 .. Len(made) :
       made[i].row.id \in flushed => file[made[i].row.first] # Unwritten
  /\ phase = "create" =>
       Len(made) # 0 /\ content[made[Len(made)].row.first] # Unwritten

CatInv == Typed /\ Allocated /\ Apart /\ Inserting /\ FirstPages

\* Steps that leave a catalog which was whole at every call so far: CreateTable() finds
\* its heaps whole, and no call goes on into a page that was never initialised.
SoundCreateTable(name, sizes) == Sound /\ CreateTable(name, sizes)
SoundNext ==
  \/ LoadCatalogs \/ BootstrapCatalogs \/ InsertRow \/ FlushAll
  \/ \E name \in Name, sizes \in Schema : SoundCreateTable(name, sizes)
  \/ CreateReturns
  \/ \E p \in Page : WriteBack(p)
  \/ Restart

----------------------------------------------------------------------------
(* Rows and pages have their types.                                        *)

LEMMA PageFacts ==
  /\ EmptyPage \in HeapPage /\ EmptyPage.rows = <<>> /\ EmptyPage.next = NoPage
  /\ Unwritten.rows = <<>> /\ Unwritten.next = NoPage
  /\ Header # Unwritten /\ Header.next = NoPage /\ Header.rows = <<>>
  /\ Unwritten \notin HeapPage /\ Header \notin HeapPage
<1>1. NoPage \in {NoPage} \cup (TypesRoot + 1 .. MaxPages - 1)
  OBVIOUS
<1>2. Capacity \in 0 .. Capacity
  BY ConstantFacts
<1>3. <<>> \in RowSeqs
  BY DEF RowSeqs
<1>4. EmptyPage \in HeapPage
  BY <1>1, <1>2, <1>3 DEF EmptyPage, HeapPage
<1>5. /\ EmptyPage.rows = <<>> /\ EmptyPage.next = NoPage
      /\ Unwritten.rows = <<>> /\ Unwritten.next = NoPage
  BY DEF EmptyPage, Unwritten
<1>6. Unwritten.kind = "unwritten" /\ Header.kind = "header" /\ Header.next = NoPage
      /\ Header.rows = <<>>
  BY DEF Unwritten, Header
<1>7. \A page \in HeapPage : page.kind = "heap"
  BY DEF HeapPage
<1> QED
  BY <1>4, <1>5, <1>6, <1>7

LEMMA RowFacts ==
  ASSUME NEW root \in System
  PROVE  /\ Seq(RowsFor(root)) \subseteq RowSeqs
         /\ \A row \in RowsFor(root) : row.size \in Nat \ {0}
BY DEF RowsFor, RowSeqs, TableRow, ColumnRow, TypeRow

\* A page that takes a row for its heap stays a page of it.
LEMMA PageTakesRow ==
  ASSUME NEW page \in HeapPage, NEW root \in System, NEW row \in RowsFor(root),
         page.rows \in Seq(RowsFor(root)), Accepts(page, row)
  PROVE  /\ WithRow(page, row) \in HeapPage
         /\ WithRow(page, row).rows = Append(page.rows, row)
         /\ WithRow(page, row).rows \in Seq(RowsFor(root))
         /\ WithRow(page, row).next = page.next
         /\ WithRow(page, row).room = page.room - row.size
<1>1. row.size \in Nat \ {0} /\ Seq(RowsFor(root)) \subseteq RowSeqs
  BY RowFacts
<1>2. page.room \in 0 .. Capacity
  BY DEF HeapPage
<1>3. page.room - row.size \in 0 .. Capacity
  BY <1>1, <1>2, ConstantFacts DEF Accepts
<1>4. Append(page.rows, row) \in Seq(RowsFor(root))
  OBVIOUS
<1>5. WithRow(page, row)
        = [page EXCEPT !.rows = Append(page.rows, row), !.room = page.room - row.size]
  BY DEF WithRow
<1> QED
  BY <1>1, <1>3, <1>4, <1>5 DEF HeapPage

\* A page on a disk of the model.
LEMMA DiskPages ==
  ASSUME NEW disk \in Disk, NEW p \in Page, disk[p] # Unwritten, p # 0
  PROVE  disk[p] \in HeapPage
BY DEF Disk

\* Every page has a sequence of rows.
LEMMA DiskRows ==
  ASSUME NEW disk \in Disk, NEW p \in Page
  PROVE  Len(disk[p].rows) \in Nat
<1>1. disk[p] = Unwritten \/ disk[p] = Header \/ disk[p] \in HeapPage
  BY DEF Disk
<1>2. \A rows \in RowSeqs : Len(rows) \in Nat
  BY DEF RowSeqs
<1>3. \A page \in HeapPage : page.rows \in RowSeqs
  BY DEF HeapPage
<1>4. Len(<<>>) \in Nat
  OBVIOUS
<1> QED
  BY <1>1, <1>2, <1>3, <1>4, PageFacts

\* The first pages of tables are pages.
LEMMA MadeRows ==
  ASSUME Typed, NEW i \in 1 .. Len(made)
  PROVE  made[i].row.first \in Page /\ made[i].row.id = TypesRoot + i
<1> DEFINE M == [row : TableRow, sizes : Schema]
<1>1. made \in Seq(M)
  BY DEF Typed
<1>2. made[i] \in M
  <2> HIDE DEF M
  <2> QED BY <1>1
<1>3. made[i].row \in TableRow
  BY <1>2
<1> QED
  BY <1>3 DEF TableRow, Typed

----------------------------------------------------------------------------
(* Every action keeps the invariant.                                       *)

LEMMA CatalogInitInv ==
  ASSUME CatalogInit
  PROVE  CatInv
<1>1. content \in Disk /\ file \in Disk
  BY PageFacts DEF CatalogInit, Disk
<1>2. content[0] = Unwritten /\ file[0] = Unwritten
  BY ConstantFacts DEF CatalogInit
<1>3. Typed
  BY <1>1, <1>2, ConstantFacts DEF CatalogInit, Typed
<1>4. \A p \in Page : content[p] = Unwritten /\ file[p] = Unwritten
  BY DEF CatalogInit
<1>5. Allocated
  BY <1>4 DEF Allocated, LinkedUp, Older
<1>6. ASSUME NEW r \in System
      PROVE  PagesOf(content, r) = {}
  <2>1. content[r] = Unwritten
    BY <1>4, ConstantFacts
  <2> QED BY <2>1, PagesLeast
<1>7. Apart
  BY <1>6 DEF Apart
<1> QED
  BY <1>3, <1>5, <1>7 DEF CatInv, Inserting, FirstPages, CatalogInit

LEMMA LoadCatalogsKeeps ==
  ASSUME CatInv, LoadCatalogs
  PROVE  CatInv'
<1>1. UNCHANGED <<content, file, nextPageId, todo, made, kept, flushed, booted>>
      /\ phase = "closed" /\ phase' = "open"
  BY DEF LoadCatalogs
<1>2. todo = <<>>
  BY <1>1 DEF CatInv, Inserting
<1>3. Typed'
  BY <1>1 DEF CatInv, Typed
<1>4. Allocated' /\ Apart'
  BY <1>1 DEF CatInv, Allocated, Apart
<1>5. Inserting' /\ FirstPages'
  BY <1>1, <1>2 DEF CatInv, Inserting, FirstPages
<1> QED
  BY <1>3, <1>4, <1>5 DEF CatInv

LEMMA CreateReturnsKeeps ==
  ASSUME CatInv, CreateReturns
  PROVE  CatInv'
<1>1. /\ UNCHANGED <<content, file, nextPageId, todo, made, flushed, booted>>
      /\ phase = "create" /\ phase' = "open" /\ todo = <<>>
      /\ kept' = kept \cup {Last(made).row.id}
  BY DEF CreateReturns
<1>2. /\ Len(made) # 0 /\ Len(made) \in Nat /\ Len(made) \in 1 .. Len(made)
      /\ Last(made) = made[Len(made)]
      /\ content[made[Len(made)].row.first] # Unwritten
  BY <1>1 DEF CatInv, FirstPages, Typed, Last
<1>3. Typed'
  BY <1>1, <1>2 DEF CatInv, Typed
<1>4. Allocated' /\ Apart'
  BY <1>1 DEF CatInv, Allocated, Apart
<1>5. FirstPages'
  <2> SUFFICES ASSUME NEW i \in 1 .. Len(made), made[i].row.id \in kept \cup {Last(made).row.id}
               PROVE  /\ content[made[i].row.first] # Unwritten
                      /\ \A j \in 1 .. Len(made) :
                           i < j => made[j].row.first # made[i].row.first
    BY <1>1 DEF CatInv, FirstPages
  <2>1. CASE made[i].row.id \in kept
    BY <2>1 DEF CatInv, FirstPages
  <2>2. CASE made[i].row.id = made[Len(made)].row.id
    <3>1. i = Len(made)
      <4>1. \A j \in 1 .. Len(made) : made[j].row.id = TypesRoot + j
        BY DEF CatInv, Typed
      <4>2. TypesRoot + i = TypesRoot + Len(made)
        BY <4>1, <2>2, <1>2
      <4> QED BY <4>2, <1>2, ConstantFacts
    <3>2. \A j \in 1 .. Len(made) : ~ (i < j)
      BY <3>1, <1>2
    <3> QED BY <3>1, <3>2, <1>2
  <2> QED BY <2>1, <2>2, <1>2
<1>6. Inserting'
  BY <1>1 DEF Inserting
<1> QED
  BY <1>3, <1>4, <1>5, <1>6 DEF CatInv

LEMMA WriteBackKeeps ==
  ASSUME CatInv, NEW w \in Page, WriteBack(w)
  PROVE  CatInv'
<1>1. /\ UNCHANGED <<content, nextPageId, phase, todo, made, kept, flushed, booted>>
      /\ file' = [file EXCEPT ![w] = content[w]]
      /\ content[w] # Unwritten
  BY DEF WriteBack, Exists
<1>2. content \in Disk /\ file \in Disk
  BY DEF CatInv, Typed
<1>3. \A p \in Page : file'[p] = IF p = w THEN content[w] ELSE file[p]
  BY <1>1, <1>2 DEF Disk
<1>4. file' \in Disk /\ file'[0] \in {Unwritten, Header}
  <2>1. file' \in Disk
    BY <1>1, <1>2 DEF Disk
  <2>2. file'[0] \in {Unwritten, Header}
    BY <1>3, ConstantFacts DEF CatInv, Typed
  <2> QED BY <2>1, <2>2
<1>5. Typed'
  BY <1>1, <1>4 DEF CatInv, Typed
<1>6. Allocated'
  BY <1>1, <1>3 DEF CatInv, Allocated, LinkedUp, Older
<1>7. Apart'
  <2> SUFFICES ASSUME NEW r \in System, NEW p \in PagesOf(content, r)
               PROVE  file'[p].rows \in Seq(RowsFor(r))
    BY <1>1 DEF CatInv, Apart
  <2>1. p \in Page
    BY PagesExist DEF CatInv, Allocated
  <2> QED BY <1>3, <2>1 DEF CatInv, Apart
<1>8. Inserting'
  BY <1>1 DEF CatInv, Inserting, Whole
<1>9. FirstPages'
  <2>1. \A i \in 1 .. Len(made) : made[i].row.first \in Page
    BY MadeRows DEF CatInv
  <2>2. \A i \in 1 .. Len(made) :
          made[i].row.id \in flushed => file'[made[i].row.first] # Unwritten
    BY <1>1, <1>3, <2>1 DEF CatInv, FirstPages
  <2> QED BY <1>1, <2>2 DEF CatInv, FirstPages
<1> QED
  BY <1>5, <1>6, <1>7, <1>8, <1>9 DEF CatInv

LEMMA FlushAllKeeps ==
  ASSUME CatInv, FlushAll
  PROVE  CatInv'
<1>1. /\ UNCHANGED <<content, nextPageId, todo, made, kept>>
      /\ file' = content /\ phase' = "open" /\ todo = <<>>
      /\ flushed' = kept /\ booted' = (booted \/ phase = "bootstrap")
  BY DEF FlushAll
<1>2. Typed'
  <2>1. booted' \in BOOLEAN
    BY <1>1
  <2> QED BY <1>1, <2>1 DEF CatInv, Typed
<1>3. Allocated'
  BY <1>1 DEF CatInv, Allocated, Older
<1>4. Apart'
  BY <1>1 DEF CatInv, Apart
<1>5. Inserting' /\ FirstPages'
  BY <1>1 DEF CatInv, Inserting, FirstPages
<1> QED
  BY <1>2, <1>3, <1>4, <1>5 DEF CatInv

\* GetNumPages() is the least number that is above every page of the file.
LEMMA NumPagesCounts ==
  NumPages \in 0 .. MaxPages /\ \A p \in Page : file[p] # Unwritten => p < NumPages
<1> DEFINE Above == {n \in 0 .. MaxPages : \A p \in Page : p >= n => file[p] = Unwritten}
           Counts(n) == /\ \A p \in Page : p >= n => file[p] = Unwritten
                        /\ n > 0 => file[n - 1] # Unwritten
<1>1. Above # {} /\ Above \in SUBSET Nat
  <2>1. MaxPages \in 0 .. MaxPages /\ \A p \in Page : ~ (p >= MaxPages)
    BY ConstantFacts DEF Page
  <2> QED BY <2>1
<1>2. PICK n \in Above : \A m \in Above : n <= m
  <2> HIDE DEF Above
  <2> QED BY <1>1, LeastOf
<1>3. n \in 0 .. MaxPages /\ Counts(n)
  <2>1. n \in 0 .. MaxPages /\ \A p \in Page : p >= n => file[p] = Unwritten
    OBVIOUS
  <2>2. ASSUME n > 0
        PROVE  file[n - 1] # Unwritten
    <3>1. n - 1 \in 0 .. MaxPages /\ ~ (n <= n - 1) /\ n - 1 \in Page
          /\ \A p \in Page : (p >= n - 1 /\ p # n - 1) => p >= n
      BY <2>1, <2>2, ConstantFacts DEF Page
    <3>2. n - 1 \notin Above
      <4> HIDE DEF Above
      <4> QED BY <1>2, <3>1
    <3>3. PICK p \in Page : p >= n - 1 /\ file[p] # Unwritten
      BY <3>1, <3>2
    <3>4. p = n - 1
      BY <2>1, <3>1, <3>3
    <3> QED BY <3>3, <3>4
  <2> QED BY <2>1, <2>2
<1>4. NumPages = CHOOSE m \in 0 .. MaxPages : Counts(m)
  BY DEF NumPages
<1>5. NumPages \in 0 .. MaxPages /\ Counts(NumPages)
  <2> HIDE DEF Counts
  <2> QED BY <1>3, <1>4
<1>6. \A p \in Page : ~ (p >= NumPages) => p < NumPages
  BY <1>5, ConstantFacts DEF Page
<1> QED
  BY <1>5, <1>6

\* The pool's pages are lost and the file's are left.
LEMMA RestartKeeps ==
  ASSUME CatInv, Restart
  PROVE  CatInv'
<1>1. /\ content' = file /\ nextPageId' = NumPages /\ phase' = "closed" /\ todo' = <<>>
      /\ kept' = flushed /\ UNCHANGED <<file, made, flushed, booted>>
  BY DEF Restart
<1>2. Typed /\ LinkedUp(content) /\ LinkedUp(file) /\ Older(file, content)
  BY DEF CatInv, Allocated
<1>3. nextPageId' \in 0 .. MaxPages
      /\ \A p \in Page : content'[p] # Unwritten => p < nextPageId'
  BY <1>1, <1>2, NumPagesCounts
<1>4. Typed'
  <2>1. <<>> \in Seq(Insertion)
    OBVIOUS
  <2> QED BY <1>1, <1>2, <1>3, <2>1 DEF Typed
<1>5. Allocated'
  <2>1. Older(file, file)
    BY DEF Older
  <2> QED BY <1>1, <1>2, <1>3, <2>1 DEF Allocated
<1>6. Apart'
  <2>1. \A r \in System : PagesOf(file, r) \subseteq PagesOf(content, r)
    BY <1>2, OlderPages
  <2> QED BY <1>1, <2>1 DEF CatInv, Apart
<1>7. Inserting'
  BY <1>1 DEF Inserting
<1>8. FirstPages'
  <2>1. \A i \in 1 .. Len(made) : made[i].row.id \in flushed => made[i].row.id \in kept
    BY <1>2 DEF Typed
  <2> QED BY <1>1, <2>1 DEF CatInv, FirstPages
<1> QED
  BY <1>4, <1>5, <1>6, <1>7, <1>8 DEF CatInv

\* The rows of columns and of tables are rows of their heaps.
LEMMA ColumnsTyped ==
  ASSUME NEW id \in Id, NEW sizes \in Seq(Nat \ {0})
  PROVE  Columns(id, sizes) \in Seq(ColumnRow)
<1>1. DOMAIN sizes = 1 .. Len(sizes) /\ Len(sizes) \in Nat
      /\ \A i \in 1 .. Len(sizes) : sizes[i] \in Nat \ {0} /\ i \in Nat
  OBVIOUS
<1>2. Columns(id, sizes) \in [1 .. Len(sizes) -> ColumnRow]
  BY <1>1 DEF Columns, ColumnRow
<1> QED
  BY <1>1, <1>2

LEMMA InsertsTyped ==
  ASSUME NEW root \in System, NEW rows \in Seq(RowsFor(root))
  PROVE  Inserts(root, rows) \in Seq(Insertion)
<1>1. DOMAIN rows = 1 .. Len(rows) /\ Len(rows) \in Nat
      /\ \A i \in 1 .. Len(rows) : rows[i] \in RowsFor(root)
  OBVIOUS
<1>2. RowsFor(root) \subseteq TableRow \cup ColumnRow \cup TypeRow
  BY DEF RowsFor
<1>3. \A row \in RowsFor(root) : <<root, row>> \in Insertion
  BY <1>2 DEF Insertion
<1>4. Inserts(root, rows) \in [1 .. Len(rows) -> Insertion]
  BY <1>1, <1>3 DEF Inserts
<1> QED
  BY <1>1, <1>4

LEMMA TableInfoTyped ==
  ASSUME NEW id \in Id, NEW name \in Name \cup ToSet(SystemName), NEW first \in Page
  PROVE  /\ TableInfo(id, name, first) \in TableRow
         /\ Inserts(TablesRoot, <<TableInfo(id, name, first)>>) \in Seq(Insertion)
<1>1. RowSize[name] \in Nat \ {0}
  BY CatalogAssumption
<1>2. TableInfo(id, name, first) \in TableRow
  BY <1>1 DEF TableInfo, TableRow
<1>3. TablesRoot \in System /\ RowsFor(TablesRoot) = TableRow
  BY ConstantFacts DEF RowsFor
<1>4. <<TableInfo(id, name, first)>> \in Seq(RowsFor(TablesRoot))
  BY <1>2, <1>3
<1> QED
  BY <1>2, <1>3, <1>4, InsertsTyped

LEMMA ColumnInsertsTyped ==
  ASSUME NEW id \in Id, NEW sizes \in Seq(Nat \ {0})
  PROVE  Inserts(AttributesRoot, Columns(id, sizes)) \in Seq(Insertion)
<1>1. AttributesRoot \in System /\ RowsFor(AttributesRoot) = ColumnRow
  BY ConstantFacts DEF RowsFor
<1> QED
  BY <1>1, ColumnsTyped, InsertsTyped

LEMMA BootstrapTyped ==
  InsertBuiltinTypes \o InsertCatalogMetadata \in Seq(Insertion)
<1>1. InsertBuiltinTypes \in Seq(Insertion)
  <2>1. TypesRoot \in System /\ RowsFor(TypesRoot) = TypeRow
    BY ConstantFacts DEF RowsFor
  <2>2. <<[type |-> "INT", size |-> 1], [type |-> "TEXT", size |-> 1]>> \in Seq(TypeRow)
    BY DEF TypeRow
  <2> QED BY <2>1, <2>2, InsertsTyped DEF InsertBuiltinTypes
<1>2. ASSUME NEW i \in System
      PROVE  Describe(i) \in Seq(Insertion)
  <2>1. i \in 1 .. 3 /\ i \in Id /\ i \in Page
    BY ConstantFacts DEF System, Id
  <2>2. SystemName[i] \in ToSet(SystemName)
    BY <2>1 DEF SystemName, ToSet
  <2>3. SystemSchema[i] \in Seq(Nat \ {0})
    <3>1. <<1, 1, 1, 1>> \in Seq(Nat \ {0}) /\ <<1, 1, 1>> \in Seq(Nat \ {0})
      OBVIOUS
    <3>2. SystemSchema[i] \in {<<1, 1, 1, 1>>, <<1, 1, 1>>}
      BY <2>1 DEF SystemSchema
    <3> QED BY <3>1, <3>2
  <2> QED BY <2>1, <2>2, <2>3, TableInfoTyped, ColumnInsertsTyped DEF Describe, SystemTable
<1> QED
  BY <1>1, <1>2, ConstantFacts DEF InsertCatalogMetadata

\* Nothing is on a disk whose next page id is 0.
LEMMA BootstrapCatalogsKeeps ==
  ASSUME CatInv, BootstrapCatalogs
  PROVE  /\ CatInv'
         /\ \A p \in Page : content[p] = Unwritten /\ file[p] = Unwritten
         /\ \A p \in Page : content'[p].rows = <<>> /\ file'[p].rows = <<>>
<1>1. /\ nextPageId = 0 /\ phase' = "bootstrap" /\ nextPageId' = TypesRoot + 1
      /\ file' = [file EXCEPT ![0] = Header]
      /\ content' = [content EXCEPT ![0] = Header, ![TablesRoot] = EmptyPage,
                                    ![AttributesRoot] = EmptyPage, ![TypesRoot] = EmptyPage]
      /\ todo' = InsertBuiltinTypes \o InsertCatalogMetadata
      /\ UNCHANGED <<made, kept, flushed, booted>>
  BY DEF BootstrapCatalogs
<1>2. \A p \in Page : content[p] = Unwritten /\ file[p] = Unwritten
  <2>1. \A p \in Page : ~ (p < 0)
    BY DEF Page
  <2> QED BY <1>1, <2>1 DEF CatInv, Allocated, Older
<1>3. content \in Disk /\ file \in Disk
  BY DEF CatInv, Typed
<1>4. /\ \A p \in Page : file'[p] = IF p = 0 THEN Header ELSE Unwritten
      /\ \A p \in Page : content'[p] =
           IF p = 0 THEN Header ELSE IF p \in System THEN EmptyPage ELSE Unwritten
  BY <1>1, <1>2, <1>3, ConstantFacts DEF Disk
<1>5. content' \in Disk /\ file' \in Disk
  BY <1>1, <1>3, PageFacts, ConstantFacts DEF Disk
<1>6. Typed'
  <2>1. content'[0] = Header /\ file'[0] = Header
    BY <1>4, ConstantFacts
  <2>2. nextPageId' \in 0 .. MaxPages
    BY <1>1, ConstantFacts
  <2> QED BY <1>1, <1>5, <2>1, <2>2, BootstrapTyped DEF CatInv, Typed
<1>7. Allocated'
  <2>1. \A p \in Page : (p = 0 \/ p \in System) => p < nextPageId'
    BY <1>1, ConstantFacts
  <2> QED BY <1>4, <2>1, PageFacts DEF Allocated, LinkedUp, Older
<1>8. ASSUME NEW r \in System
      PROVE  PagesOf(content', r) \subseteq {r}
  <2>1. content'[r].next = NoPage
    BY <1>4, ConstantFacts, PageFacts
  <2> QED BY <2>1, PagesLeast
<1>9. Apart'
  <2>1. \A r \in System : content'[r].rows = <<>> /\ file'[r].rows = <<>>
    BY <1>4, ConstantFacts, PageFacts
  <2>2. \A r \in System : <<>> \in Seq(RowsFor(r))
    OBVIOUS
  <2> QED BY <1>8, <2>1, <2>2 DEF Apart
<1>10. Inserting'
  <2>1. \A r \in System : content'[r] # Unwritten /\ content'[r].next = NoPage
    BY <1>4, ConstantFacts, PageFacts
  <2> QED BY <1>1, <1>8, <2>1 DEF Inserting, Whole
<1>11. FirstPages'
  <2>1. \A i \in 1 .. Len(made) : made[i].row.id \notin kept /\ made[i].row.id \notin flushed
    BY <1>2, MadeRows DEF CatInv, FirstPages, Typed
  <2> QED BY <1>1, <2>1 DEF FirstPages
<1>12. \A p \in Page : content'[p].rows = <<>> /\ file'[p].rows = <<>>
  BY <1>4, PageFacts
<1> QED
  BY <1>2, <1>6, <1>7, <1>9, <1>10, <1>11, <1>12 DEF CatInv

\* An insert adds a row to the first page of its heap that has room for it, or a new
\* page after the last one.
AddsRow(r, row, p) ==
  /\ Accepts(content[p], row)
  /\ \A q \in PagesOf(content, r) : q < p => ~ Accepts(content[q], row)
  /\ content' = [content EXCEPT ![p] = WithRow(@, row)]
  /\ UNCHANGED nextPageId

AddsPage(r, e, p) ==
  /\ content[p].next = NoPage
  /\ e \in HeapPage /\ e.next = NoPage /\ e.rows \in Seq(RowsFor(r))
  /\ nextPageId < MaxPages
  /\ content' = [content EXCEPT ![p].next = nextPageId, ![nextPageId] = e]
  /\ nextPageId' = nextPageId + 1

AddsPageFor(r, row, e, p) ==
  /\ AddsPage(r, e, p)
  /\ e.rows = IF Fits(row) THEN <<row>> ELSE <<>>
  /\ \A q \in PagesOf(content, r) : ~ Accepts(content[q], row)

LEMMA InsertRowAdds ==
  ASSUME CatInv, InsertRow
  PROVE  \E r \in System : \E row \in RowsFor(r), p \in PagesOf(content, r) :
           /\ Head(todo) = <<r, row>>
           /\ AddsRow(r, row, p) \/ \E e \in HeapPage : AddsPageFor(r, row, e, p)
<1>1. todo \in Seq(Insertion) /\ todo # <<>>
  BY DEF CatInv, Typed, InsertRow
<1>2. PICK head \in Insertion : head = Head(todo)
  BY <1>1
<1>3. PICK root \in System : root = head[1]
  BY DEF Insertion
<1>4. PICK row \in RowsFor(root) : row = head[2] /\ Head(todo) = <<root, row>>
  BY <1>2, <1>3 DEF Insertion
<1>5. Whole /\ LinkedUp(content)
  BY <1>1 DEF CatInv, Inserting, Allocated
<1>6. PICK at : at = Walk(content, root)
  OBVIOUS
<1>7. PICK steps : steps = Steps(content, root)
  OBVIOUS
<1> DEFINE room == {i \in steps : Accepts(content[at[i]], row)}
<1>8. \A i \in steps : at[i] \in PagesOf(content, root)
  BY <1>6, <1>7 DEF PagesOf
<1>9. IF room # {}
      THEN \E i \in room :
             /\ \A j \in room : i <= j
             /\ content' = [content EXCEPT ![at[i]] = WithRow(@, row)]
             /\ UNCHANGED nextPageId
      ELSE \E last \in steps :
             /\ \A j \in steps : j <= last
             /\ nextPageId < MaxPages
             /\ content' = [content EXCEPT
                  ![at[last]].next = nextPageId,
                  ![nextPageId] = IF Accepts(EmptyPage, row)
                                  THEN WithRow(EmptyPage, row) ELSE EmptyPage]
             /\ nextPageId' = nextPageId + 1
  BY <1>2, <1>3, <1>4, <1>6, <1>7 DEF InsertRow
<1>10. CASE room # {}
  <2>1. PICK i \in room : /\ \A j \in room : i <= j
                          /\ content' = [content EXCEPT ![at[i]] = WithRow(@, row)]
                          /\ UNCHANGED nextPageId
    BY <1>9, <1>10
  <2>2. ASSUME NEW q \in PagesOf(content, root), q < at[i]
        PROVE  ~ Accepts(content[q], row)
    <3>1. PICK j \in steps : q = at[j]
      BY <1>6, <1>7 DEF PagesOf
    <3>2. i \in 0 .. MaxPages /\ j \in 0 .. MaxPages /\ i \in steps
      BY <1>7 DEF Steps
    <3>3. q \in Nat /\ at[i] \in Nat
      BY <1>5, <1>8, <3>2, PagesExist, ConstantFacts
    <3>4. ~ (at[i] < at[j]) /\ at[i] # at[j]
      BY <2>2, <3>1, <3>3
    <3>5. ~ (i < j) /\ i # j
      BY <1>5, <1>6, <1>7, <3>1, <3>2, <3>4, WalkRises
    <3>6. ~ (i <= j)
      BY <3>2, <3>5
    <3> QED BY <2>1, <3>1, <3>6
  <2>3. AddsRow(root, row, at[i])
    BY <2>1, <2>2 DEF AddsRow
  <2> QED BY <1>4, <1>8, <2>1, <2>3
<1>11. CASE room = {}
  <2> DEFINE e == IF Accepts(EmptyPage, row) THEN WithRow(EmptyPage, row) ELSE EmptyPage
  <2>1. PICK last \in steps :
          /\ \A j \in steps : j <= last
          /\ nextPageId < MaxPages
          /\ content' = [content EXCEPT ![at[last]].next = nextPageId, ![nextPageId] = e]
          /\ nextPageId' = nextPageId + 1
    BY <1>9, <1>11
  <2>2. /\ e \in HeapPage /\ e.next = NoPage /\ e.rows \in Seq(RowsFor(root))
        /\ e.rows = IF Fits(row) THEN <<row>> ELSE <<>>
    <3>1. EmptyPage.rows \in Seq(RowsFor(root))
      BY PageFacts
    <3>2. Accepts(EmptyPage, row) => WithRow(EmptyPage, row).rows = <<row>>
      <4>1. Append(<<>>, row) = <<row>>
        OBVIOUS
      <4>2. Accepts(EmptyPage, row)
              => WithRow(EmptyPage, row).rows = Append(EmptyPage.rows, row)
        BY <3>1, PageFacts, PageTakesRow
      <4> QED BY <4>1, <4>2, PageFacts
    <3>3. Accepts(EmptyPage, row) <=> Fits(row)
      BY DEF Accepts, EmptyPage, Fits
    <3> QED BY <3>1, <3>2, <3>3, PageFacts, PageTakesRow
  <2>3. content[at[last]].next = NoPage
    <3> SUFFICES ASSUME content[at[last]].next # NoPage
                 PROVE  FALSE
      OBVIOUS
    <3>1. content[content[at[last]].next] # Unwritten
      BY <1>5, <1>8 DEF Whole
    <3>2. PICK p : p = at[last]
      OBVIOUS
    <3>3. \E j \in Steps(content, root) : last < j /\ Walk(content, root)[j] = content[p].next
      BY <1>5, <1>6, <1>7, <3>1, <3>2, StepsFollow
    <3>4. \A j \in steps : j \in 0 .. MaxPages
      BY <1>7 DEF Steps
    <3> QED BY <1>7, <2>1, <3>3, <3>4, ConstantFacts
  <2> HIDE DEF e
  <2>4. \A q \in PagesOf(content, root) : ~ Accepts(content[q], row)
    BY <1>6, <1>7, <1>11 DEF PagesOf
  <2>5. AddsPageFor(root, row, e, at[last])
    BY <2>1, <2>2, <2>3, <2>4 DEF AddsPage, AddsPageFor
  <2> QED BY <1>4, <1>8, <2>2, <2>5
<1> QED
  BY <1>10, <1>11

LEMMA AddsRowKeeps ==
  ASSUME CatInv, InsertRow, NEW r \in System, NEW p \in PagesOf(content, r),
         NEW row \in RowsFor(r), AddsRow(r, row, p)
  PROVE  /\ CatInv'
         /\ \A q \in Page :
              content'[q] = IF q = p THEN WithRow(content[p], row) ELSE content[q]
         /\ \A s \in System : PagesOf(content', s) \subseteq PagesOf(content, s)
<1>1. UNCHANGED <<file, nextPageId, phase, made, kept, flushed, booted>>
      /\ todo # <<>> /\ todo' = Tail(todo) /\ Accepts(content[p], row)
  BY DEF InsertRow, AddsRow
<1>2. content \in Disk /\ LinkedUp(content) /\ LinkedUp(file) /\ Older(file, content) /\ Whole
  BY <1>1 DEF CatInv, Typed, Allocated, Inserting
<1>3. p \in Page \ {0} /\ content[p] # Unwritten
  BY <1>2, PagesExist
<1>4. content[p] \in HeapPage
  BY <1>2, <1>3, DiskPages
<1>5. PICK new : new = WithRow(content[p], row)
  OBVIOUS
<1>6. /\ new \in HeapPage /\ new # Unwritten
      /\ new.rows \in Seq(RowsFor(r)) /\ new.next = content[p].next
  <2>1. content[p].rows \in Seq(RowsFor(r))
    BY DEF CatInv, Apart
  <2> QED BY <1>1, <1>4, <1>5, <2>1, PageTakesRow, PageFacts
<1>7. /\ content' = [content EXCEPT ![p] = new]
      /\ \A q \in Page : content'[q] = IF q = p THEN new ELSE content[q]
  BY <1>2, <1>5 DEF AddsRow, Disk
<1>8. /\ content' \in Disk
      /\ content'[0] \in {Unwritten, Header}
  <2>1. content'[0] = content[0]
    BY <1>3, <1>7, ConstantFacts
  <2>2. content' \in Disk
    BY <1>2, <1>3, <1>6, <1>7, PageFacts DEF Disk
  <2> QED BY <2>1, <2>2 DEF CatInv, Typed
<1>9. Typed'
  <2>1. todo' \in Seq(Insertion)
    BY <1>1 DEF CatInv, Typed
  <2> QED BY <1>1, <1>8, <2>1 DEF CatInv, Typed
<1>10. \A q \in Page : /\ content'[q] # Unwritten <=> content[q] # Unwritten
                       /\ content'[q].next = content[q].next
  BY <1>3, <1>6, <1>7
<1>11. Allocated'
  BY <1>1, <1>10 DEF CatInv, Allocated, LinkedUp, Older
<1>12. ASSUME NEW s \in System
       PROVE  PagesOf(content', s) \subseteq PagesOf(content, s)
  <2>1. Older(content', content)
    BY <1>10 DEF Older
  <2> QED BY <1>2, <2>1, OlderPages
<1>13. Apart'
  <2>1. \A s, t \in System : s # t => PagesOf(content', s) \cap PagesOf(content', t) = {}
    BY <1>12 DEF CatInv, Apart
  <2>2. ASSUME NEW s \in System, NEW q \in PagesOf(content', s)
        PROVE  content'[q].rows \in Seq(RowsFor(s)) /\ file[q].rows \in Seq(RowsFor(s))
    <3>1. q \in PagesOf(content, s) /\ q \in Page
      BY <1>2, <1>12, PagesExist
    <3>2. q = p => s = r
      BY <3>1 DEF CatInv, Apart
    <3>3. content[q].rows \in Seq(RowsFor(s)) /\ file[q].rows \in Seq(RowsFor(s))
      BY <3>1 DEF CatInv, Apart
    <3> QED BY <1>6, <1>7, <3>1, <3>2, <3>3
  <2> QED BY <1>1, <2>1, <2>2 DEF Apart
<1>14. Inserting'
  <2>1. \A s \in System : s \in Page
    BY ConstantFacts
  <2>2. ASSUME NEW s \in System, NEW q \in PagesOf(content', s), content'[q].next # NoPage
        PROVE  content'[content'[q].next] # Unwritten
    <3>1. q \in PagesOf(content, s) /\ q \in Page /\ content[q] # Unwritten
      BY <1>2, <1>12, PagesExist
    <3>2. content'[q].next = content[q].next /\ content[q].next \in Page
      BY <1>2, <1>10, <2>2, <3>1 DEF LinkedUp
    <3> QED BY <1>2, <1>10, <2>2, <3>1, <3>2 DEF Whole
  <2>3. Whole'
    BY <1>2, <1>10, <2>1, <2>2 DEF Whole
  <2> QED BY <1>1, <2>3 DEF CatInv, Inserting
<1>15. FirstPages'
  <2>1. \A i \in 1 .. Len(made) : made[i].row.first \in Page
    BY MadeRows DEF CatInv
  <2>2. phase = "create" => made[Len(made)].row.first \in Page
    <3>1. phase = "create" => Len(made) \in 1 .. Len(made)
      BY DEF CatInv, FirstPages, Typed
    <3> QED BY <2>1, <3>1
  <2> QED BY <1>1, <1>10, <2>1, <2>2 DEF CatInv, FirstPages
<1> QED
  BY <1>5, <1>7, <1>9, <1>11, <1>12, <1>13, <1>14, <1>15 DEF CatInv

LEMMA AddsPageKeeps ==
  ASSUME CatInv, InsertRow, NEW r \in System, NEW p \in PagesOf(content, r),
         NEW e \in HeapPage, AddsPage(r, e, p)
  PROVE  /\ CatInv'
         /\ nextPageId \in Page /\ content[nextPageId] = Unwritten
         /\ \A q \in Page :
              content'[q] = IF q = nextPageId THEN e
                            ELSE IF q = p THEN [content[p] EXCEPT !.next = nextPageId]
                            ELSE content[q]
         /\ \A s \in System :
              PagesOf(content', s)
                \subseteq PagesOf(content, s) \cup (IF s = r THEN {nextPageId} ELSE {})
<1>1. /\ UNCHANGED <<file, phase, made, kept, flushed, booted>>
      /\ todo # <<>> /\ todo' = Tail(todo)
      /\ nextPageId < MaxPages /\ nextPageId' = nextPageId + 1
      /\ content[p].next = NoPage /\ e.next = NoPage /\ e.rows \in Seq(RowsFor(r))
  BY DEF InsertRow, AddsPage
<1>2. content \in Disk /\ LinkedUp(content) /\ LinkedUp(file) /\ Older(file, content) /\ Whole
  BY <1>1 DEF CatInv, Typed, Allocated, Inserting
<1>3. PICK n \in Page : n = nextPageId
  BY <1>1, ConstantFacts DEF CatInv, Typed, Page
<1>4. content[n] = Unwritten /\ file[n] = Unwritten
  <2>1. ~ (n < nextPageId)
    BY <1>3, ConstantFacts
  <2> QED BY <1>3, <2>1 DEF CatInv, Allocated, Older
<1>5. /\ p \in Page \ {0} /\ content[p] # Unwritten /\ content[p] \in HeapPage
      /\ p # n /\ p < n
  BY <1>2, <1>3, <1>4, PagesExist, DiskPages DEF CatInv, Allocated
<1>6. PICK last : last = [content[p] EXCEPT !.next = n]
  OBVIOUS
<1>7. n \in TypesRoot + 1 .. MaxPages - 1
  <2>1. \A s \in System : s < n
    BY <1>2, <1>3, ConstantFacts DEF CatInv, Allocated, Whole
  <2> QED BY <2>1, ConstantFacts DEF Page
<1>8. last \in HeapPage /\ last # Unwritten /\ last.rows = content[p].rows /\ last.next = n
  BY <1>5, <1>6, <1>7, PageFacts DEF HeapPage
<1>9. /\ content' = [[content EXCEPT ![p] = last] EXCEPT ![n] = e]
      /\ \A q \in Page :
           content'[q] = IF q = n THEN e ELSE IF q = p THEN last ELSE content[q]
  BY <1>2, <1>3, <1>5, <1>6 DEF AddsPage, Disk
<1>10. content' \in Disk /\ content'[0] \in {Unwritten, Header}
  <2>1. content'[0] = content[0] /\ n # 0
    <3>1. n # 0 /\ p # 0 /\ 0 \in Page
      BY <1>5, <1>7, ConstantFacts
    <3> QED BY <1>9, <3>1
  <2>2. content' \in Disk
    BY <1>2, <1>5, <1>8, <1>9, <2>1, PageFacts DEF Disk
  <2> QED BY <2>1, <2>2 DEF CatInv, Typed
<1>11. Typed'
  <2>1. todo' \in Seq(Insertion)
    BY <1>1 DEF CatInv, Typed
  <2>2. nextPageId' \in 0 .. MaxPages
    BY <1>1, ConstantFacts DEF CatInv, Typed
  <2> QED BY <1>1, <1>10, <2>1, <2>2 DEF CatInv, Typed
<1>12. \A q \in Page : /\ content[q] # Unwritten => content'[q] # Unwritten
                       /\ content'[q] # Unwritten => content[q] # Unwritten \/ q = n
                       /\ (q # p /\ q # n) => content'[q] = content[q]
  BY <1>5, <1>8, <1>9, PageFacts
<1>13. content'[n] = e /\ content'[p] = last /\ e # Unwritten
  BY <1>5, <1>9, PageFacts
<1>14. Allocated'
  <2>1. \A q \in Page : content'[q] # Unwritten => q < nextPageId'
    <3>1. \A q \in Page : content[q] # Unwritten => q < nextPageId
      BY DEF CatInv, Allocated
    <3>2. \A q \in Page : (q < nextPageId \/ q = n) => q < nextPageId'
      BY <1>1, <1>3, ConstantFacts
    <3> QED BY <1>12, <3>1, <3>2
  <2>2. LinkedUp(content')
    BY <1>1, <1>2, <1>5, <1>8, <1>12, <1>13 DEF LinkedUp
  <2>3. Older(file, content')
    <3> SUFFICES ASSUME NEW q \in Page, file[q] # Unwritten
                 PROVE  /\ content'[q] # Unwritten
                        /\ file[q].next = NoPage \/ file[q].next = content'[q].next
      BY DEF Older
    <3>1. /\ content[q] # Unwritten /\ q # n
          /\ file[q].next = NoPage \/ file[q].next = content[q].next
      BY <1>2, <1>4 DEF Older
    <3> QED BY <1>1, <1>12, <3>1
  <2> QED BY <1>1, <1>2, <2>1, <2>2, <2>3 DEF Allocated
<1>15. ASSUME NEW s \in System
       PROVE  PagesOf(content', s) \subseteq PagesOf(content, s) \cup (IF s = r THEN {n} ELSE {})
  <2> DEFINE T == PagesOf(content, s) \cup (IF s = r THEN {n} ELSE {})
  <2>1. s \in T
    BY <1>2, PagesStart DEF Whole
  <2>2. ASSUME NEW q \in T, content'[q] # Unwritten, content'[q].next # NoPage,
               content'[content'[q].next] # Unwritten
        PROVE  content'[q].next \in T
    <3>1. q # n /\ q \in PagesOf(content, s)
      BY <1>1, <1>13, <2>2
    <3>2. q \in Page /\ content[q] # Unwritten
      BY <1>2, <3>1, PagesExist
    <3>3. CASE q = p
      <4>1. s = r
        BY <3>1, <3>3 DEF CatInv, Apart
      <4> QED BY <1>8, <1>13, <3>3, <4>1
    <3>4. CASE q # p
      <4>1. content'[q] = content[q] /\ content[q].next # NoPage
        BY <1>12, <2>2, <3>1, <3>2, <3>4
      <4>2. content[content[q].next] # Unwritten
        BY <1>2, <3>1, <4>1 DEF Whole
      <4> QED BY <1>2, <3>1, <4>1, <4>2, PagesFollow
    <3> QED BY <3>3, <3>4
  <2> HIDE DEF T
  <2>3. PagesOf(content', s) \subseteq T
    BY <2>1, <2>2, PagesLeast
  <2> QED BY <2>3 DEF T
<1>16. \A s \in System : n \notin PagesOf(content, s)
  BY <1>2, <1>4, PagesExist
<1>17. Apart'
  <2>1. \A s, t \in System : s # t => PagesOf(content', s) \cap PagesOf(content', t) = {}
    BY <1>15, <1>16 DEF CatInv, Apart
  <2>2. ASSUME NEW s \in System, NEW q \in PagesOf(content', s)
        PROVE  content'[q].rows \in Seq(RowsFor(s)) /\ file[q].rows \in Seq(RowsFor(s))
    <3>1. CASE q = n /\ s = r
      <4>1. file[n].rows = <<>>
        BY <1>4, PageFacts
      <4> QED BY <1>1, <1>13, <3>1, <4>1
    <3>2. CASE q \in PagesOf(content, s)
      <4>1. q \in Page /\ q # n
        BY <1>2, <1>16, <3>2, PagesExist
      <4>2. content'[q].rows = content[q].rows
        BY <1>8, <1>12, <1>13, <4>1
      <4> QED BY <3>2, <4>2 DEF CatInv, Apart
    <3> QED BY <1>15, <3>1, <3>2
  <2> QED BY <1>1, <2>1, <2>2 DEF Apart
<1>18. Inserting'
  <2>1. \A s \in System : content'[s] # Unwritten
    BY <1>2, <1>12, ConstantFacts DEF Whole
  <2>2. ASSUME NEW s \in System, NEW q \in PagesOf(content', s), content'[q].next # NoPage
        PROVE  content'[content'[q].next] # Unwritten
    <3>1. q # n /\ q \in PagesOf(content, s)
      BY <1>1, <1>13, <1>15, <2>2
    <3>2. q \in Page /\ content[q] # Unwritten
      BY <1>2, <3>1, PagesExist
    <3>3. CASE q = p
      BY <1>8, <1>13, <3>3
    <3>4. CASE q # p
      <4>1. content'[q] = content[q] /\ content[q].next # NoPage
        BY <1>12, <2>2, <3>1, <3>2, <3>4
      <4>2. content[content[q].next] # Unwritten /\ content[q].next \in Page
        BY <1>2, <3>1, <3>2, <4>1 DEF Whole, LinkedUp
      <4> QED BY <1>12, <4>1, <4>2
    <3> QED BY <3>3, <3>4
  <2>3. Whole'
    BY <2>1, <2>2 DEF Whole
  <2> QED BY <1>1, <2>3 DEF CatInv, Inserting
<1>19. FirstPages'
  <2>1. \A i \in 1 .. Len(made) : made[i].row.first \in Page
    BY MadeRows DEF CatInv
  <2>2. phase = "create" => made[Len(made)].row.first \in Page
    <3>1. phase = "create" => Len(made) \in 1 .. Len(made)
      BY DEF CatInv, FirstPages, Typed
    <3> QED BY <2>1, <3>1
  <2> QED BY <1>1, <1>12, <2>1, <2>2 DEF CatInv, FirstPages
<1> QED
  BY <1>3, <1>4, <1>6, <1>9, <1>11, <1>14, <1>15, <1>17, <1>18, <1>19 DEF CatInv

LEMMA InsertRowKeeps ==
  ASSUME CatInv, InsertRow
  PROVE  CatInv'
BY InsertRowAdds, AddsRowKeeps, AddsPageKeeps DEF AddsPageFor

\* A new table's first page is a page of no catalog heap, and none links to it.
LEMMA CreateTableKeeps ==
  ASSUME CatInv, NEW name \in Name, NEW sizes \in Schema, SoundCreateTable(name, sizes)
  PROVE  /\ CatInv'
         /\ nextPageId \in Page /\ content[nextPageId] = Unwritten
         /\ \A q \in Page : content'[q] = IF q = nextPageId THEN EmptyPage ELSE content[q]
         /\ \A s \in System : PagesOf(content', s) \subseteq PagesOf(content, s)
         /\ \E row \in TableRow :
              LET id == FirstUserId + Len(made) IN
                /\ id \in Id /\ row.id = id
                /\ todo' = Inserts(TablesRoot, <<row>>) \o Inserts(AttributesRoot, Columns(id, sizes))
                /\ made' = Append(made, [row |-> row, sizes |-> sizes])
<1> DEFINE id == FirstUserId + Len(made)
<1>1. PICK row : row = TableInfo(id, name, nextPageId)
  OBVIOUS
<1>2. /\ phase = "open" /\ phase' = "create" /\ Len(made) < MaxTables
      /\ nextPageId < MaxPages /\ nextPageId' = nextPageId + 1 /\ Sound
      /\ todo' = Inserts(TablesRoot, <<row>>) \o Inserts(AttributesRoot, Columns(id, sizes))
      /\ made' = Append(made, [row |-> row, sizes |-> sizes])
      /\ content' = [content EXCEPT ![nextPageId] = EmptyPage]
      /\ UNCHANGED <<file, kept, flushed, booted>>
  BY <1>1 DEF SoundCreateTable, CreateTable, CreateAs
<1>3. content \in Disk /\ LinkedUp(content) /\ LinkedUp(file) /\ Older(file, content)
      /\ made \in Seq([row : TableRow, sizes : Schema]) /\ Len(made) \in Nat
  BY DEF CatInv, Typed, Allocated
<1>4. Whole
  BY <1>2 DEF Whole, Sound, ScanEnds, PagesOf
<1>5. PICK n \in Page : n = nextPageId
  BY <1>2, ConstantFacts DEF CatInv, Typed, Page
<1>6. content[n] = Unwritten /\ file[n] = Unwritten
  <2>1. ~ (n < nextPageId)
    BY <1>5, ConstantFacts
  <2> QED BY <1>5, <2>1 DEF CatInv, Allocated, Older
<1>7. n # 0
  <2>1. 1 \in System /\ 1 \in Page
    BY ConstantFacts
  <2>2. 1 < n
    BY <1>4, <1>5, <2>1 DEF CatInv, Allocated, Whole
  <2> QED BY <2>2
<1>8. id \in Id /\ id = TypesRoot + (Len(made) + 1)
  BY <1>2, <1>3, ConstantFacts DEF Id, FirstUserId
<1>9. row \in TableRow /\ row.first = n /\ row.id = id
      /\ Inserts(TablesRoot, <<row>>) \in Seq(Insertion)
  BY <1>1, <1>5, <1>8, TableInfoTyped DEF TableInfo
<1>10. todo' \in Seq(Insertion)
  <2>1. sizes \in Seq(Nat \ {0})
    BY CatalogAssumption
  <2>2. Inserts(AttributesRoot, Columns(id, sizes)) \in Seq(Insertion)
    BY <1>8, <2>1, ColumnInsertsTyped
  <2> HIDE DEF id
  <2> QED BY <1>2, <1>9, <2>2
<1> HIDE DEF id
<1>11. \A q \in Page : content'[q] = IF q = n THEN EmptyPage ELSE content[q]
  BY <1>2, <1>3, <1>5 DEF Disk
<1>12. PICK table \in [row : TableRow, sizes : Schema] : table = [row |-> row, sizes |-> sizes]
  BY <1>9
<1>13. /\ made' \in Seq([row : TableRow, sizes : Schema])
       /\ Len(made') = Len(made) + 1
       /\ \A i \in 1 .. Len(made) : made'[i] = made[i]
       /\ made'[Len(made) + 1] = table
       /\ \A i \in 1 .. Len(made') : i \in 1 .. Len(made) \/ i = Len(made) + 1
  <2> DEFINE M == [row : TableRow, sizes : Schema]
  <2>1. made \in Seq(M) /\ table \in M /\ made' = Append(made, table)
    BY <1>2, <1>3, <1>12
  <2> HIDE DEF M
  <2>2. /\ made' \in Seq(M)
        /\ Len(made') = Len(made) + 1
        /\ \A i \in 1 .. Len(made) : made'[i] = made[i]
        /\ made'[Len(made) + 1] = table
    BY <2>1
  <2>3. \A i \in 1 .. Len(made') : i \in 1 .. Len(made) \/ i = Len(made) + 1
    BY <1>3, <2>2
  <2> QED BY <2>2, <2>3 DEF M
<1>14. table.row = row
  BY <1>12
<1>15. content' \in Disk /\ content'[0] \in {Unwritten, Header}
  <2>1. content'[0] = content[0]
    BY <1>7, <1>11, ConstantFacts
  <2>2. content' \in Disk
    BY <1>2, <1>3, <1>5, PageFacts DEF Disk
  <2> QED BY <2>1, <2>2 DEF CatInv, Typed
<1>16. Typed'
  <2>1. nextPageId' \in 0 .. MaxPages
    BY <1>2, ConstantFacts DEF CatInv, Typed
  <2>2. Len(made') <= MaxTables
    BY <1>2, <1>3, <1>13, ConstantFacts
  <2>3. \A i \in 1 .. Len(made') : made'[i].row.id = TypesRoot + i
    <3>1. \A i \in 1 .. Len(made) : made'[i].row.id = TypesRoot + i
      BY <1>13 DEF CatInv, Typed
    <3>2. made'[Len(made) + 1].row.id = TypesRoot + (Len(made) + 1)
      BY <1>8, <1>9, <1>13, <1>14
    <3> QED BY <1>13, <3>1, <3>2
  <2>4. kept' \subseteq {made'[i].row.id : i \in 1 .. Len(made')}
    <3> SUFFICES ASSUME NEW x \in kept
                 PROVE  \E i \in 1 .. Len(made') : x = made'[i].row.id
      BY <1>2
    <3>1. PICK i \in 1 .. Len(made) : x = made[i].row.id
      BY DEF CatInv, Typed
    <3>2. i \in 1 .. Len(made') /\ made'[i] = made[i]
      BY <1>3, <1>13
    <3> QED BY <3>1, <3>2
  <2> QED BY <1>2, <1>10, <1>13, <1>15, <2>1, <2>2, <2>3, <2>4 DEF CatInv, Typed
<1>17. \A q \in Page : /\ content[q] # Unwritten => content'[q] # Unwritten
                       /\ content'[q] # Unwritten => content[q] # Unwritten \/ q = n
                       /\ q # n => content'[q] = content[q]
  BY <1>6, <1>11, PageFacts
<1>18. content'[n] = EmptyPage /\ EmptyPage # Unwritten
  BY <1>11, PageFacts
<1>19. Allocated'
  <2>1. \A q \in Page : content'[q] # Unwritten => q < nextPageId'
    <3>1. \A q \in Page : content[q] # Unwritten => q < nextPageId
      BY DEF CatInv, Allocated
    <3>2. \A q \in Page : (q < nextPageId \/ q = n) => q < nextPageId'
      BY <1>2, <1>5, ConstantFacts
    <3> QED BY <1>17, <3>1, <3>2
  <2>2. LinkedUp(content')
    BY <1>3, <1>17, <1>18, PageFacts DEF LinkedUp
  <2>3. Older(file, content')
    BY <1>3, <1>6, <1>17 DEF Older
  <2> QED BY <1>2, <1>3, <2>1, <2>2, <2>3 DEF Allocated
<1>20. ASSUME NEW s \in System
       PROVE  PagesOf(content', s) \subseteq PagesOf(content, s)
  <2> DEFINE T == PagesOf(content, s)
  <2>1. s \in T
    BY <1>4, PagesStart DEF Whole
  <2>2. ASSUME NEW q \in T, content'[q].next # NoPage
        PROVE  content'[q].next \in T
    <3>1. q \in Page /\ q # n
      BY <1>3, <1>6, PagesExist
    <3>2. content'[q] = content[q]
      BY <1>17, <3>1
    <3> QED BY <1>3, <1>4, <2>2, <3>2, PagesFollow DEF Whole
  <2> HIDE DEF T
  <2>3. PagesOf(content', s) \subseteq T
    BY <2>1, <2>2, PagesLeast
  <2> QED BY <2>3 DEF T
<1>21. \A s \in System : \A q \in PagesOf(content, s) :
         q \in Page /\ content[q] # Unwritten /\ content'[q] = content[q]
  <2>1. \A s \in System : \A q \in PagesOf(content, s) : q \in Page /\ q # n /\ content[q] # Unwritten
    BY <1>3, <1>6, PagesExist
  <2> QED BY <1>17, <2>1
<1>22. Apart'
  BY <1>2, <1>20, <1>21 DEF CatInv, Apart
<1>23. Inserting'
  <2>1. \A s \in System : content'[s] # Unwritten
    BY <1>4, <1>17, ConstantFacts DEF Whole
  <2>2. ASSUME NEW s \in System, NEW q \in PagesOf(content', s), content'[q].next # NoPage
        PROVE  content'[content'[q].next] # Unwritten
    <3>1. q \in PagesOf(content, s) /\ q \in Page /\ content[q] # Unwritten
          /\ content'[q] = content[q]
      BY <1>20, <1>21
    <3>2. content[content[q].next] # Unwritten /\ content[q].next \in Page
      BY <1>3, <1>4, <2>2, <3>1 DEF Whole, LinkedUp
    <3> QED BY <1>17, <3>1, <3>2
  <2>3. Whole'
    BY <2>1, <2>2 DEF Whole
  <2> QED BY <1>2, <2>3 DEF Inserting
<1>24. FirstPages'
  <2>1. \A i \in 1 .. Len(made) : made[i].row.first \in Page
    BY MadeRows DEF CatInv
  <2>2. made'[Len(made) + 1].row.first = n /\ made'[Len(made) + 1].row.id \notin kept
    <3>1. \A i \in 1 .. Len(made) : made[i].row.id # TypesRoot + (Len(made) + 1)
      <4>1. \A i \in 1 .. Len(made) : TypesRoot + i # TypesRoot + (Len(made) + 1)
        BY <1>3, ConstantFacts
      <4> QED BY <4>1, MadeRows DEF CatInv
    <3>2. made'[Len(made) + 1].row = row /\ row.id = TypesRoot + (Len(made) + 1)
      BY <1>8, <1>9, <1>13, <1>14
    <3> QED BY <1>9, <3>1, <3>2 DEF CatInv, Typed
  <2>3. ASSUME NEW i \in 1 .. Len(made'), made'[i].row.id \in kept
        PROVE  /\ i \in 1 .. Len(made) /\ made'[i] = made[i] /\ made[i].row.first # n
               /\ content'[made'[i].row.first] # Unwritten
               /\ \A j \in 1 .. Len(made') : i < j => made'[j].row.first # made'[i].row.first
    <3>1. i \in 1 .. Len(made) /\ made'[i] = made[i]
      BY <1>13, <2>2, <2>3
    <3>2. /\ content[made[i].row.first] # Unwritten
          /\ \A j \in 1 .. Len(made) : i < j => made[j].row.first # made[i].row.first
      BY <2>3, <3>1 DEF CatInv, FirstPages
    <3>3. made[i].row.first # n
      BY <1>6, <3>2
    <3>4. content'[made[i].row.first] # Unwritten
      BY <1>17, <2>1, <3>1, <3>2
    <3>5. ASSUME NEW j \in 1 .. Len(made'), i < j
          PROVE  made'[j].row.first # made'[i].row.first
      <4>1. CASE j \in 1 .. Len(made)
        BY <1>13, <3>1, <3>2, <3>5, <4>1
      <4>2. CASE j = Len(made) + 1
        BY <2>2, <3>1, <3>3, <4>2
      <4> QED BY <1>13, <4>1, <4>2
    <3> QED BY <3>1, <3>3, <3>4, <3>5
  <2>4. \A i \in 1 .. Len(made') :
          made'[i].row.id \in flushed => file[made'[i].row.first] # Unwritten
    <3>1. flushed \subseteq kept
      BY DEF CatInv, Typed
    <3> QED BY <2>3, <3>1 DEF CatInv, FirstPages
  <2>5. Len(made') # 0 /\ content'[made'[Len(made')].row.first] # Unwritten
    BY <1>3, <1>13, <1>18, <2>2
  <2> QED BY <1>2, <2>3, <2>4, <2>5 DEF FirstPages
<1>25. CatInv'
  BY <1>16, <1>19, <1>22, <1>23, <1>24 DEF CatInv
<1> QED
  BY <1>2, <1>5, <1>6, <1>8, <1>9, <1>11, <1>20, <1>25 DEF id

\* The other steps are the ones that a catalog with a lost page takes.
LEMMA SoundStep ==
  ASSUME [CatalogNext]_catalogVars, sound'
  PROVE  sound /\ [SoundNext]_catalogVars
<1>1. CASE UNCHANGED catalogVars
  BY <1>1 DEF catalogVars
<1>2. CASE InsertLost \/ LookupLost
  BY <1>2 DEF InsertLost, LookupLost
<1>3. CASE \E name \in Name, sizes \in Schema : CreateTable(name, sizes)
  <2>1. PICK name \in Name, sizes \in Schema : CreateTable(name, sizes)
    BY <1>3
  <2>2. sound' = (sound /\ Sound)
    BY <2>1 DEF CreateTable, CreateAs
  <2>3. sound /\ Sound
    BY <2>2, Zenon
  <2> QED BY <2>1, <2>3 DEF SoundNext, SoundCreateTable
<1>4. CASE \/ LoadCatalogs \/ BootstrapCatalogs \/ InsertRow \/ FlushAll \/ CreateReturns
           \/ (\E p \in Page : WriteBack(p)) \/ Restart
  <2>1. sound' = sound
    BY <1>4 DEF LoadCatalogs, BootstrapCatalogs, InsertRow, FlushAll, CreateReturns,
                WriteBack, Restart
  <2>2. sound
    BY <2>1, Zenon
  <2> QED BY <1>4, <2>2 DEF SoundNext
<1> QED
  BY <1>1, <1>2, <1>3, <1>4 DEF CatalogNext

LEMMA CatalogNextInv ==
  ASSUME CatInv, [SoundNext]_catalogVars
  PROVE  CatInv'
<1>1. CASE UNCHANGED catalogVars
  <2>1. Typed' /\ Allocated' /\ Apart'
    BY <1>1 DEF catalogVars, CatInv, Typed, Allocated, Apart
  <2>2. Inserting' /\ FirstPages'
    BY <1>1 DEF catalogVars, CatInv, Inserting, Whole, FirstPages
  <2> QED BY <2>1, <2>2 DEF CatInv
<1>2. CASE SoundNext
  BY <1>2, LoadCatalogsKeeps, BootstrapCatalogsKeeps, InsertRowKeeps, FlushAllKeeps,
     CreateTableKeeps, CreateReturnsKeeps, WriteBackKeeps, RestartKeeps
  DEF SoundNext
<1> QED
  BY <1>1, <1>2

\* The catalog heaps stay apart, whatever is evicted, lost in a crash or allocated, as long
\* as calls find them whole.
THEOREM CatalogInvariant == CatalogSpec => [](sound => CatInv)
<1>1. CatalogInit => CatInv
  BY CatalogInitInv
<1>2. (sound => CatInv) /\ [CatalogNext]_catalogVars => (sound => CatInv)'
  BY SoundStep, CatalogNextInv
<1> QED
  BY <1>1, <1>2, PTL DEF CatalogSpec

----------------------------------------------------------------------------
(* Rows of columns.  They go into db_attributes table by table and in the   *)
(* order of their positions, and never move; a crash takes some away.       *)

Earlier(a, b) == a.table < b.table \/ (a.table = b.table /\ a.position < b.position)

\* The inserts of rows of columns are of these rows, each of them once, in their order.
Run(inserts, rows) ==
  /\ \A i \in 1 .. Len(inserts) : inserts[i][1] = AttributesRoot => inserts[i][2] \in rows
  /\ \A i, j \in 1 .. Len(inserts) :
       (i < j /\ inserts[i][1] = AttributesRoot /\ inserts[j][1] = AttributesRoot)
         => Earlier(inserts[i][2], inserts[j][2])

\* The rows of columns there may be: those of the catalog, and of the tables made.
SystemColumns ==
  {row \in ColumnRow :
     row.table \in System /\ row \in ToSet(Columns(row.table, SystemSchema[row.table]))}
ColumnsMade ==
  {row \in ColumnRow :
     \/ row \in SystemColumns
     \/ \E i \in 1 .. Len(made) : /\ row.table = made[i].row.id
                                  /\ row \in ToSet(Columns(made[i].row.id, made[i].sizes))}

\* Rows stay in their places: the pages of old have the first rows of those of new.
Shorter(old, new) ==
  \A p \in Page : /\ Len(old[p].rows) <= Len(new[p].rows)
                  /\ \A k \in 1 .. Len(old[p].rows) : old[p].rows[k] = new[p].rows[k]

ColumnsIn ==
  /\ Shorter(file, content)
  /\ \A place \in Places(content, AttributesRoot) : RowAt(content, place) \in ColumnsMade
  /\ \A a, b \in Places(content, AttributesRoot) :
       RowAt(content, a) = RowAt(content, b) => a = b
  /\ Run(todo, ColumnsMade)
  /\ \A i \in 1 .. Len(todo) : \A place \in Places(content, AttributesRoot) :
       todo[i][1] = AttributesRoot => Earlier(RowAt(content, place), todo[i][2])

LEMMA PlaceFacts ==
  ASSUME CatInv, NEW place \in Places(content, AttributesRoot)
  PROVE  /\ place[1] \in PagesOf(content, AttributesRoot) /\ place[1] \in Page
         /\ place[2] \in 1 .. Len(content[place[1]].rows)
         /\ RowAt(content, place) \in ColumnRow
<1>1. AttributesRoot \in System /\ RowsFor(AttributesRoot) = ColumnRow
  BY ConstantFacts DEF RowsFor
<1>2. place[1] \in PagesOf(content, AttributesRoot) /\ place[2] \in Nat \ {0}
      /\ place[2] <= Len(content[place[1]].rows)
  BY DEF Places
<1>3. place[1] \in Page
  BY <1>1, <1>2, PagesExist DEF CatInv, Allocated
<1>4. PICK rows \in Seq(ColumnRow) : rows = content[place[1]].rows
  BY <1>1, <1>2 DEF CatInv, Apart
<1>5. place[2] \in 1 .. Len(rows)
  BY <1>2, <1>4
<1> QED
  BY <1>2, <1>3, <1>4, <1>5 DEF RowAt

\* A version that is older in links and in rows has part of the places.
LEMMA OlderPlaces ==
  ASSUME NEW old, NEW new, LinkedUp(old), LinkedUp(new), Older(old, new), Shorter(old, new),
         NEW root \in System, NEW place \in Places(old, root),
         \A p \in PagesOf(new, root) : Len(new[p].rows) \in Nat /\ Len(old[p].rows) \in Nat
  PROVE  place \in Places(new, root) /\ RowAt(old, place) = RowAt(new, place)
<1>1. place \in PagesOf(old, root) \X (Nat \ {0}) /\ place[2] <= Len(old[place[1]].rows)
  BY DEF Places
<1>2. place[1] \in PagesOf(new, root) /\ place[1] \in Page
  BY <1>1, OlderPages, PagesExist
<1>3. place[2] \in 1 .. Len(old[place[1]].rows) /\ place[2] <= Len(new[place[1]].rows)
  BY <1>1, <1>2 DEF Shorter
<1> QED
  BY <1>1, <1>2, <1>3 DEF Places, RowAt, Shorter

LEMMA EarlierOrders ==
  ASSUME NEW a \in ColumnRow, NEW b \in ColumnRow, Earlier(a, b)
  PROVE  a # b
<1>1. a.table \in Int /\ a.position \in Int
  BY ConstantFacts DEF ColumnRow, Id
<1>2. ~ (a.table < a.table) /\ ~ (a.position < a.position)
  BY <1>1
<1> QED
  BY <1>2 DEF Earlier

LEMMA RunsJoin ==
  ASSUME NEW s \in Seq(Insertion), NEW t \in Seq(Insertion), NEW R, NEW Q, Run(s, R), Run(t, Q),
         \A a \in R, b \in Q : Earlier(a, b)
  PROVE  Run(s \o t, R \cup Q)
<1>1. PICK u : u = s \o t
  OBVIOUS
<1>2. PICK L \in Nat : L = Len(s)
  OBVIOUS
<1>3. PICK M \in Nat : M = Len(t)
  OBVIOUS
<1>4. /\ Len(u) = L + M
      /\ \A k \in 1 .. L + M : k <= L => u[k] = s[k] /\ k \in 1 .. L
      /\ \A k \in 1 .. L + M : ~ (k <= L) => u[k] = t[k - L] /\ k - L \in 1 .. M
  BY <1>1, <1>2, <1>3
<1>5. ASSUME NEW i \in 1 .. L + M, u[i][1] = AttributesRoot
      PROVE  u[i][2] \in R \cup Q
  BY <1>2, <1>3, <1>4, <1>5 DEF Run
<1>6. ASSUME NEW i \in 1 .. L + M, NEW j \in 1 .. L + M, i < j,
             u[i][1] = AttributesRoot, u[j][1] = AttributesRoot
      PROVE  Earlier(u[i][2], u[j][2])
  <2>1. CASE j <= L
    <3>1. i <= L
      BY <1>6, <2>1
    <3> QED BY <1>2, <1>4, <1>6, <2>1, <3>1 DEF Run
  <2>2. CASE i <= L /\ ~ (j <= L)
    <3>1. u[i][2] \in R /\ u[j][2] \in Q
      BY <1>2, <1>3, <1>4, <1>6, <2>2 DEF Run
    <3> QED BY <3>1
  <2>3. CASE ~ (i <= L)
    <3>1. ~ (j <= L) /\ i - L < j - L
      BY <1>6, <2>3
    <3>2. /\ u[i] = t[i - L] /\ i - L \in 1 .. M
          /\ u[j] = t[j - L] /\ j - L \in 1 .. M
      BY <1>4, <2>3, <3>1
    <3> QED BY <1>3, <1>6, <3>1, <3>2 DEF Run
  <2> QED BY <2>1, <2>2, <2>3
<1>7. Run(u, R \cup Q)
  BY <1>4, <1>5, <1>6 DEF Run
<1> QED
  BY <1>1, <1>7

\* The inserts that describe a table, and the rows of its columns among them.
LEMMA ColumnsRun ==
  ASSUME NEW id \in Id, NEW sizes \in Seq(Nat \ {0}), NEW row \in TableRow
  PROVE  /\ Run(Inserts(TablesRoot, <<row>>) \o Inserts(AttributesRoot, Columns(id, sizes)),
                ToSet(Columns(id, sizes)))
         /\ ToSet(Columns(id, sizes)) \subseteq ColumnRow
         /\ \A column \in ToSet(Columns(id, sizes)) : column.table = id
<1>1. PICK columns \in Seq(ColumnRow) : columns = Columns(id, sizes)
  BY ColumnsTyped
<1>2. Len(columns) = Len(sizes) /\ Len(sizes) \in Nat /\ DOMAIN columns = 1 .. Len(sizes)
      /\ \A i \in 1 .. Len(sizes) :
           columns[i] = [table |-> id, position |-> i, size |-> sizes[i]]
  BY <1>1 DEF Columns
<1>3. PICK s \in Seq(Insertion) : s = Inserts(TablesRoot, <<row>>)
  <2>1. TablesRoot \in System /\ RowsFor(TablesRoot) = TableRow /\ <<row>> \in Seq(TableRow)
    BY ConstantFacts DEF RowsFor
  <2> QED BY <2>1, InsertsTyped
<1>4. PICK t \in Seq(Insertion) : t = Inserts(AttributesRoot, columns)
  BY <1>1, ColumnInsertsTyped
<1>5. Run(s, {})
  <2>1. Len(s) = 1 /\ s[1] = <<TablesRoot, row>>
    BY <1>3 DEF Inserts
  <2>2. \A i \in 1 .. Len(s) : s[i][1] # AttributesRoot
    BY <2>1, ConstantFacts
  <2> QED BY <2>2 DEF Run
<1>6. Run(t, ToSet(columns))
  <2>1. Len(t) = Len(sizes)
        /\ \A i \in 1 .. Len(sizes) : t[i] = <<AttributesRoot, columns[i]>>
    BY <1>2, <1>4 DEF Inserts
  <2>2. \A i \in 1 .. Len(sizes) : columns[i] \in ToSet(columns)
    BY <1>2 DEF ToSet
  <2>3. ASSUME NEW i \in 1 .. Len(sizes), NEW j \in 1 .. Len(sizes), i < j
        PROVE  Earlier(columns[i], columns[j])
    <3>1. /\ columns[i] = [table |-> id, position |-> i, size |-> sizes[i]]
          /\ columns[j] = [table |-> id, position |-> j, size |-> sizes[j]]
      BY <1>2
    <3>2. /\ columns[i].table = id /\ columns[j].table = id
          /\ columns[i].position = i /\ columns[j].position = j
      BY <3>1
    <3> QED BY <2>3, <3>2 DEF Earlier
  <2>4. \A i \in 1 .. Len(t) : i \in 1 .. Len(sizes) /\ t[i][2] = columns[i]
    BY <2>1
  <2> QED BY <2>2, <2>3, <2>4 DEF Run
<1>7. Run(s \o t, {} \cup ToSet(columns))
  BY <1>5, <1>6, RunsJoin
<1>8. ToSet(columns) \subseteq ColumnRow /\ \A column \in ToSet(columns) : column.table = id
  BY <1>1, <1>2 DEF ToSet
<1>9. {} \cup ToSet(columns) = ToSet(columns)
  OBVIOUS
<1> QED
  BY <1>1, <1>3, <1>4, <1>7, <1>8, <1>9

\* The inserts of BootstrapCatalogs() describe the three tables one after the other.
LEMMA BootstrapRun ==
  /\ InsertBuiltinTypes \o InsertCatalogMetadata \in Seq(Insertion)
  /\ Run(InsertBuiltinTypes \o InsertCatalogMetadata, SystemColumns)
<1> DEFINE Of(i) == ToSet(Columns(i, SystemSchema[i]))
<1>1. PICK types \in Seq(Insertion) : types = InsertBuiltinTypes
  <2>1. TypesRoot \in System /\ RowsFor(TypesRoot) = TypeRow
    BY ConstantFacts DEF RowsFor
  <2>2. <<[type |-> "INT", size |-> 1], [type |-> "TEXT", size |-> 1]>> \in Seq(TypeRow)
    BY DEF TypeRow
  <2> QED BY <2>1, <2>2, InsertsTyped DEF InsertBuiltinTypes
<1>2. Run(types, {})
  <2>1. Len(types) = 2 /\ types[1][1] = TypesRoot /\ types[2][1] = TypesRoot
    BY <1>1 DEF InsertBuiltinTypes, Inserts
  <2>2. \A i \in 1 .. Len(types) : types[i][1] # AttributesRoot
    BY <2>1, ConstantFacts
  <2> QED BY <2>2 DEF Run
<1>3. ASSUME NEW i \in System
      PROVE  /\ Describe(i) \in Seq(Insertion) /\ Run(Describe(i), Of(i))
             /\ Of(i) \subseteq ColumnRow /\ \A row \in Of(i) : row.table = i
  <2>1. i \in 1 .. 3 /\ i \in Id /\ i \in Page
    BY ConstantFacts DEF System, Id
  <2>2. SystemName[i] \in ToSet(SystemName)
    BY <2>1 DEF SystemName, ToSet
  <2>3. SystemSchema[i] \in Seq(Nat \ {0})
    <3>1. <<1, 1, 1, 1>> \in Seq(Nat \ {0}) /\ <<1, 1, 1>> \in Seq(Nat \ {0})
      OBVIOUS
    <3>2. SystemSchema[i] \in {<<1, 1, 1, 1>>, <<1, 1, 1>>}
      BY <2>1 DEF SystemSchema
    <3> QED BY <3>1, <3>2
  <2>4. SystemTable(i) \in TableRow
        /\ Inserts(TablesRoot, <<SystemTable(i)>>) \in Seq(Insertion)
    BY <2>1, <2>2, TableInfoTyped DEF SystemTable
  <2>5. Inserts(AttributesRoot, Columns(i, SystemSchema[i])) \in Seq(Insertion)
    BY <2>1, <2>3, ColumnInsertsTyped
  <2>6. Describe(i) \in Seq(Insertion)
    BY <2>4, <2>5 DEF Describe
  <2>7. Run(Describe(i), Of(i)) /\ Of(i) \subseteq ColumnRow /\ \A row \in Of(i) : row.table = i
    BY <2>1, <2>3, <2>4, ColumnsRun DEF Describe
  <2> QED BY <2>6, <2>7
<1>4. TablesRoot \in System /\ AttributesRoot \in System /\ TypesRoot \in System
  BY ConstantFacts
<1>5. PICK one \in Seq(Insertion) : one = Describe(TablesRoot)
  BY <1>3, <1>4
<1>6. PICK two \in Seq(Insertion) : two = Describe(AttributesRoot)
  BY <1>3, <1>4
<1>7. PICK three \in Seq(Insertion) : three = Describe(TypesRoot)
  BY <1>3, <1>4
<1>8. Run(one, Of(TablesRoot)) /\ Run(two, Of(AttributesRoot)) /\ Run(three, Of(TypesRoot))
  BY <1>3, <1>4, <1>5, <1>6, <1>7
<1>9. \A i, j \in System : i < j => \A a \in Of(i), b \in Of(j) : Earlier(a, b)
  BY <1>3 DEF Earlier
<1>10. TablesRoot < AttributesRoot /\ TablesRoot < TypesRoot /\ AttributesRoot < TypesRoot
  BY ConstantFacts
<1> HIDE DEF Of
<1>11. \A row \in SystemColumns : \E i \in System : row \in Of(i)
  BY DEF SystemColumns, Of
<1>12. \A i \in System : Of(i) \subseteq SystemColumns
  BY <1>3 DEF SystemColumns, Of
<1>13. PICK first : first = Of(TablesRoot) \cup Of(AttributesRoot)
  OBVIOUS
<1>14. PICK all : all = first \cup Of(TypesRoot)
  OBVIOUS
<1>15. PICK both \in Seq(Insertion) : both = one \o two
  <2>1. one \o two \in Seq(Insertion)
    OBVIOUS
  <2> QED BY <2>1
<1>16. PICK tables \in Seq(Insertion) : tables = both \o three
  <2>1. both \o three \in Seq(Insertion)
    OBVIOUS
  <2> QED BY <2>1
<1>17. PICK inserts \in Seq(Insertion) : inserts = types \o tables
  <2>1. types \o tables \in Seq(Insertion)
    OBVIOUS
  <2> QED BY <2>1
<1>18. Run(both, first)
  <2>1. \A a \in Of(TablesRoot), b \in Of(AttributesRoot) : Earlier(a, b)
    BY <1>4, <1>9, <1>10
  <2> QED BY <1>8, <1>13, <1>15, <2>1, RunsJoin
<1>19. Run(tables, all)
  <2>1. \A a \in first, b \in Of(TypesRoot) : Earlier(a, b)
    BY <1>4, <1>9, <1>10, <1>13
  <2> QED BY <1>8, <1>14, <1>16, <1>18, <2>1, RunsJoin
<1>20. Run(inserts, all)
  <2>1. \A a \in {}, b \in all : Earlier(a, b)
    OBVIOUS
  <2>2. Run(types \o tables, {} \cup all)
    BY <1>2, <1>19, <2>1, RunsJoin
  <2>3. {} \cup all = all
    OBVIOUS
  <2> QED BY <1>17, <2>2, <2>3
<1>21. all = SystemColumns
  BY <1>4, <1>13, <1>14, <1>11, <1>12, ConstantFacts
<1>22. InsertBuiltinTypes \o InsertCatalogMetadata = inserts
  BY <1>1, <1>5, <1>6, <1>7, <1>15, <1>16, <1>17 DEF InsertCatalogMetadata
<1> QED
  BY <1>20, <1>21, <1>22

\* An insert adds its row in one new place, if the row fits a page at all.
GrowsBy(r, row, spot) ==
  /\ Older(content, content') /\ Shorter(content, content')
  /\ \A s \in System : \A place \in Places(content', s) :
       \/ place \in Places(content, s) /\ RowAt(content', place) = RowAt(content, place)
       \/ s = r /\ place = spot /\ RowAt(content', place) = row /\ Fits(row)
  /\ Fits(row) => spot \in Places(content', r) /\ RowAt(content', spot) = row

\* It is the first place there is for it.
FirstFit(r, row, spot) ==
  /\ \A q \in PagesOf(content, r) : q < spot[1] => content[q].room < row.size
  /\ \/ spot[1] \in PagesOf(content, r) /\ row.size <= content[spot[1]].room
     \/ \A q \in PagesOf(content, r) : q < spot[1]
  /\ \A place \in Places(content, r) : place[1] = spot[1] => place[2] < spot[2]

\* No page gets more room, and a new page comes after all others of its heap.
Shrinks ==
  \A s \in System : \A q \in PagesOf(content', s) :
    \/ q \in PagesOf(content, s) /\ content'[q].room <= content[q].room
    \/ \A p \in PagesOf(content', s) : p <= q

LEMMA ColumnsGrow ==
  ASSUME CatInv, ColumnsIn, CatInv', InsertRow,
         NEW r \in System, NEW row \in RowsFor(r), Head(todo) = <<r, row>>,
         NEW spot, GrowsBy(r, row, spot)
  PROVE  ColumnsIn'
<1>1. /\ Shorter(content, content')
      /\ \A place \in Places(content', AttributesRoot) :
           \/ /\ place \in Places(content, AttributesRoot)
              /\ RowAt(content', place) = RowAt(content, place)
           \/ r = AttributesRoot /\ place = spot /\ RowAt(content', place) = row
  BY ConstantFacts DEF GrowsBy
<1>2. todo # <<>> /\ todo' = Tail(todo) /\ UNCHANGED <<file, made>>
  BY DEF InsertRow
<1>3. /\ todo \in Seq(Insertion) /\ Len(todo) \in Nat /\ 1 \in 1 .. Len(todo)
      /\ todo[1] = <<r, row>>
      /\ Len(todo') = Len(todo) - 1
      /\ \A i \in 1 .. Len(todo') : todo'[i] = todo[i + 1] /\ i + 1 \in 1 .. Len(todo) /\ 1 < i + 1
  BY <1>2 DEF CatInv, Typed
<1>4. ColumnsMade' = ColumnsMade
  BY <1>2 DEF ColumnsMade
<1>5. r = AttributesRoot =>
        /\ row \in ColumnsMade
        /\ \A place \in Places(content, AttributesRoot) : Earlier(RowAt(content, place), row)
        /\ \A i \in 1 .. Len(todo') :
             todo'[i][1] = AttributesRoot => Earlier(row, todo'[i][2])
  <2> SUFFICES ASSUME r = AttributesRoot
               PROVE  /\ row \in ColumnsMade
                      /\ \A place \in Places(content, AttributesRoot) : Earlier(RowAt(content, place), row)
                      /\ \A i \in 1 .. Len(todo') :
                           todo'[i][1] = AttributesRoot => Earlier(row, todo'[i][2])
    OBVIOUS
  <2>1. todo[1][1] = AttributesRoot /\ todo[1][2] = row
    BY <1>3
  <2>2. row \in ColumnsMade
    BY <1>3, <2>1 DEF ColumnsIn, Run
  <2>3. \A place \in Places(content, AttributesRoot) : Earlier(RowAt(content, place), row)
    BY <1>3, <2>1 DEF ColumnsIn
  <2>4. ASSUME NEW i \in 1 .. Len(todo'), todo'[i][1] = AttributesRoot
        PROVE  Earlier(row, todo'[i][2])
    <3>1. todo'[i] = todo[i + 1] /\ i + 1 \in 1 .. Len(todo) /\ 1 < i + 1
      BY <1>3
    <3> QED BY <1>3, <2>1, <2>4, <3>1 DEF ColumnsIn, Run
  <2> QED BY <2>2, <2>3, <2>4
<1>6. \A place \in Places(content, AttributesRoot) : RowAt(content, place) \in ColumnRow
  BY PlaceFacts
<1>7. Shorter(file, content')
  <2>1. ASSUME NEW p \in Page
        PROVE  /\ Len(file[p].rows) <= Len(content'[p].rows)
               /\ \A k \in 1 .. Len(file[p].rows) : file[p].rows[k] = content'[p].rows[k]
    <3>1. /\ Len(file[p].rows) <= Len(content[p].rows)
          /\ Len(content[p].rows) <= Len(content'[p].rows)
      BY <1>1 DEF ColumnsIn, Shorter
    <3>2. Len(file[p].rows) \in Nat /\ Len(content[p].rows) \in Nat /\ Len(content'[p].rows) \in Nat
      BY DiskRows DEF CatInv, Typed
    <3>3. \A k \in 1 .. Len(file[p].rows) : k \in 1 .. Len(content[p].rows)
      BY <3>1, <3>2
    <3>4. ASSUME NEW k \in 1 .. Len(file[p].rows)
          PROVE  file[p].rows[k] = content'[p].rows[k]
      <4>1. file[p].rows[k] = content[p].rows[k]
        BY DEF ColumnsIn, Shorter
      <4>2. content[p].rows[k] = content'[p].rows[k]
        BY <1>1, <3>3 DEF Shorter
      <4> QED BY <4>1, <4>2
    <3>5. Len(file[p].rows) <= Len(content'[p].rows)
      BY <3>1, <3>2
    <3> QED BY <3>4, <3>5
  <2> QED BY <2>1 DEF Shorter
<1>8. \A place \in Places(content', AttributesRoot) : RowAt(content', place) \in ColumnsMade
  BY <1>5, <1>1 DEF ColumnsIn
<1>9. ASSUME NEW a \in Places(content', AttributesRoot), NEW b \in Places(content', AttributesRoot),
             RowAt(content', a) = RowAt(content', b)
      PROVE  a = b
  <2>1. CASE a \in Places(content, AttributesRoot) /\ RowAt(content', a) = RowAt(content, a)
    <3>1. CASE b \in Places(content, AttributesRoot) /\ RowAt(content', b) = RowAt(content, b)
      BY <1>9, <2>1, <3>1 DEF ColumnsIn
    <3>2. CASE r = AttributesRoot /\ RowAt(content', b) = row
      BY <1>5, <1>6, <1>9, <1>1, <2>1, <3>2, EarlierOrders DEF ColumnsMade
    <3> QED BY <1>1, <3>1, <3>2
  <2>2. CASE r = AttributesRoot /\ a = spot /\ RowAt(content', a) = row
    <3>1. CASE b \in Places(content, AttributesRoot) /\ RowAt(content', b) = RowAt(content, b)
      BY <1>5, <1>6, <1>9, <1>1, <2>2, <3>1, EarlierOrders DEF ColumnsMade
    <3>2. CASE b = spot
      BY <2>2, <3>2
    <3> QED BY <1>1, <3>1, <3>2
  <2> QED BY <1>1, <2>1, <2>2
<1>10. Run(todo', ColumnsMade)
  <2>1. Run(todo, ColumnsMade)
    BY DEF ColumnsIn
  <2>2. \A i \in 1 .. Len(todo') : todo'[i][1] = AttributesRoot => todo'[i][2] \in ColumnsMade
    BY <1>3, <2>1 DEF Run
  <2>3. ASSUME NEW i \in 1 .. Len(todo'), NEW j \in 1 .. Len(todo'), i < j,
               todo'[i][1] = AttributesRoot, todo'[j][1] = AttributesRoot
        PROVE  Earlier(todo'[i][2], todo'[j][2])
    <3>1. /\ todo'[i] = todo[i + 1] /\ todo'[j] = todo[j + 1]
          /\ i + 1 \in 1 .. Len(todo) /\ j + 1 \in 1 .. Len(todo) /\ i + 1 < j + 1
      BY <1>3, <2>3
    <3> QED BY <2>1, <2>3, <3>1 DEF Run
  <2> QED BY <2>2, <2>3 DEF Run
<1>11. ASSUME NEW i \in 1 .. Len(todo'), NEW place \in Places(content', AttributesRoot),
             todo'[i][1] = AttributesRoot
      PROVE  Earlier(RowAt(content', place), todo'[i][2])
  <2>1. todo'[i] = todo[i + 1] /\ i + 1 \in 1 .. Len(todo)
    BY <1>3
  <2> QED BY <1>5, <1>11, <1>1, <2>1 DEF ColumnsIn
<1> QED
  BY <1>2, <1>4, <1>7, <1>8, <1>9, <1>10, <1>11 DEF ColumnsIn

LEMMA PageRoom ==
  ASSUME NEW disk \in Disk, LinkedUp(disk), NEW s \in System, NEW q \in PagesOf(disk, s)
  PROVE  q \in Page /\ q \in Nat /\ disk[q] \in HeapPage /\ disk[q].room \in Nat
<1>1. q \in Page \ {0} /\ disk[q] # Unwritten
  BY PagesExist
<1>2. disk[q] \in HeapPage
  BY <1>1, DiskPages
<1> QED
  BY <1>1, <1>2, ConstantFacts DEF HeapPage

LEMMA HeapPageRoom ==
  ASSUME CatInv, NEW s \in System, NEW q \in PagesOf(content, s)
  PROVE  /\ q \in Page /\ q \in Nat /\ q < nextPageId
         /\ content[q] \in HeapPage /\ content[q].room \in Nat
<1>1. q \in Page \ {0} /\ content[q] # Unwritten
  BY PagesExist DEF CatInv, Allocated
<1>2. content[q] \in HeapPage
  BY <1>1, DiskPages DEF CatInv, Typed
<1> QED
  BY <1>1, <1>2, ConstantFacts DEF HeapPage, CatInv, Allocated

LEMMA AddsRowGrows ==
  ASSUME CatInv, InsertRow, NEW r \in System, NEW p \in PagesOf(content, r),
         NEW row \in RowsFor(r), AddsRow(r, row, p)
  PROVE  \E spot : GrowsBy(r, row, spot) /\ FirstFit(r, row, spot) /\ Shrinks
<1>1. /\ CatInv'
      /\ \A q \in Page : content'[q] = IF q = p THEN WithRow(content[p], row) ELSE content[q]
      /\ \A s \in System : PagesOf(content', s) \subseteq PagesOf(content, s)
  BY AddsRowKeeps
<1>2. Accepts(content[p], row) /\ \A q \in PagesOf(content, r) : q < p => ~ Accepts(content[q], row)
  BY DEF AddsRow
<1>3. content \in Disk /\ content' \in Disk /\ p \in Page /\ p # 0 /\ content[p] # Unwritten
  BY <1>1, PagesExist DEF CatInv, Typed, Allocated
<1>4. PICK rows \in Seq(RowsFor(r)) : rows = content[p].rows
  BY DEF CatInv, Apart
<1>5. /\ content'[p].rows = Append(rows, row) /\ content'[p].next = content[p].next
      /\ content'[p].room = content[p].room - row.size /\ content'[p] \in HeapPage
  <2>1. content'[p] = WithRow(content[p], row)
    BY <1>1, <1>3
  <2>2. content[p] \in HeapPage /\ content[p].rows \in Seq(RowsFor(r))
    BY <1>3, <1>4, DiskPages
  <2> QED BY <1>2, <1>4, <2>1, <2>2, PageTakesRow
<1>6. PICK n \in Nat : n = Len(rows)
  OBVIOUS
<1>7. PICK longer \in Seq(RowsFor(r)) : longer = Append(rows, row)
  <2>1. Append(rows, row) \in Seq(RowsFor(r))
    OBVIOUS
  <2> QED BY <2>1
<1>8. /\ Len(longer) = n + 1 /\ longer[n + 1] = row
      /\ \A k \in 1 .. n : longer[k] = rows[k]
  BY <1>6, <1>7
<1>9. Shorter(content, content')
  <2>1. \A q \in Page : Len(content[q].rows) \in Nat
    BY <1>3, DiskRows
  <2>2. \A q \in Page : q # p => content'[q] = content[q]
    BY <1>1
  <2>3. /\ Len(content[p].rows) <= Len(content'[p].rows)
        /\ \A k \in 1 .. Len(content[p].rows) : content[p].rows[k] = content'[p].rows[k]
    BY <1>4, <1>5, <1>6, <1>7, <1>8
  <2>4. ASSUME NEW q \in Page
        PROVE  /\ Len(content[q].rows) <= Len(content'[q].rows)
               /\ \A k \in 1 .. Len(content[q].rows) : content[q].rows[k] = content'[q].rows[k]
    <3>1. CASE q = p
      BY <2>3, <3>1
    <3>2. CASE q # p
      BY <2>1, <2>2, <3>2
    <3> QED BY <3>1, <3>2
  <2> QED BY <2>4 DEF Shorter
<1>10. Older(content, content')
  BY <1>1, <1>5, PageFacts DEF Older
<1>11. PICK spot : spot = <<p, n + 1>>
  OBVIOUS
<1>12. row.size \in Nat \ {0} /\ row.size <= content[p].room /\ Fits(row)
  <2>1. row.size \in Nat \ {0}
    BY RowFacts
  <2>2. content[p].room \in 0 .. Capacity /\ row.size <= content[p].room
    BY <1>2, <1>3, DiskPages DEF HeapPage, Accepts
  <2> QED BY <2>1, <2>2, ConstantFacts DEF Fits
<1>13. ASSUME NEW s \in System, NEW place \in Places(content', s)
       PROVE  \/ place \in Places(content, s) /\ RowAt(content', place) = RowAt(content, place)
              \/ s = r /\ place = spot /\ RowAt(content', place) = row /\ Fits(row)
  <2>1. /\ place \in PagesOf(content, s) \X (Nat \ {0})
        /\ place[2] <= Len(content'[place[1]].rows)
    BY <1>1 DEF Places
  <2>2. place[1] \in Page
    BY <2>1, PagesExist DEF CatInv, Allocated
  <2>3. CASE place[1] # p
    BY <1>1, <2>1, <2>2, <2>3 DEF Places, RowAt
  <2>4. CASE place[1] = p
    <3>1. s = r
      BY <2>1, <2>4 DEF CatInv, Apart
    <3>2. place[2] \in Nat \ {0} /\ place[2] <= n + 1 /\ place = <<p, place[2]>>
      BY <1>5, <1>7, <1>8, <2>1, <2>4
    <3>3. CASE place[2] = n + 1
      BY <1>5, <1>7, <1>8, <1>11, <1>12, <2>4, <3>1, <3>2, <3>3 DEF RowAt
    <3>4. CASE place[2] # n + 1
      <4>1. place[2] \in 1 .. n /\ place[2] <= n
        BY <3>2, <3>4
      <4>2. content'[p].rows[place[2]] = content[p].rows[place[2]]
        BY <1>4, <1>5, <1>7, <1>8, <4>1
      <4> QED BY <1>4, <1>6, <2>1, <2>4, <4>1, <4>2 DEF Places, RowAt
    <3> QED BY <3>3, <3>4
  <2> QED BY <2>3, <2>4
<1>14. spot \in Places(content', r) /\ RowAt(content', spot) = row
  <2>1. p \in PagesOf(content', r)
    BY <1>3, <1>10, OlderPages, <1>1 DEF CatInv, Allocated
  <2>2. n + 1 \in Nat \ {0} /\ n + 1 <= Len(content'[p].rows) /\ content'[p].rows[n + 1] = row
    BY <1>5, <1>7, <1>8
  <2> QED BY <1>11, <2>1, <2>2 DEF Places, RowAt
<1>15. GrowsBy(r, row, spot)
  BY <1>9, <1>10, <1>13, <1>14 DEF GrowsBy
<1>16. FirstFit(r, row, spot)
  <2>1. \A q \in PagesOf(content, r) : q < spot[1] => content[q].room < row.size
    BY <1>2, <1>11, <1>12, HeapPageRoom DEF Accepts
  <2>2. \A place \in Places(content, r) : place[1] = spot[1] => place[2] < spot[2]
    BY <1>4, <1>6, <1>11 DEF Places
  <2> QED BY <1>11, <1>12, <2>1, <2>2 DEF FirstFit
<1>17. Shrinks
  <2> SUFFICES ASSUME NEW s \in System, NEW q \in PagesOf(content', s)
               PROVE  q \in PagesOf(content, s) /\ content'[q].room <= content[q].room
    BY DEF Shrinks
  <2>1. q \in PagesOf(content, s) /\ q \in Page /\ content[q].room \in Nat
    BY <1>1, HeapPageRoom
  <2>2. CASE q = p
    BY <1>5, <1>12, <2>1, <2>2
  <2>3. CASE q # p
    BY <1>1, <2>1, <2>3
  <2> QED BY <2>1, <2>2, <2>3
<1> QED
  BY <1>15, <1>16, <1>17

LEMMA AddsPageGrows ==
  ASSUME CatInv, InsertRow, NEW r \in System, NEW p \in PagesOf(content, r),
         NEW row \in RowsFor(r), NEW e \in HeapPage, AddsPageFor(r, row, e, p)
  PROVE  \E spot : GrowsBy(r, row, spot) /\ FirstFit(r, row, spot) /\ Shrinks
<1>1. AddsPage(r, e, p)
  BY DEF AddsPageFor
<1>2. PICK n \in Page : n = nextPageId /\ content[n] = Unwritten
  BY <1>1, AddsPageKeeps
<1>3. /\ CatInv'
      /\ \A q \in Page : /\ q = n => content'[q] = e
                         /\ q # n /\ q = p => content'[q] = [content[p] EXCEPT !.next = n]
                         /\ q # n /\ q # p => content'[q] = content[q]
      /\ \A s \in System :
           PagesOf(content', s) \subseteq PagesOf(content, s) \cup (IF s = r THEN {n} ELSE {})
  <2>1. CatInv'
    BY <1>1, AddsPageKeeps
  <2>2. \A q \in Page :
          content'[q] = IF q = n THEN e
                        ELSE IF q = p THEN [content[p] EXCEPT !.next = n]
                        ELSE content[q]
    BY <1>1, <1>2, AddsPageKeeps
  <2>3. \A s \in System :
          PagesOf(content', s) \subseteq PagesOf(content, s) \cup (IF s = r THEN {n} ELSE {})
    BY <1>1, <1>2, AddsPageKeeps
  <2> QED BY <2>1, <2>2, <2>3
<1>4. /\ e.rows = IF Fits(row) THEN <<row>> ELSE <<>>
      /\ \A q \in PagesOf(content, r) : ~ Accepts(content[q], row)
      /\ content[p].next = NoPage
  BY DEF AddsPageFor, AddsPage
<1>5. content \in Disk /\ p \in Page /\ p # 0 /\ content[p] # Unwritten /\ content[p] \in HeapPage
      /\ p # n
  BY <1>2, PagesExist, DiskPages DEF CatInv, Typed, Allocated
<1>6. content'[p].rows = content[p].rows /\ content'[p].next = n /\ content'[p].room = content[p].room
      /\ content'[p] # Unwritten
  <2>1. content'[p] = [content[p] EXCEPT !.next = n]
    BY <1>3, <1>5
  <2>2. content'[p].kind = "heap"
    BY <1>5, <2>1 DEF HeapPage
  <2> QED BY <1>5, <2>1, <2>2 DEF HeapPage, Unwritten
<1>7. \A q \in Page : q # n => content'[q].rows = content[q].rows /\ content'[q].room = content[q].room
  BY <1>3, <1>5, <1>6
<1>8. content[n].rows = <<>> /\ content'[n].rows = e.rows /\ e # Unwritten
  BY <1>2, <1>3, PageFacts
<1>9. Len(<<>>) = 0 /\ Len(<<row>>) = 1 /\ <<row>>[1] = row
  OBVIOUS
<1>10. Shorter(content, content')
  <2>1. \A q \in Page : Len(content[q].rows) \in Nat /\ Len(content'[q].rows) \in Nat
    BY <1>3, DiskRows DEF CatInv, Typed
  <2>2. \A q \in Page : q # n =>
          /\ Len(content[q].rows) <= Len(content'[q].rows)
          /\ \A k \in 1 .. Len(content[q].rows) : content[q].rows[k] = content'[q].rows[k]
    BY <1>7, <2>1
  <2>3. /\ Len(content[n].rows) <= Len(content'[n].rows)
        /\ \A k \in 1 .. Len(content[n].rows) : content[n].rows[k] = content'[n].rows[k]
    BY <1>8, <1>9, <2>1
  <2> QED BY <2>2, <2>3 DEF Shorter
<1>11. Older(content, content')
  <2> SUFFICES ASSUME NEW q \in Page, content[q] # Unwritten
               PROVE  /\ content'[q] # Unwritten
                      /\ content[q].next = NoPage \/ content[q].next = content'[q].next
    BY DEF Older
  <2>1. q # n
    BY <1>2
  <2>2. CASE q = p
    BY <1>4, <1>6, <2>2
  <2>3. CASE q # p
    BY <1>3, <2>1, <2>3
  <2> QED BY <2>2, <2>3
<1>12. PICK spot : spot = <<n, 1>>
  OBVIOUS
<1>13. row.size \in Nat \ {0}
  BY RowFacts
<1>14. ASSUME NEW s \in System, NEW place \in Places(content', s)
       PROVE  \/ place \in Places(content, s) /\ RowAt(content', place) = RowAt(content, place)
              \/ s = r /\ place = spot /\ RowAt(content', place) = row /\ Fits(row)
  <2>1. /\ place \in PagesOf(content', s) \X (Nat \ {0})
        /\ place[2] <= Len(content'[place[1]].rows)
    BY DEF Places
  <2>2. CASE place[1] # n
    <3>1. place[1] \in PagesOf(content, s)
      BY <1>3, <2>1, <2>2
    <3>2. place[1] \in Page
      BY <3>1, PagesExist DEF CatInv, Allocated
    <3> QED BY <1>7, <2>1, <2>2, <3>1, <3>2 DEF Places, RowAt
  <2>3. CASE place[1] = n
    <3>1. n \notin PagesOf(content, s)
      BY <1>2, PagesExist DEF CatInv, Allocated
    <3>2. s = r
      BY <1>3, <2>1, <2>3, <3>1
    <3>3. place[2] \in Nat \ {0} /\ place[2] <= Len(e.rows) /\ place = <<n, place[2]>>
      BY <1>8, <2>1, <2>3
    <3>4. e.rows = <<row>> /\ place[2] = 1 /\ Fits(row)
      <4>1. Len(e.rows) # 0
        BY <1>9, <3>3
      <4>2. Fits(row)
        <5>1. CASE ~ Fits(row)
          <6>1. e.rows = <<>>
            BY <1>4, <5>1
          <6> QED BY <1>9, <4>1, <6>1
        <5> QED BY <5>1
      <4>3. e.rows = <<row>>
        BY <1>4, <4>2
      <4> QED BY <1>9, <3>3, <4>2, <4>3
    <3> QED BY <1>8, <1>9, <1>12, <2>3, <3>2, <3>3, <3>4 DEF RowAt
  <2> QED BY <2>2, <2>3
<1>15. n \in PagesOf(content', r)
  <2>1. p \in PagesOf(content', r)
    BY <1>3, <1>11, OlderPages DEF CatInv, Allocated
  <2>2. content'[p].next = n /\ content'[n] # Unwritten /\ n # NoPage
    BY <1>3, <1>6, <1>8, ConstantFacts
  <2> QED BY <1>3, <2>1, <2>2, PagesFollow DEF CatInv, Allocated
<1>16. Fits(row) => spot \in Places(content', r) /\ RowAt(content', spot) = row
  <2> SUFFICES ASSUME Fits(row)
               PROVE  spot \in Places(content', r) /\ RowAt(content', spot) = row
    OBVIOUS
  <2>1. content'[n].rows = <<row>>
    BY <1>4, <1>8
  <2>2. spot[1] = n /\ spot[2] = 1 /\ spot \in PagesOf(content', r) \X (Nat \ {0})
    BY <1>12, <1>15
  <2>3. spot[2] <= Len(content'[n].rows) /\ content'[n].rows[1] = row
    BY <1>9, <2>1, <2>2
  <2> QED BY <2>2, <2>3 DEF Places, RowAt
<1>17. GrowsBy(r, row, spot)
  BY <1>10, <1>11, <1>14, <1>16 DEF GrowsBy
<1>18. \A s \in System : \A q \in PagesOf(content, s) : q < n /\ q # n /\ q \in Page
  BY <1>2, HeapPageRoom, ConstantFacts
<1>19. FirstFit(r, row, spot)
  <2>1. \A q \in PagesOf(content, r) : content[q].room < row.size
    BY <1>4, <1>13, HeapPageRoom DEF Accepts
  <2>2. \A place \in Places(content, r) : place[1] # spot[1]
    BY <1>12, <1>18 DEF Places
  <2> QED BY <1>12, <1>18, <2>1, <2>2 DEF FirstFit
<1>20. Shrinks
  <2> SUFFICES ASSUME NEW s \in System, NEW q \in PagesOf(content', s)
               PROVE  \/ q \in PagesOf(content, s) /\ content'[q].room <= content[q].room
                      \/ \A x \in PagesOf(content', s) : x <= q
    BY DEF Shrinks
  <2>1. CASE q = n
    <3>1. \A x \in PagesOf(content', s) : x \in PagesOf(content, s) \/ x = n
      BY <1>3
    <3>2. \A x \in PagesOf(content, s) : x \in Nat /\ x < n
      BY <1>18, HeapPageRoom
    <3>3. n \in Nat
      BY ConstantFacts
    <3> QED BY <2>1, <3>1, <3>2, <3>3
  <2>2. CASE q # n
    <3>1. q \in PagesOf(content, s) /\ q \in Page /\ content[q].room \in Nat
      BY <1>3, <2>2, HeapPageRoom
    <3> QED BY <1>7, <2>2, <3>1
  <2> QED BY <2>1, <2>2
<1> QED
  BY <1>17, <1>19, <1>20

LEMMA InsertGrows ==
  ASSUME CatInv, InsertRow
  PROVE  /\ CatInv'
         /\ \E r, row, spot :
              /\ r \in System /\ row \in RowsFor(r) /\ Head(todo) = <<r, row>>
              /\ GrowsBy(r, row, spot) /\ FirstFit(r, row, spot) /\ Shrinks
<1>1. PICK r \in System : \E row \in RowsFor(r), p \in PagesOf(content, r) :
           /\ Head(todo) = <<r, row>>
           /\ AddsRow(r, row, p) \/ \E e \in HeapPage : AddsPageFor(r, row, e, p)
  BY InsertRowAdds
<1>2. PICK row \in RowsFor(r), p \in PagesOf(content, r) :
           /\ Head(todo) = <<r, row>>
           /\ AddsRow(r, row, p) \/ \E e \in HeapPage : AddsPageFor(r, row, e, p)
  BY <1>1
<1>3. \E spot : GrowsBy(r, row, spot) /\ FirstFit(r, row, spot) /\ Shrinks
  BY <1>2, AddsRowGrows, AddsPageGrows
<1> QED
  BY <1>2, <1>3, InsertRowKeeps

\* Nothing is added to db_attributes, and no row of it moves.
LEMMA ColumnsStay ==
  ASSUME ColumnsIn, Shorter(file', content'), ColumnsMade \subseteq ColumnsMade',
         \A place \in Places(content', AttributesRoot) :
           /\ place \in Places(content, AttributesRoot)
           /\ RowAt(content', place) = RowAt(content, place),
         Run(todo', ColumnsMade'),
         \A i \in 1 .. Len(todo') : \A place \in Places(content', AttributesRoot) :
           todo'[i][1] = AttributesRoot => Earlier(RowAt(content', place), todo'[i][2])
  PROVE  ColumnsIn'
<1>1. \A place \in Places(content', AttributesRoot) : RowAt(content', place) \in ColumnsMade'
  BY DEF ColumnsIn
<1>2. \A a, b \in Places(content', AttributesRoot) :
        RowAt(content', a) = RowAt(content', b) => a = b
  BY DEF ColumnsIn
<1> QED
  BY <1>1, <1>2 DEF ColumnsIn

LEMMA ShorterSame ==
  ASSUME NEW disk \in Disk
  PROVE  Shorter(disk, disk)
BY DiskRows DEF Shorter

\* Nothing of it changes.
LEMMA ColumnsUnchanged ==
  ASSUME CatInv, ColumnsIn, UNCHANGED <<content, made, todo>>, Shorter(file', content)
  PROVE  ColumnsIn'
BY DEF ColumnsIn, ColumnsMade

LEMMA InitColumns ==
  ASSUME CatalogInit
  PROVE  ColumnsIn
<1>1. CatInv
  BY CatalogInitInv
<1>2. content = file /\ content \in Disk /\ todo = <<>>
  BY <1>1 DEF CatalogInit, CatInv, Typed
<1>3. Shorter(file, content)
  BY <1>2, ShorterSame
<1>4. Places(content, AttributesRoot) = {}
  <2> SUFFICES ASSUME NEW place \in Places(content, AttributesRoot)
               PROVE  FALSE
    OBVIOUS
  <2>1. place[1] \in Page /\ content[place[1]] # Unwritten
    BY <1>1, PagesExist, ConstantFacts DEF Places, CatInv, Allocated
  <2> QED BY <2>1 DEF CatalogInit
<1> QED
  BY <1>2, <1>3, <1>4 DEF ColumnsIn, Run

LEMMA WriteBackColumns ==
  ASSUME CatInv, ColumnsIn, NEW w \in Page, WriteBack(w)
  PROVE  ColumnsIn'
<1>1. UNCHANGED <<content, made, todo>> /\ file' = [file EXCEPT ![w] = content[w]]
  BY DEF WriteBack
<1>2. content \in Disk /\ file \in Disk
  BY DEF CatInv, Typed
<1>3. \A p \in Page : file'[p] = IF p = w THEN content[w] ELSE file[p]
  BY <1>1, <1>2 DEF Disk
<1>4. Shorter(content, content)
  BY <1>2, ShorterSame
<1>5. Shorter(file', content)
  BY <1>3, <1>4 DEF Shorter, ColumnsIn
<1> QED
  BY <1>1, <1>5, ColumnsUnchanged

LEMMA FlushAllColumns ==
  ASSUME CatInv, ColumnsIn, FlushAll
  PROVE  ColumnsIn'
<1>1. UNCHANGED <<content, made, todo>> /\ file' = content
  BY DEF FlushAll
<1>2. Shorter(file', content)
  BY <1>1, ShorterSame DEF CatInv, Typed
<1> QED
  BY <1>1, <1>2, ColumnsUnchanged

LEMMA RestartColumns ==
  ASSUME CatInv, ColumnsIn, Restart
  PROVE  ColumnsIn'
<1>1. content' = file /\ file' = file /\ made' = made /\ todo' = <<>>
  BY DEF Restart
<1>2. /\ content \in Disk /\ file \in Disk /\ LinkedUp(content) /\ LinkedUp(file)
      /\ Older(file, content) /\ Shorter(file, content)
  BY DEF CatInv, Typed, Allocated, ColumnsIn
<1>3. Shorter(file', content')
  BY <1>1, <1>2, ShorterSame
<1>4. ColumnsMade' = ColumnsMade
  BY <1>1 DEF ColumnsMade
<1>5. \A p \in PagesOf(content, AttributesRoot) :
        Len(content[p].rows) \in Nat /\ Len(file[p].rows) \in Nat
  BY <1>2, PagesExist, DiskRows, ConstantFacts
<1>6. \A place \in Places(content', AttributesRoot) :
        /\ place \in Places(content, AttributesRoot)
        /\ RowAt(content', place) = RowAt(content, place)
  BY <1>1, <1>2, <1>5, OlderPlaces, ConstantFacts
<1>7. Run(todo', ColumnsMade')
      /\ \A i \in 1 .. Len(todo') : \A place \in Places(content', AttributesRoot) :
           todo'[i][1] = AttributesRoot => Earlier(RowAt(content', place), todo'[i][2])
  BY <1>1 DEF Run
<1> QED
  BY <1>3, <1>4, <1>6, <1>7, ColumnsStay

LEMMA BootstrapCatalogsColumns ==
  ASSUME CatInv, ColumnsIn, BootstrapCatalogs
  PROVE  ColumnsIn'
<1>1. CatInv' /\ \A p \in Page : content'[p].rows = <<>> /\ file'[p].rows = <<>>
  BY BootstrapCatalogsKeeps
<1>2. todo' = InsertBuiltinTypes \o InsertCatalogMetadata /\ made' = made
  BY DEF BootstrapCatalogs
<1>3. Len(<<>>) = 0
  OBVIOUS
<1>4. Shorter(file', content')
  BY <1>1, <1>3 DEF Shorter
<1>5. Places(content', AttributesRoot) = {}
  <2> SUFFICES ASSUME NEW place \in Places(content', AttributesRoot)
               PROVE  FALSE
    OBVIOUS
  <2>1. place \in PagesOf(content', AttributesRoot) \X (Nat \ {0})
        /\ place[2] <= Len(content'[place[1]].rows)
    BY DEF Places
  <2>2. place[1] \in Page
    BY <1>1, <2>1, PagesExist, ConstantFacts DEF CatInv, Allocated
  <2>3. place[2] \in Nat \ {0} /\ place[2] <= 0
    BY <1>1, <1>3, <2>1, <2>2
  <2> QED BY <2>3
<1>6. ColumnsMade \subseteq ColumnsMade'
  BY <1>2 DEF ColumnsMade
<1>7. SystemColumns \subseteq ColumnsMade'
  BY DEF ColumnsMade, SystemColumns
<1>8. Run(todo', ColumnsMade')
  BY <1>2, <1>7, BootstrapRun DEF Run
<1> QED
  BY <1>4, <1>5, <1>6, <1>8, ColumnsStay

\* The rows of columns there are have ids below the one of the next table.
LEMMA TablesBelow ==
  ASSUME CatInv, ColumnsIn, NEW place \in Places(content, AttributesRoot)
  PROVE  RowAt(content, place).table < FirstUserId + Len(made)
<1>1. PICK a \in ColumnsMade : a = RowAt(content, place)
  BY DEF ColumnsIn
<1>2. FirstUserId + Len(made) = TypesRoot + (Len(made) + 1) /\ Len(made) \in Nat
  <2>1. Len(made) \in Nat
    BY DEF CatInv, Typed
  <2> QED BY <2>1, ConstantFacts DEF FirstUserId
<1>3. CASE a.table \in System
  <2>1. \A s \in System : s < TypesRoot + (Len(made) + 1)
    BY <1>2, ConstantFacts DEF System
  <2> QED BY <1>1, <1>2, <1>3, <2>1
<1>4. CASE \E i \in 1 .. Len(made) : a.table = made[i].row.id
  <2>1. PICK i \in 1 .. Len(made) : a.table = TypesRoot + i
    BY <1>4, MadeRows DEF CatInv
  <2> QED BY <1>1, <1>2, <2>1, ConstantFacts
<1> QED
  BY <1>3, <1>4 DEF ColumnsMade, SystemColumns

LEMMA CreateTableColumns ==
  ASSUME CatInv, ColumnsIn, NEW name \in Name, NEW sizes \in Schema,
         SoundCreateTable(name, sizes)
  PROVE  ColumnsIn'
<1>1. PICK n \in Page : n = nextPageId /\ content[n] = Unwritten
  BY CreateTableKeeps
<1>2. \A q \in Page : content'[q] = IF q = n THEN EmptyPage ELSE content[q]
  BY <1>1, CreateTableKeeps
<1>3. /\ CatInv' /\ PagesOf(content', AttributesRoot) \subseteq PagesOf(content, AttributesRoot)
  BY CreateTableKeeps, ConstantFacts
<1>4. PICK id \in Id : id = FirstUserId + Len(made)
  BY CreateTableKeeps
<1>5. PICK row \in TableRow :
        /\ row.id = id
        /\ todo' = Inserts(TablesRoot, <<row>>) \o Inserts(AttributesRoot, Columns(id, sizes))
        /\ made' = Append(made, [row |-> row, sizes |-> sizes])
  BY <1>4, CreateTableKeeps
<1>6. file' = file
  BY DEF SoundCreateTable, CreateTable, CreateAs
<1>7. \A q \in Page : content'[q].rows = content[q].rows
  BY <1>1, <1>2, PageFacts
<1>8. Shorter(file', content')
  BY <1>6, <1>7 DEF ColumnsIn, Shorter
<1>9. PICK table \in [row : TableRow, sizes : Schema] :
        table.row = row /\ table.sizes = sizes /\ made' = Append(made, table)
  BY <1>5
<1>10. /\ Len(made) \in Nat /\ Len(made') = Len(made) + 1 /\ made'[Len(made) + 1] = table
       /\ \A i \in 1 .. Len(made) : made'[i] = made[i] /\ i \in 1 .. Len(made')
  <2> DEFINE M == [row : TableRow, sizes : Schema]
  <2>1. made \in Seq(M) /\ table \in M
    BY DEF CatInv, Typed
  <2> HIDE DEF M
  <2> QED BY <1>9, <2>1
<1>11. Len(made) + 1 \in 1 .. Len(made')
  BY <1>10
<1>12. ColumnsMade \subseteq ColumnsMade'
  BY <1>10 DEF ColumnsMade
<1>13. sizes \in Seq(Nat \ {0})
  BY CatalogAssumption
<1>14. /\ Run(todo', ToSet(Columns(id, sizes)))
       /\ ToSet(Columns(id, sizes)) \subseteq ColumnRow
       /\ \A column \in ToSet(Columns(id, sizes)) : column.table = id
  BY <1>5, <1>13, ColumnsRun
<1>15. ToSet(Columns(id, sizes)) \subseteq ColumnsMade'
  <2>1. PICK k \in 1 .. Len(made') : made'[k].row.id = id /\ made'[k].sizes = sizes
    BY <1>5, <1>9, <1>10, <1>11
  <2> QED BY <1>14, <2>1 DEF ColumnsMade
<1>16. Run(todo', ColumnsMade')
  BY <1>14, <1>15 DEF Run
<1>17. \A place \in Places(content', AttributesRoot) :
         /\ place \in Places(content, AttributesRoot)
         /\ RowAt(content', place) = RowAt(content, place)
  <2>1. \A place \in Places(content', AttributesRoot) :
          place[1] \in Page /\ place[1] \in PagesOf(content, AttributesRoot)
    BY <1>3, PagesExist, ConstantFacts DEF Places, CatInv, Allocated
  <2> QED BY <1>7, <2>1 DEF Places, RowAt
<1>18. \A place \in Places(content, AttributesRoot) : RowAt(content, place).table < id
  BY <1>4, TablesBelow
<1>19. ASSUME NEW i \in 1 .. Len(todo'), NEW place \in Places(content', AttributesRoot),
              todo'[i][1] = AttributesRoot
       PROVE  Earlier(RowAt(content', place), todo'[i][2])
  <2>1. todo'[i][2].table = id
    BY <1>14, <1>19 DEF Run
  <2> QED BY <1>17, <1>18, <2>1 DEF Earlier
<1> QED
  BY <1>8, <1>12, <1>16, <1>17, <1>19, ColumnsStay

LEMMA InsertRowColumns ==
  ASSUME CatInv, ColumnsIn, InsertRow
  PROVE  ColumnsIn'
BY InsertGrows, ColumnsGrow

LEMMA CatalogNextColumns ==
  ASSUME CatInv, ColumnsIn, [SoundNext]_catalogVars
  PROVE  ColumnsIn'
<1>1. CASE UNCHANGED catalogVars \/ LoadCatalogs \/ CreateReturns
  <2>1. UNCHANGED <<content, file, made, todo>>
    BY <1>1 DEF catalogVars, LoadCatalogs, CreateReturns
  <2> QED BY <2>1, ColumnsUnchanged DEF ColumnsIn
<1>2. CASE SoundNext
  BY <1>1, <1>2, BootstrapCatalogsColumns, InsertRowColumns, FlushAllColumns,
     CreateTableColumns, WriteBackColumns, RestartColumns
  DEF SoundNext
<1> QED
  BY <1>1, <1>2

\* Where every call found the catalog whole, rows of columns stay in their places, no two
\* alike, through evictions and crashes, and what a running call has left to insert comes
\* after them.
THEOREM ColumnsInvariant == CatalogSpec => [](sound => CatInv /\ ColumnsIn)
<1>1. CatalogInit => CatInv /\ ColumnsIn
  BY CatalogInitInv, InitColumns
<1>2. /\ sound => CatInv /\ ColumnsIn
      /\ [CatalogNext]_catalogVars
      => (sound => CatInv /\ ColumnsIn)'
  BY SoundStep, CatalogNextInv, CatalogNextColumns
<1> QED
  BY <1>1, <1>2, PTL DEF CatalogSpec

\* The rows under the id of a table are of its columns, each of them once.
LEMMA ColumnsOfOne ==
  ASSUME CatInv, ColumnsIn, NEW i \in 1 .. Len(made)
  PROVE  /\ ToSet(GetColumns(content, made[i].row.id))
              \subseteq ToSet(Columns(made[i].row.id, made[i].sizes))
         /\ IsInjective(GetColumns(content, made[i].row.id))
<1>1. PICK id : id = made[i].row.id
  OBVIOUS
<1>2. LinkedUp(content)
  BY DEF CatInv, Allocated
<1>3. \A p \in PagesOf(content, AttributesRoot) : content[p].rows \in Seq(ColumnRow)
  <2>1. AttributesRoot \in System /\ RowsFor(AttributesRoot) = ColumnRow
    BY ConstantFacts DEF RowsFor
  <2> QED BY <2>1 DEF CatInv, Apart
<1>4. PICK columns \in Seq(ColumnRow) : columns = GetColumns(content, id)
  BY <1>2, <1>3, ColumnsListed
<1>5. PICK at : Lists(at, columns, content, ColumnPlaces(content, id))
  BY <1>2, <1>3, <1>4, ColumnsListed
<1>6. ASSUME NEW k \in 1 .. Len(columns)
      PROVE  /\ at[k] \in Places(content, AttributesRoot)
             /\ columns[k] = RowAt(content, at[k]) /\ columns[k].table = id
  BY <1>5 DEF Lists, ColumnPlaces
<1>7. ASSUME NEW k \in 1 .. Len(columns)
      PROVE  columns[k] \in ToSet(Columns(id, made[i].sizes))
  <2>1. columns[k] \in ColumnsMade /\ columns[k].table = id
    BY <1>6 DEF ColumnsIn
  <2>2. id = TypesRoot + i /\ i \in Nat \ {0}
    BY <1>1, MadeRows DEF CatInv
  <2>3. id \notin System
    BY <2>2, ConstantFacts DEF System
  <2>4. PICK j \in 1 .. Len(made) :
          /\ columns[k].table = made[j].row.id
          /\ columns[k] \in ToSet(Columns(made[j].row.id, made[j].sizes))
    BY <2>1, <2>3 DEF ColumnsMade, SystemColumns
  <2>5. j = i
    <3>1. TypesRoot + i = TypesRoot + j
      BY <2>1, <2>2, <2>4, MadeRows DEF CatInv
    <3> QED BY <3>1, ConstantFacts
  <2> QED BY <1>1, <2>4, <2>5
<1>8. ASSUME NEW k \in 1 .. Len(columns), NEW l \in 1 .. Len(columns), columns[k] = columns[l]
      PROVE  k = l
  <2>1. PICK spot : spot = at[k] /\ spot = at[l]
    BY <1>6, <1>8 DEF ColumnsIn
  <2>2. spot[1] \in Int /\ spot[2] \in Int
    <3>1. spot \in Places(content, AttributesRoot)
      BY <1>6, <2>1
    <3>2. spot[1] \in Page /\ spot[2] \in Nat
      BY <3>1, PlaceFacts DEF Places
    <3> QED BY <3>2 DEF Page
  <2>3. ~ Before(spot, spot)
    BY <2>2 DEF Before
  <2>4. ~ (k < l) /\ ~ (l < k)
    BY <1>5, <2>1, <2>3 DEF Lists
  <2> QED BY <2>4
<1>9. DOMAIN columns = 1 .. Len(columns)
  OBVIOUS
<1>10. ToSet(columns) \subseteq ToSet(Columns(id, made[i].sizes))
  BY <1>7, <1>9 DEF ToSet
<1>11. IsInjective(columns)
  BY <1>8, <1>9 DEF IsInjective
<1> QED
  BY <1>1, <1>4, <1>10, <1>11

\* Where every call found the catalog whole, the columns that a scan to the end of
\* db_attributes finds under a table's id are its own, each of them once, whatever a
\* crash took of them: GetColumns() lists places whose rows differ.
THEOREM ColumnsStayApart == CatalogSpec => []ColumnsNeverMixed
<1>1. (sound => CatInv /\ ColumnsIn) => ColumnsNeverMixed
  BY ColumnsOfOne DEF ColumnsNeverMixed
<1> QED
  BY <1>1, ColumnsInvariant, PTL

----------------------------------------------------------------------------
(* What is inserted is there, unless it fits no page, and stays as long as   *)
(* no crash takes it away.                                                  *)

SystemTables == {SystemTable(i) : i \in System}
TablesMade == SystemTables \cup {made[i].row : i \in 1 .. Len(made)}

\* The rows of tables that there may be.
TablesIn ==
  /\ \A place \in Places(content, TablesRoot) : RowAt(content, place) \in TablesMade
  /\ \A insert \in ToSet(todo) : insert[1] = TablesRoot =>
       /\ insert[2] \in TablesMade
       /\ insert[2] \in SystemTables <=> phase = "bootstrap"
  /\ phase = "bootstrap" =>
       \A place \in Places(content, TablesRoot) : RowAt(content, place) \in SystemTables

AllFit ==
  \A root \in System : \A place \in Places(content, root) : Fits(RowAt(content, place))

\* A row of a column is before a row that was inserted earlier only if it is smaller:
\* the pages before that one had too little room for it.
InOrder ==
  /\ \A a, b \in Places(content, AttributesRoot) :
       (/\ Before(a, b) /\ RowAt(content, a).table = RowAt(content, b).table
        /\ RowAt(content, b).position < RowAt(content, a).position)
         => RowAt(content, a).size < RowAt(content, b).size
  /\ \A insert \in ToSet(todo), b \in Places(content, AttributesRoot) :
       (insert[1] = AttributesRoot /\ insert[2].table = RowAt(content, b).table) =>
         \A q \in PagesOf(content, AttributesRoot) :
           q < b[1] => content[q].room < RowAt(content, b).size

Has(disk, root, row) ==
  Fits(row) => \E place \in Places(disk, root) : RowAt(disk, place) = row
HasAll(disk, row, sizes) ==
  /\ Has(disk, TablesRoot, row)
  /\ \A column \in ToSet(Columns(row.id, sizes)) : Has(disk, AttributesRoot, column)

\* A row that a running call has inserted or has left to insert.
Coming(root, row) == Has(content, root, row) \/ <<root, row>> \in ToSet(todo)
AllComing(row, sizes) ==
  /\ Coming(TablesRoot, row)
  /\ \A column \in ToSet(Columns(row.id, sizes)) : Coming(AttributesRoot, column)

KeptIn ==
  /\ \A i \in 1 .. Len(made) :
       /\ made[i].row.id \in kept => HasAll(content, made[i].row, made[i].sizes)
       /\ made[i].row.id \in flushed => HasAll(file, made[i].row, made[i].sizes)
  /\ phase = "create" => AllComing(made[Len(made)].row, made[Len(made)].sizes)
  /\ phase = "bootstrap" => \A i \in System : AllComing(SystemTable(i), SystemSchema[i])
  /\ booted => \A i \in System : HasAll(file, SystemTable(i), SystemSchema[i])

TableInv == CatInv /\ ColumnsIn /\ TablesIn /\ AllFit /\ InOrder /\ KeptIn

LEMMA PlacesRemain ==
  ASSUME NEW old \in Disk, NEW new \in Disk, LinkedUp(old), LinkedUp(new),
         Older(old, new), Shorter(old, new), NEW root \in System, NEW place \in Places(old, root)
  PROVE  place \in Places(new, root) /\ RowAt(old, place) = RowAt(new, place)
<1>1. \A p \in PagesOf(new, root) : Len(new[p].rows) \in Nat /\ Len(old[p].rows) \in Nat
  BY PagesExist, DiskRows
<1> QED
  BY <1>1, OlderPlaces

LEMMA HasRemains ==
  ASSUME NEW old \in Disk, NEW new \in Disk, LinkedUp(old), LinkedUp(new),
         Older(old, new), Shorter(old, new), NEW root \in System
  PROVE  /\ \A row : Has(old, root, row) => Has(new, root, row)
         /\ \A row, sizes : HasAll(old, row, sizes) => HasAll(new, row, sizes)
<1>1. \A s \in System : \A row : Has(old, s, row) => Has(new, s, row)
  BY PlacesRemain DEF Has
<1>2. TablesRoot \in System /\ AttributesRoot \in System
  BY ConstantFacts
<1> QED
  BY <1>1, <1>2 DEF HasAll

LEMMA ElementsJoin ==
  ASSUME NEW S, NEW s \in Seq(S), NEW t \in Seq(S)
  PROVE  ToSet(s \o t) = ToSet(s) \cup ToSet(t)
<1>1. PICK u : u = s \o t
  OBVIOUS
<1>2. PICK L \in Nat : L = Len(s)
  OBVIOUS
<1>3. PICK M \in Nat : M = Len(t)
  OBVIOUS
<1>4. /\ DOMAIN u = 1 .. L + M /\ DOMAIN s = 1 .. L /\ DOMAIN t = 1 .. M
      /\ \A k \in 1 .. L + M : k <= L => u[k] = s[k] /\ k \in 1 .. L
      /\ \A k \in 1 .. L + M : ~ (k <= L) => u[k] = t[k - L] /\ k - L \in 1 .. M
  BY <1>1, <1>2, <1>3
<1>5. \A k \in 1 .. L : k \in 1 .. L + M /\ u[k] = s[k]
  BY <1>4
<1>6. ASSUME NEW k \in 1 .. M
      PROVE  k + L \in 1 .. L + M /\ u[k + L] = t[k]
  <2>1. k + L \in 1 .. L + M /\ ~ (k + L <= L) /\ (k + L) - L = k
    OBVIOUS
  <2> QED BY <1>4, <2>1
<1>7. ToSet(u) = ToSet(s) \cup ToSet(t)
  <2>1. ASSUME NEW x \in ToSet(u)
        PROVE  x \in ToSet(s) \cup ToSet(t)
    BY <1>4 DEF ToSet
  <2>2. ASSUME NEW x \in ToSet(s)
        PROVE  x \in ToSet(u)
    BY <1>4, <1>5 DEF ToSet
  <2>3. ASSUME NEW x \in ToSet(t)
        PROVE  x \in ToSet(u)
    BY <1>4, <1>6 DEF ToSet
  <2> QED BY <2>1, <2>2, <2>3
<1> QED
  BY <1>1, <1>7

LEMMA ElementsInserted ==
  ASSUME NEW root, NEW S, NEW rows \in Seq(S)
  PROVE  ToSet(Inserts(root, rows)) = {<<root, row>> : row \in ToSet(rows)}
BY DEF Inserts, ToSet

\* What the inserts of a call are.
CallInserts(row, sizes) ==
  {<<TablesRoot, row>>}
    \cup {<<AttributesRoot, column>> : column \in ToSet(Columns(row.id, sizes))}

LEMMA CallElements ==
  ASSUME NEW row \in TableRow, NEW sizes \in Seq(Nat \ {0})
  PROVE  /\ Inserts(TablesRoot, <<row>>) \o Inserts(AttributesRoot, Columns(row.id, sizes))
              \in Seq(Insertion)
         /\ ToSet(Inserts(TablesRoot, <<row>>) \o Inserts(AttributesRoot, Columns(row.id, sizes)))
              = CallInserts(row, sizes)
<1>1. row.id \in Id
  BY DEF TableRow
<1>2. Columns(row.id, sizes) \in Seq(ColumnRow) /\ <<row>> \in Seq(TableRow)
  BY <1>1, ColumnsTyped
<1>3. PICK s \in Seq(Insertion) : s = Inserts(TablesRoot, <<row>>)
  <2>1. TablesRoot \in System /\ RowsFor(TablesRoot) = TableRow
    BY ConstantFacts DEF RowsFor
  <2> QED BY <1>2, <2>1, InsertsTyped
<1>4. PICK t \in Seq(Insertion) : t = Inserts(AttributesRoot, Columns(row.id, sizes))
  BY <1>1, ColumnInsertsTyped
<1>5. ToSet(s) = {<<TablesRoot, row>>}
  <2>1. DOMAIN s = {1} /\ s[1] = <<TablesRoot, row>>
    BY <1>3 DEF Inserts
  <2>2. ToSet(s) = {s[1]}
    BY <2>1 DEF ToSet
  <2> QED BY <2>1, <2>2
<1>6. ToSet(t) = {<<AttributesRoot, column>> : column \in ToSet(Columns(row.id, sizes))}
  BY <1>2, <1>4, ElementsInserted
<1>7. s \o t \in Seq(Insertion) /\ ToSet(s \o t) = ToSet(s) \cup ToSet(t)
  BY ElementsJoin
<1> QED
  BY <1>3, <1>4, <1>5, <1>6, <1>7 DEF CallInserts

LEMMA BootstrapElements ==
  /\ \A i \in System :
       /\ SystemTable(i) \in TableRow /\ SystemSchema[i] \in Seq(Nat \ {0})
       /\ SystemTable(i).id = i
       /\ CallInserts(SystemTable(i), SystemSchema[i])
            \subseteq ToSet(InsertBuiltinTypes \o InsertCatalogMetadata)
  /\ \A insert \in ToSet(InsertBuiltinTypes \o InsertCatalogMetadata) :
       \/ insert[1] = TypesRoot
       \/ \E i \in System : insert \in CallInserts(SystemTable(i), SystemSchema[i])
<1>1. ASSUME NEW i \in System
      PROVE  /\ SystemTable(i) \in TableRow /\ SystemSchema[i] \in Seq(Nat \ {0})
             /\ SystemTable(i).id = i
             /\ Describe(i) \in Seq(Insertion)
             /\ ToSet(Describe(i)) = CallInserts(SystemTable(i), SystemSchema[i])
  <2>1. i \in 1 .. 3 /\ i \in Id /\ i \in Page
    BY ConstantFacts DEF System, Id
  <2>2. SystemName[i] \in ToSet(SystemName)
    BY <2>1 DEF SystemName, ToSet
  <2>3. SystemSchema[i] \in Seq(Nat \ {0})
    <3>1. <<1, 1, 1, 1>> \in Seq(Nat \ {0}) /\ <<1, 1, 1>> \in Seq(Nat \ {0})
      OBVIOUS
    <3>2. SystemSchema[i] \in {<<1, 1, 1, 1>>, <<1, 1, 1>>}
      BY <2>1 DEF SystemSchema
    <3> QED BY <3>1, <3>2
  <2>4. SystemTable(i) \in TableRow /\ SystemTable(i).id = i
    BY <2>1, <2>2, TableInfoTyped DEF SystemTable, TableInfo
  <2> QED BY <2>3, <2>4, CallElements DEF Describe
<1>2. PICK types \in Seq(Insertion) : types = InsertBuiltinTypes
  <2>1. TypesRoot \in System /\ RowsFor(TypesRoot) = TypeRow
    BY ConstantFacts DEF RowsFor
  <2>2. <<[type |-> "INT", size |-> 1], [type |-> "TEXT", size |-> 1]>> \in Seq(TypeRow)
    BY DEF TypeRow
  <2> QED BY <2>1, <2>2, InsertsTyped DEF InsertBuiltinTypes
<1>3. \A insert \in ToSet(types) : insert[1] = TypesRoot
  BY <1>2 DEF InsertBuiltinTypes, Inserts, ToSet
<1>4. TablesRoot \in System /\ AttributesRoot \in System /\ TypesRoot \in System
  BY ConstantFacts
<1>5. PICK one \in Seq(Insertion) : one = Describe(TablesRoot)
  BY <1>1, <1>4
<1>6. PICK two \in Seq(Insertion) : two = Describe(AttributesRoot)
  BY <1>1, <1>4
<1>7. PICK three \in Seq(Insertion) : three = Describe(TypesRoot)
  BY <1>1, <1>4
<1>8. PICK both \in Seq(Insertion) : both = one \o two /\ ToSet(both) = ToSet(one) \cup ToSet(two)
  <2>1. one \o two \in Seq(Insertion)
    OBVIOUS
  <2>2. ToSet(one \o two) = ToSet(one) \cup ToSet(two)
    BY ElementsJoin
  <2> QED BY <2>1, <2>2
<1>9. PICK tables \in Seq(Insertion) :
        tables = both \o three /\ ToSet(tables) = ToSet(both) \cup ToSet(three)
  <2>1. both \o three \in Seq(Insertion)
    OBVIOUS
  <2>2. ToSet(both \o three) = ToSet(both) \cup ToSet(three)
    BY ElementsJoin
  <2> QED BY <2>1, <2>2
<1>10. ToSet(types \o tables) = ToSet(types) \cup ToSet(tables)
  BY ElementsJoin
<1>11. ToSet(InsertBuiltinTypes \o InsertCatalogMetadata)
         = ToSet(types) \cup ToSet(one) \cup ToSet(two) \cup ToSet(three)
  BY <1>2, <1>5, <1>6, <1>7, <1>8, <1>9, <1>10 DEF InsertCatalogMetadata
<1>12. \A i \in System : i = TablesRoot \/ i = AttributesRoot \/ i = TypesRoot
  BY ConstantFacts
<1>13. \A i \in System : ToSet(Describe(i)) \in {ToSet(one), ToSet(two), ToSet(three)}
  BY <1>5, <1>6, <1>7, <1>12
<1>14. \A i \in System : CallInserts(SystemTable(i), SystemSchema[i])
                            \subseteq ToSet(InsertBuiltinTypes \o InsertCatalogMetadata)
  BY <1>1, <1>11, <1>13
<1>15. ASSUME NEW insert \in ToSet(InsertBuiltinTypes \o InsertCatalogMetadata)
       PROVE  insert[1] = TypesRoot \/ \E i \in System : insert \in ToSet(Describe(i))
  BY <1>3, <1>4, <1>5, <1>6, <1>7, <1>11
<1> QED
  BY <1>1, <1>14, <1>15

\* Tables that were made stay as they are.
LEMMA MadeGrows ==
  ASSUME CatInv, [SoundNext]_catalogVars
  PROVE  /\ Len(made) \in Nat
         /\ \A i \in 1 .. Len(made) : i \in 1 .. Len(made') /\ made'[i] = made[i]
<1>1. Len(made) \in Nat
  BY DEF CatInv, Typed
<1>2. CASE made' = made
  BY <1>1, <1>2
<1>3. CASE \E table \in [row : TableRow, sizes : Schema] : made' = Append(made, table)
  <2> DEFINE M == [row : TableRow, sizes : Schema]
  <2>1. PICK table \in M : made' = Append(made, table)
    BY <1>3
  <2>2. made \in Seq(M)
    BY DEF CatInv, Typed
  <2> HIDE DEF M
  <2>3. Len(made') = Len(made) + 1 /\ \A i \in 1 .. Len(made) : made'[i] = made[i]
    BY <2>1, <2>2
  <2> QED BY <1>1, <2>3
<1>4. CASE \E name \in Name, sizes \in Schema : SoundCreateTable(name, sizes)
  <2>1. PICK name \in Name, sizes \in Schema : SoundCreateTable(name, sizes)
    BY <1>4
  <2>2. PICK row \in TableRow : made' = Append(made, [row |-> row, sizes |-> sizes])
    BY <2>1, CreateTableKeeps
  <2>3. [row |-> row, sizes |-> sizes] \in [row : TableRow, sizes : Schema]
    OBVIOUS
  <2> QED BY <1>3, <2>2, <2>3
<1>5. \/ made' = made
      \/ \E name \in Name, sizes \in Schema : SoundCreateTable(name, sizes)
  BY DEF SoundNext, LoadCatalogs, BootstrapCatalogs, InsertRow, FlushAll, CreateReturns,
         WriteBack, Restart, catalogVars
<1> QED
  BY <1>2, <1>4, <1>5

\* What CreateTable() makes of the catalog: nothing yet.
LEMMA CreateTableStays ==
  ASSUME CatInv, NEW name \in Name, NEW sizes \in Schema, SoundCreateTable(name, sizes)
  PROVE  /\ CatInv' /\ Older(content, content') /\ Shorter(content, content')
         /\ \A s \in System :
              /\ PagesOf(content', s) \subseteq PagesOf(content, s)
              /\ \A q \in PagesOf(content', s) : content'[q] = content[q]
              /\ \A place \in Places(content', s) :
                   place \in Places(content, s) /\ RowAt(content', place) = RowAt(content, place)
<1>1. PICK n \in Page : n = nextPageId /\ content[n] = Unwritten
  BY CreateTableKeeps
<1>2. \A q \in Page : content'[q] = IF q = n THEN EmptyPage ELSE content[q]
  BY <1>1, CreateTableKeeps
<1>3. CatInv' /\ \A s \in System : PagesOf(content', s) \subseteq PagesOf(content, s)
  BY CreateTableKeeps
<1>4. Older(content, content')
  BY <1>1, <1>2 DEF Older
<1>5. Shorter(content, content')
  <2>1. \A q \in Page : content'[q].rows = content[q].rows
    BY <1>1, <1>2, PageFacts
  <2>2. \A q \in Page : Len(content[q].rows) \in Nat
    BY DiskRows DEF CatInv, Typed
  <2> QED BY <2>1, <2>2 DEF Shorter
<1>6. \A s \in System : \A q \in PagesOf(content', s) : content'[q] = content[q]
  <2>1. \A s \in System : \A q \in PagesOf(content', s) : q \in Page /\ content[q] # Unwritten
    BY <1>3, PagesExist DEF CatInv, Allocated
  <2> QED BY <1>1, <1>2, <2>1
<1>7. \A s \in System : \A place \in Places(content', s) :
        place \in Places(content, s) /\ RowAt(content', place) = RowAt(content, place)
  <2>1. \A s \in System : \A place \in Places(content', s) :
          /\ place[1] \in PagesOf(content, s) /\ content'[place[1]] = content[place[1]]
    BY <1>3, <1>6 DEF Places
  <2> QED BY <2>1 DEF Places, RowAt
<1> QED
  BY <1>3, <1>4, <1>5, <1>6, <1>7

\* No call but Insert() adds rows to the catalog, or room to its pages.
LEMMA OnlyInserts ==
  ASSUME CatInv, ColumnsIn, [SoundNext]_catalogVars, ~ InsertRow
  PROVE  \A s \in System : \A place \in Places(content', s) :
           place \in Places(content, s) /\ RowAt(content', place) = RowAt(content, place)
<1>1. CASE content' = content
  BY <1>1
<1>2. CASE BootstrapCatalogs
  <2>1. CatInv' /\ \A p \in Page : content'[p].rows = <<>>
    BY <1>2, BootstrapCatalogsKeeps
  <2>2. ASSUME NEW s \in System, NEW place \in Places(content', s)
        PROVE  FALSE
    <3>1. place \in PagesOf(content', s) \X (Nat \ {0})
          /\ place[2] <= Len(content'[place[1]].rows)
      BY DEF Places
    <3>2. place[1] \in Page
      BY <2>1, <3>1, PagesExist DEF CatInv, Allocated
    <3>3. place[2] \in Nat \ {0} /\ place[2] <= 0
      <4>1. Len(<<>>) = 0
        OBVIOUS
      <4> QED BY <2>1, <3>1, <3>2, <4>1
    <3> QED BY <3>3
  <2> QED BY <2>2
<1>3. CASE \E name \in Name, sizes \in Schema : SoundCreateTable(name, sizes)
  BY <1>3, CreateTableStays
<1>4. CASE Restart
  <2>1. content' = file
    BY <1>4 DEF Restart
  <2>2. /\ content \in Disk /\ file \in Disk /\ LinkedUp(content) /\ LinkedUp(file)
        /\ Older(file, content) /\ Shorter(file, content)
    BY DEF CatInv, Typed, Allocated, ColumnsIn
  <2> QED BY <2>1, <2>2, PlacesRemain
<1> QED
  BY <1>1, <1>2, <1>3, <1>4
  DEF SoundNext, LoadCatalogs, FlushAll, CreateReturns, WriteBack, catalogVars

LEMMA WhatIsLeft ==
  ASSUME CatInv, [SoundNext]_catalogVars, ~ InsertRow
  PROVE  \/ todo' = <<>>
         \/ UNCHANGED <<content, todo, phase, made>>
         \/ BootstrapCatalogs
         \/ \E name \in Name, sizes \in Schema : SoundCreateTable(name, sizes)
<1>1. phase = "closed" => todo = <<>>
  BY DEF CatInv, Inserting
<1> QED
  BY <1>1
  DEF SoundNext, LoadCatalogs, FlushAll, CreateReturns, WriteBack, Restart, catalogVars

LEMMA HeadAndTail ==
  ASSUME CatInv, InsertRow, NEW head, head = Head(todo)
  PROVE  ToSet(todo) = {head} \cup ToSet(todo')
<1>1. todo \in Seq(Insertion) /\ todo # <<>> /\ todo' = Tail(todo)
  BY DEF CatInv, Typed, InsertRow
<1>2. PICK n \in Nat : n = Len(todo) /\ 1 <= n
  BY <1>1
<1>3. /\ DOMAIN todo = 1 .. n /\ DOMAIN todo' = 1 .. n - 1 /\ todo[1] = head
      /\ \A i \in 1 .. n - 1 : todo'[i] = todo[i + 1]
  BY <1>1, <1>2
<1>4. ASSUME NEW x \in ToSet(todo)
      PROVE  x = head \/ x \in ToSet(todo')
  <2>1. PICK i \in 1 .. n : x = todo[i]
    BY <1>3 DEF ToSet
  <2>2. CASE i # 1
    <3>1. i - 1 \in 1 .. n - 1 /\ (i - 1) + 1 = i
      BY <2>2
    <3>2. x = todo'[i - 1]
      BY <1>3, <2>1, <3>1
    <3> QED BY <1>3, <3>1, <3>2 DEF ToSet
  <2> QED BY <1>3, <2>1, <2>2
<1>5. ASSUME NEW x \in ToSet(todo')
      PROVE  x \in ToSet(todo)
  <2>1. PICK i \in 1 .. n - 1 : x = todo'[i]
    BY <1>3 DEF ToSet
  <2>2. i + 1 \in 1 .. n
    BY <1>2
  <2> QED BY <1>3, <2>1, <2>2 DEF ToSet
<1>6. head \in ToSet(todo)
  <2>1. 1 \in 1 .. n
    BY <1>2
  <2> QED BY <1>3, <2>1 DEF ToSet
<1> QED
  BY <1>4, <1>5, <1>6

LEMMA AllFitKept ==
  ASSUME CatInv, ColumnsIn, AllFit, [SoundNext]_catalogVars
  PROVE  AllFit'
<1>1. CASE ~ InsertRow
  BY <1>1, OnlyInserts DEF AllFit
<1>2. CASE InsertRow
  <2>1. PICK r, row, spot : GrowsBy(r, row, spot)
    BY <1>2, InsertGrows
  <2> QED BY <2>1 DEF AllFit, GrowsBy
<1> QED
  BY <1>1, <1>2

LEMMA SystemRows ==
  /\ SystemTables \subseteq TableRow
  /\ \A row \in SystemTables : row.id \in System
BY BootstrapElements DEF SystemTables

\* The rows a call inserts into db_tables.
LEMMA TablesInserted ==
  ASSUME NEW row \in TableRow, NEW sizes
  PROVE  \A insert \in CallInserts(row, sizes) : insert[1] = TablesRoot => insert[2] = row
BY ConstantFacts DEF CallInserts

LEMMA TablesInKept ==
  ASSUME CatInv, ColumnsIn, TablesIn, [SoundNext]_catalogVars
  PROVE  TablesIn'
<1>1. TablesMade \subseteq TablesMade' /\ SystemTables' = SystemTables
  BY MadeGrows DEF TablesMade, SystemTables
<1>2. TablesRoot \in System /\ TablesRoot # TypesRoot
  BY ConstantFacts
<1>3. CASE InsertRow
  <2>1. PICK r, row, spot :
          r \in System /\ row \in RowsFor(r) /\ Head(todo) = <<r, row>> /\ GrowsBy(r, row, spot)
    BY <1>3, InsertGrows
  <2>2. ToSet(todo) = {<<r, row>>} \cup ToSet(todo')
    BY <1>3, <2>1, HeadAndTail
  <2>3. UNCHANGED <<phase, made>>
    BY <1>3 DEF InsertRow
  <2>4. ASSUME r = TablesRoot
        PROVE  row \in TablesMade /\ (row \in SystemTables <=> phase = "bootstrap")
    <3>1. PICK insert : insert = <<r, row>>
      OBVIOUS
    <3>2. insert \in ToSet(todo) /\ insert[1] = TablesRoot /\ insert[2] = row
      BY <2>2, <2>4, <3>1
    <3> QED BY <3>2 DEF TablesIn
  <2>5. ASSUME NEW place \in Places(content', TablesRoot)
        PROVE  /\ RowAt(content', place) \in TablesMade'
               /\ phase' = "bootstrap" => RowAt(content', place) \in SystemTables
    BY <1>1, <1>2, <2>1, <2>3, <2>4 DEF GrowsBy, TablesIn
  <2>6. ASSUME NEW insert \in ToSet(todo'), insert[1] = TablesRoot
        PROVE  insert[2] \in TablesMade' /\ (insert[2] \in SystemTables <=> phase' = "bootstrap")
    BY <1>1, <2>2, <2>3, <2>6 DEF TablesIn
  <2> QED BY <1>1, <2>5, <2>6 DEF TablesIn
<1>4. CASE ~ InsertRow
  <2>1. ASSUME NEW place \in Places(content', TablesRoot)
        PROVE  /\ place \in Places(content, TablesRoot)
               /\ RowAt(content', place) = RowAt(content, place)
    BY <1>2, <1>4, OnlyInserts
  <2>2. \A place \in Places(content', TablesRoot) : RowAt(content', place) \in TablesMade'
    BY <1>1, <2>1 DEF TablesIn
  <2>3. ASSUME phase' = "bootstrap", NEW place \in Places(content', TablesRoot)
        PROVE  RowAt(content', place) \in SystemTables
    <3>1. CASE phase = "bootstrap"
      BY <2>1, <3>1 DEF TablesIn
    <3>2. CASE phase # "bootstrap"
      <4>1. BootstrapCatalogs
        BY <1>4, <2>3, <3>2
        DEF SoundNext, LoadCatalogs, FlushAll, CreateReturns, WriteBack, Restart,
            SoundCreateTable, CreateTable, CreateAs, catalogVars
      <4>2. \A p \in Page : content[p] = Unwritten
        BY <4>1, BootstrapCatalogsKeeps
      <4>3. place[1] \in Page /\ content[place[1]] # Unwritten
        BY <1>2, <2>1, PagesExist DEF Places, CatInv, Allocated
      <4> QED BY <4>2, <4>3
    <3> QED BY <3>1, <3>2
  <2>4. ASSUME NEW insert \in ToSet(todo'), insert[1] = TablesRoot
        PROVE  insert[2] \in TablesMade' /\ (insert[2] \in SystemTables <=> phase' = "bootstrap")
    <3>1. CASE todo' = <<>>
      <4>1. ToSet(<<>>) = {}
        BY DEF ToSet
      <4> QED BY <2>4, <3>1, <4>1
    <3>2. CASE UNCHANGED <<content, todo, phase, made>>
      BY <1>1, <2>4, <3>2 DEF TablesIn
    <3>3. CASE BootstrapCatalogs
      <4>1. phase' = "bootstrap" /\ insert \in ToSet(InsertBuiltinTypes \o InsertCatalogMetadata)
        BY <2>4, <3>3 DEF BootstrapCatalogs
      <4>2. PICK i \in System : insert \in CallInserts(SystemTable(i), SystemSchema[i])
        BY <1>2, <2>4, <4>1, BootstrapElements
      <4>3. insert[2] = SystemTable(i)
        BY <2>4, <4>2, BootstrapElements, TablesInserted
      <4> QED BY <4>1, <4>3 DEF SystemTables, TablesMade
    <3>4. CASE \E name \in Name, sizes \in Schema : SoundCreateTable(name, sizes)
      <4>1. PICK name \in Name, sizes \in Schema : SoundCreateTable(name, sizes)
        BY <3>4
      <4>2. PICK row \in TableRow :
              /\ row.id = FirstUserId + Len(made)
              /\ todo' = Inserts(TablesRoot, <<row>>) \o Inserts(AttributesRoot, Columns(row.id, sizes))
              /\ made' = Append(made, [row |-> row, sizes |-> sizes])
        BY <4>1, CreateTableKeeps
      <4>3. sizes \in Seq(Nat \ {0})
        BY CatalogAssumption
      <4>4. insert[2] = row
        BY <2>4, <4>2, <4>3, CallElements, TablesInserted
      <4>5. phase' = "create"
        BY <4>1 DEF SoundCreateTable, CreateTable, CreateAs
      <4>6. row \notin SystemTables
        <5>1. row.id \notin System
          BY <4>2, MadeGrows, ConstantFacts DEF FirstUserId, System
        <5> QED BY <5>1, SystemRows
      <4>7. row \in TablesMade'
        <5>1. PICK table \in [row : TableRow, sizes : Schema] :
                table.row = row /\ made' = Append(made, table)
          BY <4>2
        <5>2. Len(made) + 1 \in 1 .. Len(made') /\ made'[Len(made) + 1] = table
          <6> DEFINE M == [row : TableRow, sizes : Schema]
          <6>1. made \in Seq(M) /\ table \in M
            BY DEF CatInv, Typed
          <6> HIDE DEF M
          <6> QED BY <5>1, <6>1
        <5> QED BY <5>1, <5>2 DEF TablesMade
      <4> QED BY <4>4, <4>5, <4>6, <4>7
    <3> QED BY <1>4, <3>1, <3>2, <3>3, <3>4, WhatIsLeft
  <2> QED BY <1>1, <2>2, <2>3, <2>4 DEF TablesIn
<1> QED
  BY <1>3, <1>4

\* Two places are different if one is before the other.
LEMMA PlaceTyped ==
  ASSUME CatInv, NEW s \in System, NEW place \in Places(content, s)
  PROVE  /\ place[1] \in PagesOf(content, s) /\ place[1] \in Nat /\ place[2] \in Nat
         /\ ~ Before(place, place)
<1>1. place[1] \in PagesOf(content, s) /\ place[2] \in Nat
  BY DEF Places
<1>2. place[1] \in Nat
  BY <1>1, HeapPageRoom
<1> QED
  BY <1>1, <1>2 DEF Before

LEMMA InsertKeepsOrder ==
  ASSUME CatInv, ColumnsIn, InOrder, InsertRow
  PROVE  InOrder'
<1>1. PICK r, row, spot :
        /\ r \in System /\ row \in RowsFor(r) /\ Head(todo) = <<r, row>>
        /\ GrowsBy(r, row, spot) /\ FirstFit(r, row, spot) /\ Shrinks
  BY InsertGrows
<1>2. ToSet(todo) = {<<r, row>>} \cup ToSet(todo')
  BY <1>1, HeadAndTail
<1>3. CatInv' /\ AttributesRoot \in System /\ RowsFor(AttributesRoot) = ColumnRow
  BY InsertGrows, ConstantFacts DEF RowsFor
<1> DEFINE Old(place) == /\ place \in Places(content, AttributesRoot)
                         /\ RowAt(content', place) = RowAt(content, place)
           New(place) == r = AttributesRoot /\ place = spot /\ RowAt(content', place) = row
<1>4. \A place \in Places(content', AttributesRoot) : Old(place) \/ New(place)
  BY <1>1, <1>3 DEF GrowsBy
<1>5. ASSUME r = AttributesRoot, NEW a \in Places(content, AttributesRoot)
      PROVE  Earlier(RowAt(content, a), row) /\ RowAt(content, a) \in ColumnRow /\ row \in ColumnRow
  <2>1. PICK k \in DOMAIN todo : todo[k] = <<r, row>>
    BY <1>2 DEF ToSet
  <2>2. k \in 1 .. Len(todo)
    BY <2>1 DEF CatInv, Typed
  <2> QED BY <1>1, <1>3, <1>5, <2>1, <2>2, PlaceFacts DEF ColumnsIn
<1>6. ASSUME r = AttributesRoot, NEW b \in Places(content, AttributesRoot),
             row.table = RowAt(content, b).table,
             NEW q \in PagesOf(content, AttributesRoot), q < b[1]
      PROVE  content[q].room < RowAt(content, b).size
  <2>1. PICK insert : insert = <<r, row>>
    OBVIOUS
  <2>2. insert \in ToSet(todo) /\ insert[1] = AttributesRoot /\ insert[2] = row
    BY <1>2, <1>6, <2>1
  <2> QED BY <1>6, <2>2 DEF InOrder
<1>7. ASSUME NEW a \in Places(content', AttributesRoot), NEW b \in Places(content', AttributesRoot),
             Before(a, b), RowAt(content', a).table = RowAt(content', b).table,
             RowAt(content', b).position < RowAt(content', a).position
      PROVE  RowAt(content', a).size < RowAt(content', b).size
  <2>1. CASE Old(a) /\ Old(b)
    BY <1>7, <2>1 DEF InOrder
  <2>2. CASE Old(a) /\ New(b)
    <3>1. Earlier(RowAt(content, a), row) /\ RowAt(content, a) \in ColumnRow /\ row \in ColumnRow
      BY <1>5, <2>2
    <3>2. /\ RowAt(content, a).table = row.table /\ row.position < RowAt(content, a).position
          /\ RowAt(content, a).position \in Int /\ row.position \in Int
          /\ RowAt(content, a).table \in Int
      BY <1>7, <2>2, <3>1, ConstantFacts DEF ColumnRow, Id
    <3> QED BY <3>1, <3>2 DEF Earlier
  <2>3. CASE New(a) /\ Old(b)
    <3>1. b[1] \in PagesOf(content, AttributesRoot) /\ b[1] \in Nat /\ b[2] \in Nat
      BY <1>3, <2>3, PlaceTyped
    <3>2. spot[1] \in Nat /\ spot[2] \in Nat
      BY <1>3, <2>3, PageRoom DEF Places, CatInv, Typed, Allocated
    <3>3. spot[1] < b[1]
      <4>1. spot[1] = b[1] => b[2] < spot[2]
        BY <1>1, <2>3 DEF FirstFit
      <4> QED BY <1>7, <2>3, <3>1, <3>2, <4>1 DEF Before
    <3>4. spot[1] \in PagesOf(content, AttributesRoot) /\ row.size <= content[spot[1]].room
      <4>1. ~ (b[1] < spot[1])
        BY <3>1, <3>2, <3>3
      <4> QED BY <1>1, <2>3, <3>1, <4>1 DEF FirstFit
    <3>5. content[spot[1]].room < RowAt(content, b).size
      BY <1>6, <1>7, <2>3, <3>3, <3>4
    <3>6. content[spot[1]].room \in Nat /\ row.size \in Nat /\ RowAt(content, b).size \in Nat
      <4>1. row \in ColumnRow /\ RowAt(content, b) \in ColumnRow
        BY <1>5, <2>3
      <4>2. content[spot[1]].room \in Nat
        BY <1>3, <3>4, HeapPageRoom
      <4> QED BY <4>1, <4>2 DEF ColumnRow
    <3> QED BY <2>3, <3>4, <3>5, <3>6
  <2>4. CASE New(a) /\ New(b)
    <3>1. a[1] \in Nat /\ a[2] \in Nat /\ a = b
      BY <1>3, <2>4, PageRoom DEF Places, CatInv, Typed, Allocated
    <3> QED BY <1>7, <3>1 DEF Before
  <2> QED BY <1>4, <2>1, <2>2, <2>3, <2>4
<1>8. ASSUME NEW insert \in ToSet(todo'), NEW b \in Places(content', AttributesRoot),
             insert[1] = AttributesRoot, insert[2].table = RowAt(content', b).table,
             NEW q \in PagesOf(content', AttributesRoot), q < b[1]
      PROVE  content'[q].room < RowAt(content', b).size
  <2>1. b[1] \in PagesOf(content', AttributesRoot) /\ b[1] \in Nat /\ q \in Nat
        /\ content'[q].room \in Nat
    BY <1>3, PageRoom DEF Places, CatInv, Typed, Allocated
  <2>2. ~ (b[1] <= q)
    BY <1>8, <2>1
  <2>3. q \in PagesOf(content, AttributesRoot) /\ content'[q].room <= content[q].room
    BY <1>1, <1>3, <2>1, <2>2 DEF Shrinks
  <2>4. content[q].room \in Nat
    BY <1>3, <2>3, HeapPageRoom
  <2>5. CASE Old(b)
    <3>1. content[q].room < RowAt(content, b).size
      BY <1>2, <1>8, <2>3, <2>5 DEF InOrder
    <3>2. RowAt(content, b).size \in Nat
      BY <2>5, PlaceFacts DEF ColumnRow
    <3> QED BY <2>1, <2>3, <2>4, <2>5, <3>1, <3>2
  <2>6. CASE New(b)
    <3>1. content[q].room < row.size
      BY <1>1, <1>8, <2>3, <2>6 DEF FirstFit
    <3>2. row.size \in Nat
      BY <1>1, RowFacts
    <3> QED BY <2>1, <2>3, <2>4, <2>6, <3>1, <3>2
  <2> QED BY <1>4, <2>5, <2>6
<1> QED
  BY <1>7, <1>8 DEF InOrder

LEMMA OrderKept ==
  ASSUME CatInv, ColumnsIn, InOrder, [SoundNext]_catalogVars
  PROVE  InOrder'
<1>1. CASE ~ InsertRow
  <2>1. \A place \in Places(content', AttributesRoot) :
          /\ place \in Places(content, AttributesRoot)
          /\ RowAt(content', place) = RowAt(content, place)
    BY <1>1, OnlyInserts, ConstantFacts
  <2>2. ASSUME NEW insert \in ToSet(todo'), NEW b \in Places(content', AttributesRoot),
               insert[1] = AttributesRoot, insert[2].table = RowAt(content', b).table,
               NEW q \in PagesOf(content', AttributesRoot), q < b[1]
        PROVE  content'[q].room < RowAt(content', b).size
    <3>1. CASE todo' = <<>>
      <4>1. ToSet(<<>>) = {}
        BY DEF ToSet
      <4> QED BY <2>2, <3>1, <4>1
    <3>2. CASE UNCHANGED <<content, todo, phase, made>>
      BY <2>2, <3>2 DEF InOrder
    <3>3. CASE BootstrapCatalogs
      <4>1. \A p \in Page : content[p] = Unwritten
        BY <3>3, BootstrapCatalogsKeeps
      <4>2. b[1] \in Page /\ content[b[1]] # Unwritten
        BY <2>1, PagesExist, ConstantFacts DEF Places, CatInv, Allocated
      <4> QED BY <4>1, <4>2
    <3>4. CASE \E name \in Name, sizes \in Schema : SoundCreateTable(name, sizes)
      <4>1. PICK name \in Name, sizes \in Schema : SoundCreateTable(name, sizes)
        BY <3>4
      <4>2. PICK row \in TableRow :
              /\ row.id = FirstUserId + Len(made)
              /\ todo' = Inserts(TablesRoot, <<row>>) \o Inserts(AttributesRoot, Columns(row.id, sizes))
        BY <4>1, CreateTableKeeps
      <4>3. sizes \in Seq(Nat \ {0}) /\ row.id \in Id
        BY CatalogAssumption DEF TableRow
      <4>4. insert \in CallInserts(row, sizes)
        BY <2>2, <4>2, <4>3, CallElements
      <4>5. insert[2] \in ToSet(Columns(row.id, sizes))
        BY <2>2, <4>4, ConstantFacts DEF CallInserts
      <4>6. insert[2].table = row.id
        BY <4>3, <4>5, ColumnsRun
      <4>7. RowAt(content', b).table < row.id
        BY <2>1, <4>2, TablesBelow
      <4>8. row.id \in Int
        BY <4>3, ConstantFacts DEF Id
      <4> QED BY <2>2, <4>6, <4>7, <4>8
    <3> QED BY <1>1, <3>1, <3>2, <3>3, <3>4, WhatIsLeft
  <2> QED BY <2>1, <2>2 DEF InOrder
<1>2. CASE InsertRow
  BY <1>2, InsertKeepsOrder
<1> QED
  BY <1>1, <1>2

\* The file only grows, and so does the pool until the process ends.
LEMMA FileGrows ==
  ASSUME CatInv, ColumnsIn, [SoundNext]_catalogVars
  PROVE  Older(file, file') /\ Shorter(file, file')
<1>1. content \in Disk /\ file \in Disk
  BY DEF CatInv, Typed
<1>2. Older(file, file) /\ Shorter(file, file)
  BY <1>1, ShorterSame DEF Older
<1>3. Older(file, content) /\ Shorter(file, content)
  BY DEF CatInv, Allocated, ColumnsIn
<1>4. CASE file' = file
  BY <1>2, <1>4
<1>5. CASE FlushAll
  BY <1>3, <1>5 DEF FlushAll
<1>6. CASE \E w \in Page : WriteBack(w)
  <2>1. PICK w \in Page : file' = [file EXCEPT ![w] = content[w]]
    BY <1>6 DEF WriteBack
  <2>2. \A p \in Page : file'[p] = IF p = w THEN content[w] ELSE file[p]
    BY <1>1, <2>1 DEF Disk
  <2>3. Older(file, file')
    BY <1>3, <2>2 DEF Older
  <2>4. Shorter(file, file')
    BY <1>2, <1>3, <2>2 DEF Shorter
  <2> QED BY <2>3, <2>4
<1>7. CASE BootstrapCatalogs
  <2>1. \A p \in Page : file[p] = Unwritten /\ file'[p].rows = <<>>
    BY <1>7, BootstrapCatalogsKeeps
  <2>2. Len(<<>>) = 0
    OBVIOUS
  <2> QED BY <2>1, <2>2, PageFacts DEF Older, Shorter
<1> QED
  BY <1>4, <1>5, <1>6, <1>7
  DEF SoundNext, LoadCatalogs, InsertRow, SoundCreateTable, CreateTable, CreateAs,
      CreateReturns, Restart, catalogVars

LEMMA PoolGrows ==
  ASSUME CatInv, ColumnsIn, [SoundNext]_catalogVars, ~ Restart
  PROVE  Older(content, content') /\ Shorter(content, content')
<1>1. Older(content, content) /\ Shorter(content, content)
  BY ShorterSame DEF CatInv, Typed, Older
<1>2. CASE content' = content
  BY <1>1, <1>2
<1>3. CASE InsertRow
  BY <1>3, InsertGrows DEF GrowsBy
<1>4. CASE \E name \in Name, sizes \in Schema : SoundCreateTable(name, sizes)
  BY <1>4, CreateTableStays
<1>5. CASE BootstrapCatalogs
  <2>1. \A p \in Page : content[p] = Unwritten /\ content'[p].rows = <<>>
    BY <1>5, BootstrapCatalogsKeeps
  <2>2. Len(<<>>) = 0
    OBVIOUS
  <2> QED BY <2>1, <2>2, PageFacts DEF Older, Shorter
<1> QED
  BY <1>2, <1>3, <1>4, <1>5
  DEF SoundNext, LoadCatalogs, FlushAll, CreateReturns, WriteBack, catalogVars

LEMMA WhatWasThere ==
  ASSUME CatInv, ColumnsIn, [SoundNext]_catalogVars
  PROVE  /\ \A row, sizes : HasAll(file, row, sizes) => HasAll(file', row, sizes)
         /\ ~ Restart =>
              /\ \A row, sizes : HasAll(content, row, sizes) => HasAll(content', row, sizes)
              /\ \A root \in System : \A row : Has(content, root, row) => Has(content', root, row)
<1>1. CatInv'
  BY CatalogNextInv
<1>2. /\ content \in Disk /\ file \in Disk /\ LinkedUp(content) /\ LinkedUp(file)
      /\ content' \in Disk /\ file' \in Disk /\ LinkedUp(content') /\ LinkedUp(file')
  BY <1>1 DEF CatInv, Typed, Allocated
<1>3. \A row, sizes : HasAll(file, row, sizes) => HasAll(file', row, sizes)
  BY <1>2, FileGrows, HasRemains, ConstantFacts
<1>4. ASSUME ~ Restart
      PROVE  /\ \A row, sizes : HasAll(content, row, sizes) => HasAll(content', row, sizes)
             /\ \A root \in System : \A row : Has(content, root, row) => Has(content', root, row)
  BY <1>2, <1>4, PoolGrows, HasRemains, ConstantFacts
<1> QED
  BY <1>3, <1>4

\* A row that was to be inserted is inserted.
LEMMA ComingKept ==
  ASSUME CatInv, ColumnsIn, InsertRow, NEW root \in System, NEW x, Coming(root, x)
  PROVE  Has(content', root, x) \/ <<root, x>> \in ToSet(todo')
<1>1. PICK r, row, spot :
        r \in System /\ row \in RowsFor(r) /\ Head(todo) = <<r, row>> /\ GrowsBy(r, row, spot)
  BY InsertGrows
<1>2. ToSet(todo) = {<<r, row>>} \cup ToSet(todo')
  BY <1>1, HeadAndTail
<1>3. Has(content', r, row)
  BY <1>1 DEF GrowsBy, Has
<1>4. Has(content, root, x) => Has(content', root, x)
  <2>1. ~ Restart
    <3>1. Restart => content' = file /\ todo' = <<>> /\ phase' = "closed"
      BY DEF Restart
    <3>2. phase' = phase /\ phase # "closed"
      BY DEF InsertRow, CatInv, Inserting
    <3> QED BY <3>1, <3>2
  <2> QED BY <2>1, WhatWasThere DEF SoundNext
<1>5. CASE <<root, x>> = <<r, row>>
  BY <1>3, <1>5
<1> QED
  BY <1>2, <1>4, <1>5 DEF Coming

LEMMA AllComingKept ==
  ASSUME CatInv, ColumnsIn, [SoundNext]_catalogVars,
         InsertRow \/ UNCHANGED <<content, todo>>,
         NEW row, NEW sizes, AllComing(row, sizes)
  PROVE  AllComing(row, sizes)'
<1>1. TablesRoot \in System /\ AttributesRoot \in System
  BY ConstantFacts
<1>2. ASSUME NEW root \in System, NEW x, Coming(root, x)
      PROVE  Has(content', root, x) \/ <<root, x>> \in ToSet(todo')
  BY <1>2, ComingKept DEF Coming
<1> QED
  BY <1>1, <1>2 DEF AllComing, Coming

\* When nothing is left to insert, everything is there.
LEMMA AllCame ==
  ASSUME todo = <<>>, NEW row, NEW sizes, AllComing(row, sizes)
  PROVE  HasAll(content, row, sizes)
<1>1. ToSet(todo) = {}
  BY DEF ToSet
<1> QED
  BY <1>1 DEF AllComing, Coming, HasAll

LEMMA CallComing ==
  ASSUME NEW row, NEW sizes, CallInserts(row, sizes) \subseteq ToSet(todo')
  PROVE  AllComing(row, sizes)'
BY DEF AllComing, Coming, CallInserts

LEMMA KeptInKept ==
  ASSUME CatInv, ColumnsIn, KeptIn, [SoundNext]_catalogVars
  PROVE  KeptIn'
<1>1. /\ \A row, sizes : HasAll(file, row, sizes) => HasAll(file', row, sizes)
      /\ ~ Restart => \A row, sizes : HasAll(content, row, sizes) => HasAll(content', row, sizes)
  BY WhatWasThere
<1>2. /\ Len(made) \in Nat
      /\ \A i \in 1 .. Len(made) : i \in 1 .. Len(made') /\ made'[i] = made[i]
      /\ \A i \in 1 .. Len(made) : made[i].row.id = TypesRoot + i
      /\ \A i \in 1 .. Len(made') : made'[i].row.id = TypesRoot + i
      /\ flushed \subseteq kept /\ kept \subseteq {made[i].row.id : i \in 1 .. Len(made)}
  BY MadeGrows, CatalogNextInv DEF CatInv, Typed
<1>3. ASSUME NEW i \in 1 .. Len(made'), made'[i].row.id \in kept
      PROVE  i \in 1 .. Len(made) /\ made'[i] = made[i] /\ made[i].row.id \in kept
  <2>1. PICK j \in 1 .. Len(made) : made'[i].row.id = made[j].row.id
    BY <1>2, <1>3
  <2>2. TypesRoot + i = TypesRoot + j
    BY <1>2, <2>1
  <2>3. i = j
    BY <2>2, ConstantFacts
  <2> QED BY <1>2, <1>3, <2>3
<1>4. ASSUME NEW i \in 1 .. Len(made'), made'[i].row.id \in kept'
      PROVE  HasAll(content', made'[i].row, made'[i].sizes)
  <2>1. CASE Restart
    <3>1. content' = file /\ kept' = flushed
      BY <2>1 DEF Restart
    <3> QED BY <1>2, <1>3, <1>4, <3>1 DEF KeptIn
  <2>2. CASE ~ Restart /\ made'[i].row.id \in kept
    BY <1>1, <1>3, <2>2 DEF KeptIn
  <2>3. CASE ~ Restart /\ made'[i].row.id \notin kept
    <3>1. CreateReturns
      BY <1>4, <2>3
      DEF SoundNext, LoadCatalogs, BootstrapCatalogs, InsertRow, FlushAll,
          SoundCreateTable, CreateTable, CreateAs, WriteBack, catalogVars
    <3>2. /\ phase = "create" /\ todo = <<>> /\ UNCHANGED <<content, made>>
          /\ made'[i].row.id = Last(made).row.id
      BY <1>4, <2>3, <3>1 DEF CreateReturns
    <3>3. i = Len(made)
      <4>1. Len(made) \in 1 .. Len(made) /\ Last(made) = made[Len(made)]
        BY <1>2, <3>2 DEF Last, CatInv, FirstPages
      <4>2. TypesRoot + i = TypesRoot + Len(made)
        BY <1>2, <3>2, <4>1
      <4> QED BY <1>2, <4>2, ConstantFacts
    <3> QED BY <3>2, <3>3, AllCame DEF KeptIn
  <2> QED BY <2>1, <2>2, <2>3
<1>5. ASSUME NEW i \in 1 .. Len(made'), made'[i].row.id \in flushed'
      PROVE  HasAll(file', made'[i].row, made'[i].sizes)
  <2>1. CASE FlushAll
    <3>1. file' = content /\ flushed' = kept
      BY <2>1 DEF FlushAll
    <3> QED BY <1>3, <1>5, <3>1 DEF KeptIn
  <2>2. CASE ~ FlushAll
    <3>1. flushed' = flushed
      BY <2>2
      DEF SoundNext, LoadCatalogs, BootstrapCatalogs, InsertRow, SoundCreateTable,
          CreateTable, CreateAs, CreateReturns, WriteBack, Restart, catalogVars
    <3> QED BY <1>1, <1>2, <1>3, <1>5, <3>1 DEF KeptIn
  <2> QED BY <2>1, <2>2
<1>6. ASSUME phase' = "create"
      PROVE  AllComing(made[Len(made)].row, made[Len(made)].sizes)'
  <2>1. CASE \E name \in Name, sizes \in Schema : SoundCreateTable(name, sizes)
    <3>1. PICK name \in Name, sizes \in Schema : SoundCreateTable(name, sizes)
      BY <2>1
    <3>2. PICK row \in TableRow :
            /\ todo' = Inserts(TablesRoot, <<row>>) \o Inserts(AttributesRoot, Columns(row.id, sizes))
            /\ made' = Append(made, [row |-> row, sizes |-> sizes])
      BY <3>1, CreateTableKeeps
    <3>3. PICK table \in [row : TableRow, sizes : Schema] :
            table.row = row /\ table.sizes = sizes /\ made' = Append(made, table)
      BY <3>2
    <3>4. made'[Len(made')] = table
      <4> DEFINE M == [row : TableRow, sizes : Schema]
      <4>1. made \in Seq(M) /\ table \in M
        BY DEF CatInv, Typed
      <4> HIDE DEF M
      <4>2. Len(made') = Len(made) + 1 /\ made'[Len(made) + 1] = table
        BY <3>3, <4>1
      <4> QED BY <4>2
    <3>5. sizes \in Seq(Nat \ {0})
      BY CatalogAssumption
    <3>6. CallInserts(row, sizes) \subseteq ToSet(todo')
      BY <3>2, <3>5, CallElements
    <3>7. AllComing(row, sizes)'
      BY <3>6, CallComing
    <3> QED BY <3>3, <3>4, <3>7 DEF AllComing, Coming
  <2>2. CASE ~ \E name \in Name, sizes \in Schema : SoundCreateTable(name, sizes)
    <3>1. phase = "create" /\ made' = made /\ (InsertRow \/ UNCHANGED <<content, todo>>)
      BY <1>6, <2>2
      DEF SoundNext, LoadCatalogs, BootstrapCatalogs, InsertRow, FlushAll, CreateReturns,
          WriteBack, Restart, catalogVars
    <3>2. PICK row, sizes : row = made[Len(made)].row /\ sizes = made[Len(made)].sizes
      OBVIOUS
    <3>3. AllComing(row, sizes)
      BY <3>1, <3>2 DEF KeptIn
    <3>4. AllComing(row, sizes)'
      BY <3>1, <3>3, AllComingKept
    <3> QED BY <3>1, <3>2, <3>4 DEF AllComing, Coming
  <2> QED BY <2>1, <2>2
<1>7. ASSUME phase' = "bootstrap", NEW i \in System
      PROVE  AllComing(SystemTable(i), SystemSchema[i])'
  <2>1. CASE BootstrapCatalogs
    <3>1. CallInserts(SystemTable(i), SystemSchema[i]) \subseteq ToSet(todo')
      BY <2>1, BootstrapElements DEF BootstrapCatalogs
    <3> QED BY <3>1, CallComing
  <2>2. CASE ~ BootstrapCatalogs
    <3>1. phase = "bootstrap" /\ (InsertRow \/ UNCHANGED <<content, todo>>)
      BY <1>7, <2>2
      DEF SoundNext, LoadCatalogs, SoundCreateTable, CreateTable, CreateAs, InsertRow,
          FlushAll, CreateReturns, WriteBack, Restart, catalogVars
    <3> QED BY <3>1, AllComingKept DEF KeptIn
  <2> QED BY <2>1, <2>2
<1>8. ASSUME booted', NEW i \in System
      PROVE  HasAll(file', SystemTable(i), SystemSchema[i])
  <2>1. CASE booted
    BY <1>1, <2>1 DEF KeptIn
  <2>2. CASE ~ booted
    <3>1. FlushAll
      BY <1>8, <2>2
      DEF SoundNext, LoadCatalogs, BootstrapCatalogs, InsertRow, SoundCreateTable,
          CreateTable, CreateAs, CreateReturns, WriteBack, Restart, catalogVars
    <3>2. phase = "bootstrap" /\ todo = <<>> /\ file' = content
      BY <1>8, <2>2, <3>1 DEF FlushAll
    <3> QED BY <3>2, AllCame DEF KeptIn
  <2> QED BY <2>1, <2>2
<1> QED
  BY <1>4, <1>5, <1>6, <1>7, <1>8 DEF KeptIn

LEMMA InitTables ==
  ASSUME CatalogInit
  PROVE  TableInv
<1>1. CatInv /\ ColumnsIn
  BY CatalogInitInv, InitColumns
<1>2. \A r \in System : Places(content, r) = {}
  <2>1. \A r \in System : content[r] = Unwritten
    BY ConstantFacts DEF CatalogInit
  <2>2. ASSUME NEW r \in System
        PROVE  PagesOf(content, r) = {}
    <3>1. content[r] = Unwritten
      BY <2>1
    <3> QED BY <3>1, PagesLeast
  <2> QED BY <2>2 DEF Places
<1>3. todo = <<>> /\ ToSet(todo) = {} /\ phase = "closed" /\ ~ booted /\ made = <<>>
  BY DEF CatalogInit, ToSet
<1>4. TablesIn /\ AllFit /\ InOrder
  BY <1>2, <1>3, ConstantFacts DEF TablesIn, AllFit, InOrder
<1>5. KeptIn
  BY <1>3 DEF KeptIn
<1> QED
  BY <1>1, <1>4, <1>5 DEF TableInv

\* Where every call found the catalog whole, rows of calls that returned are there, in the
\* order of their inserts as far as first fit keeps it.
THEOREM TableInvariant == CatalogSpec => [](sound => TableInv)
<1>1. CatalogInit => TableInv
  BY InitTables
<1>2. TableInv /\ [SoundNext]_catalogVars => TableInv'
  BY CatalogNextInv, CatalogNextColumns, AllFitKept, TablesInKept, OrderKept, KeptInKept
  DEF TableInv
<1>3. (sound => TableInv) /\ [CatalogNext]_catalogVars => (sound => TableInv)'
  BY <1>2, SoundStep
<1> QED
  BY <1>1, <1>3, PTL DEF CatalogSpec

----------------------------------------------------------------------------
(* What the lookups find.                                                  *)

LEMMA ElementsListed ==
  ASSUME NEW list, NEW S, list \in Seq(S), NEW disk, NEW places, NEW at,
         Lists(at, list, disk, places)
  PROVE  ToSet(list) = {RowAt(disk, place) : place \in places}
<1>1. DOMAIN list = 1 .. Len(list)
  OBVIOUS
<1> QED
  BY <1>1 DEF Lists, ToSet

\* Lookup() finds the row of the first place that has the name.
LEMMA TableFound ==
  ASSUME NEW disk, LinkedUp(disk), NEW S, NEW name,
         \A p \in PagesOf(disk, TablesRoot) : disk[p].rows \in Seq(S)
  PROVE  \/ /\ Lookup(disk, name) = NoTable
            /\ \A place \in Places(disk, TablesRoot) : RowAt(disk, place).name # name
         \/ \E place \in Places(disk, TablesRoot) :
              /\ Lookup(disk, name) = RowAt(disk, place) /\ RowAt(disk, place).name = name
              /\ \A other \in Places(disk, TablesRoot) :
                   RowAt(disk, other).name = name => other = place \/ Before(place, other)
<1>1. TablesRoot \in System
  BY ConstantFacts
<1>2. PICK rows \in Seq(S) : rows = RowsOf(disk, TablesRoot)
  BY <1>1, RowsListed
<1>3. PICK at : Lists(at, rows, disk, Places(disk, TablesRoot))
  BY <1>1, <1>2, RowsListed
<1>4. PICK found : found = {i \in DOMAIN rows : rows[i].name = name}
  OBVIOUS
<1>5. /\ found \in SUBSET Nat
      /\ \A i : i \in found <=> i \in 1 .. Len(rows) /\ rows[i].name = name
  BY <1>4
<1>6. Lookup(disk, name)
        = IF found = {} THEN NoTable ELSE rows[CHOOSE i \in found : \A j \in found : i <= j]
  BY <1>2, <1>4 DEF Lookup
<1>7. CASE found = {}
  <2>1. Lookup(disk, name) = NoTable
    BY <1>6, <1>7
  <2>2. ASSUME NEW place \in Places(disk, TablesRoot)
        PROVE  RowAt(disk, place).name # name
    <3>1. PICK k \in 1 .. Len(rows) : at[k] = place
      BY <1>3 DEF Lists
    <3>2. rows[k] = RowAt(disk, place) /\ k \notin found
      BY <1>3, <1>7, <3>1 DEF Lists
    <3> QED BY <1>5, <3>2
  <2> QED BY <2>1, <2>2
<1>8. CASE found # {}
  <2>1. \E i \in found : \A j \in found : i <= j
    BY <1>5, <1>8, LeastOf
  <2>2. PICK i \in found : /\ i = CHOOSE k \in found : \A j \in found : k <= j
                           /\ \A j \in found : i <= j
    BY <2>1
  <2>3. i \in 1 .. Len(rows) /\ rows[i].name = name /\ Lookup(disk, name) = rows[i]
    BY <1>5, <1>6, <1>8, <2>2
  <2>4. PICK place \in Places(disk, TablesRoot) : place = at[i] /\ rows[i] = RowAt(disk, place)
    BY <1>3, <2>3 DEF Lists
  <2>5. ASSUME NEW other \in Places(disk, TablesRoot), RowAt(disk, other).name = name
        PROVE  other = place \/ Before(place, other)
    <3>1. PICK k \in 1 .. Len(rows) : at[k] = other
      BY <1>3 DEF Lists
    <3>2. rows[k] = RowAt(disk, other)
      BY <1>3, <3>1 DEF Lists
    <3>3. i <= k
      BY <1>5, <2>2, <2>5, <3>2
    <3>4. i = k \/ i < k
      BY <2>3, <3>3
    <3> QED BY <1>3, <2>3, <2>4, <3>1, <3>4 DEF Lists
  <2> QED BY <2>3, <2>4, <2>5
<1> QED
  BY <1>7, <1>8

\* The heaps in the pool are listed by scans.
LEMMA PoolRows ==
  ASSUME CatInv
  PROVE  /\ LinkedUp(content)
         /\ \A r \in System : \A p \in PagesOf(content, r) : content[p].rows \in Seq(RowsFor(r))
         /\ RowsFor(TablesRoot) = TableRow /\ RowsFor(AttributesRoot) = ColumnRow
         /\ \A r \in System :
              ToSet(RowsOf(content, r)) = {RowAt(content, place) : place \in Places(content, r)}
<1>1. /\ LinkedUp(content)
      /\ \A r \in System : \A p \in PagesOf(content, r) : content[p].rows \in Seq(RowsFor(r))
  BY DEF CatInv, Allocated, Apart
<1>2. ASSUME NEW r \in System
      PROVE  ToSet(RowsOf(content, r)) = {RowAt(content, place) : place \in Places(content, r)}
  <2>1. PICK S : S = RowsFor(r)
    OBVIOUS
  <2>2. /\ RowsOf(content, r) \in Seq(S)
        /\ \E at : Lists(at, RowsOf(content, r), content, Places(content, r))
    BY <1>1, <2>1, RowsListed
  <2> QED BY <2>2, ElementsListed
<1> QED
  BY <1>1, <1>2, ConstantFacts DEF RowsFor

\* The row of a table that CreateTable() returned is there, unless it fits no page.
LEMMA TableThere ==
  ASSUME TableInv, NEW i \in 1 .. Len(made), made[i].row.id \in kept
  PROVE  made[i].row \in ToSet(RowsOf(content, TablesRoot)) <=> Fits(made[i].row)
<1>1. ToSet(RowsOf(content, TablesRoot))
        = {RowAt(content, place) : place \in Places(content, TablesRoot)}
  BY PoolRows, ConstantFacts DEF TableInv
<1>2. Has(content, TablesRoot, made[i].row)
  BY DEF TableInv, KeptIn, HasAll
<1>3. \A place \in Places(content, TablesRoot) : Fits(RowAt(content, place))
  BY ConstantFacts DEF TableInv, AllFit
<1> QED
  BY <1>1, <1>2, <1>3 DEF Has

\* Its columns are those given that fit a page, each once, in the order of first fit.
LEMMA ColumnsThere ==
  ASSUME TableInv, NEW i \in 1 .. Len(made), made[i].row.id \in kept
  PROVE  Described(GetColumns(content, made[i].row.id), made[i])
<1>1. PICK id : id = made[i].row.id
  OBVIOUS
<1>2. LinkedUp(content)
      /\ \A p \in PagesOf(content, AttributesRoot) : content[p].rows \in Seq(ColumnRow)
  BY PoolRows, ConstantFacts DEF TableInv
<1>3. PICK columns \in Seq(ColumnRow) : columns = GetColumns(content, id)
  BY <1>2, ColumnsListed
<1>4. PICK at : Lists(at, columns, content, ColumnPlaces(content, id))
  BY <1>2, <1>3, ColumnsListed
<1>5. /\ ToSet(columns) \subseteq ToSet(Columns(id, made[i].sizes))
      /\ IsInjective(columns)
  BY <1>1, <1>3, ColumnsOfOne DEF TableInv
<1>6. ToSet(columns) = {RowAt(content, place) : place \in ColumnPlaces(content, id)}
  BY <1>4, ElementsListed
<1>7. ASSUME NEW c \in ToSet(columns)
      PROVE  Fits(c)
  <2>1. PICK place \in ColumnPlaces(content, id) : c = RowAt(content, place)
    BY <1>6
  <2> QED BY <2>1, ConstantFacts DEF ColumnPlaces, TableInv, AllFit
<1>8. ASSUME NEW c \in ToSet(Columns(id, made[i].sizes)), Fits(c)
      PROVE  c \in ToSet(columns)
  <2>1. Has(content, AttributesRoot, c)
    BY <1>1 DEF TableInv, KeptIn, HasAll
  <2>2. PICK place \in Places(content, AttributesRoot) : RowAt(content, place) = c
    BY <1>8, <2>1 DEF Has
  <2>3. c.table = id
    <3>1. PICK sizes : sizes = made[i].sizes
      OBVIOUS
    <3>2. PICK p \in DOMAIN Columns(id, sizes) : c = Columns(id, sizes)[p]
      BY <3>1 DEF ToSet
    <3> QED BY <3>2 DEF Columns
  <2> QED BY <1>6, <2>2, <2>3 DEF ColumnPlaces
<1>9. ToSet(columns) = {c \in ToSet(Columns(made[i].row.id, made[i].sizes)) : Fits(c)}
  BY <1>1, <1>5, <1>7, <1>8
<1>10. ASSUME NEW k \in DOMAIN columns, NEW l \in DOMAIN columns, k < l,
              columns[l].position < columns[k].position
       PROVE  columns[k].size < columns[l].size
  <2>1. k \in 1 .. Len(columns) /\ l \in 1 .. Len(columns)
    OBVIOUS
  <2>2. /\ at[k] \in ColumnPlaces(content, id) /\ columns[k] = RowAt(content, at[k])
        /\ at[l] \in ColumnPlaces(content, id) /\ columns[l] = RowAt(content, at[l])
        /\ Before(at[k], at[l])
    BY <1>4, <1>10, <2>1 DEF Lists
  <2> QED BY <1>10, <2>2 DEF ColumnPlaces, TableInv, InOrder
<1> QED
  BY <1>1, <1>3, <1>5, <1>9, <1>10 DEF Described

\* A name that one call used leads to its table, or to a system table.
LEMMA NameFound ==
  ASSUME TableInv, NEW i \in 1 .. Len(made), made[i].row.id \in kept, Fits(made[i].row),
         Named(made[i].row.name) = {i}
  PROVE  LET found == Lookup(content, made[i].row.name)
         IN  found = made[i].row \/ found.id \in System
<1>1. PICK name : name = made[i].row.name
  OBVIOUS
<1>2. PICK place \in Places(content, TablesRoot) : RowAt(content, place) = made[i].row
  BY DEF TableInv, KeptIn, HasAll, Has
<1>3. LinkedUp(content) /\ \A p \in PagesOf(content, TablesRoot) : content[p].rows \in Seq(TableRow)
  BY PoolRows, ConstantFacts DEF TableInv
<1>4. PICK first \in Places(content, TablesRoot) :
        Lookup(content, name) = RowAt(content, first) /\ RowAt(content, first).name = name
  BY <1>1, <1>2, <1>3, TableFound
<1>5. RowAt(content, first) \in TablesMade
  BY DEF TableInv, TablesIn
<1>6. CASE RowAt(content, first) \in SystemTables
  BY <1>1, <1>4, <1>6, BootstrapElements DEF SystemTables
<1>7. CASE RowAt(content, first) \notin SystemTables
  <2>1. PICK j \in 1 .. Len(made) : RowAt(content, first) = made[j].row
    BY <1>5, <1>7 DEF TablesMade
  <2>2. j \in Named(name)
    BY <1>4, <2>1 DEF Named
  <2> QED BY <1>1, <1>4, <2>1, <2>2
<1> QED
  BY <1>6, <1>7

\* Where every call found the catalog whole, a table that CreateTable() returned, now or
\* before the last flush_all(), has its row and its columns, and its name leads to it, or
\* to a system table, if no other call used it.
THEOREM TablesAreFound == CatalogSpec => []TablesResolve
<1>1. ASSUME TableInv, NEW id \in kept
      PROVE  \E i \in 1 .. Len(made) : id - TypesRoot = i /\ made[i].row.id = id
  <2>1. PICK i \in 1 .. Len(made) : made[i].row.id = id
    BY <1>1 DEF TableInv, CatInv, Typed
  <2>2. id = TypesRoot + i
    BY <1>1, <2>1, MadeRows DEF TableInv, CatInv
  <2>3. id - TypesRoot = i
    BY <2>2, ConstantFacts
  <2> QED BY <2>1, <2>3
<1>2. ASSUME TableInv, NEW id \in kept
      PROVE  /\ Made(id).row \in ToSet(RowsOf(content, TablesRoot)) <=> Fits(Made(id).row)
             /\ Described(GetColumns(content, id), Made(id))
             /\ (Fits(Made(id).row) /\ Named(Made(id).row.name) = {id - TypesRoot})
                  => LET found == Lookup(content, Made(id).row.name)
                     IN  found = Made(id).row \/ found.id \in System
  <2>1. PICK i \in 1 .. Len(made) : id - TypesRoot = i /\ made[i].row.id = id
    BY <1>1, <1>2
  <2>2. Made(id) = made[i]
    BY <2>1 DEF Made
  <2> QED BY <1>2, <2>1, <2>2, TableThere, ColumnsThere, NameFound
<1>3. (sound => TableInv) => TablesResolve
  BY <1>2 DEF TablesResolve
<1> QED
  BY <1>3, TableInvariant, PTL

----------------------------------------------------------------------------
(* Pages of db_tables.  The three rows that the catalog inserts first are   *)
(* on its first page; a page that links to another one had no room for a    *)
(* row, and the file has that page at a moment when it had no less room.    *)

\* What an insert of row into heap r makes of page q of db_tables.
TakesRow(q, row) ==
  /\ row.size <= content[q].room /\ content'[q].room = content[q].room - row.size
  /\ content'[q].rows = Append(content[q].rows, row) /\ content'[q].next = content[q].next
  /\ \A p \in PagesOf(content, TablesRoot) : p < q => content[p].room < row.size
GetsLink(q, row) ==
  /\ content'[q].room = content[q].room /\ content'[q].rows = content[q].rows
  /\ \A p \in PagesOf(content, TablesRoot) : content[p].room < row.size
PageAfter(q, r, row) ==
  \/ q \in PagesOf(content, TablesRoot) /\ content'[q] = content[q]
  \/ q \in PagesOf(content, TablesRoot) /\ r = TablesRoot /\ (TakesRow(q, row) \/ GetsLink(q, row))
  \/ content[q] = Unwritten /\ content'[q].next = NoPage

LEMMA TablesPages ==
  ASSUME CatInv, InsertRow
  PROVE  \E r, row :
           /\ r \in System /\ row \in RowsFor(r) /\ Head(todo) = <<r, row>>
           /\ \A q \in PagesOf(content', TablesRoot) : PageAfter(q, r, row)
<1>1. PICK r \in System : \E row \in RowsFor(r), p \in PagesOf(content, r) :
        /\ Head(todo) = <<r, row>>
        /\ AddsRow(r, row, p) \/ \E e \in HeapPage : AddsPageFor(r, row, e, p)
  BY InsertRowAdds
<1>2. PICK row \in RowsFor(r), p \in PagesOf(content, r) :
        /\ Head(todo) = <<r, row>>
        /\ AddsRow(r, row, p) \/ \E e \in HeapPage : AddsPageFor(r, row, e, p)
  BY <1>1
<1>3. TablesRoot \in System
  BY ConstantFacts
<1>4. \A q \in PagesOf(content, TablesRoot) : q = p => r = TablesRoot
  BY <1>2, <1>3 DEF CatInv, Apart
<1>5. row.size \in Nat /\ \A s \in System : \A q \in PagesOf(content, s) : content[q].room \in Nat /\ q \in Page
  BY RowFacts, HeapPageRoom
<1>6. p \in Page /\ content[p] \in HeapPage /\ content[p].rows \in Seq(RowsFor(r))
  BY HeapPageRoom DEF CatInv, Apart
<1>7. ASSUME NEW q \in PagesOf(content', TablesRoot)
      PROVE  PageAfter(q, r, row)
  <2>1. CASE AddsRow(r, row, p)
    <3>1. /\ q \in PagesOf(content, TablesRoot) /\ q \in Page
          /\ content'[q] = IF q = p THEN WithRow(content[p], row) ELSE content[q]
      BY <1>2, <1>3, <1>5, <2>1, AddsRowKeeps
    <3>2. CASE q # p
      BY <3>1, <3>2 DEF PageAfter
    <3>3. CASE q = p
      <4>1. r = TablesRoot /\ Accepts(content[p], row)
            /\ \A x \in PagesOf(content, r) : x < p => ~ Accepts(content[x], row)
        BY <1>4, <2>1, <3>1, <3>3 DEF AddsRow
      <4>2. /\ WithRow(content[p], row).rows = Append(content[p].rows, row)
            /\ WithRow(content[p], row).next = content[p].next
            /\ WithRow(content[p], row).room = content[p].room - row.size
        BY <1>2, <1>6, <4>1, PageTakesRow
      <4>3. row.size <= content[p].room
            /\ \A x \in PagesOf(content, TablesRoot) : x < p => content[x].room < row.size
        BY <1>5, <4>1 DEF Accepts
      <4> QED BY <3>1, <3>3, <4>1, <4>2, <4>3 DEF PageAfter, TakesRow
    <3> QED BY <3>2, <3>3
  <2>2. CASE \E e \in HeapPage : AddsPageFor(r, row, e, p)
    <3>1. PICK e \in HeapPage : AddsPageFor(r, row, e, p)
      BY <2>2
    <3>2. AddsPage(r, e, p) /\ e.next = NoPage
          /\ \A x \in PagesOf(content, r) : ~ Accepts(content[x], row)
      BY <3>1 DEF AddsPageFor, AddsPage
    <3>3. PICK n \in Page : n = nextPageId /\ content[n] = Unwritten
      BY <1>2, <3>2, AddsPageKeeps
    <3>4. /\ q \in PagesOf(content, TablesRoot) \/ q = n
          /\ \A x \in Page : content'[x] = IF x = n THEN e
                               ELSE IF x = p THEN [content[p] EXCEPT !.next = n]
                               ELSE content[x]
      BY <1>2, <1>3, <3>2, <3>3, AddsPageKeeps
    <3>5. CASE q = n
      BY <3>2, <3>3, <3>4, <3>5 DEF PageAfter
    <3>6. CASE q # n /\ q # p
      BY <1>3, <1>5, <3>4, <3>6 DEF PageAfter
    <3>7. CASE q # n /\ q = p
      <4>1. q \in PagesOf(content, TablesRoot) /\ r = TablesRoot
            /\ content'[q] = [content[p] EXCEPT !.next = n]
        BY <1>4, <1>6, <3>4, <3>7
      <4>2. content'[q].room = content[q].room /\ content'[q].rows = content[q].rows
        BY <1>6, <3>7, <4>1 DEF HeapPage
      <4>3. \A x \in PagesOf(content, TablesRoot) : content[x].room < row.size
        BY <1>5, <3>2, <4>1 DEF Accepts
      <4> QED BY <4>1, <4>2, <4>3 DEF PageAfter, GetsLink
    <3> QED BY <3>5, <3>6, <3>7
  <2> QED BY <1>2, <2>1, <2>2
<1> QED
  BY <1>2, <1>7

\* The inserts into db_tables are of rows whose ids rise, all of low .. high.
IdsRise(inserts, low, high) ==
  /\ \A k \in 1 .. Len(inserts) : inserts[k][1] = TablesRoot => inserts[k][2].id \in low .. high
  /\ \A k, l \in 1 .. Len(inserts) :
       (k < l /\ inserts[k][1] = TablesRoot /\ inserts[l][1] = TablesRoot)
         => inserts[k][2].id < inserts[l][2].id

LEMMA RisesJoin ==
  ASSUME NEW s \in Seq(Insertion), NEW t \in Seq(Insertion),
         NEW low \in Int, NEW mid \in Int, NEW high \in Int, low <= mid + 1, mid <= high,
         IdsRise(s, low, mid), IdsRise(t, mid + 1, high)
  PROVE  IdsRise(s \o t, low, high)
<1>1. PICK u : u = s \o t
  OBVIOUS
<1>2. PICK L \in Nat : L = Len(s)
  OBVIOUS
<1>3. PICK M \in Nat : M = Len(t)
  OBVIOUS
<1>4. /\ Len(u) = L + M
      /\ \A k \in 1 .. L + M : k <= L => u[k] = s[k] /\ k \in 1 .. L
      /\ \A k \in 1 .. L + M : ~ (k <= L) => u[k] = t[k - L] /\ k - L \in 1 .. M
  BY <1>1, <1>2, <1>3
<1>5. ASSUME NEW k \in 1 .. L + M, u[k][1] = TablesRoot
      PROVE  IF k <= L THEN u[k][2].id \in low .. mid ELSE u[k][2].id \in mid + 1 .. high
  BY <1>2, <1>3, <1>4, <1>5 DEF IdsRise
<1>6. ASSUME NEW k \in 1 .. L + M, NEW l \in 1 .. L + M, k < l,
             u[k][1] = TablesRoot, u[l][1] = TablesRoot
      PROVE  u[k][2].id < u[l][2].id
  <2>1. CASE l <= L
    <3>1. k <= L
      BY <1>6, <2>1
    <3> QED BY <1>2, <1>4, <1>6, <2>1, <3>1 DEF IdsRise
  <2>2. CASE k <= L /\ ~ (l <= L)
    <3>1. u[k][2].id \in low .. mid /\ u[l][2].id \in mid + 1 .. high
      BY <1>5, <1>6, <2>2
    <3> QED BY <3>1
  <2>3. CASE ~ (k <= L)
    <3>1. ~ (l <= L) /\ k - L < l - L
      BY <1>6, <2>3
    <3>2. u[k] = t[k - L] /\ k - L \in 1 .. M /\ u[l] = t[l - L] /\ l - L \in 1 .. M
      BY <1>4, <2>3, <3>1
    <3> QED BY <1>3, <1>6, <3>1, <3>2 DEF IdsRise
  <2> QED BY <2>1, <2>2, <2>3
<1>7. \A k \in 1 .. L + M : u[k][1] = TablesRoot => u[k][2].id \in low .. high
  BY <1>5
<1>8. IdsRise(u, low, high)
  BY <1>4, <1>6, <1>7 DEF IdsRise
<1> QED
  BY <1>1, <1>8

LEMMA BootstrapRises ==
  IdsRise(InsertBuiltinTypes \o InsertCatalogMetadata, 1, 3)
<1>1. PICK types \in Seq(Insertion) : types = InsertBuiltinTypes
  <2>1. TypesRoot \in System /\ RowsFor(TypesRoot) = TypeRow
    BY ConstantFacts DEF RowsFor
  <2>2. <<[type |-> "INT", size |-> 1], [type |-> "TEXT", size |-> 1]>> \in Seq(TypeRow)
    BY DEF TypeRow
  <2> QED BY <2>1, <2>2, InsertsTyped DEF InsertBuiltinTypes
<1>2. IdsRise(types, 1, 0)
  <2>1. Len(types) = 2 /\ types[1][1] = TypesRoot /\ types[2][1] = TypesRoot
    BY <1>1 DEF InsertBuiltinTypes, Inserts
  <2>2. \A k \in 1 .. Len(types) : types[k][1] # TablesRoot
    BY <2>1, ConstantFacts
  <2> QED BY <2>2 DEF IdsRise
<1>3. ASSUME NEW i \in System
      PROVE  Describe(i) \in Seq(Insertion) /\ IdsRise(Describe(i), i, i)
  <2>1. i \in Int /\ TablesRoot \in System
    BY ConstantFacts
  <2>2. SystemTable(i) \in TableRow /\ SystemTable(i).id = i /\ SystemSchema[i] \in Seq(Nat \ {0})
    BY BootstrapElements
  <2>3. PICK row \in TableRow : row = SystemTable(i) /\ row.id = i
    BY <2>2
  <2>4. PICK first \in Seq(Insertion) : first = Inserts(TablesRoot, <<row>>)
    <3>1. <<row>> \in Seq(TableRow) /\ RowsFor(TablesRoot) = TableRow
      BY DEF RowsFor
    <3>2. Inserts(TablesRoot, <<row>>) \in Seq(Insertion)
      BY <2>1, <3>1, InsertsTyped
    <3> QED BY <3>2
  <2>5. PICK rest \in Seq(Insertion) : rest = Inserts(AttributesRoot, Columns(i, SystemSchema[i]))
    <3>1. i \in Id
      BY <2>2 DEF TableRow
    <3>2. Inserts(AttributesRoot, Columns(i, SystemSchema[i])) \in Seq(Insertion)
      BY <2>2, <3>1, ColumnInsertsTyped
    <3> QED BY <3>2
  <2>6. IdsRise(first, i, i)
    <3>1. Len(first) = 1 /\ first[1] = <<TablesRoot, row>>
      BY <2>4 DEF Inserts
    <3>2. \A k \in 1 .. Len(first) : k = 1 /\ first[k][2].id = i
      BY <2>3, <3>1
    <3>3. i \in i .. i
      BY <2>1
    <3>4. \A k, l \in 1 .. Len(first) : ~ (k < l)
      BY <3>1
    <3> QED BY <3>2, <3>3, <3>4 DEF IdsRise
  <2>7. IdsRise(rest, i + 1, i)
    <3>1. \A k \in DOMAIN rest : rest[k][1] = AttributesRoot
      BY <2>5 DEF Inserts
    <3>2. \A k \in 1 .. Len(rest) : rest[k][1] # TablesRoot
      BY <3>1, ConstantFacts
    <3> QED BY <3>2 DEF IdsRise
  <2>8. IdsRise(first \o rest, i, i)
    BY <2>1, <2>6, <2>7, RisesJoin
  <2>9. Describe(i) = first \o rest /\ first \o rest \in Seq(Insertion)
    BY <2>3, <2>4, <2>5 DEF Describe
  <2> QED BY <2>8, <2>9
<1>4. /\ TablesRoot \in System /\ AttributesRoot \in System /\ TypesRoot \in System
      /\ TablesRoot = 1 /\ AttributesRoot = 2 /\ TypesRoot = 3
  BY ConstantFacts
<1>5. PICK one \in Seq(Insertion) : one = Describe(TablesRoot) /\ IdsRise(one, 1, 1)
  BY <1>3, <1>4
<1>6. PICK two \in Seq(Insertion) : two = Describe(AttributesRoot) /\ IdsRise(two, 2, 2)
  BY <1>3, <1>4
<1>7. PICK three \in Seq(Insertion) : three = Describe(TypesRoot) /\ IdsRise(three, 3, 3)
  BY <1>3, <1>4
<1>8. PICK both \in Seq(Insertion) : both = one \o two /\ IdsRise(both, 1, 2)
  <2>1. one \o two \in Seq(Insertion)
    OBVIOUS
  <2>2. IdsRise(two, 1 + 1, 2)
    BY <1>6
  <2>3. 1 \in Int /\ 2 \in Int /\ 1 <= 1 + 1 /\ 1 <= 2
    OBVIOUS
  <2>4. IdsRise(one \o two, 1, 2)
    BY <1>5, <2>2, <2>3, RisesJoin
  <2> QED BY <2>1, <2>4
<1>9. PICK tables \in Seq(Insertion) : tables = both \o three /\ IdsRise(tables, 1, 3)
  <2>1. both \o three \in Seq(Insertion)
    OBVIOUS
  <2>2. IdsRise(three, 2 + 1, 3)
    BY <1>7
  <2>3. 1 \in Int /\ 2 \in Int /\ 3 \in Int /\ 1 <= 2 + 1 /\ 2 <= 3
    OBVIOUS
  <2>4. IdsRise(both \o three, 1, 3)
    BY <1>8, <2>2, <2>3, RisesJoin
  <2> QED BY <2>1, <2>4
<1>10. IdsRise(types \o tables, 1, 3)
  <2>1. IdsRise(tables, 0 + 1, 3)
    BY <1>9
  <2> QED BY <1>2, <2>1, RisesJoin
<1>11. InsertBuiltinTypes \o InsertCatalogMetadata = types \o tables
  BY <1>1, <1>5, <1>6, <1>7, <1>8, <1>9 DEF InsertCatalogMetadata
<1> QED
  BY <1>10, <1>11

\* The room that the rows of table i of the catalog and of those after it take.
Rest(i) ==
  SystemTable(3).size + (IF i <= 2 THEN SystemTable(2).size ELSE 0)
                      + (IF i = 1 THEN SystemTable(1).size ELSE 0)

LEMMA RestFacts ==
  ASSUME NEW i \in System
  PROVE  /\ SystemTable(i).size \in Nat \ {0} /\ Rest(i) \in Nat
         /\ SystemTable(i).size <= Rest(i) /\ Rest(i) <= Capacity
         /\ \A j \in System : i < j => Rest(j) <= Rest(i) - SystemTable(i).size
<1>1. ToSet(SystemName) = {"db_tables", "db_attributes", "db_types"}
  BY DEF SystemName, ToSet
<1>2. PICK a \in Nat \ {0} : a = RowSize["db_tables"]
  BY <1>1, CatalogAssumption
<1>3. PICK b \in Nat \ {0} : b = RowSize["db_attributes"]
  BY <1>1, CatalogAssumption
<1>4. PICK c \in Nat \ {0} : c = RowSize["db_types"]
  BY <1>1, CatalogAssumption
<1>5. a + b + c <= Capacity /\ Capacity \in Nat
  BY <1>2, <1>3, <1>4, CatalogAssumption
<1>6. SystemTable(1).size = a /\ SystemTable(2).size = b /\ SystemTable(3).size = c
  BY <1>2, <1>3, <1>4 DEF SystemTable, TableInfo, SystemName
<1>7. Rest(1) = a + b + c /\ Rest(2) = b + c /\ Rest(3) = c
  BY <1>6 DEF Rest
<1>8. System = {1, 2, 3}
  BY ConstantFacts
<1> QED
  BY <1>5, <1>6, <1>7, <1>8

\* While the catalog inserts them, they have room on the first page.
RootRoom ==
  phase = "bootstrap" =>
    /\ IdsRise(todo, 1, 3)
    /\ \A k \in 1 .. Len(todo) :
         todo[k][1] = TablesRoot => Rest(todo[k][2].id) <= content[TablesRoot].room

LEMMA RootTakes ==
  ASSUME CatInv, TablesIn, RootRoom, InsertRow, phase = "bootstrap",
         NEW row, Head(todo) = <<TablesRoot, row>>
  PROVE  /\ row \in SystemTables /\ row.id \in System /\ row = SystemTable(row.id)
         /\ Rest(row.id) <= content[TablesRoot].room
         /\ row.size <= content[TablesRoot].room
         /\ TablesRoot \in PagesOf(content, TablesRoot)
<1>1. PICK insert : insert = <<TablesRoot, row>>
  OBVIOUS
<1>2. insert \in ToSet(todo) /\ insert[1] = TablesRoot /\ insert[2] = row
  BY <1>1, HeadAndTail
<1>3. row \in SystemTables
  BY <1>2 DEF TablesIn
<1>4. row.id \in System /\ row = SystemTable(row.id)
  BY <1>3, BootstrapElements DEF SystemTables
<1>5. todo \in Seq(Insertion) /\ todo # <<>>
  BY DEF CatInv, Typed, InsertRow
<1>6. 1 \in 1 .. Len(todo) /\ todo[1] = insert
  BY <1>1, <1>5
<1>7. Rest(row.id) <= content[TablesRoot].room
  BY <1>2, <1>6 DEF RootRoom
<1>8. TablesRoot \in PagesOf(content, TablesRoot)
  BY <1>5, PagesStart, ConstantFacts DEF CatInv, Inserting, Whole
<1>9. content[TablesRoot].room \in Nat
  BY <1>8, HeapPageRoom, ConstantFacts
<1>10. row.size <= content[TablesRoot].room
  BY <1>4, <1>7, <1>9, RestFacts
<1> QED
  BY <1>3, <1>4, <1>7, <1>8, <1>10

LEMMA RootRoomKept ==
  ASSUME CatInv, TablesIn, RootRoom, [SoundNext]_catalogVars
  PROVE  RootRoom'
<1> SUFFICES ASSUME phase' = "bootstrap"
             PROVE  /\ IdsRise(todo', 1, 3)
                    /\ \A k \in 1 .. Len(todo') :
                         todo'[k][1] = TablesRoot
                           => Rest(todo'[k][2].id) <= content'[TablesRoot].room
  BY DEF RootRoom, IdsRise, Rest, SystemTable, TableInfo
<1>1. CASE BootstrapCatalogs
  <2>1. IdsRise(todo', 1, 3)
    BY <1>1, BootstrapRises DEF BootstrapCatalogs
  <2>2. content'[TablesRoot] = EmptyPage
    <3>1. DOMAIN content = Page
      BY DEF CatInv, Typed, Disk
    <3> QED BY <1>1, <3>1, ConstantFacts DEF BootstrapCatalogs
  <2>3. ASSUME NEW k \in 1 .. Len(todo'), todo'[k][1] = TablesRoot
        PROVE  Rest(todo'[k][2].id) <= content'[TablesRoot].room
    <3>1. todo'[k][2].id \in 1 .. 3
      BY <2>1, <2>3 DEF IdsRise
    <3>2. PICK i \in System : i = todo'[k][2].id
      BY <3>1, ConstantFacts DEF System
    <3> QED BY <2>2, <3>2, RestFacts DEF EmptyPage
  <2> QED BY <2>1, <2>3
<1>2. CASE InsertRow
  <2>1. PICK r, row :
          /\ r \in System /\ row \in RowsFor(r) /\ Head(todo) = <<r, row>>
          /\ \A q \in PagesOf(content', TablesRoot) : PageAfter(q, r, row)
    BY <1>2, TablesPages
  <2>2. phase = "bootstrap" /\ todo # <<>> /\ todo' = Tail(todo)
    BY <1>2 DEF InsertRow
  <2>3. /\ todo \in Seq(Insertion) /\ 1 \in 1 .. Len(todo) /\ todo[1] = <<r, row>>
        /\ \A k \in 1 .. Len(todo') : todo'[k] = todo[k + 1] /\ k + 1 \in 1 .. Len(todo) /\ 1 < k + 1
    BY <2>1, <2>2 DEF CatInv, Typed
  <2>4. IdsRise(todo', 1, 3)
    BY <2>2, <2>3 DEF RootRoom, IdsRise
  <2>5. TablesRoot \in PagesOf(content, TablesRoot) /\ TablesRoot \in PagesOf(content', TablesRoot)
    <3>1. content[TablesRoot] # Unwritten /\ TablesRoot \in System /\ TablesRoot \in Page
      BY <2>2, ConstantFacts DEF CatInv, Inserting, Whole
    <3>2. content'[TablesRoot] # Unwritten
      <4>1. PICK s, x, spot : GrowsBy(s, x, spot)
        BY <1>2, InsertGrows
      <4> QED BY <3>1, <4>1 DEF GrowsBy, Older
    <3> QED BY <3>1, <3>2, PagesStart
  <2>6. content[TablesRoot].room \in Nat /\ content[TablesRoot] # Unwritten
    BY <2>5, HeapPageRoom, PagesExist, ConstantFacts DEF CatInv, Allocated
  <2>7. \/ content'[TablesRoot].room = content[TablesRoot].room
        \/ r = TablesRoot /\ content'[TablesRoot].room = content[TablesRoot].room - row.size
    BY <2>1, <2>5, <2>6 DEF PageAfter, TakesRow, GetsLink
  <2>8. ASSUME NEW k \in 1 .. Len(todo'), todo'[k][1] = TablesRoot
        PROVE  Rest(todo'[k][2].id) <= content'[TablesRoot].room
    <3>1. Rest(todo'[k][2].id) <= content[TablesRoot].room
      BY <2>2, <2>3, <2>8 DEF RootRoom
    <3>2. CASE r = TablesRoot /\ content'[TablesRoot].room = content[TablesRoot].room - row.size
      <4>1. /\ row.id \in System /\ row = SystemTable(row.id)
            /\ Rest(row.id) <= content[TablesRoot].room
        BY <1>2, <2>1, <2>2, <3>2, RootTakes
      <4>2. PICK i \in System : i = row.id
        BY <4>1
      <4>3. PICK j \in System : j = todo'[k][2].id
        <5>1. todo'[k][2].id \in 1 .. 3
          BY <2>4, <2>8 DEF IdsRise
        <5> QED BY <5>1, ConstantFacts DEF System
      <4>4. i < j
        <5>1. todo[1][2].id < todo[k + 1][2].id
          BY <2>2, <2>3, <2>8, <3>2 DEF RootRoom, IdsRise
        <5> QED BY <2>3, <4>2, <4>3, <5>1
      <4>5. Rest(j) <= Rest(i) - SystemTable(i).size /\ Rest(i) <= content[TablesRoot].room
        BY <4>1, <4>2, <4>4, RestFacts
      <4>6. Rest(i) \in Nat /\ Rest(j) \in Nat /\ SystemTable(i).size \in Nat
        BY RestFacts
      <4> QED BY <2>6, <3>2, <4>1, <4>2, <4>3, <4>5, <4>6
    <3> QED BY <2>7, <3>1, <3>2
  <2> QED BY <2>4, <2>8
<1>3. CASE ~ BootstrapCatalogs /\ ~ InsertRow
  <2>1. phase = "bootstrap" /\ UNCHANGED <<content, todo>>
    BY <1>3
    DEF SoundNext, LoadCatalogs, FlushAll, SoundCreateTable, CreateTable, CreateAs,
        CreateReturns, WriteBack, Restart, catalogVars
  <2> QED BY <2>1 DEF RootRoom
<1> QED
  BY <1>1, <1>2, <1>3

----------------------------------------------------------------------------
(* The catalog describes itself: the rows of its own tables, on the first   *)
(* page, are before all others that have their names.                      *)

SystemFirst ==
  /\ \A s \in Places(content, TablesRoot) : RowAt(content, s) \in SystemTables =>
       /\ s[1] = TablesRoot
       /\ file[TablesRoot] = Unwritten \/ s[2] <= Len(file[TablesRoot].rows)
       /\ \A a \in Places(content, TablesRoot) : RowAt(content, a).name = RowAt(content, s).name =>
            RowAt(content, a) = RowAt(content, s) \/ Before(s, a)
  /\ (phase = "bootstrap" /\ todo # <<>>) => \A p \in Page \ {0} : file[p] = Unwritten

SystemInv == TableInv /\ RootRoom /\ SystemFirst

\* The catalog's own tables have different names.
LEMMA OneName ==
  ASSUME NEW a \in SystemTables, NEW b \in SystemTables, a.name = b.name
  PROVE  a = b
<1>1. \A i \in System : SystemTable(i).name = SystemName[i]
  BY DEF SystemTable, TableInfo
<1>2. \A i, j \in System : SystemName[i] = SystemName[j] => i = j
  BY ConstantFacts DEF SystemName
<1> QED
  BY <1>1, <1>2 DEF SystemTables

\* A page of a heap that no insert changed is as it was in the pool or in the file.
LEMMA PagesStay ==
  ASSUME CatInv, ColumnsIn, [SoundNext]_catalogVars, ~ InsertRow, ~ BootstrapCatalogs,
         NEW r \in System, NEW q \in PagesOf(content', r)
  PROVE  /\ q \in PagesOf(content, r)
         /\ file'[q] \in {content[q], file[q]}
         /\ content'[q] = content[q] \/ (content'[q] = file[q] /\ file'[q] = file[q])
<1>1. CASE content' = content
  <2>1. q \in Page
    BY <1>1, PagesExist DEF CatInv, Allocated
  <2>2. file' = file \/ file' = content \/ \E p \in Page : file' = [file EXCEPT ![p] = content[p]]
    BY <1>1 DEF SoundNext, LoadCatalogs, FlushAll, CreateReturns, WriteBack, Restart,
                SoundCreateTable, CreateTable, CreateAs, catalogVars
  <2>3. DOMAIN file = Page
    BY DEF CatInv, Typed, Disk
  <2> QED BY <1>1, <2>1, <2>2, <2>3
<1>2. CASE \E name \in Name, sizes \in Schema : SoundCreateTable(name, sizes)
  BY <1>2, CreateTableStays DEF SoundCreateTable, CreateTable, CreateAs
<1>3. CASE Restart
  <2>1. content' = file /\ file' = file
    BY <1>3 DEF Restart
  <2> QED BY <2>1, OlderPages DEF CatInv, Allocated
<1> QED
  BY <1>1, <1>2, <1>3
  DEF SoundNext, LoadCatalogs, FlushAll, CreateReturns, WriteBack, catalogVars

LEMMA SystemFirstInsert ==
  ASSUME SystemInv, InsertRow
  PROVE  SystemFirst'
<1>1. CatInv /\ CatInv' /\ TablesIn /\ RootRoom /\ SystemFirst /\ TablesRoot \in System
  BY InsertGrows, ConstantFacts DEF SystemInv, TableInv
<1>2. PICK r, row, spot :
        /\ r \in System /\ row \in RowsFor(r) /\ Head(todo) = <<r, row>>
        /\ GrowsBy(r, row, spot) /\ FirstFit(r, row, spot)
  BY <1>1, InsertGrows
<1>3. todo # <<>> /\ UNCHANGED <<file, phase, made>>
  BY DEF InsertRow
<1>4. r = TablesRoot => row \in TablesMade /\ (row \in SystemTables <=> phase = "bootstrap")
  <2>1. PICK insert : insert = <<r, row>>
    OBVIOUS
  <2>2. insert \in ToSet(todo) /\ insert[1] = r /\ insert[2] = row
    BY <1>1, <1>2, <2>1, HeadAndTail
  <2> QED BY <1>1, <2>2 DEF TablesIn
<1>5. ASSUME NEW place \in Places(content', TablesRoot)
      PROVE  \/ /\ place \in Places(content, TablesRoot)
                /\ RowAt(content', place) = RowAt(content, place)
             \/ r = TablesRoot /\ place = spot /\ RowAt(content', place) = row
  BY <1>1, <1>2 DEF GrowsBy
<1>6. ASSUME NEW place \in Places(content', TablesRoot)
      PROVE  /\ RowAt(content', place) \in TablesMade
             /\ phase = "bootstrap" => RowAt(content', place) \in SystemTables
  BY <1>1, <1>4, <1>5 DEF TablesIn
<1>7. ASSUME NEW place \in Places(content', TablesRoot)
      PROVE  place[1] \in Nat /\ place[2] \in Nat /\ TablesRoot <= place[1]
  <2>1. place[1] \in PagesOf(content', TablesRoot) /\ place[2] \in Nat
    BY DEF Places
  <2>2. place[1] \in Page \ {0}
    BY <1>1, <2>1, PagesExist DEF CatInv, Allocated
  <2>3. \A p \in Page \ {0} : p \in Nat /\ TablesRoot <= p
    BY ConstantFacts
  <2> QED BY <2>1, <2>2, <2>3
<1>8. ASSUME NEW s \in Places(content', TablesRoot), RowAt(content', s) \in SystemTables
      PROVE  s[1] = TablesRoot /\ (file'[TablesRoot] = Unwritten \/ s[2] <= Len(file'[TablesRoot].rows))
  <2>1. CASE s \in Places(content, TablesRoot) /\ RowAt(content', s) = RowAt(content, s)
    BY <1>1, <1>3, <1>8, <2>1 DEF SystemFirst
  <2>2. CASE r = TablesRoot /\ s = spot /\ RowAt(content', s) = row
    <3>1. phase = "bootstrap" /\ Head(todo) = <<TablesRoot, row>>
      BY <1>2, <1>4, <1>8, <2>2
    <3>2. /\ row.size <= content[TablesRoot].room /\ TablesRoot \in PagesOf(content, TablesRoot)
      BY <1>1, <3>1, RootTakes
    <3>3. content[TablesRoot].room \in Nat /\ row.size \in Nat
      BY <1>1, <1>2, <3>2, HeapPageRoom, RowFacts
    <3>4. ~ (TablesRoot < spot[1])
      BY <1>2, <2>2, <3>2, <3>3 DEF FirstFit
    <3>5. file[TablesRoot] = Unwritten
      BY <1>1, <1>3, <3>1, ConstantFacts DEF SystemFirst
    <3> QED BY <1>3, <1>7, <2>2, <3>4, <3>5, ConstantFacts
  <2> QED BY <1>5, <2>1, <2>2
<1>9. ASSUME NEW s \in Places(content', TablesRoot), RowAt(content', s) \in SystemTables,
             NEW a \in Places(content', TablesRoot),
             RowAt(content', a).name = RowAt(content', s).name
      PROVE  RowAt(content', a) = RowAt(content', s) \/ Before(s, a)
  <2>1. CASE RowAt(content', a) \in SystemTables
    BY <1>9, <2>1, OneName
  <2>2. CASE RowAt(content', a) \notin SystemTables
    <3>1. phase # "bootstrap"
      BY <1>6, <2>2
    <3>2. s \in Places(content, TablesRoot) /\ RowAt(content', s) = RowAt(content, s)
      BY <1>4, <1>5, <1>9, <3>1
    <3>3. CASE a \in Places(content, TablesRoot) /\ RowAt(content', a) = RowAt(content, a)
      BY <1>1, <1>9, <3>2, <3>3 DEF SystemFirst
    <3>4. CASE r = TablesRoot /\ a = spot /\ RowAt(content', a) = row
      <4>1. s[1] = TablesRoot
        BY <1>8, <1>9
      <4>2. s[1] = spot[1] => s[2] < spot[2]
        BY <1>2, <3>2, <3>4 DEF FirstFit
      <4>3. TablesRoot <= spot[1] /\ spot[1] \in Nat /\ TablesRoot \in Nat
        BY <1>7, <3>4, ConstantFacts
      <4>4. Before(s, spot)
        BY <4>1, <4>2, <4>3 DEF Before
      <4> QED BY <3>4, <4>4
    <3> QED BY <1>5, <3>3, <3>4
  <2> QED BY <2>1, <2>2
<1>10. (phase' = "bootstrap" /\ todo' # <<>>) => \A p \in Page \ {0} : file'[p] = Unwritten
  BY <1>1, <1>3 DEF SystemFirst
<1>11. SystemTables' = SystemTables
  BY DEF SystemTables
<1> QED
  BY <1>8, <1>9, <1>10, <1>11 DEF SystemFirst

LEMMA SystemFirstKept ==
  ASSUME SystemInv, [SoundNext]_catalogVars
  PROVE  SystemFirst'
<1>1. CASE InsertRow
  BY <1>1, SystemFirstInsert
<1>2. CASE ~ InsertRow
  <2>1. CatInv /\ ColumnsIn /\ SystemFirst /\ TablesRoot \in System
    BY ConstantFacts DEF SystemInv, TableInv
  <2>2. ASSUME NEW s \in Places(content', TablesRoot)
        PROVE  /\ s \in Places(content, TablesRoot) /\ RowAt(content', s) = RowAt(content, s)
               /\ ~ BootstrapCatalogs
    <3>1. s \in Places(content, TablesRoot) /\ RowAt(content', s) = RowAt(content, s)
      BY <1>2, <2>1, OnlyInserts
    <3>2. s[1] \in Page /\ content[s[1]] # Unwritten
      BY <2>1, <3>1, PagesExist DEF Places, CatInv, Allocated
    <3> QED BY <2>1, <3>1, <3>2, BootstrapCatalogsKeeps
  <2>3. ASSUME NEW s \in Places(content', TablesRoot), RowAt(content', s) \in SystemTables
        PROVE  /\ s[1] = TablesRoot
               /\ file'[TablesRoot] = Unwritten \/ s[2] <= Len(file'[TablesRoot].rows)
    <3>1. s \in Places(content, TablesRoot) /\ s[1] = TablesRoot
          /\ (file[TablesRoot] = Unwritten \/ s[2] <= Len(file[TablesRoot].rows))
      BY <2>1, <2>2, <2>3 DEF SystemFirst
    <3>2. TablesRoot \in PagesOf(content', TablesRoot)
          /\ s[2] <= Len(content[TablesRoot].rows)
      BY <3>1 DEF Places
    <3>3. file'[TablesRoot] \in {content[TablesRoot], file[TablesRoot]}
      BY <1>2, <2>1, <2>2, <3>2, PagesStay
    <3> QED BY <3>1, <3>2, <3>3
  <2>4. ASSUME NEW s \in Places(content', TablesRoot), RowAt(content', s) \in SystemTables,
               NEW a \in Places(content', TablesRoot),
               RowAt(content', a).name = RowAt(content', s).name
        PROVE  RowAt(content', a) = RowAt(content', s) \/ Before(s, a)
    BY <2>1, <2>2, <2>4 DEF SystemFirst
  <2>5. ASSUME phase' = "bootstrap", todo' # <<>>, NEW p \in Page \ {0}
        PROVE  file'[p] = Unwritten
    <3>1. CASE BootstrapCatalogs
      <4>1. file[p] = Unwritten /\ file' = [file EXCEPT ![0] = Header]
        BY <2>1, <3>1, BootstrapCatalogsKeeps DEF BootstrapCatalogs
      <4> QED BY <2>5, <4>1
    <3>2. CASE ~ BootstrapCatalogs
      <4>1. phase = "bootstrap" /\ todo # <<>> /\ file' = file
        BY <1>2, <2>5, <3>2
        DEF SoundNext, LoadCatalogs, SoundCreateTable, CreateTable, CreateAs, FlushAll,
            CreateReturns, WriteBack, Restart, catalogVars
      <4> QED BY <2>1, <2>5, <4>1 DEF SystemFirst
    <3> QED BY <3>1, <3>2
  <2>6. SystemTables' = SystemTables
    BY DEF SystemTables
  <2> QED BY <2>3, <2>4, <2>5, <2>6 DEF SystemFirst
<1> QED
  BY <1>1, <1>2

\* Where every call found the catalog whole, the rows of the catalog's own tables are
\* before all others with their names.
THEOREM SystemInvariant == CatalogSpec => [](sound => SystemInv)
<1>1. CatalogInit => SystemInv
  <2>1. ASSUME CatalogInit
        PROVE  SystemInv
    <3>1. TableInv /\ made = <<>> /\ todo = <<>> /\ content[TablesRoot] = Unwritten
      BY <2>1, InitTables, ConstantFacts DEF CatalogInit
    <3>2. Places(content, TablesRoot) = {}
      <4>1. TablesRoot \in System
        BY ConstantFacts
      <4>2. PagesOf(content, TablesRoot) = {}
        BY <3>1, <4>1, PagesLeast
      <4> QED BY <4>2 DEF Places
    <3>3. SystemFirst
      BY <3>1, <3>2 DEF SystemFirst
    <3>4. RootRoom
      BY <2>1 DEF CatalogInit, RootRoom
    <3> QED BY <3>1, <3>3, <3>4 DEF SystemInv
  <2> QED BY <2>1
<1>2. SystemInv /\ [SoundNext]_catalogVars => SystemInv'
  <2>1. ASSUME SystemInv, [SoundNext]_catalogVars
        PROVE  SystemInv'
    <3>1. TableInv /\ RootRoom
      BY <2>1 DEF SystemInv
    <3>2. TableInv'
      BY <2>1, <3>1, CatalogNextInv, CatalogNextColumns, AllFitKept, TablesInKept, OrderKept,
         KeptInKept
      DEF TableInv
    <3>3. RootRoom' /\ SystemFirst'
      BY <2>1, <3>1, RootRoomKept, SystemFirstKept DEF TableInv
    <3> QED BY <3>2, <3>3 DEF SystemInv
  <2> QED BY <2>1
<1>3. (sound => SystemInv) /\ [CatalogNext]_catalogVars => (sound => SystemInv)'
  BY <1>2, SoundStep
<1> QED
  BY <1>1, <1>3, PTL DEF CatalogSpec

\* What a finished bootstrap wrote is in the pool.
LEMMA BootedAll ==
  ASSUME TableInv, booted, NEW i \in System
  PROVE  HasAll(content, SystemTable(i), SystemSchema[i])
<1>1. HasAll(file, SystemTable(i), SystemSchema[i])
  BY DEF TableInv, KeptIn
<1>2. /\ content \in Disk /\ file \in Disk /\ LinkedUp(content) /\ LinkedUp(file)
      /\ Older(file, content) /\ Shorter(file, content)
  BY DEF TableInv, CatInv, Typed, Allocated, ColumnsIn
<1> QED
  BY <1>1, <1>2, HasRemains

\* Positions that increase and are all of 1 .. n are 1, 2, ..., n.
Climbs(p, m, n) ==
  /\ \A k \in 1 .. m : p[k] \in 1 .. n
  /\ \A k, l \in 1 .. m : k < l => p[k] < p[l]
  /\ \A x \in 1 .. n : \E k \in 1 .. m : p[k] = x

LEMMA Ascending ==
  ASSUME NEW m \in Nat, NEW n \in Nat, NEW p, Climbs(p, m, n)
  PROVE  m = n /\ \A k \in 1 .. m : p[k] = k
<1> USE DEF Climbs
<1> DEFINE Bad == {k \in 1 .. m : p[k] # k}
<1>1. Bad = {}
  <2> SUFFICES ASSUME Bad # {}
               PROVE  FALSE
    OBVIOUS
  <2>1. PICK k \in Bad : \A l \in Bad : k <= l
    <3>1. Bad \in SUBSET Nat
      OBVIOUS
    <3> HIDE DEF Bad
    <3> QED BY <3>1, LeastOf
  <2>2. k \in 1 .. m /\ p[k] # k /\ p[k] \in 1 .. n
    BY <2>1
  <2>3. \A l \in 1 .. m : l < k => p[l] = l
    <3> SUFFICES ASSUME NEW l \in 1 .. m, l < k
                 PROVE  p[l] = l
      OBVIOUS
    <3>1. ~ (k <= l)
      BY <2>2
    <3> QED BY <2>1, <3>1
  <2>4. ~ (p[k] < k)
    <3> SUFFICES ASSUME p[k] < k
                 PROVE  FALSE
      OBVIOUS
    <3>1. PICK l \in 1 .. m : l = p[k]
      BY <2>2
    <3>2. p[l] = l /\ p[l] < p[k]
      BY <2>2, <2>3, <3>1
    <3> QED BY <2>2, <3>1, <3>2
  <2>5. k < p[k] /\ k \in 1 .. n
    BY <2>2, <2>4
  <2>6. PICK l \in 1 .. m : p[l] = k
    BY <2>5
  <2>7. l # k
    BY <2>2, <2>6
  <2>8. CASE l < k
    BY <2>3, <2>6, <2>7, <2>8
  <2>9. CASE k < l
    <3>1. p[k] < p[l]
      BY <2>2, <2>9
    <3> QED BY <2>2, <2>5, <2>6, <3>1
  <2> QED BY <2>2, <2>7, <2>8, <2>9
<1>2. \A k \in 1 .. m : p[k] = k
  BY <1>1
<1> HIDE DEF Bad
<1>3. m <= n
  BY <1>2
<1>4. n <= m
  BY <1>2
<1> QED
  BY <1>2, <1>3, <1>4

\* The rows of the columns of the catalog's own tables are of one size, so that first
\* fit keeps their order.
LEMMA SystemColumnsThere ==
  ASSUME TableInv, booted, NEW i \in System
  PROVE  GetColumns(content, i) = Columns(i, SystemSchema[i])
<1>1. /\ CatInv /\ ColumnsIn /\ InOrder
      /\ LinkedUp(content)
      /\ \A p \in PagesOf(content, AttributesRoot) : content[p].rows \in Seq(ColumnRow)
  BY PoolRows, ConstantFacts DEF TableInv
<1>2. PICK columns \in Seq(ColumnRow) : columns = GetColumns(content, i)
  BY <1>1, ColumnsListed
<1>3. PICK at : Lists(at, columns, content, ColumnPlaces(content, i))
  BY <1>1, <1>2, ColumnsListed
<1>4. PICK sizes : sizes = SystemSchema[i]
  OBVIOUS
<1>5. PICK n \in Nat : /\ DOMAIN sizes = 1 .. n
                       /\ \A k \in 1 .. n : sizes[k] = 1
  <2>1. i = 1 \/ i = 2 \/ i = 3
    BY ConstantFacts
  <2>2. sizes = <<1, 1, 1, 1>> \/ sizes = <<1, 1, 1>>
    BY <1>4, <2>1 DEF SystemSchema
  <2>3. CASE sizes = <<1, 1, 1, 1>>
    <3>1. 4 \in Nat /\ DOMAIN sizes = 1 .. 4 /\ \A k \in 1 .. 4 : sizes[k] = 1
      BY <2>3
    <3> QED BY <3>1
  <2>4. CASE sizes = <<1, 1, 1>>
    <3>1. 3 \in Nat /\ DOMAIN sizes = 1 .. 3 /\ \A k \in 1 .. 3 : sizes[k] = 1
      BY <2>4
    <3> QED BY <3>1
  <2> QED BY <2>2, <2>3, <2>4
<1>6. PICK given : given = Columns(i, sizes)
  OBVIOUS
<1>7. /\ DOMAIN given = 1 .. n /\ given \in Seq(ColumnRow)
      /\ \A k \in 1 .. n : /\ given[k].table = i /\ given[k].position = k
                           /\ given[k].size = 1
  BY <1>5, <1>6, ConstantFacts DEF Columns, ColumnRow, Id, System
<1>8. ASSUME NEW k \in 1 .. Len(columns)
      PROVE  \E l \in 1 .. n : columns[k] = given[l]
  <2>1. at[k] \in Places(content, AttributesRoot) /\ columns[k] = RowAt(content, at[k])
        /\ columns[k].table = i
    BY <1>3 DEF Lists, ColumnPlaces
  <2>2. columns[k] \in ColumnsMade
    BY <1>1, <2>1 DEF ColumnsIn
  <2>3. \A j \in 1 .. Len(made) : made[j].row.id # i
    <3>1. ASSUME NEW j \in 1 .. Len(made)
          PROVE  made[j].row.id # i
      <4>1. made[j].row.id = TypesRoot + j /\ j \in Nat \ {0}
        BY <1>1, MadeRows DEF CatInv
      <4> QED BY <4>1, ConstantFacts DEF System
    <3> QED BY <3>1
  <2>4. columns[k] \in ToSet(given)
    BY <1>4, <1>6, <2>1, <2>2, <2>3 DEF ColumnsMade, SystemColumns
  <2> QED BY <1>7, <2>4 DEF ToSet
<1>9. ASSUME NEW l \in 1 .. n
      PROVE  \E k \in 1 .. Len(columns) : columns[k] = given[l]
  <2>1. PICK row : row = given[l]
    OBVIOUS
  <2>2. row \in ToSet(given) /\ row.size = 1 /\ row.table = i
    BY <1>7, <2>1 DEF ToSet
  <2>3. HasAll(content, SystemTable(i), SystemSchema[i])
    BY BootedAll
  <2>4. SystemTable(i).id = i
    BY BootstrapElements
  <2>5. Has(content, AttributesRoot, row)
    BY <1>4, <1>6, <2>2, <2>3, <2>4 DEF HasAll
  <2>6. Fits(row)
    BY <2>2, CatalogAssumption DEF Fits
  <2>7. PICK place \in Places(content, AttributesRoot) : RowAt(content, place) = row
    BY <2>5, <2>6 DEF Has
  <2>8. place \in ColumnPlaces(content, i)
    BY <2>2, <2>7 DEF ColumnPlaces
  <2>9. PICK k \in 1 .. Len(columns) : at[k] = place
    BY <1>3, <2>8 DEF Lists
  <2> QED BY <1>3, <2>1, <2>7, <2>9 DEF Lists
<1>10. ASSUME NEW k \in 1 .. Len(columns), NEW l \in 1 .. Len(columns), k < l
       PROVE  columns[k].position < columns[l].position
  <2>1. /\ at[k] \in Places(content, AttributesRoot) /\ columns[k] = RowAt(content, at[k])
        /\ at[l] \in Places(content, AttributesRoot) /\ columns[l] = RowAt(content, at[l])
        /\ columns[k].table = i /\ columns[l].table = i /\ Before(at[k], at[l])
    BY <1>3, <1>10 DEF Lists, ColumnPlaces
  <2>2. PICK x \in 1 .. n, y \in 1 .. n : columns[k] = given[x] /\ columns[l] = given[y]
    BY <1>8
  <2>3. columns[k].position = x /\ columns[l].position = y
        /\ columns[k].size = 1 /\ columns[l].size = 1
    BY <1>7, <2>2
  <2>4. ~ (y < x)
    <3>1. columns[l].position < columns[k].position => columns[k].size < columns[l].size
      BY <1>1, <2>1 DEF InOrder
    <3> QED BY <2>3, <3>1
  <2>5. x # y
    <3> SUFFICES ASSUME x = y
                 PROVE  FALSE
      OBVIOUS
    <3>1. at[k] = at[l]
      BY <1>1, <2>1, <2>2 DEF ColumnsIn
    <3>2. ~ Before(at[k], at[k])
      BY <1>1, <2>1, PlaceTyped, ConstantFacts
    <3> QED BY <2>1, <3>1, <3>2
  <2> QED BY <2>3, <2>4, <2>5
<1>11. PICK p : p = [k \in 1 .. Len(columns) |-> columns[k].position]
  OBVIOUS
<1>12. /\ \A k \in 1 .. Len(columns) : p[k] \in 1 .. n /\ columns[k] = given[p[k]]
       /\ \A k, l \in 1 .. Len(columns) : k < l => p[k] < p[l]
       /\ \A x \in 1 .. n : \E k \in 1 .. Len(columns) : p[k] = x
  <2>1. \A k \in 1 .. Len(columns) : p[k] = columns[k].position
    BY <1>11
  <2>2. \A k \in 1 .. Len(columns) : p[k] \in 1 .. n /\ columns[k] = given[p[k]]
    BY <1>7, <1>8, <2>1
  <2>3. \A x \in 1 .. n : \E k \in 1 .. Len(columns) : p[k] = x
    BY <1>7, <1>9, <2>1
  <2> QED BY <1>10, <2>1, <2>2, <2>3
<1>13. Len(columns) = n /\ \A k \in 1 .. Len(columns) : p[k] = k
  <2>1. PICK m \in Nat : m = Len(columns)
    OBVIOUS
  <2>2. Climbs(p, m, n)
    BY <1>12, <2>1 DEF Climbs
  <2>3. m = n /\ \A k \in 1 .. m : p[k] = k
    BY <2>2, Ascending
  <2> QED BY <2>1, <2>3
<1>14. columns = given
  <2>1. Len(given) = n
    BY <1>7
  <2>2. \A k \in 1 .. n : columns[k] = given[k]
    BY <1>12, <1>13
  <2> QED BY <1>7, <1>13, <2>1, <2>2
<1> QED
  BY <1>2, <1>4, <1>6, <1>14

\* The row of a system table is the first with its name.
LEMMA SystemTableFound ==
  ASSUME SystemInv, booted, NEW i \in System
  PROVE  Lookup(content, SystemName[i]) = SystemTable(i)
<1>1. PICK name : name = SystemName[i]
  OBVIOUS
<1>2. SystemTable(i).name = name /\ SystemTable(i) \in SystemTables
  BY <1>1 DEF SystemTable, TableInfo, SystemTables
<1>3. CatInv /\ TablesIn /\ SystemFirst /\ TablesRoot \in System
  BY ConstantFacts DEF SystemInv, TableInv
<1>4. Fits(SystemTable(i))
  <2>1. ToSet(SystemName) = {"db_tables", "db_attributes", "db_types"}
    BY DEF SystemName, ToSet
  <2>2. /\ RowSize["db_tables"] \in Nat \ {0} /\ RowSize["db_attributes"] \in Nat \ {0}
        /\ RowSize["db_types"] \in Nat \ {0}
    BY <2>1, CatalogAssumption
  <2>3. \A n \in {"db_tables", "db_attributes", "db_types"} : RowSize[n] <= Capacity
    BY <2>2, CatalogAssumption
  <2>4. SystemName[i] \in {"db_tables", "db_attributes", "db_types"}
    BY ConstantFacts DEF SystemName
  <2> QED BY <2>3, <2>4 DEF Fits, SystemTable, TableInfo
<1>5. PICK s \in Places(content, TablesRoot) : RowAt(content, s) = SystemTable(i)
  BY <1>4, BootedAll DEF SystemInv, HasAll, Has
<1>6. PICK first \in Places(content, TablesRoot) :
        /\ Lookup(content, name) = RowAt(content, first) /\ RowAt(content, first).name = name
        /\ \A other \in Places(content, TablesRoot) :
             RowAt(content, other).name = name => other = first \/ Before(first, other)
  <2>1. LinkedUp(content)
        /\ \A p \in PagesOf(content, TablesRoot) : content[p].rows \in Seq(TableRow)
    BY <1>3, PoolRows
  <2> QED BY <1>2, <1>5, <2>1, TableFound
<1>7. RowAt(content, first) = RowAt(content, s)
  <2>1. RowAt(content, first) = RowAt(content, s) \/ Before(s, first)
    BY <1>2, <1>3, <1>5, <1>6 DEF SystemFirst
  <2>2. s = first \/ Before(first, s)
    BY <1>2, <1>5, <1>6
  <2>3. /\ s[1] \in Nat /\ s[2] \in Nat /\ first[1] \in Nat /\ first[2] \in Nat
    BY <1>3, PlaceTyped
  <2>4. ~ (Before(s, first) /\ Before(first, s))
    BY <2>3 DEF Before
  <2> QED BY <2>1, <2>2, <2>4
<1> QED
  BY <1>1, <1>5, <1>6, <1>7

\* Where every call found the catalog whole, a process that opens a database that was
\* bootstrapped finds the rows of the catalog's own tables, whatever user tables are
\* called, and their columns if its scan of db_attributes comes to an end.
THEOREM CatalogDescribesItself == CatalogSpec => []SelfDescribing
<1>1. (sound => SystemInv) => SelfDescribing
  BY SystemTableFound, SystemColumnsThere DEF SelfDescribing, SystemInv
<1> QED
  BY <1>1, SystemInvariant, PTL

----------------------------------------------------------------------------
(* Names stay with their tables as long as rows are scanned in the order of *)
(* their inserts.                                                          *)

\* The rows of all tables are of one size and fit a page.
Uniform ==
  \A i, j \in 1 .. Len(made) : Fits(made[i].row) /\ made[i].row.size = made[j].row.size

\* Pages with a link are full, in the pool and as they were written; and what came to a
\* page after it was written had room on it then.
LinksFull ==
  /\ made = <<>> => \A q \in PagesOf(content, TablesRoot) : content[q].next = NoPage
  /\ Uniform => \A i \in 1 .. Len(made), q \in PagesOf(content, TablesRoot) :
       /\ content[q].next # NoPage => content[q].room < made[i].row.size
       /\ file[q].next # NoPage => file[q].room < made[i].row.size
  /\ \A q \in PagesOf(content, TablesRoot) : file[q] # Unwritten =>
       /\ content[q].room <= file[q].room
       /\ \A k \in 1 .. Len(content[q].rows) :
            k <= Len(file[q].rows) \/ content[q].rows[k].size <= file[q].room

NameInv == SystemInv /\ LinksFull

\* A row that an insert adds to a page of db_tables or makes a link for.
LEMMA RowInserted ==
  ASSUME SystemInv, InsertRow, NEW row, Head(todo) = <<TablesRoot, row>>
  PROVE  \/ row.size <= content[TablesRoot].room /\ TablesRoot \in PagesOf(content, TablesRoot)
         \/ made # <<>> /\ \E j \in 1 .. Len(made) : row = made[j].row
<1>1. CatInv /\ TablesIn /\ RootRoom
  BY DEF SystemInv, TableInv
<1>2. CASE phase = "bootstrap"
  BY <1>1, <1>2, RootTakes
<1>3. CASE phase # "bootstrap"
  <2>1. PICK insert : insert = <<TablesRoot, row>>
    OBVIOUS
  <2>2. insert \in ToSet(todo) /\ insert[1] = TablesRoot /\ insert[2] = row
    BY <1>1, <2>1, HeadAndTail
  <2>3. row \in TablesMade /\ row \notin SystemTables
    BY <1>1, <1>3, <2>2 DEF TablesIn
  <2>4. PICK j \in 1 .. Len(made) : row = made[j].row
    BY <2>3 DEF TablesMade
  <2>5. made # <<>>
    BY <2>4
  <2> QED BY <2>4, <2>5
<1> QED
  BY <1>2, <1>3

\* A page of db_tables has rows of tables and room, also as it was written.
LEMMA TablesPage ==
  ASSUME CatInv, NEW q \in PagesOf(content, TablesRoot)
  PROVE  /\ q \in Page /\ content[q] # Unwritten
         /\ content[q].rows \in Seq(TableRow) /\ content[q].room \in Nat
         /\ file[q].rows \in Seq(TableRow) /\ file[q].room \in Nat
         /\ content[q].next = NoPage => file[q].next = NoPage
<1>1. TablesRoot \in System /\ RowsFor(TablesRoot) = TableRow
  BY ConstantFacts DEF RowsFor
<1>2. q \in Page \ {0} /\ content[q] # Unwritten
  BY <1>1, PagesExist DEF CatInv, Allocated
<1>3. /\ content[q].rows \in Seq(TableRow) /\ content[q].room \in Nat
      /\ file[q].rows \in Seq(TableRow)
  BY <1>1, HeapPageRoom DEF CatInv, Apart
<1>4. CASE file[q] = Unwritten
  <2>1. file[q].room = 0 /\ file[q].next = NoPage
    BY <1>4 DEF Unwritten
  <2> QED BY <1>2, <1>3, <2>1
<1>5. CASE file[q] # Unwritten
  <2>1. file[q] \in HeapPage
    BY <1>2, <1>5, DiskPages DEF CatInv, Typed
  <2>2. file[q].room \in Nat
    BY <2>1, ConstantFacts DEF HeapPage
  <2>3. content[q].next = NoPage => file[q].next = NoPage
    BY <1>2, <1>5 DEF CatInv, Allocated, Older
  <2> QED BY <1>2, <1>3, <2>2, <2>3
<1> QED
  BY <1>4, <1>5

LEMMA LinksFullInsert ==
  ASSUME SystemInv, LinksFull, InsertRow
  PROVE  LinksFull'
<1>1. CatInv
  BY DEF SystemInv, TableInv
<1>2. PICK r, row :
        /\ r \in System /\ row \in RowsFor(r) /\ Head(todo) = <<r, row>>
        /\ \A q \in PagesOf(content', TablesRoot) : PageAfter(q, r, row)
  BY <1>1, TablesPages
<1>3. UNCHANGED <<file, made>> /\ row.size \in Nat
  BY <1>2, RowFacts DEF InsertRow
<1>4. r = TablesRoot => \/ /\ row.size <= content[TablesRoot].room
                           /\ TablesRoot \in PagesOf(content, TablesRoot)
                        \/ made # <<>> /\ \E j \in 1 .. Len(made) : row = made[j].row
  BY <1>2, RowInserted
<1>5. ASSUME NEW q \in PagesOf(content', TablesRoot), content[q] = Unwritten
      PROVE  file[q] = Unwritten /\ file[q].next = NoPage
  <2>1. q \in Page
    BY <1>1, PagesExist, InsertGrows, ConstantFacts DEF CatInv, Allocated
  <2>2. file[q] = Unwritten
    BY <1>1, <1>5, <2>1 DEF CatInv, Allocated, Older
  <2> QED BY <2>2 DEF Unwritten
<1>6. ASSUME NEW q \in PagesOf(content, TablesRoot), r = TablesRoot, GetsLink(q, row)
      PROVE  made # <<>> /\ \E j \in 1 .. Len(made) : row = made[j].row
  <2>1. \A p \in PagesOf(content, TablesRoot) : content[p].room < row.size /\ content[p].room \in Nat
    BY <1>1, <1>6, TablesPage DEF GetsLink
  <2>2. ~ (row.size <= content[TablesRoot].room /\ TablesRoot \in PagesOf(content, TablesRoot))
    BY <1>3, <2>1
  <2> QED BY <1>4, <1>6, <2>2
<1>7. ASSUME made = <<>>, NEW q \in PagesOf(content', TablesRoot)
      PROVE  content'[q].next = NoPage
  BY <1>2, <1>6, <1>7 DEF PageAfter, TakesRow, LinksFull
<1>8. ASSUME Uniform, NEW i \in 1 .. Len(made), NEW q \in PagesOf(content', TablesRoot)
      PROVE  /\ content'[q].next # NoPage => content'[q].room < made[i].row.size
             /\ file[q].next # NoPage => file[q].room < made[i].row.size
  <2>1. CASE content[q] = Unwritten /\ content'[q].next = NoPage
    BY <1>5, <2>1
  <2>2. CASE q \in PagesOf(content, TablesRoot)
    <3>1. /\ content[q].next # NoPage => content[q].room < made[i].row.size
          /\ file[q].next # NoPage => file[q].room < made[i].row.size
          /\ content[q].room \in Nat /\ made[i].row.size \in Nat
      <4>1. made[i].row.size \in Nat
        <5> DEFINE M == [row : TableRow, sizes : Schema]
        <5>1. made \in Seq(M)
          BY <1>1 DEF CatInv, Typed
        <5>2. made[i] \in M
          <6> HIDE DEF M
          <6> QED BY <5>1
        <5> QED BY <5>2 DEF TableRow
      <4> QED BY <1>1, <1>8, <2>2, <4>1, TablesPage DEF LinksFull
    <3>2. CASE content'[q] = content[q]
      BY <3>1, <3>2
    <3>3. CASE TakesRow(q, row)
      BY <1>3, <3>1, <3>3 DEF TakesRow
    <3>4. CASE r = TablesRoot /\ GetsLink(q, row)
      <4>1. PICK j \in 1 .. Len(made) : row = made[j].row
        BY <1>6, <2>2, <3>4
      <4>2. made[j].row.size = made[i].row.size
        BY <1>8 DEF Uniform
      <4>3. content'[q].room < made[i].row.size
        BY <2>2, <3>4, <4>1, <4>2 DEF GetsLink
      <4> QED BY <3>1, <4>3
    <3>5. CASE content[q] = Unwritten
      BY <1>1, <2>2, <3>5, TablesPage
    <3> QED BY <1>2, <3>2, <3>3, <3>4, <3>5 DEF PageAfter
  <2> QED BY <1>2, <2>1, <2>2 DEF PageAfter
<1>9. ASSUME NEW q \in PagesOf(content', TablesRoot), file[q] # Unwritten
      PROVE  /\ content'[q].room <= file[q].room
             /\ \A k \in 1 .. Len(content'[q].rows) :
                  k <= Len(file[q].rows) \/ content'[q].rows[k].size <= file[q].room
  <2>1. q \in PagesOf(content, TablesRoot) /\ content[q] # Unwritten
    BY <1>2, <1>5, <1>9 DEF PageAfter
  <2>2. /\ content[q].room <= file[q].room
        /\ \A k \in 1 .. Len(content[q].rows) :
             k <= Len(file[q].rows) \/ content[q].rows[k].size <= file[q].room
    BY <1>9, <2>1 DEF LinksFull
  <2>3. /\ content[q].room \in Nat /\ file[q].room \in Nat /\ content[q].rows \in Seq(TableRow)
    BY <1>1, <2>1, TablesPage
  <2>4. CASE content'[q] = content[q] \/ GetsLink(q, row)
    BY <2>2, <2>4 DEF GetsLink
  <2>5. CASE r = TablesRoot /\ TakesRow(q, row)
    <3>1. row \in TableRow
      BY <1>2, <2>5 DEF RowsFor
    <3>2. PICK rows \in Seq(TableRow) : rows = content[q].rows
      BY <2>3
    <3>3. /\ content'[q].rows = Append(rows, row) /\ row.size <= content[q].room
          /\ content'[q].room = content[q].room - row.size
      BY <2>5, <3>2 DEF TakesRow
    <3>4. /\ Len(Append(rows, row)) = Len(rows) + 1
          /\ Append(rows, row)[Len(rows) + 1] = row
          /\ \A k \in 1 .. Len(rows) : Append(rows, row)[k] = rows[k]
      BY <3>1
    <3>5. row.size <= file[q].room /\ content'[q].room <= file[q].room
      BY <1>3, <2>2, <2>3, <3>3
    <3>6. ASSUME NEW k \in 1 .. Len(content'[q].rows)
          PROVE  k <= Len(file[q].rows) \/ content'[q].rows[k].size <= file[q].room
      <4>1. k \in 1 .. Len(rows) \/ k = Len(rows) + 1
        BY <3>3, <3>4
      <4>2. CASE k \in 1 .. Len(rows)
        BY <2>2, <3>2, <3>3, <3>4, <4>2
      <4>3. CASE k = Len(rows) + 1
        BY <3>3, <3>4, <3>5, <4>3
      <4> QED BY <4>1, <4>2, <4>3
    <3> QED BY <3>5, <3>6
  <2> QED BY <1>2, <2>1, <2>4, <2>5 DEF PageAfter
<1>10. Uniform' = Uniform
  BY <1>3 DEF Uniform
<1> QED
  BY <1>3, <1>7, <1>8, <1>9, <1>10 DEF LinksFull

LEMMA LinksFullKept ==
  ASSUME SystemInv, LinksFull, [SoundNext]_catalogVars
  PROVE  LinksFull'
<1>1. CASE InsertRow
  BY <1>1, LinksFullInsert
<1>2. CASE BootstrapCatalogs
  <2>1. CatInv /\ DOMAIN content = Page
    BY DEF SystemInv, TableInv, CatInv, Typed, Disk
  <2>2. /\ content' = [content EXCEPT ![0] = Header, ![TablesRoot] = EmptyPage,
                                      ![AttributesRoot] = EmptyPage, ![TypesRoot] = EmptyPage]
        /\ file' = [file EXCEPT ![0] = Header]
        /\ \A p \in Page : content[p] = Unwritten /\ file[p] = Unwritten
    BY <1>2, <2>1, BootstrapCatalogsKeeps DEF BootstrapCatalogs
  <2>3. ASSUME NEW q \in PagesOf(content', TablesRoot)
        PROVE  content'[q].next = NoPage /\ file'[q] = Unwritten /\ file'[q].next = NoPage
    <3>1. q \in Page \ {0}
      BY <1>2, <2>1, BootstrapCatalogsKeeps, PagesExist, ConstantFacts DEF CatInv, Allocated
    <3>2. file'[q] = Unwritten
      BY <2>2, <3>1
    <3>3. content'[q] \in {Unwritten, EmptyPage}
      BY <2>1, <2>2, <3>1
    <3> QED BY <3>2, <3>3, PageFacts
  <2> QED BY <2>3 DEF LinksFull
<1>3. CASE ~ InsertRow /\ ~ BootstrapCatalogs
  <2>1. CatInv /\ ColumnsIn /\ TablesRoot \in System
    BY ConstantFacts DEF SystemInv, TableInv
  <2>2. ASSUME NEW q \in PagesOf(content', TablesRoot)
        PROVE  /\ q \in PagesOf(content, TablesRoot) /\ file'[q] \in {content[q], file[q]}
               /\ content'[q] = content[q] \/ (content'[q] = file[q] /\ file'[q] = file[q])
    BY <1>3, <2>1, PagesStay
  <2>3. /\ Len(made) \in Nat /\ made \in Seq([row : TableRow, sizes : Schema])
        /\ \A i \in 1 .. Len(made) : i \in 1 .. Len(made') /\ made'[i] = made[i]
    BY <2>1, MadeGrows DEF CatInv, Typed
  <2>4. ASSUME made = <<>>, NEW q \in PagesOf(content', TablesRoot)
        PROVE  content'[q].next = NoPage /\ file'[q].next = NoPage
    <3>1. q \in PagesOf(content, TablesRoot) /\ content[q].next = NoPage
      BY <2>2, <2>4 DEF LinksFull
    <3>2. file[q].next = NoPage
      BY <2>1, <3>1, TablesPage
    <3> QED BY <2>2, <2>4, <3>1, <3>2
  <2>5. ASSUME made' = <<>>, NEW q \in PagesOf(content', TablesRoot)
        PROVE  content'[q].next = NoPage
    <3>1. ~ (1 \in 1 .. Len(made))
      BY <2>3, <2>5
    <3>2. made = <<>>
      BY <2>3, <3>1
    <3> QED BY <2>4, <3>2
  <2>6. ASSUME Uniform', NEW i \in 1 .. Len(made'), NEW q \in PagesOf(content', TablesRoot)
        PROVE  /\ content'[q].next # NoPage => content'[q].room < made'[i].row.size
               /\ file'[q].next # NoPage => file'[q].room < made'[i].row.size
    <3>1. CASE made = <<>>
      BY <2>4, <3>1
    <3>2. CASE made # <<>>
      <4>1. 1 \in 1 .. Len(made)
        BY <2>3, <3>2
      <4>2. Uniform
        BY <2>3, <2>6 DEF Uniform
      <4>3. made'[i].row.size = made[1].row.size
        BY <2>3, <2>6, <4>1 DEF Uniform
      <4>4. q \in PagesOf(content, TablesRoot)
            /\ (content[q].next # NoPage => content[q].room < made[1].row.size)
            /\ (file[q].next # NoPage => file[q].room < made[1].row.size)
        BY <2>2, <4>1, <4>2 DEF LinksFull
      <4> QED BY <2>2, <4>3, <4>4
    <3> QED BY <3>1, <3>2
  <2>7. ASSUME NEW q \in PagesOf(content', TablesRoot), file'[q] # Unwritten
        PROVE  /\ content'[q].room <= file'[q].room
               /\ \A k \in 1 .. Len(content'[q].rows) :
                    k <= Len(file'[q].rows) \/ content'[q].rows[k].size <= file'[q].room
    <3>1. /\ q \in PagesOf(content, TablesRoot) /\ file'[q] \in {content[q], file[q]}
          /\ content'[q] = content[q] \/ (content'[q] = file[q] /\ file'[q] = file[q])
      BY <2>2
    <3>2. CASE content'[q] = file'[q]
      <4>1. /\ content[q].room \in Nat /\ file[q].room \in Nat
            /\ Len(content[q].rows) \in Nat /\ Len(file[q].rows) \in Nat
        BY <2>1, <3>1, TablesPage
      <4>2. content'[q].room \in Nat /\ Len(content'[q].rows) \in Nat
        BY <3>1, <4>1
      <4> QED BY <3>2, <4>2
    <3>3. CASE content'[q] = content[q] /\ file'[q] = file[q]
      BY <2>7, <3>1, <3>3 DEF LinksFull
    <3> QED BY <3>1, <3>2, <3>3
  <2> QED BY <2>5, <2>6, <2>7 DEF LinksFull
<1> QED
  BY <1>1, <1>2, <1>3

\* Where every call found the catalog whole, the file and the pool agree on which pages of
\* db_tables are full.
THEOREM NameInvariant == CatalogSpec => [](sound => NameInv)
<1>1. CatalogInit => LinksFull
  <2>1. ASSUME CatalogInit
        PROVE  LinksFull
    <3>1. content[TablesRoot] = Unwritten /\ TablesRoot \in System
      BY <2>1, ConstantFacts DEF CatalogInit
    <3>2. PagesOf(content, TablesRoot) = {}
      BY <3>1, PagesLeast
    <3> QED BY <3>2 DEF LinksFull
  <2> QED BY <2>1
<1>2. /\ sound => SystemInv
      /\ sound => LinksFull
      /\ [CatalogNext]_catalogVars
      => (sound => LinksFull)'
  BY SoundStep, LinksFullKept
<1> QED
  BY <1>1, <1>2, SystemInvariant, PTL DEF CatalogSpec, NameInv

LEMMA NoPages ==
  ASSUME NEW disk, NEW root \in System, disk[root] = Unwritten
  PROVE  PagesOf(disk, root) = {}
BY PagesLeast

\* A heap ends with its largest page.
LEMMA EndsLast ==
  ASSUME NEW disk, LinkedUp(disk), NEW root \in System, NEW x \in PagesOf(disk, root),
         disk[x].next = NoPage \/ disk[disk[x].next] = Unwritten
  PROVE  \A z \in PagesOf(disk, root) : z <= x
<1> DEFINE T == {z \in PagesOf(disk, root) : z <= x}
<1>1. \A z \in PagesOf(disk, root) : z \in Page /\ z \in Nat /\ disk[z] # Unwritten
  BY PagesExist, ConstantFacts
<1>2. PICK j \in Steps(disk, root) : x = Walk(disk, root)[j]
  BY DEF PagesOf
<1>3. disk[root] # Unwritten /\ root \in PagesOf(disk, root) /\ root <= x
  <2>1. disk[root] # Unwritten
    BY NoPages
  <2>2. root \in PagesOf(disk, root)
    BY <2>1, PagesStart
  <2>3. Walk(disk, root)[0] = root /\ 0 \in Steps(disk, root) /\ j \in Nat
    <3>1. Walk(disk, root)[0] = root /\ 0 \in 0 .. MaxPages /\ j \in 0 .. MaxPages
      BY WalkSteps, WalkClimbs, ConstantFacts
    <3>2. ~ Ends(disk, root)
      BY <2>1, ConstantFacts DEF Ends
    <3> QED BY <3>1, <3>2 DEF Steps
  <2>4. j = 0 \/ 0 < j
    BY <2>3
  <2>5. root <= x
    <3>1. CASE j = 0
      BY <1>1, <1>2, <2>2, <2>3, <3>1
    <3>2. CASE 0 < j
      BY <1>1, <1>2, <2>2, <2>3, <3>2, WalkRises
    <3> QED BY <2>4, <3>1, <3>2
  <2> QED BY <2>1, <2>2, <2>5
<1>4. ASSUME NEW z \in T, disk[z].next # NoPage, disk[disk[z].next] # Unwritten
      PROVE  disk[z].next \in T
  <2>1. PICK y : y = disk[z].next
    OBVIOUS
  <2>2. y \in PagesOf(disk, root) /\ z < y
    BY <1>1, <1>4, <2>1, PagesFollow DEF LinkedUp
  <2>3. PICK i \in Steps(disk, root) : z = Walk(disk, root)[i]
    BY DEF PagesOf
  <2>4. i \in 0 .. MaxPages /\ j \in 0 .. MaxPages /\ i <= z /\ z < MaxPages
    BY <1>1, <1>2, <2>3, WalkClimbs, ConstantFacts DEF Page
  <2>5. i + 1 \in 1 .. MaxPages /\ i + 1 \in 0 .. MaxPages
    BY <1>1, <2>4, ConstantFacts
  <2>6. Walk(disk, root)[i + 1] = y
    <3>1. (i + 1) - 1 = i /\ ~ Ends(disk, z)
      BY <2>3, <2>4 DEF Steps
    <3>2. Walk(disk, root)[i + 1] = Onward(disk, Walk(disk, root)[(i + 1) - 1])
      BY <2>5, WalkSteps
    <3> QED BY <2>1, <2>3, <3>1, <3>2 DEF Onward
  <2>7. i + 1 \in Steps(disk, root)
    BY <1>4, <2>1, <2>5, <2>6 DEF Steps, Ends
  <2>8. z # x
    BY <1>4
  <2>9. z < x
    BY <1>1, <2>8
  <2>10. ~ (j < i) /\ j # i
    <3>1. j < i => x < z
      BY <1>2, <2>3, WalkRises
    <3> QED BY <1>1, <1>2, <2>3, <2>9, <3>1
  <2>11. i + 1 = j \/ i + 1 < j
    BY <2>4, <2>10
  <2>12. y <= x
    <3>1. CASE i + 1 = j
      BY <1>1, <1>2, <2>6, <3>1
    <3>2. CASE i + 1 < j
      <4>1. Walk(disk, root)[i + 1] < Walk(disk, root)[j]
        BY <2>7, <3>2, WalkRises
      <4> QED BY <1>1, <1>2, <2>2, <2>6, <4>1
    <3> QED BY <2>11, <3>1, <3>2
  <2> QED BY <2>1, <2>2, <2>12
<1>5. PagesOf(disk, root) \subseteq T
  <2>1. root \in T
    BY <1>3
  <2> HIDE DEF T
  <2> QED BY <1>4, <2>1, PagesLeast
<1> QED
  BY <1>5

\* A page that comes before one that an older version has is in that version, with a link.
LEMMA PagesBefore ==
  ASSUME NEW old, NEW new, LinkedUp(old), LinkedUp(new), Older(old, new), NEW root \in System,
         NEW p \in PagesOf(old, root), NEW q \in PagesOf(new, root), q < p
  PROVE  q \in PagesOf(old, root) /\ old[q].next # NoPage
<1> DEFINE T == {x \in PagesOf(new, root) :
                   p <= x \/ (x \in PagesOf(old, root) /\ old[x].next # NoPage)}
<1>1. /\ \A x \in PagesOf(old, root) : x \in Page /\ x \in Nat /\ old[x] # Unwritten
      /\ \A x \in PagesOf(new, root) : x \in Page /\ x \in Nat
  BY PagesExist, ConstantFacts
<1>2. ASSUME NEW x \in PagesOf(old, root), ~ (p <= x)
      PROVE  old[x].next # NoPage /\ old[old[x].next] # Unwritten
  BY <1>2, EndsLast
<1>3. root \in T
  <2>1. old[root] # Unwritten
    BY NoPages
  <2>2. root \in PagesOf(old, root) /\ root \in PagesOf(new, root)
    BY <2>1, PagesStart, OlderPages
  <2> QED BY <1>2, <2>2
<1>4. ASSUME NEW x \in T, new[x].next # NoPage, new[new[x].next] # Unwritten
      PROVE  new[x].next \in T
  <2>1. PICK y : y = new[x].next
    OBVIOUS
  <2>2. y \in PagesOf(new, root) /\ x < y
    <3>1. x \in PagesOf(new, root) /\ x \in Page
      BY <1>1
    <3>2. new[x] # Unwritten
      BY <3>1, PagesExist
    <3> QED BY <1>4, <2>1, <3>1, <3>2, PagesFollow DEF LinkedUp
  <2>3. CASE p <= x
    <3>1. p <= y
      BY <1>1, <2>2, <2>3
    <3> QED BY <2>1, <2>2, <3>1
  <2>4. CASE ~ (p <= x)
    <3>1. x \in PagesOf(old, root) /\ old[x].next # NoPage /\ old[old[x].next] # Unwritten
      BY <1>2, <2>4
    <3>2. y = old[x].next
      BY <1>1, <2>1, <3>1 DEF Older
    <3>3. y \in PagesOf(old, root)
      BY <3>1, <3>2, PagesFollow
    <3> QED BY <1>2, <2>1, <2>2, <3>3
  <2> QED BY <2>3, <2>4
<1>5. PagesOf(new, root) \subseteq T
  <2>1. new[root] = Unwritten \/ root \in T
    BY <1>3
  <2> HIDE DEF T
  <2> QED BY <1>4, <2>1, PagesLeast
<1>6. ~ (p <= q)
  BY <1>1
<1> QED
  BY <1>5, <1>6

\* A row of a name that the file has is not passed by another row of that name that the
\* file has not.
LEMMA NoneBefore ==
  ASSUME NameInv, NEW name, InInsertOrder(name),
         NEW f \in Places(file, TablesRoot), RowAt(file, f).name = name,
         NEW g \in Places(content, TablesRoot), RowAt(content, g).name = name
  PROVE  \/ RowAt(content, g) = RowAt(file, f)
         \/ g \in Places(file, TablesRoot)
         \/ Before(f, g)
<1>1. /\ CatInv /\ ColumnsIn /\ TablesIn /\ SystemFirst /\ LinksFull /\ TablesRoot \in System
      /\ content \in Disk /\ file \in Disk /\ LinkedUp(content) /\ LinkedUp(file)
      /\ Older(file, content) /\ Shorter(file, content)
  BY ConstantFacts
  DEF NameInv, SystemInv, TableInv, CatInv, Typed, Allocated, ColumnsIn
<1>2. f \in Places(content, TablesRoot) /\ RowAt(content, f) = RowAt(file, f)
  BY <1>1, PlacesRemain
<1>3. PICK x \in TablesMade, y \in TablesMade : x = RowAt(content, f) /\ y = RowAt(content, g)
  BY <1>1, <1>2 DEF TablesIn
<1>4. /\ f[1] \in PagesOf(file, TablesRoot) /\ f[2] \in Nat \ {0} /\ f[2] <= Len(file[f[1]].rows)
      /\ g[1] \in PagesOf(content, TablesRoot) /\ g[2] \in Nat \ {0}
      /\ g[2] <= Len(content[g[1]].rows) /\ g = <<g[1], g[2]>>
  BY DEF Places
<1>5. /\ f[1] \in PagesOf(content, TablesRoot) /\ f[1] \in Nat /\ g[1] \in Nat
      /\ Len(file[f[1]].rows) \in Nat
  BY <1>1, <1>2, <1>4, PlaceTyped, DiskRows, PagesExist
<1>6. ASSUME g[1] \in PagesOf(file, TablesRoot), g[2] <= Len(file[g[1]].rows)
      PROVE  g \in Places(file, TablesRoot)
  BY <1>4, <1>6 DEF Places
<1>7. CASE x \in SystemTables
  BY <1>1, <1>2, <1>3, <1>7 DEF SystemFirst
<1>8. CASE y \in SystemTables
  <2>1. g[1] = TablesRoot /\ (file[TablesRoot] = Unwritten \/ g[2] <= Len(file[TablesRoot].rows))
    BY <1>1, <1>3, <1>8 DEF SystemFirst
  <2>2. file[TablesRoot] # Unwritten
    BY <1>1, <1>4, NoPages
  <2> QED BY <1>1, <1>6, <2>1, <2>2, PagesStart
<1>9. CASE x \notin SystemTables /\ y \notin SystemTables
  <2>1. PICK i \in 1 .. Len(made), j \in 1 .. Len(made) : x = made[i].row /\ y = made[j].row
    BY <1>3, <1>9 DEF TablesMade
  <2>2. CASE i = j
    BY <1>2, <1>3, <2>1, <2>2
  <2>3. CASE i # j
    <3>1. i \in Named(name) /\ j \in Named(name)
      BY <1>2, <1>3, <2>1 DEF Named
    <3>2. Uniform
      BY <2>3, <3>1 DEF InInsertOrder, Uniform
    <3>3. CASE g[1] = f[1]
      <4>1. CASE f[2] < g[2]
        BY <3>3, <4>1 DEF Before
      <4>2. CASE ~ (f[2] < g[2])
        <5>1. g[2] <= Len(file[f[1]].rows)
          BY <1>4, <1>5, <4>2
        <5> QED BY <1>4, <1>6, <3>3, <5>1
      <4> QED BY <4>1, <4>2
    <3>4. CASE f[1] < g[1]
      BY <3>4 DEF Before
    <3>5. CASE g[1] < f[1]
      <4>1. g[1] \in PagesOf(file, TablesRoot) /\ file[g[1]].next # NoPage
        BY <1>1, <1>4, <3>5, PagesBefore
      <4>2. g[2] <= Len(file[g[1]].rows)
        <5> SUFFICES ASSUME ~ (g[2] <= Len(file[g[1]].rows))
                     PROVE  FALSE
          OBVIOUS
        <5>1. file[g[1]] # Unwritten
          BY <1>1, <4>1, PagesExist
        <5>2. content[g[1]].rows \in Seq(TableRow) /\ file[g[1]].room \in Nat
          BY <1>1, <1>4, TablesPage
        <5>3. g[2] \in 1 .. Len(content[g[1]].rows)
          BY <1>4, <5>2
        <5>4. y.size <= file[g[1]].room
          BY <1>1, <1>3, <1>4, <5>1, <5>3 DEF LinksFull, RowAt
        <5>5. file[g[1]].room < y.size
          BY <1>1, <1>4, <2>1, <3>2, <4>1 DEF LinksFull
        <5>6. y.size \in Nat
          <6>1. content[g[1]].rows[g[2]] \in TableRow
            BY <5>2, <5>3
          <6> QED BY <1>3, <6>1 DEF RowAt, TableRow
        <5> QED BY <5>2, <5>4, <5>5, <5>6
      <4> QED BY <1>6, <4>1, <4>2
    <3> QED BY <1>5, <3>3, <3>4, <3>5
  <2> QED BY <2>2, <2>3
<1> QED
  BY <1>7, <1>8, <1>9

\* The rows of tables in a file that is an older version of the pool.
LEMMA FileRows ==
  ASSUME CatInv
  PROVE  LinkedUp(file) /\ \A p \in PagesOf(file, TablesRoot) : file[p].rows \in Seq(TableRow)
BY OlderPages, TablesPage, ConstantFacts DEF CatInv, Allocated

LEMMA FileNamesStay ==
  ASSUME NameInv, [SoundNext]_catalogVars, file' # file, NEW name, InInsertOrder(name),
         Lookup(file, name) # NoTable
  PROVE  Lookup(file', name) = Lookup(file, name)
<1>1. CatInv /\ ColumnsIn /\ CatInv' /\ ColumnsIn' /\ TablesRoot \in System
  BY CatalogNextInv, CatalogNextColumns, ConstantFacts DEF NameInv, SystemInv, TableInv
<1>2. PICK f \in Places(file, TablesRoot) :
        /\ Lookup(file, name) = RowAt(file, f) /\ RowAt(file, f).name = name
        /\ \A other \in Places(file, TablesRoot) :
             RowAt(file, other).name = name => other = f \/ Before(f, other)
  <2>1. LinkedUp(file) /\ \A p \in PagesOf(file, TablesRoot) : file[p].rows \in Seq(TableRow)
    BY <1>1, FileRows
  <2> QED BY <2>1, TableFound
<1>3. content' = content
  <2>1. file[f[1]] # Unwritten /\ f[1] \in Page
    BY <1>1, PagesExist DEF Places, CatInv, Allocated
  <2>2. ~ BootstrapCatalogs
    BY <1>1, <2>1, BootstrapCatalogsKeeps
  <2> QED BY <2>2
    DEF SoundNext, LoadCatalogs, InsertRow, FlushAll, SoundCreateTable, CreateTable,
        CreateAs, CreateReturns, WriteBack, Restart, catalogVars
<1>4. /\ content \in Disk /\ file \in Disk /\ file' \in Disk
      /\ LinkedUp(content) /\ LinkedUp(file) /\ LinkedUp(file')
      /\ Older(file', content) /\ Shorter(file', content)
      /\ Older(file, file') /\ Shorter(file, file')
  BY <1>1, <1>3, FileGrows DEF CatInv, Typed, Allocated, ColumnsIn
<1>5. f \in Places(file', TablesRoot) /\ RowAt(file', f) = RowAt(file, f)
  BY <1>1, <1>4, PlacesRemain
<1>6. \A p \in PagesOf(file', TablesRoot) : file'[p].rows \in Seq(TableRow)
  <2>1. \A p \in PagesOf(content', TablesRoot) : file'[p].rows \in Seq(TableRow)
    BY <1>1, ConstantFacts DEF CatInv, Apart, RowsFor
  <2> QED BY <1>1, <1>3, <1>4, <2>1, OlderPages
<1>7. PICK g \in Places(file', TablesRoot) :
        /\ Lookup(file', name) = RowAt(file', g) /\ RowAt(file', g).name = name
        /\ \A other \in Places(file', TablesRoot) :
             RowAt(file', other).name = name => other = g \/ Before(g, other)
  BY <1>2, <1>4, <1>5, <1>6, TableFound
<1>8. f = g \/ Before(g, f)
  BY <1>2, <1>5, <1>7
<1>9. g \in Places(content, TablesRoot) /\ RowAt(content, g) = RowAt(file', g)
  BY <1>1, <1>4, PlacesRemain
<1>10. f \in Places(content, TablesRoot)
  BY <1>1, <1>4, <1>5, PlacesRemain
<1>11. ~ (Before(f, g) /\ Before(g, f)) /\ ~ Before(f, f)
  <2>1. f[1] \in Nat /\ f[2] \in Nat /\ g[1] \in Nat /\ g[2] \in Nat
    BY <1>1, <1>9, <1>10, PlaceTyped
  <2> QED BY <2>1 DEF Before
<1>12. \/ RowAt(content, g) = RowAt(file, f)
       \/ g \in Places(file, TablesRoot)
       \/ Before(f, g)
  BY <1>2, <1>7, <1>9, NoneBefore
<1>13. CASE RowAt(content, g) = RowAt(file, f)
  BY <1>2, <1>7, <1>9, <1>13
<1>14. CASE g \in Places(file, TablesRoot)
  <2>1. RowAt(file, g).name = name
    BY <1>1, <1>4, <1>7, <1>14, PlacesRemain
  <2>2. g = f
    BY <1>2, <1>8, <1>11, <1>14, <2>1
  <2> QED BY <1>2, <1>5, <1>7, <2>2
<1>15. CASE Before(f, g)
  BY <1>2, <1>5, <1>7, <1>8, <1>11, <1>15
<1> QED
  BY <1>12, <1>13, <1>14, <1>15

\* A name that the file resolves keeps resolving to the same table, through evictions,
\* crashes and later tables of that name, if every call found the catalog whole and rows
\* are scanned in the order of their inserts.
THEOREM NamesAreDurable == CatalogSpec => DurableNamesStable
<1>1. (sound => NameInv) /\ [CatalogNext]_catalogVars =>
        [\A name \in Name :
           (sound /\ Lookup(file, name) # NoTable /\ InInsertOrder(name))
             => Lookup(file', name) = Lookup(file, name)]_file
  <2> SUFFICES ASSUME sound, NameInv, [CatalogNext]_catalogVars, file' # file, NEW name \in Name,
                      Lookup(file, name) # NoTable, InInsertOrder(name)
               PROVE  Lookup(file', name) = Lookup(file, name)
    BY Zenon
  <2>1. sound'
    BY DEF CatalogNext, LoadCatalogs, InsertRow, InsertLost, FlushAll, CreateTable, CreateAs,
           CreateReturns, LookupLost, WriteBack, BootstrapCatalogs, Restart, catalogVars
  <2> QED BY <2>1, SoundStep, FileNamesStay
<1> QED
  BY <1>1, NameInvariant, PTL DEF CatalogSpec, DurableNamesStable

----------------------------------------------------------------------------
(* What follows.                                                           *)

\* A page of rows of one heap is a heap page.
LEMMA HeapPagesOK ==
  ASSUME NEW page \in HeapPage
  PROVE  IsHeapPage(page)
<1>1. /\ DOMAIN page = DOMAIN EmptyPage /\ page.kind = "heap"
      /\ page.next \in {NoPage} \cup (TypesRoot + 1 .. MaxPages - 1)
      /\ page.room \in 0 .. Capacity /\ page.rows \in RowSeqs
  BY DEF HeapPage, EmptyPage, Unwritten
<1>2. PICK kind \in {TableRow, ColumnRow, TypeRow} : page.rows \in Seq(kind)
  BY <1>1 DEF RowSeqs
<1>3. \E fields \in Fields : \A row \in kind : DOMAIN row = fields
  <2>1. \A row \in TableRow : DOMAIN row = {"id", "name", "first", "size"}
    BY DEF TableRow
  <2>2. \A row \in ColumnRow : DOMAIN row = {"table", "position", "size"}
    BY DEF ColumnRow
  <2>3. \A row \in TypeRow : DOMAIN row = {"type", "size"}
    BY DEF TypeRow
  <2> QED BY <2>1, <2>2, <2>3 DEF Fields
<1>4. \A i \in 1 .. Len(page.rows) : page.rows[i] \in kind
  BY <1>2
<1> QED
  BY <1>1, <1>3, <1>4 DEF IsHeapPage

\* What holds of every catalog, of one that a crash left broken too: page ids are counted
\* up, and the file has pages of the pool only.
PlainDisk(disk) ==
  /\ DOMAIN disk = Page
  /\ \A p \in Page : disk[p] # Unwritten =>
       DOMAIN disk[p] = DOMAIN EmptyPage /\ disk[p].kind # "unwritten"

Plain ==
  /\ PlainDisk(content) /\ PlainDisk(file)
  /\ \A p \in Page : content[p] # Unwritten => p < nextPageId
  /\ \A p \in Page : file[p] # Unwritten => content[p] # Unwritten
  /\ nextPageId \in 0 .. MaxPages
  /\ phase \in {"closed", "bootstrap", "open", "create", "undefined"}
  /\ todo \in Seq(Insertion)
  /\ made \in Seq([row : TableRow, sizes : Schema]) /\ Len(made) <= MaxTables
  /\ \A i \in 1 .. Len(made) : made[i].row.id = TypesRoot + i
  /\ flushed \subseteq kept
  /\ kept \subseteq {made[i].row.id : i \in 1 .. Len(made)}
  /\ booted \in BOOLEAN /\ sound \in BOOLEAN

\* Pages that exist, and the first pages of tables among them, stay as they are known.
LEMMA PlainPages ==
  /\ DOMAIN EmptyPage = {"kind", "rows", "room", "next"} /\ EmptyPage.kind # "unwritten"
  /\ DOMAIN Header = DOMAIN EmptyPage /\ Header.kind # "unwritten"
  /\ EmptyPage # Unwritten /\ Header # Unwritten
  /\ \A page : (DOMAIN page = DOMAIN EmptyPage /\ page.kind # "unwritten") => page # Unwritten
<1>1. Unwritten.kind = "unwritten"
  BY DEF Unwritten
<1> QED
  BY <1>1 DEF EmptyPage, Header, Unwritten

LEMMA PlainMade ==
  ASSUME Plain, NEW i \in 1 .. Len(made)
  PROVE  made[i].row.first \in Page /\ made[i].row.id = TypesRoot + i
<1> DEFINE M == [row : TableRow, sizes : Schema]
<1>1. made \in Seq(M)
  BY DEF Plain
<1>2. made[i] \in M
  <2> HIDE DEF M
  <2> QED BY <1>1
<1>3. made[i].row \in TableRow
  BY <1>2
<1> QED
  BY <1>3 DEF TableRow, Plain

LEMMA PlainBootstrap ==
  ASSUME Plain, FirstPages, BootstrapCatalogs
  PROVE  Plain' /\ FirstPages'
<1>1. /\ nextPageId = 0 /\ phase' = "bootstrap" /\ nextPageId' = TypesRoot + 1
      /\ file' = [file EXCEPT ![0] = Header]
      /\ content' = [content EXCEPT ![0] = Header, ![TablesRoot] = EmptyPage,
                                    ![AttributesRoot] = EmptyPage, ![TypesRoot] = EmptyPage]
      /\ todo' = InsertBuiltinTypes \o InsertCatalogMetadata
      /\ UNCHANGED <<made, kept, flushed, booted, sound>>
  BY DEF BootstrapCatalogs
<1>2. \A p \in Page : content[p] = Unwritten /\ file[p] = Unwritten
  <2>1. \A p \in Page : ~ (p < 0)
    BY DEF Page
  <2> QED BY <1>1, <2>1 DEF Plain
<1>3. /\ DOMAIN file' = Page /\ DOMAIN content' = Page
      /\ \A p \in Page : file'[p] = IF p = 0 THEN Header ELSE Unwritten
      /\ \A p \in Page : content'[p] =
           IF p = 0 THEN Header ELSE IF p \in System THEN EmptyPage ELSE Unwritten
  BY <1>1, <1>2, ConstantFacts DEF Plain, PlainDisk
<1>4. PlainDisk(content') /\ PlainDisk(file')
  BY <1>3, PlainPages DEF PlainDisk
<1>5. /\ \A p \in Page : content'[p] # Unwritten => p < nextPageId'
      /\ \A p \in Page : file'[p] # Unwritten => content'[p] # Unwritten
      /\ nextPageId' \in 0 .. MaxPages
  <2>1. TypesRoot + 1 \in 0 .. MaxPages
    BY ConstantFacts
  <2>2. \A p \in System \cup {0} : p < TypesRoot + 1
    BY ConstantFacts
  <2> QED BY <1>1, <1>3, <2>1, <2>2, PlainPages
<1>6. Plain'
  BY <1>1, <1>4, <1>5, BootstrapTyped DEF Plain
<1>7. \A i \in 1 .. Len(made) : made[i].row.id \notin kept
  <2>1. \A i \in 1 .. Len(made) : made[i].row.first \in Page
    BY PlainMade
  <2> QED BY <1>2, <2>1 DEF FirstPages
<1>8. \A i \in 1 .. Len(made) : made[i].row.id \notin flushed
  BY <1>7 DEF Plain
<1>9. FirstPages'
  BY <1>1, <1>7, <1>8 DEF FirstPages
<1> QED
  BY <1>6, <1>9

\* An insert puts rows and links on pages that exist, or on the next page.
LEMMA PlainInsert ==
  ASSUME Plain, FirstPages, InsertRow
  PROVE  Plain' /\ FirstPages'
<1>1. /\ UNCHANGED <<file, phase, made, kept, flushed, booted, sound>>
      /\ todo # <<>> /\ todo' = Tail(todo)
  BY DEF InsertRow
<1>2. PICK root, row : root = Head(todo)[1] /\ row = Head(todo)[2]
  OBVIOUS
<1>3. PICK at : at = Walk(content, root)
  OBVIOUS
<1>4. PICK steps : steps = Steps(content, root)
  OBVIOUS
<1>5. \A i \in steps : content[at[i]] # Unwritten
  BY <1>3, <1>4 DEF Steps, Ends
<1>6. \/ \E i \in steps : /\ content' = [content EXCEPT ![at[i]] = WithRow(@, row)]
                          /\ nextPageId' = nextPageId
      \/ \E i \in steps, page \in {EmptyPage, WithRow(EmptyPage, row)} :
           /\ nextPageId < MaxPages /\ nextPageId' = nextPageId + 1
           /\ content' = [content EXCEPT ![at[i]].next = nextPageId, ![nextPageId] = page]
  BY <1>2, <1>3, <1>4 DEF InsertRow
<1> DEFINE IsPlain(page) == DOMAIN page = DOMAIN EmptyPage /\ page.kind # "unwritten"
<1>7. ASSUME NEW page, IsPlain(page)
      PROVE  IsPlain(WithRow(page, row)) /\ \A n : IsPlain([page EXCEPT !.next = n])
  BY <1>7, PlainPages DEF WithRow
<1>8. IsPlain(EmptyPage) /\ IsPlain(WithRow(EmptyPage, row))
  BY <1>7, PlainPages
<1>9. DOMAIN content = Page /\ \A p \in Page : content[p] # Unwritten => IsPlain(content[p])
  BY DEF Plain, PlainDisk
<1>10. \A page : IsPlain(page) => page # Unwritten
  BY PlainPages
<1>11. nextPageId \in Nat /\ MaxPages \in Nat /\ Page \subseteq Nat
  BY ConstantFacts DEF Plain
<1> HIDE DEF IsPlain
<1>12. /\ DOMAIN content' = Page
       /\ \A p \in Page : \/ content'[p] = content[p]
                          \/ content[p] # Unwritten /\ IsPlain(content'[p])
                          \/ p < nextPageId' /\ IsPlain(content'[p])
       /\ nextPageId' \in 0 .. MaxPages /\ nextPageId <= nextPageId'
  <2>1. CASE \E i \in steps : /\ content' = [content EXCEPT ![at[i]] = WithRow(@, row)]
                              /\ nextPageId' = nextPageId
    <3>1. PICK i \in steps : /\ content' = [content EXCEPT ![at[i]] = WithRow(@, row)]
                             /\ nextPageId' = nextPageId
      BY <2>1
    <3>2. PICK q : q = at[i]
      OBVIOUS
    <3>3. content[q] # Unwritten /\ content' = [content EXCEPT ![q] = WithRow(@, row)]
      BY <1>5, <3>1, <3>2
    <3>4. \A p \in Page :
            content'[p] = IF p = q THEN WithRow(content[q], row) ELSE content[p]
      BY <1>9, <3>3
    <3>5. DOMAIN content' = Page
      BY <1>9, <3>3
    <3>6. nextPageId' \in 0 .. MaxPages /\ nextPageId <= nextPageId'
      BY <1>11, <3>1 DEF Plain
    <3> QED BY <1>7, <1>9, <3>3, <3>4, <3>5, <3>6
  <2>2. CASE \E i \in steps, page \in {EmptyPage, WithRow(EmptyPage, row)} :
               /\ nextPageId < MaxPages /\ nextPageId' = nextPageId + 1
               /\ content' = [content EXCEPT ![at[i]].next = nextPageId, ![nextPageId] = page]
    <3>1. PICK i \in steps, page \in {EmptyPage, WithRow(EmptyPage, row)} :
            /\ nextPageId < MaxPages /\ nextPageId' = nextPageId + 1
            /\ content' = [content EXCEPT ![at[i]].next = nextPageId, ![nextPageId] = page]
      BY <2>2
    <3>2. PICK q, n : q = at[i] /\ n = nextPageId
      OBVIOUS
    <3>3. content[q] # Unwritten /\ IsPlain(page)
          /\ content' = [content EXCEPT ![q].next = n, ![n] = page]
      BY <1>5, <1>8, <3>1, <3>2
    <3>4. \A p \in Page :
            content'[p] = IF p = n THEN page
                          ELSE IF p = q THEN [content[q] EXCEPT !.next = n] ELSE content[p]
      BY <1>9, <3>3
    <3>5. DOMAIN content' = Page
      BY <1>9, <3>3
    <3>6. nextPageId' \in 0 .. MaxPages /\ nextPageId <= nextPageId' /\ n < nextPageId'
      BY <1>11, <3>1, <3>2
    <3> QED BY <1>7, <1>9, <3>3, <3>4, <3>5, <3>6
  <2> QED BY <1>6, <2>1, <2>2
<1>13. /\ \A p \in Page : content[p] # Unwritten => content'[p] # Unwritten
       /\ \A p \in Page : content'[p] # Unwritten => p < nextPageId' /\ IsPlain(content'[p])
  <2>1. \A p \in Page : content[p] # Unwritten => p < nextPageId'
    <3>1. \A p \in Page : content[p] # Unwritten => p < nextPageId
      BY DEF Plain
    <3> QED BY <1>11, <1>12, <3>1
  <2> QED BY <1>9, <1>10, <1>12, <2>1
<1>14. PlainDisk(content')
  BY <1>12, <1>13 DEF PlainDisk, IsPlain
<1>15. Tail(todo) \in Seq(Insertion)
  BY <1>1 DEF Plain
<1>16. Plain'
  BY <1>1, <1>12, <1>13, <1>14, <1>15 DEF Plain
<1>17. FirstPages'
  <2>1. \A i \in 1 .. Len(made) : made[i].row.first \in Page
    BY PlainMade
  <2>2. Len(made) \in Nat
    BY DEF Plain
  <2>3. Len(made) # 0 => Len(made) \in 1 .. Len(made)
    BY <2>2
  <2> QED BY <1>1, <1>13, <2>1, <2>3 DEF FirstPages
<1> QED
  BY <1>16, <1>17

\* A new table has the next page id, whatever a chain says of that page.
LEMMA PlainCreate ==
  ASSUME Plain, FirstPages, NEW name \in Name, NEW sizes \in Schema, CreateTable(name, sizes)
  PROVE  Plain' /\ FirstPages'
<1>1. PICK id : id = FirstUserId + Len(made)
  OBVIOUS
<1>2. PICK row : row = TableInfo(id, name, nextPageId)
  OBVIOUS
<1>3. /\ phase' = "create" /\ Len(made) < MaxTables
      /\ nextPageId < MaxPages /\ nextPageId' = nextPageId + 1
      /\ todo' = Inserts(TablesRoot, <<row>>) \o Inserts(AttributesRoot, Columns(id, sizes))
      /\ made' = Append(made, [row |-> row, sizes |-> sizes])
      /\ content' = [content EXCEPT ![nextPageId] = EmptyPage]
      /\ sound' = (sound /\ Sound)
      /\ UNCHANGED <<file, kept, flushed, booted>>
  BY <1>1, <1>2 DEF CreateTable, CreateAs
<1>4. PICK n : n = nextPageId
  OBVIOUS
<1>5. n \in Page /\ n \in Nat /\ content[n] = Unwritten
  <2>1. n \in Nat /\ n \in Page
    BY <1>3, <1>4, ConstantFacts DEF Plain, Page
  <2> QED BY <1>4, <2>1 DEF Plain
<1>6. /\ DOMAIN content' = Page
      /\ \A p \in Page : content'[p] = IF p = n THEN EmptyPage ELSE content[p]
  BY <1>3, <1>4 DEF Plain, PlainDisk
<1>7. Len(made) \in Nat /\ MaxTables \in Nat
  BY ConstantFacts DEF Plain
<1>8. id \in Id /\ id = TypesRoot + (Len(made) + 1)
  BY <1>1, <1>3, <1>7, ConstantFacts DEF Id, FirstUserId
<1>9. row \in TableRow /\ row.id = id /\ row.first = n
      /\ Inserts(TablesRoot, <<row>>) \in Seq(Insertion)
  BY <1>2, <1>4, <1>5, <1>8, TableInfoTyped DEF TableInfo
<1>10. todo' \in Seq(Insertion)
  <2>1. sizes \in Seq(Nat \ {0})
    BY CatalogAssumption
  <2>2. Inserts(AttributesRoot, Columns(id, sizes)) \in Seq(Insertion)
    BY <1>8, <2>1, ColumnInsertsTyped
  <2> QED BY <1>3, <1>9, <2>2
<1>11. PICK table : table = [row |-> row, sizes |-> sizes]
  OBVIOUS
<1> DEFINE M == [row : TableRow, sizes : Schema]
<1>12. table \in M /\ table.row = row
  BY <1>9, <1>11
<1>13. made \in Seq(M) /\ made' = Append(made, table)
  BY <1>3, <1>11 DEF Plain
<1> HIDE DEF M
<1>14. /\ made' \in Seq(M) /\ Len(made') = Len(made) + 1
       /\ \A i \in 1 .. Len(made') :
            \/ i \in 1 .. Len(made) /\ i < Len(made') /\ made'[i] = made[i]
            \/ i = Len(made') /\ made'[i] = table
       /\ \A i \in 1 .. Len(made) : i \in 1 .. Len(made') /\ made'[i] = made[i]
  BY <1>7, <1>12, <1>13
<1>15. PlainDisk(content')
  BY <1>6, PlainPages DEF Plain, PlainDisk
<1>16. /\ \A p \in Page : content'[p] # Unwritten => p < nextPageId'
       /\ \A p \in Page : content[p] # Unwritten => content'[p] # Unwritten
       /\ nextPageId' \in 0 .. MaxPages
  <2>1. nextPageId' = n + 1 /\ n + 1 \in 0 .. MaxPages /\ \A p \in Page : p < n => p < n + 1
    BY <1>3, <1>4, <1>5, ConstantFacts
  <2> QED BY <1>4, <1>5, <1>6, <2>1, PlainPages DEF Plain
<1>17. \A i \in 1 .. Len(made') : made'[i].row.id = TypesRoot + i
  BY <1>8, <1>9, <1>12, <1>14 DEF Plain
<1>18. /\ Len(made') <= MaxTables
       /\ kept \subseteq {made'[i].row.id : i \in 1 .. Len(made')}
  <2>1. kept \subseteq {made[i].row.id : i \in 1 .. Len(made)}
    BY DEF Plain
  <2> QED BY <1>3, <1>7, <1>14, <2>1
<1>19. sound' \in BOOLEAN
  BY <1>3, Zenon
<1>20. Plain'
  <2>1. made' \in Seq([row : TableRow, sizes : Schema])
    BY <1>14 DEF M
  <2> QED BY <1>3, <1>10, <1>15, <1>16, <1>17, <1>18, <1>19, <2>1 DEF Plain
<1>21. FirstPages'
  <2>1. made'[Len(made')].row.first = n /\ Len(made') # 0
    <3>1. Len(made') \in 1 .. Len(made') /\ ~ (Len(made') < Len(made')) /\ Len(made') # 0
      BY <1>7, <1>14
    <3> QED BY <1>9, <1>12, <1>14, <3>1
  <2>2. content'[n] # Unwritten
    BY <1>5, <1>6, PlainPages
  <2>3. ASSUME NEW i \in 1 .. Len(made'), made'[i].row.id \in kept
        PROVE  i \in 1 .. Len(made) /\ made'[i] = made[i]
    <3>1. PICK j \in 1 .. Len(made) : made'[i].row.id = made[j].row.id
      BY <2>3 DEF Plain
    <3>2. TypesRoot + i = TypesRoot + j
      BY <1>17, <3>1 DEF Plain
    <3>3. i = j
      BY <1>7, <1>14, <3>2, ConstantFacts
    <3> QED BY <1>14, <3>3
  <2>4. ASSUME NEW i \in 1 .. Len(made), made[i].row.id \in kept
        PROVE  /\ content'[made[i].row.first] # Unwritten
               /\ \A j \in 1 .. Len(made') : i < j => made'[j].row.first # made[i].row.first
    <3>1. made[i].row.first \in Page /\ content[made[i].row.first] # Unwritten
          /\ \A j \in 1 .. Len(made) : i < j => made[j].row.first # made[i].row.first
      BY <2>4, PlainMade DEF FirstPages
    <3>2. made[i].row.first # n
      BY <1>5, <3>1
    <3> QED BY <1>9, <1>12, <1>14, <1>16, <3>1, <3>2
  <2>5. kept' = kept /\ flushed' = flushed /\ file' = file /\ flushed \subseteq kept
    BY <1>3 DEF Plain
  <2>6. \A i \in 1 .. Len(made') : made'[i].row.id \in kept' =>
          /\ content'[made'[i].row.first] # Unwritten
          /\ \A j \in 1 .. Len(made') : i < j => made'[j].row.first # made'[i].row.first
    BY <2>3, <2>4, <2>5
  <2>7. \A i \in 1 .. Len(made') :
          made'[i].row.id \in flushed' => file'[made'[i].row.first] # Unwritten
    BY <2>3, <2>5 DEF FirstPages
  <2> QED BY <2>1, <2>2, <2>6, <2>7 DEF FirstPages
<1> QED
  BY <1>20, <1>21

LEMMA PlainReturns ==
  ASSUME Plain, FirstPages, CreateReturns
  PROVE  Plain' /\ FirstPages'
<1>1. /\ UNCHANGED <<content, file, nextPageId, todo, made, flushed, booted, sound>>
      /\ phase = "create" /\ phase' = "open" /\ kept' = kept \cup {Last(made).row.id}
  BY DEF CreateReturns
<1>2. Len(made) \in Nat /\ Len(made) # 0 /\ Len(made) \in 1 .. Len(made)
  <2>1. Len(made) \in Nat
    BY DEF Plain
  <2> QED BY <1>1, <2>1 DEF FirstPages
<1>3. Last(made) = made[Len(made)]
  BY DEF Last
<1>4. Plain'
  BY <1>1, <1>2, <1>3 DEF Plain
<1>5. ASSUME NEW i \in 1 .. Len(made), made[i].row.id \in kept'
      PROVE  /\ content[made[i].row.first] # Unwritten
             /\ \A j \in 1 .. Len(made) : i < j => made[j].row.first # made[i].row.first
  <2>1. CASE made[i].row.id \in kept
    BY <2>1 DEF FirstPages
  <2>2. CASE made[i].row.id = made[Len(made)].row.id
    <3>1. i = Len(made)
      <4>1. TypesRoot + i = TypesRoot + Len(made)
        BY <1>2, <2>2 DEF Plain
      <4> QED BY <1>2, <4>1, ConstantFacts
    <3>2. \A j \in 1 .. Len(made) : ~ (i < j)
      BY <1>2, <3>1
    <3> QED BY <1>1, <3>1, <3>2 DEF FirstPages
  <2> QED BY <1>1, <1>3, <1>5, <2>1, <2>2
<1>6. FirstPages'
  BY <1>1, <1>5 DEF FirstPages
<1> QED
  BY <1>4, <1>6

\* What is written, by an eviction or a flush, is in the pool.
LEMMA PlainWrites ==
  ASSUME Plain, FirstPages, FlushAll \/ \E p \in Page : WriteBack(p)
  PROVE  Plain' /\ FirstPages'
<1>1. CASE FlushAll
  <2>1. /\ UNCHANGED <<content, nextPageId, todo, made, kept, sound>>
        /\ file' = content /\ phase' = "open" /\ flushed' = kept
        /\ booted' = (booted \/ phase = "bootstrap")
    BY <1>1 DEF FlushAll
  <2>2. booted' \in BOOLEAN
    BY <2>1, Zenon
  <2>3. Plain'
    BY <2>1, <2>2 DEF Plain
  <2>4. FirstPages'
    BY <2>1 DEF FirstPages
  <2> QED BY <2>3, <2>4
<1>2. CASE \E p \in Page : WriteBack(p)
  <2>1. PICK w \in Page : WriteBack(w)
    BY <1>2
  <2>2. /\ UNCHANGED <<content, nextPageId, phase, todo, made, kept, flushed, booted, sound>>
        /\ file' = [file EXCEPT ![w] = content[w]] /\ content[w] # Unwritten
    BY <2>1 DEF WriteBack, Exists
  <2>3. /\ DOMAIN file' = Page
        /\ \A p \in Page : file'[p] = IF p = w THEN content[w] ELSE file[p]
    BY <2>2 DEF Plain, PlainDisk
  <2>4. Plain'
    <3>1. PlainDisk(file')
      BY <2>2, <2>3 DEF Plain, PlainDisk
    <3> QED BY <2>2, <2>3, <3>1 DEF Plain
  <2>5. FirstPages'
    <3>1. \A i \in 1 .. Len(made) : made[i].row.first \in Page
      BY PlainMade
    <3> QED BY <2>2, <2>3, <3>1 DEF FirstPages
  <2> QED BY <2>4, <2>5
<1> QED
  BY <1>1, <1>2

LEMMA PlainRestart ==
  ASSUME Plain, FirstPages, Restart
  PROVE  Plain' /\ FirstPages'
<1>1. /\ content' = file /\ nextPageId' = NumPages /\ phase' = "closed" /\ todo' = <<>>
      /\ kept' = flushed /\ UNCHANGED <<file, made, flushed, booted, sound>>
  BY DEF Restart
<1>2. <<>> \in Seq(Insertion)
  OBVIOUS
<1>3. Plain'
  BY <1>1, <1>2, NumPagesCounts DEF Plain
<1>4. FirstPages'
  <2>1. \A i \in 1 .. Len(made) : made[i].row.id \in flushed => made[i].row.id \in kept
    BY DEF Plain
  <2> QED BY <1>1, <2>1 DEF FirstPages
<1> QED
  BY <1>3, <1>4

LEMMA PlainKept ==
  ASSUME Plain, FirstPages, [CatalogNext]_catalogVars
  PROVE  Plain' /\ FirstPages'
<1>1. CASE LoadCatalogs
  <2>1. /\ UNCHANGED <<content, file, nextPageId, todo, made, kept, flushed, booted, sound>>
        /\ phase' = "open"
    BY <1>1 DEF LoadCatalogs
  <2> QED BY <2>1 DEF Plain, FirstPages
<1>2. CASE InsertLost \/ LookupLost
  <2>1. /\ UNCHANGED <<content, file, nextPageId, made, kept, flushed, booted>>
        /\ phase' = "undefined" /\ sound' = FALSE /\ todo' \in Seq(Insertion)
    <3>1. <<>> \in Seq(Insertion)
      OBVIOUS
    <3> QED BY <1>2, <3>1 DEF InsertLost, LookupLost, Plain
  <2> QED BY <2>1 DEF Plain, FirstPages
<1>3. CASE UNCHANGED catalogVars
  BY <1>3 DEF catalogVars, Plain, FirstPages
<1> QED
  BY <1>1, <1>2, <1>3, PlainBootstrap, PlainInsert, PlainCreate, PlainReturns, PlainWrites,
     PlainRestart
  DEF CatalogNext

\* Page ids, and what is known of tables, whatever calls found.
THEOREM PlainInvariant == CatalogSpec => [](Plain /\ FirstPages)
<1>1. ASSUME CatalogInit
      PROVE  Plain /\ FirstPages
  <2>1. /\ content = [p \in Page |-> Unwritten] /\ file = [p \in Page |-> Unwritten]
        /\ nextPageId = 0 /\ phase = "closed" /\ todo = <<>> /\ made = <<>> /\ kept = {}
        /\ flushed = {} /\ booted = FALSE /\ sound = TRUE
    BY <1>1 DEF CatalogInit
  <2>2. /\ <<>> \in Seq(Insertion) /\ <<>> \in Seq([row : TableRow, sizes : Schema])
        /\ Len(made) = 0 /\ 1 .. Len(made) = {}
    BY <2>1
  <2>3. Plain
    BY <2>1, <2>2, ConstantFacts DEF Plain, PlainDisk
  <2>4. FirstPages
    BY <2>1, <2>2 DEF FirstPages
  <2> QED BY <2>3, <2>4
<1>2. Plain /\ FirstPages /\ [CatalogNext]_catalogVars => (Plain /\ FirstPages)'
  BY PlainKept
<1> QED
  BY <1>1, <1>2, PTL DEF CatalogSpec

\* Where every call found the catalog whole, no page, in the pool or in the file, has rows
\* of two catalog heaps.  Wherever a call went, calls insert into the catalog heaps only,
\* and the tables that a flush keeps were returned.
THEOREM CatalogTypeCorrect == CatalogSpec => []CatalogTypeOK
<1>1. ASSUME NEW disk \in Disk, disk[0] \in {Unwritten, Header}
      PROVE  PagesOK(disk)
  <2>1. \A p \in Page \ {0} : disk[p] = Unwritten \/ disk[p] \in HeapPage
    BY DiskPages
  <2>2. DOMAIN disk = Page
    BY DEF Disk
  <2> QED BY <1>1, <2>1, <2>2, HeapPagesOK DEF PagesOK
<1>2. (sound => CatInv) /\ Plain => CatalogTypeOK
  <2> SUFFICES ASSUME sound => CatInv, Plain
               PROVE  CatalogTypeOK
    OBVIOUS
  <2>1. sound => PagesOK(content) /\ PagesOK(file)
    BY <1>1 DEF CatInv, Typed
  <2>2. \A i \in 1 .. Len(todo) : todo[i][1] \in System
    <3>1. \A i \in 1 .. Len(todo) : todo[i] \in Insertion
      BY DEF Plain
    <3> QED BY <3>1 DEF Insertion
  <2>3. kept \subseteq Id \ System
    <3>1. ASSUME NEW i \in 1 .. Len(made)
          PROVE  made[i].row.id \in Id \ System
      <4>1. Len(made) \in Nat /\ Len(made) <= MaxTables /\ made[i].row.id = TypesRoot + i
        BY DEF Plain
      <4> QED BY <4>1, ConstantFacts DEF Id, System
    <3> QED BY <3>1 DEF Plain
  <2> QED BY <2>1, <2>2, <2>3 DEF CatalogTypeOK, Plain
<1> QED
  BY <1>2, CatalogInvariant, PlainInvariant, PTL

\* A table that was flushed keeps its first page: no process after it, whatever a crash
\* left of the file and whatever calls made of that, gives the page to a table made later.
THEOREM FlushedPagesKept == CatalogSpec => []FlushedTablesKeepTheirPages
<1>1. Plain /\ FirstPages => FlushedTablesKeepTheirPages
  <2> SUFFICES ASSUME Plain, FirstPages, NEW id \in flushed
               PROVE  /\ Made(id).row.first < nextPageId
                      /\ \A i \in 1 .. Len(made) :
                           made[i].row.id > id => made[i].row.first # Made(id).row.first
    BY DEF FlushedTablesKeepTheirPages
  <2>1. PICK k \in 1 .. Len(made) : id = made[k].row.id
    BY DEF Plain
  <2>2. made[k].row.id \in kept
    BY <2>1 DEF Plain
  <2>3. id = TypesRoot + k /\ Made(id) = made[k]
    <3>1. id = TypesRoot + k
      BY <2>1, PlainMade
    <3>2. id - TypesRoot = k
      BY <3>1, ConstantFacts
    <3> QED BY <3>1, <3>2 DEF Made
  <2>4. made[k].row.first \in Page /\ content[made[k].row.first] # Unwritten
    BY <2>2, PlainMade DEF FirstPages
  <2>5. made[k].row.first < nextPageId
    BY <2>4 DEF Plain
  <2>6. ASSUME NEW i \in 1 .. Len(made), made[i].row.id > id
        PROVE  made[i].row.first # made[k].row.first
    <3>1. made[i].row.id = TypesRoot + i
      BY PlainMade
    <3>2. k < i
      BY <2>3, <2>6, <3>1, ConstantFacts
    <3> QED BY <2>2, <3>2 DEF FirstPages
  <2> QED BY <2>3, <2>5, <2>6
<1> QED
  BY <1>1, PlainInvariant, PTL

\* A catalog under a TableManager does what a catalog does: OpenTable() changes
\* nothing that is stored.
THEOREM ManagedCatalog == Spec => CatalogSpec
<1>1. Init => CatalogInit
  BY DEF Init
<1>2. [Next]_vars => [CatalogNext]_catalogVars
  BY DEF Next, CatalogStep, OpenTable, vars
<1> QED
  BY <1>1, <1>2, PTL DEF Spec, CatalogSpec

----------------------------------------------------------------------------
(* The cache of a TableManager: a table that was opened has all its rows,   *)
(* or never gets the others, so that what was read of it stays true.        *)

\* Two lists of the same rows at the same places are the same.
LEMMA SameOrder ==
  ASSUME NEW S, NEW list \in Seq(S), NEW other \in Seq(S), NEW disk, NEW new, NEW places, NEW a, NEW b,
         Lists(a, list, disk, places), Lists(b, other, new, places),
         \A place \in places : /\ place[1] \in Nat /\ place[2] \in Nat
                               /\ RowAt(disk, place) = RowAt(new, place)
  PROVE  list = other
<1> DEFINE Same(k) == k \in 1 .. Len(other) /\ a[k] = b[k]
           Bad == {k \in 1 .. Len(list) : ~ Same(k)}
<1>1. /\ Len(list) \in Nat /\ Len(other) \in Nat
      /\ \A k \in 1 .. Len(list) : a[k] \in places /\ list[k] = RowAt(disk, a[k])
      /\ \A k \in 1 .. Len(other) : b[k] \in places /\ other[k] = RowAt(new, b[k])
      /\ \A k, l \in 1 .. Len(list) : k < l => Before(a[k], a[l])
      /\ \A k, l \in 1 .. Len(other) : k < l => Before(b[k], b[l])
      /\ \A place \in places : \E k \in 1 .. Len(list) : a[k] = place
      /\ \A place \in places : \E k \in 1 .. Len(other) : b[k] = place
  <2>1. a \in [1 .. Len(list) -> places] /\ b \in [1 .. Len(other) -> places]
    BY DEF Lists
  <2>2. /\ \A k \in 1 .. Len(list) : list[k] = RowAt(disk, a[k])
        /\ \A k, l \in 1 .. Len(list) : k < l => Before(a[k], a[l])
        /\ \A place \in places : \E k \in 1 .. Len(list) : a[k] = place
    BY DEF Lists
  <2>3. /\ \A k \in 1 .. Len(other) : other[k] = RowAt(new, b[k])
        /\ \A k, l \in 1 .. Len(other) : k < l => Before(b[k], b[l])
        /\ \A place \in places : \E k \in 1 .. Len(other) : b[k] = place
    BY DEF Lists
  <2>4. /\ \A k \in 1 .. Len(list) : a[k] \in places
        /\ \A k \in 1 .. Len(other) : b[k] \in places
    BY <2>1
  <2>5. Len(list) \in Nat /\ Len(other) \in Nat
    OBVIOUS
  <2> QED BY ONLY <2>2, <2>3, <2>4, <2>5
<1>2. \A p, q \in places : ~ (Before(p, q) /\ Before(q, p)) /\ ~ Before(p, p)
  BY DEF Before
<1>3. Bad = {}
  <2> SUFFICES ASSUME Bad # {}
               PROVE  FALSE
    OBVIOUS
  <2>1. PICK k \in Bad : \A l \in Bad : k <= l
    <3>1. Bad \in SUBSET Nat
      OBVIOUS
    <3> HIDE DEF Bad
    <3> QED BY <3>1, LeastOf
  <2>2. k \in 1 .. Len(list) /\ ~ Same(k)
    BY <2>1
  <2>3. ASSUME NEW l \in 1 .. Len(list), l < k
        PROVE  l \in 1 .. Len(other) /\ a[l] = b[l]
    <3>1. l \notin Bad
      <4>1. ~ (k <= l)
        BY <2>2, <2>3
      <4> HIDE DEF Bad
      <4> QED BY <2>1, <4>1
    <3> QED BY <3>1
  <2>4. PICK l \in 1 .. Len(other) : b[l] = a[k]
    BY <1>1, <2>2
  <2>5. ~ (l < k)
    <3> SUFFICES ASSUME l < k
                 PROVE  FALSE
      OBVIOUS
    <3>1. l \in 1 .. Len(list)
      BY <2>2
    <3>2. a[l] = a[k] /\ Before(a[l], a[k])
      BY <1>1, <2>2, <2>3, <2>4, <3>1
    <3> QED BY <1>1, <1>2, <2>2, <3>1, <3>2
  <2>6. k \in 1 .. Len(other) /\ l # k /\ k < l
    <3>1. k \in 1 .. Len(other)
      BY <2>2, <2>4, <2>5
    <3>2. l # k
      BY <2>2, <2>4, <3>1
    <3> QED BY <2>4, <2>5, <3>1, <3>2
  <2>7. Before(b[k], a[k])
    BY <1>1, <2>4, <2>6
  <2>8. PICK m \in 1 .. Len(list) : a[m] = b[k]
    BY <1>1, <2>6
  <2>9. ~ (m < k)
    <3> SUFFICES ASSUME m < k
                 PROVE  FALSE
      OBVIOUS
    <3>1. m \in 1 .. Len(other) /\ b[m] = b[k] /\ Before(b[m], b[k])
      BY <1>1, <2>3, <2>6, <2>8
    <3> QED BY <1>1, <1>2, <2>6, <3>1
  <2>10. m # k
    BY <2>2, <2>6, <2>8
  <2>11. Before(a[k], b[k])
    <3>1. k < m
      BY <2>2, <2>8, <2>9, <2>10
    <3> QED BY <1>1, <2>2, <2>8, <3>1
  <2> QED BY <1>1, <1>2, <2>2, <2>6, <2>7, <2>11
<1>4. \A k \in 1 .. Len(list) : k \in 1 .. Len(other) /\ a[k] = b[k]
  BY <1>3
<1>5. Len(list) = Len(other)
  <2>1. ~ (Len(other) < Len(list))
    <3> SUFFICES ASSUME Len(other) < Len(list)
                 PROVE  FALSE
      OBVIOUS
    <3>1. Len(list) \in 1 .. Len(list)
      BY <1>1
    <3>2. Len(list) \in 1 .. Len(other)
      BY <1>4, <3>1
    <3> QED BY <1>1, <3>2
  <2>2. ~ (Len(list) < Len(other))
    <3> SUFFICES ASSUME Len(list) < Len(other)
                 PROVE  FALSE
      OBVIOUS
    <3>1. PICK n \in 1 .. Len(other) : n = Len(list) + 1
      BY <1>1
    <3>2. PICK k \in 1 .. Len(list) : a[k] = b[n]
      BY <1>1
    <3>3. k < n /\ k \in 1 .. Len(other) /\ b[k] = b[n]
      BY <1>1, <1>4, <3>1, <3>2
    <3> QED BY <1>1, <1>2, <3>1, <3>3
  <2> QED BY <1>1, <2>1, <2>2
<1>6. ASSUME NEW k \in 1 .. Len(list)
      PROVE  list[k] = other[k]
  <2>1. k \in 1 .. Len(other) /\ a[k] = b[k] /\ a[k] \in places
    BY <1>1, <1>4
  <2> QED BY <1>1, <2>1
<1> QED
  BY <1>5, <1>6

\* A step that adds no row of a column of a table leaves what GetColumns() says of it.
LEMMA ColumnsSame ==
  ASSUME NEW disk \in Disk, NEW new \in Disk, LinkedUp(disk), LinkedUp(new), NEW id,
         \A p \in PagesOf(disk, AttributesRoot) : disk[p].rows \in Seq(ColumnRow),
         \A p \in PagesOf(new, AttributesRoot) : new[p].rows \in Seq(ColumnRow),
         ColumnPlaces(new, id) = ColumnPlaces(disk, id),
         \A place \in ColumnPlaces(disk, id) : RowAt(disk, place) = RowAt(new, place)
  PROVE  GetColumns(new, id) = GetColumns(disk, id)
<1>1. PICK list \in Seq(ColumnRow) : list = GetColumns(disk, id)
  BY ColumnsListed
<1>2. PICK a : Lists(a, list, disk, ColumnPlaces(disk, id))
  BY <1>1, ColumnsListed
<1>3. PICK other \in Seq(ColumnRow) : other = GetColumns(new, id)
  BY ColumnsListed
<1>4. PICK b : Lists(b, other, new, ColumnPlaces(disk, id))
  BY <1>3, ColumnsListed
<1>5. \A place \in ColumnPlaces(disk, id) : place[1] \in Nat /\ place[2] \in Nat
  BY PagesExist, ConstantFacts DEF ColumnPlaces, Places
<1>6. list = other
  BY <1>2, <1>4, <1>5, SameOrder
<1> QED
  BY <1>1, <1>3, <1>6

\* Disks with the same rows of tables at the same places give a name the same table.
LEMMA LookupSame ==
  ASSUME NEW disk \in Disk, NEW new \in Disk, LinkedUp(disk), LinkedUp(new), NEW name,
         \A p \in PagesOf(disk, TablesRoot) : disk[p].rows \in Seq(TableRow),
         \A p \in PagesOf(new, TablesRoot) : new[p].rows \in Seq(TableRow),
         Places(new, TablesRoot) = Places(disk, TablesRoot),
         \A place \in Places(disk, TablesRoot) : RowAt(new, place) = RowAt(disk, place)
  PROVE  Lookup(new, name) = Lookup(disk, name)
<1>1. \A p, q \in Places(disk, TablesRoot) : ~ (Before(p, q) /\ Before(q, p))
  <2>1. \A p \in Places(disk, TablesRoot) : p[1] \in Nat /\ p[2] \in Nat
    BY PagesExist, ConstantFacts DEF Places
  <2> QED BY <2>1 DEF Before
<1>2. CASE \A place \in Places(disk, TablesRoot) : RowAt(disk, place).name # name
  <2>1. \A place \in Places(new, TablesRoot) : RowAt(new, place).name # name
    BY <1>2
  <2>2. Lookup(disk, name) = NoTable
    BY <1>2, TableFound
  <2>3. Lookup(new, name) = NoTable
    BY <2>1, TableFound
  <2> QED BY <2>2, <2>3
<1>3. CASE \E place \in Places(disk, TablesRoot) : RowAt(disk, place).name = name
  <2>1. PICK f \in Places(disk, TablesRoot) :
          /\ Lookup(disk, name) = RowAt(disk, f) /\ RowAt(disk, f).name = name
          /\ \A other \in Places(disk, TablesRoot) :
               RowAt(disk, other).name = name => other = f \/ Before(f, other)
    BY <1>3, TableFound
  <2>2. \E place \in Places(new, TablesRoot) : RowAt(new, place).name = name
    BY <1>3
  <2>3. PICK g \in Places(new, TablesRoot) :
          /\ Lookup(new, name) = RowAt(new, g) /\ RowAt(new, g).name = name
          /\ \A other \in Places(new, TablesRoot) :
               RowAt(new, other).name = name => other = g \/ Before(g, other)
    BY <2>2, TableFound
  <2>4. f = g
    BY <1>1, <2>1, <2>3
  <2> QED BY <2>1, <2>3, <2>4
<1> QED
  BY <1>2, <1>3

\* What is known of the pool before and after a step that takes nothing away.
LEMMA PoolsLinked ==
  ASSUME CatInv, CatInv'
  PROVE  /\ content \in Disk /\ content' \in Disk /\ LinkedUp(content) /\ LinkedUp(content')
         /\ \A p \in PagesOf(content, TablesRoot) : content[p].rows \in Seq(TableRow)
         /\ \A p \in PagesOf(content', TablesRoot) : content'[p].rows \in Seq(TableRow)
         /\ \A p \in PagesOf(content, AttributesRoot) : content[p].rows \in Seq(ColumnRow)
         /\ \A p \in PagesOf(content', AttributesRoot) : content'[p].rows \in Seq(ColumnRow)
         /\ TablesRoot \in System /\ AttributesRoot \in System
BY ConstantFacts DEF CatInv, Typed, Allocated, Apart, RowsFor

\* An insert into db_tables leaves what a name resolves to, if rows are scanned in the
\* order of their inserts and the row is not that of the table itself.
LEMMA LookupStays ==
  ASSUME NameInv, InsertRow, phase = "create", NEW name, InInsertOrder(name),
         Lookup(content, name) # NoTable,
         \A insert \in ToSet(todo) : insert[1] = TablesRoot => insert[2] # Lookup(content, name)
  PROVE  Lookup(content', name) = Lookup(content, name)
<1>1. /\ SystemInv /\ LinksFull /\ CatInv /\ ColumnsIn /\ TablesIn
      /\ CatInv' /\ ColumnsIn' /\ SystemFirst' /\ SystemTables' = SystemTables
  <2>1. SystemInv /\ LinksFull /\ CatInv /\ ColumnsIn /\ TablesIn
    BY DEF NameInv, SystemInv, TableInv
  <2> QED BY <2>1, InsertRowKeeps, InsertRowColumns, SystemFirstInsert DEF SystemTables
<1>2. /\ content \in Disk /\ content' \in Disk /\ LinkedUp(content) /\ LinkedUp(content')
      /\ \A p \in PagesOf(content, TablesRoot) : content[p].rows \in Seq(TableRow)
      /\ \A p \in PagesOf(content', TablesRoot) : content'[p].rows \in Seq(TableRow)
      /\ TablesRoot \in System
  BY <1>1, PoolsLinked
<1>3. PICK f \in Places(content, TablesRoot) :
        /\ Lookup(content, name) = RowAt(content, f) /\ RowAt(content, f).name = name
        /\ \A other \in Places(content, TablesRoot) :
             RowAt(content, other).name = name => other = f \/ Before(f, other)
  BY <1>2, TableFound
<1>4. PICK r \in System : \E row, spot :
        /\ row \in RowsFor(r) /\ Head(todo) = <<r, row>>
        /\ GrowsBy(r, row, spot) /\ FirstFit(r, row, spot)
  BY <1>1, InsertGrows
<1>5. PICK row, spot :
        /\ row \in RowsFor(r) /\ Head(todo) = <<r, row>>
        /\ GrowsBy(r, row, spot) /\ FirstFit(r, row, spot)
  BY <1>4
<1>6. f \in Places(content', TablesRoot) /\ RowAt(content', f) = RowAt(content, f)
  BY <1>2, <1>5, PlacesRemain DEF GrowsBy
<1>7. PICK g \in Places(content', TablesRoot) :
        /\ Lookup(content', name) = RowAt(content', g) /\ RowAt(content', g).name = name
        /\ \A other \in Places(content', TablesRoot) :
             RowAt(content', other).name = name => other = g \/ Before(g, other)
  BY <1>2, <1>3, <1>6, TableFound
<1>8. f = g \/ Before(g, f)
  BY <1>3, <1>6, <1>7
<1>9. /\ f[1] \in PagesOf(content, TablesRoot) /\ f[1] \in Nat /\ f[2] \in Nat
      /\ g[1] \in Nat /\ g[2] \in Nat
  <2>1. f[1] \in PagesOf(content, TablesRoot) /\ f[1] \in Nat /\ f[2] \in Nat
    BY <1>1, <1>2, PlaceTyped
  <2>2. g[1] \in Page /\ g[2] \in Nat
    BY <1>2, PagesExist DEF Places
  <2> QED BY <2>1, <2>2, ConstantFacts
<1>10. ~ (Before(f, g) /\ Before(g, f)) /\ ~ Before(f, f)
  BY <1>9 DEF Before
<1>11. CASE g \in Places(content, TablesRoot) /\ RowAt(content', g) = RowAt(content, g)
  BY <1>3, <1>7, <1>8, <1>10, <1>11
<1>12. CASE r = TablesRoot /\ g = spot /\ RowAt(content', g) = row
  <2> SUFFICES ASSUME Before(g, f)
               PROVE  FALSE
    BY <1>3, <1>6, <1>7, <1>8
  <2>1. row \in TablesMade /\ row \notin SystemTables /\ row # RowAt(content, f)
    <3>1. PICK insert : insert = <<r, row>>
      OBVIOUS
    <3>2. insert \in ToSet(todo) /\ insert[1] = TablesRoot /\ insert[2] = row
      BY <1>1, <1>5, <1>12, <3>1, HeadAndTail
    <3> QED BY <1>1, <1>3, <3>2 DEF TablesIn
  <2>2. RowAt(content, f) \notin SystemTables
    <3> SUFFICES ASSUME RowAt(content, f) \in SystemTables
                 PROVE  FALSE
      OBVIOUS
    <3>1. RowAt(content', g) = RowAt(content', f) \/ Before(f, g)
      BY <1>1, <1>3, <1>6, <1>7 DEF SystemFirst
    <3> QED BY <1>6, <1>10, <1>12, <2>1, <3>1
  <2>3. RowAt(content, f) \in TablesMade
    BY <1>1 DEF TablesIn
  <2>4. PICK i \in 1 .. Len(made), j \in 1 .. Len(made) :
          RowAt(content, f) = made[i].row /\ row = made[j].row
    BY <2>1, <2>2, <2>3 DEF TablesMade
  <2>5. i # j /\ i \in Named(name) /\ j \in Named(name)
    BY <1>3, <1>7, <1>12, <2>1, <2>4 DEF Named
  <2>6. Uniform
    BY <2>5 DEF InInsertOrder, Uniform
  <2>7. ~ (g[1] = f[1])
    BY <1>5, <1>9, <1>12 DEF FirstFit, Before
  <2>8. g[1] < f[1]
    BY <1>9, <2>7 DEF Before
  <2>9. g[1] \in PagesOf(content, TablesRoot) /\ row.size <= content[g[1]].room
    BY <1>5, <1>9, <1>12, <2>8 DEF FirstFit
  <2>10. content[g[1]].next # NoPage
    <3>1. Older(content, content)
      BY DEF Older
    <3> QED BY <1>2, <1>9, <2>8, <2>9, <3>1, PagesBefore
  <2>11. content[g[1]].room < row.size
    BY <1>1, <2>4, <2>6, <2>9, <2>10 DEF LinksFull
  <2>12. content[g[1]].room \in Nat /\ row.size \in Nat
    BY <1>1, <1>2, <1>5, <2>9, HeapPageRoom, RowFacts
  <2> QED BY <2>9, <2>11, <2>12
<1>13. \/ g \in Places(content, TablesRoot) /\ RowAt(content', g) = RowAt(content, g)
       \/ r = TablesRoot /\ g = spot /\ RowAt(content', g) = row
  BY <1>2, <1>5 DEF GrowsBy
<1> QED
  BY <1>11, <1>12, <1>13

\* What was opened is a table there may be, with the columns it has now, and no running
\* call has more of it to insert; and its name still leads to it.
Opened(name, table) ==
  /\ table.row \in TablesMade /\ table.row # NoTable
  /\ table.columns = GetColumns(content, table.row.id)
  /\ InInsertOrder(name) => table.row = Lookup(content, name)
  /\ \A insert \in ToSet(todo) :
       /\ insert[1] = TablesRoot => insert[2] # table.row
       /\ insert[1] = AttributesRoot => insert[2].table # table.row.id

CacheInv ==
  /\ phase \in {"closed", "bootstrap"} => DOMAIN cache = {}
  /\ \A name \in DOMAIN cache : Opened(name, cache[name])

\* A table that was made stays one.
LEMMA TablesMadeStay ==
  ASSUME CatInv, [SoundNext]_catalogVars
  PROVE  /\ TablesMade \subseteq TablesMade'
         /\ \A name : InInsertOrder(name)' => InInsertOrder(name)
<1>1. /\ Len(made) \in Nat
      /\ \A i \in 1 .. Len(made) : i \in 1 .. Len(made') /\ made'[i] = made[i]
  BY MadeGrows
<1>2. SystemTables' = SystemTables
  BY DEF SystemTables
<1>3. TablesMade \subseteq TablesMade'
  BY <1>1, <1>2 DEF TablesMade
<1>4. ASSUME NEW name, InInsertOrder(name)'
      PROVE  InInsertOrder(name)
  <2>1. CASE \A i, j \in Named(name)' : i = j
    <3>1. Named(name) \subseteq Named(name)'
      BY <1>1 DEF Named
    <3> QED BY <2>1, <3>1 DEF InInsertOrder
  <2>2. CASE \A i, j \in 1 .. Len(made') : Fits(made'[i].row) /\ made'[i].row.size = made'[j].row.size
    <3>1. \A i, j \in 1 .. Len(made) : Fits(made[i].row) /\ made[i].row.size = made[j].row.size
      BY <1>1, <2>2
    <3> QED BY <3>1 DEF InInsertOrder
  <2> QED BY <1>4, <2>1, <2>2 DEF InInsertOrder
<1> QED
  BY <1>3, <1>4

\* An insert is of no row of a table that was opened.
LEMMA OpenedInsert ==
  ASSUME NameInv, InsertRow, phase = "create", NEW name, NEW table, Opened(name, table)
  PROVE  Opened(name, table)'
<1>1. CatInv /\ ColumnsIn /\ CatInv' /\ SoundNext
  BY InsertRowKeeps DEF NameInv, SystemInv, TableInv, SoundNext
<1>2. /\ content \in Disk /\ content' \in Disk /\ LinkedUp(content) /\ LinkedUp(content')
      /\ \A p \in PagesOf(content, AttributesRoot) : content[p].rows \in Seq(ColumnRow)
      /\ \A p \in PagesOf(content', AttributesRoot) : content'[p].rows \in Seq(ColumnRow)
      /\ AttributesRoot \in System
  BY <1>1, PoolsLinked
<1>3. PICK r \in System : \E row, spot :
        row \in RowsFor(r) /\ Head(todo) = <<r, row>> /\ GrowsBy(r, row, spot)
  BY <1>1, InsertGrows
<1>4. PICK row, spot : row \in RowsFor(r) /\ Head(todo) = <<r, row>> /\ GrowsBy(r, row, spot)
  BY <1>3
<1>5. PICK insert : insert = <<r, row>>
  OBVIOUS
<1>6. insert \in ToSet(todo) /\ insert[1] = r /\ insert[2] = row /\ ToSet(todo') \subseteq ToSet(todo)
  BY <1>1, <1>4, <1>5, HeadAndTail
<1>7. r = AttributesRoot => row.table # table.row.id
  BY <1>6 DEF Opened
<1>8. PICK id : id = table.row.id
  OBVIOUS
<1>9. ASSUME NEW place \in ColumnPlaces(content, id)
      PROVE  place \in ColumnPlaces(content', id) /\ RowAt(content, place) = RowAt(content', place)
  <2>1. place \in Places(content, AttributesRoot) /\ RowAt(content, place).table = id
    BY DEF ColumnPlaces
  <2>2. place \in Places(content', AttributesRoot) /\ RowAt(content, place) = RowAt(content', place)
    BY <1>2, <1>4, <2>1, PlacesRemain DEF GrowsBy
  <2> QED BY <2>1, <2>2 DEF ColumnPlaces
<1>10. ASSUME NEW place \in ColumnPlaces(content', id)
       PROVE  place \in ColumnPlaces(content, id)
  <2>1. place \in Places(content', AttributesRoot) /\ RowAt(content', place).table = id
    BY DEF ColumnPlaces
  <2>2. place \in Places(content, AttributesRoot) /\ RowAt(content', place) = RowAt(content, place)
    BY <1>2, <1>4, <1>7, <1>8, <2>1 DEF GrowsBy
  <2> QED BY <2>1, <2>2 DEF ColumnPlaces
<1>11. ColumnPlaces(content', id) = ColumnPlaces(content, id)
  BY <1>9, <1>10
<1>12. GetColumns(content', id) = GetColumns(content, id)
  BY <1>2, <1>9, <1>11, ColumnsSame
<1>13. table.row \in TablesMade' /\ (InInsertOrder(name)' => InInsertOrder(name))
  BY <1>1, TablesMadeStay DEF Opened
<1>14. InInsertOrder(name)' => table.row = Lookup(content', name)
  <2> SUFFICES ASSUME InInsertOrder(name)'
               PROVE  table.row = Lookup(content', name)
    OBVIOUS
  <2>1. InInsertOrder(name) /\ table.row = Lookup(content, name) /\ table.row # NoTable
    BY <1>13 DEF Opened
  <2>2. \A x \in ToSet(todo) : x[1] = TablesRoot => x[2] # Lookup(content, name)
    BY <2>1 DEF Opened
  <2> QED BY <2>1, <2>2, LookupStays
<1>15. \A x \in ToSet(todo') : /\ x[1] = TablesRoot => x[2] # table.row
                               /\ x[1] = AttributesRoot => x[2].table # table.row.id
  BY <1>6 DEF Opened
<1> QED
  BY <1>8, <1>12, <1>13, <1>14, <1>15 DEF Opened

\* A table that is being created has an id of its own.
LEMMA OpenedCreate ==
  ASSUME NameInv, NEW other \in Name, NEW sizes \in Schema, SoundCreateTable(other, sizes),
         NEW name, NEW table, Opened(name, table)
  PROVE  Opened(name, table)'
<1>1. CatInv /\ ColumnsIn /\ CatInv' /\ SoundNext
  BY CreateTableStays DEF NameInv, SystemInv, TableInv, SoundNext
<1>2. /\ content \in Disk /\ content' \in Disk /\ LinkedUp(content) /\ LinkedUp(content')
      /\ \A p \in PagesOf(content, TablesRoot) : content[p].rows \in Seq(TableRow)
      /\ \A p \in PagesOf(content', TablesRoot) : content'[p].rows \in Seq(TableRow)
      /\ \A p \in PagesOf(content, AttributesRoot) : content[p].rows \in Seq(ColumnRow)
      /\ \A p \in PagesOf(content', AttributesRoot) : content'[p].rows \in Seq(ColumnRow)
      /\ TablesRoot \in System /\ AttributesRoot \in System
  BY <1>1, PoolsLinked
<1>3. ASSUME NEW s \in System
      PROVE  /\ Places(content', s) = Places(content, s)
             /\ \A place \in Places(content, s) : RowAt(content', place) = RowAt(content, place)
  <2>1. \A place \in Places(content', s) :
          place \in Places(content, s) /\ RowAt(content', place) = RowAt(content, place)
    BY <1>1, CreateTableStays
  <2>2. \A place \in Places(content, s) : place \in Places(content', s)
    BY <1>1, <1>2, CreateTableStays, PlacesRemain
  <2> QED BY <2>1, <2>2
<1>4. Lookup(content', name) = Lookup(content, name)
  BY <1>2, <1>3, LookupSame
<1>5. PICK id : id = table.row.id
  OBVIOUS
<1>6. ColumnPlaces(content', id) = ColumnPlaces(content, id)
  BY <1>2, <1>3 DEF ColumnPlaces
<1>7. \A place \in ColumnPlaces(content, id) : RowAt(content, place) = RowAt(content', place)
  BY <1>2, <1>3 DEF ColumnPlaces
<1>8. GetColumns(content', id) = GetColumns(content, id)
  BY <1>2, <1>6, <1>7, ColumnsSame
<1>9. table.row \in TablesMade' /\ (InInsertOrder(name)' => InInsertOrder(name))
  BY <1>1, TablesMadeStay DEF Opened
<1>10. PICK row \in TableRow :
         /\ row.id = FirstUserId + Len(made)
         /\ todo' = Inserts(TablesRoot, <<row>>) \o Inserts(AttributesRoot, Columns(row.id, sizes))
  BY <1>1, CreateTableKeeps
<1>11. ToSet(todo') = CallInserts(row, sizes)
  BY <1>10, CallElements, CatalogAssumption
<1>12. table.row.id # row.id
  <2>1. table.row \in TablesMade /\ Len(made) \in Nat
    BY <1>1, MadeGrows DEF Opened
  <2>2. CASE table.row \in SystemTables
    <3>1. table.row.id \in System
      BY <2>2, SystemRows
    <3>2. \A s \in System : s \in Int /\ s <= 3
      BY ConstantFacts
    <3>3. row.id = 4 + Len(made)
      BY <1>10, <2>1, ConstantFacts DEF FirstUserId
    <3> QED BY <2>1, <3>1, <3>2, <3>3
  <2>3. CASE \E i \in 1 .. Len(made) : table.row = made[i].row
    <3>1. PICK i \in 1 .. Len(made) : table.row = made[i].row
      BY <2>3
    <3>2. table.row.id = TypesRoot + i
      BY <1>1, <3>1, MadeRows DEF CatInv
    <3> QED BY <1>10, <2>1, <3>2, ConstantFacts DEF FirstUserId
  <2>4. table.row \in SystemTables \/ \E i \in 1 .. Len(made) : table.row = made[i].row
    BY <2>1 DEF TablesMade
  <2> QED BY <2>2, <2>3, <2>4
<1>13. \A column \in ToSet(Columns(row.id, sizes)) : column.table = row.id
  BY DEF Columns, ToSet
<1>14. \A x \in ToSet(todo') : /\ x[1] = TablesRoot => x[2] # table.row
                               /\ x[1] = AttributesRoot => x[2].table # table.row.id
  BY <1>11, <1>12, <1>13, ConstantFacts DEF CallInserts
<1> QED
  BY <1>4, <1>5, <1>8, <1>9, <1>14 DEF Opened

\* Nor is one that OpenTable() finds between calls.
LEMMA OpenedFound ==
  ASSUME NameInv, phase = "open", NEW name, NEW table,
         table = [row |-> Lookup(content, name),
                  columns |-> GetColumns(content, Lookup(content, name).id)],
         Lookup(content, name) # NoTable
  PROVE  Opened(name, table)
<1>1. CatInv /\ TablesIn
  BY DEF NameInv, SystemInv, TableInv
<1>2. todo = <<>>
  BY <1>1 DEF CatInv, Inserting
<1>3. LinkedUp(content) /\ \A p \in PagesOf(content, TablesRoot) : content[p].rows \in Seq(TableRow)
  BY <1>1, PoolRows, ConstantFacts
<1>4. PICK f \in Places(content, TablesRoot) : Lookup(content, name) = RowAt(content, f)
  BY <1>3, TableFound
<1>5. Lookup(content, name) \in TablesMade
  BY <1>1, <1>4 DEF TablesIn
<1>6. ToSet(todo) = {}
  BY <1>2 DEF ToSet
<1> QED
  BY <1>5, <1>6 DEF Opened

\* Every step keeps what is said of the cache.
LEMMA CacheKept ==
  ASSUME NameInv, CacheInv, [Next]_vars, sound'
  PROVE  CacheInv'
<1>1. CatInv /\ [SoundNext]_catalogVars
  <2>1. [CatalogNext]_catalogVars
    BY DEF Next, CatalogStep, OpenTable, vars
  <2> QED BY <2>1, SoundStep DEF NameInv, SystemInv, TableInv
<1>2. CASE DOMAIN cache' = {}
  BY <1>2 DEF CacheInv
<1>3. CASE cache' = cache /\ UNCHANGED catalogVars
  <2>1. \A name : \A table : Opened(name, table)' <=> Opened(name, table)
    BY <1>3 DEF catalogVars, Opened, TablesMade, SystemTables, InInsertOrder, Named
  <2>2. ASSUME NEW name, NEW table, Opened(name, table)
        PROVE  Opened(name, table)'
    BY <2>1, <2>2
  <2>3. phase' = phase
    BY <1>3 DEF catalogVars
  <2> QED BY <1>3, <2>2, <2>3 DEF CacheInv
<1>4. CASE DOMAIN cache' # {} /\ SoundNext /\ ~ Restart /\ cache' = cache
  <2>1. phase \notin {"closed", "bootstrap"}
    BY <1>4 DEF CacheInv
  <2>2. phase' \notin {"closed", "bootstrap"}
    BY <1>4, <2>1
    DEF SoundNext, LoadCatalogs, BootstrapCatalogs, InsertRow, FlushAll, SoundCreateTable,
        CreateTable, CreateAs, CreateReturns, WriteBack
  <2>3. ASSUME NEW name, NEW table, Opened(name, table)
        PROVE  Opened(name, table)'
    <3>1. CASE InsertRow
      <4>1. phase = "create"
        BY <1>1, <2>1, <3>1 DEF InsertRow, CatInv, Inserting
      <4> QED BY <2>3, <3>1, <4>1, OpenedInsert
    <3>2. CASE \E other \in Name, sizes \in Schema : SoundCreateTable(other, sizes)
      BY <2>3, <3>2, OpenedCreate
    <3>3. CASE UNCHANGED <<content, todo, made>>
      BY <2>3, <3>3 DEF Opened, TablesMade, SystemTables, InInsertOrder, Named
    <3>4. \/ InsertRow \/ \E other \in Name, sizes \in Schema : SoundCreateTable(other, sizes)
          \/ UNCHANGED <<content, todo, made>>
      BY <1>4, <2>1
      DEF SoundNext, LoadCatalogs, BootstrapCatalogs, FlushAll, CreateReturns, WriteBack
    <3> QED BY <3>1, <3>2, <3>3, <3>4
  <2> QED BY <1>4, <2>2, <2>3 DEF CacheInv
<1>5. CASE \E name \in Name \cup ToSet(SystemName) : OpenTable(name)
  <2>1. PICK name \in Name \cup ToSet(SystemName) : OpenTable(name)
    BY <1>5
  <2>2. PICK row : row = Lookup(content, name)
    OBVIOUS
  <2>3. PICK table : table = [row |-> row, columns |-> GetColumns(content, row.id)]
    OBVIOUS
  <2>4. /\ phase = "open" /\ row # NoTable /\ UNCHANGED catalogVars
        /\ cache' = [n \in DOMAIN cache \cup {name} |-> IF n = name THEN table ELSE cache[n]]
    BY <2>1, <2>2, <2>3 DEF OpenTable
  <2>5. Opened(name, table)
    BY <2>2, <2>3, <2>4, OpenedFound
  <2>6. \A n \in DOMAIN cache' : Opened(n, cache'[n])
    BY <2>4, <2>5 DEF CacheInv
  <2>7. \A n : \A t : Opened(n, t)' <=> Opened(n, t)
    BY <2>4 DEF catalogVars, Opened, TablesMade, SystemTables, InInsertOrder, Named
  <2>8. ASSUME NEW n \in DOMAIN cache'
        PROVE  Opened(n, cache[n])'
    <3>1. PICK t : t = cache'[n]
      OBVIOUS
    <3>2. Opened(n, t)'
      BY <2>6, <2>7, <3>1
    <3> QED BY <3>1, <3>2 DEF Opened
  <2>9. phase' = "open"
    BY <2>4 DEF catalogVars
  <2> QED BY <2>8, <2>9 DEF CacheInv
<1>6. CASE CatalogStep
  <2>1. CASE Restart
    BY <1>2, <1>6, <2>1 DEF CatalogStep, NewTableManager
  <2>2. CASE ~ Restart
    BY <1>1, <1>2, <1>3, <1>4, <1>6, <2>2 DEF CatalogStep
  <2> QED BY <2>1, <2>2
<1>7. CASE UNCHANGED vars
  BY <1>3, <1>7 DEF vars
<1> QED
  BY <1>5, <1>6, <1>7 DEF Next

\* What the manager keeps is what the catalog says now.
LEMMA CacheSaysNow ==
  ASSUME NameInv, CacheInv
  PROVE  CacheAgrees
<1> SUFFICES ASSUME phase = "open", NEW name \in DOMAIN cache, NEW opened, opened = cache[name]
             PROVE  /\ opened.columns = GetColumns(content, opened.row.id)
                    /\ opened.row.id \in kept => Described(opened.columns, Made(opened.row.id))
                    /\ InInsertOrder(name) => opened.row = Lookup(content, name)
  BY DEF CacheAgrees
<1>1. Opened(name, opened)
  BY DEF CacheInv
<1>2. TableInv /\ CatInv /\ Typed
  BY DEF NameInv, SystemInv, TableInv, CatInv
<1>3. ASSUME opened.row.id \in kept
      PROVE  Described(opened.columns, Made(opened.row.id))
  <2>1. PICK i \in 1 .. Len(made) : made[i].row.id = opened.row.id
    BY <1>2, <1>3 DEF Typed
  <2>2. made[i].row.id = TypesRoot + i
    BY <1>2, MadeRows
  <2>3. Made(opened.row.id) = made[i]
    BY <2>1, <2>2, ConstantFacts DEF Made
  <2>4. Described(GetColumns(content, made[i].row.id), made[i])
    BY <1>2, <1>3, <2>1, ColumnsThere
  <2> QED BY <1>1, <2>1, <2>3, <2>4 DEF Opened
<1> QED
  BY <1>1, <1>3 DEF Opened

\* Where every call found the catalog whole, a TableManager's cache is never stale: a table
\* that was opened has the columns that the catalog says it has now, all of them if the
\* process made it, and its name leads to it as long as rows are scanned in the order of
\* their inserts.
THEOREM CacheIsFresh == Spec => []CacheAgrees
<1>1. Init => CacheInv
  BY DEF Init, NewTableManager, CacheInv
<1>2. /\ sound => NameInv
      /\ sound => CacheInv
      /\ [Next]_vars
      => (sound => CacheInv)'
  <2> SUFFICES ASSUME sound => NameInv, sound => CacheInv, [Next]_vars, sound'
               PROVE  CacheInv'
    OBVIOUS
  <2>1. [CatalogNext]_catalogVars
    BY DEF Next, CatalogStep, OpenTable, vars
  <2>2. sound
    BY <2>1, SoundStep
  <2> QED BY <2>2, CacheKept
<1>3. (sound => NameInv) /\ (sound => CacheInv) => CacheAgrees
  BY CacheSaysNow DEF CacheAgrees
<1> QED
  BY <1>1, <1>2, <1>3, NameInvariant, ManagedCatalog, PTL DEF Spec
=============================================================================
