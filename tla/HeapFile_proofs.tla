-------------------------- MODULE HeapFile_proofs --------------------------
(***************************************************************************)
(* Proofs about HeapFile for any number of heaps, pages and records of any *)
(* length.  What is needed of Insert()'s walk is only where it ends: on a  *)
(* page that exists and has no successor.  Links then lead forward, to     *)
(* pages that exist and have no other owner, because the page a heap takes *)
(* is the next page id, which AllocatedOnce says nobody has.               *)
(*                                                                         *)
(* For the contract, Owned adds that every page is on the chain of a heap, *)
(* which OneChain makes the only one; Grows is what a call may do to links *)
(* and first pages: add some.  So a page stays with its heap, and a call   *)
(* changes the rows of one page of one heap.                               *)
(*                                                                         *)
(* The first part says what the chains are, without counting steps: the    *)
(* least set that holds the first page and, with a page, its successor.    *)
(* Each fact is stated as a formula, so that it holds of the next state.   *)
(***************************************************************************)
EXTENDS HeapFile, WellFoundedInduction, TLAPS

\* The links are page ids, and lead forward.
Linked == content \in [Page -> HeapPage \cup {Unwritten, Zero}] /\ LinksForward

\* p links to q.
Leads(p, q) == Exists(p) /\ content[p].next = q

----------------------------------------------------------------------------
\* A nonempty set of natural numbers has a least element.
LEMMA LeastOf ==
  ASSUME NEW T \in SUBSET Nat, T # {}
  PROVE  \E x \in T : \A y \in T : x <= y
<1> DEFINE R == {p \in Nat \X Nat : p[1] < p[2]}
<1>1. IsWellFoundedOn(R, Nat)
  BY NatLessThanWellFounded DEF OpToRel
<1>2. PICK x \in T : \A y \in T : ~ (<<y, x>> \in R)
  BY <1>1, WFMin
<1>3. \A y \in T : x <= y
  <2> SUFFICES ASSUME NEW y \in T
               PROVE  x <= y
    OBVIOUS
  <2>1. ~ (y < x)
    BY <1>2
  <2> QED BY <2>1
<1> QED
  BY <1>2, <1>3

\* The recursion that defines a walk has a solution.
LEMMA WalkExists ==
  ASSUME NEW x
  PROVE  \E at : at = [i \in 0 .. MaxPages |-> IF i = 0 THEN x ELSE Successor(at[i - 1])]
<1> DEFINE Step(f, n) == f = [i \in 0 .. n |-> IF i = 0 THEN x ELSE Successor(f[i - 1])]
           Bad == {n \in Nat : ~ \E f : Step(f, n)}
<1>1. Bad = {}
  <2> SUFFICES ASSUME Bad # {}
               PROVE  FALSE
    OBVIOUS
  <2>1. PICK n \in Bad : \A m \in Bad : n <= m
    <3>1. Bad \in SUBSET Nat
      OBVIOUS
    <3> HIDE DEF Bad
    <3> QED BY <3>1, LeastOf
  <2>2. CASE n = 0
    <3>1. Step([i \in 0 .. 0 |-> x], 0)
      OBVIOUS
    <3> QED BY <2>1, <2>2, <3>1
  <2>3. CASE n # 0
    <3>1. n \in Nat /\ n - 1 \in Nat /\ ~ (n <= n - 1)
      BY <2>3
    <3>2. n - 1 \notin Bad
      <4> HIDE DEF Bad
      <4> QED BY <2>1, <3>1
    <3>3. PICK f : Step(f, n - 1)
      BY <3>1, <3>2
    <3> DEFINE g == [i \in 0 .. n |-> IF i < n THEN f[i] ELSE Successor(f[n - 1])]
    <3>4. ASSUME NEW i \in 0 .. n
          PROVE  g[i] = IF i = 0 THEN x ELSE Successor(g[i - 1])
      <4>1. CASE i < n
        <5>1. i \in 0 .. n - 1 /\ (i # 0 => i - 1 \in 0 .. n /\ i - 1 < n)
          BY <3>1, <4>1
        <5>2. f[i] = IF i = 0 THEN x ELSE Successor(f[i - 1])
          BY <3>3, <5>1
        <5> QED BY <4>1, <5>1, <5>2
      <4>2. CASE i = n
        <5>1. i # 0 /\ i - 1 \in 0 .. n /\ i - 1 < n /\ ~ (i < n) /\ i - 1 = n - 1
          BY <2>3, <3>1, <4>2
        <5> QED BY <5>1
      <4> QED BY <3>1, <4>1, <4>2
    <3>5. Step(g, n)
      <4> HIDE DEF Bad
      <4> QED BY <3>4
    <3> QED BY <2>1, <3>5
  <2> QED BY <2>2, <2>3
<1>2. MaxPages \notin Bad /\ MaxPages \in Nat
  BY <1>1, HeapAssumption
<1> QED
  BY <1>2

\* A walk starts at its page and goes from each page to its successor.
LEMMA WalkSteps ==
  \A x : /\ Walk(x)[0] = x
         /\ \A i \in 1 .. MaxPages : Walk(x)[i] = Successor(Walk(x)[i - 1])
<1> SUFFICES ASSUME NEW x
             PROVE  /\ Walk(x)[0] = x
                    /\ \A i \in 1 .. MaxPages : Walk(x)[i] = Successor(Walk(x)[i - 1])
  OBVIOUS
<1>1. Walk(x) = CHOOSE at : at = [i \in 0 .. MaxPages |->
                                    IF i = 0 THEN x ELSE Successor(at[i - 1])]
  BY DEF Walk
<1>2. Walk(x) = [i \in 0 .. MaxPages |-> IF i = 0 THEN x ELSE Successor(Walk(x)[i - 1])]
  BY <1>1, WalkExists
<1>3. 0 \in 0 .. MaxPages /\ \A i \in 1 .. MaxPages : i \in 0 .. MaxPages /\ i # 0
  BY HeapAssumption
<1> QED
  BY <1>2, <1>3

\* The i-th page of a walk is no smaller than i, so that a walk of MaxPages steps
\* reaches the end.
LEMMA WalkClimbs ==
  Linked => \A x \in Page \cup {InvalidPage} : \A i \in 0 .. MaxPages :
    \/ Walk(x)[i] = InvalidPage
    \/ x # InvalidPage /\ Walk(x)[i] \in Page /\ Walk(x)[i] >= i
<1> SUFFICES ASSUME Linked, NEW x \in Page \cup {InvalidPage}
             PROVE  \A i \in 0 .. MaxPages :
                      \/ Walk(x)[i] = InvalidPage
                      \/ x # InvalidPage /\ Walk(x)[i] \in Page /\ Walk(x)[i] >= i
  OBVIOUS
<1> DEFINE w == Walk(x)
           Good(i) == w[i] = InvalidPage \/ (x # InvalidPage /\ w[i] \in Page /\ w[i] >= i)
           Bad == {i \in 0 .. MaxPages : ~ Good(i)}
<1>1. w[0] = x /\ \A i \in 1 .. MaxPages : w[i] = Successor(w[i - 1])
  BY WalkSteps
<1>2. \A p \in Page : p \in Nat /\ p # InvalidPage
  BY DEF Page, InvalidPage
<1> HIDE DEF w
<1>3. ASSUME Bad # {}
      PROVE  FALSE
  <2>1. PICK i \in Bad : \A j \in Bad : i <= j
    <3>1. Bad \in SUBSET Nat
      BY HeapAssumption
    <3> HIDE DEF Bad
    <3> QED BY <1>3, <3>1, LeastOf
  <2>2. i \in 0 .. MaxPages /\ ~ Good(i)
    BY <2>1
  <2>3. i # 0
    BY <1>1, <1>2, <2>2
  <2>4. /\ i \in Nat /\ i - 1 \in 0 .. MaxPages /\ i \in 1 .. MaxPages /\ ~ (i <= i - 1)
    BY <2>2, <2>3, HeapAssumption
  <2>5. Good(i - 1)
    <3>1. i - 1 \notin Bad
      <4> HIDE DEF Bad
      <4> QED BY <2>1, <2>4
    <3> QED BY <2>4, <3>1
  <2>6. w[i] = Successor(w[i - 1])
    BY <1>1, <2>4
  <2>7. CASE w[i - 1] # InvalidPage /\ Exists(w[i - 1]) /\ content[w[i - 1]].next # InvalidPage
    <3>1. /\ w[i - 1] \in Page /\ w[i - 1] >= i - 1 /\ x # InvalidPage
          /\ w[i] = content[w[i - 1]].next
      BY <2>5, <2>6, <2>7 DEF Successor
    <3>2. w[i] \in Page /\ w[i] > w[i - 1]
      BY <2>7, <3>1 DEF Linked, LinksForward, HeapPage, Exists
    <3>3. w[i] >= i
      BY <1>2, <2>4, <3>1, <3>2
    <3> QED BY <2>2, <3>1, <3>2, <3>3
  <2>8. CASE ~ (w[i - 1] # InvalidPage /\ Exists(w[i - 1])
                  /\ content[w[i - 1]].next # InvalidPage)
    <3>1. w[i] = InvalidPage
      BY <2>6, <2>8 DEF Successor
    <3> QED BY <2>2, <3>1
  <2> QED BY <2>7, <2>8
<1>4. \A i \in 0 .. MaxPages : Good(i)
  BY <1>3
<1> QED
  BY <1>4 DEF w

\* A heap without pages has an empty chain.
LEMMA NoChain == Linked => Chain(InvalidPage) = {}
<1> SUFFICES ASSUME Linked
             PROVE  Chain(InvalidPage) = {}
  OBVIOUS
<1>1. \A i \in 0 .. MaxPages : Walk(InvalidPage)[i] = InvalidPage
  BY WalkClimbs
<1>2. InvalidPage \notin Page
  BY DEF Page, InvalidPage
<1> QED
  BY <1>1, <1>2 DEF Chain

\* A chain holds its first page.
LEMMA ChainStarts == \A x \in Page : x \in Chain(x)
<1> SUFFICES ASSUME NEW x \in Page
             PROVE  x \in Chain(x)
  OBVIOUS
<1>1. Walk(x)[0] = x /\ 0 \in 0 .. MaxPages
  BY WalkSteps, HeapAssumption
<1> QED
  BY <1>1 DEF Chain

\* A chain holds the successors of its pages.
LEMMA ChainFollows ==
  Linked => \A x, q \in Page : \A p \in Chain(x) : Leads(p, q) => q \in Chain(x)
<1> SUFFICES ASSUME Linked, NEW x \in Page, NEW q \in Page, NEW p \in Chain(x), Leads(p, q)
             PROVE  q \in Chain(x)
  OBVIOUS
<1>1. p \in Page /\ \E i \in 0 .. MaxPages : p = Walk(x)[i]
  BY DEF Chain
<1>2. PICK i \in 0 .. MaxPages : p = Walk(x)[i]
  BY <1>1
<1>3. p \in Nat /\ p < MaxPages /\ p # InvalidPage
  BY <1>1, HeapAssumption DEF Page, InvalidPage
<1>4. Walk(x)[i] >= i
  BY <1>2, <1>3, WalkClimbs
<1>5. i + 1 \in 1 .. MaxPages /\ (i + 1) - 1 = i /\ i + 1 \in 0 .. MaxPages
  BY <1>2, <1>3, <1>4, HeapAssumption
<1>6. Walk(x)[i + 1] = Successor(p)
  BY <1>2, <1>5, WalkSteps
<1>7. Walk(x)[i + 1] = q
  BY <1>3, <1>6 DEF Successor, Leads
<1> QED
  BY <1>5, <1>7 DEF Chain

\* A set that holds the first page, and with a page its successor, holds the chain.
LEMMA ChainLeast ==
  Linked => \A x \in Page : \A S :
    (x \in S /\ \A p, q \in Page : (p \in S /\ Leads(p, q)) => q \in S) => Chain(x) \subseteq S
<1> SUFFICES ASSUME Linked, NEW x \in Page, NEW S, x \in S,
                    \A p, q \in Page : (p \in S /\ Leads(p, q)) => q \in S
             PROVE  Chain(x) \subseteq S
  OBVIOUS
<1> DEFINE w == Walk(x)
           Bad == {i \in 0 .. MaxPages : w[i] \in Page /\ w[i] \notin S}
<1>1. w[0] = x /\ \A i \in 1 .. MaxPages : w[i] = Successor(w[i - 1])
  BY WalkSteps
<1>2. \A i \in 0 .. MaxPages : w[i] \in Page \cup {InvalidPage}
  BY WalkClimbs
<1>3. Chain(x) = Page \cap {w[i] : i \in 0 .. MaxPages}
  BY DEF Chain
<1> HIDE DEF w
<1>4. ASSUME Bad # {}
      PROVE  FALSE
  <2>1. PICK i \in Bad : \A j \in Bad : i <= j
    <3>1. Bad \in SUBSET Nat
      BY HeapAssumption
    <3> HIDE DEF Bad
    <3> QED BY <1>4, <3>1, LeastOf
  <2>2. i \in 0 .. MaxPages /\ w[i] \in Page /\ w[i] \notin S
    BY <2>1
  <2>3. i # 0
    BY <1>1, <2>2
  <2>4. i \in Nat /\ i - 1 \in 0 .. MaxPages /\ i \in 1 .. MaxPages /\ ~ (i <= i - 1)
    BY <2>2, <2>3, HeapAssumption
  <2>5. ~ (w[i - 1] \in Page /\ w[i - 1] \notin S)
    <3>1. i - 1 \notin Bad
      <4> HIDE DEF Bad
      <4> QED BY <2>1, <2>4
    <3> QED BY <2>4, <3>1
  <2>6. w[i] = Successor(w[i - 1]) /\ w[i] # InvalidPage
    BY <1>1, <2>2, <2>4 DEF Page, InvalidPage
  <2>7. w[i - 1] # InvalidPage /\ Leads(w[i - 1], w[i])
    BY <2>6 DEF Successor, Leads
  <2>8. w[i - 1] \in Page /\ w[i - 1] \in S
    BY <1>2, <2>4, <2>5, <2>7
  <2> QED BY <2>2, <2>7, <2>8
<1> QED
  BY <1>3, <1>4

\* Every page of a chain but the first has its predecessor there.
LEMMA ChainPrecedes ==
  Linked => \A x \in Page : \A q \in Chain(x) : q = x \/ \E p \in Chain(x) : Leads(p, q)
<1> SUFFICES ASSUME Linked, NEW x \in Page
             PROVE  \A q \in Chain(x) : q = x \/ \E p \in Chain(x) : Leads(p, q)
  OBVIOUS
<1> DEFINE S == {q \in Chain(x) : q = x \/ \E p \in Chain(x) : Leads(p, q)}
<1>1. x \in S
  BY ChainStarts
<1>2. ASSUME NEW p \in Page, NEW q \in Page, p \in S, Leads(p, q)
      PROVE  q \in S
  BY <1>2, ChainFollows
<1> HIDE DEF S
<1>3. Chain(x) \subseteq S
  BY <1>1, <1>2, ChainLeast
<1> QED
  BY <1>3 DEF S

\* A walk goes through its pages in the order of their ids.
LEMMA WalkOrder ==
  Linked => \A x \in Page : \A i, j \in 0 .. MaxPages :
    (i < j /\ Walk(x)[j] # InvalidPage) => Walk(x)[i] \in Page /\ Walk(x)[i] < Walk(x)[j]
<1> SUFFICES ASSUME Linked, NEW x \in Page, NEW i \in 0 .. MaxPages
             PROVE  \A j \in 0 .. MaxPages :
                      (i < j /\ Walk(x)[j] # InvalidPage)
                        => Walk(x)[i] \in Page /\ Walk(x)[i] < Walk(x)[j]
  OBVIOUS
<1> DEFINE w == Walk(x)
           Good(j) == (i < j /\ w[j] # InvalidPage) => w[i] \in Page /\ w[i] < w[j]
           Bad == {j \in 0 .. MaxPages : ~ Good(j)}
<1>1. \A j \in 1 .. MaxPages : w[j] = Successor(w[j - 1])
  BY WalkSteps
<1>2. \A j \in 0 .. MaxPages : w[j] = InvalidPage \/ w[j] \in Page
  BY WalkClimbs
<1>3. \A p \in Page : p \in Nat /\ p # InvalidPage
  BY DEF Page, InvalidPage
<1> HIDE DEF w
<1>4. ASSUME Bad # {}
      PROVE  FALSE
  <2>1. PICK j \in Bad : \A k \in Bad : j <= k
    <3>1. Bad \in SUBSET Nat
      BY HeapAssumption
    <3> HIDE DEF Bad
    <3> QED BY <1>4, <3>1, LeastOf
  <2>2. j \in 0 .. MaxPages /\ i < j /\ w[j] # InvalidPage /\ ~ (w[i] \in Page /\ w[i] < w[j])
    BY <2>1
  <2>3. j \in 1 .. MaxPages /\ j - 1 \in 0 .. MaxPages /\ ~ (j <= j - 1) /\ (i < j - 1 \/ i = j - 1)
    BY <2>2, HeapAssumption
  <2>4. Good(j - 1)
    <3>1. j - 1 \notin Bad
      <4> HIDE DEF Bad
      <4> QED BY <2>1, <2>3
    <3> QED BY <2>3, <3>1
  <2>5. w[j] = Successor(w[j - 1])
    BY <1>1, <2>3
  <2>6. w[j - 1] # InvalidPage /\ Exists(w[j - 1]) /\ w[j] = content[w[j - 1]].next
    BY <2>2, <2>5 DEF Successor
  <2>7. w[j - 1] \in Page /\ w[j] \in Page /\ w[j] > w[j - 1]
    BY <1>2, <2>2, <2>3, <2>6 DEF Linked, LinksForward
  <2> QED BY <1>3, <2>2, <2>3, <2>4, <2>7
<1>5. \A j \in 0 .. MaxPages : Good(j)
  BY <1>4
<1> QED
  BY <1>5 DEF w

\* The pages of a chain are no smaller than the first.
LEMMA ChainAbove == Linked => \A x \in Page : \A p \in Chain(x) : p >= x
<1> SUFFICES ASSUME Linked, NEW x \in Page, NEW p \in Chain(x)
             PROVE  p >= x
  OBVIOUS
<1>1. PICK i \in 0 .. MaxPages : p = Walk(x)[i]
  BY DEF Chain
<1>2. p \in Page /\ p # InvalidPage /\ p \in Nat /\ x \in Nat
  BY DEF Chain, Page, InvalidPage
<1>3. Walk(x)[0] = x /\ 0 \in 0 .. MaxPages
  BY WalkSteps, HeapAssumption
<1>4. CASE i = 0
  BY <1>1, <1>2, <1>3, <1>4
<1>5. CASE 0 < i
  BY <1>1, <1>2, <1>3, <1>5, WalkOrder
<1> QED
  BY <1>4, <1>5

\* From each of its pages on, a chain is the chain of that page.
LEMMA ChainRest ==
  Linked => \A x \in Page : \A p, q \in Chain(x) : q >= p <=> q \in Chain(p)
<1> SUFFICES ASSUME Linked, NEW x \in Page, NEW p \in Chain(x)
             PROVE  \A q \in Chain(x) : q >= p <=> q \in Chain(p)
  OBVIOUS
<1>1. p \in Page /\ \A q \in Page : q \in Nat /\ q # InvalidPage
  BY DEF Chain, Page, InvalidPage
<1>2. PICK k \in 0 .. MaxPages : p = Walk(x)[k]
  BY DEF Chain
<1> DEFINE S == {q \in Chain(x) : q < p \/ q \in Chain(p)}
<1>3. x \in S
  <2>1. x \in Chain(x) /\ p \in Chain(p)
    BY <1>1, ChainStarts
  <2>2. p >= x
    BY ChainAbove
  <2> QED BY <1>1, <2>1, <2>2
<1>4. ASSUME NEW q \in Page, NEW r \in Page, q \in S, Leads(q, r)
      PROVE  r \in S
  <2>1. r \in Chain(x)
    BY <1>4, ChainFollows
  <2>2. CASE q \in Chain(p)
    BY <1>1, <1>4, <2>1, <2>2, ChainFollows
  <2>3. CASE q < p
    <3>1. PICK i \in 0 .. MaxPages : q = Walk(x)[i]
      BY <1>4 DEF Chain
    <3>2. i < k
      <4>1. CASE i = k
        BY <1>1, <1>2, <1>4, <2>3, <3>1, <4>1
      <4>2. CASE k < i
        <5>1. p < q
          BY <1>1, <1>2, <1>4, <3>1, <4>2, WalkOrder
        <5> QED BY <1>1, <1>4, <2>3, <5>1
      <4> QED BY <4>1, <4>2
    <3>3. i + 1 \in 1 .. MaxPages /\ i + 1 \in 0 .. MaxPages /\ (i + 1) - 1 = i /\ (i + 1 < k \/ i + 1 = k)
      BY <3>2, HeapAssumption
    <3>4. Walk(x)[i + 1] = r
      <4>1. Walk(x)[i + 1] = Successor(q)
        BY <3>1, <3>3, WalkSteps
      <4> QED BY <1>1, <1>4, <4>1 DEF Successor, Leads
    <3>5. CASE i + 1 = k
      BY <1>1, <1>2, <2>1, <3>4, <3>5, ChainStarts
    <3>6. CASE i + 1 < k
      <4>1. r < p
        BY <1>1, <1>2, <3>3, <3>4, <3>6, WalkOrder
      <4> QED BY <2>1, <4>1
    <3> QED BY <3>3, <3>5, <3>6
  <2> QED BY <1>4, <2>2, <2>3
<1> HIDE DEF S
<1>5. Chain(x) \subseteq S
  BY <1>3, <1>4, ChainLeast
<1> SUFFICES ASSUME NEW q \in Chain(x)
             PROVE  q >= p <=> q \in Chain(p)
  OBVIOUS
<1>6. q >= p => q \in Chain(p)
  <2>1. q \in Page
    BY DEF Chain
  <2> QED BY <1>1, <1>5, <2>1 DEF S
<1>7. q \in Chain(p) => q >= p
  BY <1>1, ChainAbove
<1> QED
  BY <1>6, <1>7

----------------------------------------------------------------------------
(* The same of the next state.                                             *)

\* The same facts in the next state.
LEMMA ChainStartsNext == (\A x \in Page : x \in Chain(x))'
BY ChainStarts, PTL

LEMMA ChainFollowsNext ==
  (Linked => \A x, q \in Page : \A p \in Chain(x) : Leads(p, q) => q \in Chain(x))'
BY ChainFollows, PTL

LEMMA ChainLeastNext ==
  (Linked => \A x \in Page : \A S :
    (x \in S /\ \A p, q \in Page : (p \in S /\ Leads(p, q)) => q \in S)
      => Chain(x) \subseteq S)'
BY ChainLeast, PTL

LEMMA NoChainNext == (Linked => Chain(InvalidPage) = {})'
BY NoChain, PTL

\* Where links are added and none is moved, chains only grow.
LEMMA ChainGrows ==
  ASSUME Linked, Linked', NEW x \in Page,
         \A p, q \in Page : (p \in Chain(x) /\ Leads(p, q)) => Leads(p, q)'
  PROVE  Chain(x) \subseteq Chain(x)'
<1> DEFINE S == {p \in Chain(x) : p \in Chain(x)'}
<1>1. Page' = Page
  BY DEF Page
<1>2. x \in S
  BY <1>1, ChainStarts, ChainStartsNext
<1>3. ASSUME NEW p \in Page, NEW q \in Page, p \in S, Leads(p, q)
      PROVE  q \in S
  <2>1. q \in Chain(x)
    BY <1>3, ChainFollows
  <2>2. q \in Chain(x)'
    BY <1>1, <1>3, ChainFollowsNext
  <2> QED BY <2>1, <2>2
<1> HIDE DEF S
<1>4. Chain(x) \subseteq S
  BY <1>2, <1>3, ChainLeast
<1> QED
  BY <1>4 DEF S

----------------------------------------------------------------------------
(* The invariant.                                                          *)

Inv ==
  /\ TypeOK
  /\ AllocatedOnce
  /\ LinksForward
  /\ NoDanglingLink
  /\ OneOwner

\* A heap names a page that was allocated.  It is part of NoDanglingLink and
\* AllocatedOnce together.
LEMMA FirstIsAllocated ==
  ASSUME Inv
  PROVE  \A h \in Heap : first[h] # InvalidPage => first[h] < nextPageId
BY DEF Inv, TypeOK, AllocatedOnce, NoDanglingLink

LEMMA LinkIsAllocated ==
  ASSUME Inv
  PROVE  \A p \in Page :
           (Exists(p) /\ content[p].next # InvalidPage) => content[p].next < nextPageId
BY DEF Inv, TypeOK, HeapPage, AllocatedOnce, NoDanglingLink, Exists

\* The fields of a page of records.
LEMMA RecordsPageFields ==
  ASSUME NEW pg \in RecordsPage
  PROVE  /\ pg = [n |-> pg.n, free |-> pg.free, recs |-> pg.recs]
         /\ pg.n \in 0 .. Capacity
         /\ pg.free \in 0 .. Capacity - pg.n
         /\ pg.recs \in [0 .. pg.n - 1 -> Data \cup {Tombstone}]
BY DEF RecordsPage

\* What makes a page of records.
LEMMA IsRecordsPage ==
  ASSUME NEW n \in 0 .. Capacity, NEW free \in 0 .. Capacity - n,
         NEW recs \in [0 .. n - 1 -> Data \cup {Tombstone}]
  PROVE  [n |-> n, free |-> free, recs |-> recs] \in RecordsPage
BY DEF RecordsPage

LEMMA StoredType == \A d \in Data : Stored(d) \in Data \cup {Tombstone}
BY DEF Stored

LEMMA RecordLength == \A d \in Data \cup {Tombstone} : d.len \in Nat
BY DataAssumption DEF Tombstone

LEMMA EmptyPageType == EmptyPage \in RecordsPage
<1>1. [s \in {} |-> Tombstone] \in [0 .. 0 - 1 -> Data \cup {Tombstone}]
  OBVIOUS
<1>2. 0 \in 0 .. Capacity /\ Capacity \in 0 .. Capacity - 0
  BY HeapAssumption
<1> QED
  BY <1>1, <1>2, IsRecordsPage DEF EmptyPage

\* The modifiers of a page make pages of records of pages of records.
LEMMA PutType ==
  ASSUME NEW pg \in RecordsPage, NEW d \in Data, Fits(pg, d)
  PROVE  Put(pg, d) \in RecordsPage
<1>1. /\ pg.n \in 0 .. Capacity /\ pg.free \in 0 .. Capacity - pg.n
      /\ pg.recs \in [0 .. pg.n - 1 -> Data \cup {Tombstone}]
  BY RecordsPageFields
<1>2. d.len \in Nat /\ d.len + SlotSize <= pg.free
  BY DataAssumption DEF Fits
<1>3. pg.n + 1 \in 0 .. Capacity /\ pg.free - (d.len + SlotSize) \in 0 .. Capacity - (pg.n + 1)
  <2>1. /\ pg.n \in Nat /\ pg.free \in Nat /\ pg.n + pg.free <= Capacity
        /\ SlotSize \in Nat /\ SlotSize >= 1 /\ Capacity \in Nat
    BY <1>1, HeapAssumption
  <2>2. pg.n + 1 + (pg.free - (d.len + SlotSize)) <= Capacity /\ pg.free >= 1
    BY <1>2, <2>1
  <2> QED
    BY <1>2, <2>1, <2>2
<1>4. [s \in 0 .. pg.n |-> IF s = pg.n THEN Stored(d) ELSE pg.recs[s]]
        \in [0 .. (pg.n + 1) - 1 -> Data \cup {Tombstone}]
  BY <1>1, StoredType, HeapAssumption
<1> QED
  BY <1>3, <1>4, IsRecordsPage DEF Put

LEMMA ChangeType ==
  ASSUME NEW pg \in RecordsPage, NEW d \in Data, NEW s \in 0 .. pg.n - 1, Accepts(pg, s, d)
  PROVE  Change(pg, s, d) \in RecordsPage
<1>1. /\ pg.n \in 0 .. Capacity /\ pg.free \in 0 .. Capacity - pg.n
      /\ pg.recs \in [0 .. pg.n - 1 -> Data \cup {Tombstone}]
  BY RecordsPageFields
<1>2. d.len \in Nat
  BY DataAssumption
<1>3. (IF InPlace(pg, s, d) THEN pg.free ELSE pg.free - d.len) \in 0 .. Capacity - pg.n
  BY <1>1, <1>2, HeapAssumption DEF Accepts
<1>4. [pg.recs EXCEPT ![s] = Stored(d)] \in [0 .. pg.n - 1 -> Data \cup {Tombstone}]
  BY <1>1, StoredType
<1> QED
  BY <1>1, <1>3, <1>4, IsRecordsPage DEF Change

LEMMA RemoveType ==
  ASSUME NEW pg \in RecordsPage, NEW s \in 0 .. pg.n - 1
  PROVE  Remove(pg, s) \in RecordsPage
<1>1. /\ pg.n \in 0 .. Capacity /\ pg.free \in 0 .. Capacity - pg.n
      /\ pg.recs \in [0 .. pg.n - 1 -> Data \cup {Tombstone}]
  BY RecordsPageFields
<1>2. [pg.recs EXCEPT ![s] = Tombstone] \in [0 .. pg.n - 1 -> Data \cup {Tombstone}]
  BY <1>1
<1> QED
  BY <1>1, <1>2, IsRecordsPage DEF Remove

LEMMA FreshPageType == FreshPage \in HeapPage /\ FreshPage.next = InvalidPage
BY EmptyPageType DEF FreshPage, HeapPage

LEMMA PageFacts ==
  /\ InvalidPage \notin Page
  /\ \A p \in Page : p \in Nat /\ p < MaxPages
BY HeapAssumption DEF Page, InvalidPage

LEMMA InitInv == Init => Inv
BY HeapAssumption DEF Init, Inv, TypeOK, AllocatedOnce, LinksForward, NoDanglingLink, OneOwner,
   Exists, Page

\* A call that modifies the records of one page that exists, and no link.
LEMMA SameLinks ==
  ASSUME Inv, NEW p \in Page, Exists(p), NEW pg \in RecordsPage,
         content' = [content EXCEPT ![p].page = pg], UNCHANGED <<nextPageId, first>>,
         ret' \in {"accepted", "refused"} \X (Data \cup {Tombstone})
  PROVE  Inv'
<1>1. /\ content \in [Page -> HeapPage \cup {Unwritten, Zero}]
      /\ content[p] \in HeapPage
  BY DEF Inv, TypeOK, Exists
<1>2. content'[p] \in HeapPage /\ content'[p].next = content[p].next
  BY <1>1 DEF HeapPage
<1>3. \A q \in Page \ {p} : content'[q] = content[q]
  BY <1>1
<1>4. \A q \in Page : /\ Exists(q)' <=> Exists(q)
                      /\ Exists(q) => content'[q].next = content[q].next
  BY <1>1, <1>2, <1>3, UnwrittenAssumption DEF Exists
<1>5. TypeOK'
  BY <1>1, <1>2, <1>3 DEF Inv, TypeOK
<1>6. AllocatedOnce' /\ LinksForward'
  BY <1>4 DEF Inv, AllocatedOnce, LinksForward
<1>7. NoDanglingLink'
  BY <1>1, <1>4 DEF Inv, TypeOK, HeapPage, Exists, NoDanglingLink
<1>8. OneOwner'
  BY <1>4 DEF Inv, OneOwner
<1> QED
  BY <1>5, <1>6, <1>7, <1>8 DEF Inv

\* A heap without pages is given the next page, with records or without.
LEMMA FirstPageInv ==
  ASSUME Inv, NEW h \in Heap, first[h] = InvalidPage, nextPageId < MaxPages,
         NEW page \in HeapPage, page.next = InvalidPage,
         first' = [first EXCEPT ![h] = nextPageId],
         content' = [content EXCEPT ![nextPageId] = page],
         nextPageId' = nextPageId + 1,
         ret' \in {"accepted", "refused"} \X (Data \cup {Tombstone})
  PROVE  Inv'
<1> DEFINE p == nextPageId
<1>1. /\ p \in Page /\ p + 1 \in 0 .. MaxPages
      /\ content \in [Page -> HeapPage \cup {Unwritten, Zero}]
      /\ first \in [Heap -> Page \cup {InvalidPage}]
      /\ ~ Exists(p)
  BY HeapAssumption DEF Inv, TypeOK, AllocatedOnce, Page
<1>2. /\ first[h] = InvalidPage
      /\ first' = [first EXCEPT ![h] = p]
      /\ content' = [content EXCEPT ![p] = page]
      /\ nextPageId' = p + 1
  OBVIOUS
<1>3. \A q \in Page : /\ Exists(q)' <=> Exists(q) \/ q = p
                      /\ content'[q] = IF q = p THEN page ELSE content[q]
  BY <1>1, <1>2, UnwrittenAssumption DEF Exists
<1>4. TypeOK'
  BY <1>1, <1>2 DEF TypeOK
<1>5. AllocatedOnce'
  BY <1>1, <1>2, <1>3, PageFacts DEF Inv, AllocatedOnce
<1>6. LinksForward'
  BY <1>3 DEF Inv, LinksForward
<1>7. NoDanglingLink'
  BY <1>1, <1>2, <1>3 DEF Inv, TypeOK, HeapPage, NoDanglingLink, Exists
<1>8. OneOwner'
  <2>1. \A g \in Heap : first'[g] = IF g = h THEN p ELSE first[g]
    BY <1>1, <1>2
  <2>2. \A g \in Heap : first[g] # p
    BY <1>1, FirstIsAllocated, PageFacts
  <2>3. \A q \in Page : (Exists(q) /\ content[q].next # InvalidPage) => content[q].next # p
    BY <1>1, LinkIsAllocated, PageFacts
  <2>4. \A f, g \in Heap : (first'[f] = first'[g] /\ first'[f] # InvalidPage) => f = g
    BY <2>1, <2>2 DEF Inv, OneOwner
  <2>5. \A q, r \in Page :
          (Exists(q)' /\ Exists(r)' /\ content'[q].next = content'[r].next
             /\ content'[q].next # InvalidPage) => q = r
    BY <1>3 DEF Inv, OneOwner
  <2>6. \A g \in Heap, q \in Page :
          (Exists(q)' /\ content'[q].next # InvalidPage) => content'[q].next # first'[g]
    BY <1>3, <2>1, <2>3 DEF Inv, OneOwner
  <2> QED
    BY <2>4, <2>5, <2>6 DEF OneOwner
<1> QED
  BY <1>4, <1>5, <1>6, <1>7, <1>8 DEF Inv

LEMMA CreateInv ==
  ASSUME Inv, NEW h \in Heap, Create(h)
  PROVE  Inv'
BY FirstPageInv, FreshPageType DEF Create

LEMMA InsertCreatesInv ==
  ASSUME Inv, NEW h \in Heap, NEW d \in Data, InsertCreates(h, d)
  PROVE  Inv'
<1> DEFINE page == [FreshPage EXCEPT !.page = Put(EmptyPage, d)]
<1>1. page \in HeapPage /\ page.next = InvalidPage
  BY EmptyPageType, PutType DEF FreshPage, HeapPage, InsertCreates
<1>2. /\ first[h] = InvalidPage /\ nextPageId < MaxPages
      /\ first' = [first EXCEPT ![h] = nextPageId]
      /\ content' = [content EXCEPT ![nextPageId] = page]
      /\ nextPageId' = nextPageId + 1 /\ ret' = <<"accepted", d>>
  BY DEF InsertCreates, FreshPage
<1> HIDE DEF page
<1> QED
  BY <1>1, <1>2, FirstPageInv

\* Two pages at once: the second is the successor of the first.
LEMMA RefusedCreatesInv ==
  ASSUME Inv, NEW h \in Heap, NEW d \in Data, RefusedCreates(h, d)
  PROVE  Inv'
<1> DEFINE p == nextPageId
           linked == [FreshPage EXCEPT !.next = p + 1]
<1>1. /\ p \in Page /\ p + 1 \in Page /\ p + 2 \in 0 .. MaxPages
      /\ content \in [Page -> HeapPage \cup {Unwritten, Zero}]
      /\ first \in [Heap -> Page \cup {InvalidPage}]
      /\ ~ Exists(p) /\ ~ Exists(p + 1)
  BY HeapAssumption DEF Inv, TypeOK, AllocatedOnce, Page, RefusedCreates
<1>2. /\ first[h] = InvalidPage
      /\ first' = [first EXCEPT ![h] = p]
      /\ content' = [content EXCEPT ![p] = linked, ![p + 1] = FreshPage]
      /\ nextPageId' = p + 2
      /\ ret' = <<"refused", d>>
  BY DEF RefusedCreates
<1>3. linked \in HeapPage /\ linked.next = p + 1
  BY <1>1, FreshPageType, EmptyPageType DEF FreshPage, HeapPage
<1> HIDE DEF linked
<1>4. /\ content'[p] = linked /\ content'[p + 1] = FreshPage
      /\ \A q \in Page : (q # p /\ q # p + 1) => content'[q] = content[q]
  BY <1>1, <1>2
<1>5. \A q \in Page :
        /\ Exists(q)' <=> Exists(q) \/ q = p \/ q = p + 1
        /\ Exists(q)' => content'[q].next = IF q = p THEN p + 1
                                            ELSE IF q = p + 1 THEN InvalidPage ELSE content[q].next
  BY <1>1, <1>3, <1>4, FreshPageType, UnwrittenAssumption DEF Exists
<1>6. TypeOK'
  <2>1. content' \in [Page -> HeapPage \cup {Unwritten, Zero}]
    BY <1>1, <1>2, <1>3, <1>4, FreshPageType
  <2> QED
    BY <1>1, <1>2, <2>1 DEF TypeOK
<1>7. AllocatedOnce'
  BY <1>1, <1>2, <1>5, PageFacts DEF Inv, AllocatedOnce
<1>8. LinksForward'
  BY <1>1, <1>5, PageFacts DEF Inv, LinksForward
<1>9. NoDanglingLink'
  BY <1>1, <1>2, <1>5 DEF Inv, TypeOK, HeapPage, NoDanglingLink, Exists
<1>10. OneOwner'
  <2>1. \A g \in Heap : first'[g] = IF g = h THEN p ELSE first[g]
    BY <1>1, <1>2
  <2>2. \A g \in Heap : first[g] # p /\ first[g] # p + 1
    BY <1>1, FirstIsAllocated, PageFacts
  <2>3. \A q \in Page :
          (Exists(q) /\ content[q].next # InvalidPage)
            => content[q].next # p /\ content[q].next # p + 1
    BY <1>1, LinkIsAllocated, PageFacts
  <2>4. \A f, g \in Heap : (first'[f] = first'[g] /\ first'[f] # InvalidPage) => f = g
    BY <2>1, <2>2 DEF Inv, OneOwner
  <2>5. \A q, r \in Page :
          (Exists(q)' /\ Exists(r)' /\ content'[q].next = content'[r].next
             /\ content'[q].next # InvalidPage) => q = r
    BY <1>1, <1>5, <2>3, PageFacts DEF Inv, OneOwner
  <2>6. \A g \in Heap, q \in Page :
          (Exists(q)' /\ content'[q].next # InvalidPage) => content'[q].next # first'[g]
    BY <1>1, <1>5, <2>1, <2>2, <2>3, PageFacts DEF Inv, OneOwner
  <2> QED
    BY <2>4, <2>5, <2>6 DEF OneOwner
<1> QED
  BY <1>6, <1>7, <1>8, <1>9, <1>10 DEF Inv

LEMMA InsertAppendsInv ==
  ASSUME Inv, NEW h \in Heap, NEW d \in Data, NEW last \in Page, InsertAppends(h, d, last)
  PROVE  Inv'
<1> DEFINE p == nextPageId
           new == IF Fits(EmptyPage, d) THEN [FreshPage EXCEPT !.page = Put(@, d)]
                                        ELSE FreshPage
<1>1. /\ p \in Page /\ p + 1 \in 0 .. MaxPages
      /\ content \in [Page -> HeapPage \cup {Unwritten, Zero}]
      /\ first \in [Heap -> Page \cup {InvalidPage}]
      /\ ~ Exists(p)
  BY HeapAssumption DEF Inv, TypeOK, AllocatedOnce, Page, InsertAppends
<1>2. /\ Exists(last) /\ content[last].next = InvalidPage
      /\ content' = [content EXCEPT ![last].next = p, ![p] = new]
      /\ nextPageId' = p + 1
      /\ ret' \in {"accepted", "refused"} \X (Data \cup {Tombstone})
      /\ first' = first
  BY DEF InsertAppends, Sound
<1>3. new \in HeapPage /\ new.next = InvalidPage
  BY FreshPageType, EmptyPageType, PutType DEF FreshPage, HeapPage
<1>4. last # p /\ content[last] \in HeapPage /\ last < p
  BY <1>1, <1>2 DEF Inv, AllocatedOnce, Exists
<1> HIDE DEF new
<1>5. /\ content'[last] \in HeapPage /\ content'[last].next = p
      /\ content'[p] = new
      /\ \A q \in Page : (q # last /\ q # p) => content'[q] = content[q]
  BY <1>1, <1>2, <1>4 DEF HeapPage
<1>6. \A q \in Page :
        /\ Exists(q)' <=> Exists(q) \/ q = p
        /\ Exists(q)' => content'[q].next = IF q = last THEN p
                                            ELSE IF q = p THEN InvalidPage ELSE content[q].next
  BY <1>1, <1>2, <1>3, <1>4, <1>5, UnwrittenAssumption DEF Exists
<1>7. TypeOK'
  <2>1. content' \in [Page -> HeapPage \cup {Unwritten, Zero}]
    BY <1>1, <1>2, <1>3, <1>5
  <2> QED
    BY <1>1, <1>2, <2>1 DEF TypeOK
<1>8. AllocatedOnce'
  BY <1>1, <1>2, <1>6, PageFacts DEF Inv, AllocatedOnce
<1>9. LinksForward'
  BY <1>4, <1>6 DEF Inv, LinksForward
<1>10. NoDanglingLink'
  BY <1>1, <1>2, <1>6 DEF Inv, TypeOK, HeapPage, NoDanglingLink, Exists
<1>11. OneOwner'
  <2>1. \A g \in Heap : first[g] # p
    BY <1>1, FirstIsAllocated, PageFacts
  <2>2. \A q \in Page : (Exists(q) /\ content[q].next # InvalidPage) => content[q].next # p
    BY <1>1, LinkIsAllocated, PageFacts
  <2>3. \A q, r \in Page :
          (Exists(q)' /\ Exists(r)' /\ content'[q].next = content'[r].next
             /\ content'[q].next # InvalidPage) => q = r
    BY <1>1, <1>6, <2>2, PageFacts DEF Inv, OneOwner
  <2>4. \A g \in Heap, q \in Page :
          (Exists(q)' /\ content'[q].next # InvalidPage) => content'[q].next # first'[g]
    BY <1>1, <1>2, <1>6, <2>1, PageFacts DEF Inv, OneOwner
  <2>5. \A f, g \in Heap : (first'[f] = first'[g] /\ first'[f] # InvalidPage) => f = g
    BY <1>2 DEF Inv, OneOwner
  <2> QED
    BY <2>3, <2>4, <2>5 DEF OneOwner
<1> QED
  BY <1>7, <1>8, <1>9, <1>10, <1>11 DEF Inv

\* The page a record call works on exists, and the slot is one of its slots.
LEMMA ChainPage ==
  ASSUME Inv, NEW h \in Heap, NEW p \in Chain(first[h]), Sound(h)
  PROVE  p \in Page /\ Exists(p) /\ content[p].page \in RecordsPage
<1>1. p \in Page /\ Exists(p)
  BY DEF Sound, Chain
<1> QED
  BY <1>1 DEF Inv, TypeOK, HeapPage, Exists

LEMMA InsertIntoInv ==
  ASSUME Inv, NEW h \in Heap, NEW d \in Data, NEW p \in Page, InsertInto(h, d, p)
  PROVE  Inv'
<1>1. /\ Sound(h) /\ Fits(content[p].page, d) /\ p \in Chain(first[h])
      /\ content' = [content EXCEPT ![p].page = Put(@, d)]
      /\ ret' = <<"accepted", d>> /\ UNCHANGED <<nextPageId, first>>
  BY DEF InsertInto, StopsAt, Chain
<1>2. Exists(p) /\ content[p].page \in RecordsPage
  BY <1>1, ChainPage
<1>3. Put(content[p].page, d) \in RecordsPage
  BY <1>1, <1>2, PutType
<1>4. content' = [content EXCEPT ![p].page = Put(content[p].page, d)]
  BY <1>1
<1> QED
  BY <1>1, <1>2, <1>3, <1>4, SameLinks

LEMMA UpdateInv ==
  ASSUME Inv, NEW h \in Heap, NEW p \in Page, NEW s \in Slots(p), NEW d \in Data,
         Update(h, p, s, d)
  PROVE  Inv'
<1> DEFINE pg == content[p].page
<1>1. Exists(p) /\ pg \in RecordsPage /\ s \in 0 .. pg.n - 1
  BY ChainPage DEF Update, Slots
<1>2. CASE Accepts(pg, s, d)
  <2>1. /\ content' = [content EXCEPT ![p].page = Change(pg, s, d)]
        /\ ret' = <<"accepted", d>> /\ UNCHANGED <<nextPageId, first>>
    BY <1>2 DEF Update
  <2>2. Change(pg, s, d) \in RecordsPage
    BY <1>1, <1>2, ChangeType
  <2> QED
    BY <1>1, <2>1, <2>2, SameLinks
<1>3. CASE ~ Accepts(pg, s, d)
  <2>1. content' = content /\ ret' = <<"refused", d>> /\ UNCHANGED <<nextPageId, first>>
    BY <1>3 DEF Update
  <2> QED
    BY <2>1 DEF Inv, TypeOK, AllocatedOnce, LinksForward, NoDanglingLink, OneOwner, Exists
<1> QED
  BY <1>2, <1>3

LEMMA DeleteInv ==
  ASSUME Inv, NEW h \in Heap, NEW p \in Page, NEW s \in Slots(p), Delete(h, p, s)
  PROVE  Inv'
<1>1. Exists(p) /\ content[p].page \in RecordsPage /\ s \in 0 .. content[p].page.n - 1
  BY ChainPage DEF Delete, Slots
<1>2. /\ content' = [content EXCEPT ![p].page = Remove(content[p].page, s)]
      /\ ret' = <<"accepted", Tombstone>> /\ UNCHANGED <<nextPageId, first>>
  BY DEF Delete
<1>3. Remove(content[p].page, s) \in RecordsPage
  BY <1>1, RemoveType
<1> QED
  BY <1>1, <1>2, <1>3, SameLinks

LEMMA NextInv == Inv /\ [Next]_vars => Inv'
<1> SUFFICES ASSUME Inv, [Next]_vars PROVE Inv'
  OBVIOUS
<1>1. ASSUME NEW h \in Heap, Adds(h) PROVE Inv'
  BY <1>1, CreateInv, InsertCreatesInv, RefusedCreatesInv, InsertIntoInv, InsertAppendsInv DEF Adds
<1>2. ASSUME NEW h \in Heap, NEW p \in Page, NEW s \in Slots(p), Changes(h, p, s) PROVE Inv'
  BY <1>2, DeleteInv, UpdateInv DEF Changes
<1>3. CASE UNCHANGED vars
  BY <1>3 DEF vars, Inv, TypeOK, AllocatedOnce, LinksForward, NoDanglingLink, OneOwner, Exists
<1> QED
  BY <1>1, <1>2, <1>3 DEF Next

\* Every chain of every heap leads from page to page with a larger id, so that
\* every walk ends, for any number of heaps, pages and records.
THEOREM WalksEnd == Spec => []LinksForward
<1>1. Inv => LinksForward
  BY DEF Inv
<1> QED
  BY <1>1, InitInv, NextInv, PTL DEF Spec

\* No heap and no page links to a page that was not initialised.
THEOREM LinksLeadSomewhere == Spec => []NoDanglingLink
<1>1. Inv => NoDanglingLink
  BY DEF Inv
<1> QED
  BY <1>1, InitInv, NextInv, PTL DEF Spec

\* No two heaps share a page: a page is the first of one heap or the successor
\* of one page, and never both.
THEOREM HeapsStayApart == Spec => []OneOwner
<1>1. Inv => OneOwner
  BY DEF Inv
<1> QED
  BY <1>1, InitInv, NextInv, PTL DEF Spec

\* The pages in use are those below the next page id: no page id is lost, and
\* the next one is free.
THEOREM PagesAllocatedOnce == Spec => []AllocatedOnce
<1>1. Inv => AllocatedOnce
  BY DEF Inv
<1> QED
  BY <1>1, InitInv, NextInv, PTL DEF Spec

\* Every state of the heaps is well typed: no page overflows.
THEOREM HeapTypeCorrect == Spec => []TypeOK
<1>1. Inv => TypeOK
  BY DEF Inv
<1> QED
  BY <1>1, InitInv, NextInv, PTL DEF Spec

----------------------------------------------------------------------------
(* The heaps implement RecordStore.  A page belongs to the one heap whose    *)
(* chain it is on, and calls only add links, so that it belongs to it for    *)
(* good.                                                                     *)

Owned == \A p \in Page : Exists(p) => \E h \in Heap : p \in Chain(first[h])

StoreInv == Inv /\ Owned

\* What no call does: drop a page, move a link, or take a heap its first page.
Grows ==
  /\ \A p \in Page : Exists(p) => Exists(p)'
  /\ \A p, q \in Page : Leads(p, q) => Leads(p, q)'
  /\ \A h \in Heap : first[h] # InvalidPage => first'[h] = first[h]

\* The invariant has what the facts about chains assume.
LEMMA InvLinked == Inv => Linked
BY DEF Inv, TypeOK, Linked

\* The page p is on the chain of one heap.
LEMMA OneChain ==
  Inv => \A g, h \in Heap, p \in Page :
           (p \in Chain(first[g]) /\ p \in Chain(first[h])) => g = h
<1> SUFFICES ASSUME Inv, NEW g \in Heap, NEW h \in Heap, g # h
             PROVE  \A p \in Page : ~ (p \in Chain(first[g]) /\ p \in Chain(first[h]))
  OBVIOUS
<1>1. Linked /\ first[g] \in Page \cup {InvalidPage} /\ first[h] \in Page \cup {InvalidPage}
  BY InvLinked DEF Inv, TypeOK
<1>2. CASE first[g] = InvalidPage \/ first[h] = InvalidPage
  BY <1>1, <1>2, NoChain
<1>3. CASE first[g] \in Page /\ first[h] \in Page
  <2> DEFINE S == {p \in Chain(first[g]) : p \notin Chain(first[h])}
  <2>1. first[g] \in S
    <3>1. first[g] # first[h] /\ first[g] # InvalidPage
      BY <1>3, PageFacts DEF Inv, OneOwner
    <3>2. \A p \in Page : ~ Leads(p, first[g])
      BY <3>1 DEF Inv, OneOwner, Leads
    <3>3. first[g] \notin Chain(first[h])
      BY <1>1, <1>3, <3>1, <3>2, ChainPrecedes DEF Chain
    <3> QED BY <1>3, <3>3, ChainStarts
  <2>2. ASSUME NEW p \in Page, NEW q \in Page, p \in S, Leads(p, q)
        PROVE  q \in S
    <3>1. q \in Chain(first[g])
      BY <1>1, <1>3, <2>2, ChainFollows
    <3>2. q # InvalidPage /\ Exists(p) /\ content[p].next = q
      BY <2>2, PageFacts DEF Leads
    <3>3. q # first[h]
      BY <3>2 DEF Inv, OneOwner
    <3>4. \A r \in Page : Leads(r, q) => r = p
      BY <3>2 DEF Inv, OneOwner, Leads
    <3>5. q \notin Chain(first[h])
      BY <1>1, <1>3, <2>2, <3>3, <3>4, ChainPrecedes DEF Chain
    <3> QED BY <3>1, <3>5
  <2> HIDE DEF S
  <2>3. Chain(first[g]) \subseteq S
    BY <1>1, <1>3, <2>1, <2>2, ChainLeast
  <2> QED BY <2>3 DEF S
<1> QED
  BY <1>1, <1>2, <1>3

\* A page that exists belongs to the heap whose chain it is on.
LEMMA HeapOfIs ==
  Inv => \A h \in Heap, p \in Page : p \in Chain(first[h]) => HeapOf(p) = h
BY OneChain DEF HeapOf

\* Chains only grow.
LEMMA ChainsGrow ==
  ASSUME Inv, Inv', Grows, NEW h \in Heap, NEW p \in Page, p \in Chain(first[h])
  PROVE  p \in Chain(first[h])'
<1>1. Linked /\ first[h] \in Page \cup {InvalidPage}
  BY InvLinked DEF Inv, TypeOK
<1>2. Linked'
  <2>1. (Inv => Linked)'
    BY InvLinked, PTL
  <2> QED BY <2>1
<1>3. PICK x : x = first[h]
  OBVIOUS
<1>4. x \in Page /\ first'[h] = x
  BY <1>1, <1>3, NoChain DEF Grows
<1>5. Chain(x) \subseteq Chain(x)'
  BY <1>1, <1>2, <1>4, ChainGrows DEF Grows
<1>6. Chain(first[h]) = Chain(x) /\ Chain(first[h])' = Chain(x)'
  BY <1>3, <1>4
<1> QED
  BY <1>5, <1>6

\* The same in the next state.
LEMMA HeapOfIsNext ==
  (Inv => \A h \in Heap, p \in Page : p \in Chain(first[h]) => HeapOf(p) = h)'
BY HeapOfIs, PTL

\* A page stays with its heap.
LEMMA SameHeap ==
  ASSUME StoreInv, Inv', Grows, NEW p \in Page, Exists(p)
  PROVE  HeapOf(p)' = HeapOf(p)
<1>1. PICK h \in Heap : p \in Chain(first[h])
  BY DEF StoreInv, Owned
<1>2. p \in Chain(first[h])'
  BY <1>1, ChainsGrow DEF StoreInv
<1>3. p \in Page'
  BY DEF Page
<1> QED
  BY <1>1, <1>2, <1>3, HeapOfIs, HeapOfIsNext DEF StoreInv

\* The RIDs handed out: a page and one of its slots.
LEMMA RIDs ==
  \A r : r \in UsedRIDs <=> \E p \in Page : \E s \in Slots(p) : r = <<p, s>>
BY DEF UsedRIDs

\* The same in the next state.
LEMMA RIDsNext ==
  (\A r : r \in UsedRIDs <=> \E p \in Page : \E s \in Slots(p) : r = <<p, s>>)'
BY RIDs, PTL

\* A row of which the record is the same is the same row.
LEMMA SameRow ==
  ASSUME StoreInv, Inv', Grows, NEW r \in UsedRIDs, r \in UsedRIDs', RecordAt(r)' = RecordAt(r)
  PROVE  Rows'[r] = Rows[r]
<1>1. PICK p \in Page : \E s \in Slots(p) : r = <<p, s>>
  BY RIDs
<1>2. Exists(p)
  BY <1>1 DEF Slots
<1>3. HeapOf(r[1])' = HeapOf(r[1])
  BY <1>1, <1>2, SameHeap
<1> QED
  BY <1>3 DEF Rows

\* What a call leaves alone on the pages other than p.
Elsewhere(p) ==
  \A q \in Page \ {p} :
    /\ Slots(q)' = Slots(q)
    /\ \A s \in Slots(q) : RecordAt(<<q, s>>)' = RecordAt(<<q, s>>)

\* A page that was given a record is a row more.
LEMMA RowAdded ==
  ASSUME StoreInv, Inv', Grows, NEW h \in Heap, NEW p \in Page, NEW d \in Data,
         NEW pg \in RecordsPage, Fits(pg, d), pg = IF Exists(p) THEN content[p].page ELSE EmptyPage,
         Exists(p)', content'[p].page = Put(pg, d), p \in Chain(first[h])',
         Elsewhere(p), Opened' = Opened \cup {h}, ret' = <<"accepted", d>>
  PROVE  \E r \in Page \X (0 .. Capacity) : Contract!Insert(h, d, r)
<1> DEFINE r == <<p, pg.n>>
<1>1. /\ pg.n \in 0 .. Capacity /\ pg.n \in Nat
      /\ pg.recs \in [0 .. pg.n - 1 -> Data \cup {Tombstone}]
  BY RecordsPageFields, HeapAssumption
<1>2. Slots(p) = 0 .. pg.n - 1
  BY <1>1 DEF Slots, EmptyPage
<1>3. Slots(p)' = 0 .. pg.n
  BY <1>1 DEF Slots, Put
<1>4. ASSUME NEW s \in Slots(p)
      PROVE  RecordAt(<<p, s>>)' = RecordAt(<<p, s>>)
  <2>1. Exists(p) /\ content[p].page = pg
    BY DEF Slots
  <2>2. s \in 0 .. pg.n /\ s # pg.n
    BY <1>1, <1>2
  <2>3. RecordAt(<<p, s>>) = pg.recs[s]
    BY <2>1 DEF RecordAt
  <2>4. Put(pg, d).recs[s] = pg.recs[s]
    BY <2>2 DEF Put
  <2>5. RecordAt(<<p, s>>)' = Put(pg, d).recs[s]
    BY DEF RecordAt
  <2> QED BY <2>3, <2>4, <2>5
<1>5. RecordAt(r)' = Stored(d)
  BY <1>1 DEF RecordAt, Put
<1>6. Page' = Page
  BY DEF Page
<1>7. \A q : q \in UsedRIDs' <=> (q \in UsedRIDs \/ q = r)
  <2>1. \A q : q \in UsedRIDs' <=> \E x \in Page : \E s \in Slots(x)' : q = <<x, s>>
    BY <1>6, RIDsNext
  <2>2. \A x \in Page \ {p} : Slots(x)' = Slots(x)
    BY DEF Elsewhere
  <2>3. \A s : s \in Slots(p)' <=> s \in Slots(p) \/ s = pg.n
    BY <1>1, <1>2, <1>3
  <2> QED BY <2>1, <2>2, <2>3, RIDs
<1>8. r \notin UsedRIDs
  BY <1>1, <1>2, RIDs
<1>9. \A q \in UsedRIDs : Rows'[q] = Rows[q]
  <2> SUFFICES ASSUME NEW q \in UsedRIDs
               PROVE  Rows'[q] = Rows[q]
    OBVIOUS
  <2>1. RecordAt(q)' = RecordAt(q)
    BY <1>4, RIDs DEF Elsewhere
  <2> QED BY <1>7, <2>1, SameRow
<1>10. HeapOf(r[1])' = h
  BY <1>6, HeapOfIsNext
<1>11. Rows'[r] = [heap |-> h, rec |-> Stored(d)]
  BY <1>5, <1>7, <1>10 DEF Rows
<1>12. DOMAIN Rows = UsedRIDs /\ DOMAIN Rows' = UsedRIDs'
  BY DEF Rows
<1>13. Contract!Writes(r, [heap |-> h, rec |-> Stored(d)])
  BY <1>7, <1>8, <1>9, <1>11, <1>12 DEF Contract!Writes
<1>14. Contract!Stored(d) = Stored(d)
  BY DEF Stored, Contract!Stored, Tombstone, Contract!Tombstone
<1>15. r \in Page \X (0 .. Capacity)
  BY <1>1
<1> HIDE DEF r
<1>16. Contract!Insert(h, d, r)
  BY <1>8, <1>12, <1>13, <1>14 DEF Contract!Insert
<1> QED
  BY <1>15, <1>16

\* A page of which one record was changed is the same rows but one.
LEMMA RowChanged ==
  ASSUME StoreInv, Inv', Grows, NEW p \in Page, Exists(p), Exists(p)',
         NEW s \in Slots(p), NEW rec, Slots(p)' = Slots(p),
         content'[p].page.recs = [content[p].page.recs EXCEPT ![s] = rec],
         Elsewhere(p)
  PROVE  Contract!Writes(<<p, s>>, [Rows[<<p, s>>] EXCEPT !.rec = rec])
<1> DEFINE r == <<p, s>>
<1>1. /\ content[p].page \in RecordsPage
      /\ content[p].page.recs \in [Slots(p) -> Data \cup {Tombstone}]
  <2>1. content[p].page \in RecordsPage
    BY DEF StoreInv, Inv, TypeOK, HeapPage, Exists
  <2> QED BY <2>1, RecordsPageFields DEF Slots
<1>2. RecordAt(r)' = rec /\ \A t \in Slots(p) \ {s} : RecordAt(<<p, t>>)' = RecordAt(<<p, t>>)
  BY <1>1 DEF RecordAt
<1>3. Page' = Page
  BY DEF Page
<1>4. \A q : q \in UsedRIDs' <=> q \in UsedRIDs
  <2>1. \A q : q \in UsedRIDs' <=> \E x \in Page : \E t \in Slots(x)' : q = <<x, t>>
    BY <1>3, RIDsNext
  <2>2. \A x \in Page : Slots(x)' = Slots(x)
    BY DEF Elsewhere
  <2> QED BY <2>1, <2>2, RIDs
<1>5. r \in UsedRIDs /\ r \in UsedRIDs'
  BY <1>4, RIDs
<1>6. \A q \in UsedRIDs \ {r} : Rows'[q] = Rows[q]
  <2> SUFFICES ASSUME NEW q \in UsedRIDs, q # r
               PROVE  Rows'[q] = Rows[q]
    OBVIOUS
  <2>1. RecordAt(q)' = RecordAt(q)
    BY <1>2, RIDs DEF Elsewhere
  <2> QED BY <1>4, <2>1, SameRow
<1>7. HeapOf(r[1])' = HeapOf(r[1])
  BY SameHeap
<1>8. Rows'[r] = [Rows[r] EXCEPT !.rec = rec]
  BY <1>2, <1>5, <1>7 DEF Rows
<1>9. DOMAIN Rows = UsedRIDs /\ DOMAIN Rows' = UsedRIDs'
  BY DEF Rows
<1> QED
  BY <1>4, <1>5, <1>6, <1>8, <1>9 DEF Contract!Writes

\* Where every record is what it was, so are the rows.
LEMMA RowsUnchanged ==
  ASSUME StoreInv, Inv', Grows,
         \A q \in Page : /\ Slots(q)' = Slots(q)
                         /\ \A s \in Slots(q) : RecordAt(<<q, s>>)' = RecordAt(<<q, s>>)
  PROVE  Rows' = Rows
<1>1. Page' = Page
  BY DEF Page
<1>2. \A q : q \in UsedRIDs' <=> q \in UsedRIDs
  <2>1. \A q : q \in UsedRIDs' <=> \E x \in Page : \E t \in Slots(x)' : q = <<x, t>>
    BY <1>1, RIDsNext
  <2> QED BY <2>1, RIDs
<1>3. \A q \in UsedRIDs : Rows'[q] = Rows[q]
  <2> SUFFICES ASSUME NEW q \in UsedRIDs
               PROVE  Rows'[q] = Rows[q]
    OBVIOUS
  <2>1. RecordAt(q)' = RecordAt(q)
    BY RIDs
  <2> QED BY <1>2, <2>1, SameRow
<1> QED
  BY <1>2, <1>3 DEF Rows

\* New pages are on some chain, so that every page is.
LEMMA OwnedNext ==
  ASSUME StoreInv, Inv', Grows,
         \A p \in Page : (Exists(p)' /\ ~ Exists(p)) => \E h \in Heap : p \in Chain(first[h])'
  PROVE  Owned'
<1>1. Page' = Page
  BY DEF Page
<1>2. ASSUME NEW p \in Page, Exists(p)
      PROVE  \E h \in Heap : p \in Chain(first[h])'
  BY <1>2, ChainsGrow DEF StoreInv, Owned
<1> QED
  BY <1>1, <1>2 DEF Owned

\* What Create() and Insert() into a heap without pages do to the chains.
LEMMA FirstPageStore ==
  ASSUME StoreInv, Inv', NEW h \in Heap, first[h] = InvalidPage,
         NEW p \in Page, p = nextPageId, NEW page \in HeapPage,
         first' = [first EXCEPT ![h] = p],
         content' = [content EXCEPT ![p] = page]
  PROVE  /\ ~ Exists(p) /\ Exists(p)' /\ content'[p] = page
         /\ p \in Chain(first[h])'
         /\ Grows /\ Elsewhere(p) /\ Opened' = Opened \cup {h} /\ Owned'
<1>1. /\ ~ Exists(p) /\ p # InvalidPage
      /\ content \in [Page -> HeapPage \cup {Unwritten, Zero}]
      /\ first \in [Heap -> Page \cup {InvalidPage}]
  BY HeapAssumption, PageFacts DEF StoreInv, Inv, TypeOK, AllocatedOnce, Page
<1>2. /\ content'[p] = page /\ \A q \in Page \ {p} : content'[q] = content[q]
      /\ first'[h] = p /\ \A g \in Heap \ {h} : first'[g] = first[g]
  BY <1>1
<1>3. \A q \in Page : Exists(q)' <=> Exists(q) \/ q = p
  BY <1>1, <1>2, UnwrittenAssumption DEF Exists
<1>4. Grows
  BY <1>1, <1>2, <1>3 DEF Grows, Leads, Exists
<1>5. Elsewhere(p)
  BY <1>2 DEF Elsewhere, Slots, Exists, RecordAt
<1>6. p \in Chain(first[h])'
  <2>1. p \in Chain(p)'
    BY <1>1, ChainStartsNext DEF Page
  <2> QED BY <1>2, <2>1
<1>7. Opened' = Opened \cup {h}
  BY <1>1, <1>2 DEF Opened
<1>8. Owned'
  BY <1>3, <1>4, <1>6, OwnedNext
<1> QED
  BY <1>1, <1>2, <1>3, <1>4, <1>5, <1>6, <1>7, <1>8

\* Create() opens a heap.
LEMMA CreateStore ==
  ASSUME StoreInv, NEW h \in Heap, Create(h)
  PROVE  StoreInv' /\ Contract!Create(h)
<1>1. Inv'
  BY CreateInv DEF StoreInv
<1>0. nextPageId \in Page
  BY HeapAssumption DEF StoreInv, Inv, TypeOK, Page, Create
<1> PICK p \in Page : p = nextPageId
  BY <1>0
<1>2. /\ ~ Exists(p) /\ Exists(p)' /\ content'[p] = FreshPage
      /\ Grows /\ Elsewhere(p) /\ Opened' = Opened \cup {h} /\ Owned'
  BY <1>1, FirstPageStore, FreshPageType DEF Create
<1>3. Slots(p) = {} /\ Slots(p)' = {}
  BY <1>2 DEF Slots, FreshPage, EmptyPage
<1>4. Rows' = Rows
  BY <1>1, <1>2, <1>3, RowsUnchanged DEF Elsewhere
<1>5. h \notin Opened
  BY DEF Opened, Create
<1> QED
  BY <1>1, <1>2, <1>4, <1>5 DEF StoreInv, Contract!Create, Create, Tombstone, Contract!Tombstone

\* Insert() into a heap without pages opens it and adds one record.
LEMMA InsertCreatesStore ==
  ASSUME StoreInv, NEW h \in Heap, NEW d \in Data, InsertCreates(h, d)
  PROVE  StoreInv' /\ \E r \in Page \X (0 .. Capacity) : Contract!Insert(h, d, r)
<1>1. Inv'
  BY InsertCreatesInv DEF StoreInv
<1>0. nextPageId \in Page
  BY HeapAssumption DEF StoreInv, Inv, TypeOK, Page, InsertCreates
<1> PICK p \in Page : p = nextPageId
  BY <1>0
<1> DEFINE page == [FreshPage EXCEPT !.page = Put(EmptyPage, d)]
<1>2. page \in HeapPage /\ page.page = Put(EmptyPage, d)
  BY EmptyPageType, PutType DEF FreshPage, HeapPage, InsertCreates
<1>3. /\ first[h] = InvalidPage /\ Fits(EmptyPage, d)
      /\ first' = [first EXCEPT ![h] = p]
      /\ content' = [content EXCEPT ![p] = page]
      /\ ret' = <<"accepted", d>>
  BY DEF InsertCreates, FreshPage
<1> HIDE DEF page
<1>4. /\ ~ Exists(p) /\ content'[p] = page /\ Exists(p)' /\ p \in Chain(first[h])'
      /\ Grows /\ Elsewhere(p) /\ Opened' = Opened \cup {h} /\ Owned'
  BY <1>1, <1>2, <1>3, FirstPageStore
<1>5. \E r \in Page \X (0 .. Capacity) : Contract!Insert(h, d, r)
  BY <1>1, <1>2, <1>3, <1>4, EmptyPageType, RowAdded
<1> QED
  BY <1>1, <1>4, <1>5 DEF StoreInv

\* What Insert() does to the chains when it links a new page from the last one.
LEMMA AppendStore ==
  ASSUME StoreInv, Inv', NEW h \in Heap, Sound(h), NEW last \in Page, last \in Chain(first[h]),
         content[last].next = InvalidPage,
         NEW p \in Page, p = nextPageId, content'[p] \in HeapPage,
         content'[last] \in HeapPage, content'[last].next = p,
         content'[last].page = content[last].page,
         \A q \in Page \ {p, last} : content'[q] = content[q],
         first' = first
  PROVE  /\ ~ Exists(p) /\ Exists(p)'
         /\ p \in Chain(first[h])'
         /\ Grows /\ Elsewhere(p) /\ Opened' = Opened \cup {h} /\ Owned'
<1>1. /\ ~ Exists(p) /\ p # InvalidPage
      /\ content \in [Page -> HeapPage \cup {Unwritten, Zero}]
      /\ first \in [Heap -> Page \cup {InvalidPage}]
      /\ Exists(last) /\ last # p
  BY HeapAssumption, PageFacts, ChainPage DEF StoreInv, Inv, TypeOK, AllocatedOnce, Page
<1>4. \A q \in Page : Exists(q)' <=> Exists(q) \/ q = p
  BY <1>1, UnwrittenAssumption DEF Exists
<1>5. Grows
  BY <1>1, <1>4, PageFacts DEF Grows, Leads
<1>6. Elsewhere(p)
  BY <1>1, <1>4 DEF Elsewhere, Slots, RecordAt
<1>7. p \in Chain(first[h])'
  <2>1. first[h] \in Page
    BY <1>1 DEF Sound
  <2>2. last \in Chain(first[h])'
    BY <1>1, <1>5, ChainsGrow DEF StoreInv
  <2>3. Leads(last, p)'
    BY <1>1, <1>4 DEF Leads
  <2>4. Linked'
    <3>1. (Inv => Linked)'
      BY InvLinked, PTL
    <3> QED BY <3>1
  <2>5. Page' = Page /\ first'[h] = first[h]
    BY DEF Page
  <2> QED BY <1>1, <2>1, <2>2, <2>3, <2>4, <2>5, ChainFollowsNext
<1>8. Opened' = Opened \cup {h}
  BY DEF Opened, Sound
<1>9. Owned'
  BY <1>4, <1>5, <1>7, OwnedNext
<1> QED
  BY <1>1, <1>4, <1>5, <1>6, <1>7, <1>8, <1>9

\* Insert() that appends a page adds one record, or refuses it.
LEMMA InsertAppendsStore ==
  ASSUME StoreInv, NEW h \in Heap, NEW d \in Data, NEW last \in Page, InsertAppends(h, d, last)
  PROVE  /\ StoreInv'
         /\ \/ Contract!InsertRefused(h, d)
            \/ \E r \in Page \X (0 .. Capacity) : Contract!Insert(h, d, r)
<1>1. Inv'
  BY InsertAppendsInv DEF StoreInv
<1>0. nextPageId \in Page
  BY HeapAssumption DEF StoreInv, Inv, TypeOK, Page, InsertAppends
<1> PICK p \in Page : p = nextPageId
  BY <1>0
<1> PICK new : new = IF Fits(EmptyPage, d) THEN [FreshPage EXCEPT !.page = Put(@, d)]
                                            ELSE FreshPage
  OBVIOUS
<1>2. /\ new \in HeapPage /\ new.next = InvalidPage
      /\ new.page = IF Fits(EmptyPage, d) THEN Put(EmptyPage, d) ELSE EmptyPage
  BY FreshPageType, EmptyPageType, PutType DEF FreshPage, HeapPage
<1>3. /\ Sound(h) /\ last \in Chain(first[h]) /\ content[last].next = InvalidPage
      /\ first' = first
      /\ content' = [content EXCEPT ![last].next = p, ![p] = new]
      /\ ret' = <<IF Fits(EmptyPage, d) THEN "accepted" ELSE "refused", d>>
  BY DEF InsertAppends
<1>7. /\ content'[p] = new
      /\ content'[last] \in HeapPage /\ content'[last].next = p
      /\ content'[last].page = content[last].page
      /\ \A q \in Page \ {p, last} : content'[q] = content[q]
  <2>1. content \in [Page -> HeapPage \cup {Unwritten, Zero}] /\ ~ Exists(p) /\ Exists(last)
    BY <1>3, ChainPage DEF StoreInv, Inv, TypeOK, AllocatedOnce
  <2>2. last # p /\ content[last] \in HeapPage
    BY <2>1 DEF Exists
  <2> QED BY <1>3, <2>1, <2>2 DEF HeapPage
<1>4. /\ ~ Exists(p) /\ Exists(p)' /\ p \in Chain(first[h])'
      /\ Grows /\ Elsewhere(p) /\ Opened' = Opened \cup {h} /\ Owned'
  BY <1>1, <1>2, <1>3, <1>7, AppendStore
<1>5. CASE Fits(EmptyPage, d)
  <2>1. ret' = <<"accepted", d>> /\ content'[p].page = Put(EmptyPage, d)
    BY <1>2, <1>3, <1>5, <1>7
  <2>2. \E r \in Page \X (0 .. Capacity) : Contract!Insert(h, d, r)
    BY <1>1, <1>4, <1>5, <2>1, EmptyPageType, RowAdded
  <2> QED BY <1>1, <1>4, <2>2 DEF StoreInv
<1>6. CASE ~ Fits(EmptyPage, d)
  <2>1. Slots(p) = {} /\ Slots(p)' = {}
    BY <1>2, <1>4, <1>6, <1>7 DEF Slots, EmptyPage
  <2>2. Rows' = Rows
    BY <1>1, <1>4, <2>1, RowsUnchanged DEF Elsewhere
  <2>3. ~ Contract!Fits(Contract!EmptyPage, d)
    BY <1>6 DEF Fits, Contract!Fits, EmptyPage, Contract!EmptyPage, Tombstone, Contract!Tombstone
  <2> QED BY <1>1, <1>3, <1>4, <1>6, <2>2, <2>3 DEF StoreInv, Contract!InsertRefused
<1> QED
  BY <1>5, <1>6

\* What a call that changes the records of one page does to the chains: nothing.
LEMMA SamePageStore ==
  ASSUME StoreInv, Inv', NEW p \in Page, Exists(p), NEW pg \in RecordsPage,
         content' = [content EXCEPT ![p].page = pg], first' = first
  PROVE  /\ Exists(p)' /\ content'[p].page = pg
         /\ Grows /\ Elsewhere(p) /\ Opened' = Opened /\ Owned'
<1>1. content \in [Page -> HeapPage \cup {Unwritten, Zero}] /\ content[p] \in HeapPage
  BY DEF StoreInv, Inv, TypeOK, Exists
<1>2. /\ content'[p].page = pg /\ content'[p].next = content[p].next
      /\ content'[p] \in HeapPage
      /\ \A q \in Page \ {p} : content'[q] = content[q]
  BY <1>1 DEF HeapPage
<1>3. \A q \in Page : Exists(q)' <=> Exists(q)
  BY <1>1, <1>2, UnwrittenAssumption DEF Exists
<1>4. Grows
  BY <1>1, <1>2, <1>3 DEF Grows, Leads
<1>5. Elsewhere(p)
  BY <1>2, <1>3 DEF Elsewhere, Slots, RecordAt
<1>6. Owned'
  BY <1>3, <1>4, OwnedNext
<1> QED
  BY <1>2, <1>3, <1>4, <1>5, <1>6 DEF Opened

\* Insert() into a page with room adds one record.
LEMMA InsertIntoStore ==
  ASSUME StoreInv, NEW h \in Heap, NEW d \in Data, NEW p \in Page, InsertInto(h, d, p)
  PROVE  StoreInv' /\ \E r \in Page \X (0 .. Capacity) : Contract!Insert(h, d, r)
<1>1. Inv'
  BY InsertIntoInv DEF StoreInv
<1>2. /\ Sound(h) /\ Fits(content[p].page, d) /\ p \in Chain(first[h])
      /\ content' = [content EXCEPT ![p].page = Put(content[p].page, d)]
      /\ first' = first /\ ret' = <<"accepted", d>>
  BY DEF InsertInto, StopsAt, Chain
<1>3. Exists(p) /\ content[p].page \in RecordsPage
  BY <1>2, ChainPage DEF StoreInv
<1>4. Put(content[p].page, d) \in RecordsPage
  BY <1>2, <1>3, PutType
<1>5. /\ Exists(p)' /\ content'[p].page = Put(content[p].page, d)
      /\ Grows /\ Elsewhere(p) /\ Opened' = Opened /\ Owned'
  <2> PICK pg : pg = Put(content[p].page, d)
    OBVIOUS
  <2> QED BY <1>1, <1>2, <1>3, <1>4, SamePageStore
<1>6. p \in Chain(first[h])'
  BY <1>1, <1>2, <1>5, ChainsGrow DEF StoreInv
<1>7. Opened' = Opened \cup {h}
  BY <1>2, <1>5 DEF Opened, Sound
<1>8. \E r \in Page \X (0 .. Capacity) : Contract!Insert(h, d, r)
  <2> PICK pg : pg = content[p].page
    OBVIOUS
  <2> QED BY <1>1, <1>2, <1>3, <1>5, <1>6, <1>7, RowAdded
<1> QED
  BY <1>1, <1>5, <1>8 DEF StoreInv

\* Delete() leaves a tombstone under the RID it names.
LEMMA DeleteStore ==
  ASSUME StoreInv, NEW h \in Heap, NEW p \in Page, NEW s \in Slots(p), Delete(h, p, s)
  PROVE  StoreInv' /\ Contract!Delete(<<p, s>>)
<1>1. Inv'
  BY DeleteInv DEF StoreInv
<1>2. Exists(p) /\ content[p].page \in RecordsPage /\ s \in 0 .. content[p].page.n - 1
  BY ChainPage DEF StoreInv, Delete, Slots
<1> PICK pg : pg = Remove(content[p].page, s)
  OBVIOUS
<1>3. /\ content' = [content EXCEPT ![p].page = pg]
      /\ first' = first /\ ret' = <<"accepted", Tombstone>>
  BY DEF Delete
<1>4. pg \in RecordsPage
  BY <1>2, RemoveType
<1>5. /\ Exists(p)' /\ content'[p].page = pg
      /\ Grows /\ Elsewhere(p) /\ Opened' = Opened /\ Owned'
  BY <1>1, <1>2, <1>3, <1>4, SamePageStore
<1>6. /\ content'[p].page.recs = [content[p].page.recs EXCEPT ![s] = Tombstone]
      /\ Slots(p)' = Slots(p)
  BY <1>2, <1>5 DEF Remove, Slots
<1>7. Contract!Writes(<<p, s>>, [Rows[<<p, s>>] EXCEPT !.rec = Tombstone])
  BY <1>1, <1>2, <1>5, <1>6, RowChanged
<1> QED
  BY <1>1, <1>3, <1>5, <1>7 DEF StoreInv, Contract!Delete, Tombstone, Contract!Tombstone

\* Update() changes the record it names, or refuses the new one.
LEMMA UpdateStore ==
  ASSUME StoreInv, NEW h \in Heap, NEW p \in Page, NEW s \in Slots(p), NEW d \in Data,
         Update(h, p, s, d)
  PROVE  StoreInv' /\ (Contract!Update(<<p, s>>, d) \/ Contract!UpdateRefused(<<p, s>>, d))
<1>1. Inv'
  BY UpdateInv DEF StoreInv
<1>2. Exists(p) /\ content[p].page \in RecordsPage /\ s \in 0 .. content[p].page.n - 1
  BY ChainPage DEF StoreInv, Update, Slots
<1>3. CASE Accepts(content[p].page, s, d)
  <2> PICK pg : pg = Change(content[p].page, s, d)
    OBVIOUS
  <2>1. /\ content' = [content EXCEPT ![p].page = pg]
        /\ first' = first /\ ret' = <<"accepted", d>>
    <3>1. /\ content' = [content EXCEPT ![p].page = Change(content[p].page, s, d)]
          /\ first' = first /\ ret' = <<"accepted", d>>
      BY <1>3 DEF Update
    <3> QED BY <3>1
  <2>2. pg \in RecordsPage
    BY <1>2, <1>3, ChangeType
  <2>3. /\ Exists(p)' /\ content'[p].page = pg
        /\ Grows /\ Elsewhere(p) /\ Opened' = Opened /\ Owned'
    BY <1>1, <1>2, <2>1, <2>2, SamePageStore
  <2>4. /\ content'[p].page.recs = [content[p].page.recs EXCEPT ![s] = Stored(d)]
        /\ Slots(p)' = Slots(p)
    BY <1>2, <2>3 DEF Change, Slots
  <2>5. Contract!Writes(<<p, s>>, [Rows[<<p, s>>] EXCEPT !.rec = Stored(d)])
    BY <1>1, <1>2, <2>3, <2>4, RowChanged
  <2>6. Contract!Stored(d) = Stored(d)
    BY DEF Stored, Contract!Stored, Tombstone, Contract!Tombstone
  <2> QED
    BY <1>1, <2>1, <2>3, <2>5, <2>6 DEF StoreInv, Contract!Update
<1>4. CASE ~ Accepts(content[p].page, s, d)
  <2>1. content' = content /\ first' = first /\ ret' = <<"refused", d>>
    BY <1>4 DEF Update
  <2>2. Grows /\ Opened' = Opened /\ Page' = Page
    BY <2>1 DEF Grows, Leads, Exists, Opened, Page
  <2>3. Owned'
    BY <1>1, <2>1, <2>2, OwnedNext DEF Exists
  <2>4. Rows' = Rows
    BY <1>1, <2>1, <2>2, RowsUnchanged DEF Slots, Exists, RecordAt
  <2>5. d.len > content[p].page.recs[s].len
    <3>1. content[p].page.recs[s] \in Data \cup {Tombstone}
      BY <1>2, RecordsPageFields
    <3>2. content[p].page.recs[s].len \in Nat /\ d.len \in Nat
      BY <3>1, RecordLength
    <3> QED BY <1>4, <3>2 DEF Accepts, InPlace
  <2>6. Rows[<<p, s>>].rec = content[p].page.recs[s]
    <3>1. <<p, s>> \in UsedRIDs
      BY RIDs
    <3> QED BY <3>1 DEF Rows, RecordAt
  <2> QED
    BY <1>1, <2>1, <2>2, <2>3, <2>4, <2>5, <2>6 DEF StoreInv, Contract!UpdateRefused
<1> QED
  BY <1>3, <1>4

\* Insert() of an oversized record into a heap without pages opens it.
LEMMA RefusedCreatesStore ==
  ASSUME StoreInv, NEW h \in Heap, NEW d \in Data, RefusedCreates(h, d)
  PROVE  StoreInv' /\ Contract!InsertRefused(h, d)
<1>1. Inv'
  BY RefusedCreatesInv DEF StoreInv
<1>2. /\ nextPageId \in Page /\ nextPageId + 1 \in Page
      /\ content \in [Page -> HeapPage \cup {Unwritten, Zero}]
      /\ first \in [Heap -> Page \cup {InvalidPage}]
      /\ ~ Exists(nextPageId) /\ ~ Exists(nextPageId + 1)
  BY HeapAssumption DEF StoreInv, Inv, TypeOK, AllocatedOnce, Page, RefusedCreates
<1> PICK p \in Page : p = nextPageId
  BY <1>2
<1>3. p + 1 \in Page /\ p + 1 # p /\ p # InvalidPage
  BY <1>2, PageFacts
<1> PICK q \in Page : q = p + 1
  BY <1>3
<1>4. /\ ~ Exists(p) /\ ~ Exists(q) /\ p # q
      /\ first[h] = InvalidPage /\ first' = [first EXCEPT ![h] = p]
      /\ ret' = <<"refused", d>> /\ ~ Fits(EmptyPage, d)
  BY <1>2, <1>3 DEF RefusedCreates
<1>5. /\ content'[p] = [FreshPage EXCEPT !.next = q] /\ content'[q] = FreshPage
      /\ \A r \in Page \ {p, q} : content'[r] = content[r]
  BY <1>2, <1>3 DEF RefusedCreates
<1>6. /\ content'[p] \in HeapPage /\ content'[q] \in HeapPage
      /\ content'[p].next = q /\ content'[p].page = EmptyPage /\ content'[q].page = EmptyPage
  BY <1>5, FreshPageType, EmptyPageType DEF FreshPage, HeapPage
<1>7. \A r \in Page : Exists(r)' <=> Exists(r) \/ r = p \/ r = q
  BY <1>5, <1>6, UnwrittenAssumption DEF Exists
<1>8. first'[h] = p /\ \A g \in Heap \ {h} : first'[g] = first[g]
  BY <1>2, <1>4
<1>9. Grows
  BY <1>4, <1>5, <1>7, <1>8 DEF Grows, Leads
<1>10. p \in Chain(first[h])' /\ q \in Chain(first[h])'
  <2>1. Page' = Page
    BY DEF Page
  <2>2. p \in Chain(p)'
    BY <2>1, ChainStartsNext
  <2>3. Leads(p, q)'
    BY <1>6, <1>7 DEF Leads
  <2>4. Linked'
    <3>1. (Inv => Linked)'
      BY InvLinked, PTL
    <3> QED BY <1>1, <3>1
  <2>5. q \in Chain(p)'
    BY <2>1, <2>2, <2>3, <2>4, ChainFollowsNext
  <2> QED BY <1>8, <2>2, <2>5
<1>11. Owned'
  BY <1>1, <1>7, <1>9, <1>10, OwnedNext
<1>12. Rows' = Rows
  <2>1. \A r \in {p, q} : Slots(r) = {} /\ Slots(r)' = {}
    BY <1>4, <1>6 DEF Slots, EmptyPage
  <2>2. \A r \in Page \ {p, q} : /\ Slots(r)' = Slots(r)
                                 /\ \A s \in Slots(r) : RecordAt(<<r, s>>)' = RecordAt(<<r, s>>)
    BY <1>5 DEF Slots, Exists, RecordAt
  <2> QED BY <1>1, <1>9, <2>1, <2>2, RowsUnchanged
<1>13. Opened' = Opened \cup {h}
  BY <1>3, <1>8 DEF Opened
<1>14. ~ Contract!Fits(Contract!EmptyPage, d)
  BY <1>4 DEF Fits, Contract!Fits, EmptyPage, Contract!EmptyPage, Tombstone, Contract!Tombstone
<1> QED
  BY <1>1, <1>4, <1>11, <1>12, <1>13, <1>14 DEF StoreInv, Contract!InsertRefused

\* The heaps start as the store does.
LEMMA InitStore == Init => StoreInv /\ Contract!Init
<1> SUFFICES ASSUME Init
             PROVE  StoreInv /\ Contract!Init
  OBVIOUS
<1>1. Inv
  BY InitInv
<1>2. \A p \in Page : ~ Exists(p)
  BY DEF Init, Exists
<1>3. UsedRIDs = {}
  BY <1>2 DEF UsedRIDs, Slots
<1>4. Rows = [r \in {} |-> Contract!Tombstone]
  BY <1>3 DEF Rows
<1>5. Opened = {}
  BY DEF Init, Opened
<1> QED
  BY <1>1, <1>2, <1>4, <1>5 DEF StoreInv, Owned, Init, Contract!Init, Tombstone, Contract!Tombstone

\* Every call is a step of the store.
LEMMA StepStore == StoreInv /\ [Next]_vars => StoreInv' /\ [Contract!Next]_Contract!vars
<1> SUFFICES ASSUME StoreInv, [Next]_vars
             PROVE  StoreInv' /\ [Contract!Next]_Contract!vars
  OBVIOUS
<1>1. ASSUME NEW h \in Heap, Adds(h)
      PROVE  StoreInv' /\ Contract!Next
  <2>1. CASE Create(h)
    BY <2>1, CreateStore DEF Contract!Next
  <2>2. ASSUME NEW d \in Data, InsertCreates(h, d)
        PROVE  StoreInv' /\ Contract!Next
    BY <2>2, InsertCreatesStore DEF Contract!Next
  <2>3. ASSUME NEW d \in Data, RefusedCreates(h, d)
        PROVE  StoreInv' /\ Contract!Next
    BY <2>3, RefusedCreatesStore DEF Contract!Next
  <2>4. ASSUME NEW d \in Data, NEW p \in Page, InsertInto(h, d, p)
        PROVE  StoreInv' /\ Contract!Next
    BY <2>4, InsertIntoStore DEF Contract!Next
  <2>5. ASSUME NEW d \in Data, NEW p \in Page, InsertAppends(h, d, p)
        PROVE  StoreInv' /\ Contract!Next
    BY <2>5, InsertAppendsStore DEF Contract!Next
  <2> QED
    BY <1>1, <2>1, <2>2, <2>3, <2>4, <2>5 DEF Adds
<1>2. ASSUME NEW h \in Heap, NEW p \in Page, NEW s \in Slots(p), Changes(h, p, s)
      PROVE  StoreInv' /\ Contract!Next
  <2>1. <<p, s>> \in DOMAIN Rows
    BY RIDs DEF Rows
  <2>2. CASE Delete(h, p, s)
    BY <2>1, <2>2, DeleteStore DEF Contract!Next
  <2>3. ASSUME NEW d \in Data, Update(h, p, s, d)
        PROVE  StoreInv' /\ Contract!Next
    BY <2>1, <2>3, UpdateStore DEF Contract!Next
  <2> QED
    BY <1>2, <2>2, <2>3 DEF Changes
<1>3. CASE UNCHANGED vars
  <2>1. Inv'
    BY NextInv DEF StoreInv
  <2>2. content' = content /\ first' = first /\ ret' = ret
    BY <1>3 DEF vars
  <2>3. Grows /\ Opened' = Opened
    BY <2>2 DEF Grows, Leads, Exists, Opened
  <2>4. Owned'
    BY <2>1, <2>2, <2>3, OwnedNext DEF Exists
  <2>5. Rows' = Rows
    BY <2>1, <2>2, <2>3, RowsUnchanged DEF Slots, Exists, RecordAt
  <2> QED
    BY <2>1, <2>2, <2>3, <2>4, <2>5 DEF StoreInv, Contract!vars
<1> QED
  BY <1>1, <1>2, <1>3 DEF Next

\* By RID, chained pages are a table per heap: a call touches the record it names
\* and no other of any heap, no RID is given out twice, and a call is refused only
\* for want of room.
THEOREM HeapsImplementStore == Spec => ImplementsRecordStore
<1>1. Init => StoreInv /\ Contract!Init
  BY InitStore
<1>2. StoreInv /\ [Next]_vars => StoreInv' /\ [Contract!Next]_Contract!vars
  BY StepStore
<1> QED
  BY <1>1, <1>2, PTL DEF Spec, ImplementsRecordStore, Contract!Spec
=============================================================================
