-------------------------- MODULE Executor_proofs --------------------------
(***************************************************************************)
(* What a plan delivers is its query over the rows of the heap.            *)
(*                                                                         *)
(* The invariant relates three counts of the same rows: the places of the  *)
(* heap that the iterator has passed, those of their rows that each        *)
(* LimitOp has let through, and those that reached the root, which are the *)
(* result.  It rests on lemmas about the heap (its pages are one ascending *)
(* chain, so that a scan passes its places in order), about columns (the   *)
(* positions that the planner computes are those of the names) and about   *)
(* limits (as long as one has rows left, the next row of its child is one  *)
(* of its own).                                                            *)
(***************************************************************************)
EXTENDS Executor, BufferManager_proofs, FiniteSetTheorems

----------------------------------------------------------------------------
(* Counting                                                                *)

\* An injection between finite sets of one size reaches every element.
LEMMA InjectionsReach ==
  ASSUME NEW S, NEW T, IsFiniteSet(T), Cardinality(S) = Cardinality(T),
         NEW f \in [S -> T], \A x, y \in S : f[x] = f[y] => x = y
  PROVE  \A t \in T : \E x \in S : f[x] = t
<1>1. f \in Injection(S, T)
  BY DEF Injection, IsInjective
<1>2. f \in Surjection(S, T)
  BY <1>1, FS_Injection
<1> QED
  BY <1>2 DEF Surjection

\* In a finite set that R orders, each element has a rank of its own: the number of
\* elements before it.
LEMMA Ranks ==
  ASSUME NEW S, IsFiniteSet(S), NEW R,
         \A x, y, z \in S : <<x, y>> \in R /\ <<y, z>> \in R => <<x, z>> \in R,
         \A x \in S : <<x, x>> \notin R,
         \A x, y \in S : x = y \/ <<x, y>> \in R \/ <<y, x>> \in R
  PROVE  /\ Cardinality(S) \in Nat
         /\ \E rank \in [S -> 0 .. Cardinality(S) - 1] :
              /\ \A x \in S : \A T \in SUBSET S :
                   (\A y \in S : y \in T <=> <<y, x>> \in R) => rank[x] = Cardinality(T)
              /\ \A x, z \in S : rank[x] = rank[z] => x = z
              /\ \A k \in 0 .. Cardinality(S) - 1 : \E x \in S : rank[x] = k
<1> DEFINE below(x) == {y \in S : <<y, x>> \in R}
           rank == [x \in S |-> Cardinality(below(x))]
           n == Cardinality(S)
<1>1. n \in Nat
  BY FS_CardinalityType
<1>2. \A T \in SUBSET S : IsFiniteSet(T) /\ Cardinality(T) \in Nat /\ Cardinality(T) <= n
  BY FS_Subset, FS_CardinalityType
<1>3. ASSUME NEW T \in SUBSET S, NEW U \in SUBSET T, U # T
      PROVE  Cardinality(U) < Cardinality(T)
  <2>1. IsFiniteSet(T) /\ Cardinality(T) \in Nat /\ Cardinality(U) \in Nat
    BY <1>2
  <2>2. Cardinality(U) <= Cardinality(T) /\ Cardinality(T) # Cardinality(U)
    BY <1>3, <2>1, FS_Subset
  <2> QED BY <2>1, <2>2
<1>4. ASSUME NEW x \in S, NEW z \in S, <<x, z>> \in R
      PROVE  rank[x] < rank[z]
  <2>1. below(z) \in SUBSET S /\ below(x) \in SUBSET below(z) /\ below(x) # below(z)
    BY <1>4
  <2> HIDE DEF below
  <2> QED BY <1>3, <2>1
<1>5. ASSUME NEW x \in S
      PROVE  rank[x] \in 0 .. n - 1
  <2>1. below(x) \in SUBSET S /\ below(x) # S
    OBVIOUS
  <2> HIDE DEF below
  <2>2. S \in SUBSET S
    OBVIOUS
  <2>3. Cardinality(below(x)) < n /\ Cardinality(below(x)) \in Nat
    BY <1>2, <1>3, <2>1, <2>2
  <2> QED BY <1>1, <2>3
<1> HIDE DEF below
<1>6. \A x, z \in S : rank[x] = rank[z] => x = z
  <2> SUFFICES ASSUME NEW x \in S, NEW z \in S, rank[x] = rank[z], x # z PROVE FALSE
    OBVIOUS
  <2>1. rank[x] < rank[z] \/ rank[z] < rank[x]
    BY <1>4
  <2>2. rank[x] \in Int /\ rank[z] \in Int
    BY <1>1, <1>5
  <2> HIDE DEF rank
  <2> QED BY <2>1, <2>2
<1>7. \A x \in S : \A T \in SUBSET S :
        (\A y \in S : y \in T <=> <<y, x>> \in R) => rank[x] = Cardinality(T)
  <2> SUFFICES ASSUME NEW x \in S, NEW T \in SUBSET S, \A y \in S : y \in T <=> <<y, x>> \in R
               PROVE  rank[x] = Cardinality(T)
    OBVIOUS
  <2>1. below(x) = T
    BY DEF below
  <2> HIDE DEF below
  <2> QED BY <2>1
<1>8. rank \in [S -> 0 .. n - 1]
  BY <1>5
<1> HIDE DEF rank, n
<1>9. \A k \in 0 .. n - 1 : \E x \in S : rank[x] = k
  <2>1. IsFiniteSet(0 .. n - 1) /\ Cardinality(0 .. n - 1) = n
    BY <1>1, FS_Interval
  <2>2. Cardinality(S) = n
    BY DEF n
  <2>3. PICK T : T = 0 .. n - 1
    OBVIOUS
  <2>4. rank \in [S -> T] /\ IsFiniteSet(T) /\ Cardinality(S) = Cardinality(T)
    BY <1>8, <2>1, <2>2, <2>3
  <2>5. PICK f : f = rank
    OBVIOUS
  <2>6. f \in [S -> T] /\ \A x, y \in S : f[x] = f[y] => x = y
    BY <1>6, <2>4, <2>5
  <2>7. \A t \in T : \E x \in S : f[x] = t
    BY <2>4, <2>6, InjectionsReach
  <2> QED BY <2>3, <2>5, <2>7
<1>10. PICK r : r = rank
  OBVIOUS
<1>11. /\ r \in [S -> 0 .. n - 1]
       /\ \A x \in S : \A T \in SUBSET S :
            (\A y \in S : y \in T <=> <<y, x>> \in R) => r[x] = Cardinality(T)
       /\ \A x, z \in S : r[x] = r[z] => x = z
       /\ \A k \in 0 .. n - 1 : \E x \in S : r[x] = k
  BY <1>6, <1>7, <1>8, <1>9, <1>10
<1> QED
  BY <1>1, <1>11 DEF n

\* The k-th smallest number of a finite set, for each k, is the one with k - 1 below it.
LEMMA KthFacts ==
  ASSUME NEW S \in SUBSET Nat, IsFiniteSet(S)
  PROVE  /\ Cardinality(S) \in Nat
         /\ \A k \in 1 .. Cardinality(S) :
              Kth(S, k) \in S /\ Cardinality(Below(S, Kth(S, k))) = k - 1
         /\ \A x \in S : \E k \in 1 .. Cardinality(S) :
              k = Cardinality(Below(S, x)) + 1 /\ Kth(S, k) = x
<1> PICK R : R = {p \in S \X S : p[1] < p[2]}
  OBVIOUS
<1>1. \A x, y \in S : <<x, y>> \in R <=> x < y
  OBVIOUS
<1>3. /\ \A x, y, z \in S : <<x, y>> \in R /\ <<y, z>> \in R => <<x, z>> \in R
      /\ \A x \in S : <<x, x>> \notin R
      /\ \A x, y \in S : x = y \/ <<x, y>> \in R \/ <<y, x>> \in R
  BY <1>1
<1>4. PICK n : n = Cardinality(S)
  OBVIOUS
<1>5. n \in Nat
  BY <1>4, FS_CardinalityType
<1>6. PICK rank \in [S -> 0 .. n - 1] :
        /\ \A x \in S : \A T \in SUBSET S :
             (\A y \in S : y \in T <=> <<y, x>> \in R) => rank[x] = Cardinality(T)
        /\ \A x, z \in S : rank[x] = rank[z] => x = z
        /\ \A k \in 0 .. n - 1 : \E x \in S : rank[x] = k
  <2>1. PICK U : U = S
    OBVIOUS
  <2>2. /\ IsFiniteSet(U)
        /\ \A x, y, z \in U : <<x, y>> \in R /\ <<y, z>> \in R => <<x, z>> \in R
        /\ \A x \in U : <<x, x>> \notin R
        /\ \A x, y \in U : x = y \/ <<x, y>> \in R \/ <<y, x>> \in R
    BY <1>3, <2>1
  <2>3. \E rank \in [U -> 0 .. Cardinality(U) - 1] :
          /\ \A x \in U : \A T \in SUBSET U :
               (\A y \in U : y \in T <=> <<y, x>> \in R) => rank[x] = Cardinality(T)
          /\ \A x, z \in U : rank[x] = rank[z] => x = z
          /\ \A k \in 0 .. Cardinality(U) - 1 : \E x \in U : rank[x] = k
    BY <2>2, Ranks
  <2> QED BY <1>4, <2>1, <2>3
<1>10. ASSUME NEW x \in S
       PROVE  rank[x] = Cardinality(Below(S, x))
  <2>1. PICK T \in SUBSET S : T = Below(S, x)
    BY DEF Below
  <2>2. \A y \in S : y \in T <=> <<y, x>> \in R
    BY <1>1, <2>1 DEF Below
  <2> QED BY <1>6, <2>1, <2>2
<1>7. \A k : Kth(S, k) = CHOOSE x \in S : Cardinality(Below(S, x)) = k - 1
  BY DEF Kth, Below
<1>8. ASSUME NEW k \in 1 .. n
      PROVE  Kth(S, k) \in S /\ Cardinality(Below(S, Kth(S, k))) = k - 1
  <2>1. k - 1 \in 0 .. n - 1
    BY <1>5
  <2>2. \E x \in S : Cardinality(Below(S, x)) = k - 1
    BY <1>6, <1>10, <2>1
  <2> QED BY <1>7, <2>2
<1>9. ASSUME NEW x \in S
      PROVE  \E k \in 1 .. n : k = Cardinality(Below(S, x)) + 1 /\ Kth(S, k) = x
  <2>1. PICK k \in 1 .. n : k = Cardinality(Below(S, x)) + 1
    BY <1>5, <1>6, <1>10
  <2>2. Kth(S, k) \in S /\ Cardinality(Below(S, Kth(S, k))) = Cardinality(Below(S, x))
    BY <1>6, <1>8, <1>10, <2>1
  <2>3. PICK z \in S : z = Kth(S, k)
    BY <2>2
  <2>4. rank[z] = rank[x]
    BY <1>10, <2>2, <2>3
  <2> QED BY <1>6, <2>1, <2>3, <2>4
<1> QED
  BY <1>4, <1>5, <1>8, <1>9

\* The places of the heap are finitely many, and PlaceAt() numbers them in order.
LEMMA PlaceFacts ==
  /\ IsFiniteSet(Places) /\ Cardinality(Places) \in Nat
  /\ \A x \in Places : x[1] \in Page /\ x[2] \in Nat /\ x = <<x[1], x[2]>>
                         /\ x[1] \in PagesOfHeap /\ x[2] \in OnDisk[x[1]].live
  /\ \A p \in PagesOfHeap : \A s \in OnDisk[p].live : <<p, s>> \in Places
  /\ \A k \in 1 .. Cardinality(Places) : PlaceAt(k) \in Places
  /\ \A x \in Places :
       LET k == Cardinality({y \in Places : Earlier(y, x)}) + 1
       IN  k \in 1 .. Cardinality(Places) /\ PlaceAt(k) = x
<1>1. \A p \in PagesOfHeap : p \in Page /\ OnDisk[p].live \subseteq Nat /\ IsFiniteSet(OnDisk[p].live)
  <2> SUFFICES ASSUME NEW p \in PagesOfHeap
               PROVE  p \in Page /\ OnDisk[p].live \subseteq Nat /\ IsFiniteSet(OnDisk[p].live)
    OBVIOUS
  <2>1. p \in Page
    BY DEF PagesOfHeap
  <2>2. PICK m \in Nat : m = OnDisk[p].n
    BY <2>1, OnDiskAssumption
  <2>3. PICK T : T = 0 .. m - 1
    OBVIOUS
  <2>4. OnDisk[p].live \in SUBSET T
    BY <2>1, <2>2, <2>3, OnDiskAssumption
  <2>5. IsFiniteSet(T)
    BY <2>3, FS_Interval
  <2> QED BY <2>1, <2>3, <2>4, <2>5, FS_Subset
<1>2. /\ \A x \in Places : x[1] \in Page /\ x[2] \in Nat /\ x = <<x[1], x[2]>>
                             /\ x[1] \in PagesOfHeap /\ x[2] \in OnDisk[x[1]].live
      /\ \A p \in PagesOfHeap : \A s \in OnDisk[p].live : <<p, s>> \in Places
  BY <1>1 DEF Places
<1>3. IsFiniteSet(Places)
  <2>1. PICK f : f = [p \in PagesOfHeap |-> {p} \X OnDisk[p].live]
    OBVIOUS
  <2>2. PICK A : A = {f[p] : p \in PagesOfHeap}
    OBVIOUS
  <2>3. IsFiniteSet(A)
    <3>1. IsFiniteSet(PagesOfHeap)
      BY OnDiskAssumption, FS_Subset DEF PagesOfHeap
    <3>2. f \in Surjection(PagesOfHeap, A)
      BY <2>1, <2>2 DEF Surjection
    <3> QED BY <3>1, <3>2, FS_Surjection
  <2>4. \A T \in A : IsFiniteSet(T)
    <3> SUFFICES ASSUME NEW p \in PagesOfHeap PROVE IsFiniteSet(f[p])
      BY <2>2
    <3>1. IsFiniteSet({p}) /\ IsFiniteSet(OnDisk[p].live)
      BY <1>1, FS_Singleton
    <3>2. IsFiniteSet({p} \X OnDisk[p].live)
      BY <3>1, FS_Product
    <3> QED BY <2>1, <3>2
  <2>5. Places = UNION A
    BY <2>1, <2>2 DEF Places
  <2> QED BY <2>3, <2>4, <2>5, FS_UNION
<1> PICK S : S = Places
  OBVIOUS
<1> PICK R : R = {p \in S \X S : Earlier(p[1], p[2])}
  OBVIOUS
<1>4. \A x, y \in S : <<x, y>> \in R <=> Earlier(x, y)
  OBVIOUS
<1>6. \A x \in S : x[1] \in Nat /\ x[2] \in Nat /\ x = <<x[1], x[2]>>
  BY <1>2, PageAssumption
<1>7. /\ \A x, y, z \in S : <<x, y>> \in R /\ <<y, z>> \in R => <<x, z>> \in R
      /\ \A x \in S : <<x, x>> \notin R
      /\ \A x, y \in S : x = y \/ <<x, y>> \in R \/ <<y, x>> \in R
  <2>1. ASSUME NEW x \in S, NEW y \in S, NEW z \in S, Earlier(x, y), Earlier(y, z)
        PROVE  Earlier(x, z)
    BY <1>6, <2>1 DEF Earlier
  <2>2. ASSUME NEW x \in S
        PROVE  ~ Earlier(x, x)
    BY <1>6 DEF Earlier
  <2>3. ASSUME NEW x \in S, NEW y \in S
        PROVE  x = y \/ Earlier(x, y) \/ Earlier(y, x)
    BY <1>6 DEF Earlier
  <2> QED BY <1>4, <2>1, <2>2, <2>3
<1>8. PICK n : n = Cardinality(S)
  OBVIOUS
<1>9. n \in Nat
  BY <1>3, <1>8, FS_CardinalityType
<1>10. PICK rank \in [S -> 0 .. n - 1] :
         /\ \A x \in S : \A T \in SUBSET S :
              (\A y \in S : y \in T <=> <<y, x>> \in R) => rank[x] = Cardinality(T)
         /\ \A x, z \in S : rank[x] = rank[z] => x = z
         /\ \A k \in 0 .. n - 1 : \E x \in S : rank[x] = k
  BY <1>3, <1>7, <1>8, Ranks
<1>14. ASSUME NEW x \in S
       PROVE  rank[x] = Cardinality({y \in S : Earlier(y, x)})
  <2>1. PICK T \in SUBSET S : T = {y \in S : Earlier(y, x)}
    OBVIOUS
  <2>2. \A y \in S : y \in T <=> <<y, x>> \in R
    BY <1>4, <2>1
  <2> QED BY <1>10, <2>1, <2>2
<1> DEFINE before(x) == Cardinality({y \in S : Earlier(y, x)})
<1>11. \A k : PlaceAt(k) = CHOOSE x \in S : before(x) = k - 1
  BY DEF PlaceAt
<1>15. \A x \in S : rank[x] = before(x)
  BY <1>14
<1>17. \A x : before(x) = Cardinality({y \in Places : Earlier(y, x)})
  OBVIOUS
<1> HIDE DEF before
<1>12. ASSUME NEW k \in 1 .. n
       PROVE  PlaceAt(k) \in S /\ before(PlaceAt(k)) = k - 1
  <2>1. k - 1 \in 0 .. n - 1
    BY <1>9
  <2>2. \E x \in S : before(x) = k - 1
    BY <1>10, <1>15, <2>1
  <2> QED BY <1>11, <2>2
<1>13. ASSUME NEW x \in S
       PROVE  before(x) + 1 \in 1 .. n /\ PlaceAt(before(x) + 1) = x
  <2>1. PICK k \in 1 .. n : k = before(x) + 1
    BY <1>9, <1>10, <1>15
  <2>2. PlaceAt(k) \in S /\ before(PlaceAt(k)) = before(x)
    BY <1>9, <1>10, <1>12, <1>15, <2>1
  <2> QED BY <1>10, <1>15, <2>1, <2>2
<1>16. \A x \in Places : LET k == Cardinality({y \in Places : Earlier(y, x)}) + 1
                          IN  k \in 1 .. n /\ PlaceAt(k) = x
  BY <1>13, <1>17
<1> QED
  BY <1>2, <1>3, <1>8, <1>9, <1>12, <1>16

\* The numbers of S up to n.
Upto(S, n) == {x \in S : x <= n}

\* Counting a finite set of numbers up to n, and up to n + 1.
LEMMA Counting ==
  ASSUME NEW S \in SUBSET Nat, IsFiniteSet(S), NEW n \in Nat
  PROVE  /\ Cardinality(Upto(S, n)) \in 0 .. Cardinality(S)
         /\ n + 1 \notin S => Upto(S, n + 1) = Upto(S, n)
         /\ n + 1 \in S =>
              /\ Cardinality(Upto(S, n + 1)) = Cardinality(Upto(S, n)) + 1
              /\ Below(S, n + 1) = Upto(S, n)
              /\ Kth(S, Cardinality(Upto(S, n)) + 1) = n + 1
<1> PICK U \in SUBSET S : U = Upto(S, n)
  BY DEF Upto
<1>1. \A x \in S : x \in U <=> x <= n
  BY DEF Upto
<1>2. IsFiniteSet(U) /\ Cardinality(U) <= Cardinality(S) /\ Cardinality(U) \in Nat
      /\ Cardinality(S) \in Nat
  BY FS_Subset, FS_CardinalityType
<1>3. n + 1 \notin S => Upto(S, n + 1) = U
  <2>1. n + 1 \notin S => \A x \in S : x <= n + 1 <=> x <= n
    OBVIOUS
  <2> QED BY <2>1 DEF Upto
<1>4. ASSUME n + 1 \in S
      PROVE  /\ Cardinality(Upto(S, n + 1)) = Cardinality(U) + 1
             /\ Below(S, n + 1) = U
             /\ Kth(S, Cardinality(U) + 1) = n + 1
  <2>1. Upto(S, n + 1) = U \cup {n + 1} /\ n + 1 \notin U
    <3>1. \A x \in S : x <= n + 1 <=> x <= n \/ x = n + 1
      OBVIOUS
    <3>2. \A x : x \in Upto(S, n + 1) <=> x \in S /\ (x \in U \/ x = n + 1)
      BY <1>1, <3>1 DEF Upto
    <3>3. \A x : x \in Upto(S, n + 1) <=> x \in U \cup {n + 1}
      BY <1>4, <3>2
    <3> QED BY <1>1, <3>3
  <2>2. Cardinality(U \cup {n + 1}) = Cardinality(U) + 1
    <3>1. PICK x : x = n + 1
      OBVIOUS
    <3>2. Cardinality(U \cup {x}) = Cardinality(U) + 1
      BY <1>2, <2>1, <3>1, FS_AddElement
    <3> QED BY <3>1, <3>2
  <2>3. Below(S, n + 1) = U
    <3>1. \A x \in S : x < n + 1 <=> x <= n
      OBVIOUS
    <3> QED BY <1>1, <3>1 DEF Below
  <2>4. Kth(S, Cardinality(Below(S, n + 1)) + 1) = n + 1
    BY <1>4, KthFacts
  <2> QED BY <2>1, <2>2, <2>3, <2>4
<1> QED
  BY <1>2, <1>3, <1>4

\* Induction from N + 1 down to 1.
LEMMA Downward ==
  ASSUME NEW N \in Nat, NEW Good, N + 1 \in Good,
         \A i \in 1 .. N : i + 1 \in Good => i \in Good
  PROVE  \A i \in 1 .. N + 1 : i \in Good
<1> DEFINE Bad == {m \in 0 .. N : N + 1 - m \notin Good}
<1>1. Bad = {}
  <2> SUFFICES ASSUME Bad # {} PROVE FALSE
    OBVIOUS
  <2>1. PICK m \in Bad : \A k \in Bad : m <= k
    <3>1. Bad \in SUBSET Nat
      OBVIOUS
    <3> HIDE DEF Bad
    <3> QED BY <3>1, LeastOf
  <2>2. m \in 0 .. N /\ N + 1 - m \notin Good /\ m # 0
    OBVIOUS
  <2>3. m - 1 \in 0 .. N /\ ~ (m <= m - 1)
    BY <2>2
  <2>4. m - 1 \notin Bad
    <3> HIDE DEF Bad
    <3> QED BY <2>1, <2>3
  <2>5. N + 1 - (m - 1) \in Good
    BY <2>3, <2>4
  <2>6. N + 1 - m \in 1 .. N /\ (N + 1 - m) + 1 = N + 1 - (m - 1)
    BY <2>2
  <2>7. \A i : (i = N + 1 - m) => (i \in 1 .. N /\ i + 1 \in Good => i \in Good)
    OBVIOUS
  <2> QED BY <2>2, <2>5, <2>6, <2>7
<1> SUFFICES ASSUME NEW i \in 1 .. N + 1 PROVE i \in Good
  OBVIOUS
<1>2. N + 1 - i \in 0 .. N /\ N + 1 - (N + 1 - i) = i
  OBVIOUS
<1>3. \A m \in 0 .. N : N + 1 - m \in Good
  BY <1>1
<1> QED
  BY <1>2, <1>3

----------------------------------------------------------------------------
(* What a plan computes, node by node                                      *)

\* A column list for each node that derives each from the next.
IsSchema(q, f) ==
  f = [i \in 1 .. Len(q.nodes) + 1 |->
         IF i > Len(q.nodes) THEN Schema[q.table]
         ELSE IF q.nodes[i].type = "Project"
              THEN Project(f[i + 1], NamedIn(f[i + 1], q.nodes[i].columns))
         ELSE f[i + 1]]

\* BuildOutputSchema(): the recursion it is defined by has a solution, so each node
\* derives its columns from those of its child.
LEMMA SchemaSteps ==
  ASSUME NEW q, Len(q.nodes) \in Nat
  PROVE  /\ BuildOutputSchema(q)[Len(q.nodes) + 1] = Schema[q.table]
         /\ \A i \in 1 .. Len(q.nodes) :
              BuildOutputSchema(q)[i] =
                IF q.nodes[i].type = "Project"
                THEN Project(BuildOutputSchema(q)[i + 1], ColumnsToPositions(q, i))
                ELSE BuildOutputSchema(q)[i + 1]
<1> PICK N \in Nat : N = Len(q.nodes)
  OBVIOUS
<1> DEFINE Step(i, x) == IF q.nodes[i].type = "Project"
                         THEN Project(x, NamedIn(x, q.nodes[i].columns)) ELSE x
           Goes(f, i) == f = [j \in i .. N + 1 |->
                                IF j > N THEN Schema[q.table] ELSE Step(j, f[j + 1])]
           Good == {i \in 1 .. N + 1 : \E f : Goes(f, i)}
<1> HIDE DEF Step
<1>1. N + 1 \in Good
  <2>1. Goes([j \in N + 1 .. N + 1 |-> Schema[q.table]], N + 1)
    OBVIOUS
  <2>2. N + 1 \in 1 .. N + 1
    OBVIOUS
  <2> HIDE DEF Goes
  <2> QED BY <2>1, <2>2
<1>2. ASSUME NEW i \in 1 .. N, i + 1 \in Good
      PROVE  i \in Good
  <2>1. PICK f : Goes(f, i + 1)
    BY <1>2
  <2> DEFINE g == [j \in i .. N + 1 |-> IF j = i THEN Step(i, f[i + 1]) ELSE f[j]]
  <2>2. ASSUME NEW j \in i .. N + 1
        PROVE  g[j] = IF j > N THEN Schema[q.table] ELSE Step(j, g[j + 1])
    <3>1. CASE j = i
      <4>1. ~ (j > N) /\ i + 1 \in i .. N + 1 /\ i + 1 # i
        BY <3>1
      <4>2. g[i + 1] = f[i + 1]
        BY <4>1
      <4> QED BY <3>1, <4>1, <4>2
    <3>2. CASE j # i
      <4>1. j \in i + 1 .. N + 1 /\ (~ (j > N) => j + 1 \in i .. N + 1 /\ j + 1 # i)
        BY <3>2
      <4>2. f[j] = IF j > N THEN Schema[q.table] ELSE Step(j, f[j + 1])
        BY <2>1, <4>1
      <4> QED BY <3>2, <4>1, <4>2
    <3> QED BY <3>1, <3>2
  <2>3. Goes(g, i)
    BY <2>2
  <2>4. i \in 1 .. N + 1
    OBVIOUS
  <2> HIDE DEF Goes, g
  <2> QED BY <2>3, <2>4
<1>3. 1 \in Good
  <2> HIDE DEF Good
  <2>1. PICK T : T = Good
    OBVIOUS
  <2>2. N + 1 \in T /\ \A i \in 1 .. N : i + 1 \in T => i \in T
    BY <1>1, <1>2, <2>1
  <2>3. \A i \in 1 .. N + 1 : i \in T
    BY <2>2, Downward
  <2> QED BY <2>1, <2>3
<1>4. PICK f : Goes(f, 1)
  BY <1>3
<1>5. IsSchema(q, f)
  BY <1>4 DEF IsSchema, Step
<1> DEFINE s == CHOOSE g : IsSchema(q, g)
<1>6. BuildOutputSchema(q) = s
  BY DEF BuildOutputSchema, IsSchema
<1>7. IsSchema(q, s)
  BY <1>5
<1> HIDE DEF s
<1>8. s[N + 1] = Schema[q.table]
  BY <1>7 DEF IsSchema
<1>9. ASSUME NEW i \in 1 .. N
      PROVE  s[i] = IF q.nodes[i].type = "Project"
                    THEN Project(s[i + 1], NamedIn(s[i + 1], q.nodes[i].columns)) ELSE s[i + 1]
  <2>1. i \in 1 .. N + 1 /\ ~ (i > N)
    OBVIOUS
  <2> QED BY <1>7, <2>1 DEF IsSchema
<1> QED
  BY <1>6, <1>8, <1>9 DEF ColumnsToPositions

\* The same of the rows of each node.
IsChosen(q, rows, f) ==
  f = [i \in 1 .. Len(q.nodes) + 1 |->
         IF i > Len(q.nodes) THEN DOMAIN rows
         ELSE {r \in f[i + 1] :
             /\ q.nodes[i].type = "Filter" => rows[r][q.nodes[i].column] \in q.nodes[i].among
             /\ q.nodes[i].type = "Limit" =>
                  Cardinality(Below(f[i + 1], r)) < q.nodes[i].limit}]

\* The same of Chosen(): each node takes its rows from those of its child.
LEMMA ChosenSteps ==
  ASSUME NEW q, NEW rows, Len(q.nodes) \in Nat
  PROVE  /\ Chosen(q, rows)[Len(q.nodes) + 1] = DOMAIN rows
         /\ \A i \in 1 .. Len(q.nodes) :
              Chosen(q, rows)[i] =
           {r \in Chosen(q, rows)[i + 1] :
             /\ q.nodes[i].type = "Filter" => rows[r][q.nodes[i].column] \in q.nodes[i].among
             /\ q.nodes[i].type = "Limit" =>
                  Cardinality(Below(Chosen(q, rows)[i + 1], r)) < q.nodes[i].limit}
<1> PICK N \in Nat : N = Len(q.nodes)
  OBVIOUS
<1> DEFINE Step(i, x) == {r \in x :
             /\ q.nodes[i].type = "Filter" => rows[r][q.nodes[i].column] \in q.nodes[i].among
             /\ q.nodes[i].type = "Limit" =>
                  Cardinality(Below(x, r)) < q.nodes[i].limit}
           Goes(f, i) == f = [j \in i .. N + 1 |-> IF j > N THEN DOMAIN rows ELSE Step(j, f[j + 1])]
           Good == {i \in 1 .. N + 1 : \E f : Goes(f, i)}
<1> HIDE DEF Step
<1>1. N + 1 \in Good
  <2>1. Goes([j \in N + 1 .. N + 1 |-> DOMAIN rows], N + 1)
    OBVIOUS
  <2>2. N + 1 \in 1 .. N + 1
    OBVIOUS
  <2> HIDE DEF Goes
  <2> QED BY <2>1, <2>2
<1>2. ASSUME NEW i \in 1 .. N, i + 1 \in Good
      PROVE  i \in Good
  <2>1. PICK f : Goes(f, i + 1)
    BY <1>2
  <2> DEFINE g == [j \in i .. N + 1 |-> IF j = i THEN Step(i, f[i + 1]) ELSE f[j]]
  <2>2. ASSUME NEW j \in i .. N + 1
        PROVE  g[j] = IF j > N THEN DOMAIN rows ELSE Step(j, g[j + 1])
    <3>1. CASE j = i
      <4>1. ~ (j > N) /\ i + 1 \in i .. N + 1 /\ i + 1 # i
        BY <3>1
      <4>2. g[i + 1] = f[i + 1]
        BY <4>1
      <4> QED BY <3>1, <4>1, <4>2
    <3>2. CASE j # i
      <4>1. j \in i + 1 .. N + 1 /\ (~ (j > N) => j + 1 \in i .. N + 1 /\ j + 1 # i)
        BY <3>2
      <4>2. f[j] = IF j > N THEN DOMAIN rows ELSE Step(j, f[j + 1])
        BY <2>1, <4>1
      <4> QED BY <3>2, <4>1, <4>2
    <3> QED BY <3>1, <3>2
  <2>3. Goes(g, i)
    BY <2>2
  <2>4. i \in 1 .. N + 1
    OBVIOUS
  <2> HIDE DEF Goes, g
  <2> QED BY <2>3, <2>4
<1>3. 1 \in Good
  <2> HIDE DEF Good
  <2>1. PICK T : T = Good
    OBVIOUS
  <2>2. N + 1 \in T /\ \A i \in 1 .. N : i + 1 \in T => i \in T
    BY <1>1, <1>2, <2>1
  <2>3. \A i \in 1 .. N + 1 : i \in T
    BY <2>2, Downward
  <2> QED BY <2>1, <2>3
<1>4. PICK f : Goes(f, 1)
  BY <1>3
<1>5. IsChosen(q, rows, f)
  BY <1>4 DEF IsChosen, Step
<1> DEFINE sol == CHOOSE g : IsChosen(q, rows, g)
<1>6. Chosen(q, rows) = sol
  BY DEF Chosen, IsChosen
<1>7. IsChosen(q, rows, sol)
  BY <1>5
<1> HIDE DEF sol
<1>8. sol[N + 1] = DOMAIN rows
  BY <1>7 DEF IsChosen
<1>9. ASSUME NEW i \in 1 .. N
      PROVE  sol[i] = {r \in sol[i + 1] :
             /\ q.nodes[i].type = "Filter" => rows[r][q.nodes[i].column] \in q.nodes[i].among
             /\ q.nodes[i].type = "Limit" =>
                  Cardinality(Below(sol[i + 1], r)) < q.nodes[i].limit}
  <2>1. i \in 1 .. N + 1 /\ ~ (i > N)
    OBVIOUS
  <2> QED BY <1>7, <2>1 DEF IsChosen
<1> QED
  BY <1>6, <1>8, <1>9

\* The same of what each operator makes of t.
IsOutput(t, f) ==
  f = [i \in 1 .. Len(plan) + 1 |->
         IF i > Len(plan) THEN t
         ELSE IF plan[i].op = "project" THEN Project(f[i + 1], plan[i].cols)
         ELSE f[i + 1]]

\* The same of Output(): each operator makes its tuple of that of its child.
LEMMA OutputSteps ==
  ASSUME NEW t, Len(plan) \in Nat
  PROVE  /\ Output(t)[Len(plan) + 1] = t
         /\ \A i \in 1 .. Len(plan) :
              Output(t)[i] = IF plan[i].op = "project" THEN Project(Output(t)[i + 1], plan[i].cols) ELSE Output(t)[i + 1]
<1> PICK N \in Nat : N = Len(plan)
  OBVIOUS
<1> DEFINE Step(i, x) == IF plan[i].op = "project" THEN Project(x, plan[i].cols) ELSE x
           Goes(f, i) == f = [j \in i .. N + 1 |-> IF j > N THEN t ELSE Step(j, f[j + 1])]
           Good == {i \in 1 .. N + 1 : \E f : Goes(f, i)}
<1> HIDE DEF Step
<1>1. N + 1 \in Good
  <2>1. Goes([j \in N + 1 .. N + 1 |-> t], N + 1)
    OBVIOUS
  <2>2. N + 1 \in 1 .. N + 1
    OBVIOUS
  <2> HIDE DEF Goes
  <2> QED BY <2>1, <2>2
<1>2. ASSUME NEW i \in 1 .. N, i + 1 \in Good
      PROVE  i \in Good
  <2>1. PICK f : Goes(f, i + 1)
    BY <1>2
  <2> DEFINE g == [j \in i .. N + 1 |-> IF j = i THEN Step(i, f[i + 1]) ELSE f[j]]
  <2>2. ASSUME NEW j \in i .. N + 1
        PROVE  g[j] = IF j > N THEN t ELSE Step(j, g[j + 1])
    <3>1. CASE j = i
      <4>1. ~ (j > N) /\ i + 1 \in i .. N + 1 /\ i + 1 # i
        BY <3>1
      <4>2. g[i + 1] = f[i + 1]
        BY <4>1
      <4> QED BY <3>1, <4>1, <4>2
    <3>2. CASE j # i
      <4>1. j \in i + 1 .. N + 1 /\ (~ (j > N) => j + 1 \in i .. N + 1 /\ j + 1 # i)
        BY <3>2
      <4>2. f[j] = IF j > N THEN t ELSE Step(j, f[j + 1])
        BY <2>1, <4>1
      <4> QED BY <3>2, <4>1, <4>2
    <3> QED BY <3>1, <3>2
  <2>3. Goes(g, i)
    BY <2>2
  <2>4. i \in 1 .. N + 1
    OBVIOUS
  <2> HIDE DEF Goes, g
  <2> QED BY <2>3, <2>4
<1>3. 1 \in Good
  <2> HIDE DEF Good
  <2>1. PICK T : T = Good
    OBVIOUS
  <2>2. N + 1 \in T /\ \A i \in 1 .. N : i + 1 \in T => i \in T
    BY <1>1, <1>2, <2>1
  <2>3. \A i \in 1 .. N + 1 : i \in T
    BY <2>2, Downward
  <2> QED BY <2>1, <2>3
<1>4. PICK f : Goes(f, 1)
  BY <1>3
<1>5. IsOutput(t, f)
  BY <1>4 DEF IsOutput, Step
<1> DEFINE s == CHOOSE g : IsOutput(t, g)
<1>6. Output(t) = s
  BY DEF Output, IsOutput
<1>7. IsOutput(t, s)
  BY <1>5
<1> HIDE DEF s
<1>8. s[N + 1] = t
  BY <1>7 DEF IsOutput
<1>9. ASSUME NEW i \in 1 .. N
      PROVE  s[i] = IF plan[i].op = "project" THEN Project(s[i + 1], plan[i].cols) ELSE s[i + 1]
  <2>1. i \in 1 .. N + 1 /\ ~ (i > N)
    OBVIOUS
  <2> QED BY <1>7, <2>1 DEF IsOutput
<1> QED
  BY <1>6, <1>8, <1>9

\* s has the values of t at the positions in kept, in order.
ProjectsTo(t, kept, n, s) ==
  /\ n \in Nat
  /\ DOMAIN s = 1 .. n
  /\ \A k \in 1 .. n : Kth(kept, k) \in kept /\ s[k] = t[Kth(kept, k)]
  /\ \A k, l \in 1 .. n : Kth(kept, k) = Kth(kept, l) => k = l
  /\ \A x \in kept : \E k \in 1 .. n : Kth(kept, k) = x

\* ProjectionOp keeps the values at the positions of its columns, in order.
LEMMA ProjectFacts ==
  ASSUME NEW m \in Nat, NEW t, DOMAIN t = 1 .. m, NEW cols,
         NEW kept, kept = cols \cap 1 .. m
  PROVE  ProjectsTo(t, kept, Cardinality(kept), Project(t, cols))
<1>1. kept \in SUBSET Nat /\ IsFiniteSet(kept)
  <2>1. IsFiniteSet(1 .. m)
    BY FS_Interval
  <2> QED BY <2>1, FS_Subset
<1>2. PICK n : n = Cardinality(kept)
  OBVIOUS
<1>3. /\ n \in Nat
      /\ \A k \in 1 .. n : Kth(kept, k) \in kept /\ Cardinality(Below(kept, Kth(kept, k))) = k - 1
      /\ \A x \in kept : \E k \in 1 .. n : Kth(kept, k) = x
  BY <1>1, <1>2, KthFacts
<1>4. Project(t, cols) = [k \in 1 .. n |-> t[Kth(kept, k)]]
  BY <1>2 DEF Project
<1>5. ASSUME NEW k \in 1 .. n, NEW l \in 1 .. n, Kth(kept, k) = Kth(kept, l)
      PROVE  k = l
  <2>1. k - 1 = l - 1
    BY <1>3, <1>5
  <2> QED BY <2>1
<1> QED BY <1>2, <1>3, <1>4, <1>5 DEF ProjectsTo

----------------------------------------------------------------------------
(* Columns by name                                                         *)

\* A plan of the planner.
Planned == query \in Plans /\ query.table \in DOMAIN Schema /\ plan = Build(query)

Names(i) == BuildOutputSchema(query)[i]
Projection(i) == query.nodes[i].type = "Project"
Kept(i) == {c \in ToSet(Schema[query.table]) :
              \A j \in i .. Len(query.nodes) : Projection(j) => c \in query.nodes[j].columns}

\* Build() makes one operator of each node, of its kind.
LEMMA PlanFacts ==
  ASSUME Planned
  PROVE  /\ Len(query.nodes) \in Nat
         /\ Len(plan) = Len(query.nodes)
         /\ DOMAIN plan = 1 .. Len(query.nodes)
         /\ \A i \in 1 .. Len(query.nodes) :
              /\ query.nodes[i].type \in {"Project", "Limit", "Filter"}
              /\ query.nodes[i].type = "Filter" =>
                   /\ query.nodes[i].column \in ToSet(Names(i + 1))
                   /\ plan[i] = CompilePredicate(query, i)
              /\ Projection(i) => plan[i] = [op |-> "project", cols |-> ColumnsToPositions(query, i)]
              /\ query.nodes[i].type = "Limit" =>
                   plan[i] = [op |-> "limit", n |-> query.nodes[i].limit] /\ plan[i].n \in Nat
<1>1. /\ query.nodes \in Seq(ToSet(query.nodes))
      /\ \A i \in 1 .. Len(query.nodes) :
         \/ query.nodes[i].type = "Project"
         \/ query.nodes[i].type = "Limit" /\ query.nodes[i].limit \in Nat
         \/ /\ query.nodes[i].type = "Filter"
            /\ query.nodes[i].column \in ToSet(BuildOutputSchema(query)[i + 1])
  BY PlansAssumption DEF Planned
<1>2. PICK n \in Nat : n = Len(query.nodes)
  BY <1>1
<1>3. DOMAIN plan = 1 .. n /\ Len(plan) = n
  BY <1>2 DEF Planned, Build
<1>4. ASSUME NEW i \in 1 .. n
      PROVE  plan[i] = CASE query.nodes[i].type = "Filter" -> CompilePredicate(query, i)
       [] query.nodes[i].type = "Project" -> [op |-> "project", cols |-> ColumnsToPositions(query, i)]
       [] query.nodes[i].type = "Limit" -> [op |-> "limit", n |-> query.nodes[i].limit]
  BY <1>2 DEF Planned, Build
<1>5. ASSUME NEW i \in 1 .. n
       PROVE  /\ query.nodes[i].type \in {"Project", "Limit", "Filter"}
              /\ query.nodes[i].type = "Filter" =>
                   /\ query.nodes[i].column \in ToSet(Names(i + 1))
                   /\ plan[i] = CompilePredicate(query, i)
              /\ Projection(i) => plan[i] = [op |-> "project", cols |-> ColumnsToPositions(query, i)]
              /\ query.nodes[i].type = "Limit" =>
                   plan[i] = [op |-> "limit", n |-> query.nodes[i].limit] /\ plan[i].n \in Nat
  <2>1. CASE query.nodes[i].type = "Filter"
    BY <1>1, <1>2, <1>4, <2>1 DEF Names, Projection
  <2>2. CASE query.nodes[i].type = "Project"
    BY <1>4, <2>2 DEF Projection
  <2>3. CASE query.nodes[i].type = "Limit"
    <3>1. query.nodes[i].limit \in Nat
      BY <1>1, <1>2, <2>3
    <3>2. plan[i] = [op |-> "limit", n |-> query.nodes[i].limit]
      BY <1>4, <2>3
    <3> QED BY <2>3, <3>1, <3>2 DEF Projection
  <2> QED BY <1>1, <1>2, <2>1, <2>2, <2>3
<1> QED BY <1>2, <1>3, <1>5

\* The names at node i are those of the columns kept from there down, each once.
NamesOK(i) ==
  /\ \E m \in Nat : DOMAIN Names(i) = 1 .. m
  /\ \A k, l \in DOMAIN Names(i) : Names(i)[k] = Names(i)[l] => k = l
  /\ \A c : (\E k \in DOMAIN Names(i) : Names(i)[k] = c) <=> c \in Kept(i)

\* The planner knows the columns of every node.
LEMMA NamesFacts ==
  ASSUME Planned
  PROVE  \A i \in 1 .. Len(query.nodes) + 1 : NamesOK(i)
<1>1. PICK N \in Nat : N = Len(query.nodes)
  BY PlanFacts
<1>2. /\ Names(N + 1) = Schema[query.table]
      /\ \A i \in 1 .. N : Names(i) = IF Projection(i)
                                      THEN Project(Names(i + 1), ColumnsToPositions(query, i))
                                      ELSE Names(i + 1)
  BY <1>1, SchemaSteps DEF Names, Projection
<1> DEFINE Good == {i \in 1 .. N + 1 : NamesOK(i)}
<1>3. N + 1 \in Good
  <2>1. /\ Schema[query.table] \in Seq(ToSet(Schema[query.table]))
        /\ \A c, d \in DOMAIN Schema[query.table] :
             Schema[query.table][c] = Schema[query.table][d] => c = d
    BY SchemaAssumption DEF Planned
  <2>2. DOMAIN Schema[query.table] = 1 .. Len(Schema[query.table])
        /\ Len(Schema[query.table]) \in Nat
    BY <2>1
  <2>3. ASSUME NEW c
        PROVE  c \in Kept(N + 1) <=> \E k \in DOMAIN Names(N + 1) : Names(N + 1)[k] = c
    <3>1. c \in Kept(N + 1) <=> c \in ToSet(Schema[query.table])
      BY <1>1 DEF Kept
    <3> QED BY <1>2, <3>1 DEF ToSet
  <2>4. NamesOK(N + 1)
    BY <1>2, <2>1, <2>2, <2>3 DEF NamesOK
  <2> QED BY <2>4
<1>4. ASSUME NEW i \in 1 .. N, i + 1 \in Good
      PROVE  i \in Good
  <2>1. i \in 1 .. N + 1 /\ i + 1 \in 1 .. N + 1
    OBVIOUS
  <2>2. NamesOK(i + 1)
    BY <1>4
  <2>k. ASSUME NEW c
        PROVE  c \in Kept(i) <=> c \in Kept(i + 1) /\ (Projection(i) => c \in query.nodes[i].columns)
    <3>1. \A j : j \in i .. N <=> j = i \/ j \in i + 1 .. N
      OBVIOUS
    <3> QED BY <1>1, <3>1 DEF Kept
  <2>3. CASE ~ Projection(i)
    <3>1. Names(i) = Names(i + 1)
      BY <1>2, <2>3
    <3>2. NamesOK(i)
      BY <2>2, <2>3, <2>k, <3>1 DEF NamesOK
    <3> QED BY <2>1, <3>2
  <2>4. CASE Projection(i)
    <3>1. PICK m \in Nat : DOMAIN Names(i + 1) = 1 .. m
      BY <2>2 DEF NamesOK
    <3>2. PICK cols : cols = ColumnsToPositions(query, i)
      OBVIOUS
    <3>3. PICK kept : kept = cols \cap 1 .. m
      OBVIOUS
    <3>4. PICK names : names = Names(i + 1)
      OBVIOUS
    <3>5. PICK n : n = Cardinality(kept)
      OBVIOUS
    <3>6. Names(i) = Project(names, cols) /\ DOMAIN names = 1 .. m
      BY <1>2, <2>4, <3>1, <3>2, <3>4
    <3>7. /\ n \in Nat
          /\ DOMAIN Names(i) = 1 .. n
          /\ \A k \in 1 .. n : Kth(kept, k) \in kept /\ Names(i)[k] = names[Kth(kept, k)]
          /\ \A k, l \in 1 .. n : Kth(kept, k) = Kth(kept, l) => k = l
          /\ \A x \in kept : \E k \in 1 .. n : Kth(kept, k) = x
      <4>1. ProjectsTo(names, kept, n, Names(i))
        BY <3>3, <3>5, <3>6, ProjectFacts
      <4> QED BY <4>1 DEF ProjectsTo
    <3>8. \A x : x \in kept <=> x \in 1 .. m /\ names[x] \in query.nodes[i].columns
      BY <3>2, <3>3, <3>4, <3>6 DEF ColumnsToPositions, NamedIn, Names
    <3>9. /\ \A k, l \in 1 .. m : names[k] = names[l] => k = l
          /\ \A c : (\E k \in 1 .. m : names[k] = c) <=> c \in Kept(i + 1)
      BY <2>2, <3>1, <3>4 DEF NamesOK
    <3>10. \A k, l \in DOMAIN Names(i) : Names(i)[k] = Names(i)[l] => k = l
      <4>1. SUFFICES ASSUME NEW k \in 1 .. n, NEW l \in 1 .. n, Names(i)[k] = Names(i)[l]
                     PROVE  k = l
        BY <3>7
      <4>2. Kth(kept, k) \in kept /\ Kth(kept, l) \in kept
            /\ names[Kth(kept, k)] = names[Kth(kept, l)]
        BY <3>7, <4>1
      <4>3. Kth(kept, k) = Kth(kept, l)
        BY <3>8, <3>9, <4>2
      <4> QED BY <3>7, <4>3
    <3>11. ASSUME NEW c
           PROVE  (\E k \in DOMAIN Names(i) : Names(i)[k] = c) <=> c \in Kept(i)
      <4>1. c \in Kept(i) <=> \E x \in kept : names[x] = c
        BY <2>4, <2>k, <3>8, <3>9
      <4>2. (\E k \in 1 .. n : Names(i)[k] = c) <=> \E x \in kept : names[x] = c
        BY <3>7
      <4> QED BY <3>7, <4>1, <4>2
    <3>12. NamesOK(i)
      BY <3>7, <3>10, <3>11 DEF NamesOK
    <3> QED BY <2>1, <3>12
  <2> QED BY <2>3, <2>4
<1> HIDE DEF Good
<1>5. PICK T : T = Good
  OBVIOUS
<1>6. N + 1 \in T /\ \A i \in 1 .. N : i + 1 \in T => i \in T
  BY <1>3, <1>4, <1>5
<1>7. \A i \in 1 .. N + 1 : i \in T
  BY <1>6, Downward
<1> QED BY <1>1, <1>5, <1>7 DEF Good

\* Where names differ, a name is found at its own position.
LEMMA PositionFacts ==
  ASSUME NEW names, NEW k \in DOMAIN names,
         \A a, b \in DOMAIN names : names[a] = names[b] => a = b
  PROVE  PositionIn(names, names[k]) = k
  BY DEF PositionIn

\* A row of the table of the query by column name.
ByName(t) == Named(Schema[query.table], t)

\* Where names differ, a tuple by name has its values.
LEMMA NamedFacts ==
  ASSUME NEW names, NEW t,
         \A a, b \in DOMAIN names : names[a] = names[b] => a = b
  PROVE  \A k \in DOMAIN names : Named(names, t)[names[k]] = t[k]
<1>1. SUFFICES ASSUME NEW k \in DOMAIN names
               PROVE  Named(names, t)[names[k]] = t[k]
  OBVIOUS
<1>2. PICK c : c = names[k]
  OBVIOUS
<1>3. c \in ToSet(names) /\ PositionIn(names, c) = k
  BY <1>2, PositionFacts DEF ToSet
<1>4. Named(names, t)[c] = t[PositionIn(names, c)]
  BY <1>3 DEF Named
<1> QED BY <1>2, <1>3, <1>4

\* What operator i makes of t are the values of t in the columns of node i.
OutputOK(i, t) ==
  /\ DOMAIN Output(t)[i] = DOMAIN Names(i)
  /\ \A k \in DOMAIN Names(i) : Output(t)[i][k] = ByName(t)[Names(i)[k]]

\* Every operator makes of a row its values in the columns of its node.
LEMMA OutputFacts ==
  ASSUME Planned, NEW t, DOMAIN t = DOMAIN Schema[query.table]
  PROVE  \A i \in 1 .. Len(query.nodes) + 1 : OutputOK(i, t)
<1>1. PICK N \in Nat : N = Len(query.nodes)
  BY PlanFacts
<1>2. /\ Names(N + 1) = Schema[query.table]
      /\ \A i \in 1 .. N : Names(i) = IF Projection(i)
                                      THEN Project(Names(i + 1), ColumnsToPositions(query, i))
                                      ELSE Names(i + 1)
  BY <1>1, SchemaSteps DEF Names, Projection
<1>3. /\ Output(t)[N + 1] = t
      /\ \A i \in 1 .. N :
           Output(t)[i] = IF plan[i].op = "project"
                          THEN Project(Output(t)[i + 1], plan[i].cols) ELSE Output(t)[i + 1]
  <2>1. Len(plan) = N
    BY <1>1, PlanFacts
  <2> QED BY <2>1, OutputSteps
<1>4. \A i \in 1 .. N :
        /\ Projection(i) <=> plan[i].op = "project"
        /\ Projection(i) => plan[i].cols = ColumnsToPositions(query, i)
  <2>1. ASSUME NEW i \in 1 .. N
        PROVE  /\ Projection(i) <=> plan[i].op = "project"
               /\ Projection(i) => plan[i].cols = ColumnsToPositions(query, i)
    <3>1. /\ query.nodes[i].type \in {"Project", "Limit", "Filter"}
          /\ query.nodes[i].type = "Filter" => plan[i] = CompilePredicate(query, i)
          /\ Projection(i) => plan[i] = [op |-> "project", cols |-> ColumnsToPositions(query, i)]
          /\ query.nodes[i].type = "Limit" => plan[i] = [op |-> "limit", n |-> query.nodes[i].limit]
      BY <1>1, PlanFacts
    <3> QED BY <3>1 DEF Projection, CompilePredicate
  <2> QED BY <2>1
<1>5. \A i \in 1 .. N + 1 : NamesOK(i)
  BY <1>1, NamesFacts
<1> DEFINE Good == {i \in 1 .. N + 1 : OutputOK(i, t)}
<1>6. N + 1 \in Good
  <2>1. NamesOK(N + 1)
    BY <1>5
  <2>2. PICK names : names = Schema[query.table]
    OBVIOUS
  <2>3. \A a, b \in DOMAIN names : names[a] = names[b] => a = b
    BY <1>2, <2>1, <2>2 DEF NamesOK
  <2>4. \A k \in DOMAIN names : Named(names, t)[names[k]] = t[k]
    BY <2>3, NamedFacts
  <2>5. OutputOK(N + 1, t)
    BY <1>2, <1>3, <2>2, <2>4 DEF OutputOK, ByName
  <2> QED BY <2>5
<1>7. ASSUME NEW i \in 1 .. N, i + 1 \in Good
      PROVE  i \in Good
  <2>1. i \in 1 .. N + 1 /\ i + 1 \in 1 .. N + 1
    OBVIOUS
  <2>2. OutputOK(i + 1, t)
    BY <1>7
  <2>3. CASE ~ Projection(i)
    <3>1. Names(i) = Names(i + 1) /\ Output(t)[i] = Output(t)[i + 1]
      BY <1>2, <1>3, <1>4, <2>3
    <3>2. OutputOK(i, t)
      BY <2>2, <3>1 DEF OutputOK
    <3> QED BY <2>1, <3>2
  <2>4. CASE Projection(i)
    <3>1. PICK m \in Nat : DOMAIN Names(i + 1) = 1 .. m
      BY <1>5, <2>1 DEF NamesOK
    <3>2. PICK cols : cols = ColumnsToPositions(query, i)
      OBVIOUS
    <3>3. PICK kept : kept = cols \cap 1 .. m
      OBVIOUS
    <3>4. PICK names : names = Names(i + 1)
      OBVIOUS
    <3>5. PICK values : values = Output(t)[i + 1]
      OBVIOUS
    <3>6. PICK n : n = Cardinality(kept)
      OBVIOUS
    <3>7. Names(i) = Project(names, cols) /\ DOMAIN names = 1 .. m
      BY <1>2, <2>4, <3>1, <3>2, <3>4
    <3>8. Output(t)[i] = Project(values, cols) /\ DOMAIN values = 1 .. m
      BY <1>3, <1>4, <2>2, <2>4, <3>1, <3>2, <3>5 DEF OutputOK
    <3>9. ProjectsTo(names, kept, n, Names(i))
      BY <3>3, <3>6, <3>7, ProjectFacts
    <3>10. ProjectsTo(values, kept, n, Output(t)[i])
      BY <3>3, <3>6, <3>8, ProjectFacts
    <3>11. DOMAIN Output(t)[i] = 1 .. n /\ DOMAIN Names(i) = 1 .. n
      BY <3>9, <3>10 DEF ProjectsTo
    <3>12. ASSUME NEW k \in 1 .. n
           PROVE  Output(t)[i][k] = ByName(t)[Names(i)[k]]
      <4>1. PICK x : x = Kth(kept, k)
        OBVIOUS
      <4>2. x \in 1 .. m /\ Names(i)[k] = names[x] /\ Output(t)[i][k] = values[x]
        BY <3>3, <3>9, <3>10, <4>1 DEF ProjectsTo
      <4>3. values[x] = ByName(t)[names[x]]
        BY <2>2, <3>1, <3>4, <3>5, <4>2 DEF OutputOK
      <4> QED BY <4>2, <4>3
    <3>13. OutputOK(i, t)
      BY <3>11, <3>12 DEF OutputOK
    <3> QED BY <2>1, <3>13
  <2> QED BY <2>3, <2>4
<1> HIDE DEF Good
<1>8. PICK T : T = Good
  OBVIOUS
<1>9. N + 1 \in T /\ \A i \in 1 .. N : i + 1 \in T => i \in T
  BY <1>6, <1>7, <1>8
<1>10. \A i \in 1 .. N + 1 : i \in T
  BY <1>9, Downward
<1> QED BY <1>1, <1>8, <1>10 DEF Good

\* The delivered tuple by name is the row in the columns of the query.
LEMMA DeliveredRow ==
  ASSUME Planned, NEW t, DOMAIN t = DOMAIN Schema[query.table]
  PROVE  Named(Names(1), Output(t)[1]) = [c \in Columns(query) |-> ByName(t)[c]]
<1>1. Len(query.nodes) \in Nat
  BY PlanFacts
<1>2. NamesOK(1) /\ OutputOK(1, t)
  BY <1>1, NamesFacts, OutputFacts
<1>3. PICK names : names = Names(1)
  OBVIOUS
<1>4. PICK values : values = Output(t)[1]
  OBVIOUS
<1>5. \A a, b \in DOMAIN names : names[a] = names[b] => a = b
  BY <1>2, <1>3 DEF NamesOK
<1>6. \A c : c \in ToSet(names) <=> c \in Columns(query)
  <2>1. \A c : c \in Columns(query) <=> c \in Kept(1)
    BY DEF Columns, Kept, Projection
  <2>2. \A c : c \in ToSet(names) <=> \E k \in DOMAIN names : names[k] = c
    BY DEF ToSet
  <2> QED BY <1>2, <1>3, <2>1, <2>2 DEF NamesOK
<1>7. ASSUME NEW c \in ToSet(names)
      PROVE  Named(names, values)[c] = ByName(t)[c]
  <2>1. PICK k \in DOMAIN names : names[k] = c
    BY DEF ToSet
  <2>2. Named(names, values)[c] = values[k]
    BY <1>5, <2>1, NamedFacts
  <2> QED BY <1>2, <1>3, <1>4, <2>1, <2>2 DEF OutputOK
<1>8. ToSet(names) = Columns(query)
  BY <1>6
<1>9. Named(names, values) = [c \in ToSet(names) |-> Named(names, values)[c]]
  BY DEF Named
<1>10. Named(names, values) = [c \in ToSet(names) |-> ByName(t)[c]]
  BY <1>7, <1>9
<1> QED BY <1>3, <1>4, <1>8, <1>10

\* An operator rejects a tuple when the row does not have the value of its filter.
LEMMA RejectingFacts ==
  ASSUME Planned, NEW t, DOMAIN t = DOMAIN Schema[query.table], NEW i
  PROVE  i \in Rejecting(t) <=> /\ i \in 1 .. Len(query.nodes)
                                /\ query.nodes[i].type = "Filter"
                                /\ ByName(t)[query.nodes[i].column] \notin query.nodes[i].among
<1>1. PICK N \in Nat : N = Len(query.nodes)
  BY PlanFacts
<1>2. i \in Rejecting(t) <=> /\ i \in 1 .. N
                             /\ plan[i].op = "filter"
                             /\ Output(t)[i + 1][plan[i].at] \notin plan[i].among
  BY <1>1, PlanFacts DEF Rejecting
<1>3. ASSUME i \in 1 .. N
      PROVE  plan[i].op = "filter" <=> query.nodes[i].type = "Filter"
  <2>1. /\ query.nodes[i].type \in {"Project", "Limit", "Filter"}
        /\ query.nodes[i].type = "Filter" => plan[i] = CompilePredicate(query, i)
        /\ Projection(i) => plan[i] = [op |-> "project", cols |-> ColumnsToPositions(query, i)]
        /\ query.nodes[i].type = "Limit" => plan[i] = [op |-> "limit", n |-> query.nodes[i].limit]
    BY <1>1, <1>3, PlanFacts
  <2> QED BY <2>1 DEF Projection, CompilePredicate
<1>4. ASSUME i \in 1 .. N, query.nodes[i].type = "Filter"
      PROVE  /\ Output(t)[i + 1][plan[i].at] = ByName(t)[query.nodes[i].column]
             /\ plan[i].among = query.nodes[i].among
  <2>1. plan[i] = CompilePredicate(query, i) /\ query.nodes[i].column \in ToSet(Names(i + 1))
    BY <1>1, <1>4, PlanFacts
  <2>2. i + 1 \in 1 .. N + 1
    BY <1>4
  <2>3. NamesOK(i + 1) /\ OutputOK(i + 1, t)
    BY <1>1, <2>2, NamesFacts, OutputFacts
  <2>4. PICK names : names = Names(i + 1)
    OBVIOUS
  <2>5. \A a, b \in DOMAIN names : names[a] = names[b] => a = b
    BY <2>3, <2>4 DEF NamesOK
  <2>6. PICK k \in DOMAIN names : names[k] = query.nodes[i].column
    BY <2>1, <2>4 DEF ToSet
  <2>7. PositionIn(names, names[k]) = k
    BY <2>5, PositionFacts
  <2>8. plan[i].at = k /\ plan[i].among = query.nodes[i].among
    BY <2>1, <2>4, <2>6, <2>7 DEF CompilePredicate, Names
  <2> QED BY <2>3, <2>4, <2>6, <2>8 DEF OutputOK
<1> QED BY <1>1, <1>2, <1>3, <1>4

----------------------------------------------------------------------------
(* Rows that pass                                                          *)

\* A limit passes the next row of its child unless it has passed all of its own.
LEMMA LimitFacts ==
  ASSUME NEW D \in SUBSET Nat, IsFiniteSet(D), NEW limit \in Nat, NEW n \in Nat, NEW C,
         \A r : r \in C <=> r \in D /\ Cardinality(Below(D, r)) < limit
  PROVE  /\ Cardinality(Upto(C, n)) \in Nat
         /\ Cardinality(Upto(C, n)) < limit /\ n + 1 \in D => n + 1 \in C
         /\ Cardinality(Upto(C, n)) >= limit => \A r \in C : r <= n
<1>1. PICK U : U = Upto(C, n)
  OBVIOUS
<1>2. U \subseteq D /\ \A x : x \in U <=> x \in C /\ x <= n
  BY <1>1 DEF Upto
<1>3. IsFiniteSet(U) /\ Cardinality(U) \in Nat
  BY <1>2, FS_Subset, FS_CardinalityType
<1>4. \A r \in D : Cardinality(Below(D, r)) \in Nat /\ IsFiniteSet(Below(D, r))
  <2>1. \A r \in D : Below(D, r) \subseteq D
    BY DEF Below
  <2> QED BY <2>1, FS_Subset, FS_CardinalityType
<1>5. ASSUME NEW r \in D, r \notin C, r <= n + 1
      PROVE  Cardinality(U) >= limit
  <2> DEFINE T == {x \in D : x \notin C /\ x <= n + 1}
  <2>1. T \in SUBSET Nat /\ r \in T
    BY <1>5
  <2> HIDE DEF T
  <2>2. PICK x \in T : \A y \in T : x <= y
    BY <2>1, LeastOf
  <2>3. x \in D /\ x \notin C /\ x <= n + 1 /\ x \in Nat /\ \A y \in D : y < x => y \in C
    BY <2>2 DEF T
  <2>4. PICK B : B = Below(D, x)
    OBVIOUS
  <2>5. B \subseteq U
    <3>1. \A y \in B : y \in D /\ y < x /\ y \in Nat
      BY <2>4 DEF Below
    <3>2. \A y \in B : y \in C /\ y <= n
      BY <2>3, <3>1
    <3> QED BY <1>2, <3>2
  <2>6. Cardinality(B) <= Cardinality(U) /\ Cardinality(B) \in Nat
    BY <1>3, <1>4, <2>3, <2>4, <2>5, FS_Subset
  <2>7. ~ (Cardinality(B) < limit)
    BY <2>3, <2>4
  <2> QED BY <1>3, <2>6, <2>7
<1>6. ASSUME Cardinality(U) < limit, n + 1 \in D
      PROVE  n + 1 \in C
  BY <1>3, <1>5, <1>6
<1>7. ASSUME Cardinality(U) >= limit, NEW r \in C
      PROVE  r <= n
  <2>1. r \in D /\ r \in Nat /\ Cardinality(Below(D, r)) < limit
    BY <1>7
  <2>2. CASE r > n
    <3>1. PICK B : B = Below(D, r)
      OBVIOUS
    <3>2. U \subseteq B
      BY <1>2, <2>1, <2>2, <3>1 DEF Below
    <3>3. Cardinality(U) <= Cardinality(B) /\ Cardinality(B) \in Nat
      BY <1>4, <2>1, <3>1, <3>2, FS_Subset
    <3> QED BY <1>3, <1>7, <2>1, <3>1, <3>3
  <2> QED BY <2>1, <2>2
<1> QED BY <1>1, <1>3, <1>6, <1>7

\* The rows of the heap by column name, and those that node i of the query delivers.
NamedRows == [k \in DOMAIN Rows |-> Named(Schema[query.table], Rows[k])]
RowsAt(i) == Chosen(query, NamedRows)[i]

Limits == {j \in 1 .. Len(query.nodes) : query.nodes[j].type = "Limit"}

\* The rows of a node: all of them at the scan, and fewer with each node above it.
LEMMA ChosenFacts ==
  ASSUME Planned
  PROVE  /\ Cardinality(Places) \in Nat
         /\ RowsAt(Len(query.nodes) + 1) = 1 .. Cardinality(Places)
         /\ \A i \in 1 .. Len(query.nodes) : \A r :
              r \in RowsAt(i) <=>
                /\ r \in RowsAt(i + 1)
                /\ query.nodes[i].type = "Filter" =>
                     ByName(Rows[r])[query.nodes[i].column] \in query.nodes[i].among
                /\ i \in Limits => Cardinality(Below(RowsAt(i + 1), r)) < query.nodes[i].limit
         /\ \A i \in 1 .. Len(query.nodes) + 1 :
              /\ RowsAt(i) \subseteq 1 .. Cardinality(Places) /\ IsFiniteSet(RowsAt(i))
              /\ \A j \in i .. Len(query.nodes) + 1 : RowsAt(i) \subseteq RowsAt(j)
<1>1. PICK N \in Nat : N = Len(query.nodes)
  BY PlanFacts
<1>2. PICK rows : rows = NamedRows
  OBVIOUS
<1>3. PICK chosen : chosen = Chosen(query, rows)
  OBVIOUS
<1>4. \A i : RowsAt(i) = chosen[i]
  BY <1>2, <1>3 DEF RowsAt
<1>5. PICK m \in Nat : m = Cardinality(Places)
  BY PlaceFacts
<1>6. DOMAIN rows = 1 .. m /\ \A r \in 1 .. m : rows[r] = ByName(Rows[r])
  BY <1>2, <1>5 DEF NamedRows, Rows, ByName
<1>7. /\ chosen[N + 1] = 1 .. m
      /\ \A i \in 1 .. N :
           chosen[i] = {r \in chosen[i + 1] :
             /\ query.nodes[i].type = "Filter" =>
                  rows[r][query.nodes[i].column] \in query.nodes[i].among
             /\ query.nodes[i].type = "Limit" =>
                  Cardinality(Below(chosen[i + 1], r)) < query.nodes[i].limit}
  BY <1>1, <1>3, <1>6, ChosenSteps
<1> DEFINE Good == {i \in 1 .. N + 1 :
                      /\ chosen[i] \subseteq 1 .. m
                      /\ \A j \in i .. N + 1 : chosen[i] \subseteq chosen[j]}
<1>8. N + 1 \in Good
  BY <1>7
<1>9. ASSUME NEW i \in 1 .. N, i + 1 \in Good
      PROVE  i \in Good
  <2>1. chosen[i] \subseteq chosen[i + 1]
    BY <1>7
  <2>2. chosen[i + 1] \subseteq 1 .. m /\ \A j \in i + 1 .. N + 1 : chosen[i + 1] \subseteq chosen[j]
    BY <1>9
  <2>3. \A j \in i .. N + 1 : j = i \/ j \in i + 1 .. N + 1
    OBVIOUS
  <2>4. i \in 1 .. N + 1
    OBVIOUS
  <2> QED BY <2>1, <2>2, <2>3, <2>4
<1> HIDE DEF Good
<1>10. PICK T : T = Good
  OBVIOUS
<1>11. N + 1 \in T /\ \A i \in 1 .. N : i + 1 \in T => i \in T
  BY <1>8, <1>9, <1>10
<1>12. \A i \in 1 .. N + 1 : i \in T
  BY <1>11, Downward
<1>13. \A i \in 1 .. N + 1 :
         chosen[i] \subseteq 1 .. m /\ \A j \in i .. N + 1 : chosen[i] \subseteq chosen[j]
  BY <1>10, <1>12 DEF Good
<1>14. \A i \in 1 .. N + 1 : IsFiniteSet(chosen[i])
  <2>1. IsFiniteSet(1 .. m)
    BY FS_Interval
  <2> QED BY <1>13, <2>1, FS_Subset
<1>15. ASSUME NEW i \in 1 .. N, NEW r
       PROVE  r \in RowsAt(i) <=>
                /\ r \in RowsAt(i + 1)
                /\ query.nodes[i].type = "Filter" =>
                     ByName(Rows[r])[query.nodes[i].column] \in query.nodes[i].among
                /\ i \in Limits => Cardinality(Below(RowsAt(i + 1), r)) < query.nodes[i].limit
  <2>1. i \in Limits <=> query.nodes[i].type = "Limit"
    BY <1>1 DEF Limits
  <2>2. i + 1 \in 1 .. N + 1
    OBVIOUS
  <2>3. r \in chosen[i + 1] => rows[r] = ByName(Rows[r])
    BY <1>6, <1>13, <2>2
  <2>4. r \in chosen[i] <=>
          /\ r \in chosen[i + 1]
          /\ query.nodes[i].type = "Filter" =>
               rows[r][query.nodes[i].column] \in query.nodes[i].among
          /\ query.nodes[i].type = "Limit" =>
               Cardinality(Below(chosen[i + 1], r)) < query.nodes[i].limit
    BY <1>7
  <2> QED BY <1>4, <2>1, <2>3, <2>4
<1>16. RowsAt(N + 1) = 1 .. m
  BY <1>4, <1>7
<1>17. \A i \in 1 .. N + 1 :
              /\ RowsAt(i) \subseteq 1 .. m /\ IsFiniteSet(RowsAt(i))
              /\ \A j \in i .. N + 1 : RowsAt(i) \subseteq RowsAt(j)
  BY <1>4, <1>13, <1>14
<1> QED BY <1>1, <1>5, <1>15, <1>16, <1>17

\* The same of the limits of a plan.
LEMMA LimitSteps ==
  ASSUME Planned, NEW j \in Limits, NEW n \in Nat
  PROVE  /\ Cardinality(Upto(RowsAt(j), n)) \in Nat
         /\ query.nodes[j].limit \in Nat
         /\ plan[j].n = query.nodes[j].limit
         /\ Cardinality(Upto(RowsAt(j), n)) < query.nodes[j].limit /\ n + 1 \in RowsAt(j + 1) => n + 1 \in RowsAt(j)
         /\ Cardinality(Upto(RowsAt(j), n)) >= query.nodes[j].limit => \A r \in RowsAt(j) : r <= n
<1>1. PICK N \in Nat : N = Len(query.nodes)
  BY PlanFacts
<1>2. j \in 1 .. N /\ j + 1 \in 1 .. N + 1 /\ query.nodes[j].type = "Limit"
  BY <1>1 DEF Limits
<1>3. plan[j] = [op |-> "limit", n |-> query.nodes[j].limit] /\ plan[j].n \in Nat
  BY <1>1, <1>2, PlanFacts
<1>4. PICK limit \in Nat : limit = query.nodes[j].limit /\ plan[j].n = limit
  BY <1>3
<1>5. PICK D : D = RowsAt(j + 1)
  OBVIOUS
<1>6. PICK E : E = RowsAt(j)
  OBVIOUS
<1>7. D \subseteq 1 .. Cardinality(Places) /\ IsFiniteSet(D) /\ Cardinality(Places) \in Nat
  BY <1>1, <1>2, <1>5, ChosenFacts
<1>8. D \in SUBSET Nat
  BY <1>7
<1>9. \A r : r \in E <=> r \in D /\ Cardinality(Below(D, r)) < limit
  BY <1>1, <1>2, <1>4, <1>5, <1>6, ChosenFacts
<1> QED BY <1>4, <1>5, <1>6, <1>7, <1>8, <1>9, LimitFacts

\* A row has a value for each column of its table.
LEMMA RowFacts ==
  ASSUME Planned, NEW r \in 1 .. Cardinality(Places)
  PROVE  DOMAIN Rows[r] = DOMAIN Schema[query.table]
BY DecodeAssumption, PlaceFacts DEF Planned, Rows

\* When no limit has passed all of its rows, the next row passes an operator that
\* no operator from there down rejects it in.
LEMMA NextRow ==
  ASSUME Planned, NEW n \in Nat, n + 1 \in 1 .. Cardinality(Places),
         \A j \in Limits : Cardinality(Upto(RowsAt(j), n)) < query.nodes[j].limit
  PROVE  \A i \in 1 .. Len(query.nodes) + 1 :
           n + 1 \in RowsAt(i) <=> \A j \in Rejecting(Rows[n + 1]) : j < i
<1>1. PICK N \in Nat : N = Len(query.nodes)
  BY PlanFacts
<1>2. PICK R : R = Rejecting(Rows[n + 1])
  OBVIOUS
<1>3. \A i : i \in R <=> /\ i \in 1 .. N
                         /\ query.nodes[i].type = "Filter"
                         /\ ByName(Rows[n + 1])[query.nodes[i].column] \notin query.nodes[i].among
  <2>1. DOMAIN Rows[n + 1] = DOMAIN Schema[query.table]
    BY RowFacts
  <2> QED BY <1>1, <1>2, <2>1, RejectingFacts
<1> DEFINE Good == {i \in 1 .. N + 1 : n + 1 \in RowsAt(i) <=> \A j \in R : j < i}
<1>4. N + 1 \in Good
  <2>1. n + 1 \in RowsAt(N + 1)
    BY <1>1, ChosenFacts
  <2>2. \A j \in R : j < N + 1
    BY <1>3
  <2> QED BY <2>1, <2>2
<1>5. ASSUME NEW i \in 1 .. N, i + 1 \in Good
      PROVE  i \in Good
  <2>1. n + 1 \in RowsAt(i + 1) <=> \A j \in R : j < i + 1
    BY <1>5
  <2>2. n + 1 \in RowsAt(i) <=>
                /\ n + 1 \in RowsAt(i + 1)
                /\ query.nodes[i].type = "Filter" =>
                     ByName(Rows[n + 1])[query.nodes[i].column] \in query.nodes[i].among
                /\ i \in Limits => Cardinality(Below(RowsAt(i + 1), n + 1)) < query.nodes[i].limit
    BY <1>1, ChosenFacts
  <2>3. i \in Limits /\ n + 1 \in RowsAt(i + 1) => n + 1 \in RowsAt(i)
    BY LimitSteps
  <2>4. n + 1 \in RowsAt(i) <=> n + 1 \in RowsAt(i + 1) /\ i \notin R
    BY <1>1, <1>3, <2>2, <2>3 DEF Limits
  <2>5. (\A j \in R : j < i) <=> (\A j \in R : j < i + 1) /\ i \notin R
    BY <1>3
  <2> QED BY <2>1, <2>4, <2>5
<1> HIDE DEF Good
<1>6. PICK T : T = Good
  OBVIOUS
<1>7. N + 1 \in T /\ \A i \in 1 .. N : i + 1 \in T => i \in T
  BY <1>4, <1>5, <1>6
<1>8. \A i \in 1 .. N + 1 : i \in T
  BY <1>7, Downward
<1> QED BY <1>1, <1>2, <1>6, <1>8 DEF Good

----------------------------------------------------------------------------
(* The position of the scan in its heap                                    *)

\* The pages of the heap follow one another: none lies between a page and its successor.
LEMMA HeapLinks ==
  /\ 0 \in PagesOfHeap
  /\ \A p \in PagesOfHeap :
       /\ p \in Page /\ p \in Nat
       /\ OnDisk[p].next \in Page \cup {InvalidPage}
       /\ OnDisk[p].next # InvalidPage => OnDisk[p].next \in PagesOfHeap /\ p < OnDisk[p].next
       /\ \A q \in PagesOfHeap : q > p => OnDisk[p].next # InvalidPage /\ OnDisk[p].next <= q
<1>1. 0 \in PagesOfHeap
  BY OnDiskAssumption DEF PagesOfHeap
<1>2. \A p \in PagesOfHeap : p \in Page /\ p \in Nat
  BY PageAssumption DEF PagesOfHeap
<1>3. \A p \in PagesOfHeap : /\ OnDisk[p].next \in Page \cup {InvalidPage}
                             /\ OnDisk[p].next # InvalidPage => p < OnDisk[p].next
  BY <1>2, OnDiskAssumption
<1>4. ASSUME NEW p \in PagesOfHeap, OnDisk[p].next # InvalidPage
      PROVE  OnDisk[p].next \in PagesOfHeap
  <2>1. OnDisk[p].next \in Page
    BY <1>3, <1>4
  <2> SUFFICES ASSUME NEW S \in SUBSET Page,
                      0 \in S /\ \A q \in S : OnDisk[q].next \in S \cup {InvalidPage}
               PROVE  OnDisk[p].next \in S
    BY <2>1 DEF PagesOfHeap
  <2>2. p \in S
    BY DEF PagesOfHeap
  <2> QED BY <1>4, <2>2
<1>5. ASSUME NEW S \in SUBSET Page, 0 \in S,
             \A q \in S : OnDisk[q].next \in S \cup {InvalidPage}
      PROVE  PagesOfHeap \subseteq S
  BY <1>5 DEF PagesOfHeap
<1> DEFINE Gap(p, q) == q > p /\ ~ (OnDisk[p].next # InvalidPage /\ OnDisk[p].next <= q)
           Bad == {p \in PagesOfHeap : \E q \in PagesOfHeap : Gap(p, q)}
<1>6. Bad = {}
  <2> SUFFICES ASSUME Bad # {} PROVE FALSE
    OBVIOUS
  <2>1. Bad \in SUBSET Nat
    BY <1>2
  <2> HIDE DEF Bad
  <2>2. PICK p \in Bad : \A y \in Bad : p <= y
    BY <2>1, LeastOf
  <2>3. /\ p \in PagesOfHeap /\ p \in Nat
        /\ \E q \in PagesOfHeap : Gap(p, q)
    BY <1>2, <2>2 DEF Bad
  <2>4. \A q \in PagesOfHeap : q < p => ~ Gap(q, p)
    <3> SUFFICES ASSUME NEW q \in PagesOfHeap, q < p PROVE ~ Gap(q, p)
      OBVIOUS
    <3>1. q \notin Bad
      BY <1>2, <2>2, <2>3
    <3> QED BY <2>3, <3>1 DEF Bad
  <2> DEFINE S == {q \in PagesOfHeap : ~ Gap(p, q)}
  <2>5. S \in SUBSET Page /\ 0 \in S
    <3>1. S \in SUBSET Page
      BY <1>2
    <3>2. ~ (0 > p)
      BY <2>3
    <3> QED BY <1>1, <3>1, <3>2
  <2>6. ASSUME NEW q \in S, OnDisk[q].next # InvalidPage
        PROVE  OnDisk[q].next \in S
    <3>1. PICK r : r = OnDisk[q].next
      OBVIOUS
    <3>2. q \in PagesOfHeap /\ q \in Nat /\ r \in PagesOfHeap /\ r \in Nat /\ q < r
      BY <1>2, <1>3, <1>4, <2>6, <3>1
    <3>3. CASE q < p
      <4>1. ~ Gap(q, p)
        BY <2>4, <3>2, <3>3
      <4>2. r <= p
        BY <2>3, <3>1, <3>2, <3>3, <4>1
      <4> QED BY <2>3, <3>1, <3>2, <4>2
    <3>4. CASE q = p
      BY <2>6, <3>1, <3>2, <3>4
    <3>5. CASE q > p
      <4>1. OnDisk[p].next # InvalidPage /\ OnDisk[p].next <= q
        BY <3>5
      <4>2. OnDisk[p].next \in Nat
        BY <1>2, <1>4, <2>3, <4>1
      <4> QED BY <3>1, <3>2, <4>1, <4>2
    <3> QED BY <2>3, <3>2, <3>3, <3>4, <3>5
  <2> HIDE DEF S
  <2>7. PagesOfHeap \subseteq S
    BY <1>5, <2>5, <2>6
  <2> QED BY <2>3, <2>7 DEF S
<1>7. \A p, q \in PagesOfHeap : q > p => OnDisk[p].next # InvalidPage /\ OnDisk[p].next <= q
  BY <1>6
<1> QED BY <1>1, <1>2, <1>3, <1>4, <1>7

\* The places that the scan has passed.
Seen ==
  {x \in Places : \/ currPage = InvalidPage
                  \/ x[1] < currPage
                  \/ x[1] = currPage /\ x[2] < currSlot}

ScanPos ==
  /\ ScanInv
  /\ currPage \in PagesOfHeap \cup {InvalidPage}
  /\ currSlot \in Nat
  /\ pc \in {"getNext", "getDeref"} => hasNext
  /\ hasNext /\ pc # "advance" => <<currPage, currSlot>> \in Places
  /\ ~ hasNext /\ pc \in {"idle", "other"} => currPage = InvalidPage

\* The page that the scan has pinned is in its frame as it is on disk.
LEMMA InFrame ==
  ASSUME ScanInv, currPage \in Page, OnlyPin(currPage)
  PROVE  data[pageTable[currPage]] = OnDisk[currPage]
BY ConstantFacts DEF ScanInv, Inv, TypeOK, PageTableCoherent, CopiesOfDisk, OnlyPin, Cached

\* The scan before its first call.
LEMMA InitPos == ScanInit => ScanPos /\ pc = "idle"
BY ScanInitInv DEF ScanInit, ScanPos

\* begin() goes back before the first place.
LEMMA BeginPos ==
  ASSUME ScanPos, Begin
  PROVE  ScanPos' /\ Seen' = {}
<1>1. ScanInv'
  BY ScanNextInv DEF ScanPos, ScanNext
<1>2. currPage' = 0 /\ currSlot' = 0 /\ hasNext' /\ pc' = "advance"
  BY DEF Begin
<1>3. \A x \in Places : x[1] \in Nat /\ x[2] \in Nat
  BY PlaceFacts, HeapLinks
<1>4. Seen' = {}
  BY <1>2, <1>3 DEF Seen, InvalidPage
<1> QED BY <1>1, <1>2, <1>4, HeapLinks DEF ScanPos

\* A request of the scan, of operator* or of another caller leaves the position.
LEMMA RequestPos ==
  ASSUME ScanPos, NextRequest \/ DerefRequest \/ OtherRequest \/ AdvanceRequest \/ DerefRelease
                    \/ OtherRelease
  PROVE  ScanPos' /\ Seen' = Seen
<1>1. ScanInv'
  BY ScanNextInv DEF ScanPos, ScanNext, InCall
<1>2. UNCHANGED <<currPage, currSlot>>
  BY DEF NextRequest, DerefRequest, OtherRequest, AdvanceRequest, DerefRelease, OtherRelease, iterVars
<1>3. Seen' = Seen
  BY <1>2 DEF Seen
<1>4. pc' \in {"getNext", "getDeref"} => hasNext'
  BY DEF ScanPos, NextRequest, DerefRequest, OtherRequest, AdvanceRequest, DerefRelease, OtherRelease,
         iterVars, Requests
<1>5. hasNext' => hasNext /\ pc # "advance"
  BY DEF ScanPos, NextRequest, DerefRequest, OtherRequest, AdvanceRequest, DerefRelease, OtherRelease,
         iterVars, Requests
<1>6. ~ hasNext' /\ pc' \in {"idle", "other"} => ~ hasNext /\ pc \in {"idle", "other"}
  BY DEF ScanPos, NextRequest, DerefRequest, OtherRequest, AdvanceRequest, DerefRelease, OtherRelease,
         iterVars, Requests
<1> QED BY <1>1, <1>2, <1>3, <1>4, <1>5, <1>6 DEF ScanPos

\* Advance() stops at the first place that was not passed.
LEMMA FoundPos ==
  ASSUME ScanPos, AdvanceFound
  PROVE  ScanPos' /\ Seen' = Seen
<1>1. ScanInv'
  BY ScanNextInv DEF ScanPos, ScanNext, InCall
<1>2. currPage \in PagesOfHeap /\ currPage \in Nat /\ data[pageTable[currPage]] = OnDisk[currPage]
  <2>1. currPage \in Page /\ OnlyPin(currPage) /\ ScanInv
    BY DEF ScanPos, ScanInv, AdvanceFound
  <2>2. currPage # InvalidPage
    BY <2>1, PageAssumption DEF InvalidPage
  <2> QED BY <2>1, <2>2, InFrame, HeapLinks DEF ScanPos
<1>3. /\ currSlot' \in OnDisk[currPage].live /\ currSlot' >= currSlot
      /\ \A s \in OnDisk[currPage].live : s >= currSlot => currSlot' <= s
      /\ currPage' = currPage /\ hasNext' /\ pc' = "idle"
  BY <1>2 DEF AdvanceFound, LiveHere
<1>4. <<currPage', currSlot'>> \in Places
  BY <1>2, <1>3, PlaceFacts
<1>5. currSlot' \in Nat
  BY <1>4, PlaceFacts
<1>6. Seen' = Seen
  <2>1. \A x \in Places : x[1] = currPage => (x[2] < currSlot' <=> x[2] < currSlot)
    <3> SUFFICES ASSUME NEW x \in Places, x[1] = currPage
                 PROVE  x[2] < currSlot' <=> x[2] < currSlot
      OBVIOUS
    <3>1. x[2] \in Nat /\ x[2] \in OnDisk[currPage].live
      BY PlaceFacts
    <3> QED BY <1>3, <1>5, <3>1 DEF ScanPos
  <2> QED BY <1>3, <2>1 DEF Seen
<1> QED BY <1>1, <1>2, <1>3, <1>4, <1>5, <1>6 DEF ScanPos

\* Advance() skips no place when it goes on to the next page.
LEMMA NextPagePos ==
  ASSUME ScanPos, AdvanceToNextPage
  PROVE  ScanPos' /\ Seen' = Seen
<1>1. ScanInv'
  BY ScanNextInv DEF ScanPos, ScanNext, InCall
<1>2. currPage \in PagesOfHeap /\ currPage \in Nat /\ data[pageTable[currPage]] = OnDisk[currPage]
  <2>1. currPage \in Page /\ OnlyPin(currPage) /\ ScanInv
    BY DEF ScanPos, ScanInv, AdvanceToNextPage
  <2>2. currPage # InvalidPage
    BY <2>1, PageAssumption DEF InvalidPage
  <2> QED BY <2>1, <2>2, InFrame, HeapLinks DEF ScanPos
<1>3. /\ currPage' = OnDisk[currPage].next /\ currSlot' = 0 /\ pc' = "advance" /\ hasNext' = hasNext
      /\ \A s \in OnDisk[currPage].live : ~ (s >= currSlot)
  BY <1>2 DEF AdvanceToNextPage, LiveHere
<1>4. currPage' # InvalidPage => currPage' \in PagesOfHeap /\ currPage' \in Nat /\ currPage < currPage'
  BY <1>2, <1>3, HeapLinks
<1>5. ASSUME NEW x \in Places
      PROVE  x \in Seen' <=> x \in Seen
  <2>1. /\ x[1] \in PagesOfHeap /\ x[1] \in Nat /\ x[2] \in Nat
        /\ x[1] = currPage => x[2] < currSlot
    <3>1. x[1] \in PagesOfHeap /\ x[2] \in Nat /\ x[2] \in OnDisk[x[1]].live
      BY PlaceFacts
    <3> QED BY <1>3, <3>1, HeapLinks DEF ScanPos
  <2>2. x[1] > currPage => currPage' # InvalidPage /\ currPage' <= x[1]
    BY <1>2, <1>3, <2>1, HeapLinks
  <2>3. x \in Seen <=> x[1] <= currPage
    BY <1>2, <2>1 DEF Seen, InvalidPage
  <2>4. x \in Seen' <=> currPage' = InvalidPage \/ x[1] < currPage' \/ (x[1] = currPage' /\ x[2] < 0)
    BY <1>3 DEF Seen
  <2> QED BY <1>2, <1>4, <2>1, <2>2, <2>3, <2>4
<1>6. Seen' = Seen
  BY <1>5 DEF Seen
<1> QED BY <1>1, <1>3, <1>4, <1>6 DEF ScanPos

\* Advance() ends after the last page.
LEMMA EndsPos ==
  ASSUME ScanPos, AdvanceEnds
  PROVE  ScanPos' /\ Seen' = Seen
<1>1. ScanInv'
  BY ScanNextInv DEF ScanPos, ScanNext, InCall
<1> QED BY <1>1 DEF AdvanceEnds, ScanPos, Seen

\* Next() passes the place whose record it returns.
LEMMA ReturnPos ==
  ASSUME ScanPos, NextRelease
  PROVE  /\ ScanPos'
         /\ rec'.page = currPage /\ rec'.slot = currSlot
         /\ <<currPage, currSlot>> \in Places
         /\ \A y \in Places : y \in Seen <=> Earlier(y, <<currPage, currSlot>>)
         /\ \A y \in Places : y \in Seen' <=> y \in Seen \/ y = <<currPage, currSlot>>
<1>1. ScanInv'
  BY ScanNextInv DEF ScanPos, ScanNext, InCall
<1>2. /\ <<currPage, currSlot>> \in Places
      /\ currPage \in Nat /\ currSlot \in Nat
  BY PlaceFacts, HeapLinks DEF ScanPos, NextRelease
<1>3. /\ currPage' = currPage /\ currSlot' = currSlot + 1 /\ pc' = "advance" /\ hasNext' = hasNext
      /\ rec' = [from |-> "next", page |-> currPage, slot |-> currSlot, frame |-> pageTable[currPage]]
  BY DEF NextRelease, Got
<1>4. \A y \in Places : y \in Seen <=> Earlier(y, <<currPage, currSlot>>)
  BY <1>2 DEF Seen, Earlier, InvalidPage
<1>5. ASSUME NEW y \in Places
      PROVE  y \in Seen' <=> y \in Seen \/ y = <<currPage, currSlot>>
  <2>1. y = <<y[1], y[2]>> /\ y[1] \in Nat /\ y[2] \in Nat
    BY PlaceFacts, HeapLinks
  <2>2. y \in Seen' <=> y[1] < currPage \/ (y[1] = currPage /\ y[2] < currSlot + 1)
    BY <1>2, <1>3 DEF Seen, InvalidPage
  <2>3. y \in Seen <=> y[1] < currPage \/ (y[1] = currPage /\ y[2] < currSlot)
    BY <1>2 DEF Seen, InvalidPage
  <2>4. y = <<currPage, currSlot>> <=> y[1] = currPage /\ y[2] = currSlot
    BY <2>1
  <2> QED BY <1>2, <2>1, <2>2, <2>3, <2>4
<1>6. ScanPos'
  BY <1>1, <1>3 DEF ScanPos, NextRelease
<1> QED BY <1>2, <1>3, <1>4, <1>5, <1>6

\* operator++ leaves the position a position of the heap.
LEMMA IncrementPos == ASSUME ScanPos, Increment PROVE ScanPos'
<1>1. ScanInv'
  BY ScanNextInv DEF ScanPos, ScanNext
<1> QED BY <1>1 DEF Increment, ScanPos

\* The position stays one of the heap in every step of a scan.
LEMMA ScanPosNext == ScanPos /\ [ScanNext]_scanVars => ScanPos'
<1> SUFFICES ASSUME ScanPos, [ScanNext]_scanVars PROVE ScanPos'
  OBVIOUS
<1>1. CASE UNCHANGED scanVars
  <2>1. ScanInv'
    BY ScanNextInv DEF ScanPos
  <2> QED BY <1>1, <2>1 DEF scanVars, iterVars, ScanPos
<1> QED
  BY <1>1, BeginPos, RequestPos, FoundPos, NextPagePos, EndsPos, ReturnPos, IncrementPos
  DEF ScanNext, InCall

----------------------------------------------------------------------------
(* What was delivered                                                      *)

\* What was delivered after n rows of the heap are the rows of the query among them.
ResultOK(n) ==
  /\ \E S : result \in Seq(S)
  /\ Len(result) = Cardinality(Upto(RowsAt(1), n))
  /\ \A k \in 1 .. Len(result) :
       Named(Names(1), result[k]) = [c \in Columns(query) |-> ByName(Rows[Kth(RowsAt(1), k)])[c]]

CountsOK(n) == \A j \in Limits : produced[j] = Cardinality(Upto(RowsAt(j), n))

\* A plan has as many operators as nodes.
LEMMA BuildFacts ==
  ASSUME NEW q \in Plans, q.table \in DOMAIN Schema
  PROVE  Len(q.nodes) \in Nat /\ Len(Build(q)) = Len(q.nodes)
<1>1. q.nodes \in Seq(ToSet(q.nodes))
  BY PlansAssumption
<1>2. PICK n \in Nat : n = Len(q.nodes)
  BY <1>1
<1>3. Len(Build(q)) = n
  BY <1>2 DEF Build
<1> QED BY <1>2, <1>3

\* The rows of the root are rows of every limit, and rows of the heap.
LEMMA FirstNode ==
  ASSUME Planned
  PROVE  /\ RowsAt(1) \in SUBSET Nat /\ IsFiniteSet(RowsAt(1)) /\ RowsAt(1) \subseteq 1 .. Cardinality(Places)
         /\ Cardinality(RowsAt(1)) \in Nat /\ Cardinality(Places) \in Nat
         /\ \A j \in Limits : /\ RowsAt(1) \subseteq RowsAt(j) /\ IsFiniteSet(RowsAt(j))
                              /\ RowsAt(j) \subseteq 1 .. Cardinality(Places)
                              /\ RowsAt(j) \in SUBSET Nat
<1>1. PICK N \in Nat : N = Len(query.nodes)
  BY PlanFacts
<1>2. PICK m \in Nat : m = Cardinality(Places)
  BY PlaceFacts
<1>3. \A i \in 1 .. N + 1 : /\ RowsAt(i) \subseteq 1 .. m /\ IsFiniteSet(RowsAt(i))
                            /\ \A j \in i .. N + 1 : RowsAt(i) \subseteq RowsAt(j)
  BY <1>1, <1>2, ChosenFacts
<1>4. 1 \in 1 .. N + 1 /\ \A j \in Limits : j \in 1 .. N + 1
  BY <1>1 DEF Limits
<1>5. 1 .. m \subseteq Nat
  OBVIOUS
<1> QED BY <1>2, <1>3, <1>4, <1>5, FS_CardinalityType

\* What the query asks for, by the rows of its root.
LEMMA WantedFacts ==
  ASSUME Planned
  PROVE  Wanted = [k \in 1 .. Cardinality(RowsAt(1)) |->
                     [c \in Columns(query) |-> ByName(Rows[Kth(RowsAt(1), k)])[c]]]
<1>1. PICK n \in Nat : n = Cardinality(RowsAt(1))
  BY FirstNode
<1>2. PICK rows : rows = NamedRows
  OBVIOUS
<1>3. PICK S : S = RowsAt(1)
  OBVIOUS
<1>4. S = Chosen(query, rows)[1]
  BY <1>2, <1>3 DEF RowsAt
<1>5. Wanted = [k \in 1 .. Cardinality(S) |-> [c \in Columns(query) |-> rows[Kth(S, k)][c]]]
  BY <1>2, <1>4 DEF Wanted, Meaning, NamedRows
<1>6. Cardinality(S) = n
  BY <1>1, <1>3
<1>7. ASSUME NEW k \in 1 .. n
      PROVE  rows[Kth(S, k)] = ByName(Rows[Kth(S, k)])
  <2>1. Kth(S, k) \in S
    BY <1>3, <1>6, FirstNode, KthFacts
  <2>2. Kth(S, k) \in DOMAIN Rows
    BY <1>3, <2>1, FirstNode DEF Rows
  <2> QED BY <1>2, <2>2 DEF NamedRows, ByName
<1>8. Wanted = [k \in 1 .. n |-> [c \in Columns(query) |-> rows[Kth(S, k)][c]]]
  BY <1>5, <1>6
<1>9. Wanted = [k \in 1 .. n |-> [c \in Columns(query) |-> ByName(Rows[Kth(S, k)])[c]]]
  BY <1>7, <1>8
<1> QED BY <1>1, <1>3, <1>9

\* What was delivered after n rows is a prefix of what the query asks for, and all of it
\* when no row of the root is left.
LEMMA PrefixFacts ==
  ASSUME Planned, NEW n \in Nat, ResultOK(n)
  PROVE  /\ IsPrefix(Delivered, Wanted)
         /\ (\A r \in RowsAt(1) : r <= n) => Delivered = Wanted
<1>1. PICK m \in Nat : m = Len(result)
  BY DEF ResultOK
<1>2. PICK w \in Nat : w = Cardinality(RowsAt(1))
  BY FirstNode
<1>3. m <= w
  BY <1>1, <1>2, FirstNode, Counting DEF ResultOK
<1>4. PICK g : g = [k \in 1 .. w |-> [c \in Columns(query) |-> ByName(Rows[Kth(RowsAt(1), k)])[c]]]
  OBVIOUS
<1>5. Wanted = g /\ DOMAIN g = 1 .. w /\ Len(g) = w
  BY <1>2, <1>4, WantedFacts
<1>6. DOMAIN result = 1 .. m
  BY <1>1 DEF ResultOK
<1>7. PICK d : d = Delivered
  OBVIOUS
<1>8. d = [k \in 1 .. m |-> Named(Names(1), result[k])]
  BY <1>6, <1>7 DEF Delivered, Names
<1>9. ASSUME NEW k \in 1 .. m
      PROVE  d[k] = g[k]
  <2>1. k \in 1 .. w
    BY <1>3
  <2>2. Named(Names(1), result[k]) = [c \in Columns(query) |-> ByName(Rows[Kth(RowsAt(1), k)])[c]]
    BY <1>1 DEF ResultOK
  <2> QED BY <1>4, <1>8, <2>1, <2>2
<1>10. DOMAIN d = 1 .. m /\ Len(d) = m
  BY <1>8
<1>11. SubSeq(d, 1, Len(d)) = SubSeq(g, 1, Len(d))
  BY <1>3, <1>5, <1>9, <1>10
<1>12. IsPrefix(d, g)
  BY <1>3, <1>5, <1>10, <1>11 DEF IsPrefix
<1>13. ASSUME \A r \in RowsAt(1) : r <= n
       PROVE  d = g
  <2>1. Upto(RowsAt(1), n) = RowsAt(1)
    BY <1>13 DEF Upto
  <2>2. m = w
    BY <1>1, <1>2, <2>1 DEF ResultOK
  <2> QED BY <1>4, <1>8, <1>9, <2>2
<1> QED BY <1>5, <1>7, <1>12, <1>13

\* The meaning of a query does not change while the query does not.
LEMMA Steady ==
  ASSUME query' = query
  PROVE  /\ \A i : RowsAt(i)' = RowsAt(i)
         /\ \A i : Names(i)' = Names(i)
         /\ Limits' = Limits
         /\ \A t : ByName(t)' = ByName(t)
         /\ Wanted' = Wanted
<1>1. NamedRows' = NamedRows
  BY DEF NamedRows
<1>2. Wanted' = Wanted
  BY DEF Wanted
<1> QED BY <1>1, <1>2 DEF RowsAt, Names, Limits, ByName

\* The record that Next() returned is the last that the scan has passed.
RecIsLast ==
  /\ <<rec.page, rec.slot>> \in Places
  /\ \A y \in Places :
       y \in Seen <=> y = <<rec.page, rec.slot>> \/ Earlier(y, <<rec.page, rec.slot>>)

\* The places passed are finitely many, all of them at the end of the scan.
LEMMA SeenFacts ==
  /\ Seen \subseteq Places /\ IsFiniteSet(Seen) /\ Cardinality(Seen) \in Nat
  /\ currPage = InvalidPage => Seen = Places
<1>1. Seen \subseteq Places /\ (currPage = InvalidPage => Seen = Places)
  BY DEF Seen
<1> QED BY <1>1, PlaceFacts, FS_Subset, FS_CardinalityType

\* The record that Next() returned is the row numbered by the places passed.
LEMMA LastRow ==
  ASSUME RecIsLast
  PROVE  /\ Cardinality(Seen) \in 1 .. Cardinality(Places)
         /\ Rows[Cardinality(Seen)] = Decode(rec.page, rec.slot)
<1>1. PICK p : p = <<rec.page, rec.slot>>
  OBVIOUS
<1>2. p \in Places /\ p[1] = rec.page /\ p[2] = rec.slot
  BY <1>1 DEF RecIsLast
<1>3. PICK B : B = {y \in Places : Earlier(y, p)}
  OBVIOUS
<1>4. p \notin B
  BY <1>2, <1>3, PlaceFacts, HeapLinks DEF Earlier
<1>5. PICK T : T = Seen
  OBVIOUS
<1>6. T = B \cup {p}
  BY <1>1, <1>3, <1>5, SeenFacts DEF RecIsLast
<1>7. IsFiniteSet(B) /\ Cardinality(B) \in Nat
  BY <1>3, PlaceFacts, FS_Subset, FS_CardinalityType
<1>8. Cardinality(T) = Cardinality(B) + 1
  BY <1>4, <1>6, <1>7, FS_AddElement
<1>9. Cardinality(B) + 1 \in 1 .. Cardinality(Places) /\ PlaceAt(Cardinality(B) + 1) = p
  BY <1>2, <1>3, PlaceFacts
<1>10. PICK k \in 1 .. Cardinality(Places) : k = Cardinality(T) /\ PlaceAt(k) = p
  BY <1>8, <1>9
<1>11. Rows[k] = Decode(p[1], p[2])
  BY <1>10 DEF Rows
<1> QED BY <1>2, <1>5, <1>10, <1>11

\* The limits of the plan are those of the query.
LEMMA LimitOps ==
  ASSUME Planned
  PROVE  \A j : j \in Limits <=> j \in 1 .. Len(plan) /\ IsLimit(j)
<1> SUFFICES ASSUME NEW j, j \in 1 .. Len(query.nodes)
             PROVE  query.nodes[j].type = "Limit" <=> plan[j].op = "limit"
  BY PlanFacts DEF Limits, IsLimit
<1>1. /\ query.nodes[j].type \in {"Project", "Limit", "Filter"}
      /\ query.nodes[j].type = "Filter" => plan[j] = CompilePredicate(query, j)
      /\ Projection(j) => plan[j] = [op |-> "project", cols |-> ColumnsToPositions(query, j)]
      /\ query.nodes[j].type = "Limit" => plan[j] = [op |-> "limit", n |-> query.nodes[j].limit]
  BY PlanFacts
<1> QED BY <1>1 DEF Projection, CompilePredicate

\* LimitOp j has a row left.
NotExhausted(j) == produced[j] < query.nodes[j].limit

\* Passing a row up from operator i counts it in the limits that let it through.
LEMMA PassedRow ==
  ASSUME Planned, query' = query, NEW n \in Nat, CountsOK(n),
         DOMAIN produced = 1 .. Len(query.nodes),
         NEW i \in 1 .. Len(query.nodes) + 1, PassedFrom(i),
         \A j \in 1 .. Len(query.nodes) + 1 : n + 1 \in RowsAt(j) <=> j >= i
  PROVE  /\ CountsOK(n + 1)'
         /\ DOMAIN produced' = 1 .. Len(query.nodes)
         /\ \A j \in Limits : j < i => produced'[j] = produced[j]
<1>1. PICK N \in Nat : N = Len(query.nodes)
  BY PlanFacts
<1>2. produced' = [j \in 1 .. N |->
                     IF j >= i /\ IsLimit(j) THEN produced[j] + 1 ELSE produced[j]]
  BY <1>1 DEF PassedFrom
<1>3. ASSUME NEW j \in Limits
      PROVE  /\ j < i => produced'[j] = produced[j]
             /\ produced'[j] = Cardinality(Upto(RowsAt(j), n + 1))
  <2>1. j \in 1 .. N /\ IsLimit(j)
    BY <1>1, LimitOps DEF Limits
  <2>2. produced'[j] = IF j >= i THEN produced[j] + 1 ELSE produced[j]
    BY <1>2, <2>1
  <2>3. PICK S : S = RowsAt(j)
    OBVIOUS
  <2>4. S \in SUBSET Nat /\ IsFiniteSet(S)
    BY <2>3, FirstNode
  <2>5. produced[j] = Cardinality(Upto(S, n))
    BY <2>3 DEF CountsOK
  <2>6. n + 1 \in S <=> j >= i
    BY <1>1, <2>1, <2>3
  <2>7. produced'[j] = Cardinality(Upto(S, n + 1))
    BY <2>2, <2>4, <2>5, <2>6, Counting
  <2>8. j < i => ~ (j >= i)
    BY <1>1, <2>1
  <2> QED BY <2>2, <2>3, <2>7, <2>8
<1>4. CountsOK(n + 1)'
  BY <1>3, Steady DEF CountsOK
<1>5. DOMAIN produced' = 1 .. N
  BY <1>2
<1> QED BY <1>1, <1>3, <1>4, <1>5

\* A row that does not reach the root leaves what was delivered right.
LEMMA ResultKept ==
  ASSUME Planned, query' = query, NEW n \in Nat, ResultOK(n), n + 1 \notin RowsAt(1), result' = result
  PROVE  ResultOK(n + 1)'
<1>1. PICK S : S = RowsAt(1)
  OBVIOUS
<1>2. Upto(S, n + 1) = Upto(S, n)
  BY <1>1, FirstNode, Counting
<1>3. Columns(query') = Columns(query)
  OBVIOUS
<1> QED BY <1>1, <1>2, <1>3, Steady DEF ResultOK

\* A row that reaches the root is the next that the query asks for.
LEMMA ResultGrows ==
  ASSUME Planned, query' = query, NEW n \in Nat, ResultOK(n), n + 1 \in RowsAt(1),
         result' = Append(result, Output(Rows[n + 1])[1])
  PROVE  ResultOK(n + 1)'
<1>1. PICK S : S = RowsAt(1)
  OBVIOUS
<1>2. S \in SUBSET Nat /\ IsFiniteSet(S) /\ n + 1 \in S /\ n + 1 \in 1 .. Cardinality(Places)
  BY <1>1, FirstNode
<1>3. /\ Cardinality(Upto(S, n + 1)) = Cardinality(Upto(S, n)) + 1
      /\ Kth(S, Cardinality(Upto(S, n)) + 1) = n + 1
  BY <1>2, Counting
<1>4. PICK x : x = Output(Rows[n + 1])[1]
  OBVIOUS
<1>5. PICK T : result \in Seq(T)
  BY DEF ResultOK
<1>6. PICK m \in Nat : m = Len(result) /\ m = Cardinality(Upto(S, n))
  BY <1>1, <1>5 DEF ResultOK
<1>7. /\ result' \in Seq(T \cup {x})
      /\ Len(result') = m + 1
      /\ result'[m + 1] = x
      /\ \A k \in 1 .. m : result'[k] = result[k]
  <2>1. result \in Seq(T \cup {x})
    BY <1>5
  <2>2. PICK r \in Seq(T \cup {x}) : r = result
    BY <2>1
  <2>3. PICK s : s = Append(r, x)
    OBVIOUS
  <2>4. s \in Seq(T \cup {x}) /\ Len(s) = Len(r) + 1
        /\ s[Len(r) + 1] = x /\ \A k \in 1 .. Len(r) : s[k] = r[k]
    BY <2>3
  <2>5. Len(r) = m /\ result' = s
    BY <1>4, <1>6, <2>2, <2>3
  <2> QED BY <2>2, <2>4, <2>5
<1>8. Named(Names(1), x) = [c \in Columns(query) |-> ByName(Rows[n + 1])[c]]
  <2>1. PICK t : t = Rows[n + 1]
    OBVIOUS
  <2>2. DOMAIN t = DOMAIN Schema[query.table]
    BY <1>2, <2>1, RowFacts
  <2> QED BY <1>4, <2>1, <2>2, DeliveredRow
<1>9. ASSUME NEW k \in 1 .. m + 1
      PROVE  Named(Names(1), result'[k]) = [c \in Columns(query) |-> ByName(Rows[Kth(S, k)])[c]]
  <2>1. CASE k = m + 1
    BY <1>3, <1>6, <1>7, <1>8, <2>1
  <2>2. CASE k # m + 1
    <3>1. k \in 1 .. m
      BY <2>2
    <3> QED BY <1>1, <1>6, <1>7, <3>1 DEF ResultOK
  <2> QED BY <2>1, <2>2
<1>10. Columns(query') = Columns(query)
  OBVIOUS
<1> QED BY <1>1, <1>3, <1>6, <1>7, <1>9, <1>10, Steady DEF ResultOK

----------------------------------------------------------------------------
(* The invariant and its steps                                             *)

Active == phase \in {"open", "pull", "scan"}

\* The rows that the operators are done with.
Done == IF phase = "scan" /\ pc # "getNext" THEN Cardinality(Seen) - 1 ELSE Cardinality(Seen)

\* At the record that the scan returned no limit is exhausted, and before an
\* operator that pulls again none that it was pulled through.
Unlost ==
  /\ CountsOK(Done) /\ ResultOK(Done)
  /\ \A j \in Limits : phase = "scan" \/ j < from => NotExhausted(j)

PhaseOK ==
  /\ query \in Plans
  /\ phase \in {"query", "refused", "new", "open", "pull", "scan", "done"}
  /\ phase \in {"query", "refused", "new"} => result = <<>>
  /\ phase \notin {"query", "refused"} => Planned /\ DOMAIN produced = 1 .. Len(query.nodes)
  /\ phase = "open" => pc \in {"advance", "inspect", "idle", "other"} /\ from = 1
  /\ phase = "pull" => pc = "idle"
  /\ phase = "scan" => pc \in {"getNext", "advance", "inspect", "idle"}
  /\ Active => from \in 1 .. Len(query.nodes) + 1

ExecInv ==
  /\ ScanPos /\ PhaseOK
  /\ phase = "scan" /\ pc # "getNext" => RecIsLast
  /\ Active /\ ~ lost => Unlost
  /\ phase = "done" /\ ~ lost => Delivered = Wanted

\* The rows that the operators are done with are counted by a number.
LEMMA DoneNat == ASSUME ExecInv PROVE Done \in Nat
<1>1. CASE phase = "scan" /\ pc # "getNext"
  <2>1. Cardinality(Seen) \in 1 .. Cardinality(Places) /\ Cardinality(Places) \in Nat
    BY <1>1, LastRow, PlaceFacts DEF ExecInv
  <2> QED BY <1>1, <2>1 DEF Done
<1>2. CASE ~ (phase = "scan" /\ pc # "getNext")
  BY <1>2, SeenFacts DEF Done
<1> QED BY <1>1, <1>2

\* The scan stays where it is while it takes no step.
LEMMA ScanKeeps ==
  ASSUME ScanPos, UNCHANGED scanVars
  PROVE  ScanPos' /\ Seen' = Seen /\ UNCHANGED <<pc, hasNext, rec>>
<1>1. ScanPos'
  BY ScanPosNext
<1> QED BY <1>1 DEF scanVars, iterVars, Seen

\* What the invariant says of a plan stays as it is while no operator moves.
LEMMA ExecKeeps ==
  ASSUME PhaseOK, UNCHANGED <<query, plan, produced, result>>
  PROVE  /\ \A n \in Nat : CountsOK(n) => CountsOK(n)'
         /\ \A n \in Nat : ResultOK(n) => ResultOK(n)'
         /\ Limits' = Limits /\ \A j : NotExhausted(j)' <=> NotExhausted(j)
         /\ Planned' <=> Planned
         /\ Delivered = Wanted => Delivered' = Wanted'
<1>1. Columns(query') = Columns(query)
  OBVIOUS
<1>2. Delivered' = Delivered
  BY DEF Delivered
<1> QED
  BY <1>1, <1>2, Steady DEF CountsOK, ResultOK, NotExhausted, Planned

\* The planner gives the operators their starting state.
LEMMA PlanQueryInv ==
  ASSUME ExecInv, PlanQuery
  PROVE  ExecInv'
<1>1. ScanPos'
  BY ScanKeeps DEF ExecInv, PlanQuery
<1>2. query' = query /\ query \in Plans /\ result' = <<>> /\ phase' \in {"new", "refused"}
  BY DEF ExecInv, PhaseOK, PlanQuery
<1>3. ASSUME phase' = "new"
      PROVE  Planned' /\ DOMAIN produced' = 1 .. Len(query'.nodes)
  <2>1. /\ query.table \in DOMAIN Schema /\ plan' = Build(query)
        /\ produced' = [i \in 1 .. Len(plan') |-> 0]
    BY <1>3 DEF PlanQuery
  <2>2. Len(plan') = Len(query.nodes)
    BY <1>2, <2>1, BuildFacts
  <2> QED BY <1>2, <2>1, <2>2 DEF Planned
<1> QED BY <1>1, <1>2, <1>3 DEF ExecInv, PhaseOK, Active

\* Open() starts all of it again: the scan, every limit, the result.
LEMMA OpenInv ==
  ASSUME ExecInv, Open
  PROVE  ExecInv'
<1>1. ScanPos' /\ Seen' = {}
  BY BeginPos DEF ExecInv, Open
<1>2. /\ query' = query /\ plan' = plan /\ phase' = "open" /\ from' = 1 /\ result' = <<>>
      /\ produced' = [i \in 1 .. Len(plan) |-> 0] /\ pc' = "advance"
  BY DEF Open, Begin
<1>3. Planned /\ query \in Plans
  BY DEF ExecInv, PhaseOK, Open
<1>4. PICK N \in Nat : N = Len(query.nodes) /\ Len(plan) = N
  BY <1>3, PlanFacts
<1>5. Planned'
  BY <1>2, <1>3 DEF Planned
<1>6. Done' = 0
  <2>1. Done' = Cardinality(Seen')
    BY <1>2 DEF Done
  <2> QED BY <1>1, <2>1, FS_EmptySet
<1>7. \A n : CountsOK(n)' <=> \A j \in Limits : produced'[j] = Cardinality(Upto(RowsAt(j), n))
  BY <1>2, Steady DEF CountsOK
<1>8. ASSUME NEW S \in SUBSET Nat, S \subseteq 1 .. Cardinality(Places)
      PROVE  Cardinality(Upto(S, 0)) = 0
  <2>1. Upto(S, 0) = {}
    <3>1. \A x \in S : x \in 1 .. Cardinality(Places)
      BY <1>8
    <3>2. PICK m \in Nat : m = Cardinality(Places)
      BY PlaceFacts
    <3>3. \A x \in S : ~ (x <= 0)
      BY <3>1, <3>2
    <3> QED BY <3>3 DEF Upto
  <2> QED BY <2>1, FS_EmptySet
<1>9. CountsOK(0)'
  <2>1. ASSUME NEW j \in Limits PROVE produced'[j] = Cardinality(Upto(RowsAt(j), 0))
    <3>1. j \in 1 .. N
      BY <1>4 DEF Limits
    <3>2. PICK S : S = RowsAt(j)
      OBVIOUS
    <3>3. Cardinality(Upto(S, 0)) = 0
      BY <1>3, <1>8, <3>2, FirstNode
    <3> QED BY <1>2, <1>4, <3>1, <3>2, <3>3
  <2> QED BY <1>7, <2>1
<1>10. ResultOK(0)'
  <2>1. PICK S : S = RowsAt(1)
    OBVIOUS
  <2>2. Cardinality(Upto(S, 0)) = 0
    BY <1>3, <1>8, <2>1, FirstNode
  <2>3. <<>> \in Seq({}) /\ Len(<<>>) = 0
    OBVIOUS
  <2>4. RowsAt(1)' = S
    BY <1>2, <2>1, Steady
  <2> QED BY <1>2, <2>2, <2>3, <2>4 DEF ResultOK
<1>11. \A j \in Limits' : ~ (j < from')
  <2>1. Limits' = Limits
    BY <1>2, Steady
  <2> QED BY <1>2, <1>4, <2>1 DEF Limits
<1>12. Unlost'
  BY <1>2, <1>6, <1>9, <1>10, <1>11 DEF Unlost
<1>13. DOMAIN produced' = 1 .. Len(query'.nodes) /\ from' \in 1 .. Len(query'.nodes) + 1
  BY <1>2, <1>4
<1> QED BY <1>1, <1>2, <1>3, <1>5, <1>12, <1>13 DEF ExecInv, PhaseOK, Active

\* A pull that reaches the scan meets no exhausted limit.
LEMMA PullInv ==
  ASSUME ExecInv, Pull
  PROVE  ExecInv'
<1>1. ScanPos' /\ Seen' = Seen
  BY RequestPos DEF ExecInv, Pull
<1>2. /\ UNCHANGED <<query, plan, from, produced, result, lost>> /\ phase' = "scan"
      /\ ~ Exhausted(from) /\ phase \in {"open", "pull"}
  BY DEF Pull, Pulling
<1>3. pc' = "getNext"
  <2>1. pc' # "failed"
    BY <1>1 DEF ScanPos, ScanInv
  <2> QED BY <2>1 DEF Pull, NextRequest, Requests
<1>4. PhaseOK /\ Planned /\ query \in Plans
  BY <1>2 DEF ExecInv, PhaseOK
<1>5. Planned' /\ Limits' = Limits /\ \A j : NotExhausted(j)' <=> NotExhausted(j)
  BY <1>2, <1>4, ExecKeeps
<1>6. ASSUME ~ lost
      PROVE  Unlost'
  <2>1. Unlost
    BY <1>2, <1>6 DEF ExecInv, Active
  <2>2. PICK n \in Nat : n = Cardinality(Seen)
    BY SeenFacts
  <2>3. Done = n /\ Done' = n
    BY <1>1, <1>2, <1>3, <2>2 DEF Done
  <2>4. CountsOK(n) /\ ResultOK(n)
    BY <2>1, <2>3 DEF Unlost
  <2>5. CountsOK(n)' /\ ResultOK(n)'
    BY <1>2, <1>4, <2>4, ExecKeeps
  <2>6. ASSUME NEW j \in Limits
        PROVE  NotExhausted(j)
    <3>1. CASE j < from
      BY <2>1, <3>1 DEF Unlost
    <3>2. CASE ~ (j < from)
      <4>1. j \in 1 .. Len(plan) /\ IsLimit(j) /\ Len(plan) \in Nat
        BY <1>4, LimitOps, PlanFacts
      <4>2. from \in Nat
        BY <1>2, <1>4, PlanFacts DEF PhaseOK, Active
      <4>3. j \in from .. Len(plan)
        BY <3>2, <4>1, <4>2
      <4>4. ~ (produced[j] >= plan[j].n)
        BY <1>2, <4>1, <4>3 DEF Exhausted
      <4>5. /\ produced[j] \in Nat /\ query.nodes[j].limit \in Nat
            /\ plan[j].n = query.nodes[j].limit
        BY <1>4, <2>4, LimitSteps DEF CountsOK
      <4> QED BY <4>4, <4>5 DEF NotExhausted
    <3> QED BY <3>1, <3>2
  <2>7. \A j \in Limits' : NotExhausted(j)'
    BY <1>5, <2>6
  <2> QED BY <2>3, <2>5, <2>7 DEF Unlost
<1>7. PhaseOK'
  BY <1>2, <1>3, <1>4, <1>5 DEF PhaseOK, Active
<1> QED BY <1>1, <1>2, <1>3, <1>6, <1>7 DEF ExecInv

\* When a limit is exhausted or the scan has ended, no row of the root is left.
LEMMA EndsInv ==
  ASSUME ExecInv, Ends
  PROVE  ExecInv'
<1>1. ScanPos' /\ Seen' = Seen /\ UNCHANGED <<pc, hasNext, rec>>
  BY ScanKeeps DEF ExecInv, Ends
<1>2. /\ UNCHANGED <<query, plan, from, produced, result, lost>> /\ phase' = "done"
      /\ Exhausted(from) \/ ~ hasNext
      /\ phase \in {"open", "pull"} /\ pc = "idle"
  BY DEF Ends, Pulling
<1>3. PhaseOK /\ Planned /\ query \in Plans
  BY <1>2 DEF ExecInv, PhaseOK
<1>4. Planned'
  BY <1>2, <1>3, ExecKeeps
<1>5. ASSUME ~ lost
      PROVE  Delivered = Wanted
  <2>1. Unlost
    BY <1>2, <1>5 DEF ExecInv, Active
  <2>2. PICK n \in Nat : n = Cardinality(Seen)
    BY SeenFacts
  <2>3. Done = n
    BY <1>2, <2>2 DEF Done
  <2>4. CountsOK(n) /\ ResultOK(n)
    BY <2>1, <2>3 DEF Unlost
  <2>5. \A r \in RowsAt(1) : r <= n
    <3>1. CASE Exhausted(from)
      <4>1. PICK j \in from .. Len(plan) : IsLimit(j) /\ produced[j] >= plan[j].n
        BY <3>1 DEF Exhausted
      <4>2. from \in 1 .. Len(query.nodes) + 1 /\ Len(plan) = Len(query.nodes) /\ Len(plan) \in Nat
        BY <1>2, <1>3, PlanFacts DEF PhaseOK, Active
      <4>3. j \in 1 .. Len(plan)
        BY <4>1, <4>2
      <4>4. j \in Limits
        BY <1>3, <4>1, <4>3, LimitOps
      <4>5. produced[j] = Cardinality(Upto(RowsAt(j), n)) /\ plan[j].n = query.nodes[j].limit
        BY <1>3, <2>4, <4>4, LimitSteps DEF CountsOK
      <4>6. \A r \in RowsAt(j) : r <= n
        BY <1>3, <4>1, <4>4, <4>5, LimitSteps
      <4>7. RowsAt(1) \subseteq RowsAt(j)
        BY <1>3, <4>4, FirstNode
      <4> QED BY <4>6, <4>7
    <3>2. CASE ~ hasNext
      <4>1. currPage = InvalidPage
        BY <1>2, <3>2 DEF ExecInv, ScanPos
      <4>2. n = Cardinality(Places)
        BY <2>2, <4>1, SeenFacts
      <4>3. RowsAt(1) \subseteq 1 .. n
        BY <1>3, <4>2, FirstNode
      <4> QED BY <4>3
    <3> QED BY <1>2, <3>1, <3>2
  <2> QED BY <1>3, <2>4, <2>5, PrefixFacts
<1>6. ~ lost => Delivered' = Wanted'
  BY <1>2, <1>3, <1>5, ExecKeeps
<1>7. PhaseOK'
  BY <1>2, <1>3, <1>4 DEF PhaseOK, Active
<1> QED BY <1>1, <1>2, <1>6, <1>7 DEF ExecInv, Active

\* The operators have the next row of the heap, unless it was lost.
LEMMA RowInHand ==
  ASSUME ExecInv, phase = "scan", pc = "idle"
  PROVE  \E n \in Nat :
           /\ n + 1 = Cardinality(Seen) /\ Done = n
           /\ n + 1 \in 1 .. Cardinality(Places)
           /\ ~ Lost => Decoded = Rows[n + 1]
           /\ ~ lost => CountsOK(n) /\ ResultOK(n)
<1>1. RecIsLast /\ (~ lost => Unlost)
  BY DEF ExecInv, Active
<1>2. PICK k : k = Cardinality(Seen)
  OBVIOUS
<1>3. /\ k \in 1 .. Cardinality(Places) /\ Cardinality(Places) \in Nat
      /\ Rows[k] = Decode(rec.page, rec.slot)
  BY <1>1, <1>2, LastRow, PlaceFacts
<1>4. PICK n \in Nat : k = n + 1
  BY <1>3
<1>5. Done = n
  BY <1>2, <1>4 DEF Done
<1>6. ~ Lost => Decoded = Rows[n + 1]
  BY <1>3, <1>4 DEF Lost, Decoded
<1> QED BY <1>1, <1>2, <1>3, <1>4, <1>5, <1>6 DEF Unlost

\* The row in hand reaches node i exactly when no operator from there down rejects it.
LEMMA RowReaches ==
  ASSUME ExecInv, phase = "scan", pc = "idle", ~ lost, NEW n \in Nat, Done = n,
         n + 1 \in 1 .. Cardinality(Places), Decoded = Rows[n + 1]
  PROVE  \A i \in 1 .. Len(query.nodes) + 1 :
           n + 1 \in RowsAt(i) <=> \A j \in Rejecting(Decoded) : j < i
<1>1. Unlost /\ Planned
  BY DEF ExecInv, Active, PhaseOK
<1>2. \A j \in Limits : Cardinality(Upto(RowsAt(j), n)) < query.nodes[j].limit
  BY <1>1 DEF Unlost, CountsOK, NotExhausted
<1> QED BY <1>1, <1>2, NextRow

\* A row rejected by a filter counts in the limits below it and in none above.
LEMMA RejectInv ==
  ASSUME ExecInv, Reject
  PROVE  ExecInv'
<1>1. ScanPos' /\ Seen' = Seen /\ UNCHANGED <<pc, hasNext, rec>>
  BY ScanKeeps DEF ExecInv, Reject
<1>2. /\ phase = "scan" /\ pc = "idle" /\ phase' = "pull"
      /\ UNCHANGED <<query, plan, result>> /\ lost' = (lost \/ Lost)
  BY DEF Reject
<1>3. PhaseOK /\ Planned /\ query \in Plans /\ DOMAIN produced = 1 .. Len(query.nodes)
  BY <1>2 DEF ExecInv, PhaseOK
<1>4. PICK i \in Rejecting(Decoded) :
        /\ \A j \in Rejecting(Decoded) : j <= i
        /\ from' = i + 1 /\ PassedFrom(i + 1)
  BY DEF Reject
<1>5. PICK N \in Nat : N = Len(query.nodes) /\ Len(plan) = N
  BY <1>3, PlanFacts
<1>6. i \in 1 .. N /\ \A j \in Rejecting(Decoded) : j \in 1 .. N
  BY <1>4, <1>5 DEF Rejecting
<1>7. PICK n \in Nat :
           /\ n + 1 = Cardinality(Seen) /\ Done = n
           /\ n + 1 \in 1 .. Cardinality(Places)
           /\ ~ Lost => Decoded = Rows[n + 1]
           /\ ~ lost => CountsOK(n) /\ ResultOK(n)
  BY <1>2, RowInHand
<1>8. Done' = n + 1
  BY <1>1, <1>2, <1>7 DEF Done
<1>9. Planned' /\ from' \in 1 .. N + 1
  BY <1>2, <1>3, <1>4, <1>6 DEF Planned
<1>10. DOMAIN produced' = 1 .. N
  BY <1>3, <1>4, <1>5 DEF PassedFrom
<1>11. ASSUME ~ lost'
       PROVE  Unlost'
  <2>1. ~ lost /\ Decoded = Rows[n + 1] /\ CountsOK(n) /\ ResultOK(n)
    BY <1>2, <1>7, <1>11
  <2>2. \A j \in 1 .. N + 1 : n + 1 \in RowsAt(j) <=> j >= i + 1
    <3>1. \A j \in 1 .. N + 1 : n + 1 \in RowsAt(j) <=> \A l \in Rejecting(Decoded) : l < j
      BY <1>2, <1>5, <1>7, <2>1, RowReaches
    <3>2. \A j \in 1 .. N + 1 : (\A l \in Rejecting(Decoded) : l < j) <=> j >= i + 1
      BY <1>4, <1>6
    <3> QED BY <3>1, <3>2
  <2>3. i + 1 \in 1 .. Len(query.nodes) + 1
    BY <1>5, <1>6
  <2>4. CountsOK(n + 1)' /\ \A j \in Limits : j < i + 1 => produced'[j] = produced[j]
    BY <1>2, <1>3, <1>4, <1>5, <2>1, <2>2, <2>3, PassedRow
  <2>5. n + 1 \notin RowsAt(1)
    BY <1>6, <2>2
  <2>6. ResultOK(n + 1)'
    BY <1>2, <1>3, <2>1, <2>5, ResultKept
  <2>7. \A j \in Limits : NotExhausted(j)
    BY <1>2, <2>1 DEF ExecInv, Active, Unlost
  <2>8. Limits' = Limits
    BY <1>2, Steady
  <2>9. \A j \in Limits' : j < from' => NotExhausted(j)'
    BY <1>2, <1>4, <2>4, <2>7, <2>8 DEF NotExhausted
  <2> QED BY <1>2, <1>8, <2>4, <2>6, <2>9 DEF Unlost
<1>12. PhaseOK'
  BY <1>1, <1>2, <1>3, <1>5, <1>9, <1>10 DEF PhaseOK, Active
<1> QED BY <1>1, <1>2, <1>11, <1>12 DEF ExecInv

\* A row that nothing rejects counts in every limit and is delivered.
LEMMA DeliverInv ==
  ASSUME ExecInv, Deliver
  PROVE  ExecInv'
<1>1. ScanPos' /\ Seen' = Seen /\ UNCHANGED <<pc, hasNext, rec>>
  BY ScanKeeps DEF ExecInv, Deliver
<1>2. /\ phase = "scan" /\ pc = "idle" /\ phase' = "open" /\ Rejecting(Decoded) = {}
      /\ from' = 1 /\ PassedFrom(1)
      /\ UNCHANGED <<query, plan>> /\ lost' = (lost \/ Lost)
      /\ result' = Append(result, Output(Decoded)[1])
  BY DEF Deliver
<1>3. PhaseOK /\ Planned /\ query \in Plans /\ DOMAIN produced = 1 .. Len(query.nodes)
  BY <1>2 DEF ExecInv, PhaseOK
<1>4. PICK N \in Nat : N = Len(query.nodes)
  BY <1>3, PlanFacts
<1>5. PICK n \in Nat :
           /\ n + 1 = Cardinality(Seen) /\ Done = n
           /\ n + 1 \in 1 .. Cardinality(Places)
           /\ ~ Lost => Decoded = Rows[n + 1]
           /\ ~ lost => CountsOK(n) /\ ResultOK(n)
  BY <1>2, RowInHand
<1>6. Done' = n + 1
  BY <1>1, <1>2, <1>5 DEF Done
<1>7. Planned' /\ from' \in 1 .. N + 1
  BY <1>2, <1>3 DEF Planned
<1>8. DOMAIN produced' = 1 .. N
  BY <1>2, <1>3, <1>4 DEF PassedFrom
<1>9. ASSUME ~ lost'
      PROVE  Unlost'
  <2>1. ~ lost /\ Decoded = Rows[n + 1] /\ CountsOK(n) /\ ResultOK(n)
    BY <1>2, <1>5, <1>9
  <2>2. \A j \in 1 .. N + 1 : n + 1 \in RowsAt(j)
    BY <1>2, <1>4, <1>5, <2>1, RowReaches
  <2>3. 1 \in 1 .. Len(query.nodes) + 1 /\ \A j \in 1 .. Len(query.nodes) + 1 : n + 1 \in RowsAt(j) <=> j >= 1
    BY <1>4, <2>2
  <2>4. CountsOK(n + 1)'
    BY <1>2, <1>3, <2>1, <2>3, PassedRow
  <2>5. n + 1 \in RowsAt(1)
    BY <1>4, <2>2
  <2>6. ResultOK(n + 1)'
    BY <1>2, <1>3, <2>1, <2>5, ResultGrows
  <2>7. Limits' = Limits
    BY <1>2, Steady
  <2>8. \A j \in Limits' : ~ (j < from')
    BY <1>2, <1>4, <2>7 DEF Limits
  <2> QED BY <1>2, <1>6, <2>4, <2>6, <2>8 DEF Unlost
<1>10. PhaseOK'
  BY <1>1, <1>2, <1>3, <1>4, <1>7, <1>8 DEF PhaseOK, Active
<1> QED BY <1>1, <1>2, <1>9, <1>10 DEF ExecInv

\* A step of the iterator, or of another caller, while a plan is open.
LEMMA WithinInv ==
  ASSUME ExecInv, UNCHANGED execVars,
         \/ phase \in {"open", "scan"} /\ InCall
         \/ phase = "open" /\ OtherRequest
  PROVE  ExecInv'
<1>1. UNCHANGED <<query, plan, phase, from, produced, result, lost>>
  BY DEF execVars
<1>2. PhaseOK /\ ScanPos /\ Planned /\ Active /\ query \in Plans
  BY DEF ExecInv, PhaseOK, Active
<1>3. Planned' /\ Limits' = Limits /\ \A j : NotExhausted(j)' <=> NotExhausted(j)
  BY <1>1, <1>2, ExecKeeps
<1>4. /\ ScanPos' /\ Done' = Done
      /\ phase = "open" => pc' \in {"advance", "inspect", "idle", "other"}
      /\ phase = "scan" => pc' \in {"advance", "inspect", "idle"} /\ RecIsLast'
  <2>1. CASE phase = "scan" /\ NextRelease
    <3>1. /\ ScanPos'
          /\ rec'.page = currPage /\ rec'.slot = currSlot
          /\ <<currPage, currSlot>> \in Places
          /\ \A y \in Places : y \in Seen <=> Earlier(y, <<currPage, currSlot>>)
          /\ \A y \in Places : y \in Seen' <=> y \in Seen \/ y = <<currPage, currSlot>>
      BY <1>2, <2>1, ReturnPos
    <3>2. RecIsLast'
      BY <3>1 DEF RecIsLast
    <3>3. pc = "getNext" /\ pc' = "advance"
      BY <2>1 DEF NextRelease
    <3>4. PICK p : p = <<currPage, currSlot>>
      OBVIOUS
    <3>5. PICK T : T = Seen
      OBVIOUS
    <3>6. Seen' \subseteq Places
      BY DEF Seen
    <3>7. Seen' = T \cup {p} /\ p \notin T
      <4>1. ~ Earlier(p, p)
        BY <3>1, <3>4, PlaceFacts, HeapLinks DEF Earlier
      <4> QED BY <3>1, <3>4, <3>5, <3>6, <4>1, SeenFacts
    <3>8. Cardinality(Seen') = Cardinality(Seen) + 1 /\ Cardinality(Seen) \in Nat
      BY <3>5, <3>7, SeenFacts, FS_AddElement
    <3>9. Done' = Done
      BY <1>1, <2>1, <3>3, <3>8 DEF Done
    <3> QED BY <2>1, <3>1, <3>2, <3>3, <3>9
  <2>2. CASE phase = "scan" /\ ~ NextRelease
    <3>1. AdvanceRequest \/ AdvanceFound \/ AdvanceToNextPage \/ AdvanceEnds
      BY <1>2, <2>2 DEF PhaseOK, InCall, DerefRelease, OtherRelease
    <3>2. ScanPos' /\ Seen' = Seen
      BY <1>2, <3>1, RequestPos, FoundPos, NextPagePos, EndsPos
    <3>3. /\ rec' = rec /\ pc # "getNext"
          /\ pc' \in {"advance", "inspect", "idle", "failed"}
      BY <3>1 DEF AdvanceRequest, AdvanceFound, AdvanceToNextPage, AdvanceEnds, Requests
    <3>4. pc' # "failed"
      BY <3>2 DEF ScanPos, ScanInv
    <3>5. RecIsLast'
      BY <2>2, <3>2, <3>3 DEF ExecInv, RecIsLast
    <3>6. pc' # "getNext" /\ Done' = Done
      BY <1>1, <3>2, <3>3 DEF Done
    <3> QED BY <2>2, <3>2, <3>3, <3>4, <3>5, <3>6
  <2>3. CASE phase = "open"
    <3>1. AdvanceRequest \/ AdvanceFound \/ AdvanceToNextPage \/ AdvanceEnds \/ OtherRequest
            \/ OtherRelease
      BY <1>2, <2>3 DEF PhaseOK, InCall, DerefRelease, NextRelease
    <3>2. ScanPos' /\ Seen' = Seen
      BY <1>2, <3>1, RequestPos, FoundPos, NextPagePos, EndsPos
    <3>3. pc' \in {"advance", "inspect", "idle", "other", "failed"}
      BY <3>1 DEF AdvanceRequest, AdvanceFound, AdvanceToNextPage, AdvanceEnds, Requests,
                  OtherRequest, OtherRelease
    <3>4. pc' # "failed"
      BY <3>2 DEF ScanPos, ScanInv
    <3>5. Done' = Done
      BY <1>1, <2>3, <3>2 DEF Done
    <3> QED BY <2>3, <3>2, <3>3, <3>4, <3>5
  <2> QED BY <2>1, <2>2, <2>3
<1>5. ASSUME ~ lost
      PROVE  Unlost'
  <2>1. Unlost
    BY <1>2, <1>5 DEF ExecInv
  <2>2. PICK n : n = Done
    OBVIOUS
  <2>3. n \in Nat
    BY <2>2, DoneNat
  <2>4. CountsOK(n) /\ ResultOK(n)
    BY <2>1, <2>2 DEF Unlost
  <2>5. CountsOK(n)' /\ ResultOK(n)'
    BY <1>1, <1>2, <2>3, <2>4, ExecKeeps
  <2>6. \A j \in Limits' : phase' = "scan" \/ j < from' => NotExhausted(j)'
    BY <1>1, <1>3, <2>1 DEF Unlost
  <2> QED BY <1>4, <2>2, <2>5, <2>6 DEF Unlost
<1>6. PhaseOK'
  BY <1>1, <1>2, <1>3, <1>4 DEF PhaseOK, Active
<1> QED BY <1>1, <1>2, <1>4, <1>5, <1>6 DEF ExecInv, Active

\* No step of a scan outside a plan is a step of the plan.
LEMMA OutsideInv ==
  ASSUME ExecInv, UNCHANGED execVars,
         \/ phase \in {"new", "refused", "done"} /\ ScanNext
         \/ UNCHANGED scanVars
  PROVE  ExecInv'
<1>1. UNCHANGED <<query, plan, phase, from, produced, result, lost>>
  BY DEF execVars
<1>2. PhaseOK /\ ScanPos /\ query \in Plans
  BY DEF ExecInv, PhaseOK
<1>3. /\ Planned' <=> Planned
      /\ Limits' = Limits /\ \A j : NotExhausted(j)' <=> NotExhausted(j)
      /\ Delivered = Wanted => Delivered' = Wanted'
  BY <1>1, <1>2, ExecKeeps
<1>4. ScanPos'
  BY <1>2, ScanPosNext
<1>5. CASE phase \in {"new", "refused", "done"} /\ ScanNext
  <2>1. PhaseOK'
    BY <1>1, <1>2, <1>3, <1>5 DEF PhaseOK, Active
  <2> QED BY <1>1, <1>3, <1>4, <1>5, <2>1 DEF ExecInv, Active
<1>6. CASE UNCHANGED scanVars
  <2>1. Seen' = Seen /\ UNCHANGED <<pc, hasNext, rec>>
    BY <1>2, <1>6, ScanKeeps
  <2>2. PhaseOK'
    BY <1>1, <1>2, <1>3, <2>1 DEF PhaseOK, Active
  <2>3. RecIsLast => RecIsLast'
    BY <2>1 DEF RecIsLast
  <2>4. ASSUME Active, Unlost
        PROVE  Unlost'
    <3>1. PICK n : n = Done
      OBVIOUS
    <3>2. n \in Nat
      BY <3>1, DoneNat
    <3>3. Done' = n
      BY <1>1, <2>1, <3>1 DEF Done
    <3>4. CountsOK(n)' /\ ResultOK(n)'
      BY <1>1, <1>2, <2>4, <3>1, <3>2, ExecKeeps DEF Unlost
    <3>5. \A j \in Limits' : phase' = "scan" \/ j < from' => NotExhausted(j)'
      BY <1>1, <1>3, <2>4 DEF Unlost
    <3> QED BY <3>3, <3>4, <3>5 DEF Unlost
  <2> QED BY <1>1, <1>3, <1>4, <2>1, <2>2, <2>3, <2>4 DEF ExecInv, Active
<1> QED BY <1>5, <1>6

\* The invariant holds before the first query.
LEMMA ExecInitInv == ExecInit => ExecInv
<1> SUFFICES ASSUME ExecInit PROVE ExecInv
  OBVIOUS
<1>1. ScanPos
  BY InitPos DEF ExecInit
<1> QED BY <1>1 DEF ExecInit, ExecInv, PhaseOK, Active

\* Every step keeps the invariant.
LEMMA ExecNextInv == ExecInv /\ [ExecNext]_allVars => ExecInv'
<1> SUFFICES ASSUME ExecInv, [ExecNext]_allVars
             PROVE  ExecInv'
  OBVIOUS
<1>1. CASE phase \in {"open", "scan"} /\ Within(InCall)
  BY <1>1, WithinInv DEF Within
<1>2. CASE phase = "open" /\ Within(OtherRequest)
  BY <1>2, WithinInv DEF Within
<1>3. CASE phase \in {"new", "refused", "done"} /\ Within(ScanNext)
  BY <1>3, OutsideInv DEF Within
<1>4. CASE UNCHANGED allVars
  BY <1>4, OutsideInv DEF allVars
<1> QED
  BY <1>1, <1>2, <1>3, <1>4, PlanQueryInv, OpenInv, PullInv, EndsInv, RejectInv, DeliverInv
  DEF ExecNext

\* The invariant says of the delivered rows what is claimed of them.
LEMMA AnswerSoFar == ExecInv => ResultIsQuery
<1> SUFFICES ASSUME ExecInv, ~ lost
             PROVE  /\ result # <<>> => IsPrefix(Delivered, Wanted)
                    /\ phase = "done" => Delivered = Wanted
  BY DEF ResultIsQuery
<1>1. CASE Active
  <2>1. Planned /\ Unlost
    BY <1>1 DEF ExecInv, PhaseOK, Active
  <2>2. PICK n : n = Done
    OBVIOUS
  <2>3. n \in Nat
    BY <2>2, DoneNat
  <2>4. ResultOK(n)
    BY <2>1, <2>2 DEF Unlost
  <2>5. IsPrefix(Delivered, Wanted)
    BY <2>1, <2>3, <2>4, PrefixFacts
  <2> QED BY <1>1, <2>5 DEF Active
<1>2. CASE phase = "done"
  <2>1. Delivered = Wanted /\ Planned
    BY <1>2 DEF ExecInv, PhaseOK
  <2>2. PICK w \in Nat : w = Cardinality(RowsAt(1))
    BY <2>1, FirstNode
  <2>3. PICK g : g = Wanted
    OBVIOUS
  <2>4. Len(g) = w
    BY <2>1, <2>2, <2>3, WantedFacts
  <2>5. IsPrefix(g, g)
    BY <2>4 DEF IsPrefix
  <2> QED BY <2>1, <2>3, <2>5
<1>3. CASE phase \in {"query", "refused", "new"}
  BY <1>3 DEF ExecInv, PhaseOK
<1> QED BY <1>1, <1>2, <1>3 DEF ExecInv, PhaseOK, Active

\* ExecInv is an invariant of every plan, of every heap and of every pool.
THEOREM ExecInvariant == ExecSpec => []ExecInv
BY ExecInitInv, ExecNextInv, PTL DEF ExecSpec

\* PhysicalPlanner::Build() and the operators' Open() and Next(): a plan delivers what its
\* query asks for of the rows of the heap, in order and no row twice, each time it is
\* opened, whatever the pool evicts under it and other callers do between two pulls,
\* unless a record was evicted between Next() and Decode().
THEOREM QueriesAnswered == ExecSpec => []ResultIsQuery
BY ExecInvariant, AnswerSoFar, PTL

\* Executing plans pins no page between two calls, one page within one, and no request()
\* of theirs throws (HeapIterator::Next() and Advance() under SeqScanOp).
THEOREM QueriesLeakNoPin == ExecSpec => []NoPinLeak
<1>1. ExecInv => NoPinLeak
  BY ConstantFacts DEF ExecInv, ScanPos, ScanInv, AllUnpinned, OnlyPin, NoPinLeak
<1> QED BY <1>1, ExecInvariant, PTL
=============================================================================
