-------------------------- MODULE DbServer_proofs --------------------------
(***************************************************************************)
(* Pointers stay good and pages are handed out once, for any number of     *)
(* databases, managers and pages.  The invariant ties each manager that    *)
(* exists to the cache, and its counter and free list to the pages that    *)
(* are in the file or in use.                                              *)
(***************************************************************************)
EXTENDS DbServer, SequenceTheorems, WellFoundedInduction, TLAPS

\* The counter of manager m is above all pages that are written or were handed
\* out by it, and its free list holds pages below that nobody has, once each.
Counts(n, m) ==
  /\ \A p \in Page : files[n][p] # Unwritten => p < m.nextPageId
  /\ \A p \in fresh[n] : p < m.nextPageId
  /\ \A i \in 1 .. Len(m.freeList) : m.freeList[i] < m.nextPageId /\ m.freeList[i] \notin owned[n]
  /\ \A i, j \in 1 .. Len(m.freeList) : m.freeList[i] = m.freeList[j] => i = j

Cached ==
  \A n \in Name :
    IF cache[n] = Nobody THEN fresh[n] = {}
    ELSE cache[n][1] = n /\ managers[cache[n]] # Nobody /\ Exists(n)

Live == \A m \in Manager : managers[m] # Nobody => cache[m[1]] = m /\ Counts(m[1], managers[m])

ServerInv ==
  /\ ServerTypeOK
  /\ Cached
  /\ Live
  /\ \A h \in handles : managers[h] # Nobody
  /\ started => \A n \in Name : Exists(n) => n \in Hidden \/ cache[n] # Nobody

----------------------------------------------------------------------------
\* A nonempty set of natural numbers has a least element.
LEMMA LeastOf ==
  ASSUME NEW T \in SUBSET Nat, T # {}
  PROVE  \E x \in T : \A y \in T : x <= y
<1> DEFINE R == {p \in Nat \X Nat : p[1] < p[2]}
<1>1. IsWellFoundedOn(R, Nat)
  BY NatLessThanWellFounded DEF OpToRel
<1>2. PICK x \in T : \A y \in T : ~ (<<y, x>> \in R)
  BY <1>1, WFMin
<1>3. \A y \in T : x <= y
  <2> SUFFICES ASSUME NEW y \in T
               PROVE  x <= y
    OBVIOUS
  <2>1. ~ (y < x)
    BY <1>2
  <2> QED BY <2>1
<1> QED
  BY <1>2, <1>3

\* GetNumPages() is above every page in the file.
LEMMA NumPages ==
  ASSUME NEW disk \in File
  PROVE  /\ GetNumPages(disk) \in 0 .. MaxPages
         /\ \A p \in Page : disk[p] # Unwritten => p < GetNumPages(disk)
<1> DEFINE T == {n \in 0 .. MaxPages : PastEnd(disk, n)}
           Ids == {0} \cup {p + 1 : p \in Page}
<1>1. MaxPages \in Nat /\ Page = 0 .. MaxPages - 1
  BY ServerAssumption
<1>2. MaxPages \in T
  BY <1>1 DEF PastEnd
<1>3. PICK n \in T : \A y \in T : n <= y
  <2>1. T \in SUBSET Nat /\ T # {}
    BY <1>1, <1>2
  <2> HIDE DEF T
  <2> QED BY <2>1, LeastOf
<1>4. n > 0 => ~ PastEnd(disk, n - 1)
  BY <1>1, <1>3
<1>5. n \in Ids
  <2>1. CASE n = 0
    BY <2>1
  <2>2. CASE n # 0
    <3>1. n - 1 \in Page /\ n = (n - 1) + 1
      BY <1>1, <1>3, <2>2
    <3> QED BY <3>1
  <2> QED BY <2>1, <2>2
<1>6. GetNumPages(disk) \in Ids /\ PastEnd(disk, GetNumPages(disk))
  BY <1>3, <1>4, <1>5 DEF GetNumPages
<1> HIDE DEF T
<1>7. Ids \subseteq 0 .. MaxPages
  BY <1>1
<1>8. \A p \in Page : disk[p] # Unwritten => p < GetNumPages(disk)
  BY <1>1, <1>6, <1>7 DEF PastEnd
<1> QED
  BY <1>6, <1>7, <1>8

\* What a constructor opens is a file, and the file that was there if there was one.
LEMMA OpenedFile ==
  ASSUME NEW disk \in File \cup {NoFile}
  PROVE  /\ Opened(disk) \in File /\ Opened(disk) # NoFile
         /\ disk # NoFile => Opened(disk) = disk
<1>1. EmptyFile \in File
  BY DEF EmptyFile, File
<1> QED
  BY <1>1, NullAssumption DEF Opened

\* Managers made for databases that have none, and put in the cache, keep the
\* invariant's part about managers, cache and files.
LEMMA MakeUniqueKeeps ==
  ASSUME ServerInv, NEW N \in SUBSET Name, NEW m \in [N -> Manager],
         \A n \in N : m[n][1] = n /\ cache[n] = Nobody,
         MakeUnique(N, m),
         cache' = [n \in Name |-> IF n \in N THEN m[n] ELSE cache[n]],
         UNCHANGED <<owned, fresh>>
  PROVE  /\ files' \in [Name -> File \cup {NoFile}]
         /\ managers' \in [Manager -> Object \cup {Nobody}]
         /\ cache' \in [Name -> Manager \cup {Nobody}]
         /\ Cached' /\ Live'
         /\ \A x \in Manager : managers[x] # Nobody => managers'[x] # Nobody
         /\ \A n \in Name : Exists(n) => files'[n] = files[n]
         /\ \A n \in Name : n \notin N => files'[n] = files[n]
<1>1. /\ files \in [Name -> File \cup {NoFile}] /\ cache \in [Name -> Manager \cup {Nobody}]
      /\ managers \in [Manager -> Object \cup {Nobody}] /\ Cached /\ Live
  BY DEF ServerInv, ServerTypeOK
<1>2. \A n \in Name : files'[n] = IF n \in N THEN Opened(files[n]) ELSE files[n]
  BY DEF MakeUnique
<1>3. /\ files' \in [Name -> File \cup {NoFile}]
      /\ \A n \in N : files'[n] \in File /\ files'[n] # NoFile
      /\ \A n \in Name : (Exists(n) \/ n \notin N) => files'[n] = files[n]
  BY <1>1, <1>2, OpenedFile DEF MakeUnique, Exists
<1>4. \A x \in Manager : x[1] \in Name
  BY DEF Manager
<1>5. \A x \in Manager : (\E n \in N : x = m[n]) <=> (x[1] \in N /\ x = m[x[1]])
  OBVIOUS
<1>6. \A x \in Manager :
        managers'[x] = IF x[1] \in N /\ x = m[x[1]] THEN Constructed(files'[x[1]]) ELSE managers[x]
  BY <1>5 DEF MakeUnique
<1>7. \A n \in N : /\ Constructed(files'[n]) \in Object /\ Constructed(files'[n]) # Nobody
                   /\ Constructed(files'[n]).freeList = <<>>
                   /\ \A p \in Page : files'[n][p] # Unwritten =>
                        p < Constructed(files'[n]).nextPageId
  <2> SUFFICES ASSUME NEW n \in N
               PROVE  /\ Constructed(files'[n]) \in Object /\ Constructed(files'[n]) # Nobody
                      /\ Constructed(files'[n]).freeList = <<>>
                      /\ \A p \in Page : files'[n][p] # Unwritten =>
                           p < Constructed(files'[n]).nextPageId
    OBVIOUS
  <2> DEFINE d == files'[n]
  <2>1. d \in File
    BY <1>3
  <2> HIDE DEF d
  <2>2. GetNumPages(d) \in 0 .. MaxPages
          /\ \A p \in Page : d[p] # Unwritten => p < GetNumPages(d)
    BY <2>1, NumPages
  <2>3. Constructed(d) \in Object
    BY <2>2 DEF Constructed, Object
  <2>4. Constructed(d).freeList = <<>> /\ Constructed(d).nextPageId = GetNumPages(d)
    BY DEF Constructed
  <2>5. Constructed(d) # Nobody
    BY <2>3, NullAssumption
  <2> QED BY <2>2, <2>3, <2>4, <2>5 DEF d
<1>8. managers' \in [Manager -> Object \cup {Nobody}]
  <2>1. \A x \in Manager : managers'[x] \in Object \cup {Nobody}
    BY <1>1, <1>6, <1>7
  <2> QED BY <2>1 DEF MakeUnique
<1>9. cache' \in [Name -> Manager \cup {Nobody}]
  BY <1>1
<1>10. \A n \in N : m[n] # Nobody
  BY NullAssumption
<1>11. Cached'
  <2> SUFFICES ASSUME NEW n \in Name
               PROVE  IF cache'[n] = Nobody THEN fresh'[n] = {}
                      ELSE cache'[n][1] = n /\ managers'[cache'[n]] # Nobody /\ files'[n] # NoFile
    BY DEF Cached, Exists
  <2>1. CASE n \in N
    BY <1>3, <1>6, <1>7, <1>10, <2>1
  <2>2. CASE n \notin N
    BY <1>1, <1>3, <1>6, <2>2 DEF Cached, Exists
  <2> QED BY <2>1, <2>2
<1>12. Live'
  <2> SUFFICES ASSUME NEW x \in Manager, managers'[x] # Nobody
               PROVE  cache'[x[1]] = x /\ Counts(x[1], managers[x])'
    BY DEF Live
  <2>1. CASE x[1] \in N /\ x = m[x[1]]
    <3>1. cache'[x[1]] = x
      BY <1>4, <2>1
    <3>2. fresh'[x[1]] = {}
      BY <1>1, <1>4, <2>1 DEF Cached
    <3>3. managers'[x] = Constructed(files'[x[1]])
      BY <1>6, <2>1
    <3>4. /\ managers'[x].freeList = <<>>
          /\ \A p \in Page : files'[x[1]][p] # Unwritten => p < managers'[x].nextPageId
      BY <1>7, <2>1, <3>3
    <3> QED BY <3>1, <3>2, <3>4 DEF Counts
  <2>2. CASE ~ (x[1] \in N /\ x = m[x[1]])
    <3>1. managers'[x] = managers[x]
      BY <1>6, <2>2
    <3>2. cache[x[1]] = x /\ Counts(x[1], managers[x])
      BY <1>1, <3>1 DEF Live
    <3>3. x[1] \notin N
      BY <3>2, NullAssumption
    <3>4. cache'[x[1]] = x /\ files'[x[1]] = files[x[1]]
      BY <1>3, <1>4, <3>2, <3>3
    <3> QED BY <3>1, <3>2, <3>4 DEF Counts
  <2> QED BY <2>1, <2>2
<1>13. \A x \in Manager : managers[x] # Nobody => managers'[x] # Nobody
  BY <1>6, <1>7
<1> QED
  BY <1>3, <1>8, <1>9, <1>11, <1>12, <1>13

\* A new server has no managers.
LEMMA InitKeeps == Init => ServerInv
BY ServerAssumption, NullAssumption
   DEF Init, ServerInv, ServerTypeOK, Cached, Live, Exists

\* Init() makes a manager for every database it discovers.
LEMMA InitServerKeeps ==
  ASSUME ServerInv, InitServer
  PROVE  /\ ServerInv'
         /\ \A n \in Name : Exists(n) => files'[n] = files[n]
<1>1. PICK which \in [Discovered -> Instances] :
        /\ MakeUnique(Discovered, [n \in Discovered |-> <<n, which[n]>>])
        /\ cache' = [n \in Name |-> IF n \in Discovered THEN <<n, which[n]>> ELSE Nobody]
  BY DEF InitServer
<1> DEFINE m == [n \in Discovered |-> <<n, which[n]>>]
<1>2. Discovered \in SUBSET Name /\ \A n \in Name : cache[n] = Nobody
  BY DEF Discovered, InitServer
<1>3. m \in [Discovered -> Manager] /\ \A n \in Discovered : m[n][1] = n
  BY <1>2 DEF Manager
<1>4. cache' = [n \in Name |-> IF n \in Discovered THEN m[n] ELSE cache[n]]
  BY <1>1, <1>2
<1>5. MakeUnique(Discovered, m)
  BY <1>1
<1> HIDE DEF m
<1>6. UNCHANGED <<handles, owned, fresh>> /\ started' = TRUE
  BY DEF InitServer
<1>7. /\ files' \in [Name -> File \cup {NoFile}]
      /\ managers' \in [Manager -> Object \cup {Nobody}]
      /\ cache' \in [Name -> Manager \cup {Nobody}]
      /\ Cached' /\ Live'
      /\ \A x \in Manager : managers[x] # Nobody => managers'[x] # Nobody
      /\ \A n \in Name : Exists(n) => files'[n] = files[n]
      /\ \A n \in Name : n \notin Discovered => files'[n] = files[n]
  BY <1>2, <1>3, <1>4, <1>5, <1>6, MakeUniqueKeeps
<1>8. ServerTypeOK'
  BY <1>6, <1>7 DEF ServerInv, ServerTypeOK
<1>9. \A h \in handles' : managers'[h] # Nobody
  BY <1>6, <1>7 DEF ServerInv, ServerTypeOK
<1>10. \A n \in Name : Exists(n)' => n \in Hidden \/ cache'[n] # Nobody
  <2> SUFFICES ASSUME NEW n \in Name, files'[n] # NoFile, n \notin Hidden
               PROVE  cache'[n] # Nobody
    BY DEF Exists
  <2>1. n \in Discovered
    BY <1>7 DEF Discovered, Exists
  <2>2. m[n] # Nobody
    BY <1>3, <2>1, NullAssumption
  <2> QED BY <1>4, <2>1, <2>2
<1> QED
  BY <1>6, <1>7, <1>8, <1>9, <1>10 DEF ServerInv

\* OpenDatabase() and CreateDatabase() make one manager, and the pointer to it is
\* the only one that clients may have got.
LEMMA OneMadeKeeps ==
  ASSUME ServerInv, NEW n \in Name, NEW i \in Instances,
         cache[n] = Nobody,
         MakeUnique({n}, [x \in {n} |-> <<n, i>>]),
         cache' = [cache EXCEPT ![n] = <<n, i>>],
         handles' \in {handles, handles \cup {<<n, i>>}},
         UNCHANGED <<started, owned, fresh>>
  PROVE  /\ ServerInv'
         /\ \A x \in Name : Exists(x) => files'[x] = files[x]
<1> DEFINE N == {n}
           m == [x \in {n} |-> <<n, i>>]
<1>1. /\ N \in SUBSET Name /\ m \in [N -> Manager]
      /\ \A x \in N : m[x][1] = x /\ cache[x] = Nobody
      /\ m[n] = <<n, i>> /\ <<n, i>> \in Manager
  BY DEF Manager
<1>2. cache' = [x \in Name |-> IF x \in N THEN m[x] ELSE cache[x]]
  BY DEF ServerInv, ServerTypeOK
<1>3. MakeUnique(N, m)
  OBVIOUS
<1> HIDE DEF m, N
<1>4. /\ files' \in [Name -> File \cup {NoFile}]
      /\ managers' \in [Manager -> Object \cup {Nobody}]
      /\ cache' \in [Name -> Manager \cup {Nobody}]
      /\ Cached' /\ Live'
      /\ \A x \in Manager : managers[x] # Nobody => managers'[x] # Nobody
      /\ \A x \in Name : Exists(x) => files'[x] = files[x]
      /\ \A x \in Name : x \notin N => files'[x] = files[x]
  BY <1>1, <1>2, <1>3, MakeUniqueKeeps
<1>5. ServerTypeOK'
  BY <1>1, <1>4 DEF ServerInv, ServerTypeOK
<1>6. cache'[n] = <<n, i>> /\ <<n, i>> # Nobody
  BY <1>1, NullAssumption DEF ServerInv, ServerTypeOK
<1>7. managers'[<<n, i>>] # Nobody
  BY <1>4, <1>6 DEF Cached
<1>8. \A h \in handles' : managers'[h] # Nobody
  BY <1>4, <1>7 DEF ServerInv, ServerTypeOK
<1>9. started' => \A x \in Name : Exists(x)' => x \in Hidden \/ cache'[x] # Nobody
  <2> SUFFICES ASSUME started, NEW x \in Name, files'[x] # NoFile, x \notin Hidden
               PROVE  cache'[x] # Nobody
    BY DEF Exists
  <2>1. CASE x = n
    BY <1>6, <2>1
  <2>2. CASE x # n
    BY <1>4, <2>2 DEF ServerInv, ServerTypeOK, Exists, N
  <2> QED BY <2>1, <2>2
<1> QED
  BY <1>4, <1>5, <1>8, <1>9 DEF ServerInv

\* DeleteDatabase() destroys the one manager of its database.
LEMMA DeleteKeeps ==
  ASSUME ServerInv, NEW n \in Name, DeleteDatabase(n)
  PROVE  /\ ServerInv'
         /\ \A x \in Name : files'[x] \in {files[x], NoFile}
<1>1. /\ files \in [Name -> File \cup {NoFile}] /\ cache \in [Name -> Manager \cup {Nobody}]
      /\ managers \in [Manager -> Object \cup {Nobody}] /\ handles \subseteq Manager
      /\ owned \in [Name -> SUBSET Page] /\ fresh \in [Name -> SUBSET Page]
      /\ Cached /\ Live /\ \A h \in handles : managers[h] # Nobody
  BY DEF ServerInv, ServerTypeOK
<1>2. /\ cache[n] \in Manager /\ cache[n][1] = n
      /\ managers' = [managers EXCEPT ![cache[n]] = Nobody]
      /\ cache' = [cache EXCEPT ![n] = Nobody]
      /\ files' = [files EXCEPT ![n] = NoFile]
      /\ handles' = {h \in handles : h[1] # n}
      /\ owned' = [owned EXCEPT ![n] = {}]
      /\ fresh' = [fresh EXCEPT ![n] = {}]
      /\ started' = started
  BY <1>1 DEF DeleteDatabase, Cached
<1>3. ServerTypeOK'
  BY <1>1, <1>2 DEF ServerInv, ServerTypeOK
<1>4. \A m \in Manager : m[1] \in Name
  BY DEF Manager
<1>5. Cached'
  <2> SUFFICES ASSUME NEW x \in Name
               PROVE  IF cache'[x] = Nobody THEN fresh'[x] = {}
                      ELSE cache'[x][1] = x /\ managers'[cache'[x]] # Nobody /\ files'[x] # NoFile
    BY DEF Cached, Exists
  <2>1. CASE x = n
    BY <1>1, <1>2, <2>1
  <2>2. CASE x # n
    <3>1. cache'[x] = cache[x] /\ fresh'[x] = fresh[x] /\ files'[x] = files[x]
      BY <1>1, <1>2, <2>2
    <3>2. CASE cache[x] = Nobody
      BY <1>1, <3>1, <3>2 DEF Cached
    <3>3. CASE cache[x] # Nobody
      <4>1. cache[x] \in Manager /\ cache[x][1] = x /\ managers[cache[x]] # Nobody /\ files[x] # NoFile
        BY <1>1, <3>3 DEF Cached, Exists
      <4>2. cache[x] # cache[n]
        BY <1>2, <2>2, <4>1
      <4>3. managers'[cache[x]] = managers[cache[x]]
        BY <1>1, <1>2, <4>1, <4>2
      <4> QED BY <3>1, <3>3, <4>1, <4>3
    <3> QED BY <3>2, <3>3
  <2> QED BY <2>1, <2>2
<1>6. Live'
  <2> SUFFICES ASSUME NEW x \in Manager, managers'[x] # Nobody
               PROVE  cache'[x[1]] = x /\ Counts(x[1], managers[x])'
    BY DEF Live
  <2>1. x # cache[n] /\ managers'[x] = managers[x]
    BY <1>1, <1>2
  <2>2. cache[x[1]] = x /\ Counts(x[1], managers[x])
    BY <1>1, <2>1 DEF Live
  <2>3. x[1] # n
    BY <2>1, <2>2
  <2>4. /\ cache'[x[1]] = x /\ files'[x[1]] = files[x[1]]
        /\ owned'[x[1]] = owned[x[1]] /\ fresh'[x[1]] = fresh[x[1]]
    BY <1>1, <1>2, <1>4, <2>2, <2>3
  <2> QED BY <2>1, <2>2, <2>4 DEF Counts
<1>7. \A h \in handles' : managers'[h] # Nobody
  <2> SUFFICES ASSUME NEW h \in handles, h[1] # n
               PROVE  managers'[h] # Nobody
    BY <1>2
  <2> QED BY <1>1, <1>2
<1>8. started' => \A x \in Name : Exists(x)' => x \in Hidden \/ cache'[x] # Nobody
  BY <1>1, <1>2 DEF ServerInv, Exists
<1> QED
  BY <1>1, <1>2, <1>3, <1>5, <1>6, <1>7, <1>8 DEF ServerInv

----------------------------------------------------------------------------
\* What the invariant says of a pointer that a client holds.
LEMMA HandleFacts ==
  ASSUME ServerInv, NEW h \in handles
  PROVE  /\ h \in Manager /\ h[1] \in Name
         /\ managers[h] \in Object /\ managers[h] # Nobody
         /\ cache[h[1]] = h /\ cache[h[1]] # Nobody
         /\ files[h[1]] \in File /\ files[h[1]] # NoFile
         /\ Counts(h[1], managers[h])
<1>1. h \in Manager /\ managers[h] # Nobody /\ managers[h] \in Object
  BY DEF ServerInv, ServerTypeOK
<1>2. h[1] \in Name
  BY <1>1 DEF Manager
<1>3. cache[h[1]] = h /\ Counts(h[1], managers[h])
  BY <1>1 DEF ServerInv, Live
<1>4. cache[h[1]] # Nobody
  BY <1>1, <1>3, NullAssumption
<1>5. files[h[1]] # NoFile
  BY <1>2, <1>4 DEF ServerInv, Cached, Exists
<1>6. files[h[1]] \in File
  BY <1>2, <1>5 DEF ServerInv, ServerTypeOK
<1> QED
  BY <1>1, <1>2, <1>3, <1>4, <1>5, <1>6

\* A page that AllocatePage() hands out is not in use: it is above the counter, or
\* on the free list.
LEMMA AllocatedIsUnused ==
  ASSUME ServerInv, NEW h \in handles
  PROVE  AllocatedPage(managers[h]) \notin Usable(h[1])
<1> DEFINE m == managers[h]
<1>1. m \in Object /\ Counts(h[1], m) /\ h[1] \in Name /\ files[h[1]] # NoFile
  BY HandleFacts
<1> HIDE DEF m
<1>2. owned[h[1]] \subseteq Page /\ Page \subseteq Nat
  BY <1>1, ServerAssumption DEF ServerInv, ServerTypeOK
<1>3. CASE m.freeList # <<>>
  <2>1. Len(m.freeList) \in 1 .. Len(m.freeList)
    BY <1>1, <1>3 DEF Object
  <2>2. m.freeList[Len(m.freeList)] \notin owned[h[1]]
    BY <1>1, <2>1 DEF Counts
  <2> QED BY <1>3, <2>2 DEF AllocatedPage, Usable, m
<1>4. CASE m.freeList = <<>>
  <2>1. m.nextPageId \in Int
    BY <1>1, ServerAssumption DEF Object
  <2>2. m.nextPageId \notin Usable(h[1])
    BY <1>1, <1>2, <2>1 DEF Counts, Usable
  <2> QED BY <1>4, <2>2 DEF AllocatedPage, m
<1> QED
  BY <1>3, <1>4

\* A call through pointer h that changes one manager, and what is in use of one
\* database, keeps the invariant if the manager's counter and free list stay right.
LEMMA CallKeeps ==
  ASSUME ServerInv, NEW h \in handles, NEW m \in Object, NEW O \in SUBSET Page, NEW F \in SUBSET Page,
         managers' = [managers EXCEPT ![h] = m],
         owned' = [owned EXCEPT ![h[1]] = O],
         fresh' = [fresh EXCEPT ![h[1]] = F],
         UNCHANGED <<files, cache, handles, started>>,
         Counts(h[1], m)'
  PROVE  ServerInv'
<1>1. /\ files \in [Name -> File \cup {NoFile}] /\ cache \in [Name -> Manager \cup {Nobody}]
      /\ managers \in [Manager -> Object \cup {Nobody}] /\ handles \subseteq Manager
      /\ owned \in [Name -> SUBSET Page] /\ fresh \in [Name -> SUBSET Page]
      /\ Cached /\ Live /\ \A x \in handles : managers[x] # Nobody
  BY DEF ServerInv, ServerTypeOK
<1>2. h \in Manager /\ h[1] \in Name /\ cache[h[1]] = h /\ h # Nobody /\ m # Nobody
  BY HandleFacts, NullAssumption
<1>3. ServerTypeOK'
  BY <1>1, <1>2 DEF ServerInv, ServerTypeOK
<1>4. \A x \in Manager : x # h => managers'[x] = managers[x]
  BY <1>1
<1>5. managers'[h] = m
  BY <1>1, <1>2
<1>6. Cached'
  <2> SUFFICES ASSUME NEW x \in Name
               PROVE  IF cache[x] = Nobody THEN fresh'[x] = {}
                      ELSE cache[x][1] = x /\ managers'[cache[x]] # Nobody /\ files[x] # NoFile
    BY DEF Cached, Exists
  <2>1. CASE cache[x] = Nobody
    BY <1>1, <1>2, <2>1 DEF Cached
  <2>2. CASE cache[x] # Nobody
    <3>1. cache[x] \in Manager /\ cache[x][1] = x /\ managers[cache[x]] # Nobody /\ files[x] # NoFile
      BY <1>1, <2>2 DEF Cached, Exists
    <3> QED BY <1>2, <1>4, <1>5, <2>2, <3>1
  <2> QED BY <2>1, <2>2
<1>7. Live'
  <2> SUFFICES ASSUME NEW x \in Manager, managers'[x] # Nobody
               PROVE  cache[x[1]] = x /\ Counts(x[1], managers[x])'
    BY DEF Live
  <2>1. CASE x = h
    BY <1>2, <1>5, <2>1
  <2>2. CASE x # h
    <3>1. managers'[x] = managers[x] /\ cache[x[1]] = x /\ Counts(x[1], managers[x])
      BY <1>1, <1>4, <2>2 DEF Live
    <3>2. x[1] \in Name /\ x[1] # h[1]
      BY <1>2, <2>2, <3>1 DEF Manager
    <3>3. owned'[x[1]] = owned[x[1]] /\ fresh'[x[1]] = fresh[x[1]]
      BY <1>1, <3>2
    <3> QED BY <3>1, <3>3 DEF Counts
  <2> QED BY <2>1, <2>2
<1>8. \A x \in handles' : managers'[x] # Nobody
  BY <1>1, <1>2, <1>4, <1>5
<1>9. started' => \A x \in Name : Exists(x)' => x \in Hidden \/ cache'[x] # Nobody
  BY DEF ServerInv, Exists
<1> QED
  BY <1>3, <1>6, <1>7, <1>8, <1>9 DEF ServerInv

\* AllocatePage() takes its page off the free list, or moves the counter past it.
LEMMA AllocateKeeps ==
  ASSUME ServerInv, NEW h \in handles, Allocate(h)
  PROVE  ServerInv'
<1> DEFINE m == managers[h]
           n == h[1]
           p == AllocatedPage(m)
<1>1. /\ m \in Object /\ Counts(n, m) /\ n \in Name
      /\ owned[n] \subseteq Page /\ fresh[n] \subseteq Page
      /\ MaxPages \in Nat /\ Page = 0 .. MaxPages - 1
      /\ owned \in [Name -> SUBSET Page] /\ fresh \in [Name -> SUBSET Page]
  BY HandleFacts, ServerAssumption DEF ServerInv, ServerTypeOK
<1>2. /\ p < MaxPages
      /\ owned' = [owned EXCEPT ![n] = owned[n] \cup {p}]
      /\ fresh' = [fresh EXCEPT ![n] = fresh[n] \cup {p}]
      /\ managers' = [managers EXCEPT ![h] = Allocated(m)]
      /\ UNCHANGED <<files, cache, handles, started>>
  BY DEF Allocate
<1>3. /\ p \in Page /\ Allocated(m) \in Object
      /\ \A q \in Page : files[n][q] # Unwritten => q < Allocated(m).nextPageId
      /\ \A q \in fresh[n] \cup {p} : q < Allocated(m).nextPageId
      /\ \A i \in 1 .. Len(Allocated(m).freeList) :
           /\ Allocated(m).freeList[i] < Allocated(m).nextPageId
           /\ Allocated(m).freeList[i] \notin owned[n] \cup {p}
      /\ \A i, j \in 1 .. Len(Allocated(m).freeList) :
           Allocated(m).freeList[i] = Allocated(m).freeList[j] => i = j
  <2> DEFINE l == m.freeList
             k == Len(l)
             l2 == Allocated(m).freeList
             top == Allocated(m).nextPageId
  <2>1. l \in Seq(Page) /\ k \in Nat /\ m.nextPageId \in 0 .. MaxPages
    BY <1>1 DEF Object
  <2>2. CASE l # <<>>
    <3>1. k \in 1 .. k /\ p = l[k] /\ p \in Page
      BY <2>1, <2>2 DEF AllocatedPage
    <3>2. /\ Allocated(m) = [m EXCEPT !.freeList = SubSeq(l, 1, k - 1)]
          /\ l2 = SubSeq(l, 1, k - 1) /\ top = m.nextPageId
      BY <1>1, <2>2 DEF Allocated, Object
    <3>3. l2 \in Seq(Page) /\ Len(l2) = k - 1 /\ \A i \in 1 .. k - 1 : l2[i] = l[i]
      BY <2>1, <3>1, <3>2
    <3>4. Allocated(m) \in Object
      BY <1>1, <3>2, <3>3 DEF Object
    <3> HIDE DEF l, l2, top, p, k
    <3>5. /\ \A i \in 1 .. k : l[i] < m.nextPageId /\ l[i] \notin owned[n]
          /\ \A i, j \in 1 .. k : l[i] = l[j] => i = j
          /\ \A q \in Page : files[n][q] # Unwritten => q < m.nextPageId
          /\ \A q \in fresh[n] : q < m.nextPageId
      BY <1>1 DEF Counts, l, k
    <3>6. \A i \in 1 .. k - 1 : i \in 1 .. k /\ i # k
      BY <2>1
    <3>7. /\ \A i \in 1 .. Len(l2) : l2[i] < top /\ l2[i] \notin owned[n] \cup {p}
          /\ \A i, j \in 1 .. Len(l2) : l2[i] = l2[j] => i = j
      BY <3>1, <3>2, <3>3, <3>5, <3>6
    <3>8. \A q \in fresh[n] \cup {p} : q < top
      BY <3>1, <3>2, <3>5
    <3>9. \A q \in Page : files[n][q] # Unwritten => q < top
      BY <3>2, <3>5
    <3> QED BY <3>1, <3>4, <3>7, <3>8, <3>9 DEF l2, top
  <2>3. CASE l = <<>>
    <3>1. p = m.nextPageId /\ p \in Page
      BY <1>1, <1>2, <2>1, <2>3 DEF AllocatedPage
    <3>2. /\ Allocated(m) = [m EXCEPT !.nextPageId = m.nextPageId + 1]
          /\ l2 = <<>> /\ Len(l2) = 0 /\ top = p + 1
      BY <1>1, <2>3, <3>1 DEF Allocated, Object
    <3>3. Allocated(m) \in Object
      BY <1>1, <3>1, <3>2 DEF Object
    <3>4. /\ \A q \in Page : files[n][q] # Unwritten => q < p
          /\ \A q \in fresh[n] : q < p
      BY <1>1, <3>1 DEF Counts
    <3> HIDE DEF p
    <3>5. /\ \A q \in fresh[n] \cup {p} : q < top
          /\ \A q \in Page : files[n][q] # Unwritten => q < top
      BY <1>1, <3>1, <3>2, <3>4
    <3> QED BY <3>1, <3>2, <3>3, <3>5
  <2> QED BY <2>2, <2>3
<1> HIDE DEF p
<1>4. owned'[n] = owned[n] \cup {p} /\ fresh'[n] = fresh[n] \cup {p}
  BY <1>1, <1>2
<1> PICK x : x = Allocated(m)
  OBVIOUS
<1>5. Counts(n, x)'
  <2>1. /\ \A q \in Page : files'[n][q] # Unwritten => q < x.nextPageId
        /\ \A q \in fresh'[n] : q < x.nextPageId
        /\ \A i \in 1 .. Len(x.freeList) :
             x.freeList[i] < x.nextPageId /\ x.freeList[i] \notin owned'[n]
        /\ \A i, j \in 1 .. Len(x.freeList) : x.freeList[i] = x.freeList[j] => i = j
    BY <1>2, <1>3, <1>4
  <2> QED BY <2>1 DEF Counts
<1>6. x \in Object /\ owned[n] \cup {p} \in SUBSET Page /\ fresh[n] \cup {p} \in SUBSET Page
  BY <1>1, <1>3
<1>7. managers' = [managers EXCEPT ![h] = x]
  BY <1>2
<1> QED
  BY <1>2, <1>5, <1>6, <1>7, CallKeeps

\* DeallocatePage() of a page in use puts it on the free list.
LEMMA DeallocateKeeps ==
  ASSUME ServerInv, NEW h \in handles, NEW p \in Page, Deallocate(h, p)
  PROVE  ServerInv'
<1> DEFINE m == managers[h]
           n == h[1]
<1>1. /\ m \in Object /\ Counts(n, m) /\ n \in Name
      /\ owned[n] \subseteq Page /\ fresh[n] \subseteq Page
      /\ owned \in [Name -> SUBSET Page] /\ fresh \in [Name -> SUBSET Page]
  BY HandleFacts DEF ServerInv, ServerTypeOK
<1>2. /\ p \in Usable(n)
      /\ owned' = [owned EXCEPT ![n] = owned[n] \ {p}]
      /\ fresh' = [fresh EXCEPT ![n] = fresh[n] \ {p}]
      /\ managers' = [managers EXCEPT ![h] = Deallocated(m, p)]
      /\ UNCHANGED <<files, cache, handles, started>>
  BY DEF Deallocate
<1>3. p \in owned[n] /\ p < m.nextPageId
  BY <1>1, <1>2 DEF Usable, Counts
<1> PICK x : x = Deallocated(m, p)
  OBVIOUS
<1>4. /\ x \in Object /\ x.nextPageId = m.nextPageId
      /\ x.freeList = Append(m.freeList, p) /\ m.freeList \in Seq(Page)
  <2>1. x = [m EXCEPT !.freeList = Append(m.freeList, p)]
    BY DEF Deallocated
  <2>2. m.freeList \in Seq(Page) /\ m.nextPageId \in 0 .. MaxPages
    BY <1>1 DEF Object
  <2>3. Append(m.freeList, p) \in Seq(Page)
    BY <2>2
  <2> HIDE DEF m
  <2> QED BY <1>1, <2>1, <2>2, <2>3 DEF Object
<1> HIDE DEF m
<1>5. /\ Len(x.freeList) = Len(m.freeList) + 1 /\ Len(m.freeList) \in Nat
      /\ \A i \in 1 .. Len(m.freeList) : x.freeList[i] = m.freeList[i]
      /\ x.freeList[Len(m.freeList) + 1] = p
  BY <1>4
<1>6. \A i \in 1 .. Len(x.freeList) : i \in 1 .. Len(m.freeList) \/ i = Len(m.freeList) + 1
  BY <1>5
<1>7. /\ \A i \in 1 .. Len(m.freeList) :
           m.freeList[i] < m.nextPageId /\ m.freeList[i] \notin owned[n]
      /\ \A i, j \in 1 .. Len(m.freeList) : m.freeList[i] = m.freeList[j] => i = j
  BY <1>1 DEF Counts
<1>8. owned'[n] = owned[n] \ {p} /\ fresh'[n] = fresh[n] \ {p}
  BY <1>1, <1>2
<1>9. Counts(n, x)'
  <2>1. /\ \A q \in Page : files'[n][q] # Unwritten => q < x.nextPageId
        /\ \A q \in fresh'[n] : q < x.nextPageId
    BY <1>1, <1>2, <1>4, <1>8 DEF Counts
  <2>2. \A i \in 1 .. Len(x.freeList) :
          x.freeList[i] < x.nextPageId /\ x.freeList[i] \notin owned'[n]
    BY <1>3, <1>4, <1>5, <1>6, <1>7, <1>8
  <2>3. \A i, j \in 1 .. Len(x.freeList) : x.freeList[i] = x.freeList[j] => i = j
    BY <1>3, <1>5, <1>6, <1>7
  <2> QED BY <2>1, <2>2, <2>3 DEF Counts
<1>10. owned[n] \ {p} \in SUBSET Page /\ fresh[n] \ {p} \in SUBSET Page
  BY <1>1
<1>11. managers' = [managers EXCEPT ![h] = x]
  BY <1>2 DEF m
<1> QED
  BY <1>2, <1>4, <1>9, <1>10, <1>11, CallKeeps

\* WritePage() of a page in use stays below the counter.
LEMMA WriteKeeps ==
  ASSUME ServerInv, NEW h \in handles, NEW p \in Page, NEW c \in Content, Write(h, p, c)
  PROVE  ServerInv'
<1> DEFINE n == h[1]
<1>1. /\ h \in Manager /\ n \in Name /\ cache[n] = h
      /\ files[n] \in File /\ files[n] # NoFile /\ Counts(n, managers[h])
      /\ files \in [Name -> File \cup {NoFile}] /\ Cached /\ Live
  BY HandleFacts DEF ServerInv, ServerTypeOK
<1>2. /\ p \in Usable(n)
      /\ files' = [files EXCEPT ![n] = WritePage(files[n], p, c)]
      /\ UNCHANGED <<managers, cache, handles, started, owned, fresh>>
  BY DEF Write
<1>3. WritePage(files[n], p, c) \in File /\ WritePage(files[n], p, c) # NoFile
  <2>1. WritePage(files[n], p, c) \in File
    BY <1>1 DEF WritePage, File, Buffer
  <2> QED BY <2>1, NullAssumption
<1>4. /\ files'[n] = WritePage(files[n], p, c) /\ files'[n] # NoFile
      /\ \A x \in Name : x # n => files'[x] = files[x]
  BY <1>1, <1>2, <1>3
<1>5. ServerTypeOK'
  BY <1>1, <1>2, <1>3 DEF ServerInv, ServerTypeOK
<1>6. Cached'
  BY <1>1, <1>2, <1>4 DEF Cached, Exists
<1>7. Live'
  <2> SUFFICES ASSUME NEW x \in Manager, managers[x] # Nobody
               PROVE  cache[x[1]] = x /\ Counts(x[1], managers[x])'
    BY <1>2 DEF Live
  <2>1. cache[x[1]] = x /\ Counts(x[1], managers[x]) /\ x[1] \in Name
    BY <1>1 DEF Live, Manager
  <2>2. CASE x[1] # n
    BY <1>2, <1>4, <2>1, <2>2 DEF Counts
  <2>3. CASE x[1] = n
    <3>1. p < managers[x].nextPageId
      BY <1>2, <2>1, <2>3 DEF Usable, Counts
    <3>2. \A q \in Page : q # p => files'[n][q] = files[n][q]
      BY <1>1, <1>4 DEF WritePage, File
    <3>3. \A q \in Page : files'[x[1]][q] # Unwritten => q < managers[x].nextPageId
      BY <2>1, <2>3, <3>1, <3>2 DEF Counts
    <3> QED BY <1>2, <2>1, <3>3 DEF Counts
  <2> QED BY <2>2, <2>3
<1>8. started' => \A x \in Name : Exists(x)' => x \in Hidden \/ cache'[x] # Nobody
  BY <1>1, <1>2, <1>4 DEF ServerInv, Exists
<1> QED
  BY <1>2, <1>5, <1>6, <1>7, <1>8 DEF ServerInv

\* Nothing but files is left when the process ends.
LEMMA RestartKeeps ==
  ASSUME ServerInv, Restart
  PROVE  ServerInv'
BY DEF Restart, ServerInv, ServerTypeOK, Cached, Live

----------------------------------------------------------------------------
\* One step of the server: the invariant stays, and a file that exists is left as
\* it is, deleted, or written to in a page that is in use.
LEMMA StepKeeps ==
  ASSUME ServerInv, Next
  PROVE  /\ ServerInv'
         /\ \A n \in Name : Exists(n) =>
              \/ files'[n] \in {files[n], NoFile}
              \/ \E p \in Usable(n), c \in Content : files'[n] = WritePage(files[n], p, c)
<1>1. CASE InitServer
  BY <1>1, InitServerKeeps
<1>2. CASE Restart
  BY <1>2, RestartKeeps DEF Restart
<1>3. ASSUME NEW n \in Name, OpenCached(n)
      PROVE  ServerInv' /\ files' = files
  <2>1. cache[n] \in Manager /\ managers[cache[n]] # Nobody
    BY <1>3 DEF OpenCached, ServerInv, ServerTypeOK, Cached
  <2>2. ServerTypeOK'
    BY <1>3, <2>1 DEF OpenCached, ServerInv, ServerTypeOK
  <2>3. Cached' /\ Live'
    BY <1>3 DEF OpenCached, ServerInv, Cached, Live, Counts, Exists
  <2> QED BY <1>3, <2>1, <2>2, <2>3 DEF OpenCached, ServerInv, Exists
<1>4. ASSUME NEW n \in Name, DeleteDatabase(n)
      PROVE  ServerInv' /\ \A x \in Name : files'[x] \in {files[x], NoFile}
  BY <1>4, DeleteKeeps
<1>5. ASSUME NEW n \in Name, NEW i \in Instances,
             OpenFile(n, <<n, i>>) \/ CreateDatabase(n, <<n, i>>)
      PROVE  ServerInv' /\ \A x \in Name : Exists(x) => files'[x] = files[x]
  BY <1>5, OneMadeKeeps DEF OpenFile, CreateDatabase, Uncached
<1>6. ASSUME NEW h \in handles, Allocate(h)
      PROVE  ServerInv' /\ files' = files
  BY <1>6, AllocateKeeps DEF Allocate
<1>7. ASSUME NEW h \in handles, NEW p \in Page, Deallocate(h, p)
      PROVE  ServerInv' /\ files' = files
  BY <1>7, DeallocateKeeps DEF Deallocate
<1>8. ASSUME NEW h \in handles, NEW p \in Page, NEW c \in Content, Write(h, p, c)
      PROVE  /\ ServerInv' /\ p \in Usable(h[1])
             /\ files' = [files EXCEPT ![h[1]] = WritePage(files[h[1]], p, c)]
             /\ files \in [Name -> File \cup {NoFile}]
  BY <1>8, WriteKeeps DEF Write, ServerInv, ServerTypeOK
<1>9. ASSUME NEW h \in handles, NEW p \in Page, NEW c \in Content, Write(h, p, c), NEW n \in Name
      PROVE  \/ files'[n] = files[n]
             \/ \E q \in Usable(n), d \in Content : files'[n] = WritePage(files[n], q, d)
  <2>1. CASE n = h[1]
    BY <1>8, <1>9, <2>1
  <2>2. CASE n # h[1]
    BY <1>8, <1>9, <2>2
  <2> QED BY <2>1, <2>2
<1> QED
  BY <1>1, <1>2, <1>3, <1>4, <1>5, <1>6, <1>7, <1>8, <1>9 DEF Next

\* The invariant of the server.
THEOREM ServerInvariant == Spec => []ServerInv
<1>1. Init => ServerInv
  BY InitKeeps
<1>2. ServerInv /\ [Next]_vars => ServerInv'
  <2>1. ASSUME ServerInv, UNCHANGED vars
        PROVE  ServerInv'
    BY <2>1 DEF vars, ServerInv, ServerTypeOK, Cached, Live, Counts, Exists
  <2> QED BY <2>1, StepKeeps
<1> QED
  BY <1>1, <1>2, PTL DEF Spec

\* The managers, their free lists, the cache and the files have their type, so that
\* every page a free list holds is a page of its file.
THEOREM ServerTypeCorrect == Spec => []ServerTypeOK
<1>1. ServerInv => ServerTypeOK
  BY DEF ServerInv
<1> QED
  BY <1>1, ServerInvariant, PTL

\* Every pointer that OpenDatabase() returned leads to the one manager of its
\* database, for as long as the database is not deleted.
THEOREM PointersStayGood == Spec => []HandlesStayValid
<1>1. ServerInv => HandlesStayValid
  BY HandleFacts DEF HandlesStayValid
<1> QED
  BY <1>1, ServerInvariant, PTL

\* After Init() the cache has every database whose file is discovered, and no other.
THEOREM CacheFollowsFiles == Spec => []CacheKnowsFiles
<1>1. ServerInv => CacheKnowsFiles
  BY DEF ServerInv, Cached, CacheKnowsFiles
<1> QED
  BY <1>1, ServerInvariant, PTL

\* AllocatePage() hands out no page that is in use, in whichever process it was
\* written, and through whichever pointer it was allocated.
THEOREM PagesHandedOutOnce == Spec => NeverHandedOutTwice
<1>1. ServerInv /\ [Next]_vars =>
        [\A h \in handles : Allocate(h) => AllocatedPage(managers[h]) \notin Usable(h[1])]_vars
  BY AllocatedIsUnused
<1> QED
  BY <1>1, ServerInvariant, PTL DEF Spec, NeverHandedOutTwice

\* No call of the server changes a file that it does not delete: only writes to
\* pages that are in use do.
THEOREM FilesAreKept == Spec => FilesSurvive
<1>1. ServerInv /\ [Next]_vars =>
        [\A n \in Name : Exists(n) =>
           \/ files'[n] \in {files[n], NoFile}
           \/ \E p \in Usable(n), c \in Content : files'[n] = WritePage(files[n], p, c)]_vars
  BY StepKeeps
<1> QED
  BY <1>1, ServerInvariant, PTL DEF Spec, FilesSurvive
=============================================================================
