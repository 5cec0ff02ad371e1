------------------------------ MODULE DbServer ------------------------------
(***************************************************************************)
(* Class DbServer: one DiskManager per database, kept in _cache by the     *)
(* name of the database, and one file per database in DATA_PATH.  Clients  *)
(* create, open and delete databases, and allocate and write pages through *)
(* the managers that OpenDatabase() returned.  The process may end between *)
(* any two calls.                                                          *)
(*                                                                         *)
(* OpenDatabase() returns a plain pointer, which DeleteDatabase() and a    *)
(* second Init() would leave dangling: clients drop their pointers to a    *)
(* database that is deleted, and call Init() first, as the README says.    *)
(***************************************************************************)
EXTENDS DiskManager

CONSTANTS Name,      \* names of databases
          Hidden,    \* those whose files Init() passes over: ".db", "dir/x.db"
          MaxPages,  \* bound: page ids a manager hands out
          Instances, \* bound: managers of one database in one process
          NoFile,    \* no such file
          Nobody     \* no manager

ASSUME ServerAssumption ==
  /\ Hidden \subseteq Name
  /\ MaxPages \in Nat /\ Page = 0 .. MaxPages - 1

\* Managers, as pointers: <<name, which>>, and what the file and the object hold.
Manager == Name \X Instances
File == [Page -> Buffer \cup {Unwritten}]
Object == [nextPageId : 0 .. MaxPages, freeList : Seq(Page)]

ASSUME NullAssumption == NoFile \notin File /\ Nobody \notin Manager \cup Object

VARIABLES files,     \* name -> NoFile, or the file's pages
          managers,  \* manager -> Nobody, or what the object holds
          cache,     \* _cache: name -> manager, or Nobody
          handles,   \* pointers that clients hold
          started,   \* Init() was called
          owned,     \* history: name -> pages handed out and not given back
          fresh      \* history: name -> those handed out by this process

vars == <<files, managers, cache, handles, started, owned, fresh>>

----------------------------------------------------------------------------
Init ==
  /\ files = [n \in Name |-> NoFile]
  /\ managers = [m \in Manager |-> Nobody]
  /\ cache = [n \in Name |-> Nobody]
  /\ handles = {}
  /\ started = FALSE
  /\ owned = [n \in Name |-> {}]
  /\ fresh = [n \in Name |-> {}]

Exists(n) == files[n] # NoFile

\* Mutant of Opened: the file is opened with trunc.
OpenedAnew(disk) == EmptyFile

\* The file once the constructor has opened it, or created it.
Opened(disk) == IF disk = NoFile THEN EmptyFile ELSE disk

\* make_unique<DiskManager>(path): an object no pointer leads to yet.
New(m) == managers[m] = Nobody /\ m \notin handles

\* The files and managers after one is made for each database of N.
MakeUnique(N, m) ==
  /\ \A n \in N : New(m[n])
  /\ files' = [n \in Name |-> IF n \in N THEN Opened(files[n]) ELSE files[n]]
  /\ managers' = [x \in Manager |->
       IF \E n \in N : x = m[n] THEN Constructed(files'[x[1]]) ELSE managers[x]]

\* Mutant of Discovered: the test for regular files is turned round.
DiscoveredNone == {}

\* The databases whose files the directory lists.
Discovered == {n \in Name \ Hidden : Exists(n)}

\* DbServer::Init(): a manager for each of them.
InitServer ==
  /\ ~ started
  /\ \A n \in Name : cache[n] = Nobody
  /\ \E which \in [Discovered -> Instances] :
       /\ MakeUnique(Discovered, [n \in Discovered |-> <<n, which[n]>>])
       /\ cache' = [n \in Name |-> IF n \in Discovered THEN <<n, which[n]>> ELSE Nobody]
  /\ started' = TRUE
  /\ UNCHANGED <<handles, owned, fresh>>

\* OpenDatabase() of a database that is in the cache.
OpenCached(n) ==
  /\ cache[n] # Nobody
  /\ handles' = handles \cup {cache[n]}
  /\ UNCHANGED <<files, managers, cache, started, owned, fresh>>

\* Mutant of Uncached: the cache is not looked at.
UncachedOrNot(n) == Exists(n)

Uncached(n) == cache[n] = Nobody /\ Exists(n)

\* OpenDatabase() of one that is not, but whose file exists.
OpenFile(n, m) ==
  /\ Uncached(n)
  /\ MakeUnique({n}, [x \in {n} |-> m])
  /\ cache' = [cache EXCEPT ![n] = m]
  /\ handles' = handles \cup {m}
  /\ UNCHANGED <<started, owned, fresh>>

\* CreateDatabase(), when it returns true.
CreateDatabase(n, m) ==
  /\ cache[n] = Nobody
  /\ ~ Exists(n)
  /\ MakeUnique({n}, [x \in {n} |-> m])
  /\ cache' = [cache EXCEPT ![n] = m]
  /\ UNCHANGED <<handles, started, owned, fresh>>

\* DeleteDatabase(), when it returns true.
DeleteDatabase(n) ==
  /\ cache[n] # Nobody
  /\ managers' = [managers EXCEPT ![cache[n]] = Nobody]
  /\ cache' = [cache EXCEPT ![n] = Nobody]
  /\ files' = [files EXCEPT ![n] = NoFile]
  /\ handles' = {h \in handles : h[1] # n}
  /\ owned' = [owned EXCEPT ![n] = {}]
  /\ fresh' = [fresh EXCEPT ![n] = {}]
  /\ UNCHANGED started

----------------------------------------------------------------------------
(* Clients, through a pointer they hold.                                   *)

\* Pages a client may use.  One that an earlier process handed out and never
\* wrote is not in the file.
Usable(n) == {p \in owned[n] : p \in fresh[n] \/ (Exists(n) /\ files[n][p] # Unwritten)}

Allocate(h) ==
  /\ h \in handles
  /\ AllocatedPage(managers[h]) < MaxPages
  /\ LET p == AllocatedPage(managers[h]) IN
       /\ owned' = [owned EXCEPT ![h[1]] = @ \cup {p}]
       /\ fresh' = [fresh EXCEPT ![h[1]] = @ \cup {p}]
  /\ managers' = [managers EXCEPT ![h] = Allocated(@)]
  /\ UNCHANGED <<files, cache, handles, started>>

\* Clients give back a page of theirs, once.
Deallocate(h, p) ==
  /\ h \in handles
  /\ p \in Usable(h[1])
  /\ managers' = [managers EXCEPT ![h] = Deallocated(@, p)]
  /\ owned' = [owned EXCEPT ![h[1]] = @ \ {p}]
  /\ fresh' = [fresh EXCEPT ![h[1]] = @ \ {p}]
  /\ UNCHANGED <<files, cache, handles, started>>

Write(h, p, c) ==
  /\ h \in handles
  /\ p \in Usable(h[1])
  /\ files' = [files EXCEPT ![h[1]] = WritePage(@, p, c)]
  /\ UNCHANGED <<managers, cache, handles, started, owned, fresh>>

\* The process ends; files are all that is left.
Restart ==
  /\ managers' = [m \in Manager |-> Nobody]
  /\ cache' = [n \in Name |-> Nobody]
  /\ handles' = {}
  /\ started' = FALSE
  /\ fresh' = [n \in Name |-> {}]
  /\ UNCHANGED <<files, owned>>

Next ==
  \/ InitServer \/ Restart
  \/ \E n \in Name : \/ OpenCached(n) \/ DeleteDatabase(n)
                     \/ \E i \in Instances : OpenFile(n, <<n, i>>) \/ CreateDatabase(n, <<n, i>>)
  \/ \E h \in handles :
       \/ Allocate(h)
       \/ \E p \in Page : Deallocate(h, p) \/ \E c \in Content : Write(h, p, c)

Spec == Init /\ [][Next]_vars

----------------------------------------------------------------------------
(* Properties                                                              *)

ServerTypeOK ==
  /\ files \in [Name -> File \cup {NoFile}]
  /\ managers \in [Manager -> Object \cup {Nobody}]
  /\ cache \in [Name -> Manager \cup {Nobody}]
  /\ handles \subseteq Manager
  /\ started \in BOOLEAN
  /\ owned \in [Name -> SUBSET Page]
  /\ fresh \in [Name -> SUBSET Page]

\* AllocatePage() never hands out a page of a database that is in use: not one
\* another client of the database got, nor one that an earlier process wrote.
\* All clients of a database must share one manager for that, and the length of
\* the file must tell a new one how far the old one came.
NeverHandedOutTwice ==
  [][\A h \in handles : Allocate(h) => AllocatedPage(managers[h]) \notin Usable(h[1])]_vars

\* A pointer that OpenDatabase() returned stays good, and stays the one that
\* later calls return, until its own database is deleted: no call on another
\* database, and no later OpenDatabase() or CreateDatabase(), replaces a manager.
HandlesStayValid ==
  \A h \in handles : managers[h] # Nobody /\ cache[h[1]] = h

\* A file is only ever changed by writes to pages that its clients own, until
\* the database is deleted: opening, creating, discovery and restarts leave it.
FilesSurvive ==
  [][\A n \in Name : Exists(n) =>
       \/ files'[n] \in {files[n], NoFile}
       \/ \E p \in Usable(n), c \in Content : files'[n] = WritePage(files[n], p, c)]_vars

\* Once Init() was called, DeleteDatabase() finds every database whose file it
\* discovers, and no other name: "Returns false if the database does not exist".
CacheKnowsFiles ==
  started => \A n \in Name :
    /\ cache[n] # Nobody => Exists(n)
    /\ Exists(n) => n \in Hidden \/ cache[n] # Nobody
=============================================================================
