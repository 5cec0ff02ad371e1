---------------------------- MODULE TableManager ----------------------------
(***************************************************************************)
(* Class TableManager: OpenTable() asks the catalog once for a name and    *)
(* keeps the UserTable it makes, with the heap's first page and the        *)
(* columns, for as long as the process runs.                               *)
(***************************************************************************)
EXTENDS Catalog

VARIABLE cache         \* TableManager::_cache: name -> [row, columns]

vars == <<catalogVars, cache>>

NewTableManager == [name \in {} |-> NoTable]

Init == CatalogInit /\ cache = NewTableManager

\* OpenTable() of a name that is not cached; one that is changes nothing, and
\* one that the catalog does not know throws.  On a catalog that is not whole, or
\* was not when it was written, it is a LookupLost.
OpenTable(name) ==
  /\ phase = "open"
  /\ name \notin DOMAIN cache
  /\ sound /\ Sound
  /\ LET row == Lookup(content, name) IN
       /\ row # NoTable
       /\ cache' = [n \in DOMAIN cache \cup {name} |->
                      IF n = name THEN [row |-> row, columns |-> GetColumns(content, row.id)]
                                  ELSE cache[n]]
  /\ UNCHANGED catalogVars

\* Catalog calls, those of CreateTable() through the manager among them, and the
\* end of the process.
CatalogStep ==
  /\ CatalogNext
  /\ IF Restart THEN cache' = NewTableManager ELSE UNCHANGED cache

Next == CatalogStep \/ \E name \in Name \cup ToSet(SystemName) : OpenTable(name)

Spec == Init /\ [][Next]_vars

----------------------------------------------------------------------------
(* Properties                                                              *)

\* The cache is never stale: between calls, what OpenTable() returns for a cached
\* name has the columns that the catalog says its table has now, all of them if the
\* process made it; and as long as rows are scanned in the order of their inserts,
\* it is the table that the catalog resolves the name to now.
CacheAgrees ==
  (sound /\ phase = "open") => \A name \in DOMAIN cache :
    LET opened == cache[name] IN
      /\ opened.columns = GetColumns(content, opened.row.id)
      /\ opened.row.id \in kept => Described(opened.columns, Made(opened.row.id))
      /\ InInsertOrder(name) => opened.row = Lookup(content, name)
=============================================================================
