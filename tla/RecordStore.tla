---------------------------- MODULE RecordStore ----------------------------
(***************************************************************************)
(* What the heaps promise: a partial function from RIDs to rows, each the  *)
(* record of one heap.  A RID stays in it for good; that of a deleted      *)
(* record maps to the tombstone.  No RID is given out twice, in one heap   *)
(* or in two.                                                              *)
(***************************************************************************)
EXTENDS PageRecords

CONSTANTS Heap,       \* tables
          RID,        \* record ids
          Data        \* records a caller may store; d.len is the length

VARIABLES open,       \* heaps that exist
          rows,       \* RID -> [heap, rec]
          ret         \* <<"accepted" or "refused", the record the last call was given>>

vars == <<open, rows, ret>>

\* r is given this row, and every other row stays.
Writes(r, row) ==
  /\ DOMAIN rows' = DOMAIN rows \cup {r}
  /\ rows'[r] = row
  /\ \A q \in DOMAIN rows \ {r} : rows'[q] = rows[q]

----------------------------------------------------------------------------
Init ==
  /\ open = {}
  /\ rows = [r \in {} |-> Tombstone]
  /\ ret = <<"accepted", Tombstone>>

Create(h) ==
  /\ h \notin open
  /\ open' = open \cup {h}
  /\ ret' = <<"accepted", Tombstone>>
  /\ UNCHANGED rows

\* The first insert creates the heap.
Insert(h, d, r) ==
  /\ open' = open \cup {h}
  /\ ret' = <<"accepted", d>>
  /\ r \notin DOMAIN rows
  /\ Writes(r, [heap |-> h, rec |-> Stored(d)])

\* Only a record that no empty page could take is refused.
InsertRefused(h, d) ==
  /\ ~ Fits(EmptyPage, d)
  /\ open' = open \cup {h}
  /\ ret' = <<"refused", d>>
  /\ UNCHANGED rows

Update(r, d) ==
  /\ ret' = <<"accepted", d>>
  /\ Writes(r, [rows[r] EXCEPT !.rec = Stored(d)])
  /\ UNCHANGED open

\* A record that does not grow is always updated.
UpdateRefused(r, d) ==
  /\ d.len > rows[r].rec.len
  /\ ret' = <<"refused", d>>
  /\ UNCHANGED <<open, rows>>

Delete(r) ==
  /\ ret' = <<"accepted", Tombstone>>
  /\ Writes(r, [rows[r] EXCEPT !.rec = Tombstone])
  /\ UNCHANGED open

Next ==
  \/ \E h \in Heap : \/ Create(h)
                     \/ \E d \in Data : InsertRefused(h, d) \/ \E r \in RID : Insert(h, d, r)
  \/ \E r \in DOMAIN rows :
       Delete(r) \/ \E d \in Data : Update(r, d) \/ UpdateRefused(r, d)

Spec == Init /\ [][Next]_vars
=============================================================================
