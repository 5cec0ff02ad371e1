---------------------------- MODULE PageRecords ----------------------------
(***************************************************************************)
(* A slotted page as the array of records its callers see, and what the    *)
(* modifiers of class SlottedPage make of it.  Slots are never reused; a   *)
(* record of length 0 is a deleted one.  The free bytes are those between  *)
(* the slot directory and the record data: a deleted record and an old     *)
(* copy of a moved one are not given back.                                 *)
(***************************************************************************)
EXTENDS Naturals

CONSTANTS Capacity,  \* free bytes of a page that was just initialised
          SlotSize   \* sizeof(Slot)

Tombstone == [len |-> 0]

\* Get() tells a slot of length 0 from any other, and nothing more about it.
Stored(d) == IF d.len = 0 THEN Tombstone ELSE d

EmptyPage == [n |-> 0, free |-> Capacity, recs |-> [s \in {} |-> Tombstone]]

\* Mutant of Fits(): the room check forgets the new slot.
FitsWithoutSlot(pg, d) == d.len <= pg.free

Fits(pg, d) == d.len + SlotSize <= pg.free

Put(pg, d) ==
  [n    |-> pg.n + 1,
   free |-> pg.free - (d.len + SlotSize),
   recs |-> [s \in 0 .. pg.n |-> IF s = pg.n THEN Stored(d) ELSE pg.recs[s]]]

InPlace(pg, s, d) == d.len <= pg.recs[s].len

Accepts(pg, s, d) == InPlace(pg, s, d) \/ d.len <= pg.free

Change(pg, s, d) ==
  [n    |-> pg.n,
   free |-> IF InPlace(pg, s, d) THEN pg.free ELSE pg.free - d.len,
   recs |-> [pg.recs EXCEPT ![s] = Stored(d)]]

\* Mutant of Remove(): the last slot is dropped, to be used again.
RemoveSlot(pg, s) == [pg EXCEPT !.n = @ - 1, !.recs[s] = Tombstone]

Remove(pg, s) ==
  [n |-> pg.n, free |-> pg.free, recs |-> [pg.recs EXCEPT ![s] = Tombstone]]
=============================================================================
