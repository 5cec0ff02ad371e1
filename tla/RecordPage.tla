----------------------------- MODULE RecordPage -----------------------------
(***************************************************************************)
(* What a slotted page promises its caller (class SlottedPage), with the   *)
(* bytes left out: the modifiers' effects and the exact cases in which     *)
(* they refuse.  SlottedPage.tla implements this module byte by byte.      *)
(***************************************************************************)
EXTENDS PageRecords

CONSTANT Data        \* records a caller may store; d.len is the length in bytes

VARIABLES page,      \* [n: number of slots, free: free bytes, recs: slot -> record]
          ret        \* <<how the last call ended, the record it was given>>:
                     \* "accepted", "refused" (no room) or "noslot"

vars == <<page, ret>>

----------------------------------------------------------------------------
Init == page = EmptyPage /\ ret = <<"accepted", Tombstone>>

Insert(d) ==
  \/ /\ Fits(page, d)
     /\ page' = Put(page, d)
     /\ ret' = <<"accepted", d>>
  \/ /\ ~ Fits(page, d)
     /\ page' = page
     /\ ret' = <<"refused", d>>

Update(s, d) ==
  /\ s < page.n
  /\ \/ /\ Accepts(page, s, d)
        /\ page' = Change(page, s, d)
        /\ ret' = <<"accepted", d>>
     \/ /\ ~ Accepts(page, s, d)
        /\ page' = page
        /\ ret' = <<"refused", d>>

Delete(s) ==
  /\ s < page.n
  /\ page' = Remove(page, s)
  /\ ret' = <<"accepted", Tombstone>>

\* Update and Delete of a slot the page does not have.
NoSlot == page' = page /\ ret' = <<"noslot", Tombstone>>

Next ==
  \/ \E d \in Data : Insert(d)
  \/ \E s \in 0 .. page.n : Delete(s) \/ \E d \in Data : Update(s, d)
  \/ NoSlot

Spec == Init /\ [][Next]_vars
=============================================================================
