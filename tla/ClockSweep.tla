----------------------------- MODULE ClockSweep -----------------------------
(***************************************************************************)
(* choose_victim() as its loop runs.  The run of the pool checks in each  *)
(* of its states that it stops where ClockPolicy.tla says.                 *)
(***************************************************************************)
EXTENDS ClockPolicy

None == -1            \* nullptr

AdvanceHand(h) == IF h = PoolSize - 1 THEN 0 ELSE h + 1

\* One turn of the loop, once it has not returned.
LoopBody(w) ==
  IF w.victim # None THEN w
  ELSE IF pinCount[w.hand] = 0 /\ w.bits[w.hand] = 0 THEN [w EXCEPT !.victim = w.hand]
  ELSE [w EXCEPT !.hand = AdvanceHand(@),
                 !.bits[w.hand] = IF pinCount[w.hand] = 0 THEN 0 ELSE @]

\* Mutant of Scans: one lap.
ScansOnce == PoolSize

Scans == 2 * PoolSize

\* choose_victim() after n turns of its loop.
Walk[n \in 0 .. Scans] ==
  IF n = 0 THEN [victim |-> None, hand |-> hand, bits |-> refBits]
           ELSE LoopBody(Walk[n - 1])

ChosenByLoop == Walk[Scans]

----------------------------------------------------------------------------
(* Properties                                                              *)

\* The loop stops where ClockPolicy says it stops, with the same bits and hand,
\* from any hand, bits and pins the pool gets into: two laps are enough to find a
\* frame that could be evicted, and when all are pinned both stay as they were.
LoopStopsWhereStated ==
  LET w == ChosenByLoop IN
  IF NoVictim
  THEN w.victim = None /\ w.hand = hand /\ w.bits = refBits
  ELSE /\ w.victim \in Unpinned /\ w.hand = w.victim
       /\ \A g \in Unpinned : StopsAfter(w.victim) <= StopsAfter(g)
       /\ w.bits = SweptTo(w.victim)
=============================================================================
