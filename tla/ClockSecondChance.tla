------------------------- MODULE ClockSecondChance -------------------------
(***************************************************************************)
(* The clock policy alone, driven by the calls BufferManager makes once    *)
(* the first PoolSize requests filled the pool.                            *)
(***************************************************************************)
EXTENDS ClockSweep

CONSTANT MaxPin       \* bound: pins held on one frame

VARIABLE lastReleased \* history: the frame release() just left unpinned

sweepVars == <<pinCount, clockVars, lastReleased>>

----------------------------------------------------------------------------
Init ==
  /\ pinCount = [f \in Frame |-> 1]
  /\ refBits = [f \in Frame |-> 1]
  /\ hand = 0
  /\ lastReleased = None

Hit(f) ==
  /\ pinCount[f] < MaxPin
  /\ pinCount' = [pinCount EXCEPT ![f] = @ + 1]
  /\ refBits' = Referenced(refBits, f)
  /\ hand' = hand
  /\ lastReleased' = None

\* request() of a page that is not cached.
Miss ==
  LET w == ChosenByLoop IN
  /\ w.victim # None
  /\ pinCount' = [pinCount EXCEPT ![w.victim] = 1]
  /\ refBits' = Referenced(w.bits, w.victim)
  /\ hand' = w.hand
  /\ lastReleased' = None

Release(f) ==
  /\ pinCount[f] > 0
  /\ pinCount' = [pinCount EXCEPT ![f] = @ - 1]
  /\ refBits' = IF pinCount[f] = 1 THEN Released(refBits, f) ELSE refBits
  /\ hand' = hand
  /\ lastReleased' = IF pinCount[f] = 1 THEN f ELSE None

\* BufferManager::unpin(): the policy is not told.
Unpin(f) ==
  /\ pinCount[f] > 0
  /\ pinCount' = [pinCount EXCEPT ![f] = @ - 1]
  /\ lastReleased' = None
  /\ UNCHANGED clockVars

Next == Miss \/ \E f \in Frame : Hit(f) \/ Release(f) \/ Unpin(f)

Spec == Init /\ [][Next]_sweepVars

----------------------------------------------------------------------------
(* Properties                                                              *)

\* What record_unpin()'s comment says of the frame just released: the next miss
\* does not take it while another unpinned frame could go.
JustReleasedSurvives ==
  [][Miss => (ChosenByLoop.victim = lastReleased => Unpinned = {lastReleased})]_sweepVars
=============================================================================
