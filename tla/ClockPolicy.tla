---------------------------- MODULE ClockPolicy ----------------------------
(***************************************************************************)
(* Class ClockPolicy: the reference bits and the clock hand that choose    *)
(* the frame BufferManager evicts.  The policy reads the pin counts, which *)
(* belong to the frames.                                                   *)
(*                                                                         *)
(* choose_victim() walks at most twice round the frames.  The walk is      *)
(* stated here by where it stops: a frame passed with its bit set is taken *)
(* one lap later.  ClockSweep.tla states it turn by turn of the loop, and  *)
(* that the two agree.                                                     *)
(***************************************************************************)
EXTENDS Integers

CONSTANT PoolSize     \* config::BUFFER_POOL_SIZE
ASSUME PoolAssumption == PoolSize \in Nat \ {0}

Frame == 0 .. PoolSize - 1

VARIABLES pinCount,   \* Frame::pin_count
          refBits,    \* ref_bits_
          hand        \* hand_

clockVars == <<refBits, hand>>

ClockInit == refBits = [f \in Frame |-> 0] /\ hand = 0

Unpinned == {f \in Frame : pinCount[f] = 0}

\* Frames the hand passes before it first reaches f, and before it takes f.
Distance(f) == IF f >= hand THEN f - hand ELSE f - hand + PoolSize
\* Mutant of StopsAfter(): the reference bit is not looked at.
StopsAtFirst(f) == Distance(f)

StopsAfter(f) == Distance(f) + (IF refBits[f] = 1 THEN PoolSize ELSE 0)

\* Mutant of ChooseVictim(): the pin counts are not looked at.
ChoosePinned(f) ==
  /\ f \in Frame
  /\ \A g \in Frame : StopsAfter(f) <= StopsAfter(g)
  /\ hand' = f

\* choose_victim() returns f.  The hand stays on f.
ChooseVictim(f) ==
  /\ f \in Unpinned
  /\ \A g \in Unpinned : StopsAfter(f) <= StopsAfter(g)
  /\ hand' = f

\* The bits that the walk to f leaves.
SweptTo(f) ==
  [g \in Frame |->
     IF g \in Unpinned /\ Distance(g) < StopsAfter(f) THEN 0 ELSE refBits[g]]

\* choose_victim() returns nullptr: two laps change nothing.
NoVictim == Unpinned = {}

\* record_access() and record_load(), with the bits as they then are.
Referenced(bits, f) == [bits EXCEPT ![f] = 1]

\* record_unpin()
Released(bits, f) == [bits EXCEPT ![f] = 0]
=============================================================================
