-------------------------- MODULE MCBufferManager --------------------------
(* Two frames for three pages: every miss beyond the second evicts.        *)
EXTENDS BufferManager, ClockSweep, TLC

Pages == 0 .. 2
Contents == Permutations(Content)
=============================================================================
