--------------------------- MODULE MCHeapIterator ---------------------------
(* Two records of one length fill a page.                                  *)
EXTENDS HeapIterator, TLC

Records == {[len |-> 1]}
Heaps == Permutations(Heap)
=============================================================================
