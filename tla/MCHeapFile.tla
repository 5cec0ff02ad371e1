----------------------------- MODULE MCHeapFile -----------------------------
(* Pages of 4 free bytes, of which every record takes one for its slot.   *)
(* The records differ in length: two short ones fill a page, a long one    *)
(* leaves no room for a second, and a huge one fits in no page.            *)
EXTENDS HeapFile, TLC

Short == [len |-> 1]
Long == [len |-> 2]
Huge == [len |-> 4]
Records == {Short, Long, Huge}
Heaps == Permutations(Heap)
=============================================================================
