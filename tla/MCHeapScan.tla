----------------------------- MODULE MCHeapScan -----------------------------
(* A heap of the pages 0, 1 and 3, with no live record in page 1, and a page
   of another heap.                                                        *)
EXTENDS HeapScan, TLC

Pages == 0 .. 3
HeapOnDisk ==
  (0 :> [next |-> 1, n |-> 2, live |-> {0, 1}]) @@ (1 :> [next |-> 3, n |-> 1, live |-> {}])
    @@ (2 :> [next |-> -1, n |-> 1, live |-> {0}])
    @@ (3 :> [next |-> -1, n |-> 3, live |-> {0, 2}])
HeapPages == {HeapOnDisk[p] : p \in Pages}
=============================================================================
