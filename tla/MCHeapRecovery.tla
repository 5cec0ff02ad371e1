--------------------------- MODULE MCHeapRecovery ---------------------------
(* A slot takes as much as a record: a page has room for one record.       *)
EXTENDS HeapRecovery, TLC

CONSTANTS a, b        \* what a record says

Records == {[len |-> 1, val |-> v] : v \in {a, b}}
Symmetry == Permutations({a, b})
=============================================================================
