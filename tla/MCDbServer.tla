----------------------------- MODULE MCDbServer -----------------------------
(* A database that Init() discovers and one whose file it passes over.     *)
EXTENDS DbServer, TLC

Pages == 0 .. 2
Objects == Permutations(Instances)
=============================================================================
