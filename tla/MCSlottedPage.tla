--------------------------- MODULE MCSlottedPage ---------------------------
(* A page of 8 bytes, 6 of them shared by slots and records of up to 3.    *)
EXTENDS SlottedPage, TLC

Bytes == Permutations(Byte)
=============================================================================
