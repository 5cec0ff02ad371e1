--------------------------- MODULE MCTableManager ---------------------------
(* The catalog of MCCatalog under a TableManager. *)
EXTENDS MCCatalog, TableManager
=============================================================================
