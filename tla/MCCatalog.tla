------------------------------ MODULE MCCatalog ------------------------------
(* Names whose row fills what the catalog's own rows leave of their page, fits
   in it more than once, or fits no page; and columns of two sizes, where the
   catalog's own leave room for one of the smaller.                        *)
EXTENDS Catalog, TLC

Sizes ==
  "db_tables" :> 1 @@ "db_attributes" :> 1 @@ "db_types" :> 1
    @@ "users" :> 9 @@ "long" :> 13

Schemas == {<<>>, <<2, 1>>}
=============================================================================
