----------------------------- MODULE MCRowCodec -----------------------------
(* Strings of every length around one and two alignments, before, between and
   after integers, and a table without columns.                            *)
EXTENDS RowCodec

TableSchemas ==
  {<<>>, <<"TEXT">>, <<"INT", "TEXT", "INT">>, <<"TEXT", "TEXT", "INT">>,
   <<"TEXT", "INT", "TEXT", "TEXT">>}

Values ==
  {Fixed(4, n) : n \in {0, 3}} \cup {Fixed(2, 1), Fixed(16, 1), Fixed(16, 2)}
    \cup {Text(n, 0) : n \in 0 .. 5}
=============================================================================
