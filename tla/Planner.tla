------------------------------ MODULE Planner ------------------------------
(***************************************************************************)
(* PhysicalPlanner::Build(): the operators of a logical plan, and what the *)
(* plan asks for, defined over the rows of its table by column name.       *)
(*                                                                         *)
(* A logical plan is a LogicalScan under a chain of other nodes, as each   *)
(* of those has one child: [table, nodes], the root first.  The predicates *)
(* of the repository are opaque; here a filter tests one column.           *)
(* CompilePredicate(), ColumnsToPositions() and BuildOutputSchema() are    *)
(* declared and not defined: they are taken to find a column by its name   *)
(* in the tuples of the child, and to keep the order ProjectionOp keeps.   *)
(***************************************************************************)
EXTENDS Integers, Sequences, SequencesExt, FiniteSets

CONSTANTS Schema,    \* table name -> its column names
          Plans      \* logical plans

\* The columns of a table have names of their own.
ASSUME SchemaAssumption ==
  \A t \in DOMAIN Schema :
    /\ Schema[t] \in Seq(ToSet(Schema[t]))
    /\ \A c, d \in DOMAIN Schema[t] : Schema[t][c] = Schema[t][d] => c = d

PositionIn(names, column) == CHOOSE i \in DOMAIN names : names[i] = column

Below(S, x) == {y \in S : y < x}

\* The k-th smallest number of S.
Kth(S, k) == CHOOSE x \in S : Cardinality(Below(S, x)) = k - 1

\* The values of t at the positions in cols, in the order of the columns.
Project(t, cols) ==
  LET kept == cols \cap DOMAIN t
  IN  [k \in 1 .. Cardinality(kept) |-> t[Kth(kept, k)]]

NamedIn(names, columns) == {i \in DOMAIN names : names[i] \in columns}

\* The column names of the tuples that node i of a plan delivers; those of the
\* table below the last node.
BuildOutputSchema(q) ==
  LET schema[i \in 1 .. Len(q.nodes) + 1] ==
        IF i > Len(q.nodes) THEN Schema[q.table]
        ELSE IF q.nodes[i].type = "Project"
             THEN Project(schema[i + 1], NamedIn(schema[i + 1], q.nodes[i].columns))
        ELSE schema[i + 1]
  IN  schema

ColumnsToPositions(q, i) == NamedIn(BuildOutputSchema(q)[i + 1], q.nodes[i].columns)

CompilePredicate(q, i) ==
  [op |-> "filter", among |-> q.nodes[i].among,
   at |-> PositionIn(BuildOutputSchema(q)[i + 1], q.nodes[i].column)]

\* A plan has nodes of three kinds; a predicate is about a column of the child.
ASSUME PlansAssumption ==
  \A q \in Plans : q.table \in DOMAIN Schema =>
    /\ q.nodes \in Seq(ToSet(q.nodes))
    /\ \A i \in 1 .. Len(q.nodes) :
         \/ q.nodes[i].type = "Project"
         \/ q.nodes[i].type = "Limit" /\ q.nodes[i].limit \in Nat
         \/ /\ q.nodes[i].type = "Filter"
            /\ q.nodes[i].column \in ToSet(BuildOutputSchema(q)[i + 1])

\* Build(), when OpenTable() does not throw: the operators over the SeqScanOp,
\* the root first.
Build(q) ==
  [i \in 1 .. Len(q.nodes) |->
     CASE q.nodes[i].type = "Filter" -> CompilePredicate(q, i)
       [] q.nodes[i].type = "Project" -> [op |-> "project", cols |-> ColumnsToPositions(q, i)]
       [] q.nodes[i].type = "Limit" -> [op |-> "limit", n |-> q.nodes[i].limit]]

----------------------------------------------------------------------------
\* A tuple with its schema: values by column name.
Named(names, t) == [c \in ToSet(names) |-> t[PositionIn(names, c)]]

\* Of the rows of its table, those that node i of a plan lets through: a filter
\* those of its child with the right value, a limit the first ones of its child.
Chosen(q, rows) ==
  LET chosen[i \in 1 .. Len(q.nodes) + 1] ==
        IF i > Len(q.nodes) THEN DOMAIN rows
        ELSE LET node == q.nodes[i] IN
             {r \in chosen[i + 1] :
                /\ node.type = "Filter" => rows[r][node.column] \in node.among
                /\ node.type = "Limit" =>
                     Cardinality(Below(chosen[i + 1], r)) < node.limit}
  IN  chosen

\* The columns of the table that every projection of the plan keeps.
Columns(q) ==
  {c \in ToSet(Schema[q.table]) :
     \A i \in 1 .. Len(q.nodes) : q.nodes[i].type = "Project" => c \in q.nodes[i].columns}

\* What plan q asks for of the rows of its table, each of them by column name.
Meaning(q, rows) ==
  LET chosen == Chosen(q, rows)[1]
  IN  [k \in 1 .. Cardinality(chosen) |-> [c \in Columns(q) |-> rows[Kth(chosen, k)][c]]]
=============================================================================
