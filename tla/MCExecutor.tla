----------------------------- MODULE MCExecutor -----------------------------
(* The heap of MCHeapScan under plans with each pair of operators in both
   orders, a limit of none, and a limit below a filter that rejects.       *)
EXTENDS MCHeapScan, Executor

TwoColumns == "t" :> <<"page", "slot">>
DecodedPlace(p, s) == <<p, s>>

Limit(n) == [type |-> "Limit", limit |-> n]
ProjectTo(columns) == [type |-> "Project", columns |-> columns]
LaterPages == [type |-> "Filter", column |-> "page", among |-> 1 .. 3]
SecondSlots == [type |-> "Filter", column |-> "slot", among |-> 1 .. 3]

Over(table, nodes) == [table |-> table, nodes |-> nodes]

QueryPlans ==
  {Over("none", <<Limit(1)>>)} \cup
  {Over("t", nodes) : nodes \in
     {<<>>, <<Limit(0)>>,
      <<Limit(1), ProjectTo({"page"}), LaterPages>>,
      <<LaterPages, Limit(3), ProjectTo({"slot", "page"})>>,
      <<SecondSlots, ProjectTo({"slot"}), Limit(3)>>,
      <<Limit(2), SecondSlots, Limit(3), ProjectTo({"slot"})>>}}
=============================================================================
