------------------------------ MODULE Executor ------------------------------
(***************************************************************************)
(* Executor and its operators over the scan of HeapScan.  The planner turns *)
(* a query into a plan: a chain of LimitOp, FilterOp and ProjectionOp over  *)
(* one SeqScanOp, or nothing when there is no such table.  Next() of the    *)
(* root pulls a tuple through the chain; ExecuteAndCollect() pulls until    *)
(* there is none, as may any caller that makes other calls between two      *)
(* pulls.  While no plan is open the heap is scanned directly, as the       *)
(* lookups of the catalog do.                                               *)
(*                                                                          *)
(* The bytes of a row are known by what UserTable::Decode() makes of them.  *)
(***************************************************************************)
EXTENDS HeapScan, Planner

CONSTANT Decode(_, _)   \* page, slot -> the tuple that is stored there

VARIABLES query,     \* the logical plan
          plan,      \* _plan: the operators over the scan, the root first, each of them
                     \* [op: "limit", n], [op: "filter", at, among] or [op: "project", cols]
          phase,     \* "query", then "refused" or "new", "open": the caller may pull,
                     \* "pull": an operator pulls, "scan": SeqScanOp is in
                     \* HeapIterator::Next(), "done"
          from,      \* the operator whose Next() is called next; below the last, the scan
          produced,  \* LimitOp::_produced, by the operator's place in the plan
          result,    \* what was collected
          lost       \* history: a record left its frame before it was decoded

execVars == <<query, plan, phase, from, produced, result, lost>>
allVars == <<scanVars, execVars>>

----------------------------------------------------------------------------
IsLimit(i) == plan[i].op = "limit"

\* Next() of operator i meets a LimitOp that has produced its tuples on the way
\* down: it, and with it every operator above, returns nullopt.
Exhausted(i) ==
  \E j \in i .. Len(plan) : IsLimit(j) /\ produced[j] >= plan[j].n

\* What operator i makes of t, a tuple of the scan that no operator rejects.
Output(t) ==
  LET out[i \in 1 .. Len(plan) + 1] ==
        IF i > Len(plan) THEN t
        ELSE IF plan[i].op = "project" THEN Project(out[i + 1], plan[i].cols)
        ELSE out[i + 1]
  IN  out

\* The operators that would reject t: FilterOps of whose child it is no match.
Rejecting(t) ==
  {i \in 1 .. Len(plan) : plan[i].op = "filter" /\ Output(t)[i + 1][plan[i].at] \notin plan[i].among}

\* A tuple was passed up by the operators from i on.
PassedFrom(i) ==
  produced' = [j \in DOMAIN produced |->
                 IF j >= i /\ IsLimit(j) THEN produced[j] + 1 ELSE produced[j]]

\* Decode() of the last record reads the frame, whatever page is in it by now.
Decoded == Decode(pageId[rec.frame], rec.slot)
Lost == pageId[rec.frame] # rec.page

----------------------------------------------------------------------------
ExecInit ==
  /\ ScanInit
  /\ query \in Plans
  /\ plan = <<>> /\ produced = <<>>
  /\ phase = "query"
  /\ from = 1
  /\ result = <<>>
  /\ lost = FALSE

\* Build(), and the constructors of the operators.  OpenTable() throws at a name
\* the catalog does not have.
PlanQuery ==
  /\ phase = "query"
  /\ IF query.table \in DOMAIN Schema
     THEN /\ phase' = "new"
          /\ plan' = Build(query)
          /\ produced' = [i \in 1 .. Len(plan') |-> 0]
     ELSE phase' = "refused" /\ UNCHANGED <<plan, produced>>
  /\ UNCHANGED <<scanVars, query, from, result, lost>>

\* Mutant of Open: LimitOp does not start again.
OpenKeepsCount ==
  /\ phase \in {"new", "done"}
  /\ Begin
  /\ phase' = "open" /\ from' = 1
  /\ result' = <<>> /\ lost' = FALSE
  /\ UNCHANGED <<query, plan, produced>>

\* Open() of every operator: SeqScanOp takes a new iterator.
Open ==
  /\ phase \in {"new", "done"}
  /\ Begin
  /\ phase' = "open" /\ from' = 1
  /\ produced' = [i \in 1 .. Len(plan) |-> 0]
  /\ result' = <<>> /\ lost' = FALSE
  /\ UNCHANGED <<query, plan>>

Pulling == phase \in {"open", "pull"} /\ pc = "idle"

\* Next() reaches the scan.
Pull ==
  /\ Pulling
  /\ ~ Exhausted(from)
  /\ NextRequest
  /\ phase' = "scan"
  /\ UNCHANGED <<query, plan, from, produced, result, lost>>

\* nullopt from a limit or from the scan goes all the way up; Close().
Ends ==
  /\ Pulling
  /\ Exhausted(from) \/ ~ hasNext
  /\ phase' = "done"
  /\ UNCHANGED <<scanVars, query, plan, from, produced, result, lost>>

\* The first FilterOp on the way up that rejects the tuple pulls the next one.
Reject ==
  /\ phase = "scan" /\ pc = "idle"
  /\ \E i \in Rejecting(Decoded) :
       /\ \A j \in Rejecting(Decoded) : j <= i
       /\ from' = i + 1
       /\ PassedFrom(i + 1)
  /\ phase' = "pull"
  /\ lost' = (lost \/ Lost)
  /\ UNCHANGED <<scanVars, query, plan, result>>

\* The tuple reaches the caller.
Deliver ==
  /\ phase = "scan" /\ pc = "idle"
  /\ Rejecting(Decoded) = {}
  /\ result' = Append(result, Output(Decoded)[1])
  /\ from' = 1
  /\ PassedFrom(1)
  /\ phase' = "open"
  /\ lost' = (lost \/ Lost)
  /\ UNCHANGED <<scanVars, query, plan>>

\* Steps of the heap's iterator and of other callers of the pool.
Within(A) == A /\ UNCHANGED execVars

ExecNext ==
  \/ PlanQuery \/ Open \/ Pull \/ Ends \/ Reject \/ Deliver
  \/ phase \in {"open", "scan"} /\ Within(InCall)
  \/ phase = "open" /\ Within(OtherRequest)
  \/ phase \in {"new", "refused", "done"} /\ Within(ScanNext)

\* One thread runs each call to its end, and a plan that was opened is pulled,
\* whatever other calls come between, until it ends.
Fairness ==
  /\ WF_allVars(Within(InCall))
  /\ WF_allVars(Reject) /\ WF_allVars(Deliver)
  /\ SF_allVars(Pull) /\ SF_allVars(Ends)

ExecSpec == ExecInit /\ [][ExecNext]_allVars /\ Fairness

----------------------------------------------------------------------------
(* Properties                                                              *)

\* The pages of the heap in the file: those in every set that has the first page
\* and the successors of its pages.
PagesOfHeap ==
  {p \in Page : \A S \in SUBSET Page :
     (0 \in S /\ \A q \in S : OnDisk[q].next \in S \cup {InvalidPage}) => p \in S}

\* The places of its rows, and their order in a scan, as links lead forward.
Places == UNION {{p} \X OnDisk[p].live : p \in PagesOfHeap}
Earlier(x, y) == x[1] < y[1] \/ (x[1] = y[1] /\ x[2] < y[2])

PlaceAt(k) == CHOOSE x \in Places : Cardinality({y \in Places : Earlier(y, x)}) = k - 1
Rows == [k \in 1 .. Cardinality(Places) |-> Decode(PlaceAt(k)[1], PlaceAt(k)[2])]

\* The rows have a value for each column of their table.
ASSUME DecodeAssumption ==
  \A t \in DOMAIN Schema : \A k \in DOMAIN Rows : DOMAIN Rows[k] = DOMAIN Schema[t]

\* What the query asks for, and what was delivered of it.
Wanted == Meaning(query, [k \in DOMAIN Rows |-> Named(Schema[query.table], Rows[k])])
Delivered == [k \in DOMAIN result |-> Named(BuildOutputSchema(query)[1], result[k])]

\* What a plan delivers is the query over the rows of the heap, in order, each
\* time it is opened: a prefix at any time, all of it at the end.  Only a record
\* that was evicted between Next() and Decode() falsifies it.
ResultIsQuery ==
  ~ lost =>
    /\ result # <<>> => IsPrefix(Delivered, Wanted)
    /\ phase = "done" => Delivered = Wanted

\* Every plan that is opened ends, whatever the pool evicts under it.
QueryEnds == (phase = "open") ~> (phase = "done")
=============================================================================
