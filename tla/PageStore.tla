----------------------------- MODULE PageStore -----------------------------
(***************************************************************************)
(* What the buffer pool promises: a store of pages with a volatile and a   *)
(* stable copy.  A reader is always shown the last write.  A page moves to *)
(* the stable copy when everything is flushed, or at a time the store      *)
(* picks while nobody holds the page; when the process ends, each page     *)
(* falls back to its stable copy.                                          *)
(***************************************************************************)
EXTENDS Naturals

CONSTANTS Page,      \* page ids
          Content,   \* what callers store in a page
          Unwritten, \* a page nobody wrote: what a reader is shown is arbitrary
          Frame,     \* as many as pages can be held at once
          MaxPin     \* bound: pins held on one page

VARIABLES content,   \* page -> what a reader is shown
          stable,    \* page -> what survives the process
          pins,      \* page -> how often it is held
          ret        \* "ok", or "throws"

vars == <<content, stable, pins, ret>>

Held == {p \in Page : pins[p] > 0}

\* Every frame is taken by a page of its own that is held.
Full ==
  \E holder \in [Frame -> Held] : \A f, g \in Frame : holder[f] = holder[g] => f = g

\* Of the pages in S, the stable copy catches up with the volatile one.
Synced(S) == [p \in Page |-> IF p \in S THEN content[p] ELSE stable[p]]

----------------------------------------------------------------------------
Init ==
  /\ content = [p \in Page |-> Unwritten]
  /\ stable = [p \in Page |-> Unwritten]
  /\ pins = [p \in Page |-> 0]
  /\ ret = "ok"

Fetch(p) ==
  /\ pins[p] < MaxPin
  /\ pins' = [pins EXCEPT ![p] = @ + 1]
  /\ \/ stable' = stable
     \/ \E q \in Page \ Held : stable' = Synced({q})
  /\ ret' = "ok"
  /\ UNCHANGED content

FetchFails(p) ==
  /\ pins[p] = 0
  /\ Full
  /\ ret' = "throws"
  /\ UNCHANGED <<content, stable, pins>>

Release(p) ==
  /\ pins[p] > 0
  /\ pins' = [pins EXCEPT ![p] = @ - 1]
  /\ ret' = "ok"
  /\ UNCHANGED <<content, stable>>

ReleaseFails(p) ==
  /\ pins[p] = 0
  /\ ret' = "throws"
  /\ UNCHANGED <<content, stable, pins>>

Write(p, c) ==
  /\ pins[p] > 0
  /\ content' = [content EXCEPT ![p] = c]
  /\ ret' = "ok"
  /\ UNCHANGED <<stable, pins>>

FlushAll ==
  /\ stable' = content
  /\ ret' = "ok"
  /\ UNCHANGED <<content, pins>>

Restart(S) ==
  /\ stable' = Synced(S)
  /\ content' = stable'
  /\ pins' = [p \in Page |-> 0]
  /\ ret' = "ok"

Next ==
  \/ \E p \in Page :
       \/ Fetch(p) \/ FetchFails(p)
       \/ Release(p) \/ ReleaseFails(p)
       \/ \E c \in Content : Write(p, c)
  \/ FlushAll
  \/ \E S \in SUBSET Page : Restart(S)

Spec == Init /\ [][Next]_vars
=============================================================================
