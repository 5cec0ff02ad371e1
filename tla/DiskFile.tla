------------------------------ MODULE DiskFile ------------------------------
(***************************************************************************)
(* The database file as DiskManager's fstream reads and writes it.  The    *)
(* file ends with the last page ever written.  A page before that end that *)
(* was never written is a hole and reads as zeros; a read at or past the   *)
(* end fails and leaves the caller's buffer as it was.                     *)
(***************************************************************************)
EXTENDS Integers

CONSTANTS Page,       \* page ids
          Content,    \* what callers store in a page
          Zero,       \* the content of a hole
          Unwritten   \* in the file: no WritePage has reached this page

ASSUME PageAssumption == Page \subseteq Nat
ASSUME ContentAssumption == Unwritten \notin Content \cup {Zero}

\* What a buffer of PAGE_SIZE bytes may hold.
Buffer == Content \cup {Zero}

\* In the operators, disk maps each page id to its bytes in the file.

\* GetNumPages() <= p
PastEnd(disk, p) == \A q \in Page : q >= p => disk[q] = Unwritten

\* What ReadPage(p, buf) leaves in buf.
ReadPage(disk, p, buf) ==
  IF disk[p] # Unwritten THEN disk[p]
  ELSE IF PastEnd(disk, p) THEN buf ELSE Zero

\* The file after WritePage(p, buf).
WritePage(disk, p, buf) == [disk EXCEPT ![p] = buf]
=============================================================================
