---------------------------- MODULE HeapRecovery ----------------------------
(***************************************************************************)
(* The heaps of HeapFile over a file that outlives the process.  content   *)
(* is what request() shows; a page is written back whenever a request()    *)
(* evicts its frame, so that the file holds any mix of old and new pages   *)
(* until flush_all().  What the file may hold if the process ends within a *)
(* call, it may also hold at the call's end.                               *)
(***************************************************************************)
EXTENDS HeapFile

VARIABLES file,       \* page -> its bytes on disk
          kept        \* history: RIDs flushed, and not updated or deleted since

recoveryVars == <<vars, file, kept>>

Disk == INSTANCE DiskFile WITH Content <- {}

----------------------------------------------------------------------------
RecoveryInit ==
  /\ Init
  /\ file = [p \in Page |-> Unwritten]
  /\ kept = {}

Call ==
  /\ \E h \in Heap :
       \/ Adds(h) /\ kept' = kept
       \/ \E p \in Page : \E s \in Slots(p) :
            Changes(h, p, s) /\ kept' = kept \ {<<p, s>>}
  /\ UNCHANGED file

\* Some request() evicts the frame of p.
WriteBack(p) ==
  /\ Exists(p)
  /\ file' = [file EXCEPT ![p] = content[p]]
  /\ UNCHANGED <<vars, kept>>

\* Pages that nobody initialised are in no frame that is dirty.
FlushAll ==
  /\ file' = [p \in Page |-> IF Exists(p) THEN content[p] ELSE file[p]]
  /\ kept' = UsedRIDs
  /\ UNCHANGED vars

\* Mutants of NextFromFile: the constructor starts from 0; GetNumPages() returns
\* the last page, not the count.
NextFromZero == 0
NextFromLastPage == CHOOSE n \in 0 .. MaxPages :
  Disk!PastEnd(file, n + 1) /\ (n > 0 => ~ Disk!PastEnd(file, n))

\* DiskManager's constructor counts the pages in the file.
NextFromFile == CHOOSE n \in 0 .. MaxPages :
  Disk!PastEnd(file, n) /\ (n > 0 => ~ Disk!PastEnd(file, n - 1))

\* The process ends, and another one opens the heaps whose first page is there.  A
\* hole is read as zeros.
Reopen ==
  /\ content' = [p \in Page |-> Disk!ReadPage(file, p, Unwritten)]
  /\ nextPageId' = NextFromFile
  /\ first' = [h \in Heap |->
                 IF first[h] # InvalidPage /\ file[first[h]] # Unwritten
                 THEN first[h] ELSE InvalidPage]
  /\ UNCHANGED <<ret, file, kept>>

RecoveryNext == Call \/ (\E p \in Page : WriteBack(p)) \/ FlushAll

\* Runs of the program that may end at any time.
CrashSpec == RecoveryInit /\ [][RecoveryNext \/ Reopen]_recoveryVars

----------------------------------------------------------------------------
(* Properties                                                              *)

\* A record that was flushed and not touched since survives a crash at any
\* later point: it is in its page under its RID, and the page is still on the
\* chain of its heap, however many of the later pages were lost.
FlushedRecordsSurvive ==
  [][\A r \in kept \cap kept' :
       /\ r \in UsedRIDs'
       /\ RecordAt(r)' = RecordAt(r)
       /\ \A h \in Heap :
            r[1] \in Chain(first[h]) => r[1] \in Chain(first[h])']_recoveryVars
=============================================================================
