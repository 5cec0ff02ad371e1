------------------------- MODULE SlottedPage_proofs -------------------------
(***************************************************************************)
(* Proofs about SlottedPage for every page size, header size, slot size    *)
(* and record length.  The invariant is inductive as a whole: LayoutOK     *)
(* bounds what Append() and Relocate() take, which keeps the offsets in    *)
(* range, the records apart and the directory whole.                       *)
(***************************************************************************)
EXTENDS SlottedPage, TLAPS

Inv == TypeOK /\ LayoutOK /\ RecordsDisjoint /\ DirectoryIntact

\* The directory grows by one slot at a time and starts after the headers.
LEMMA DirEndGrows ==
  /\ DirEnd(0) = BaseOffset + HeaderSize
  /\ \A n \in Nat : /\ DirEnd(n) \in Nat
                    /\ DirEnd(n + 1) = DirEnd(n) + SlotSize
BY SizeAssumption DEF DirEnd

\* Every outcome may come with every record.
LEMMA CallFacts ==
  \A how \in {"accepted", "refused", "noslot"}, d \in Data \cup {NoRecord} :
    <<how, d>> \in Calls
BY DEF Calls

\* A record that a caller passes.
LEMMA DataFacts ==
  ASSUME NEW d \in Data
  PROVE  d.len \in Nat /\ d.byte \in [0 .. d.len - 1 -> Byte]
BY SizeAssumption DEF Data

\* Where the directory and the data do not overlap, FreeSpace() is the gap.
LEMMA FreeSpaceIsGap ==
  ASSUME DirEnd(numSlots) <= freeSpaceOffset
  PROVE  FreeSpace = freeSpaceOffset - DirEnd(numSlots)
BY DEF FreeSpace

\* memcpy() of a record writes bytes of records in its range and nothing else.
LEMMA CopyFacts ==
  ASSUME NEW m \in [Addr -> Byte \cup {Meta}], NEW at \in Nat, NEW d \in Data
  PROVE  /\ Copy(m, at, d) \in [Addr -> Byte \cup {Meta}]
         /\ \A a \in Addr : a \notin at .. at + d.len - 1 => Copy(m, at, d)[a] = m[a]
         /\ \A a \in Addr : a \in at .. at + d.len - 1 => Copy(m, at, d)[a] \in Byte
<1>1. d.len \in Nat /\ d.byte \in [0 .. d.len - 1 -> Byte]
  BY DataFacts
<1>2. ASSUME NEW a \in Addr, a \in at .. at + d.len - 1
      PROVE  a - at \in 0 .. d.len - 1
  BY <1>1, <1>2, SizeAssumption DEF Addr
<1>3. \A a \in Addr : Copy(m, at, d)[a] =
                        IF a \in at .. at + d.len - 1 THEN d.byte[a - at] ELSE m[a]
  BY DEF Copy
<1>4. \A a \in Addr : a \in at .. at + d.len - 1 => Copy(m, at, d)[a] \in Byte
  BY <1>1, <1>2, <1>3
<1>5. Copy(m, at, d) \in [Addr -> Byte \cup {Meta}]
  BY <1>3, <1>4 DEF Copy
<1> QED
  BY <1>3, <1>4, <1>5

LEMMA InitInv == Init => Inv
<1> SUFFICES ASSUME Init PROVE Inv
  OBVIOUS
<1>1. TypeOK
  BY SizeAssumption, ByteAssumption, CallFacts DEF Init, TypeOK, Addr
<1>2. LayoutOK /\ RecordsDisjoint
  BY DirEndGrows, SizeAssumption DEF Init, LayoutOK, RecordsDisjoint
<1>3. DirectoryIntact
  BY DirEndGrows, SizeAssumption, ByteAssumption DEF Init, DirectoryIntact, Addr
<1> QED
  BY <1>1, <1>2, <1>3 DEF Inv

\* The entries of the slot directory are pairs of numbers within the page.
LEMMA SlotFacts ==
  ASSUME TypeOK
  PROVE  \A t \in 0 .. numSlots - 1 :
           /\ slots[t] = [offset |-> slots[t].offset, length |-> slots[t].length]
           /\ slots[t].offset \in 0 .. PageSize
           /\ slots[t].length \in 0 .. PageSize
BY DEF TypeOK

\* What Insert() adds: the record lies between the directory, one slot longer,
\* and the old data.
LEMMA AppendRoom ==
  ASSUME Inv, NEW d \in Data, ~ NoRoom(d.len + SlotSize)
  PROVE  /\ freeSpaceOffset - d.len \in 0 .. PageSize
         /\ DirEnd(numSlots + 1) <= freeSpaceOffset - d.len
         /\ d.len \in 0 .. PageSize
<1>1. FreeSpace = freeSpaceOffset - DirEnd(numSlots)
  BY FreeSpaceIsGap DEF Inv, LayoutOK
<1>2. DirEnd(numSlots) \in Nat /\ DirEnd(numSlots + 1) = DirEnd(numSlots) + SlotSize
  BY DirEndGrows DEF Inv, TypeOK
<1>3. freeSpaceOffset \in 0 .. PageSize /\ d.len \in Nat
  BY DataFacts DEF Inv, TypeOK
<1> QED
  BY <1>1, <1>2, <1>3, SizeAssumption DEF NoRoom

LEMMA AppendInv ==
  ASSUME Inv, NEW d \in Data, ~ NoRoom(d.len + SlotSize), Append(d)
  PROVE  Inv'
<1> DEFINE at == freeSpaceOffset - d.len
           new == [offset |-> at, length |-> d.len]
<1> USE SizeAssumption
<1>1. /\ at \in 0 .. PageSize
      /\ DirEnd(numSlots + 1) <= at
      /\ d.len \in 0 .. PageSize
  BY AppendRoom
<1>2. /\ numSlots \in Nat
      /\ freeSpaceOffset \in 0 .. PageSize
      /\ DirEnd(numSlots) \in Nat
      /\ DirEnd(numSlots + 1) = DirEnd(numSlots) + SlotSize
  BY DirEndGrows DEF Inv, TypeOK
<1>3. /\ numSlots' = numSlots + 1
      /\ freeSpaceOffset' = at
      /\ slots' = [s \in 0 .. numSlots |-> IF s = numSlots THEN new ELSE slots[s]]
      /\ mem' = MarkMeta(Copy(mem, at, d), DirEnd(numSlots), SlotSize)
      /\ ret' = <<"accepted", d>>
  BY DEF Append
<1>4. \A s \in 0 .. numSlots' - 1 :
        \/ s = numSlots /\ slots'[s] = new
        \/ s \in 0 .. numSlots - 1 /\ slots'[s] = slots[s]
  BY <1>2, <1>3
<1>5. Copy(mem, at, d) \in [Addr -> Byte \cup {Meta}]
  <2>1. at \in Nat /\ mem \in [Addr -> Byte \cup {Meta}]
    BY <1>1 DEF Inv, TypeOK
  <2> HIDE DEF at
  <2> QED
    BY <2>1, CopyFacts
<1>6. TypeOK'
  <2>1. slots' \in [0 .. numSlots' - 1 -> [offset : 0 .. PageSize, length : 0 .. PageSize]]
    BY <1>1, <1>2, <1>3 DEF Inv, TypeOK
  <2>2. mem' \in [Addr -> Byte \cup {Meta}]
    BY <1>3, <1>5 DEF MarkMeta
  <2> QED
    BY <1>1, <1>2, <1>3, <2>1, <2>2, CallFacts DEF TypeOK
<1>7. LayoutOK'
  <2>1. DirEnd(numSlots)' = DirEnd(numSlots + 1)
    BY <1>3 DEF DirEnd
  <2>2. ASSUME NEW s \in 0 .. numSlots' - 1, slots'[s].length > 0
        PROVE  /\ freeSpaceOffset' <= slots'[s].offset
               /\ slots'[s].offset + slots'[s].length <= PageSize
    <3>1. CASE s = numSlots /\ slots'[s] = new
      BY <3>1, <1>1, <1>2, <1>3
    <3>2. CASE s \in 0 .. numSlots - 1 /\ slots'[s] = slots[s]
      <4>1. /\ freeSpaceOffset <= slots[s].offset
            /\ slots[s].offset + slots[s].length <= PageSize
        BY <2>2, <3>2 DEF Inv, LayoutOK, Live
      <4>2. slots[s].offset \in 0 .. PageSize
        BY <3>2, SlotFacts DEF Inv
      <4>3. freeSpaceOffset' <= freeSpaceOffset
        BY <1>1, <1>2, <1>3
      <4>4. freeSpaceOffset' \in 0 .. PageSize
        BY <1>1, <1>3
      <4>5. freeSpaceOffset' <= slots[s].offset
        BY <1>2, <4>1, <4>2, <4>3, <4>4
      <4> QED
        BY <3>2, <4>1, <4>5
    <3> QED
      BY <1>4, <3>1, <3>2
  <2> QED
    BY <1>1, <1>3, <2>1, <2>2 DEF LayoutOK, Live
<1>8. RecordsDisjoint'
  <2>1. ASSUME NEW s \in 0 .. numSlots - 1, slots[s].length > 0
        PROVE  at + d.len <= slots[s].offset
    BY <2>1, <1>1, <1>2 DEF Inv, LayoutOK, Live
  <2> QED
    BY <1>1, <1>4, <2>1 DEF Inv, RecordsDisjoint, Live
<1>9. DirectoryIntact'
  <2>1. DirEnd(numSlots)' = DirEnd(numSlots + 1)
    BY <1>3 DEF DirEnd
  <2>2. \A a \in Addr : mem'[a] = IF a \in DirEnd(numSlots) .. DirEnd(numSlots) + SlotSize - 1
                                  THEN Meta ELSE Copy(mem, at, d)[a]
    BY <1>3 DEF MarkMeta
  <2>3. /\ \A a \in Addr : a \notin at .. at + d.len - 1 => Copy(mem, at, d)[a] = mem[a]
        /\ \A a \in Addr : a \in at .. at + d.len - 1 => Copy(mem, at, d)[a] \in Byte
    BY <1>1, CopyFacts DEF Inv, TypeOK
  <2>4. ASSUME NEW a \in Addr, a < DirEnd(numSlots + 1)
        PROVE  mem'[a] = Meta
    BY <2>2, <2>3, <2>4, <1>1, <1>2 DEF Addr, Inv, DirectoryIntact
  <2>5. ASSUME NEW a \in Addr, a >= at
        PROVE  mem'[a] # Meta
    BY <2>2, <2>3, <2>5, <1>1, <1>2, ByteAssumption DEF Addr, Inv, DirectoryIntact
  <2> QED
    BY <1>3, <2>1, <2>4, <2>5 DEF DirectoryIntact
<1> QED
  BY <1>6, <1>7, <1>8, <1>9 DEF Inv

\* Update() of a record that does not grow.
LEMMA OverwriteInv ==
  ASSUME Inv, NEW d \in Data, NEW s \in 0 .. numSlots - 1,
         slots[s].length >= d.len, Overwrite(s, d)
  PROVE  Inv'
<1> USE SizeAssumption
<1>1. /\ d.len \in Nat
      /\ mem \in [Addr -> Byte \cup {Meta}]
      /\ numSlots \in Nat /\ freeSpaceOffset \in 0 .. PageSize
      /\ DirEnd(numSlots) \in Nat
  BY DataFacts, DirEndGrows DEF Inv, TypeOK
<1>2. /\ numSlots' = numSlots /\ freeSpaceOffset' = freeSpaceOffset
      /\ slots' = [slots EXCEPT ![s].length = d.len]
      /\ mem' = Copy(mem, slots[s].offset, d)
      /\ ret' = <<"accepted", d>>
  BY DEF Overwrite
<1>3. \A t \in 0 .. numSlots - 1 :
        /\ slots[t].offset \in 0 .. PageSize
        /\ slots[t].length \in 0 .. PageSize
  BY SlotFacts DEF Inv
<1>4. d.len \in 0 .. PageSize
  BY <1>1, <1>3
<1>5. slots' \in [0 .. numSlots - 1 -> [offset : 0 .. PageSize, length : 0 .. PageSize]]
  BY <1>2, <1>4 DEF Inv, TypeOK
<1>6. \A t \in 0 .. numSlots - 1 :
        /\ slots'[t].offset = slots[t].offset
        /\ slots'[t].length = IF t = s THEN d.len ELSE slots[t].length
  BY <1>2 DEF Inv, TypeOK
<1>7. \A t \in 0 .. numSlots - 1 :
        /\ slots'[t].length \in Nat
        /\ slots'[t].length <= slots[t].length
  BY <1>1, <1>3, <1>6
<1>8. /\ mem' \in [Addr -> Byte \cup {Meta}]
      /\ \A a \in Addr :
           a \notin slots[s].offset .. slots[s].offset + d.len - 1 => mem'[a] = mem[a]
      /\ \A a \in Addr :
           a \in slots[s].offset .. slots[s].offset + d.len - 1 => mem'[a] \in Byte
  <2>1. slots[s].offset \in Nat
    BY <1>3
  <2> QED
    BY <1>1, <1>2, <2>1, CopyFacts
<1>9. DirEnd(numSlots)' = DirEnd(numSlots)
  BY <1>2 DEF DirEnd
<1>10. TypeOK'
  BY <1>1, <1>2, <1>5, <1>8, CallFacts DEF TypeOK
<1>11. LayoutOK'
  BY <1>1, <1>2, <1>3, <1>6, <1>7, <1>9 DEF Inv, LayoutOK, Live
<1>12. RecordsDisjoint'
  BY <1>1, <1>2, <1>3, <1>6, <1>7 DEF Inv, RecordsDisjoint, Live
<1>13. DirectoryIntact'
  <2>1. d.len > 0 => freeSpaceOffset <= slots[s].offset /\ DirEnd(numSlots) <= freeSpaceOffset
    BY <1>1, <1>3 DEF Inv, LayoutOK, Live
  <2>2. \A a \in Addr : mem'[a] = mem[a] \/ (a >= freeSpaceOffset /\ mem'[a] \in Byte)
    <3>1. ASSUME NEW a \in Addr, a \in slots[s].offset .. slots[s].offset + d.len - 1
          PROVE  a >= freeSpaceOffset
      BY <1>1, <1>3, <2>1, <3>1 DEF Addr
    <3> QED
      BY <1>8, <3>1
  <2>3. DirEnd(numSlots) <= freeSpaceOffset
    BY DEF Inv, LayoutOK
  <2> QED
    BY <1>1, <1>2, <1>9, <2>2, <2>3, ByteAssumption DEF Inv, DirectoryIntact, Addr
<1> QED
  BY <1>10, <1>11, <1>12, <1>13 DEF Inv

\* Update() of a record that grows: it moves into the gap.
LEMMA RelocateInv ==
  ASSUME Inv, NEW d \in Data, NEW s \in 0 .. numSlots - 1,
         ~ NoRoom(d.len), Relocate(s, d)
  PROVE  Inv'
<1> DEFINE at == freeSpaceOffset - d.len
           new == [offset |-> at, length |-> d.len]
<1> USE SizeAssumption
<1>1. /\ d.len \in Nat
      /\ mem \in [Addr -> Byte \cup {Meta}]
      /\ numSlots \in Nat /\ freeSpaceOffset \in 0 .. PageSize
      /\ DirEnd(numSlots) \in Nat
  BY DataFacts, DirEndGrows DEF Inv, TypeOK
<1>2. DirEnd(numSlots) <= at /\ at \in 0 .. PageSize /\ d.len \in 0 .. PageSize
  BY <1>1, FreeSpaceIsGap DEF Inv, LayoutOK, NoRoom
<1>3. /\ numSlots' = numSlots /\ freeSpaceOffset' = at
      /\ slots' = [slots EXCEPT ![s] = new]
      /\ mem' = Copy(mem, at, d)
      /\ ret' = <<"accepted", d>>
  BY DEF Relocate
<1>4. \A t \in 0 .. numSlots - 1 :
        /\ slots[t].offset \in 0 .. PageSize
        /\ slots[t].length \in 0 .. PageSize
        /\ slots'[t].offset = IF t = s THEN at ELSE slots[t].offset
        /\ slots'[t].length = IF t = s THEN d.len ELSE slots[t].length
  BY <1>3, SlotFacts DEF Inv, TypeOK
<1>5. /\ mem' \in [Addr -> Byte \cup {Meta}]
      /\ \A a \in Addr : a \notin at .. at + d.len - 1 => mem'[a] = mem[a]
      /\ \A a \in Addr : a \in at .. at + d.len - 1 => mem'[a] \in Byte
  <2>1. at \in Nat
    BY <1>2
  <2> HIDE DEF at
  <2> QED
    BY <1>1, <1>3, <2>1, CopyFacts
<1>6. TypeOK'
  BY <1>1, <1>2, <1>3, <1>5, CallFacts DEF Inv, TypeOK
<1>7. LayoutOK'
  <2>1. DirEnd(numSlots)' = DirEnd(numSlots)
    BY <1>3 DEF DirEnd
  <2>2. ASSUME NEW t \in 0 .. numSlots - 1, slots'[t].length > 0
        PROVE  at <= slots'[t].offset /\ slots'[t].offset + slots'[t].length <= PageSize
    BY <1>1, <1>2, <1>4, <2>2 DEF Inv, LayoutOK, Live
  <2> QED
    BY <1>2, <1>3, <2>1, <2>2 DEF LayoutOK, Live
<1>8. RecordsDisjoint'
  <2>1. ASSUME NEW t \in 0 .. numSlots - 1, slots[t].length > 0
        PROVE  at + d.len <= slots[t].offset
    BY <2>1, <1>1, <1>4 DEF Inv, LayoutOK, Live
  <2> QED
    BY <1>1, <1>3, <1>4, <2>1 DEF Inv, RecordsDisjoint, Live
<1>9. DirectoryIntact'
  <2>1. DirEnd(numSlots)' = DirEnd(numSlots)
    BY <1>3 DEF DirEnd
  <2>2. ASSUME NEW a \in Addr, a < DirEnd(numSlots)
        PROVE  mem'[a] = Meta
    <3>1. a \notin at .. at + d.len - 1
      BY <1>1, <1>2, <2>2 DEF Addr
    <3>2. mem[a] = Meta
      BY <2>2 DEF Inv, DirectoryIntact
    <3> QED
      BY <1>5, <3>1, <3>2
  <2>3. ASSUME NEW a \in Addr, a >= at
        PROVE  mem'[a] # Meta
    <3>1. CASE a \in at .. at + d.len - 1
      BY <1>5, <3>1, ByteAssumption
    <3>2. CASE a \notin at .. at + d.len - 1
      <4>1. a >= freeSpaceOffset
        BY <1>1, <1>2, <2>3, <3>2 DEF Addr
      <4> QED
        BY <1>5, <3>2, <4>1 DEF Inv, DirectoryIntact
    <3> QED
      BY <3>1, <3>2
  <2> QED
    BY <1>3, <2>1, <2>2, <2>3 DEF DirectoryIntact
<1> QED
  BY <1>6, <1>7, <1>8, <1>9 DEF Inv

LEMMA DeleteInv ==
  ASSUME Inv, NEW s \in 0 .. numSlots - 1, Delete(s)
  PROVE  Inv'
<1> USE SizeAssumption
<1>1. /\ UNCHANGED <<numSlots, freeSpaceOffset, mem>>
      /\ ret' = <<"accepted", NoRecord>>
      /\ \A t \in 0 .. numSlots - 1 :
           /\ slots'[t].offset = slots[t].offset
           /\ slots'[t].length = IF t = s THEN 0 ELSE slots[t].length
      /\ slots' \in [0 .. numSlots - 1 -> [offset : 0 .. PageSize, length : 0 .. PageSize]]
  BY DEF Delete, Inv, TypeOK
<1>2. DirEnd(numSlots)' = DirEnd(numSlots)
  BY <1>1 DEF DirEnd
<1>3. TypeOK'
  BY <1>1, CallFacts DEF Inv, TypeOK
<1>4. \A t \in 0 .. numSlots - 1 :
        slots'[t].length > 0 => slots'[t] = slots[t] /\ slots[t].length > 0
  BY <1>1, SlotFacts DEF Delete, Inv
<1>5. LayoutOK' /\ RecordsDisjoint'
  BY <1>1, <1>2, <1>4 DEF Inv, LayoutOK, RecordsDisjoint, Live
<1>6. DirectoryIntact'
  BY <1>1, <1>2 DEF Inv, DirectoryIntact
<1> QED
  BY <1>3, <1>6, <1>5 DEF Inv

\* A call that is refused, that names no slot, or a stutter.
LEMMA SameInv ==
  ASSUME Inv, UNCHANGED <<numSlots, freeSpaceOffset, slots, mem>>,
         ret' \in Calls
  PROVE  Inv'
BY DEF Inv, TypeOK, LayoutOK, RecordsDisjoint, DirectoryIntact, Live, DirEnd

LEMMA NextInv == Inv /\ [Next]_vars => Inv'
<1> SUFFICES ASSUME Inv, [Next]_vars PROVE Inv'
  OBVIOUS
<1>1. ASSUME NEW d \in Data, Insert(d) PROVE Inv'
  <2>1. CASE NoRoom(d.len + SlotSize) /\ Refuse(d)
    BY <2>1, SameInv, CallFacts DEF Refuse
  <2>2. CASE ~ NoRoom(d.len + SlotSize) /\ Append(d)
    BY <2>2, AppendInv
  <2> QED
    BY <1>1, <2>1, <2>2 DEF Insert
<1>2. ASSUME NEW s \in 0 .. numSlots, NEW d \in Data, Update(s, d) PROVE Inv'
  <2>1. s \in 0 .. numSlots - 1
    BY <1>2 DEF Update, Inv, TypeOK
  <2>2. CASE slots[s].length >= d.len /\ Overwrite(s, d)
    BY <2>1, <2>2, OverwriteInv
  <2>3. CASE NoRoom(d.len) /\ Refuse(d)
    BY <2>3, SameInv, CallFacts DEF Refuse
  <2>4. CASE ~ NoRoom(d.len) /\ Relocate(s, d)
    BY <2>1, <2>4, RelocateInv
  <2> QED
    BY <1>2, <2>2, <2>3, <2>4 DEF Update
<1>3. ASSUME NEW s \in 0 .. numSlots, Delete(s) PROVE Inv'
  <2>1. s \in 0 .. numSlots - 1
    BY <1>3 DEF Delete, Inv, TypeOK
  <2> QED
    BY <1>3, <2>1, DeleteInv
<1>4. ASSUME NEW s \in 0 .. numSlots, NoSlot(s) PROVE Inv'
  BY <1>4, SameInv, CallFacts DEF NoSlot
<1>5. CASE UNCHANGED vars
  BY <1>5, SameInv DEF vars, Inv, TypeOK
<1> QED
  BY <1>1, <1>2, <1>3, <1>4, <1>5 DEF Next

\* On every page and for every sequence of calls the state is well typed.
THEOREM PageTypeCorrect == Spec => []TypeOK
<1>1. Inv => TypeOK
  BY DEF Inv
<1> QED
  BY <1>1, InitInv, NextInv, PTL DEF Spec

\* The slot directory and the record data never meet, so that FreeSpace() never
\* wraps, whatever the sizes of page, headers, slots and records.
THEOREM DirectoryMeetsNoData == Spec => []LayoutOK
<1>1. Inv => LayoutOK
  BY DEF Inv
<1> QED
  BY <1>1, InitInv, NextInv, PTL DEF Spec

\* No two live records ever share a byte.
THEOREM RecordsNeverOverlap == Spec => []RecordsDisjoint
<1>1. Inv => RecordsDisjoint
  BY DEF Inv
<1> QED
  BY <1>1, InitInv, NextInv, PTL DEF Spec

\* No record is ever written over a header or the slot directory.
THEOREM DirectoryStaysIntact == Spec => []DirectoryIntact
<1>1. Inv => DirectoryIntact
  BY DEF Inv
<1> QED
  BY <1>1, InitInv, NextInv, PTL DEF Spec

----------------------------------------------------------------------------
(* The page implements RecordPage.                                         *)

\* The gap is a number of bytes.
LEMMA FreeSpaceIsNat ==
  ASSUME Inv
  PROVE  FreeSpace \in Nat /\ FreeSpace = freeSpaceOffset - DirEnd(numSlots)
<1>1. numSlots \in Nat /\ freeSpaceOffset \in Nat /\ DirEnd(numSlots) <= freeSpaceOffset
  BY SizeAssumption DEF Inv, TypeOK, LayoutOK
<1>2. DirEnd(numSlots) \in Nat
  BY <1>1, DirEndGrows
<1> QED
  BY <1>1, <1>2, FreeSpaceIsGap

\* A record is its length and its bytes.
LEMMA RecordIsItsFields ==
  ASSUME NEW d \in Data
  PROVE  d = [len |-> d.len, byte |-> d.byte]
BY SizeAssumption DEF Data

\* What Get() returns depends on the slot and on the bytes of its record.
LEMMA GetUnchanged ==
  ASSUME NEW s,
         slots'[s].offset = slots[s].offset, slots'[s].length = slots[s].length,
         \A i \in 0 .. slots[s].length - 1 :
           mem'[slots[s].offset + i] = mem[slots[s].offset + i]
  PROVE  Get(s)' = Get(s)
BY DEF Get

\* A copied record is found at the place it was copied to.
LEMMA CopiedBytes ==
  ASSUME NEW m, NEW at \in Nat, NEW d \in Data, at + d.len <= PageSize
  PROVE  \A i \in 0 .. d.len - 1 : Copy(m, at, d)[at + i] = d.byte[i]
<1>1. d.len \in Nat
  BY DataFacts
<1> SUFFICES ASSUME NEW i \in 0 .. d.len - 1 PROVE Copy(m, at, d)[at + i] = d.byte[i]
  OBVIOUS
<1>2. at + i \in Addr /\ at + i \in at .. at + d.len - 1 /\ (at + i) - at = i
  BY <1>1, SizeAssumption DEF Addr
<1> QED
  BY <1>2 DEF Copy

LEMMA InitImplements == Init => Contract!Init
<1> SUFFICES ASSUME Init PROVE Contract!Init
  OBVIOUS
<1>1. FreeSpace = PageSize - DirEnd(0)
  BY FreeSpaceIsGap, DirEndGrows, SizeAssumption DEF Init
<1>2. Records = [s \in {} |-> [len |-> 0]]
  BY DEF Init, Records
<1> QED
  BY <1>1, <1>2 DEF Init, NoRecord, Contract!Init, Contract!EmptyPage, Contract!Tombstone

LEMMA AppendImplements ==
  ASSUME Inv, Inv', NEW d \in Data, ~ NoRoom(d.len + SlotSize), Append(d)
  PROVE  Contract!Insert(d)
<1> DEFINE at == freeSpaceOffset - d.len
<1> USE SizeAssumption
<1>1. /\ at \in 0 .. PageSize
      /\ DirEnd(numSlots + 1) <= at
      /\ numSlots \in Nat /\ freeSpaceOffset \in 0 .. PageSize /\ d.len \in Nat
      /\ DirEnd(numSlots) \in Nat
      /\ DirEnd(numSlots + 1) = DirEnd(numSlots) + SlotSize
  BY AppendRoom, DirEndGrows, DataFacts DEF Inv, TypeOK
<1>2. /\ numSlots' = numSlots + 1
      /\ freeSpaceOffset' = at
      /\ slots' = [s \in 0 .. numSlots |->
                     IF s = numSlots THEN [offset |-> at, length |-> d.len] ELSE slots[s]]
      /\ mem' = MarkMeta(Copy(mem, at, d), DirEnd(numSlots), SlotSize)
      /\ ret' = <<"accepted", d>>
  BY DEF Append
<1>3. /\ FreeSpace = freeSpaceOffset - DirEnd(numSlots)
      /\ FreeSpace' = FreeSpace - (d.len + SlotSize)
      /\ d.len + SlotSize <= FreeSpace
  <2>1. FreeSpace = freeSpaceOffset - DirEnd(numSlots)
    BY FreeSpaceIsGap DEF Inv, LayoutOK
  <2>2. DirEnd(numSlots)' = DirEnd(numSlots + 1)
    BY <1>2 DEF DirEnd
  <2>3. FreeSpace' = freeSpaceOffset' - DirEnd(numSlots)'
    BY <1>1, <1>2, <2>2 DEF FreeSpace
  <2>4. freeSpaceOffset' = freeSpaceOffset - d.len
    BY <1>2
  <2>5. FreeSpace' = freeSpaceOffset - d.len - DirEnd(numSlots + 1)
    BY <2>2, <2>3, <2>4
  <2>6. FreeSpace' = FreeSpace - (d.len + SlotSize)
    BY <1>1, <2>1, <2>5
  <2>7. d.len + SlotSize <= FreeSpace
    BY <1>1, <2>1
  <2> QED
    BY <2>1, <2>6, <2>7
<1>4. /\ mem \in [Addr -> Byte \cup {Meta}]
      /\ \A a \in Addr : a >= DirEnd(numSlots + 1) => mem'[a] = Copy(mem, at, d)[a]
  BY <1>1, <1>2 DEF Inv, TypeOK, MarkMeta, Addr
<1>5. ASSUME NEW s \in 0 .. numSlots - 1
      PROVE  Get(s)' = Get(s)
  <2>0. slots'[s] = slots[s]
    BY <1>1, <1>2
  <2>1. slots[s].offset \in 0 .. PageSize /\ slots[s].length \in 0 .. PageSize
    BY SlotFacts DEF Inv
  <2>2. ASSUME NEW i \in 0 .. slots[s].length - 1
        PROVE  mem'[slots[s].offset + i] = mem[slots[s].offset + i]
    <3>1. slots[s].length > 0 /\ i \in Nat /\ i < slots[s].length
      BY <2>1
    <3>2. /\ slots[s].offset + slots[s].length <= PageSize
          /\ slots[s].offset >= freeSpaceOffset
      BY <3>1 DEF Inv, LayoutOK, Live
    <3>5. /\ slots[s].offset + i \in Addr
          /\ slots[s].offset + i >= freeSpaceOffset
      BY <1>1, <2>1, <3>1, <3>2 DEF Addr
    <3>3. at \in Nat
      BY <1>1
    <3>4. \A a \in Addr : a \notin at .. at + d.len - 1 => Copy(mem, at, d)[a] = mem[a]
      <4> HIDE DEF at
      <4> QED
        BY <1>4, <3>3, CopyFacts
    <3> QED
      <4>1. /\ slots[s].offset + i >= DirEnd(numSlots + 1)
            /\ slots[s].offset + i \notin at .. at + d.len - 1
        BY <1>1, <2>1, <3>1, <3>5
      <4> HIDE DEF at
      <4> QED
        BY <1>4, <3>4, <3>5, <4>1
  <2> QED
    BY <2>0, <2>2, GetUnchanged
<1>6. ASSUME NEW s, s = numSlots
      PROVE  Get(s)' = Contract!Stored(d)
  <2>1. slots'[s].offset = at /\ slots'[s].length = d.len
    BY <1>1, <1>2, <1>6
  <2>2. CASE d.len = 0
    BY <2>1, <2>2, <1>2 DEF Get, NoRecord, Contract!Stored, Contract!Tombstone
  <2>3. CASE d.len # 0
    <3>1. \A i \in 0 .. d.len - 1 : mem'[at + i] = d.byte[i]
      <4>1. at \in Nat /\ at + d.len <= PageSize
        BY <1>1
      <4>2. \A i \in 0 .. d.len - 1 : Copy(mem, at, d)[at + i] = d.byte[i]
        <5> HIDE DEF at
        <5> QED
          BY <4>1, CopiedBytes
      <4>3. \A i \in 0 .. d.len - 1 : at + i \in Addr /\ at + i >= DirEnd(numSlots + 1)
        BY <1>1 DEF Addr
      <4> QED
        BY <1>4, <4>2, <4>3
    <3>2. [len |-> d.len, byte |-> [i \in 0 .. d.len - 1 |-> mem'[at + i]]] = d
      <4>1. [i \in 0 .. d.len - 1 |-> mem'[at + i]] = d.byte
        BY <3>1, DataFacts
      <4> QED
        BY <4>1, RecordIsItsFields
    <3>3. Get(s)' = [len |-> d.len, byte |-> [i \in 0 .. d.len - 1 |-> mem'[at + i]]]
      BY <2>1, <2>3 DEF Get
    <3> QED
      BY <2>3, <3>2, <3>3 DEF Contract!Stored
  <2> QED
    BY <2>2, <2>3
<1>7. Records' = [s \in 0 .. numSlots |-> IF s = numSlots THEN Contract!Stored(d) ELSE Records[s]]
  <2>1. 0 .. numSlots' - 1 = 0 .. numSlots
    BY <1>1, <1>2
  <2>2. \A s \in 0 .. numSlots :
          Get(s)' = IF s = numSlots THEN Contract!Stored(d) ELSE Records[s]
    <3>1. \A s \in 0 .. numSlots : s = numSlots \/ s \in 0 .. numSlots - 1
      BY <1>1
    <3>2. \A s \in 0 .. numSlots - 1 : s # numSlots /\ Get(s)' = Records[s]
      BY <1>1, <1>5 DEF Records
    <3> QED
      BY <1>6, <3>1, <3>2
  <2> QED
    BY <2>1, <2>2 DEF Records
<1> QED
  BY <1>1, <1>2, <1>3, <1>7 DEF Contract!Insert, Contract!Fits, Contract!Put

\* The length of what Get() returns is the length in the slot.
LEMMA GetLength == \A s \in 0 .. numSlots - 1 : Records[s].len = slots[s].length
BY DEF Get, NoRecord, Records

\* A record copied to a place of its own becomes slot s's record, and every
\* other slot keeps its record.
LEMMA CopyReplaces ==
  ASSUME Inv, NEW d \in Data, NEW at \in Nat, at + d.len <= PageSize,
         NEW s \in 0 .. numSlots - 1,
         numSlots' = numSlots, mem' = Copy(mem, at, d),
         slots'[s].offset = at, slots'[s].length = d.len,
         \A t \in 0 .. numSlots - 1 : t # s =>
           /\ slots'[t] = slots[t]
           /\ slots[t].length = 0 \/ slots[t].offset + slots[t].length <= at
                \/ at + d.len <= slots[t].offset
  PROVE  Records' = [Records EXCEPT ![s] = Contract!Stored(d)]
<1> USE SizeAssumption
<1>1. d.len \in Nat /\ numSlots \in Nat /\ mem \in [Addr -> Byte \cup {Meta}]
        /\ freeSpaceOffset \in Nat
  BY DataFacts DEF Inv, TypeOK
<1>2. \A a \in Addr : a \notin at .. at + d.len - 1 => mem'[a] = mem[a]
  BY <1>1, CopyFacts
<1>3. ASSUME NEW t \in 0 .. numSlots - 1, t # s
      PROVE  Get(t)' = Get(t)
  <2>1. slots[t].offset \in 0 .. PageSize /\ slots[t].length \in 0 .. PageSize
    BY SlotFacts DEF Inv
  <2>2. ASSUME NEW i \in 0 .. slots[t].length - 1
        PROVE  mem'[slots[t].offset + i] = mem[slots[t].offset + i]
    <3>1. i \in Nat /\ i < slots[t].length /\ slots[t].length > 0
      BY <2>1
    <3>2. slots[t].offset + slots[t].length <= PageSize
      BY <3>1 DEF Inv, LayoutOK, Live
    <3>3. slots[t].offset + i \in Addr
      BY <2>1, <3>1, <3>2 DEF Addr
    <3>4. slots[t].offset + slots[t].length <= at \/ at + d.len <= slots[t].offset
      BY <1>3, <3>1
    <3>5. slots[t].offset + i \notin at .. at + d.len - 1
      BY <1>1, <2>1, <3>1, <3>4
    <3> QED
      BY <1>2, <3>3, <3>5
  <2> QED
    BY <1>3, <2>2, GetUnchanged
<1>4. Get(s)' = Contract!Stored(d)
  <2>1. CASE d.len = 0
    BY <2>1 DEF Get, NoRecord, Contract!Stored, Contract!Tombstone
  <2>2. CASE d.len # 0
    <3>1. [i \in 0 .. d.len - 1 |-> mem'[at + i]] = d.byte
      <4>1. \A i \in 0 .. d.len - 1 : mem'[at + i] = d.byte[i]
        BY CopiedBytes
      <4>2. d.byte \in [0 .. d.len - 1 -> Byte]
        BY DataFacts
      <4> QED
        BY <4>1, <4>2
    <3> QED
      BY <2>2, <3>1, RecordIsItsFields DEF Get, Contract!Stored
  <2> QED
    BY <2>1, <2>2
<1> QED
  BY <1>3, <1>4 DEF Records

LEMMA OverwriteImplements ==
  ASSUME Inv, Inv', NEW d \in Data, NEW s \in 0 .. numSlots - 1,
         slots[s].length >= d.len, Overwrite(s, d)
  PROVE  Contract!Update(s, d)
<1> USE SizeAssumption
<1>1. /\ numSlots' = numSlots /\ freeSpaceOffset' = freeSpaceOffset
      /\ slots' = [slots EXCEPT ![s].length = d.len]
      /\ mem' = Copy(mem, slots[s].offset, d)
      /\ ret' = <<"accepted", d>>
  BY DEF Overwrite
<1>2. /\ d.len \in Nat /\ numSlots \in Nat
      /\ \A t \in 0 .. numSlots - 1 :
           slots[t].offset \in 0 .. PageSize /\ slots[t].length \in 0 .. PageSize
  BY DataFacts, SlotFacts DEF Inv, TypeOK
<1>3. /\ slots'[s].offset = slots[s].offset /\ slots'[s].length = d.len
      /\ \A t \in 0 .. numSlots - 1 : t # s => slots'[t] = slots[t]
  BY <1>1 DEF Inv, TypeOK
<1>4. FreeSpace' = FreeSpace
  BY <1>1 DEF FreeSpace, DirEnd
<1>5. CASE d.len > 0 \/ slots[s].length > 0
  <2>1. slots[s].length > 0 /\ slots[s].offset + slots[s].length <= PageSize
    BY <1>2, <1>5 DEF Inv, LayoutOK, Live
  <2>2. \A t \in 0 .. numSlots - 1 : t # s =>
          slots[t].length = 0 \/ slots[t].offset + slots[t].length <= slots[s].offset
            \/ slots[s].offset + d.len <= slots[t].offset
    BY <1>2, <2>1 DEF Inv, RecordsDisjoint, Live
  <2>3. slots[s].offset \in Nat /\ slots[s].offset + d.len <= PageSize
    BY <1>2, <2>1
  <2>4. Records' = [Records EXCEPT ![s] = Contract!Stored(d)]
    BY <1>1, <1>3, <2>2, <2>3, CopyReplaces
  <2>5. d.len <= Records[s].len
    BY GetLength
  <2>6. [n |-> numSlots, free |-> FreeSpace, recs |-> Records]'
          = [n |-> numSlots, free |-> FreeSpace, recs |-> [Records EXCEPT ![s] = Contract!Stored(d)]]
    BY <1>1, <1>4, <2>4
  <2> QED
    BY <1>1, <1>2, <2>5, <2>6
    DEF Contract!Update, Contract!Accepts, Contract!InPlace, Contract!Change
<1>6. CASE d.len = 0 /\ slots[s].length = 0
  <2>1. Copy(mem, slots[s].offset, d) = mem
    <3>1. slots[s].offset .. slots[s].offset + d.len - 1 = {}
      BY <1>2, <1>6
    <3>2. mem = [a \in Addr |-> mem[a]]
      BY DEF Inv, TypeOK
    <3> QED
      BY <1>6, <3>1, <3>2 DEF Copy
  <2>2. \A t \in 0 .. numSlots - 1 : Get(t)' = Get(t)
    BY <1>1, <1>3, <1>6, <2>1 DEF Get
  <2>3. Get(s) = Contract!Stored(d)
    BY <1>6 DEF Get, NoRecord, Contract!Stored, Contract!Tombstone
  <2>4. Records' = [Records EXCEPT ![s] = Contract!Stored(d)]
    BY <1>1, <2>2, <2>3 DEF Records
  <2>5. d.len <= Records[s].len
    BY GetLength
  <2>6. [n |-> numSlots, free |-> FreeSpace, recs |-> Records]'
          = [n |-> numSlots, free |-> FreeSpace, recs |-> [Records EXCEPT ![s] = Contract!Stored(d)]]
    BY <1>1, <1>4, <2>4
  <2> QED
    BY <1>1, <1>2, <2>5, <2>6
    DEF Contract!Update, Contract!Accepts, Contract!InPlace, Contract!Change
<1> QED
  BY <1>2, <1>5, <1>6

LEMMA RelocateImplements ==
  ASSUME Inv, Inv', NEW d \in Data, NEW s \in 0 .. numSlots - 1,
         slots[s].length < d.len, ~ NoRoom(d.len), Relocate(s, d)
  PROVE  Contract!Update(s, d)
<1> DEFINE at == freeSpaceOffset - d.len
<1> USE SizeAssumption
<1>1. /\ numSlots' = numSlots /\ freeSpaceOffset' = at
      /\ slots' = [slots EXCEPT ![s] = [offset |-> at, length |-> d.len]]
      /\ mem' = Copy(mem, at, d)
      /\ ret' = <<"accepted", d>>
  BY DEF Relocate
<1>2. /\ d.len \in Nat /\ numSlots \in Nat /\ freeSpaceOffset \in 0 .. PageSize
      /\ DirEnd(numSlots) \in Nat
      /\ \A t \in 0 .. numSlots - 1 :
           slots[t].offset \in 0 .. PageSize /\ slots[t].length \in 0 .. PageSize
  BY DataFacts, SlotFacts, DirEndGrows DEF Inv, TypeOK
<1>3. /\ slots'[s].offset = at /\ slots'[s].length = d.len
      /\ \A t \in 0 .. numSlots - 1 : t # s => slots'[t] = slots[t]
  BY <1>1 DEF Inv, TypeOK
<1>4. FreeSpace = freeSpaceOffset - DirEnd(numSlots) /\ d.len <= FreeSpace
  BY <1>2, FreeSpaceIsGap DEF Inv, LayoutOK, NoRoom
<1>5. FreeSpace' = FreeSpace - d.len
  <2>1. DirEnd(numSlots)' = DirEnd(numSlots)
    BY <1>1 DEF DirEnd
  <2> QED
    BY <1>1, <1>2, <1>4, <2>1 DEF FreeSpace
<1>6. Records' = [Records EXCEPT ![s] = Contract!Stored(d)]
  <2>1. at \in Nat /\ at + d.len <= PageSize /\ at + d.len = freeSpaceOffset
    BY <1>2, <1>4
  <2>2. \A t \in 0 .. numSlots - 1 : t # s =>
          slots[t].length = 0 \/ freeSpaceOffset <= slots[t].offset
    BY <1>2 DEF Inv, LayoutOK, Live
  <2> HIDE DEF at
  <2> QED
    BY <1>1, <1>3, <2>1, <2>2, CopyReplaces
<1> QED
  BY <1>1, <1>2, <1>4, <1>5, <1>6, GetLength
  DEF Contract!Update, Contract!Accepts, Contract!InPlace, Contract!Change

LEMMA DeleteImplements ==
  ASSUME Inv, NEW s \in 0 .. numSlots - 1, Delete(s)
  PROVE  Contract!Delete(s)
<1>1. /\ numSlots' = numSlots /\ freeSpaceOffset' = freeSpaceOffset /\ mem' = mem
      /\ ret' = <<"accepted", NoRecord>>
      /\ slots'[s].length = 0
      /\ \A t \in 0 .. numSlots - 1 : t # s => slots'[t] = slots[t]
  BY DEF Delete, Inv, TypeOK
<1>2. \A t \in 0 .. numSlots - 1 :
        Get(t)' = IF t = s THEN Contract!Tombstone ELSE Get(t)
  BY <1>1 DEF Get, NoRecord, Contract!Tombstone
<1>3. Records' = [Records EXCEPT ![s] = Contract!Tombstone]
  BY <1>1, <1>2 DEF Records
<1>4. FreeSpace' = FreeSpace
  BY <1>1 DEF FreeSpace, DirEnd
<1>5. s < numSlots
  BY DEF Inv, TypeOK
<1> QED
  BY <1>1, <1>3, <1>4, <1>5
  DEF NoRecord, Contract!Delete, Contract!Remove, Contract!Tombstone

\* The calls that fail leave what Get() and FreeSpace() return as it was.
LEMMA SameContents ==
  ASSUME UNCHANGED <<numSlots, freeSpaceOffset, slots, mem>>
  PROVE  numSlots' = numSlots /\ FreeSpace' = FreeSpace /\ Records' = Records
BY DEF FreeSpace, DirEnd, Records, Get

LEMMA NextImplements ==
  ASSUME Inv, Inv', [Next]_vars
  PROVE  [Contract!Next]_Contract!vars
<1>1. ASSUME NEW d \in Data, Insert(d) PROVE Contract!Insert(d)
  <2>1. CASE NoRoom(d.len + SlotSize) /\ Refuse(d)
    <3>1. d.len + SlotSize > FreeSpace /\ d.len + SlotSize \in Nat /\ FreeSpace \in Int
      BY <2>1, DataFacts, FreeSpaceIsNat, SizeAssumption DEF NoRoom
    <3> QED
      BY <2>1, <3>1, SameContents DEF Refuse, Contract!Insert, Contract!Fits
  <2>2. CASE ~ NoRoom(d.len + SlotSize) /\ Append(d)
    BY <2>2, AppendImplements
  <2> QED
    BY <1>1, <2>1, <2>2 DEF Insert
<1>2. ASSUME NEW s \in 0 .. numSlots, NEW d \in Data, Update(s, d) PROVE Contract!Update(s, d)
  <2>1. s \in 0 .. numSlots - 1 /\ d.len \in Nat /\ slots[s].length \in Nat
    BY <1>2, DataFacts, SlotFacts, SizeAssumption DEF Update, Inv, TypeOK
  <2>2. CASE slots[s].length >= d.len /\ Overwrite(s, d)
    BY <2>1, <2>2, OverwriteImplements
  <2>3. CASE slots[s].length < d.len /\ NoRoom(d.len) /\ Refuse(d)
    <3>1. d.len > FreeSpace /\ FreeSpace \in Int
      BY <2>1, <2>3, FreeSpaceIsNat DEF NoRoom
    <3> QED
      BY <2>1, <2>3, <3>1, SameContents, GetLength
      DEF Refuse, Inv, TypeOK, Contract!Update, Contract!Accepts, Contract!InPlace
  <2>4. CASE slots[s].length < d.len /\ ~ NoRoom(d.len) /\ Relocate(s, d)
    BY <2>1, <2>4, RelocateImplements
  <2> QED
    BY <1>2, <2>2, <2>3, <2>4 DEF Update
<1>3. ASSUME NEW s \in 0 .. numSlots, Delete(s) PROVE Contract!Delete(s)
  <2>1. s \in 0 .. numSlots - 1
    BY <1>3 DEF Delete, Inv, TypeOK
  <2> QED
    BY <1>3, <2>1, DeleteImplements
<1>4. ASSUME NEW s \in 0 .. numSlots, NoSlot(s) PROVE Contract!NoSlot
  BY <1>4, SameContents DEF NoSlot, NoRecord, Contract!NoSlot, Contract!Tombstone
<1>5. CASE UNCHANGED vars
  BY <1>5, SameContents DEF vars, Contract!vars
<1>6. CASE Next
  BY <1>1, <1>2, <1>3, <1>4, <1>6 DEF Next, Contract!Next
<1> QED
  BY <1>5, <1>6

\* The bytes behave as the array of records that RecordPage promises: for every
\* page and record size, a slot keeps its record until it is updated or deleted
\* itself, and a call is refused exactly when the page has no room.
THEOREM PageImplementsRecords == Spec => ImplementsRecordPage
<1>1. Inv /\ Inv' /\ [Next]_vars => [Contract!Next]_Contract!vars
  BY NextImplements
<1> QED
  BY <1>1, InitInv, NextInv, InitImplements, PTL
  DEF Spec, ImplementsRecordPage, Contract!Spec
=============================================================================
