---------------------------- MODULE SlottedPage ----------------------------
(***************************************************************************)
(* One page of class SlottedPage, byte by byte: the header, the slot       *)
(* directory that grows up from it and the record data that grows down     *)
(* from the page end share PageSize bytes, and the directory and the data  *)
(* must never meet.  The first BaseOffset bytes belong to the page's owner *)
(* (the HeapPageHeader).                                                   *)
(*                                                                         *)
(* The header and the directory are kept as numbers and also marked with   *)
(* Meta in mem, so that a record copied over them, or a slot written over  *)
(* a record, shows in mem.                                                 *)
(***************************************************************************)
EXTENDS Integers

CONSTANTS PageSize,    \* config::PAGE_SIZE
          BaseOffset,  \* _offset: bytes before the PageHeader
          HeaderSize,  \* sizeof(PageHeader)
          SlotSize,    \* sizeof(Slot)
          MaxLen,      \* bound: the longest record a caller passes
          Byte,        \* values of a byte
          Meta,        \* a byte of the header or of the slot directory
          SizeT        \* number of values of size_t

ASSUME SizeAssumption ==
  /\ PageSize \in Nat /\ BaseOffset \in Nat /\ HeaderSize \in Nat
  /\ SlotSize \in Nat \ {0}
  /\ MaxLen \in Nat /\ SizeT \in Nat
  /\ BaseOffset + HeaderSize <= PageSize
ASSUME ByteAssumption == Meta \notin Byte /\ Byte # {}

Addr == 0 .. PageSize - 1

\* What a caller passes as (data, len).
Data == UNION {[len : {n}, byte : [0 .. n - 1 -> Byte]] : n \in 0 .. MaxLen}

\* What Get() says of a deleted slot.
NoRecord == [len |-> 0]

VARIABLES numSlots,         \* PageHeader::num_slots
          freeSpaceOffset,  \* PageHeader::free_space_offset
          slots,            \* Slot[num_slots]
          mem,              \* the bytes of the page
          ret               \* the last modifier's outcome and record, as in RecordPage

vars == <<numSlots, freeSpaceOffset, slots, mem, ret>>

----------------------------------------------------------------------------
\* The first byte after a directory of n slots.
DirEnd(n) == BaseOffset + HeaderSize + n * SlotSize

\* FreeSpace(): an unsigned difference, huge when the two areas overlap.
FreeSpace ==
  IF DirEnd(numSlots) <= freeSpaceOffset
  THEN freeSpaceOffset - DirEnd(numSlots)
  ELSE freeSpaceOffset + SizeT - DirEnd(numSlots)

\* memcpy(_data + at, d.data, d.len)
Copy(m, at, d) ==
  [a \in Addr |-> IF a \in at .. at + d.len - 1 THEN d.byte[a - at] ELSE m[a]]

\* memcpy(_data + at, header or slot, n)
MarkMeta(m, at, n) == [a \in Addr |-> IF a \in at .. at + n - 1 THEN Meta ELSE m[a]]

----------------------------------------------------------------------------
\* FromBuffer() and Init() on a frame whose bytes are whatever was there.
Init ==
  /\ numSlots = 0
  /\ freeSpaceOffset = PageSize
  /\ slots = [s \in {} |-> [offset |-> 0, length |-> 0]]
  /\ \E junk \in Byte :
        mem = [a \in Addr |-> IF a < DirEnd(0) THEN Meta ELSE junk]
  /\ ret = <<"accepted", NoRecord>>

NoRoom(needed) == FreeSpace < needed

Refuse(d) == ret' = <<"refused", d>> /\ UNCHANGED <<numSlots, freeSpaceOffset, slots, mem>>

\* Mutant of Append(): num_slots is counted up before the slot is written.
AppendCountsFirst(d) ==
  LET at == freeSpaceOffset - d.len IN
  /\ freeSpaceOffset' = at
  /\ slots' = [s \in 0 .. numSlots |->
                 IF s = numSlots THEN [offset |-> at, length |-> d.len] ELSE slots[s]]
  /\ mem' = MarkMeta(Copy(mem, at, d), DirEnd(numSlots + 1), SlotSize)
  /\ numSlots' = numSlots + 1
  /\ ret' = <<"accepted", d>>

\* The slot entry is written after the data, at the end of the directory.
Append(d) ==
  LET at == freeSpaceOffset - d.len IN
  /\ freeSpaceOffset' = at
  /\ slots' = [s \in 0 .. numSlots |->
                 IF s = numSlots THEN [offset |-> at, length |-> d.len] ELSE slots[s]]
  /\ mem' = MarkMeta(Copy(mem, at, d), DirEnd(numSlots), SlotSize)
  /\ numSlots' = numSlots + 1
  /\ ret' = <<"accepted", d>>

\* Mutant of Insert(): the room check forgets the new slot.
InsertForgetsSlot(d) ==
  \/ NoRoom(d.len) /\ Refuse(d)
  \/ ~ NoRoom(d.len) /\ Append(d)

Insert(d) ==
  \/ NoRoom(d.len + SlotSize) /\ Refuse(d)
  \/ ~ NoRoom(d.len + SlotSize) /\ Append(d)

\* Mutant of Overwrite(): the slot keeps the old length.
OverwriteKeepsLength(s, d) ==
  /\ mem' = Copy(mem, slots[s].offset, d)
  /\ ret' = <<"accepted", d>>
  /\ UNCHANGED <<numSlots, freeSpaceOffset, slots>>

\* The old record is overwritten, and its slot shrinks to the new length.
Overwrite(s, d) ==
  /\ mem' = Copy(mem, slots[s].offset, d)
  /\ slots' = [slots EXCEPT ![s].length = d.len]
  /\ ret' = <<"accepted", d>>
  /\ UNCHANGED <<numSlots, freeSpaceOffset>>

\* Mutant of Relocate(): the header keeps the old free_space_offset.
RelocateKeepsOffset(s, d) ==
  LET at == freeSpaceOffset - d.len IN
  /\ slots' = [slots EXCEPT ![s] = [offset |-> at, length |-> d.len]]
  /\ mem' = Copy(mem, at, d)
  /\ ret' = <<"accepted", d>>
  /\ UNCHANGED <<numSlots, freeSpaceOffset>>

\* The record moves to fresh bytes; the old ones are not reclaimed.
Relocate(s, d) ==
  LET at == freeSpaceOffset - d.len IN
  /\ freeSpaceOffset' = at
  /\ slots' = [slots EXCEPT ![s] = [offset |-> at, length |-> d.len]]
  /\ mem' = Copy(mem, at, d)
  /\ ret' = <<"accepted", d>>
  /\ UNCHANGED numSlots

\* Mutant of Update(): a record that grows is moved without a room check.
UpdateUnchecked(s, d) ==
  /\ s < numSlots
  /\ \/ slots[s].length >= d.len /\ Overwrite(s, d)
     \/ slots[s].length < d.len /\ Relocate(s, d)

Update(s, d) ==
  /\ s < numSlots
  /\ \/ slots[s].length >= d.len /\ Overwrite(s, d)
     \/ slots[s].length < d.len /\ NoRoom(d.len) /\ Refuse(d)
     \/ slots[s].length < d.len /\ ~ NoRoom(d.len) /\ Relocate(s, d)

Delete(s) ==
  /\ s < numSlots
  /\ slots' = [slots EXCEPT ![s].length = 0]
  /\ ret' = <<"accepted", NoRecord>>
  /\ UNCHANGED <<numSlots, freeSpaceOffset, mem>>

\* Update and Delete with slot_id >= num_slots.
NoSlot(s) ==
  /\ s >= numSlots
  /\ ret' = <<"noslot", NoRecord>>
  /\ UNCHANGED <<numSlots, freeSpaceOffset, slots, mem>>

Next ==
  \/ \E d \in Data : Insert(d)
  \/ \E s \in 0 .. numSlots :
       NoSlot(s) \/ Delete(s) \/ \E d \in Data : Update(s, d)

Spec == Init /\ [][Next]_vars

----------------------------------------------------------------------------
(* Properties                                                              *)

Calls == {"accepted", "refused", "noslot"} \X (Data \cup {NoRecord})

TypeOK ==
  /\ numSlots \in Nat
  /\ freeSpaceOffset \in 0 .. PageSize
  /\ slots \in [0 .. numSlots - 1 -> [offset : 0 .. PageSize, length : 0 .. PageSize]]
  /\ mem \in [Addr -> Byte \cup {Meta}]
  /\ ret \in Calls

Live(s) == slots[s].length > 0

\* The slot directory and the record data never meet, so FreeSpace() never
\* wraps, and every record that Get() would return lies in the data area:
\* Insert() and a relocating Update() take from the gap no more than it holds.
LayoutOK ==
  /\ DirEnd(numSlots) <= freeSpaceOffset
  /\ \A s \in 0 .. numSlots - 1 : Live(s) =>
       /\ freeSpaceOffset <= slots[s].offset
       /\ slots[s].offset + slots[s].length <= PageSize

\* No byte belongs to two records, whatever updates in place, relocations and
\* deletions came before: writing one record never changes another.
RecordsDisjoint ==
  \A s, t \in 0 .. numSlots - 1 : (s # t /\ Live(s) /\ Live(t)) =>
    \/ slots[s].offset + slots[s].length <= slots[t].offset
    \/ slots[t].offset + slots[t].length <= slots[s].offset

\* No record byte is ever copied over the owner's header, the page header or
\* the slot directory, and no slot entry lands on a record.
DirectoryIntact ==
  /\ \A a \in Addr : a < DirEnd(numSlots) => mem[a] = Meta
  /\ \A a \in Addr : a >= freeSpaceOffset => mem[a] # Meta

----------------------------------------------------------------------------
(* The contract this page implements.                                      *)

\* Get()
Get(s) ==
  IF slots[s].length = 0
  THEN NoRecord
  ELSE [len |-> slots[s].length,
        byte |-> [i \in 0 .. slots[s].length - 1 |-> mem[slots[s].offset + i]]]

Records == [s \in 0 .. numSlots - 1 |-> Get(s)]

Contract == INSTANCE RecordPage WITH
  Capacity <- PageSize - DirEnd(0),
  page <- [n |-> numSlots, free |-> FreeSpace, recs |-> Records]

\* Read through Get() and FreeSpace(), the bytes behave as the array of records
\* that SlottedPage promises: a slot keeps its record until it is updated or
\* deleted itself, then it has the record that call was given, and a call is
\* refused exactly when the page has no room.
ImplementsRecordPage == Contract!Spec
=============================================================================
