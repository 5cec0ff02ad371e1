------------------------------ MODULE RowCodec ------------------------------
(***************************************************************************)
(* Rows as bytes: DynamicCodec for user tables, the codecs of the three    *)
(* catalog tables, and the WriteData() and ReadData() they are made of.    *)
(* One call encodes a row field by field, and one decodes the record.      *)
(*                                                                         *)
(* A byte is told apart by the value it belongs to and its place in it:    *)
(* reading bytes that are not all of one value yields Garbage, and so does *)
(* a read past the end of the record.                                      *)
(***************************************************************************)
EXTENDS Integers, Sequences

CONSTANTS Schemas,   \* schemas of user tables: the types of their columns, in order
          Value      \* values rows are made of

ASSUME ValueAssumption ==
  /\ Value \subseteq [kind : {"fixed", "text"}, width : Nat, says : Nat]
  /\ \A v \in Value : /\ v.kind = "fixed" => v.width > 0
                      /\ (v.kind = "text" /\ v.width = 0) => v.says = 0
ASSUME SchemaAssumption == Schemas \subseteq Seq({"INT", "TEXT"})

\* A value of fixed width, or a string of that many bytes.
Fixed(width, says) == [kind |-> "fixed", width |-> width, says |-> says]
Text(width, says) == [kind |-> "text", width |-> width, says |-> says]
Garbage == [kind |-> "garbage", width |-> 0, says |-> 0]

----------------------------------------------------------------------------
(* Formats: the fields in the order they are written and read.  A field is *)
(* [name, kind, width, align]; strings have no width of their own.         *)

Packed(name, width) == [name |-> name, kind |-> "fixed", width |-> width, align |-> 1]
PackedText(name) == [name |-> name, kind |-> "text", width |-> 0, align |-> 1]

Uuid == 16

\* Encode() and Decode() of each catalog row, ToValues() by the names of the
\* fields, and the column names of GetSchema().
TableInfoCodec ==
  [writes |-> <<Packed("first_page_id", 4), Packed("heap_file_id", Uuid),
                Packed("table_id", Uuid), PackedText("table_name")>>,
   reads  |-> <<Packed("first_page_id", 4), Packed("heap_file_id", Uuid),
                Packed("table_id", Uuid), PackedText("table_name")>>,
   values |-> <<"table_id", "table_name", "heap_file_id", "first_page_id">>,
   schema |-> <<"table_id", "table_name", "heap_file_id", "first_page_id">>]

ColumnInfoCodec ==
  [writes |-> <<PackedText("col_name"), Packed("ordinal_position", 2),
                Packed("table_id", Uuid), Packed("type_id", 4)>>,
   reads  |-> <<PackedText("col_name"), Packed("ordinal_position", 2),
                Packed("table_id", Uuid), Packed("type_id", 4)>>,
   values |-> <<"table_id", "col_name", "type_id", "ordinal_position">>,
   schema |-> <<"table_id", "col_name", "type_id", "ordinal_position">>]

\* Mutant of TypeInfoCodec: ToValues() in the order of the declaration of TypeInfo.
TypeInfoAsDeclared ==
  [writes |-> <<Packed("type_id", 4), Packed("size", 2), PackedText("type_name")>>,
   reads  |-> <<Packed("type_id", 4), Packed("size", 2), PackedText("type_name")>>,
   values |-> <<"type_id", "type_name", "size">>,
   schema |-> <<"type_id", "size", "type_name">>]

TypeInfoCodec ==
  [writes |-> <<Packed("type_id", 4), Packed("size", 2), PackedText("type_name")>>,
   reads  |-> <<Packed("type_id", 4), Packed("size", 2), PackedText("type_name")>>,
   values |-> <<"type_id", "size", "type_name">>,
   schema |-> <<"type_id", "size", "type_name">>]

\* getAlignment() of a column's type, and what Decode() reads for it.  The columns
\* of a user table go by their places: two of them may have one name.
FieldOf(place, type) ==
  IF type = "INT" THEN [name |-> place, kind |-> "fixed", width |-> 4, align |-> 4]
                  ELSE [name |-> place, kind |-> "text", width |-> 0, align |-> 4]

DynamicCodec(schema) ==
  LET fields == [i \in DOMAIN schema |-> FieldOf(i, schema[i])]
      places == [i \in DOMAIN schema |-> i]
  IN  [writes |-> fields, reads |-> fields, values |-> places, schema |-> places]

CatalogCodecs == {TableInfoCodec, ColumnInfoCodec, TypeInfoCodec}

----------------------------------------------------------------------------
VARIABLES codec,    \* whose Encode() and Decode() are called
          row,      \* the values given, in the order they are written
          phase,    \* "idle", "encode", "decode"
          field,    \* the field the loop is at
          buffer,   \* the bytes written so far, then the record
          ends,     \* history: where each field ended
          offset,   \* offset
          result    \* the values read so far

vars == <<codec, row, phase, field, buffer, ends, offset, result>>

\* Mutant of Padding: strings are not aligned.
PaddingFixedOnly(size, f) == IF f.kind = "text" THEN 0 ELSE (-size) % f.align

\* padding_needed in applyPadding(), and what skipPadding() adds.
Padding(size, f) == (-size) % f.align
Skipped(off, f) == (-off) % f.align

Bytes(v) == [k \in 1 .. v.width |-> <<v, k>>]
Zeros(n) == [k \in 1 .. n |-> <<Garbage, k>>]

\* Mutant of WriteData: the length of a string is left out.
WriteDataBare(buf, v) == buf \o Bytes(v)

\* WriteData(): a string is preceded by its length.
WriteData(buf, v) ==
  IF v.kind = "text" THEN buf \o Bytes(Fixed(4, v.width)) \o Bytes(v)
                     ELSE buf \o Bytes(v)

\* The value that buf holds in its width bytes after the first off.
ReadBytes(buf, off, width) ==
  IF off + width > Len(buf) THEN Garbage
  ELSE LET v == buf[off + 1][1] IN
       IF v.width = width /\ \A k \in 1 .. width : buf[off + k] = <<v, k>>
       THEN v ELSE Garbage

\* ReadData(): the value, and how far it moves the offset.
ReadData(buf, off, f) ==
  IF f.kind = "fixed" THEN [value |-> ReadBytes(buf, off, f.width), size |-> f.width]
  ELSE LET len == ReadBytes(buf, off, 4).says IN
       [value |-> IF len = 0 THEN Text(0, 0) ELSE ReadBytes(buf, off + 4, len),
        size |-> 4 + len]

----------------------------------------------------------------------------
\* Values the caller may give for these fields: typed as the columns are.
Typed(fields) ==
  {r \in [DOMAIN fields -> Value] :
     \A i \in DOMAIN fields :
       /\ r[i].kind = fields[i].kind
       /\ r[i].kind = "fixed" => r[i].width = fields[i].width}

Init ==
  /\ codec = TypeInfoCodec
  /\ row = <<>> /\ buffer = <<>> /\ ends = <<>> /\ result = <<>>
  /\ phase = "idle"
  /\ field = 1
  /\ offset = 0

\* CatalogTable::Insert() and UserTable::Insert() call Encode().
Insert(c, r) ==
  /\ phase = "idle"
  /\ codec' = c /\ row' = r
  /\ phase' = "encode"
  /\ field' = 1
  /\ buffer' = <<>> /\ ends' = <<>> /\ result' = <<>>
  /\ offset' = 0

EncodeField ==
  /\ phase = "encode"
  /\ field <= Len(codec.writes)
  /\ LET padded == buffer \o Zeros(Padding(Len(buffer), codec.writes[field]))
     IN  buffer' = WriteData(padded, row[field])
  /\ ends' = Append(ends, Len(buffer'))
  /\ field' = field + 1
  /\ UNCHANGED <<codec, row, phase, offset, result>>

\* InsertRaw() stores the bytes, Get() returns them, Decode() begins.
Read ==
  /\ phase = "encode"
  /\ field = Len(codec.writes) + 1
  /\ phase' = "decode"
  /\ field' = 1
  /\ UNCHANGED <<codec, row, buffer, ends, offset, result>>

DecodeField ==
  /\ phase = "decode"
  /\ field <= Len(codec.reads)
  /\ LET start == offset + Skipped(offset, codec.reads[field])
         read == ReadData(buffer, start, codec.reads[field])
     IN  /\ result' = Append(result, read.value)
         /\ offset' = start + read.size
  /\ field' = field + 1
  /\ UNCHANGED <<codec, row, phase, buffer, ends>>

Return ==
  /\ phase = "decode"
  /\ field = Len(codec.reads) + 1
  /\ phase' = "idle"
  /\ UNCHANGED <<codec, row, field, buffer, ends, offset, result>>

Next ==
  \/ \E c \in CatalogCodecs : \E r \in Typed(c.writes) : Insert(c, r)
  \/ \E s \in Schemas : \E r \in Typed(DynamicCodec(s).writes) : Insert(DynamicCodec(s), r)
  \/ EncodeField \/ Read \/ DecodeField \/ Return

Spec == Init /\ [][Next]_vars

----------------------------------------------------------------------------
(* Properties                                                              *)

\* What Decode() has read are the values Encode() was given for the fields of
\* these names, whatever padding the lengths of the strings before them called
\* for, and it has read no further than the record goes.
RoundTrip ==
  phase = "decode" =>
    /\ offset <= Len(buffer)
    /\ Len(result) = field - 1
    /\ \A i \in 1 .. Len(result) :
         /\ codec.reads[i].name = codec.writes[i].name
         /\ result[i] = row[i]

\* The tuple of a decoded row: values by the column names of its schema.
TupleOf ==
  [k \in DOMAIN codec.values |->
     result[CHOOSE i \in DOMAIN codec.reads : codec.reads[i].name = codec.values[k]]]

\* A Tuple pairs each value with its column: the k-th value of ToValues() is the
\* one that was inserted for the k-th column of GetSchema().
TuplesFollowSchema ==
  (phase = "decode" /\ field > Len(codec.reads)) =>
    /\ Len(codec.schema) = Len(TupleOf)
    /\ \A k \in DOMAIN codec.schema : \A i \in DOMAIN codec.writes :
         codec.writes[i].name = codec.schema[k] => TupleOf[k] = row[i]

\* A row with a column is never an empty record, which SlottedPage::Get() takes
\* for a deleted one.
RowsAreRecords ==
  (phase = "decode" /\ codec.writes # <<>>) => Len(buffer) > 0
=============================================================================
