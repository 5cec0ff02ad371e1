-------------------------- MODULE RowCodec_proofs --------------------------
(***************************************************************************)
(* What Decode() returns is what Encode() was given, for all schemas and   *)
(* values.  The buffer holds every field that was written where ends says: *)
(* after the padding that follows the end of the field before it.  The     *)
(* decoder that stands at that end skips the same padding.                 *)
(***************************************************************************)
EXTENDS RowCodec, SequenceTheorems, TLAPS

Codecs == CatalogCodecs \cup {DynamicCodec(s) : s \in Schemas}

Any == [kind : {"fixed", "text", "garbage"}, width : Nat, says : Nat]
Cell == Any \X Nat

IsField(f) ==
  /\ f.kind \in {"fixed", "text"} /\ f.align \in {1, 4}
  /\ f.width \in Nat /\ (f.kind = "fixed" => f.width > 0)

\* The bytes that WriteData(v) adds, and that they stand in buf after off.
Size(v) == IF v.kind = "text" THEN 4 + v.width ELSE v.width

At(buf, off, v) ==
  IF v.kind = "text"
  THEN /\ \A k \in 1 .. 4 : buf[off + k] = <<Fixed(4, v.width), k>>
       /\ \A k \in 1 .. v.width : buf[off + 4 + k] = <<v, k>>
  ELSE \A k \in 1 .. v.width : buf[off + k] = <<v, k>>

EndOf(i) == IF i = 0 THEN 0 ELSE ends[i]
Start(i) == EndOf(i - 1) + Padding(EndOf(i - 1), codec.writes[i])

Placed(i) ==
  /\ ends[i] = Start(i) + Size(row[i])
  /\ ends[i] <= Len(buffer)
  /\ At(buffer, Start(i), row[i])

Written ==
  /\ codec \in Codecs
  /\ row \in Typed(codec.writes)
  /\ field \in 1 .. Len(codec.writes) + 1
  /\ buffer \in Seq(Cell)
  /\ ends \in Seq(Nat)
  /\ Len(ends) = IF phase = "encode" THEN field - 1 ELSE Len(codec.writes)
  /\ Len(buffer) = EndOf(Len(ends))
  /\ \A i \in 1 .. Len(ends) : Placed(i)

ReadSoFar ==
  /\ result \in Seq(Value)
  /\ Len(result) = IF phase = "decode" THEN field - 1 ELSE 0
  /\ \A i \in 1 .. Len(result) : result[i] = row[i]
  /\ offset = EndOf(Len(result))

CodecInv ==
  /\ phase \in {"idle", "encode", "decode"}
  /\ phase # "idle" => Written /\ ReadSoFar

----------------------------------------------------------------------------
\* Every codec reads the fields it writes, in the order it writes them, and a
\* field of fixed width has a byte.
LEMMA CodecFields ==
  ASSUME NEW c \in Codecs
  PROVE  /\ c.reads = c.writes
         /\ Len(c.writes) \in Nat /\ DOMAIN c.writes = 1 .. Len(c.writes)
         /\ \A i \in 1 .. Len(c.writes) : IsField(c.writes[i])
<1>1. ASSUME NEW n, NEW w \in Nat, w > 0
      PROVE  IsField(Packed(n, w))
  BY <1>1 DEF Packed, IsField
<1>2. ASSUME NEW n
      PROVE  IsField(PackedText(n))
  BY DEF PackedText, IsField
<1>3. CASE c = TableInfoCodec
  <2> DEFINE a == Packed("first_page_id", 4)
             b == Packed("heap_file_id", Uuid)
             d == Packed("table_id", Uuid)
             e == PackedText("table_name")
  <2>1. IsField(a) /\ IsField(b) /\ IsField(d) /\ IsField(e)
    BY <1>1, <1>2 DEF Uuid
  <2>2. c.reads = c.writes /\ c.writes = <<a, b, d, e>>
    BY <1>3 DEF TableInfoCodec
  <2> HIDE DEF a, b, d, e
  <2> QED BY <2>1, <2>2
<1>4. CASE c = ColumnInfoCodec
  <2> DEFINE a == PackedText("col_name")
             b == Packed("ordinal_position", 2)
             d == Packed("table_id", Uuid)
             e == Packed("type_id", 4)
  <2>1. IsField(a) /\ IsField(b) /\ IsField(d) /\ IsField(e)
    BY <1>1, <1>2 DEF Uuid
  <2>2. c.reads = c.writes /\ c.writes = <<a, b, d, e>>
    BY <1>4 DEF ColumnInfoCodec
  <2> HIDE DEF a, b, d, e
  <2> QED BY <2>1, <2>2
<1>5. CASE c = TypeInfoCodec
  <2> DEFINE a == Packed("type_id", 4)
             b == Packed("size", 2)
             d == PackedText("type_name")
  <2>1. IsField(a) /\ IsField(b) /\ IsField(d)
    BY <1>1, <1>2
  <2>2. c.reads = c.writes /\ c.writes = <<a, b, d>>
    BY <1>5 DEF TypeInfoCodec
  <2> HIDE DEF a, b, d
  <2> QED BY <2>1, <2>2
<1>6. ASSUME NEW s \in Schemas, c = DynamicCodec(s)
      PROVE  /\ c.reads = c.writes
             /\ Len(c.writes) \in Nat /\ DOMAIN c.writes = 1 .. Len(c.writes)
             /\ \A i \in 1 .. Len(c.writes) : IsField(c.writes[i])
  <2> DEFINE F == [i \in 1 .. Len(s) |-> FieldOf(i, s[i])]
  <2>1. Len(s) \in Nat /\ DOMAIN s = 1 .. Len(s)
    BY SchemaAssumption
  <2>2. \A i \in 1 .. Len(s) : IsField(FieldOf(i, s[i]))
    BY DEF FieldOf, IsField
  <2>3. c.reads = c.writes /\ c.writes = F
    BY <1>6, <2>1 DEF DynamicCodec
  <2>4. F \in [1 .. Len(s) -> {FieldOf(i, s[i]) : i \in 1 .. Len(s)}]
    OBVIOUS
  <2>5. \A i \in 1 .. Len(s) : IsField(F[i])
    BY <2>2
  <2> HIDE DEF F
  <2>6. Len(F) = Len(s) /\ DOMAIN F = 1 .. Len(s)
    BY <2>1, <2>4
  <2> QED
    BY <2>1, <2>3, <2>5, <2>6
<1> QED
  BY <1>3, <1>4, <1>5, <1>6 DEF Codecs, CatalogCodecs

\* ToValues() names the columns of GetSchema(), and no two fields have one name.
LEMMA ColumnNames ==
  ASSUME NEW c \in Codecs
  PROVE  /\ c.values = c.schema
         /\ Len(c.schema) \in Nat /\ DOMAIN c.schema = 1 .. Len(c.schema)
         /\ \A i, j \in DOMAIN c.writes : c.writes[i].name = c.writes[j].name => i = j
<1>1. CASE c = TableInfoCodec
  <2>1. c.values = <<"table_id", "table_name", "heap_file_id", "first_page_id">> /\ c.schema = c.values
    BY <1>1 DEF TableInfoCodec
  <2>2. c.writes = <<Packed("first_page_id", 4), Packed("heap_file_id", Uuid),
                     Packed("table_id", Uuid), PackedText("table_name")>>
    BY <1>1 DEF TableInfoCodec
  <2>3. /\ DOMAIN c.writes = 1 .. 4
        /\ c.writes[1].name = "first_page_id" /\ c.writes[2].name = "heap_file_id"
        /\ c.writes[3].name = "table_id" /\ c.writes[4].name = "table_name"
    BY <2>2 DEF Packed, PackedText
  <2> QED BY <2>1, <2>3
<1>2. CASE c = ColumnInfoCodec
  <2>1. c.values = <<"table_id", "col_name", "type_id", "ordinal_position">> /\ c.schema = c.values
    BY <1>2 DEF ColumnInfoCodec
  <2>2. c.writes = <<PackedText("col_name"), Packed("ordinal_position", 2),
                     Packed("table_id", Uuid), Packed("type_id", 4)>>
    BY <1>2 DEF ColumnInfoCodec
  <2>3. /\ DOMAIN c.writes = 1 .. 4
        /\ c.writes[1].name = "col_name" /\ c.writes[2].name = "ordinal_position"
        /\ c.writes[3].name = "table_id" /\ c.writes[4].name = "type_id"
    BY <2>2 DEF Packed, PackedText
  <2> QED BY <2>1, <2>3
<1>3. CASE c = TypeInfoCodec
  <2>1. c.values = <<"type_id", "size", "type_name">> /\ c.schema = c.values
    BY <1>3 DEF TypeInfoCodec
  <2>2. c.writes = <<Packed("type_id", 4), Packed("size", 2), PackedText("type_name")>>
    BY <1>3 DEF TypeInfoCodec
  <2>3. /\ DOMAIN c.writes = 1 .. 3
        /\ c.writes[1].name = "type_id" /\ c.writes[2].name = "size" /\ c.writes[3].name = "type_name"
    BY <2>2 DEF Packed, PackedText
  <2> QED BY <2>1, <2>3
<1>4. ASSUME NEW s \in Schemas, c = DynamicCodec(s)
      PROVE  /\ c.values = c.schema
             /\ Len(c.schema) \in Nat /\ DOMAIN c.schema = 1 .. Len(c.schema)
             /\ \A i, j \in DOMAIN c.writes : c.writes[i].name = c.writes[j].name => i = j
  <2>1. Len(s) \in Nat /\ DOMAIN s = 1 .. Len(s)
    BY SchemaAssumption
  <2>2. c.values = [i \in 1 .. Len(s) |-> i] /\ c.schema = c.values
    BY <1>4, <2>1 DEF DynamicCodec
  <2>3. c.writes = [i \in 1 .. Len(s) |-> FieldOf(i, s[i])]
    BY <1>4, <2>1 DEF DynamicCodec
  <2>4. \A i \in 1 .. Len(s) : FieldOf(i, s[i]).name = i
    BY DEF FieldOf
  <2>5. DOMAIN c.writes = 1 .. Len(s) /\ \A i \in 1 .. Len(s) : c.writes[i].name = i
    BY <2>3, <2>4
  <2> QED BY <2>1, <2>2, <2>5
<1> QED
  BY <1>1, <1>2, <1>3, <1>4 DEF Codecs, CatalogCodecs

\* A row has a value of the right kind and width for every field.
LEMMA RowValues ==
  ASSUME NEW c \in Codecs, NEW r \in Typed(c.writes), NEW i \in 1 .. Len(c.writes)
  PROVE  /\ r[i] \in Value /\ r[i] \in Any
         /\ r[i].kind = c.writes[i].kind
         /\ r[i].kind = "fixed" => r[i].width = c.writes[i].width /\ r[i].width > 0
<1>1. i \in DOMAIN c.writes /\ IsField(c.writes[i])
  BY CodecFields
<1>2. r[i] \in Value /\ r[i].kind = c.writes[i].kind
        /\ (r[i].kind = "fixed" => r[i].width = c.writes[i].width)
  BY <1>1 DEF Typed
<1>3. r[i] \in Any
  BY <1>2, ValueAssumption DEF Any
<1> QED
  BY <1>1, <1>2, <1>3 DEF IsField

\* Padding is a number of bytes.
LEMMA PaddingNat ==
  ASSUME NEW n \in Nat, NEW f, IsField(f)
  PROVE  Padding(n, f) \in Nat
<1>1. CASE f.align = 1
  BY <1>1 DEF Padding
<1>2. CASE f.align = 4
  BY <1>2 DEF Padding
<1> QED
  BY <1>1, <1>2 DEF IsField

\* What stands in a sequence to which another was added.
LEMMA Joined ==
  ASSUME NEW S, NEW b \in Seq(S), NEW l \in Seq(S), NEW n \in Nat, Len(l) = n
  PROVE  /\ b \o l \in Seq(S) /\ Len(b \o l) = Len(b) + n
         /\ \A k \in 1 .. Len(b) : (b \o l)[k] = b[k]
         /\ \A k \in 1 .. n : (b \o l)[Len(b) + k] = l[k]
BY LenProperties

\* Where a string, and where a value of fixed width, stands.
LEMMA AtText ==
  ASSUME NEW buf, NEW off, NEW v, v.kind = "text"
  PROVE  At(buf, off, v) <=>
           /\ \A k \in 1 .. 4 : buf[off + k] = <<Fixed(4, v.width), k>>
           /\ \A k \in 1 .. v.width : buf[off + 4 + k] = <<v, k>>
BY Zenon DEF At

LEMMA AtFixed ==
  ASSUME NEW buf, NEW off, NEW v, v.kind # "text"
  PROVE  At(buf, off, v) <=> \A k \in 1 .. v.width : buf[off + k] = <<v, k>>
BY Zenon DEF At

\* WriteData() adds the value after what is there.
LEMMA WriteAdds ==
  ASSUME NEW buf \in Seq(Cell), NEW v \in Any
  PROVE  /\ WriteData(buf, v) \in Seq(Cell)
         /\ Len(WriteData(buf, v)) = Len(buf) + Size(v)
         /\ \A k \in 1 .. Len(buf) : WriteData(buf, v)[k] = buf[k]
         /\ At(WriteData(buf, v), Len(buf), v)
<1>1. \A u \in Any : Bytes(u) \in Seq(Cell) /\ Len(Bytes(u)) = u.width
                      /\ \A k \in 1 .. u.width : Bytes(u)[k] = <<u, k>>
  <2> SUFFICES ASSUME NEW u \in Any
               PROVE  /\ Bytes(u) \in Seq(Cell) /\ Len(Bytes(u)) = u.width
                      /\ \A k \in 1 .. u.width : Bytes(u)[k] = <<u, k>>
    OBVIOUS
  <2>1. u.width \in Nat
    BY DEF Any
  <2>2. Bytes(u) \in [1 .. u.width -> Cell]
    BY <2>1 DEF Bytes, Cell
  <2>3. \A k \in 1 .. u.width : Bytes(u)[k] = <<u, k>>
    BY DEF Bytes
  <2> HIDE DEF Bytes
  <2> QED BY <2>1, <2>2, <2>3
<1>2. Fixed(4, v.width) \in Any /\ Fixed(4, v.width).width = 4
  BY DEF Fixed, Any
<1>3. CASE v.kind = "text"
  <2> DEFINE len == Bytes(Fixed(4, v.width))
             b1 == buf \o len
             b2 == b1 \o Bytes(v)
  <2>1. /\ len \in Seq(Cell) /\ Len(len) = 4
        /\ \A k \in 1 .. 4 : len[k] = <<Fixed(4, v.width), k>>
    BY <1>1, <1>2
  <2>2. /\ b1 \in Seq(Cell) /\ Len(b1) = Len(buf) + 4
        /\ \A k \in 1 .. Len(buf) : b1[k] = buf[k]
        /\ \A k \in 1 .. 4 : b1[Len(buf) + k] = len[k]
    <3>1. b1 = buf \o len
      BY DEF b1, len
    <3> HIDE DEF len, b1
    <3>2. /\ b1 \in Seq(Cell) /\ Len(b1) = Len(buf) + Len(len)
          /\ \A k \in 1 .. Len(buf) : b1[k] = buf[k]
          /\ \A k \in 1 .. Len(len) : b1[Len(buf) + k] = len[k]
      <4>1. Len(len) \in Nat
        BY <2>1
      <4>2. len \in Seq(Cell)
        BY <2>1
      <4> QED BY <3>1, <4>1, <4>2, Joined
    <3> QED BY <2>1, <3>2
  <2>3. /\ b2 \in Seq(Cell) /\ Len(b2) = Len(b1) + v.width
        /\ \A k \in 1 .. Len(b1) : b2[k] = b1[k]
        /\ \A k \in 1 .. v.width : b2[Len(b1) + k] = <<v, k>>
    <3> DEFINE bv == Bytes(v)
    <3>1. bv \in Seq(Cell) /\ Len(bv) = v.width /\ v.width \in Nat
            /\ \A k \in 1 .. v.width : bv[k] = <<v, k>>
      BY <1>1 DEF Any
    <3>2. b1 \in Seq(Cell)
      BY <2>2
    <3> HIDE DEF bv, b1
    <3>3. b2 = b1 \o bv
      BY DEF b1, bv
    <3>4. /\ b1 \o bv \in Seq(Cell) /\ Len(b1 \o bv) = Len(b1) + v.width
          /\ \A k \in 1 .. Len(b1) : (b1 \o bv)[k] = b1[k]
          /\ \A k \in 1 .. v.width : (b1 \o bv)[Len(b1) + k] = bv[k]
      BY <3>1, <3>2, Joined
    <3> QED BY <3>1, <3>3, <3>4
  <2>4. WriteData(buf, v) = b2
    BY <1>3 DEF WriteData
  <2> HIDE DEF b1, b2, len
  <2>5. v.width \in Nat
    BY DEF Any
  <2>6. At(b2, Len(buf), v)
    <3>1. \A k \in 1 .. 4 : b2[Len(buf) + k] = <<Fixed(4, v.width), k>>
      <4> SUFFICES ASSUME NEW k \in 1 .. 4
                   PROVE  b2[Len(buf) + k] = <<Fixed(4, v.width), k>>
        OBVIOUS
      <4>1. Len(buf) + k \in 1 .. Len(b1)
        BY <2>2, LenProperties
      <4> QED BY <2>1, <2>2, <2>3, <4>1
    <3>2. \A k \in 1 .. v.width : b2[Len(buf) + 4 + k] = <<v, k>>
      BY <2>2, <2>3
    <3> QED BY <1>3, <3>1, <3>2, Zenon DEF At
  <2>7. Len(b2) = Len(buf) + Size(v)
    <3>1. Size(v) = 4 + v.width
      BY <1>3 DEF Size
    <3>2. Len(buf) \in Nat
      BY LenProperties
    <3>3. Len(b1) = Len(buf) + 4 /\ Len(b2) = Len(b1) + v.width
      BY <2>2, <2>3
    <3> QED BY <2>5, <3>1, <3>2, <3>3
  <2>8. \A k \in 1 .. Len(buf) : b2[k] = buf[k]
    BY <2>2, <2>3
  <2> QED
    BY <2>3, <2>4, <2>6, <2>7, <2>8
<1>4. CASE v.kind # "text"
  <2> DEFINE bv == Bytes(v)
  <2>1. bv \in Seq(Cell) /\ Len(bv) = v.width /\ v.width \in Nat
          /\ \A k \in 1 .. v.width : bv[k] = <<v, k>>
    BY <1>1 DEF Any
  <2>2. WriteData(buf, v) = buf \o bv
    BY <1>4 DEF WriteData
  <2> HIDE DEF bv
  <2> QED
    <3>1. /\ buf \o bv \in Seq(Cell) /\ Len(buf \o bv) = Len(buf) + v.width
          /\ \A k \in 1 .. Len(buf) : (buf \o bv)[k] = buf[k]
          /\ \A k \in 1 .. v.width : (buf \o bv)[Len(buf) + k] = <<v, k>>
      BY <2>1, Joined
    <3>2. Size(v) = v.width
      BY <1>4 DEF Size
    <3>3. At(buf \o bv, Len(buf), v)
      <4>1. \A k \in 1 .. v.width : (buf \o bv)[Len(buf) + k] = <<v, k>>
        BY <3>1
      <4> QED BY <1>4, <4>1, AtFixed
    <3> QED BY <2>2, <3>1, <3>2, <3>3
<1> QED
  BY <1>3, <1>4

\* ReadData() finds the value that stands there.
LEMMA ReadFinds ==
  ASSUME NEW buf \in Seq(Cell), NEW off \in Nat, NEW f, IsField(f), NEW v \in Value,
         v \in Any, v.kind = f.kind,
         v.kind = "fixed" => v.width = f.width /\ v.width > 0,
         At(buf, off, v), off + Size(v) <= Len(buf)
  PROVE  ReadData(buf, off, f) = [value |-> v, size |-> Size(v)]
<1>1. \A u \in Any, o \in Nat :
        (u.width > 0 /\ o + u.width <= Len(buf) /\ \A k \in 1 .. u.width : buf[o + k] = <<u, k>>)
          => ReadBytes(buf, o, u.width) = u
  <2> SUFFICES ASSUME NEW u \in Any, NEW o \in Nat, u.width > 0, o + u.width <= Len(buf),
                      \A k \in 1 .. u.width : buf[o + k] = <<u, k>>
               PROVE  ReadBytes(buf, o, u.width) = u
    OBVIOUS
  <2>1. u.width \in Nat
    BY DEF Any
  <2>2. buf[o + 1] = <<u, 1>>
    BY <2>1
  <2>3. buf[o + 1][1] = u
    BY <2>2
  <2>4. ~ (o + u.width > Len(buf))
    BY <2>1
  <2> QED
    BY <2>1, <2>3, <2>4 DEF ReadBytes
<1>2. CASE v.kind = "fixed"
  BY <1>1, <1>2 DEF ReadData, At, Size
<1>3. CASE v.kind = "text"
  <2> DEFINE len == Fixed(4, v.width)
  <2>1. v.width \in Nat /\ f.kind = "text"
    BY <1>3 DEF Any
  <2>2. len \in Any /\ len.width = 4 /\ len.says = v.width
    BY <2>1 DEF Any, Fixed
  <2>3. ReadBytes(buf, off, 4) = len
    <3>1. off + 4 <= Len(buf)
      BY <1>3, <2>1 DEF Size
    <3>2. \A k \in 1 .. len.width : buf[off + k] = <<len, k>>
      BY <1>3, <2>2 DEF At
    <3> HIDE DEF len
    <3>3. off + len.width <= Len(buf) /\ len.width > 0
      BY <2>2, <3>1
    <3> QED BY <1>1, <2>2, <3>2, <3>3
  <2>4. CASE v.width = 0
    <3>1. v.says = 0
      BY <1>3, <2>4, ValueAssumption
    <3>2. v = Text(0, 0)
      BY <1>3, <2>4, <3>1 DEF Text, Any
    <3> QED
      BY <1>3, <2>1, <2>2, <2>3, <2>4, <3>2 DEF ReadData, Size
  <2>5. CASE v.width > 0
    <3>1. ReadBytes(buf, off + 4, v.width) = v
      <4>1. off + 4 \in Nat /\ off + 4 + v.width <= Len(buf)
        BY <1>3, <2>1 DEF Size
      <4>2. \A k \in 1 .. v.width : buf[off + 4 + k] = <<v, k>>
        BY <1>3 DEF At
      <4> QED BY <1>1, <2>5, <4>1, <4>2
    <3> QED
      BY <1>3, <2>1, <2>2, <2>3, <2>5, <3>1 DEF ReadData, Size
  <2> QED
    BY <2>1, <2>4, <2>5
<1> QED
  BY <1>2, <1>3 DEF IsField

\* Bytes added after a value leave it where it stands.
LEMMA AtKept ==
  ASSUME NEW buf, NEW buf2, NEW n \in Nat, NEW off \in Nat, NEW v \in Any,
         \A k \in 1 .. n : buf2[k] = buf[k], off + Size(v) <= n, At(buf, off, v)
  PROVE  At(buf2, off, v)
<1>1. v.width \in Nat
  BY DEF Any
<1>2. CASE v.kind = "text"
  <2>1. \A k \in 1 .. 4 : off + k \in 1 .. n
    BY <1>1, <1>2 DEF Size
  <2>2. \A k \in 1 .. v.width : off + 4 + k \in 1 .. n
    BY <1>1, <1>2 DEF Size
  <2>3. /\ \A k \in 1 .. 4 : buf[off + k] = <<Fixed(4, v.width), k>>
        /\ \A k \in 1 .. v.width : buf[off + 4 + k] = <<v, k>>
    BY <1>2, AtText
  <2>4. /\ \A k \in 1 .. 4 : buf2[off + k] = <<Fixed(4, v.width), k>>
        /\ \A k \in 1 .. v.width : buf2[off + 4 + k] = <<v, k>>
    BY <2>1, <2>2, <2>3
  <2> QED BY <1>2, <2>4, AtText
<1>3. CASE v.kind # "text"
  <2>1. \A k \in 1 .. v.width : off + k \in 1 .. n
    BY <1>1, <1>3 DEF Size
  <2>2. \A k \in 1 .. v.width : buf[off + k] = <<v, k>>
    BY <1>3, AtFixed
  <2>3. \A k \in 1 .. v.width : buf2[off + k] = <<v, k>>
    BY <2>1, <2>2
  <2>4. At(buf2, off, v) <=> \A k \in 1 .. v.width : buf2[off + k] = <<v, k>>
    BY <1>3, AtFixed
  <2> QED BY <2>3, <2>4
<1> QED
  BY <1>2, <1>3

\* A field starts after the end of the one before it.
LEMMA StartAfter ==
  ASSUME Written, NEW i \in 1 .. Len(ends), i <= Len(codec.writes)
  PROVE  /\ EndOf(i - 1) \in Nat /\ EndOf(i) = ends[i] /\ ends[i] \in Nat
         /\ Start(i) \in Nat /\ EndOf(i - 1) <= Start(i)
<1>1. Len(ends) \in Nat /\ \A j \in 1 .. Len(ends) : ends[j] \in Nat
  <2>1. ends \in Seq(Nat)
    BY DEF Written
  <2> QED BY <2>1
<1>2. EndOf(i - 1) \in Nat /\ EndOf(i) = ends[i] /\ ends[i] \in Nat
  BY <1>1 DEF EndOf
<1>3. IsField(codec.writes[i])
  BY CodecFields DEF Written
<1>4. Padding(EndOf(i - 1), codec.writes[i]) \in Nat
  BY <1>2, <1>3, PaddingNat
<1> QED
  BY <1>2, <1>4 DEF Start

----------------------------------------------------------------------------
\* A step of Encode() puts the field after its padding and leaves the others.
LEMMA EncodeKeeps ==
  ASSUME CodecInv, EncodeField
  PROVE  CodecInv'
<1> PICK i : i = field
  OBVIOUS
<1> DEFINE f == codec.writes[i]
           v == row[i]
           padded == buffer \o Zeros(Padding(Len(buffer), f))
<1>1. /\ Written /\ ReadSoFar /\ phase = "encode" /\ phase' = "encode"
      /\ i \in 1 .. Len(codec.writes) /\ field' = i + 1
      /\ Len(codec.writes) \in Nat
      /\ Len(ends) = i - 1 /\ Len(buffer) = EndOf(i - 1) /\ Len(buffer) \in Nat
      /\ buffer' = WriteData(padded, v) /\ ends' = Append(ends, Len(buffer'))
      /\ UNCHANGED <<codec, row, offset, result>>
  <2>1. Written /\ ReadSoFar /\ codec \in Codecs
    BY DEF CodecInv, EncodeField, Written
  <2>2. Len(codec.writes) \in Nat
    BY <2>1, CodecFields
  <2> QED BY <2>1, <2>2 DEF EncodeField, Written
<1>2. IsField(f)
  BY <1>1, CodecFields DEF Written
<1>3. v \in Any
  BY <1>1, RowValues DEF Written
<1>4. /\ padded \in Seq(Cell) /\ Len(padded) = Start(i) /\ Start(i) \in Nat
      /\ \A k \in 1 .. Len(buffer) : padded[k] = buffer[k]
      /\ Len(buffer) <= Len(padded)
  <2> DEFINE n == Padding(Len(buffer), f)
             z == Zeros(n)
  <2>1. n \in Nat /\ Start(i) = Len(buffer) + n
    BY <1>1, <1>2, PaddingNat DEF Start
  <2>2. z \in Seq(Cell) /\ Len(z) = n
    <3>1. z \in [1 .. n -> Cell]
      BY <2>1 DEF Zeros, Cell, Any, Garbage
    <3> HIDE DEF z, n
    <3> QED BY <2>1, <3>1
  <2>3. buffer \in Seq(Cell) /\ padded = buffer \o z
    BY <1>1 DEF Written
  <2> HIDE DEF z, n, padded
  <2>4. /\ padded \in Seq(Cell) /\ Len(padded) = Len(buffer) + n
        /\ \A k \in 1 .. Len(buffer) : padded[k] = buffer[k]
    BY <2>1, <2>2, <2>3, Joined
  <2> QED BY <1>1, <2>1, <2>4
<1> HIDE DEF padded
<1>5. /\ buffer' \in Seq(Cell) /\ Len(buffer') = Start(i) + Size(v)
      /\ \A k \in 1 .. Len(padded) : buffer'[k] = padded[k]
      /\ At(buffer', Start(i), v)
  BY <1>1, <1>3, <1>4, WriteAdds
<1>6. Size(v) \in Nat
  BY <1>3 DEF Size, Any
<1>7. Len(buffer') \in Nat /\ Len(buffer) <= Len(buffer')
  BY <1>1, <1>4, <1>5, <1>6
<1>8. \A k \in 1 .. Len(buffer) : buffer'[k] = buffer[k]
  BY <1>1, <1>4, <1>5
<1>9. /\ ends' \in Seq(Nat) /\ Len(ends') = i
      /\ \A j \in 1 .. i - 1 : ends'[j] = ends[j]
      /\ ends'[i] = Len(buffer')
  BY <1>1, <1>7 DEF Written
<1>10. ASSUME NEW j \in 1 .. i
       PROVE  EndOf(j - 1)' = EndOf(j - 1) /\ Start(j)' = Start(j)
  <2>1. EndOf(j - 1)' = EndOf(j - 1)
    BY <1>1, <1>9 DEF EndOf
  <2> QED BY <1>1, <2>1 DEF Start
<1>11. ASSUME NEW j \in 1 .. i - 1
       PROVE  Placed(j)'
  <2>1. Placed(j) /\ j \in 1 .. Len(ends) /\ j <= Len(codec.writes)
    BY <1>1 DEF Written
  <2>2. row[j] \in Any
    BY <1>1, <2>1, RowValues DEF Written
  <2>3. ends[j] \in Nat /\ Start(j) \in Nat
    BY <1>1, <2>1, StartAfter
  <2>4. At(buffer', Start(j), row[j])
    BY <1>1, <1>8, <2>1, <2>2, <2>3, AtKept DEF Placed
  <2>5. ends'[j] = ends[j] /\ Start(j)' = Start(j)
    <3>1. j \in 1 .. i
      BY <1>1
    <3>2. ends'[j] = ends[j]
      BY <1>9
    <3> QED BY <1>10, <3>1, <3>2
  <2>6. ends'[j] = Start(j) + Size(row[j]) /\ ends'[j] <= Len(buffer')
    BY <1>1, <1>7, <2>1, <2>3, <2>5 DEF Placed
  <2> QED BY <1>1, <2>4, <2>5, <2>6 DEF Placed
<1>12. Placed(i)'
  <2>1. Start(i)' = Start(i)
    BY <1>1, <1>10
  <2> QED BY <1>1, <1>5, <1>7, <1>9, <2>1 DEF Placed
<1>13. \A j \in 1 .. Len(ends') : Placed(j)'
  BY <1>1, <1>9, <1>11, <1>12
<1>14. Len(buffer') = EndOf(Len(ends))'
  BY <1>1, <1>9 DEF EndOf
<1>15. Written'
  BY <1>1, <1>5, <1>9, <1>13, <1>14 DEF Written
<1>16. ReadSoFar'
  <2>1. Len(result) = 0 /\ EndOf(0) = 0 /\ EndOf(0)' = 0
    BY <1>1 DEF ReadSoFar, EndOf
  <2> QED BY <1>1, <2>1 DEF ReadSoFar
<1> QED
  BY <1>1, <1>15, <1>16 DEF CodecInv

\* A step of Decode() reads the field that was written there.
LEMMA DecodeKeeps ==
  ASSUME CodecInv, DecodeField
  PROVE  CodecInv'
<1> PICK i : i = field
  OBVIOUS
<1> DEFINE f == codec.reads[i]
           start == offset + Skipped(offset, f)
           read == ReadData(buffer, start, f)
<1>1. /\ Written /\ ReadSoFar /\ phase = "decode" /\ phase' = "decode"
      /\ field' = i + 1
      /\ result' = Append(result, read.value) /\ offset' = start + read.size
      /\ UNCHANGED <<codec, row, buffer, ends>>
  BY DEF CodecInv, DecodeField
<1>2. codec.reads = codec.writes /\ Len(codec.writes) \in Nat
  BY <1>1, CodecFields DEF Written
<1>3. /\ i \in 1 .. Len(codec.writes) /\ i \in 1 .. Len(ends)
      /\ Len(result) = i - 1 /\ offset = EndOf(i - 1)
  BY <1>1, <1>2 DEF DecodeField, Written, ReadSoFar
<1>4. Placed(i) /\ Start(i) \in Nat /\ EndOf(i) = ends[i]
  BY <1>1, <1>3, StartAfter DEF Written
<1>5. start = Start(i)
  BY <1>2, <1>3 DEF Start, Skipped, Padding
<1>6. /\ row[i] \in Value /\ row[i] \in Any /\ row[i].kind = f.kind
      /\ row[i].kind = "fixed" => row[i].width = f.width /\ row[i].width > 0
      /\ IsField(f)
  BY <1>1, <1>2, <1>3, RowValues, CodecFields DEF Written
<1>7. read = [value |-> row[i], size |-> Size(row[i])]
  <2>1. buffer \in Seq(Cell)
    BY <1>1 DEF Written
  <2>2. At(buffer, start, row[i]) /\ start + Size(row[i]) <= Len(buffer)
    BY <1>4, <1>5 DEF Placed
  <2> HIDE DEF f, start
  <2> QED BY <1>4, <1>5, <1>6, <2>1, <2>2, ReadFinds
<1> HIDE DEF read, start
<1>8. offset' = EndOf(i)
  BY <1>1, <1>4, <1>5, <1>7 DEF Placed
<1>9. /\ result' \in Seq(Value) /\ Len(result') = i
      /\ \A j \in 1 .. i : result'[j] = row[j]
  BY <1>1, <1>3, <1>6, <1>7 DEF ReadSoFar
<1>10. EndOf(i)' = EndOf(i)
  BY <1>1 DEF EndOf
<1>11. ReadSoFar'
  BY <1>1, <1>3, <1>8, <1>9, <1>10 DEF ReadSoFar
<1>12. Written'
  <2>1. /\ Len(ends) = Len(codec.writes) /\ field' \in 1 .. Len(codec.writes) + 1
    BY <1>1, <1>2, <1>3 DEF Written
  <2> QED BY <1>1, <2>1 DEF Written, Placed, Start, EndOf
<1> QED
  BY <1>1, <1>11, <1>12 DEF CodecInv

\* The invariant of Encode() and Decode().
THEOREM CodecInvariant == Spec => []CodecInv
<1>1. Init => CodecInv
  BY DEF Init, CodecInv
<1>2. CodecInv /\ [Next]_vars => CodecInv'
  <2> SUFFICES ASSUME CodecInv, [Next]_vars
               PROVE  CodecInv'
    OBVIOUS
  <2>1. ASSUME NEW c \in Codecs, NEW r \in Typed(c.writes), Insert(c, r)
        PROVE  CodecInv'
    <3>1. Len(c.writes) \in Nat
      BY CodecFields
    <3>2. Written'
      BY <2>1, <3>1 DEF Insert, Written, EndOf
    <3>3. ReadSoFar'
      BY <2>1 DEF Insert, ReadSoFar, EndOf
    <3> QED BY <2>1, <3>2, <3>3 DEF Insert, CodecInv
  <2>2. CASE EncodeField
    BY <2>2, EncodeKeeps
  <2>3. CASE Read
    <3>1. Written /\ ReadSoFar /\ Len(codec.writes) \in Nat
      BY <2>3, CodecFields DEF Read, CodecInv, Written
    <3>2. Written'
      BY <2>3, <3>1 DEF Read, Written, Placed, Start, EndOf
    <3>3. ReadSoFar'
      BY <2>3, <3>1 DEF Read, ReadSoFar, EndOf
    <3> QED BY <2>3, <3>2, <3>3 DEF Read, CodecInv
  <2>4. CASE DecodeField
    BY <2>4, DecodeKeeps
  <2>5. CASE Return
    BY <2>5 DEF Return, CodecInv
  <2>6. CASE UNCHANGED vars
    <3>1. CASE phase = "idle"
      BY <2>6, <3>1 DEF vars, CodecInv
    <3>2. CASE phase # "idle"
      <4>1. Written /\ ReadSoFar
        BY <3>2 DEF CodecInv
      <4>2. Written'
        BY <2>6, <4>1 DEF vars, Written, Placed, Start, EndOf
      <4>3. ReadSoFar'
        BY <2>6, <4>1 DEF vars, ReadSoFar, EndOf
      <4> QED BY <2>6, <4>2, <4>3 DEF vars, CodecInv
    <3> QED BY <3>1, <3>2
  <2> QED
    BY <2>1, <2>2, <2>3, <2>4, <2>5, <2>6 DEF Next, Codecs
<1> QED
  BY <1>1, <1>2, PTL DEF Spec

\* Whatever the columns and the lengths of the strings, Decode() returns the values
\* that Encode() was given, field by field, and reads no further than the record.
THEOREM RowsComeBack == Spec => []RoundTrip
<1>1. CodecInv => RoundTrip
  <2> SUFFICES ASSUME CodecInv, phase = "decode"
               PROVE  /\ offset <= Len(buffer)
                      /\ Len(result) = field - 1
                      /\ \A i \in 1 .. Len(result) :
                           /\ codec.reads[i].name = codec.writes[i].name
                           /\ result[i] = row[i]
    BY DEF RoundTrip
  <2>1. Written /\ ReadSoFar /\ codec.reads = codec.writes /\ Len(codec.writes) \in Nat
    BY CodecFields DEF CodecInv, Written
  <2>2. Len(result) = field - 1 /\ Len(ends) = Len(codec.writes)
    BY <2>1 DEF Written, ReadSoFar
  <2>3. offset <= Len(buffer)
    <3>1. CASE Len(result) = 0
      <4>1. buffer \in Seq(Cell) /\ offset = 0
        BY <2>1, <3>1 DEF Written, ReadSoFar, EndOf
      <4> QED BY <4>1, LenProperties
    <3>2. CASE Len(result) # 0
      <4>1. Len(result) \in 1 .. Len(ends)
        BY <2>1, <2>2, <3>2 DEF Written
      <4>2. offset = ends[Len(result)]
        BY <2>1, <3>2 DEF ReadSoFar, EndOf
      <4> QED BY <2>1, <4>1, <4>2 DEF Written, Placed
    <3> QED BY <3>1, <3>2
  <2> QED
    BY <2>1, <2>2, <2>3 DEF ReadSoFar
<1> QED
  BY <1>1, CodecInvariant, PTL

\* Every value of a decoded row stands under its own column: by name in the rows of
\* the catalog, by place in those of a user table of any columns.
THEOREM TuplesFollowColumns == Spec => []TuplesFollowSchema
<1>1. CodecInv => TuplesFollowSchema
  <2> SUFFICES ASSUME CodecInv, phase = "decode", field > Len(codec.reads)
               PROVE  /\ Len(codec.schema) = Len(TupleOf)
                      /\ \A k \in DOMAIN codec.schema : \A i \in DOMAIN codec.writes :
                           codec.writes[i].name = codec.schema[k] => TupleOf[k] = row[i]
    BY DEF TuplesFollowSchema
  <2>1. /\ Written /\ ReadSoFar /\ codec \in Codecs
        /\ codec.reads = codec.writes /\ codec.values = codec.schema
        /\ Len(codec.writes) \in Nat /\ DOMAIN codec.writes = 1 .. Len(codec.writes)
        /\ Len(codec.schema) \in Nat /\ DOMAIN codec.schema = 1 .. Len(codec.schema)
        /\ \A i, j \in DOMAIN codec.writes : codec.writes[i].name = codec.writes[j].name => i = j
    BY CodecFields, ColumnNames DEF CodecInv, Written
  <2>2. Len(result) = Len(codec.writes)
    BY <2>1 DEF Written, ReadSoFar
  <2>3. DOMAIN TupleOf = 1 .. Len(codec.schema)
    BY <2>1 DEF TupleOf
  <2>4. Len(codec.schema) = Len(TupleOf)
    BY <2>1, <2>3 DEF TupleOf
  <2>5. ASSUME NEW k \in DOMAIN codec.schema, NEW i \in DOMAIN codec.writes,
               codec.writes[i].name = codec.schema[k]
        PROVE  TupleOf[k] = row[i]
    <3>1. (CHOOSE j \in DOMAIN codec.reads : codec.reads[j].name = codec.values[k]) = i
      BY <2>1, <2>5
    <3>2. TupleOf[k] = result[i]
      BY <2>1, <3>1 DEF TupleOf
    <3> QED BY <2>1, <2>2, <3>2 DEF ReadSoFar
  <2> QED
    BY <2>4, <2>5
<1> QED
  BY <1>1, CodecInvariant, PTL

\* A row with a column has a byte, whatever it holds, so that no table loses a row
\* to SlottedPage::Get(), which takes an empty record for a deleted one.
THEOREM RowsHaveBytes == Spec => []RowsAreRecords
<1>1. CodecInv => RowsAreRecords
  <2> SUFFICES ASSUME CodecInv, phase = "decode", codec.writes # <<>>
               PROVE  Len(buffer) > 0
    BY DEF RowsAreRecords
  <2> DEFINE n == Len(ends)
  <2>1. /\ Written /\ n = Len(codec.writes) /\ n \in Nat /\ DOMAIN codec.writes = 1 .. n
        /\ Len(buffer) = EndOf(n)
    BY CodecFields DEF CodecInv, Written
  <2>2. n \in 1 .. n
    BY <2>1
  <2>3. Placed(n) /\ Start(n) \in Nat /\ EndOf(n) = ends[n]
    BY <2>1, <2>2, StartAfter DEF Written
  <2>4. Size(row[n]) > 0 /\ Size(row[n]) \in Nat
    <3>1. row[n] \in Any /\ (row[n].kind = "fixed" => row[n].width > 0)
            /\ row[n].kind = codec.writes[n].kind /\ IsField(codec.writes[n])
      BY <2>1, <2>2, RowValues, CodecFields DEF Written
    <3> QED BY <3>1 DEF Size, Any, IsField
  <2> QED
    BY <2>1, <2>3, <2>4 DEF Placed
<1> QED
  BY <1>1, CodecInvariant, PTL
=============================================================================
