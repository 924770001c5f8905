---------------------------- MODULE AvroBinary ----------------------------
(* The avro-c library, external to this repository: what the encoders and   *)
(* decoders of src/src get from avro_value_write and avro_value_read on a   *)
(* memory buffer.  Values are TLA+ values (a record is a function from its  *)
(* field names, a string a sequence of bytes), encodings are sequences of   *)
(* bytes in Avro's binary encoding.                                         *)
EXTENDS Integers, SequencesExt

AvroNull == [type |-> "null"]
AvroInt == [type |-> "int"]
AvroLong == [type |-> "long"]
AvroBoolean == [type |-> "boolean"]
AvroString == [type |-> "string"]
AvroBytes == [type |-> "bytes"]
AvroEnum(symbols) == [type |-> "enum", symbols |-> symbols]
AvroArray(items) == [type |-> "array", items |-> items]
AvroRecord(fields) == [type |-> "record", fields |-> fields]   \* <<name, schema>> pairs

-----------------------------------------------------------------------------
(* Encodings.                                                                *)

Byte == 0..255
Bytes == Seq(Byte)

\* Seven bits to a byte, with the high bit for "more follow".
Varint[u \in Nat] == IF u < 128 THEN <<u>> ELSE <<(u % 128) + 128>> \o Varint[u \div 128]

Zigzag(k) == IF k >= 0 THEN 2 * k ELSE -2 * k - 1

EncodeLong(k) == Varint[Zigzag(k)]

Concat[parts \in Seq(Bytes)] ==
    IF parts = <<>> THEN <<>> ELSE Head(parts) \o Concat[Tail(parts)]

\* Items that are encoded, as one block if there are any, closed by a zero.
EncodeArray(items) ==
    (IF items = <<>> THEN <<>> ELSE EncodeLong(Len(items)) \o Concat[items]) \o <<0>>

EncodeScalar(S, v) ==
    CASE S.type = "null" -> <<>>
      [] S.type \in {"int", "long", "enum"} -> EncodeLong(v)
      [] S.type = "boolean" -> <<IF v THEN 1 ELSE 0>>
      [] S.type \in {"string", "bytes"} -> EncodeLong(Len(v)) \o v

Compound == {"array", "record"}

\* The parts of a compound value, each with its schema.
Parts(S, v) ==
    IF S.type = "array" THEN [i \in DOMAIN v |-> [schema |-> S.items, value |-> v[i]]]
    ELSE [i \in DOMAIN S.fields |->
             [schema |-> S.fields[i][2], value |-> v[S.fields[i][1]]]]

Join(S, parts) == IF S.type = "array" THEN EncodeArray(parts) ELSE Concat[parts]

\* A value whose parts, if it has any, Part encodes.
EncodeWith(Part(_, _), S, v) ==
    IF S.type \in Compound
    THEN Join(S, [i \in DOMAIN Parts(S, v) |-> Part(Parts(S, v)[i].schema, Parts(S, v)[i].value)])
    ELSE EncodeScalar(S, v)

\* avro_value_write.  No schema has more than four arrays and records one in
\* another; the others are for schemas with up to one, two and three.
Encode_1(S, v) == EncodeWith(EncodeScalar, S, v)
Encode_2(S, v) == EncodeWith(Encode_1, S, v)
Encode_3(S, v) == EncodeWith(Encode_2, S, v)
Encode(S, v) == EncodeWith(Encode_3, S, v)

-----------------------------------------------------------------------------
(* Reads.  The outcome is the value and the bytes left, or failure: reading  *)
(* past the end of the buffer fails.  A reader is a function from the bytes  *)
(* ahead to the outcome.                                                     *)

Got(v, rest) == [ok |-> TRUE, value |-> v, rest |-> rest]
Failed == [ok |-> FALSE]

\* One more byte, of more than 127, ahead of a number that was read.
WithByte(x, r) == IF r.ok THEN Got(x - 128 + 128 * r.value, r.rest) ELSE Failed

ReadVarint[b \in Bytes] ==
    IF b = <<>> THEN Failed
    ELSE IF Head(b) < 128 THEN Got(Head(b), Tail(b))
    ELSE WithByte(Head(b), ReadVarint[Tail(b)])

Unzigzag(u) == IF u % 2 = 0 THEN u \div 2 ELSE -((u + 1) \div 2)

Unzigzagged(r) == IF r.ok THEN Got(Unzigzag(r.value), r.rest) ELSE Failed

ReadLong(b) == Unzigzagged(ReadVarint[b])

\* What the readers get, one after the other.
Extended(values, r) == IF r.ok THEN Got(Append(values, r.value), r.rest) ELSE Failed

ReadNext(reader, r) == IF r.ok THEN Extended(r.value, reader[r.rest]) ELSE Failed

ReadAll(readers, b) ==
    LET upTo[n \in 0..Len(readers)] ==
          IF n = 0 THEN Got(<<>>, b) ELSE ReadNext(readers[n], upTo[n - 1])
    IN  upTo[Len(readers)]

\* A block of an array, after its count.  A negative count is followed by the
\* size of the block in bytes.
Block(item, n) ==
    IF ~n.ok THEN Failed
    ELSE IF n.value >= 0 THEN ReadAll([i \in 1..n.value |-> item], n.rest)
    ELSE IF ReadLong(n.rest).ok
         THEN ReadAll([i \in 1..-n.value |-> item], ReadLong(n.rest).rest)
    ELSE Failed

\* The items so far and whether there is more to read: a block of none ends it.
WithBlock(values, block) ==
    IF block.ok THEN [read |-> Got(values \o block.value, block.rest), more |-> block.value # <<>>]
    ELSE [read |-> Failed, more |-> FALSE]

NextBlock(item, s) ==
    IF s.more THEN WithBlock(s.read.value, Block(item, ReadLong(s.read.rest))) ELSE s

Ended(s) == IF s.more THEN Failed ELSE s.read

\* Each block takes a byte at least.
ReadArray(item, b) ==
    LET after[n \in 0..Len(b)] ==
          IF n = 0 THEN [read |-> Got(<<>>, b), more |-> TRUE] ELSE NextBlock(item, after[n - 1])
    IN  Ended(after[Len(b)])

\* As many bytes as a count that was read says.
Taken(n) ==
    IF n.ok /\ n.value \in 0..Len(n.rest)
    THEN Got(SubSeq(n.rest, 1, n.value), SubSeq(n.rest, n.value + 1, Len(n.rest)))
    ELSE Failed

ReadScalar(S, b) ==
    CASE S.type = "null" -> Got("null", b)
      [] S.type \in {"int", "long", "enum"} -> ReadLong(b)
      [] S.type = "boolean" -> IF b = <<>> THEN Failed ELSE Got(Head(b) # 0, Tail(b))
      [] S.type \in {"string", "bytes"} -> Taken(ReadLong(b))

PartSchemas(S) ==
    IF S.type = "array" THEN <<S.items>> ELSE [i \in DOMAIN S.fields |-> S.fields[i][2]]

\* The record of the values of its fields, which are in their order.
RecordOf(S, values) ==
    [f \in {S.fields[i][1] : i \in DOMAIN S.fields} |->
        values[CHOOSE i \in DOMAIN S.fields : S.fields[i][1] = f]]

AsRecord(S, r) == IF r.ok THEN Got(RecordOf(S, r.value), r.rest) ELSE Failed

ReadCompound(S, readers, b) ==
    IF S.type = "array" THEN ReadArray(readers[1], b) ELSE AsRecord(S, ReadAll(readers, b))

\* A value whose parts, if it has any, Part reads.
ReadWith(Part(_, _), S, b) ==
    IF S.type \in Compound
    THEN ReadCompound(S,
            [i \in DOMAIN PartSchemas(S) |-> [c \in Bytes |-> Part(PartSchemas(S)[i], c)]], b)
    ELSE ReadScalar(S, b)

\* avro_value_read, for the same schemas as Encode.
Decode_1(S, b) == ReadWith(ReadScalar, S, b)
Decode_2(S, b) == ReadWith(Decode_1, S, b)
Decode_3(S, b) == ReadWith(Decode_2, S, b)
Decode(S, b) == ReadWith(Decode_3, S, b)
=============================================================================
