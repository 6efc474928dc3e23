------------------------------- MODULE Wire -------------------------------
(***************************************************************************)
(* Messages: the framing of src/src/framing.c, the serializer and the      *)
(* deserializer of serialize-avro.c and deserialize-avro.c, and those of   *)
(* the C++ class AvroImpl (src/src-cpp/Serdes.cpp, serdescpp_int.h).       *)
(*                                                                         *)
(* Producers serialise values with a schema, by the C API into a buffer of *)
(* their own or a new one, by the C++ API at the end of a vector; any      *)
(* consumer deserialises any message, by either API.  The Avro encoding    *)
(* is external, and so is the registry behind serdes_schema_get, which     *)
(* finds the schema of an id or not.                                       *)
(***************************************************************************)
EXTENDS Integers, Sequences

CONSTANTS
  HalfByte,                \* half the number of values of a byte (128)
  Ids,                     \* ids of the schemas at the registry
  SchemaType,              \* the type of the schema with each id
  Values,                  \* Avro values; each knows its type
  avro_value_write(_),     \* the encoding of a value
  avro_value_read(_, _),   \* the value of a type that a text starts with
  Foreign,                 \* payloads that other programs send
  Caps,                    \* sizes of the applications' buffers
  MaxPacked,               \* bound on the number of messages in a vector
  None

Byte  == 2 * HalfByte
Half  == HalfByte * Byte * Byte * Byte
Word  == 2 * Half
Bytes == 0 .. Byte - 1
Types == {"bytes", "record"}

ASSUME WireAssumption ==
  /\ HalfByte \in Nat \ {0}
  /\ Ids \subseteq (-Half .. Half - 1) \ {-1}  \* an int; -1 means no id
  /\ SchemaType \in [Ids -> Types]
  /\ \A v \in Values :
       /\ v.type \in Types
       /\ avro_value_write(v) \in Seq(Bytes)
       /\ avro_value_read(v.type, avro_value_write(v)) = v
  /\ Foreign \subseteq Seq(Bytes)
  /\ Caps \subseteq Nat
  /\ MaxPacked \in Nat
  /\ None \notin Values \cup Ids

VARIABLES
  serializer_framing,    \* sd_conf of the producers' handle
  deserializer_framing,  \* sd_conf of the consumers' handle
  sent,                  \* the last message, with what was serialised
  query,                 \* the last answer to a query for the buffer size
  out,                   \* the vector of a C++ producer
  packed,                \* history: the messages in out and their places
  last                   \* the last call and its result

confVars == <<serializer_framing, deserializer_framing>>
vars == <<serializer_framing, deserializer_framing, sent, query, out, packed,
          last>>

NoCall == [call |-> "none"]

Init ==
  /\ serializer_framing \in {"none", "cp1"}
  /\ deserializer_framing \in {"none", "cp1"}
  /\ sent = None
  /\ query = None
  /\ out = <<>>
  /\ packed = <<>>
  /\ last = NoCall
-----------------------------------------------------------------------------
(***************************************************************************)
(* Framing.                                                                *)
(***************************************************************************)

\* htonl: the bytes of an int, the most significant one first (mutant: the
\* digits of the signed number).
htonlSigned(id) ==
  <<id \div (Byte * Byte * Byte), (id \div (Byte * Byte)) % Byte,
    (id \div Byte) % Byte, id % Byte>>
htonl(id) ==
  LET u1 == id % Word
      u2 == u1 \div Byte
      u3 == u2 \div Byte
      u4 == u3 \div Byte
  IN  <<u4, u3 % Byte, u2 % Byte, u1 % Byte>>

\* ntohl, and the conversion to int (mutant: which is forgotten).
ntohlUnsigned(b) == ((b[1] * Byte + b[2]) * Byte + b[3]) * Byte + b[4]
ntohl(b) ==
  LET u == ((b[1] * Byte + b[2]) * Byte + b[3]) * Byte + b[4]
  IN  IF u >= Half THEN u - Word ELSE u

\* The framing of the serializer (mutant: its magic byte is not counted).
\* With this size the check of serdes_framing_cp1_write for 5 bytes never fails.
FramingSizeOfId == IF serializer_framing = "cp1" THEN 4 ELSE 0
serdes_serializer_framing_size == IF serializer_framing = "cp1" THEN 5 ELSE 0

serdes_framing_write(id) ==
  IF serializer_framing = "cp1" THEN <<0>> \o htonl(id) ELSE <<>>

Cp1Framed(b) == Len(b) >= 5 /\ b[1] = 0
FramedId(b)  == ntohl(SubSeq(b, 2, 5))
Unframed(b)  == SubSeq(b, 6, Len(b))

\* serdes_schema_get(sd, NULL, id): found says that the cache has the
\* schema or the registry answers.
Lookup(id, found) == found /\ id \in Ids

\* The number of framing bytes (-1 for an error), the schema, the rest.
serdes_framing_read(b, found) ==
  IF deserializer_framing = "none"
  THEN [r |-> 0, id |-> None, rest |-> b]
  ELSE IF Cp1Framed(b) /\ Lookup(FramedId(b), found)
       THEN [r |-> 5, id |-> FramedId(b), rest |-> Unframed(b)]
       ELSE [r |-> -1, id |-> None, rest |-> b]
-----------------------------------------------------------------------------
(***************************************************************************)
(* Serialisation.                                                          *)
(***************************************************************************)

\* The size that serdes_schema_serialize_avro computes first.
RequiredSize(v) == Len(avro_value_write(v)) + serdes_serializer_framing_size

Message(id, v) == serdes_framing_write(id) \o avro_value_write(v)

Sent(b, id, v) == [payload |-> b, id |-> id, value |-> v]

\* A call of the C serializer ends: cap is the size of its buffer and len
\* how many bytes were written to it.
Serialized(id, v, cap, len, err) ==
  last' = [call |-> "serialize", id |-> id, value |-> v, cap |-> cap,
           len |-> len, err |-> err]

\* The application asks for the buffer size (mutant: without framing).
SizeQueryUnframed(id, v) ==
  /\ query' = [id |-> id, value |-> v, size |-> Len(avro_value_write(v))]
  /\ last' = NoCall
  /\ UNCHANGED <<confVars, sent, out, packed>>
SizeQuery(id, v) ==
  /\ query' = [id |-> id, value |-> v, size |-> RequiredSize(v)]
  /\ last' = NoCall
  /\ UNCHANGED <<confVars, sent, out, packed>>

\* avro-c cannot tell the size of the value, or fails to write it.
SerializeFail(id, v, cap) ==
  /\ Serialized(id, v, cap, 0, "SERIALIZER")
  /\ UNCHANGED <<confVars, sent, query, out, packed>>

\* The buffer of the application is too small.
SerializeTooSmall(id, v, cap) ==
  /\ cap < RequiredSize(v)
  /\ Serialized(id, v, cap, 0, "BUFFER_SIZE")
  /\ UNCHANGED <<confVars, sent, query, out, packed>>

\* The message is written to a buffer of the application that is large
\* enough, or to a new one of the size required, and sent.  The value is
\* not checked against the schema.
serdes_schema_serialize_avro(id, v, cap) ==
  /\ cap >= RequiredSize(v)
  /\ sent' = Sent(Message(id, v), id, v)
  /\ Serialized(id, v, cap, Len(Message(id, v)), "OK")
  /\ UNCHANGED <<confVars, query, out, packed>>

\* AvroImpl::serialize when the value does not match the schema (mutant: the
\* framing is written before the value is encoded).
CppMismatchFramed(id, v) ==
  /\ v.type # SchemaType[id]
  /\ out' = out \o serdes_framing_write(id)
  /\ last' = NoCall
  /\ UNCHANGED <<confVars, sent, query, packed>>
CppSerializeMismatch(id, v) ==
  /\ v.type # SchemaType[id]
  /\ last' = NoCall
  /\ UNCHANGED <<confVars, sent, query, out, packed>>

\* AvroImpl::serialize: framing and value go to the end of the vector, whose
\* size is returned.
CppSerialize(id, v) ==
  /\ v.type = SchemaType[id]
  /\ out' = out \o Message(id, v)
  /\ packed' = Append(packed, [from |-> Len(out) + 1, to |-> Len(out'),
                               id |-> id, value |-> v])
  /\ last' = [call |-> "cpp_serialize", ret |-> Len(out'),
              len |-> Len(Message(id, v))]
  /\ UNCHANGED <<confVars, sent, query>>

\* The application cuts the vector, sends the messages and clears it; any of
\* them is looked at further.
CppSend(i) ==
  /\ sent' = Sent(SubSeq(out, packed[i].from, packed[i].to), packed[i].id,
                  packed[i].value)
  /\ out' = <<>>
  /\ packed' = <<>>
  /\ last' = NoCall
  /\ UNCHANGED <<confVars, query>>

\* Another program sends a payload.
ForeignSend(b) ==
  /\ sent' = Sent(b, None, None)
  /\ last' = NoCall
  /\ UNCHANGED <<confVars, query, out, packed>>
-----------------------------------------------------------------------------
(***************************************************************************)
(* Deserialisation.                                                        *)
(***************************************************************************)

\* The value of a payload without framing, by the C API, where bytes have no
\* length in front of them, and by the C++ API; None for an error.
serdes_schema_deserialize_avro(id, b) ==
  IF SchemaType[id] = "bytes" THEN [type |-> "bytes", val |-> b]
                              ELSE avro_value_read(SchemaType[id], b)
cpp_decode(id, b) == avro_value_read(SchemaType[id], b)

\* The arguments of a call: the API, the message, the schema of the caller,
\* and whether the first and a second lookup of a schema succeed.
Args(api, m, given, found, again) ==
  [api |-> api, m |-> m, given |-> given, found |-> found, again |-> again]

\* A call of a deserializer ends: with an error, or with what was decoded.
Deserialized(args, err, id, value) ==
  /\ last' = [call |-> "deserialize", args |-> args, err |-> err, id |-> id,
              value |-> value]
  /\ UNCHANGED <<confVars, sent, query, out, packed>>

Decoded(args, id, value) ==
  Deserialized(args, IF value = None THEN "PAYLOAD_INVALID" ELSE "OK", id, value)

serdes_deserialize_avro(m, found) ==
  LET args == Args("c", m, None, found, TRUE)
      f == serdes_framing_read(m.payload, found)
  IN  \/ f.r = -1 /\ Deserialized(args, "PAYLOAD_INVALID", None, None)
      \/ f.r = 0 /\ Deserialized(args, "SCHEMA_REQUIRED", None, None)
      \/ f.r = 5 /\ Decoded(args, f.id,
                            serdes_schema_deserialize_avro(f.id, f.rest))

\* The application calls serdes_schema_deserialize_avro with its own schema.
DeserializeWith(m, given) ==
  Decoded(Args("c_schema", m, given, TRUE, TRUE), given,
          serdes_schema_deserialize_avro(given, m.payload))

\* AvroImpl::deserialize reads the framing also when the caller gives the
\* schema; otherwise it looks the schema up once more.
CppDeserialize(m, given, found, again) ==
  LET args == Args("cpp", m, given, found, again)
      f == serdes_framing_read(m.payload, found)
  IN  \/ /\ f.r = -1 \/ (given = None /\ (f.r = 0 \/ ~Lookup(f.id, again)))
         /\ Deserialized(args, "FAIL", None, None)
      \/ /\ f.r = 5 /\ given = None /\ Lookup(f.id, again)
         /\ Decoded(args, f.id, cpp_decode(f.id, f.rest))
      \/ /\ f.r # -1 /\ given # None
         /\ Decoded(args, given, cpp_decode(given, f.rest))

Produce ==
  \E id \in Ids, v \in Values :
    \/ SizeQuery(id, v)
    \/ CppSerializeMismatch(id, v)
    \/ Len(packed) < MaxPacked /\ CppSerialize(id, v)
    \/ \E cap \in Caps :
         SerializeFail(id, v, cap) \/ SerializeTooSmall(id, v, cap)
    \/ \E cap \in Caps \cup {RequiredSize(v)} :
         serdes_schema_serialize_avro(id, v, cap)

Transport ==
  \/ \E i \in DOMAIN packed : CppSend(i)
  \/ \E b \in Foreign : ForeignSend(b)

Consume ==
  /\ sent # None
  /\ \/ \E found \in BOOLEAN : serdes_deserialize_avro(sent, found)
     \/ \E given \in Ids : DeserializeWith(sent, given)
     \/ \E given \in Ids \cup {None}, found, again \in BOOLEAN :
          CppDeserialize(sent, given, found, again)

Next == Produce \/ Transport \/ Consume

Spec == Init /\ [][Next]_vars
-----------------------------------------------------------------------------
(***************************************************************************)
(* Properties.                                                             *)
(***************************************************************************)

\* The variables have their types: every payload is a sequence of bytes.
TypeOK ==
  /\ serializer_framing \in {"none", "cp1"}
  /\ deserializer_framing \in {"none", "cp1"}
  /\ sent \in [payload: Seq(Bytes), id: Ids \cup {None},
               value: Values \cup {None}] \cup {None}
  /\ query \in [id: Ids, value: Values, size: Nat] \cup {None}
  /\ out \in Seq(Bytes)
  /\ packed \in Seq([from: Nat, to: Nat, id: Ids, value: Values])
  /\ last.call \in {"none", "serialize", "cpp_serialize", "deserialize"}

\* The C serializer never writes more than its buffer holds, although the
\* size is computed before, and apart from, what is written.
BufferHolds ==
  last.call = "serialize" /\ last.err = "OK" => last.len <= last.cap

\* A buffer of the size that the serializer asked for is large enough when
\* the same value is then serialised into it.
QuerySuffices ==
  last.call = "serialize" /\ last.err = "BUFFER_SIZE" /\ query # None
  /\ query.id = last.id /\ query.value = last.value => last.cap < query.size

\* A C++ vector consists of whole messages, one after the other, whatever
\* failed in between: a consumer that cuts it there finds each of them.
OutIsMessages ==
  /\ \A i \in DOMAIN packed :
       /\ packed[i].from = IF i = 1 THEN 1 ELSE packed[i - 1].to + 1
       /\ SubSeq(out, packed[i].from, packed[i].to)
            = Message(packed[i].id, packed[i].value)
  /\ Len(out) = IF packed = <<>> THEN 0 ELSE packed[Len(packed)].to

\* A message of a producer whose value has the type of its schema.
WellTyped(m) == m.id # None /\ m.value.type = SchemaType[m.id]

\* The calls that should return what was serialised: the framings agree, the
\* caller's schema, if any, is the right one, and without framing there is
\* one.  Bytes are left out for the C API, which reads them as the Java
\* deserializer does but writes them as Avro does.
Matching(args) ==
  /\ WellTyped(args.m)
  /\ serializer_framing = deserializer_framing
  /\ args.given \in {None, args.m.id}
  /\ args.api = "c_schema" => serializer_framing = "none"
  /\ args.api # "cpp" => args.m.value.type # "bytes"

Findable(args) ==
  IF deserializer_framing = "none"
  THEN args.given # None
  ELSE args.found /\ (args.api = "cpp" /\ args.given = None => args.again)

\* What either API wrote either API reads: the same value under the same
\* schema, for every id an int can be, negative ones too; it fails only if
\* the schema cannot be had.
RoundTrip ==
  last.call = "deserialize" /\ Matching(last.args) =>
    IF Findable(last.args)
    THEN /\ last.err = "OK"
         /\ last.id = last.args.m.id
         /\ last.value = last.args.m.value
    ELSE last.err # "OK"

\* serdescpp-avro.h of deserialize: "If `*schemap` is non-NULL no framing is
\* expected and the deserializer will use the provided schema to deserialize
\* the payload."
NoFramingExpected ==
  last.call = "deserialize" /\ last.args.api = "cpp"
  /\ WellTyped(last.args.m) /\ last.args.given = last.args.m.id
  /\ serializer_framing = "none" => last.err = "OK"
===========================================================================
