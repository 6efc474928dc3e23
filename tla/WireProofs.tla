---------------------------- MODULE WireProofs ----------------------------
(***************************************************************************)
(* Proofs about Wire, for bytes of every size, all ids and all values.     *)
(***************************************************************************)
EXTENDS Wire, TLAPS, SequenceTheorems

-----------------------------------------------------------------------------
(***************************************************************************)
(* The id on the wire.                                                     *)
(***************************************************************************)

\* A number is made up of its quotient and remainder.
LEMMA QuotientRemainder ==
  ASSUME NEW u \in Int, NEW B \in Int, B > 0
  PROVE  u = B * (u \div B) + (u % B)
BY SMTT(30)

\* Quotient and remainder of natural numbers.
LEMMA Division ==
  ASSUME NEW u \in Nat, NEW B \in Nat \ {0}
  PROVE  /\ u \div B \in Nat
         /\ u % B \in 0 .. B - 1
         /\ u = B * (u \div B) + (u % B)
<1>1. u % B \in 0 .. B - 1
  OBVIOUS
<1>2. u = B * (u \div B) + (u % B)
  <2>1. u \in Int /\ B \in Int /\ B > 0
    OBVIOUS
  <2> QED BY <2>1, QuotientRemainder, Zenon
<1>3. u \div B \in Nat
  <2> DEFINE q == u \div B
  <2>1. q \in Int
    OBVIOUS
  <2>2. ASSUME q <= -1 PROVE FALSE
    <3>1. u < B * q + B
      BY <1>1, <1>2, <2>1
    <3> HIDE DEF q
    <3>2. B * q <= B * (-1)
      BY <2>1, <2>2
    <3> QED BY <3>1, <3>2, <2>1
  <2> QED BY <2>1, <2>2
<1> QED BY <1>1, <1>2, <1>3

\* The quotient of a product bound.
LEMMA QuotientBound ==
  ASSUME NEW u \in Nat, NEW B \in Nat \ {0}, NEW k \in Nat, u < B * k
  PROVE  u \div B < k
<1> DEFINE q == u \div B
<1>1. q \in Nat /\ B * q <= u
  BY Division
<1>2. ASSUME q >= k PROVE FALSE
  <2>1. B * q >= B * k
    <3> HIDE DEF q
    <3> QED BY <1>1, <1>2
  <2> QED BY <2>1, <1>1
<1> QED BY <1>1, <1>2

\* The remainder of an int is the unsigned number with the same bits.
LEMMA Unsigned ==
  ASSUME NEW W \in Nat \ {0}, NEW x \in -W .. W - 1
  PROVE  x % W = IF x >= 0 THEN x ELSE x + W
OBVIOUS

\* The facts about the sizes of bytes and ints that the proofs need.
LEMMA Sizes ==
  /\ Byte \in Nat \ {0} /\ Half \in Nat \ {0} /\ Word \in Nat \ {0}
  /\ Word = Half + Half
  /\ Word = Byte * (Byte * (Byte * Byte))
<1>1. HalfByte \in Nat \ {0}
  BY WireAssumption
<1>2. Byte \in Nat \ {0}
  BY <1>1 DEF Byte
<1>3. Byte * Byte \in Nat \ {0}
  BY <1>2
<1>4. Byte * Byte * Byte \in Nat \ {0}
  BY <1>2, <1>3
<1>5. Half = HalfByte * (Byte * Byte * Byte) /\ Half \in Nat \ {0}
  BY <1>1, <1>2, <1>4 DEF Half
<1>6. Word = Half + Half /\ Word \in Nat \ {0}
  BY <1>5 DEF Word
<1>7. Word = Byte * (Byte * (Byte * Byte))
  BY <1>1, <1>2, <1>5 DEF Word, Byte
<1> QED BY <1>2, <1>5, <1>6, <1>7

\* An int is written as four bytes, from which it is read back.
LEMMA IdRoundTrip ==
  ASSUME NEW id \in -Half .. Half - 1
  PROVE  /\ htonl(id) \in Seq(Bytes)
         /\ Len(htonl(id)) = 4
         /\ ntohl(htonl(id)) = id
<1> DEFINE u1 == id % Word
           u2 == u1 \div Byte
           u3 == u2 \div Byte
           u4 == u3 \div Byte
<1>1. u1 \in Nat /\ u1 < Word /\ u1 = IF id >= 0 THEN id ELSE id + Word
  <2>1. id \in -Word .. Word - 1
    BY Sizes
  <2>2. u1 = IF id >= 0 THEN id ELSE id + Word
    BY <2>1, Unsigned, Sizes, Zenon
  <2> HIDE DEF u1
  <2> QED BY <2>2, Sizes
<1> HIDE DEF u1
<1>2. /\ u2 \in Nat /\ u2 < Byte * (Byte * Byte)
      /\ u1 % Byte \in Bytes /\ u1 = Byte * u2 + (u1 % Byte)
  <2>1. Byte * (Byte * Byte) \in Nat /\ u1 < Byte * (Byte * (Byte * Byte))
    BY <1>1, Sizes
  <2>2. u2 < Byte * (Byte * Byte)
    BY <1>1, <2>1, Sizes, QuotientBound
  <2>3. u2 \in Nat /\ u1 % Byte \in 0 .. Byte - 1 /\ u1 = Byte * u2 + (u1 % Byte)
    BY <1>1, Sizes, Division, Zenon
  <2> QED BY <2>2, <2>3 DEF Bytes
<1> HIDE DEF u2
<1>3. /\ u3 \in Nat /\ u3 < Byte * Byte
      /\ u2 % Byte \in Bytes /\ u2 = Byte * u3 + (u2 % Byte)
  <2>1. Byte * Byte \in Nat
    BY Sizes
  <2> QED BY <1>2, <2>1, Sizes, Division, QuotientBound DEF Bytes
<1> HIDE DEF u3
<1>4. /\ u4 \in Nat /\ u4 < Byte
      /\ u3 % Byte \in Bytes /\ u3 = Byte * u4 + (u3 % Byte)
  BY <1>3, Sizes, Division, QuotientBound DEF Bytes
<1> HIDE DEF u4
<1>5. htonl(id) = <<u4, u3 % Byte, u2 % Byte, u1 % Byte>>
  BY DEF htonl, u1, u2, u3, u4
<1>6. u4 \in Bytes
  BY <1>4, Sizes DEF Bytes
<1>7. ((u4 * Byte + (u3 % Byte)) * Byte + (u2 % Byte)) * Byte + (u1 % Byte) = u1
  <2>1. u4 * Byte + (u3 % Byte) = u3
    BY <1>4, Sizes
  <2>2. u3 * Byte + (u2 % Byte) = u2
    BY <1>3, Sizes
  <2>3. u2 * Byte + (u1 % Byte) = u1
    BY <1>2, Sizes
  <2> QED BY <2>1, <2>2, <2>3
<1>8. ntohl(htonl(id)) = IF u1 >= Half THEN u1 - Word ELSE u1
  <2> DEFINE b == <<u4, u3 % Byte, u2 % Byte, u1 % Byte>>
  <2>1. /\ b[1] = u4 /\ b[2] = u3 % Byte /\ b[3] = u2 % Byte
        /\ b[4] = u1 % Byte
    OBVIOUS
  <2>2. ((b[1] * Byte + b[2]) * Byte + b[3]) * Byte + b[4] = u1
    BY <1>7, <2>1
  <2> HIDE DEF b
  <2>3. ntohl(b) = IF u1 >= Half THEN u1 - Word ELSE u1
    BY <2>2 DEF ntohl
  <2> QED BY <1>5, <2>3, Zenon DEF b
<1>9. ntohl(htonl(id)) = id
  BY <1>1, <1>8, Sizes
<1>10. htonl(id) \in Seq(Bytes) /\ Len(htonl(id)) = 4
  BY <1>2, <1>3, <1>4, <1>5, <1>6
<1> QED BY <1>9, <1>10
-----------------------------------------------------------------------------
(***************************************************************************)
(* Messages.                                                               *)
(***************************************************************************)

\* What was appended to a sequence is found at its end, and what was there
\* before is still at its place.
LEMMA ConcatParts ==
  ASSUME NEW S, NEW s \in Seq(S), NEW t \in Seq(S)
  PROVE  /\ SubSeq(s \o t, Len(s) + 1, Len(s \o t)) = t
         /\ \A m, n \in Nat : 1 <= m /\ n <= Len(s) =>
              SubSeq(s \o t, m, n) = SubSeq(s, m, n)
<1> DEFINE c == s \o t
<1>1. /\ c \in Seq(S) /\ Len(s) \in Nat /\ Len(t) \in Nat
      /\ Len(c) = Len(s) + Len(t)
      /\ \A i \in 1 .. Len(s) + Len(t) :
           c[i] = IF i <= Len(s) THEN s[i] ELSE t[i - Len(s)]
  BY ConcatProperties, LenProperties
<1> HIDE DEF c
<1>2. \A i \in 1 .. Len(c) : c[i] \in S
  BY <1>1, ElementOfSeq
<1>3. SubSeq(c, Len(s) + 1, Len(c)) = t
  <2> DEFINE d == SubSeq(c, Len(s) + 1, Len(c))
  <2>1. /\ d \in Seq(S)
        /\ Len(d) = IF Len(s) + 1 <= Len(c) THEN Len(c) - (Len(s) + 1) + 1 ELSE 0
        /\ \A i \in 1 .. Len(c) - (Len(s) + 1) + 1 : d[i] = c[Len(s) + 1 + i - 1]
    BY <1>1, <1>2, SubSeqProperties
  <2> HIDE DEF d
  <2>2. Len(d) = Len(t)
    BY <1>1, <2>1
  <2>3. ASSUME NEW i \in 1 .. Len(d) PROVE d[i] = t[i]
    <3>1. /\ i \in 1 .. Len(c) - (Len(s) + 1) + 1
          /\ Len(s) + 1 + i - 1 = Len(s) + i
          /\ Len(s) + i \in 1 .. Len(s) + Len(t)
          /\ ~(Len(s) + i <= Len(s))
          /\ (Len(s) + i) - Len(s) = i
      BY <1>1, <2>2
    <3>2. d[i] = c[Len(s) + i]
      BY <2>1, <3>1, Zenon
    <3>3. c[Len(s) + i] = t[(Len(s) + i) - Len(s)]
      BY <1>1, <3>1, Zenon
    <3> QED BY <3>1, <3>2, <3>3, Zenon
  <2> QED BY <2>1, <2>2, <2>3, SeqEqual DEF d
<1>4. ASSUME NEW m \in Nat, NEW n \in Nat, 1 <= m, n <= Len(s)
      PROVE  SubSeq(c, m, n) = SubSeq(s, m, n)
  <2>1. \A i \in m .. n : c[i] = s[i] /\ c[i] \in S
    BY <1>1, <1>2, <1>4
  <2> DEFINE d == SubSeq(c, m, n)
             e == SubSeq(s, m, n)
  <2>2. /\ d \in Seq(S) /\ Len(d) = IF m <= n THEN n - m + 1 ELSE 0
        /\ \A i \in 1 .. n - m + 1 : d[i] = c[m + i - 1]
    BY <2>1, SubSeqProperties
  <2>3. /\ e \in Seq(S) /\ Len(e) = IF m <= n THEN n - m + 1 ELSE 0
        /\ \A i \in 1 .. n - m + 1 : e[i] = s[m + i - 1]
    <3>1. \A i \in m .. n : s[i] \in S
      BY <2>1
    <3> QED BY <3>1, SubSeqProperties
  <2> HIDE DEF d, e
  <2>4. Len(d) = Len(e) /\ \A i \in 1 .. Len(d) : d[i] = e[i]
    BY <2>1, <2>2, <2>3
  <2> QED BY <2>2, <2>3, <2>4, SeqEqual DEF d, e
<1> QED BY <1>3, <1>4 DEF c

\* A message is its framing and the encoded value; a framed one is taken
\* apart again by the deserializer.
LEMMA MessageParts ==
  ASSUME NEW id \in Ids, NEW v \in Values,
         serializer_framing \in {"none", "cp1"}
  PROVE  /\ Message(id, v) \in Seq(Bytes)
         /\ Len(Message(id, v)) = RequiredSize(v)
         /\ serializer_framing = "none" => Message(id, v) = avro_value_write(v)
         /\ serializer_framing = "cp1" =>
              /\ Cp1Framed(Message(id, v))
              /\ FramedId(Message(id, v)) = id
              /\ Unframed(Message(id, v)) = avro_value_write(v)
<1> DEFINE body == avro_value_write(v)
           f == <<0>> \o htonl(id)
<1>1. body \in Seq(Bytes) /\ Len(body) \in Nat
  BY WireAssumption, LenProperties
<1>2. id \in -Half .. Half - 1
  BY WireAssumption
<1>3. <<0>> \in Seq(Bytes) /\ Len(<<0>>) = 1
  BY Sizes DEF Bytes
<1>4. /\ htonl(id) \in Seq(Bytes) /\ Len(htonl(id)) = 4
      /\ ntohl(htonl(id)) = id
  BY <1>2, IdRoundTrip
<1>5. f \in Seq(Bytes) /\ Len(f) = 5 /\ f[1] = 0 /\ SubSeq(f, 2, 5) = htonl(id)
  <2>1. /\ f \in Seq(Bytes) /\ Len(f) = Len(<<0>>) + Len(htonl(id))
        /\ \A i \in 1 .. Len(<<0>>) + Len(htonl(id)) :
             f[i] = IF i <= Len(<<0>>) THEN <<0>>[i] ELSE htonl(id)[i - Len(<<0>>)]
    BY <1>3, <1>4, ConcatProperties, Zenon
  <2>2. SubSeq(f, Len(<<0>>) + 1, Len(f)) = htonl(id)
    BY <1>3, <1>4, ConcatParts
  <2> HIDE DEF f
  <2>3. Len(f) = 5 /\ f[1] = <<0>>[1]
    BY <1>3, <1>4, <2>1
  <2>4. Len(<<0>>) + 1 = 2 /\ <<0>>[1] = 0
    BY <1>3
  <2>5. SubSeq(f, 2, 5) = htonl(id)
    BY <2>2, <2>3, <2>4, Zenon
  <2> QED BY <2>1, <2>3, <2>4, <2>5, Zenon
<1>6. CASE serializer_framing = "none"
  <2>1. Message(id, v) = body
    BY <1>1, <1>6, ConcatEmptySeq DEF Message, serdes_framing_write
  <2>2. RequiredSize(v) = Len(body)
    BY <1>1, <1>6 DEF RequiredSize, serdes_serializer_framing_size
  <2> QED BY <1>1, <1>6, <2>1, <2>2
<1>7. CASE serializer_framing = "cp1"
  <2> DEFINE c == f \o body
  <2>1. Message(id, v) = c
    BY <1>7 DEF Message, serdes_framing_write
  <2> HIDE DEF f, body
  <2>2. /\ c \in Seq(Bytes) /\ Len(c) = Len(f) + Len(body)
        /\ \A i \in 1 .. Len(f) + Len(body) :
             c[i] = IF i <= Len(f) THEN f[i] ELSE body[i - Len(f)]
    BY <1>1, <1>5, ConcatProperties, Zenon
  <2>3. RequiredSize(v) = Len(body) + 5
    BY <1>7 DEF RequiredSize, serdes_serializer_framing_size, body
  <2>4. SubSeq(c, 6, Len(c)) = body /\ SubSeq(c, 2, 5) = SubSeq(f, 2, 5)
    <3>0. f \in Seq(Bytes) /\ body \in Seq(Bytes)
      BY <1>1, <1>5
    <3>1. SubSeq(c, Len(f) + 1, Len(c)) = body
      BY <3>0, ConcatParts
    <3>2. \A m, n \in Nat : 1 <= m /\ n <= Len(f) =>
            SubSeq(c, m, n) = SubSeq(f, m, n)
      BY <3>0, ConcatParts
    <3>3. Len(f) + 1 = 6 /\ 2 \in Nat /\ 5 \in Nat /\ 1 <= 2 /\ 5 <= Len(f)
      BY <1>5
    <3> HIDE DEF c
    <3>4. SubSeq(c, 6, Len(c)) = body
      BY <3>1, <3>3, Zenon
    <3> QED BY <3>2, <3>3, <3>4, Zenon
  <2> HIDE DEF c
  <2>5. Len(c) >= 5 /\ c[1] = 0
    BY <1>1, <1>5, <2>2
  <2>6. Cp1Framed(c) /\ FramedId(c) = id /\ Unframed(c) = body
    BY <1>4, <1>5, <2>4, <2>5 DEF Cp1Framed, FramedId, Unframed
  <2>7. Len(c) = RequiredSize(v)
    BY <1>1, <1>5, <2>2, <2>3
  <2>8. avro_value_write(v) = body /\ serializer_framing # "none"
    BY <1>7 DEF body
  <2> QED BY <1>7, <2>1, <2>2, <2>6, <2>7, <2>8, Zenon
<1> QED BY <1>6, <1>7

\* What the deserializer's framing makes of a message when it is configured
\* as the serializer's.
LEMMA FramingRead ==
  ASSUME NEW id \in Ids, NEW v \in Values, NEW found \in BOOLEAN,
         serializer_framing \in {"none", "cp1"},
         serializer_framing = deserializer_framing
  PROVE  serdes_framing_read(Message(id, v), found) =
           IF deserializer_framing = "none"
           THEN [r |-> 0, id |-> None, rest |-> avro_value_write(v)]
           ELSE IF found THEN [r |-> 5, id |-> id, rest |-> avro_value_write(v)]
                ELSE [r |-> -1, id |-> None, rest |-> Message(id, v)]
<1>1. CASE serializer_framing = "none"
  <2>1. Message(id, v) = avro_value_write(v)
    BY <1>1, MessageParts
  <2> QED BY <1>1, <2>1 DEF serdes_framing_read
<1>2. CASE serializer_framing = "cp1"
  <2> DEFINE m == Message(id, v)
  <2>1. Cp1Framed(m) /\ FramedId(m) = id /\ Unframed(m) = avro_value_write(v)
    BY <1>2, MessageParts
  <2> HIDE DEF m
  <2>2. Lookup(FramedId(m), found) = found
    BY <2>1 DEF Lookup
  <2>3. deserializer_framing = "cp1" /\ deserializer_framing # "none"
    BY <1>2
  <2>4. CASE found
    BY <2>1, <2>2, <2>3, <2>4 DEF serdes_framing_read, m
  <2>5. CASE ~found
    BY <2>1, <2>2, <2>3, <2>5 DEF serdes_framing_read, m
  <2> QED BY <2>4, <2>5
<1> QED BY <1>1, <1>2
-----------------------------------------------------------------------------
(***************************************************************************)
(* The inductive invariant: besides the properties, the message sent is    *)
(* what its producer made of the value, the size answered is the one that  *)
(* the serializer requires, and the places of the messages are in the      *)
(* vector, so that they are still there after more has been appended.      *)
(***************************************************************************)

SentIsMessage ==
  sent # None /\ sent.id # None =>
    /\ sent.id \in Ids /\ sent.value \in Values
    /\ sent.payload = Message(sent.id, sent.value)

PlacesInOut ==
  \A i \in DOMAIN packed : 1 <= packed[i].from /\ packed[i].to <= Len(out)

QueryIsRequired == query # None => query.size = RequiredSize(query.value)

IInv ==
  /\ TypeOK
  /\ SentIsMessage
  /\ QueryIsRequired
  /\ PlacesInOut
  /\ OutIsMessages
  /\ BufferHolds
  /\ QuerySuffices
  /\ RoundTrip

LEMMA InitIInv == Init => IInv
<1> SUFFICES ASSUME Init PROVE IInv
  OBVIOUS
<1>1. TypeOK
  BY DEF Init, TypeOK, NoCall
<1>2. OutIsMessages /\ PlacesInOut
  BY DEF Init, OutIsMessages, PlacesInOut
<1> QED BY <1>1, <1>2 DEF Init, IInv, SentIsMessage, QueryIsRequired,
     BufferHolds, QuerySuffices, RoundTrip, NoCall

\* What an action leaves alone keeps its part of the invariant.
LEMMA SentKept ==
  ASSUME SentIsMessage, UNCHANGED <<confVars, sent>>
  PROVE  SentIsMessage'
BY DEF SentIsMessage, confVars, Message, serdes_framing_write

LEMMA QueryKept ==
  ASSUME QueryIsRequired, UNCHANGED <<confVars, query>>
  PROVE  QueryIsRequired'
BY DEF QueryIsRequired, confVars, RequiredSize, serdes_serializer_framing_size

LEMMA OutKept ==
  ASSUME OutIsMessages, PlacesInOut, UNCHANGED <<confVars, out, packed>>
  PROVE  OutIsMessages' /\ PlacesInOut'
BY DEF OutIsMessages, PlacesInOut, confVars, Message, serdes_framing_write

\* A step that ends no call of interest keeps the three properties of calls.
LEMMA CallsKept ==
  ASSUME last'.call \notin {"serialize", "deserialize"}
  PROVE  BufferHolds' /\ QuerySuffices' /\ RoundTrip'
BY DEF BufferHolds, QuerySuffices, RoundTrip
-----------------------------------------------------------------------------
(***************************************************************************)
(* Every action keeps the invariant.                                       *)
(***************************************************************************)

LEMMA SizeQueryStep ==
  ASSUME IInv, NEW id \in Ids, NEW v \in Values, SizeQuery(id, v)
  PROVE  IInv'
<1>1. /\ query' = [id |-> id, value |-> v, size |-> RequiredSize(v)]
      /\ last' = NoCall
      /\ UNCHANGED <<confVars, sent, out, packed>>
  BY DEF SizeQuery
<1>2. RequiredSize(v) \in Nat
  BY WireAssumption, LenProperties
     DEF RequiredSize, serdes_serializer_framing_size
<1>3. QueryIsRequired'
  BY <1>1 DEF QueryIsRequired, RequiredSize, confVars,
     serdes_serializer_framing_size
<1>4. TypeOK'
  BY <1>1, <1>2 DEF IInv, TypeOK, NoCall, confVars
<1> QED BY <1>1, <1>3, <1>4, SentKept, OutKept, CallsKept DEF IInv, NoCall

LEMMA SerializeStep ==
  ASSUME IInv, NEW id \in Ids, NEW v \in Values, NEW cap \in Nat,
         \/ SerializeFail(id, v, cap)
         \/ SerializeTooSmall(id, v, cap)
         \/ serdes_schema_serialize_avro(id, v, cap)
  PROVE  IInv'
<1>1. /\ Message(id, v) \in Seq(Bytes)
      /\ Len(Message(id, v)) = RequiredSize(v)
  BY MessageParts DEF IInv, TypeOK
<1>2. RequiredSize(v) \in Nat
  BY <1>1, LenProperties
<1>3. UNCHANGED <<confVars, query, out, packed>> /\ last'.call = "serialize"
  BY DEF SerializeFail, SerializeTooSmall, serdes_schema_serialize_avro,
     Serialized
<1>4. SentIsMessage' /\ sent' \in [payload: Seq(Bytes), id: Ids \cup {None},
                                   value: Values \cup {None}] \cup {None}
  <2>1. CASE UNCHANGED sent
    BY <1>3, <2>1, SentKept DEF IInv, TypeOK
  <2>2. CASE sent' = Sent(Message(id, v), id, v)
    <3>1. SentIsMessage'
      BY <1>3, <2>2 DEF SentIsMessage, Sent, Message, serdes_framing_write,
         confVars
    <3> QED BY <1>1, <2>2, <3>1 DEF Sent
  <2> QED BY <2>1, <2>2 DEF SerializeFail, SerializeTooSmall,
       serdes_schema_serialize_avro
<1>5. TypeOK'
  BY <1>3, <1>4 DEF IInv, TypeOK, confVars
<1>6. BufferHolds'
  BY <1>1, <1>2 DEF BufferHolds, SerializeFail, SerializeTooSmall,
     serdes_schema_serialize_avro, Serialized
<1>7. QuerySuffices'
  <2>1. CASE last'.err # "BUFFER_SIZE"
    BY <2>1 DEF QuerySuffices
  <2>2. CASE SerializeTooSmall(id, v, cap)
    <3>1. /\ cap < RequiredSize(v) /\ last'.value = v /\ last'.cap = cap
          /\ query' = query
      BY <2>2 DEF SerializeTooSmall, Serialized
    <3>2. query # None => query.size = RequiredSize(query.value)
      BY DEF IInv, QueryIsRequired
    <3> QED BY <3>1, <3>2 DEF QuerySuffices
  <2>3. CASE \/ SerializeFail(id, v, cap)
             \/ serdes_schema_serialize_avro(id, v, cap)
    BY <2>1, <2>3 DEF SerializeFail, serdes_schema_serialize_avro, Serialized
  <2> QED BY <2>2, <2>3
<1>8. RoundTrip'
  BY <1>3 DEF RoundTrip
<1> QED BY <1>3, <1>4, <1>5, <1>6, <1>7, <1>8, QueryKept, OutKept DEF IInv

LEMMA CppMismatchStep ==
  ASSUME IInv, NEW id \in Ids, NEW v \in Values, CppSerializeMismatch(id, v)
  PROVE  IInv'
<1>1. last' = NoCall /\ UNCHANGED <<confVars, sent, query, out, packed>>
  BY DEF CppSerializeMismatch
<1>2. TypeOK'
  BY <1>1 DEF IInv, TypeOK, NoCall, confVars
<1> QED BY <1>1, <1>2, SentKept, QueryKept, OutKept, CallsKept DEF IInv, NoCall

LEMMA CppSerializeStep ==
  ASSUME IInv, NEW id \in Ids, NEW v \in Values, CppSerialize(id, v)
  PROVE  IInv'
<1> DEFINE m == Message(id, v)
           c == out \o m
           e == [from |-> Len(out) + 1, to |-> Len(c), id |-> id, value |-> v]
           Entries == [from: Nat, to: Nat, id: Ids, value: Values]
           n == Len(packed)
<1>1. /\ out' = c /\ packed' = Append(packed, e)
      /\ last'.call = "cpp_serialize"
      /\ UNCHANGED <<confVars, sent, query>>
  BY DEF CppSerialize
<1>2. m \in Seq(Bytes) /\ out \in Seq(Bytes) /\ packed \in Seq(Entries)
  BY MessageParts DEF IInv, TypeOK
<1> HIDE DEF m
<1>4. /\ c \in Seq(Bytes) /\ Len(out) \in Nat /\ Len(m) \in Nat
      /\ Len(c) = Len(out) + Len(m)
  BY <1>2, ConcatProperties, LenProperties
<1>5. SubSeq(c, Len(out) + 1, Len(c)) = m
  BY <1>2, ConcatParts
<1>6. \A a, b \in Nat : 1 <= a /\ b <= Len(out) =>
        SubSeq(c, a, b) = SubSeq(out, a, b)
  BY <1>2, ConcatParts
<1> HIDE DEF c
<1>7. e \in Entries
  BY <1>4
<1> HIDE DEF e, Entries
<1>8. /\ packed' \in Seq(Entries) /\ n \in Nat /\ Len(packed') = n + 1
      /\ DOMAIN packed' = 1 .. n + 1 /\ DOMAIN packed = 1 .. n
      /\ packed'[n + 1] = e
      /\ \A i \in 1 .. n : packed'[i] = packed[i]
  BY <1>1, <1>2, <1>7, AppendProperties, LenProperties
<1>9. /\ e.from = Len(out) + 1 /\ e.to = Len(c) /\ e.id = id /\ e.value = v
  BY DEF e
<1>10. \A i \in 1 .. n : /\ packed[i].from \in Nat /\ packed[i].to \in Nat
                         /\ 1 <= packed[i].from /\ packed[i].to <= Len(out)
  <2>1. \A i \in 1 .. n : packed[i] \in Entries
    BY <1>2, ElementOfSeq
  <2>2. \A i \in 1 .. n : packed[i].from \in Nat /\ packed[i].to \in Nat
    BY <2>1 DEF Entries
  <2>3. \A i \in 1 .. n : 1 <= packed[i].from /\ packed[i].to <= Len(out)
    BY <1>8 DEF IInv, PlacesInOut
  <2> QED BY <2>2, <2>3
<1>11. PlacesInOut'
  <2>1. ASSUME NEW i \in 1 .. n + 1
        PROVE  1 <= packed'[i].from /\ packed'[i].to <= Len(c)
    <3>1. CASE i = n + 1
      BY <1>4, <1>8, <1>9, <3>1
    <3>2. CASE i \in 1 .. n
      BY <1>4, <1>8, <1>10, <3>2
    <3> QED BY <1>8, <3>1, <3>2
  <2> QED BY <1>1, <1>8, <2>1, Zenon DEF PlacesInOut
<1>12. OutIsMessages'
  <2>1. /\ \A i \in 1 .. n :
             /\ packed[i].from = IF i = 1 THEN 1 ELSE packed[i - 1].to + 1
             /\ SubSeq(out, packed[i].from, packed[i].to)
                  = Message(packed[i].id, packed[i].value)
        /\ Len(out) = IF packed = <<>> THEN 0 ELSE packed[n].to
    BY <1>8 DEF IInv, OutIsMessages
  <2>2. Len(out) = IF n = 0 THEN 0 ELSE packed[n].to
    BY <1>2, <2>1, EmptySeq
  <2>3. ASSUME NEW i \in 1 .. n + 1
        PROVE  packed'[i].from = IF i = 1 THEN 1 ELSE packed'[i - 1].to + 1
    <3>1. CASE i = n + 1
      <4>1. packed'[i].from = Len(out) + 1
        BY <1>8, <1>9, <3>1
      <4>2. CASE n = 0
        BY <1>8, <2>2, <3>1, <4>1, <4>2
      <4>3. CASE n # 0
        <5>1. i - 1 = n /\ n \in 1 .. n /\ i # 1
          BY <1>8, <3>1, <4>3
        <5> QED BY <1>8, <2>2, <4>1, <4>3, <5>1
      <4> QED BY <4>2, <4>3
    <3>2. CASE i \in 1 .. n
      <4>1. CASE i = 1
        BY <1>8, <2>1, <3>2, <4>1
      <4>2. CASE i # 1
        <5>1. i - 1 \in 1 .. n
          BY <1>8, <3>2, <4>2
        <5> QED BY <1>8, <2>1, <3>2, <4>2, <5>1
      <4> QED BY <4>1, <4>2
    <3> QED BY <1>8, <3>1, <3>2
  <2>4. ASSUME NEW i \in 1 .. n + 1
        PROVE  SubSeq(c, packed'[i].from, packed'[i].to)
                 = Message(packed[i].id, packed[i].value)'
    <3>1. CASE i = n + 1
      <4>1. SubSeq(c, packed'[i].from, packed'[i].to) = m
        BY <1>5, <1>8, <1>9, <3>1
      <4>2. packed'[i].id = id /\ packed'[i].value = v
        BY <1>8, <1>9, <3>1
      <4>3. Message(packed[i].id, packed[i].value)' = m
        BY <1>1, <4>2 DEF m, Message, serdes_framing_write, confVars
      <4> QED BY <4>1, <4>3
    <3>2. CASE i \in 1 .. n
      <4>1. SubSeq(c, packed[i].from, packed[i].to)
              = SubSeq(out, packed[i].from, packed[i].to)
        BY <1>6, <1>10, <3>2
      <4>2. packed'[i] = packed[i]
        BY <1>8, <3>2
      <4>3. Message(packed[i].id, packed[i].value)'
              = Message(packed[i].id, packed[i].value)
        BY <1>1, <4>2 DEF Message, serdes_framing_write, confVars
      <4>4. SubSeq(out, packed[i].from, packed[i].to)
              = Message(packed[i].id, packed[i].value)
        BY <2>1, <3>2
      <4> QED BY <4>1, <4>2, <4>3, <4>4, Zenon
    <3> QED BY <1>8, <3>1, <3>2
  <2>5. packed' # <<>> /\ Len(c) = packed'[Len(packed')].to
    BY <1>8, <1>9
  <2> QED BY <1>1, <1>8, <2>3, <2>4, <2>5, Zenon DEF OutIsMessages
<1>13. TypeOK'
  BY <1>1, <1>4, <1>8 DEF IInv, TypeOK, confVars, Entries
<1> QED BY <1>1, <1>11, <1>12, <1>13, SentKept, QueryKept, CallsKept
     DEF IInv

LEMMA CppSendStep ==
  ASSUME IInv, NEW i \in DOMAIN packed, CppSend(i)
  PROVE  IInv'
<1> DEFINE p == SubSeq(out, packed[i].from, packed[i].to)
<1>1. /\ sent' = Sent(p, packed[i].id, packed[i].value)
      /\ out' = <<>> /\ packed' = <<>> /\ last' = NoCall
      /\ UNCHANGED <<confVars, query>>
  BY DEF CppSend
<1>2. p = Message(packed[i].id, packed[i].value)
  BY DEF IInv, OutIsMessages
<1>3. packed[i].id \in Ids /\ packed[i].value \in Values
  <2> DEFINE Entries == [from: Nat, to: Nat, id: Ids, value: Values]
  <2>1. packed \in Seq(Entries) /\ i \in 1 .. Len(packed)
    BY LenProperties DEF IInv, TypeOK
  <2>2. packed[i] \in Entries
    BY <2>1, ElementOfSeq
  <2> QED BY <2>2
<1> HIDE DEF p
<1>4. p \in Seq(Bytes)
  BY <1>2, <1>3, MessageParts DEF IInv, TypeOK
<1>5. SentIsMessage'
  BY <1>1, <1>2, <1>3 DEF SentIsMessage, Sent, Message,
     serdes_framing_write, confVars
<1>6. OutIsMessages' /\ PlacesInOut'
  BY <1>1 DEF OutIsMessages, PlacesInOut
<1>7. TypeOK'
  BY <1>1, <1>3, <1>4 DEF IInv, TypeOK, Sent, NoCall, confVars
<1> QED BY <1>1, <1>5, <1>6, <1>7, QueryKept, CallsKept DEF IInv, NoCall

LEMMA ForeignSendStep ==
  ASSUME IInv, NEW b \in Foreign, ForeignSend(b)
  PROVE  IInv'
<1>1. /\ sent' = Sent(b, None, None) /\ last' = NoCall
      /\ UNCHANGED <<confVars, query, out, packed>>
  BY DEF ForeignSend
<1>2. b \in Seq(Bytes)
  BY WireAssumption
<1>3. SentIsMessage'
  BY <1>1 DEF SentIsMessage, Sent
<1>4. TypeOK'
  BY <1>1, <1>2 DEF IInv, TypeOK, Sent, NoCall, confVars
<1> QED BY <1>1, <1>3, <1>4, QueryKept, OutKept, CallsKept DEF IInv, NoCall

\* The end of a call of a deserializer keeps the invariant if its result is
\* the one that RoundTrip asks for.
LEMMA DeserializedStep ==
  ASSUME IInv, NEW args, NEW err, NEW id, NEW value,
         Deserialized(args, err, id, value),
         Matching(args) =>
           IF Findable(args)
           THEN err = "OK" /\ id = args.m.id /\ value = args.m.value
           ELSE err # "OK"
  PROVE  IInv'
<1>1. /\ last' = [call |-> "deserialize", args |-> args, err |-> err,
                  id |-> id, value |-> value]
      /\ UNCHANGED <<confVars, sent, query, out, packed>>
  BY DEF Deserialized
<1>2. RoundTrip'
  BY <1>1 DEF RoundTrip, Matching, Findable, WellTyped, confVars
<1>3. BufferHolds' /\ QuerySuffices'
  BY <1>1 DEF BufferHolds, QuerySuffices
<1>4. TypeOK'
  BY <1>1 DEF IInv, TypeOK, confVars
<1> QED BY <1>1, <1>2, <1>3, <1>4, SentKept, QueryKept, OutKept DEF IInv

\* A matching call is for a message of a producer.
LEMMA MatchingSent ==
  ASSUME IInv, sent # None, NEW args, args.m = sent, Matching(args)
  PROVE  /\ sent.id \in Ids /\ sent.value \in Values /\ sent.value # None
         /\ sent.payload = Message(sent.id, sent.value)
         /\ sent.value.type = SchemaType[sent.id]
         /\ avro_value_read(SchemaType[sent.id], avro_value_write(sent.value))
              = sent.value
<1>1. sent.id # None /\ sent.value.type = SchemaType[sent.id]
  BY DEF Matching, WellTyped
<1>2. /\ sent.id \in Ids /\ sent.value \in Values
      /\ sent.payload = Message(sent.id, sent.value)
  BY <1>1 DEF IInv, SentIsMessage
<1>3. /\ sent.value # None
      /\ avro_value_read(sent.value.type, avro_value_write(sent.value))
           = sent.value
  BY <1>2, WireAssumption
<1> QED BY <1>1, <1>2, <1>3

LEMMA DeserializeStep ==
  ASSUME IInv, sent # None, NEW found \in BOOLEAN,
         serdes_deserialize_avro(sent, found)
  PROVE  IInv'
<1> DEFINE args == Args("c", sent, None, found, TRUE)
           f == serdes_framing_read(sent.payload, found)
           value == serdes_schema_deserialize_avro(f.id, f.rest)
<1>1. /\ args.api = "c" /\ args.m = sent /\ args.given = None
      /\ args.found = found /\ args.again = TRUE
  BY DEF Args
<1>2. \/ f.r = -1 /\ Deserialized(args, "PAYLOAD_INVALID", None, None)
      \/ f.r = 0 /\ Deserialized(args, "SCHEMA_REQUIRED", None, None)
      \/ f.r = 5 /\ Decoded(args, f.id, value)
  BY DEF serdes_deserialize_avro
<1> HIDE DEF args
<1>3. ASSUME Matching(args)
      PROVE  /\ sent.id \in Ids /\ sent.value \in Values /\ sent.value # None
             /\ f = IF deserializer_framing = "none"
                    THEN [r |-> 0, id |-> None,
                          rest |-> avro_value_write(sent.value)]
                    ELSE IF found
                    THEN [r |-> 5, id |-> sent.id,
                          rest |-> avro_value_write(sent.value)]
                    ELSE [r |-> -1, id |-> None, rest |-> sent.payload]
             /\ serdes_schema_deserialize_avro(sent.id,
                  avro_value_write(sent.value)) = sent.value
  <2>1. /\ sent.id \in Ids /\ sent.value \in Values /\ sent.value # None
        /\ sent.payload = Message(sent.id, sent.value)
        /\ sent.value.type = SchemaType[sent.id]
        /\ avro_value_read(SchemaType[sent.id], avro_value_write(sent.value))
             = sent.value
    BY <1>1, <1>3, MatchingSent
  <2>2. /\ serializer_framing = deserializer_framing
        /\ sent.value.type # "bytes"
    BY <1>1, <1>3 DEF Matching
  <2>3. serializer_framing \in {"none", "cp1"}
    BY DEF IInv, TypeOK
  <2>4. serdes_schema_deserialize_avro(sent.id, avro_value_write(sent.value))
          = sent.value
    BY <2>1, <2>2 DEF serdes_schema_deserialize_avro
  <2> QED BY <2>1, <2>2, <2>3, <2>4, FramingRead
<1> HIDE DEF f
<1>4. CASE f.r = -1 /\ Deserialized(args, "PAYLOAD_INVALID", None, None)
  <2>1. Matching(args) => ~Findable(args)
    BY <1>1, <1>3, <1>4 DEF Findable
  <2> QED BY <1>4, <2>1, DeserializedStep
<1>5. CASE f.r = 0 /\ Deserialized(args, "SCHEMA_REQUIRED", None, None)
  <2>1. Matching(args) => ~Findable(args)
    BY <1>1, <1>3, <1>5 DEF Findable
  <2> QED BY <1>5, <2>1, DeserializedStep
<1>6. CASE f.r = 5 /\ Decoded(args, f.id, value)
  <2> DEFINE err == IF value = None THEN "PAYLOAD_INVALID" ELSE "OK"
  <2>1. ASSUME Matching(args)
        PROVE  /\ Findable(args)
               /\ err = "OK" /\ f.id = args.m.id /\ value = args.m.value
    <3>1. /\ f.id = sent.id /\ f.rest = avro_value_write(sent.value)
          /\ found /\ deserializer_framing # "none"
      BY <1>3, <1>6, <2>1
    <3>2. value = sent.value /\ sent.value # None
      BY <1>3, <2>1, <3>1
    <3> QED BY <1>1, <3>1, <3>2 DEF Findable
  <2>2. Deserialized(args, err, f.id, value)
    BY <1>6 DEF Decoded
  <2> HIDE DEF err, value
  <2> QED BY <2>1, <2>2, DeserializedStep
<1> QED BY <1>2, <1>4, <1>5, <1>6

LEMMA DeserializeWithStep ==
  ASSUME IInv, sent # None, NEW given \in Ids, DeserializeWith(sent, given)
  PROVE  IInv'
<1> DEFINE args == Args("c_schema", sent, given, TRUE, TRUE)
           value == serdes_schema_deserialize_avro(given, sent.payload)
           err == IF value = None THEN "PAYLOAD_INVALID" ELSE "OK"
<1>1. /\ args.api = "c_schema" /\ args.m = sent /\ args.given = given
      /\ given # None
  BY WireAssumption DEF Args
<1>2. Deserialized(args, err, given, value)
  BY DEF DeserializeWith, Decoded
<1> HIDE DEF args
<1>3. ASSUME Matching(args)
      PROVE  /\ Findable(args)
             /\ err = "OK" /\ given = args.m.id /\ value = args.m.value
  <2>1. /\ serializer_framing = "none" /\ deserializer_framing = "none"
        /\ given = sent.id /\ sent.value.type # "bytes"
    BY <1>1, <1>3 DEF Matching
  <2>2. /\ sent.id \in Ids /\ sent.value \in Values /\ sent.value # None
        /\ sent.payload = Message(sent.id, sent.value)
        /\ sent.value.type = SchemaType[sent.id]
        /\ avro_value_read(SchemaType[sent.id], avro_value_write(sent.value))
             = sent.value
    BY <1>1, <1>3, MatchingSent
  <2>3. sent.payload = avro_value_write(sent.value)
    BY <2>1, <2>2, MessageParts
  <2>4. value = sent.value
    BY <2>1, <2>2, <2>3 DEF serdes_schema_deserialize_avro
  <2> QED BY <1>1, <2>1, <2>2, <2>4 DEF Findable
<1> HIDE DEF err, value
<1> QED BY <1>2, <1>3, DeserializedStep

LEMMA CppDeserializeStep ==
  ASSUME IInv, sent # None, NEW given \in Ids \cup {None},
         NEW found \in BOOLEAN, NEW again \in BOOLEAN,
         CppDeserialize(sent, given, found, again)
  PROVE  IInv'
<1> DEFINE args == Args("cpp", sent, given, found, again)
           f == serdes_framing_read(sent.payload, found)
<1>1. /\ args.api = "cpp" /\ args.m = sent /\ args.given = given
      /\ args.found = found /\ args.again = again
  BY DEF Args
<1>2. \/ /\ f.r = -1 \/ (given = None /\ (f.r = 0 \/ ~Lookup(f.id, again)))
         /\ Deserialized(args, "FAIL", None, None)
      \/ /\ f.r = 5 /\ given = None /\ Lookup(f.id, again)
         /\ Decoded(args, f.id, cpp_decode(f.id, f.rest))
      \/ /\ f.r # -1 /\ given # None
         /\ Decoded(args, given, cpp_decode(given, f.rest))
  BY DEF CppDeserialize
<1> HIDE DEF args
<1>3. ASSUME Matching(args)
      PROVE  /\ sent.id \in Ids /\ sent.value \in Values /\ sent.value # None
             /\ given \in {None, sent.id}
             /\ f = IF deserializer_framing = "none"
                    THEN [r |-> 0, id |-> None,
                          rest |-> avro_value_write(sent.value)]
                    ELSE IF found
                    THEN [r |-> 5, id |-> sent.id,
                          rest |-> avro_value_write(sent.value)]
                    ELSE [r |-> -1, id |-> None, rest |-> sent.payload]
             /\ cpp_decode(sent.id, avro_value_write(sent.value)) = sent.value
  <2>1. /\ sent.id \in Ids /\ sent.value \in Values /\ sent.value # None
        /\ sent.payload = Message(sent.id, sent.value)
        /\ avro_value_read(SchemaType[sent.id], avro_value_write(sent.value))
             = sent.value
    BY <1>1, <1>3, MatchingSent
  <2>2. /\ serializer_framing = deserializer_framing
        /\ given \in {None, sent.id}
    BY <1>1, <1>3 DEF Matching
  <2>3. serializer_framing \in {"none", "cp1"}
    BY DEF IInv, TypeOK
  <2>4. cpp_decode(sent.id, avro_value_write(sent.value)) = sent.value
    BY <2>1 DEF cpp_decode
  <2> QED BY <2>1, <2>2, <2>3, <2>4, FramingRead
<1> HIDE DEF f
<1>4. CASE /\ f.r = -1 \/ (given = None /\ (f.r = 0 \/ ~Lookup(f.id, again)))
           /\ Deserialized(args, "FAIL", None, None)
  <2>1. ASSUME Matching(args), Findable(args) PROVE FALSE
    <3>1. CASE deserializer_framing = "none"
      <4>1. f.r = 0 /\ given # None
        BY <1>1, <1>3, <2>1, <3>1 DEF Findable
      <4> QED BY <1>4, <4>1
    <3>2. CASE deserializer_framing # "none"
      <4>1. found /\ f.r = 5 /\ f.id = sent.id /\ sent.id \in Ids
        BY <1>1, <1>3, <2>1, <3>2 DEF Findable
      <4>2. given = None => again
        BY <1>1, <2>1, <3>2 DEF Findable
      <4> QED BY <1>4, <4>1, <4>2 DEF Lookup
    <3> QED BY <3>1, <3>2
  <2> QED BY <1>4, <2>1, DeserializedStep
<1>5. ASSUME NEW id, Decoded(args, id, cpp_decode(id, f.rest)), f.r # -1,
             \/ f.r = 5 /\ given = None /\ Lookup(f.id, again) /\ id = f.id
             \/ given # None /\ id = given
      PROVE  IInv'
  <2> DEFINE value == cpp_decode(id, f.rest)
             err == IF value = None THEN "PAYLOAD_INVALID" ELSE "OK"
  <2>1. ASSUME Matching(args)
        PROVE  /\ Findable(args)
               /\ err = "OK" /\ id = args.m.id /\ value = args.m.value
    <3>1. id = sent.id /\ f.rest = avro_value_write(sent.value)
      BY <1>3, <1>5, <2>1
    <3>2. value = sent.value /\ sent.value # None
      BY <1>3, <2>1, <3>1
    <3>3. deserializer_framing # "none" => found
      BY <1>3, <1>5, <2>1
    <3>4. deserializer_framing = "none" => f.r = 0
      BY <1>3, <2>1
    <3>5. Findable(args)
      BY <1>1, <1>5, <3>3, <3>4 DEF Findable, Lookup
    <3> QED BY <1>1, <3>1, <3>2, <3>5
  <2>2. Deserialized(args, err, id, value)
    BY <1>5 DEF Decoded
  <2> HIDE DEF err, value
  <2> QED BY <2>1, <2>2, DeserializedStep
<1> QED BY <1>2, <1>4, <1>5
-----------------------------------------------------------------------------
(***************************************************************************)
(* The theorems.                                                           *)
(***************************************************************************)

LEMMA NextIInv == IInv /\ [Next]_vars => IInv'
<1> SUFFICES ASSUME IInv, [Next]_vars PROVE IInv'
  OBVIOUS
<1>1. CASE Produce
  <2>1. PICK id \in Ids, v \in Values :
          \/ SizeQuery(id, v)
          \/ CppSerializeMismatch(id, v)
          \/ Len(packed) < MaxPacked /\ CppSerialize(id, v)
          \/ \E cap \in Caps :
               SerializeFail(id, v, cap) \/ SerializeTooSmall(id, v, cap)
          \/ \E cap \in Caps \cup {RequiredSize(v)} :
               serdes_schema_serialize_avro(id, v, cap)
    BY <1>1 DEF Produce
  <2>2. Caps \cup {RequiredSize(v)} \subseteq Nat
    <3>1. RequiredSize(v) \in Nat
      BY WireAssumption, LenProperties
         DEF RequiredSize, serdes_serializer_framing_size
    <3> QED BY <3>1, WireAssumption
  <2> QED BY <2>1, <2>2, SizeQueryStep, CppMismatchStep, CppSerializeStep,
       SerializeStep
<1>2. CASE Transport
  BY <1>2, CppSendStep, ForeignSendStep DEF Transport
<1>3. CASE Consume
  BY <1>3, DeserializeStep, DeserializeWithStep, CppDeserializeStep DEF Consume
<1>4. CASE UNCHANGED vars
  <2>1. UNCHANGED <<confVars, sent, query, out, packed, last>>
    BY <1>4 DEF vars, confVars
  <2>2. TypeOK' /\ BufferHolds' /\ QuerySuffices'
    BY <2>1 DEF IInv, TypeOK, BufferHolds, QuerySuffices, confVars
  <2>3. RoundTrip'
    BY <2>1 DEF IInv, RoundTrip, Matching, Findable, WellTyped, confVars
  <2> QED BY <2>1, <2>2, <2>3, SentKept, QueryKept, OutKept DEF IInv
<1> QED BY <1>1, <1>2, <1>3, <1>4 DEF Next

LEMMA Invariance == Spec => []IInv
BY InitIInv, NextIInv, PTL DEF Spec

\* The variables have their types: whatever the id, framing.c and
\* serialize-avro.c make a sequence of bytes of it.
THEOREM TypeCorrect == Spec => []TypeOK
<1>1. IInv => TypeOK
  BY DEF IInv
<1> QED BY Invariance, <1>1, PTL

\* serdes_schema_serialize_avro never writes past the end of its buffer, for
\* every framing, value and buffer size.
THEOREM BufferIsLargeEnough == Spec => []BufferHolds
<1>1. IInv => BufferHolds
  BY DEF IInv
<1> QED BY Invariance, <1>1, PTL

\* A buffer of the size that serdes_schema_serialize_avro answered is never
\* refused as too small for the same value.
THEOREM QueriedSizeFits == Spec => []QuerySuffices
<1>1. IInv => QuerySuffices
  BY DEF IInv
<1> QED BY Invariance, <1>1, PTL

\* The vector that AvroImpl::serialize appends to consists of whole messages.
THEOREM VectorIsWhole == Spec => []OutIsMessages
<1>1. IInv => OutIsMessages
  BY DEF IInv
<1> QED BY Invariance, <1>1, PTL

\* What serdes_schema_serialize_avro or AvroImpl::serialize wrote, the
\* deserializers of both APIs read back, for bytes of any size, any id that
\* an int can hold and any encoding that can be decoded.
THEOREM MessagesRoundTrip == Spec => []RoundTrip
<1>1. IInv => RoundTrip
  BY DEF IInv
<1> QED BY Invariance, <1>1, PTL
===========================================================================
