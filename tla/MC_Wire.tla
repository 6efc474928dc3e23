------------------------------ MODULE MC_Wire ------------------------------
(***************************************************************************)
(* A small instance of Wire for TLC: a byte has four values.               *)
(***************************************************************************)
EXTENDS Wire

\* Ids with four different digits, and negative.
MC_Ids == {27, -2}
MC_SchemaType == [i \in MC_Ids |-> IF i = 27 THEN "record" ELSE "bytes"]

MC_Values ==
  [type: {"bytes"}, val: {<<>>, <<2>>}]
  \cup [type: {"record"}, val: {<<0, 3>>}]

\* Avro: a record of two one-byte fields; bytes after their length.
MC_write(v) == IF v.type = "bytes" THEN <<Len(v.val)>> \o v.val ELSE v.val
MC_read(type, b) ==
  IF type = "bytes"
  THEN IF Len(b) > 0 /\ Len(b) > b[1]
       THEN [type |-> type, val |-> SubSeq(b, 2, 1 + b[1])] ELSE None
  ELSE IF Len(b) > 1 THEN [type |-> type, val |-> SubSeq(b, 1, 2)] ELSE None

\* Too short, wrong magic byte, unknown id, id -1, truncated value.
MC_Foreign ==
  {<<0, 0>>, <<1, 0, 1, 2, 3, 1, 1>>, <<0, 0, 0, 0, 3, 1, 1>>,
   <<0, 3, 3, 3, 3>>, <<0, 0, 1, 2, 3, 1>>}
=============================================================================
