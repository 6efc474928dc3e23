\* Messages of both APIs and of others, read by both APIs.
SPECIFICATION Spec
CONSTANTS
  None = None
  HalfByte = 2
  Ids <- MC_Ids
  SchemaType <- MC_SchemaType
  Values <- MC_Values
  avro_value_write <- MC_write
  avro_value_read <- MC_read
  Foreign <- MC_Foreign
  Caps = {1, 6, 7, 8}
  MaxPacked = 2
INVARIANTS
  TypeOK
  BufferHolds
  QuerySuffices
  OutIsMessages
  RoundTrip
