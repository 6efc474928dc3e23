\* What serdes.h says of a returned schema, against the code.
SPECIFICATION Spec
CONSTANTS
  t1 = t1
  t2 = t2
  n1 = n1
  s1 = s1
  s2 = s2
  NULL = NULL
  Threads <- MC_Threads
  Names <- MC_Names
  Schemas <- MC_Schemas
  Unparsable <- MC_Unparsable
  Requests <- MC_Requests
  Published <- MC_Published
  UrlCounts = {0, 1}
  Quiesce = FALSE
  MaxCalls = 3
  MaxIds = 2
  StartTime = 2
  MaxTime = 4
SYMMETRY Symmetry
INVARIANT
  ReturnedSchemaUsable
