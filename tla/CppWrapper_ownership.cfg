\* Threads that get, add, delete and forget Schema objects, and purge.
SPECIFICATION Spec
CONSTANTS
  t1 = t1
  t2 = t2
  s1 = s1
  s2 = s2
  NULL = NULL
  Threads <- MC_Threads
  Requests <- MC_Requests
  Entries <- MC_Entries
  MaxImpls = 3
  MaxPtrs = 3
SYMMETRY Symmetry
INVARIANTS
  
  HeldUsable
  NoFreedAccess
  NothingLeft
