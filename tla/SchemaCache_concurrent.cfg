\* Any interleaving of calls: purges and destroys race with lookups.  Every
\* request ends, every thread in the library is scheduled.
SPECIFICATION FairSpec
CONSTANTS
  t1 = t1
  t2 = t2
  n1 = n1
  s1 = s1
  s2 = s2
  NULL = NULL
  Threads <- MC_Threads
  Names <- MC_Names
  Schemas <- MC_Schemas
  Unparsable <- MC_Unparsable
  Requests <- MC_PurgeNowRequests
  Published <- MC_Published
  UrlCounts = {0, 1}
  Quiesce = FALSE
  MaxCalls = 3
  MaxIds = 2
  StartTime = 2
  MaxTime = 3
INVARIANTS
  TypeOK
  ListIntegrity
  NoOrphan
  LookupStillCurrent
  SingleFlight
  AgreesWithRegistry
PROPERTIES
  LockReleased
  ImplementsStore
