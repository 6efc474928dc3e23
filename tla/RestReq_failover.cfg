\* Requests one after the other over lists of one to three URLs; libcurl ends
\* every transfer.
SPECIFICATION FairSpec
CONSTANTS
  Counts = {1, 2, 3}
  Codes = {200, 500}
  MaxBody = 5
  IntMax = 7
  MaxRequests = 3
  None = None
INVARIANTS
  TypeOK
  BufferSafe
  PayloadFromLastUrl
  NoUrlTwice
  FailoverReachesUp
  ErrorSource
PROPERTY
  RequestEnds
