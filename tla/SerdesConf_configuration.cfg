\* Applications of either API that create, set, copy, hand over and destroy
\* configurations and handles in any order.
SPECIFICATION Spec
CONSTANTS
  Apps <- MC_Apps
  NULL = NULL
CONSTRAINT MC_Bound
INVARIANTS
  TypeOK
  ListsOwned
  UrlsOfText
  TmpUrlFits
  LogReachesOwner
