\* Either producer and either consumer, with failures, repeated messages and signals.
SPECIFICATION FairSpec
CONSTANTS
  Programs <- MC_Programs
  Schemas <- MC_Schemas
  MaxLines = 3
  MaxSignals = 2
  NULL = NULL
INVARIANTS
  PrintedAsTyped
  AllHandedOver
PROPERTIES
  SignalEnds
CHECK_DEADLOCK FALSE
