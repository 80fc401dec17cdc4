CONSTANTS
  MaxRequests = 2
  MaxSignals = 2
SPECIFICATION FairSpec
CHECK_DEADLOCK FALSE
INVARIANTS
  DatabasesOutliveRequests
  ExitZeroIsComplete
PROPERTY
  ShutdownEnds
