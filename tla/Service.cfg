CONSTANTS
  NDisposables = 5
  MaxRequests = 2
  MaxReasons = 3
  Deadline = 10
  FlushLimit = 3
SPECIFICATION ServiceFairSpec
CHECK_DEADLOCK FALSE
INVARIANTS
  ResourcesOutliveRequests
  DisposedOnceInOrder
  ExitZeroIsGraceful
  ServesOnlyWhenReady
  TelemetryIsTimeBoxed
PROPERTIES
  ShutdownEnds
  ImplementsShutdown
