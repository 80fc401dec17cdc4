CONSTANTS
  Starters = {TRUE, FALSE}
  MaxFaults = 5
  MaxRepeats = 2
SPECIFICATION FairSpec
CHECK_DEADLOCK FALSE
INVARIANTS
  TypeOK
  HealthIsTrue
  NoOrphanConnection
  NoReconnectScheduledAfterClose
  ConsumerOnEveryChannel
  ReconnectIsDue
PROPERTY
  Reconnects
