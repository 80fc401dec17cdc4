CONSTANTS
  AutoReconnect = {TRUE, FALSE}
  MaxFaults = 3
  Keys = {k1, k2}
  Callers = {c1, c2}
  Window = 2
SPECIFICATION CacheFairSpec
CHECK_DEADLOCK FALSE
INVARIANTS
  NothingOutlivesClose
  OneIntervalEach
  NoReconnectWhileUp
  ReconnectIsDue
  ForeverOnlyIfCut
  ListsAll
PROPERTIES
  ComesBack
  WindowEnds
