CONSTANTS
  Requests = {r1, r2}
  Starters = {TRUE, FALSE}
SPECIFICATION FairSpec
CHECK_DEADLOCK FALSE
INVARIANTS
  Correlated
  RunsOnce
  ProbeIsTrue
PROPERTY
  ProbesAnswer
