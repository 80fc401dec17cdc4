CONSTANTS
  r1 = r1
  r2 = r2
  w1 = w1
  w2 = w2
  m1 = m1
  m2 = m2
  Rebuilders <- OneRebuilder
  Writers <- TwoWriters
  Members <- TwoMembers
  Chunk = 1
  MaxIncrements = 1
  MaxAborts = 1
  SlowLink = FALSE
SPECIFICATION FairSpec
INVARIANTS
  BoardHasItsTTL
PROPERTIES
  NeverPartial
  OnlySwapCreates
  NoScoreRollBack
  StaleBoardHeals
  ImplementsLeaderboard
CHECK_DEADLOCK FALSE
