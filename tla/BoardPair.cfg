CONSTANTS
  r1 = r1
  r2 = r2
  w1 = w1
  w2 = w2
  m1 = m1
  m2 = m2
  Rebuilders <- TwoRebuilders
  Writers <- NoWriters
  Members <- TwoMembers
  Chunk = 1
  MaxIncrements = 0
  MaxAborts = 0
  SlowLink = FALSE
SPECIFICATION Spec
PROPERTY
  NeverPartial
CHECK_DEADLOCK FALSE
