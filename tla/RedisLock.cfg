CONSTANTS
  c1 = c1
  c2 = c2
  Free = Free
  Clients <- TwoClients
  MaxWire = 4
  LeaseCoversUse = TRUE
SPECIFICATION FairSpec
INVARIANTS
  TypeOK
  MutualExclusion
PROPERTIES
  ImplementsLease
  OnlyOwnerReleases
  CallsReturn
