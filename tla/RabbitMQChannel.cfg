CONSTANTS
  Starters = {TRUE, FALSE}
  MaxFaults = 1
  MaxRepeats = 1
SPECIFICATION FairSpec
CHECK_DEADLOCK FALSE
PROPERTY
  ChannelCloseIsHandled
