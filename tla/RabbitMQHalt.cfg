CONSTANTS
  Starters = {TRUE}
  MaxFaults = 1
  MaxRepeats = 1
SPECIFICATION Spec
CHECK_DEADLOCK FALSE
INVARIANT
  MessageFlowHalted
