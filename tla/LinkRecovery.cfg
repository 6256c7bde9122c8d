CONSTANTS
  Seeds = {s1, s2}
  FcModulus = 4
  FcWindow = 2
  MaxFail = 3
  CtrlDepth = 1
  MaxFc = 4
  Faults <- BearableFaults
  MaxFaults = 1
SPECIFICATION FairSpec
PROPERTIES
  Recovers
  ResyncRestartsExchange
CHECK_DEADLOCK FALSE
