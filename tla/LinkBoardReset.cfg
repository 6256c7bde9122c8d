CONSTANTS
  Seeds = {s1, s2, s3}
  FcModulus = 4
  FcWindow = 2
  MaxFail = 3
  CtrlDepth = 1
  MaxFc = 4
  Faults <- ResetFaults
  MaxFaults = 1
SPECIFICATION FairSpec
PROPERTIES
  Recovers
CHECK_DEADLOCK FALSE
