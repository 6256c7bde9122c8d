CONSTANTS
  EpochStep = 4
  FcModulus = 21
  ProcDepth = 2
  MaxBoots = 3
  MaxFrames = 4
  HseFaults <- ProbeFault
SPECIFICATION Spec
PROPERTIES
  EpochNeverFalls
CHECK_DEADLOCK FALSE
