CONSTANTS
  EpochStep = 4
  FcModulus = 21
  ProcDepth = 2
  MaxBoots = 2
  MaxFrames = 6
  HseFaults <- NoFaults
SPECIFICATION Spec
INVARIANTS
  SignedAboveHistory
CHECK_DEADLOCK FALSE
