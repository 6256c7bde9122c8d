CONSTANTS
  Seeds = {s1, s2, s3}
  FcModulus = 5
  FcWindow = 2
  MaxFail = 2
  CtrlDepth = 2
  MaxFc = 5
  Faults <- AllFaults
  MaxFaults = 2
SPECIFICATION Spec
SYMMETRY SeedSymmetry
INVARIANTS
  TypeOK
  RightKeyInSlot
  MacAndCipherAgree
  WindowAboveHistory
CHECK_DEADLOCK FALSE
