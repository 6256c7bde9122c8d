CONSTANTS
  EpochStep = 4
  FcModulus = 21
  ProcDepth = 2
  MaxBoots = 4
  MaxFrames = 4
  HseFaults <- HaltFaults
SPECIFICATION Spec
INVARIANTS
  TypeOK
  SignedAboveHistory
  PipelineOrdered
  FreshEpoch
PROPERTIES
  EpochNeverFalls
  ImplementsFcSource
CHECK_DEADLOCK FALSE
