CONSTANTS
  k1 = k1
  k2 = k2
  k3 = k3
  Keys = {k1, k2, k3}
  BmsIds = {b1}
  NoBms = NoBms
  Verdicts = {VERIFIED, FAILED}
  Unchecked = Unchecked
  Issuers = {"Manufacturer", "Service"}
  MaxEdits <- OnePassportEdited
  MaxPending = 1
SYMMETRY Interchangeable
SPECIFICATION FabricSpec
INVARIANTS
  FabricTypeOK
  ReferencesHold
  NoUpdateLost
  VerdictsAgree
  UsedOnlyBound
  ServiceCalledIn
PROPERTIES
  LifeFollowsArrows
  DecisionsStay
  NeverReplaced
  Serializable
CHECK_DEADLOCK FALSE
