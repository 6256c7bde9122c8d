CONSTANTS
  p1 = p1
  p2 = p2
  d1 = d1
  d2 = d2
  a1 = a1
  a2 = a2
  a3 = a3
  c1 = c1
  Passports = {p1, p2}
  Dids = {d1, d2}
  AutoIds = {a1, a2, a3}
  ClientIds = {c1}
  Counters = {1, 2, 3}
  MaxCounter = 3
  Enrolled <- EnrolledBefore
  OldRecords <- RecordsBefore
  MaxPending = 2
SYMMETRY IdSymmetry
SPECIFICATION FabricSpec
INVARIANTS
  FabricTypeOK
  HighWaterCovers
  ValidCountersDistinct
  RecordsOwned
  OnePassportPerDid
PROPERTIES
  BindingStays
  RecordsStay
  Serializable
CHECK_DEADLOCK FALSE
