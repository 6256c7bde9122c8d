CONSTANTS
  p1 = p1
  d1 = d1
  Passports = {p1}
  Dids = {d1}
  AutoIds = {}
  ClientIds = {1, 2, 3, 4, 5, 6}
  Records = {1, 2, 3, 4, 5, 6}
  None = None
  Counters = {0, 1, 2, 3}
  MaxCounter = 3
  Enrolled <- NoneEnrolled
  OldRecords <- NoOldRecords
  Passport1 = p1
  Did1 = d1
  MaxLine = 1
  MaxTries = 2
  MaxBehind = 2
  MaxBatch = 2
  MinFc = 1
  Disturbances = {"timeout", "outage", "limit", "crash", "restart", "invalidate", "reset", "update"}
  MaxDisturbances = 2
  MaxRequests = 2
SPECIFICATION PathSpec
INVARIANTS
  PathTypeOK
  NothingVanishes
  ValidCountersDistinct
  CheckpointCovers
PROPERTIES
  LedgerCalls
  SpoolSettles
  ReadModelCatchesUp
CHECK_DEADLOCK FALSE
