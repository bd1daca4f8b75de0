SPECIFICATION FairSpec
CONSTANTS
  Request = {r1, r2, r3}
  MaxConcurrent = 2
  MaxBatches = 2
  Free = Free
  Closer = Closer
INVARIANTS
  AdmissionExact
  OwnResult
PROPERTIES
  SessionContract
  NobodyWaitsForever
CHECK_DEADLOCK FALSE
