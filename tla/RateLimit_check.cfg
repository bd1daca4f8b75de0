SPECIFICATION FairSpec
CONSTANTS
  r1 = r1
  r2 = r2
  lead = lead
  foll = foll
  k1 = k1
  k2 = k2
  Request = {r1, r2}
  Leader = lead
  Follower = {foll}
  Key = {k1, k2}
  Policy <- MCPolicy
  Origin <- MCOrigin
  Token = 2
  None = None
  MaxEntries = 1
  EntryTTL = 1
  CleanupInterval = 1
  MaxConnections = 1
  IdleTimeout = 1
  LocalEntries = 1
  LocalTTL = 1
  MaxTime = 2
INVARIANTS
  
  ClosedForGood
  FailedConnectionAbandoned
PROPERTIES
  NothingStuck
CHECK_DEADLOCK FALSE
