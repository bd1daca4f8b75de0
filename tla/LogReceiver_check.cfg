SPECIFICATION FairSpec
CONSTANTS
  c1 = c1
  c2 = c2
  a1 = a1
  a2 = a2
  Conn = {c1, c2}
  Length = {2}
  MaxTenantBytes = 3
  RequestsPerMinute = 2
  Minute = 2
  DayLength = 2
  Retention = 1
  Address = {a1, a2}
  Peers <- MCPeers
  MaxAuthFailures = 2
  AuthFailureWindow = 2
  MaxAuthFailureClients = 1
  MaxTime = 4
  MaxCrashes = 1
INVARIANTS
  QuotaSound
  
PROPERTIES
  RetentionHonoured
  LockoutSound
  SlowUploadHarmless
