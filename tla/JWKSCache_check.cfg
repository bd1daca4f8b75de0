SPECIFICATION FairSpec
CONSTANTS
  r1 = r1
  r2 = r2
  e1 = e1
  e2 = e2
  Request = {r1, r2}
  Endpoint = {e1, e2}
  Document <- MCDocument
  First <- MCFirst
  Ask <- MCAsk
  None = None
  MaxKeys = 3
  MaxEntries = 1
  DefaultTTL = 1
  MaxTTL = 2
  RefreshDelay = 2
  FetchTimeout = 1
  MaxChanges = 1
  MaxTime = 2
INVARIANTS
  OneRefreshPerEndpoint
  NoNeedlessFetch
PROPERTIES
  AcceptedKeysFresh
  RotationNoticed
  Answered
CHECK_DEADLOCK FALSE
