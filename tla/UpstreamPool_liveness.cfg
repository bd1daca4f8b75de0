SPECIFICATION FairSpec
CONSTANTS
  Request = {r1}
  N = 2
  Threshold = 1
  Cooldown = 1
  TicksPerSecond = 1
  Flapping = {0}
  FailUntil = 2
  MaxTime = 3
PROPERTIES
  UpstreamReturns
