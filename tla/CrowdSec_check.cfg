SPECIFICATION FairSpec
CONSTANTS
  Request = {r1}
  MaxGen = 2
  TTL <- MCTTL
  MaxTime = 2
  MaxChanges = 2
INVARIANTS
  DecisionFresh
  
PROPERTIES
  HealthSettles
