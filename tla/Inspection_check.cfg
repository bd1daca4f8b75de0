SPECIFICATION Spec
CONSTANTS
  r1 = r1
  r2 = r2
  Request = {r1, r2}
  Scenario <- MCScenario
  Detecting = {"u1"}
  Timeout = 2
  GuardChunk = 9
  GuardOverlap = 2
  LongestWalk = 8
INVARIANTS
  InspectedWhole
  VerdictSound
  
  ChunksBounded
  GraphQLExact
