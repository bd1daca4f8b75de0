SPECIFICATION Spec
CONSTANTS
  Request = {r1, r2}
  N = 2
  Threshold = 2
  Cooldown = 1
  TicksPerSecond = 1
  Flapping = {}
  FailUntil = 2
  MaxTime = 3
SYMMETRY Symmetry
INVARIANTS
  SoloSelectionFinds
  
  LockoutBounded
