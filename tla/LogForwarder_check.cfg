SPECIFICATION FairSpec
CONSTANTS
  small = small
  medium = medium
  large = large
  huge = huge
  Event = {small, medium, large, huge}
  Size <- MCSize
  Worker = {w1, w2}
  QueueSize = 2
  MaxPayload = 5
  MaxEntries = 2
  MaxBatchBytes = 5
INVARIANTS
  NoSendOnClosed
  EventsAccounted
PROPERTIES
  NothingStuck
CHECK_DEADLOCK FALSE
