CONSTANTS
  n1 = n1
  n2 = n2
  n3 = n3
  n4 = n4
  Node = {n1, n2}
  NoOne = NoOne
  Gone = Gone
  Reentrant = FALSE
  Mode <- QueueAndDebounce
  MaxBatchSize = 2
  Host = Host
  Undefined = Undefined
  MaxMessages = 3
  MaxRenewals = 0
  MaxExplicits = 0
  MaxInterrupts = 1
  MaxFaults = 1
  MaxStalls = 0
  MaxCrashes = 1
SPECIFICATION FairSpec
CHECK_DEADLOCK FALSE
INVARIANT NothingStranded
PROPERTY EveryMessageSettles
