CONSTANTS
  n1 = n1
  n2 = n2
  n3 = n3
  n4 = n4
  Node = {n1, n2}
  NoOne = NoOne
  Gone = Gone
  Reentrant = FALSE
  Mode <- AllQueue
  MaxBatchSize = 2
  Host = Host
  Undefined = Undefined
  MaxMessages = 2
  MaxRenewals = 1
  MaxExplicits = 1
  MaxInterrupts = 0
  MaxFaults = 1
  MaxStalls = 1
  MaxCrashes = 0
SPECIFICATION SlowRunnerSpec
CHECK_DEADLOCK FALSE
PROPERTY OverlapEnds
