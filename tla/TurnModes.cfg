CONSTANTS
  n1 = n1
  n2 = n2
  n3 = n3
  n4 = n4
  Node = {n1, n2, n3, n4}
  NoOne = NoOne
  Gone = Gone
  Reentrant = TRUE
  Mode <- TheOtherModes
  MaxBatchSize = 2
  Host = Host
  Undefined = Undefined
  MaxMessages = 3
  MaxRenewals = 0
  MaxExplicits = 1
  MaxInterrupts = 0
  MaxFaults = 0
  MaxStalls = 0
  MaxCrashes = 0
SPECIFICATION Spec
CHECK_DEADLOCK FALSE
INVARIANTS
  MessagesInv
  ArrivalOrder
  
