CONSTANTS
  n1 = n1
  n2 = n2
  n3 = n3
  n4 = n4
  Node = {n1, n2}
  NoOne = NoOne
  Gone = Gone
  Reentrant = FALSE
  Mode <- AllQueue
  MaxBatchSize = 10
  Host = Host
  Undefined = Undefined
  MaxMessages = 3
  MaxRenewals = 1
  MaxExplicits = 0
  MaxInterrupts = 1
  MaxFaults = 1
  MaxStalls = 1
  MaxCrashes = 1
SPECIFICATION Spec
CHECK_DEADLOCK FALSE
SYMMETRY Symmetry
INVARIANTS
  TurnInv
  OneRunnerPerLease
  OneTurnPerInstance
  OnlyOwnRenewals
  EveryMessageOnce
PROPERTIES
  LeaseLostOnlyByOwnRenewal
  TakesTurns
