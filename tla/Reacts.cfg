CONSTANTS
  Worker = {w1, w2}
  NoWorker = NoWorker
  Quiet = 1
  AddressedDelay = 0
  MaxWait = 2
  MaxBatch = 2
  RespondToAmbient = TRUE
  Lease = 1
  RetryDelay = 1
  Limit <- OneEach
  EventKinds = {"plain", "addressed"}
  Overlap = 1
  MaxEvents = 3
  MaxChanges = 1
  MaxFaults = 1
SPECIFICATION FairSpec
CHECK_DEADLOCK FALSE
INVARIANTS
  ReactionInv
  AnsweredOnce
  WithinBudget
PROPERTIES
  CommittedByOwner
  EventuallyConsumed
