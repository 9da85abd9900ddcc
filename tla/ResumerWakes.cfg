CONSTANTS
  Alice = Alice
  Bob = Bob
  Carol = Carol
  Person <- People
  RoleOf <- Staff
  Unset = Unset
  Policy <- OneOf
  Requester = Alice
  Voter = {v1}
  Sweeper = {s1}
  NoRequest = NoRequest
  Overlap = 1
  MaxFaults = 2
  Node = {n1}
  NoOne = NoOne
  Gone = Gone
  Reentrant = FALSE
SPECIFICATION FairResumerSpec
CHECK_DEADLOCK FALSE
INVARIANTS
  ResumerInv
  StepObeysDecision
PROPERTY DecidedIsWoken
