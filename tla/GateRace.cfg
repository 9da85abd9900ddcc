CONSTANTS
  Alice = Alice
  Bob = Bob
  Carol = Carol
  Person <- People
  RoleOf <- Staff
  Unset = Unset
  Policy <- MakerChecker
  Requester = Alice
  Voter = {v1, v2}
  Sweeper = {s1}
  NoRequest = NoRequest
  Overlap = 2
  MaxFaults = 1
SPECIFICATION FairSpec
CHECK_DEADLOCK FALSE
INVARIANTS
  GateInv
  TwoSignOff
  DecisionJustified
  AnnouncedWasStored
PROPERTY EventuallyDecided
