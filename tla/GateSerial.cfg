CONSTANTS
  Alice = Alice
  Bob = Bob
  Carol = Carol
  Person <- People
  RoleOf <- Staff
  Unset = Unset
  Policy <- TwoOfThree
  Requester = Alice
  Voter = {v1, v2, v3}
  Sweeper = {s1}
  NoRequest = NoRequest
  Overlap = 1
  MaxFaults = 1
SPECIFICATION Spec
CHECK_DEADLOCK FALSE
SYMMETRY Symmetry
INVARIANTS
  GateTypeOK
  LedgerVotesKept
  ToldOnce
PROPERTY Decides
