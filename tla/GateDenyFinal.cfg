CONSTANTS
  Alice = Alice
  Bob = Bob
  Carol = Carol
  Person <- People
  RoleOf <- Editors
  Unset = Unset
  Policy <- OneOf
  Requester = Alice
  Voter = {v1, v2}
  Sweeper = {}
  NoRequest = NoRequest
  Overlap = 2
  MaxFaults = 0
SPECIFICATION Spec
CHECK_DEADLOCK FALSE
PROPERTY DenyIsFinal
