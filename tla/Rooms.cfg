CONSTANTS
  Web = {w1}
  Channel = {p1}
  Caller = {c1}
  Sweeper = {s1}
  MaxName = 2
  IdleAfter = 1
  DropAfter = 2
  Overlap = FALSE
SPECIFICATION FairSpec
CHECK_DEADLOCK FALSE
INVARIANTS
  RoomInv
  
PROPERTIES
  GhostsVanish
