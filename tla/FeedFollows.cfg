CONSTANTS
  s1 = s1
  s2 = s2
  Stream = {s1, s2}
  Starter = {c1}
  NoStream = NoStream
  BufferSize = 2
  HighWater = 1
  Kinds = {"delta", "room"}
  MaxEvents = 3
  MaxFaults = 1
SPECIFICATION Spec
SYMMETRY Alike
CHECK_DEADLOCK FALSE
INVARIANTS
  FeedInv
  FollowsLog
  QuietIsCaughtUp
