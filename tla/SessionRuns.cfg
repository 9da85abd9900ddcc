CONSTANTS
  n1 = n1
  n2 = n2
  Node = {n1, n2}
  NoOne = NoOne
  Sent = {m1}
  Addressed = {m1}
  Batch = {b1}
  Home <- Elsewhere
  Interrupter = {i1}
  NoRun = NoRun
  Unknown = Unknown
  MaxDeltas = 1
  MaxFaults = 1
SPECIFICATION FairSessionSpec
CHECK_DEADLOCK FALSE
INVARIANTS
  SessionInv
  ToldInOrder
  RunningIsCurrent
 
