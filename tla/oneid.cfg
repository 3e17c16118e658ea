SPECIFICATION LoadSpec
CONSTANTS
  SrcMin = 1
  SrcMax = 1
  DstMin = 1
  DstMaxes = {2}
  PktPerSecond = 5
  TimersPerSecond = 2
  NoUser = NoUser
INVARIANTS NeverTraps
CHECK_DEADLOCK FALSE
