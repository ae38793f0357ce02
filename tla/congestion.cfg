CONSTANTS
  MSS = 1024
  DupThreshold = 3
  MaxCwnd = 8192
  MaxDupACK = 4
  Numbers = {0, 1}
SPECIFICATION Spec
CHECK_DEADLOCK FALSE
INVARIANTS WindowFloor TrapTakesHalvings
