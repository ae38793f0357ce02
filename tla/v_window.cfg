CONSTANTS
  N = 1
  Word = 64
  MSS = 1
  DupThreshold = 3
  Lossy = FALSE
  Reordering = FALSE
  Capacity = 1
  Total = 2
  Chunks = {1}
  MaxNTimeout = 6
  InitialCStates = {"start"}
  ReadSize = 8
  InitialTargets = {"zero"}

SPECIFICATION Spec

INVARIANTS
  WindowRespected

CHECK_DEADLOCK FALSE
