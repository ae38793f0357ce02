CONSTANTS
  N = 2
  Word = 64
  MSS = 1
  DupThreshold = 3
  Lossy = FALSE
  Reordering = TRUE
  Capacity = 2
  Total = 4
  Chunks = {4}
  MaxNTimeout = 0
  InitialCStates = {"start"}
  ReadSize = 8
  InitialTargets = {"zero"}

SPECIFICATION Spec

INVARIANTS
  MergeAssert

\* The transfer ends, and an application may stop writing.
CHECK_DEADLOCK FALSE
