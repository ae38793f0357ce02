CONSTANTS
  N = 1
  Word = 64
  MSS = 1
  DupThreshold = 3
  Lossy = FALSE
  Reordering = FALSE
  Capacity = 2
  Total = 2
  Chunks = {2}
  MaxNTimeout = 0
  InitialCStates = {"start"}
  ReadSize = 8
  InitialTargets = {"zero"}

SPECIFICATION FairSpec

PROPERTIES
  ZeroWindowReopens

\* The transfer ends, and an application may stop writing.
CHECK_DEADLOCK FALSE
