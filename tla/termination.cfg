CONSTANTS
  N = 2
  Word = 64
  MSS = 2
  DupThreshold = 1
  Lossy = TRUE
  Reordering = FALSE
  Capacity = 1
  Total = 3
  Chunks = {2}
  MaxNTimeout = 0
  InitialCStates = {"start"}
  ReadSize = 8
  InitialTargets = {"zero"}

SPECIFICATION FairFirstSpec

INVARIANTS
  FirstPieceWhole

PROPERTIES
  ImplementsStream
  OnlyKnownStalls
  FinReachesUser

\* The transfer ends, and an application may stop writing.
CHECK_DEADLOCK FALSE
