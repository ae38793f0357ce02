CONSTANTS
  N = 2
  Word = 64
  MSS = 2
  DupThreshold = 1
  Lossy = TRUE
  Reordering = FALSE
  Capacity = 1
  Total = 3
  Chunks = {1}
  MaxNTimeout = 0
  InitialCStates = {"start"}
  ReadSize = 8
  InitialTargets = {"zero"}

SPECIFICATION Spec

INVARIANTS
  WindowKept
  RefusedAckIsNew
  CacheIntact
  MergeAssert
  CacheableFits
  StreamIntact
  ClosedMeansAccepted
  FifoInv

PROPERTIES
  AckNeverRetreats

\* The transfer ends, and an application may stop writing.
CHECK_DEADLOCK FALSE
