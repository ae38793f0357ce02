CONSTANTS
  N = 1
  Word = 64
  MSS = 1
  DupThreshold = 3
  Lossy = TRUE
  Reordering = TRUE
  Capacity = 2
  Total = 2
  Chunks = {2}
  MaxNTimeout = 0
  InitialCStates = {"start", "avoid", "fastRecovery", "garbage"}
  ReadSize = 8
  InitialTargets = {"zero", "garbage"}

SPECIFICATION Spec

INVARIANTS
  TypeOK
  UnackedCovered
  SendBufferIntact

\* The transfer ends, and an application may stop writing.
CHECK_DEADLOCK FALSE
