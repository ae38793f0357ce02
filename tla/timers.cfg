CONSTANTS
  Packets = 2
  Ms = 2
  Rto = 1
  IdleMs = 1
  MaxNTimeout = 0
  MaxLate = 2
  MaxBack = 6
SPECIFICATION FairSpec
CHECK_DEADLOCK FALSE
INVARIANTS OneTimerEach Patient WakesInTime
PROPERTY DeadlinesAreNoticed
