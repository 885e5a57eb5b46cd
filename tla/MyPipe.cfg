\* Three threads, a pipe of two bytes, and a third byte that has to wait.
\* A pipe whose readers or registrants have nobody left to wake them really
\* stops, so deadlock is not an error.
CONSTANTS
  Threads = {t1, t2, t3}
  PIPESIZE = 2
  Counts <- MCCounts
  Registered = FALSE
  MaxBytes = 3
SPECIFICATION FairSpec
INVARIANTS NoLostWakeup ByteConservation
PROPERTIES RegisterReturns
CHECK_DEADLOCK FALSE
