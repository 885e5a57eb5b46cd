\* Three callers and a table of two: two jobs run, one is refused.
SPECIFICATION RelayerFairSpec
CONSTANTS
  Callers = {c1, c2, c3}
  NULL = NULL
  REL_JOBMAX = 2
  BUFSIZE = 1
  Total <- MCTotal
  Endings = {"eof"}
  Space = 1
INVARIANTS JobsInTable OverMeansDelivered
PROPERTIES JobsEnd
CHECK_DEADLOCK FALSE
