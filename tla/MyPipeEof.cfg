\* A reader waits, then the only writer unregisters and ends.
CONSTANTS
  Threads = {t1, t2}
  PIPESIZE = 2
  Counts <- MCCounts
  Registered = TRUE
  MaxBytes = 2
SPECIFICATION Spec
INVARIANTS WaitsForAWriter
CHECK_DEADLOCK FALSE
