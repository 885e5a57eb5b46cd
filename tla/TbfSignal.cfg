\* The file is neither a multiple of the buffer nor of the tokens of a tick, and
\* the bucket is full after two ticks, so reads, writes and returns are cut short.
CONSTANTS
  CPS = 2
  BURST = 5
  BUFSIZE = 3
  FileLength = 8
SPECIFICATION Spec
INVARIANTS
  NeverAhead
  CopyIsExact
PROPERTY CopyEnds
CHECK_DEADLOCK FALSE
