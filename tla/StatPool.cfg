\* Two workers, a queue of two cells: full and empty queues, jams, early done.
SPECIFICATION FairSpec
CONSTANTS
  Workers = {w1, w2}
  QUEUE_MAX = 2
  Root = Root
  a = a
  b = b
  c = c
  d = d
  e = e
  f = f
  Dirs <- MCDirs
  Files <- MCFiles
  Entries <- MCEntries
INVARIANTS NoLostWakeup WalkExact
PROPERTIES EndsOrJams
CHECK_DEADLOCK FALSE
