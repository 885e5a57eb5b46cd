\* Two threads, two slots and three heap blocks: mytbf_init meets a full table,
\* and a destroy races with the refill thread and with another init.
CONSTANTS
  Threads = {t1, t2}
  Buckets = {b1, b2, b3}
  Alarm = Alarm
  NULL = NULL
  MYTBF_MAX = 2
  Params <- MCParams
  Sizes <- MCSizes
SPECIFICATION Spec
SYMMETRY MCSymmetry
INVARIANTS TypeOK NoUseAfterFree NoLostWakeup NoLeakAtExit
PROPERTIES IsTokenBucket
