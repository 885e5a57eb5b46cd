\* Two threads share one bucket or race to create it.
CONSTANTS
  Threads = {t1, t2}
  Buckets = {b1}
  Alarm = Alarm
  NULL = NULL
  MYTBF_MAX = 1
  Params <- MCParams
  Sizes <- MCSizes
SPECIFICATION FairSpec
PROPERTIES FetchProgress ExitTerminates
