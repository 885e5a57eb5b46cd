\* Two slots: two jobs fire in the same tick, one cancels the other, and a third
\* finds the table full.
CONSTANTS
  JOB_MAX = 2
  Secs <- MCSecs
SPECIFICATION TimerFairSpec
INVARIANTS FiresOnTime RunsAsAsked
PROPERTIES WaitReturns
