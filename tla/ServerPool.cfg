\* Three slots, at least two spare servers, one child or one fork may fail.  When
\* the fork of the first child fails the system really stops.
CONSTANTS
  MAXCLIENT = 3
  MINSPARESERVER = 2
  MAXSPARESERVER = 2
  MaxWaiting = 2
  MaxFaults = 1
SPECIFICATION FairSpec
INVARIANTS CountsMatch SleepsInformed
PROPERTIES ClientsServed
CHECK_DEADLOCK FALSE
