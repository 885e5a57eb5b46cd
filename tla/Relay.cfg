\* A buffer of two bytes against terminals that take one at a time.
SPECIFICATION FairSpec
CONSTANTS
  BUFSIZE = 2
  Total <- MCTotal
  Endings = {"eof", "err", "dst"}
  Space = 1
INVARIANTS InOrder NoFutileCall
PROPERTIES Delivers RelayReturns
CHECK_DEADLOCK FALSE
