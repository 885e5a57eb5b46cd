CONSTANTS
  THRNUM = 4
  Rounds = 2
  Capacity = 2
  LEFT = 10
  RIGHT = 13
SPECIFICATION Spec
INVARIANTS
  FinalCounts
  TicketsSold
  LettersInTurn
  PrimesPrinted
  WithinLimits
PROPERTY EveryoneGetsOn
CHECK_DEADLOCK FALSE
