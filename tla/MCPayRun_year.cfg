\* NoRepeatUnasked, put in, is violated (README, section 15).
SPECIFICATION Spec
CONSTANTS
  Terms <- SmallTerms
  Hours = {0, 1}
  WageBase = 2
  SsBp = 5000
  DaysPerYear = 2
  LastDate = 3
  MaxWorkers = 2
  MaxRuns = 2
INVARIANTS YearCapped RebuiltIsPosted RepeatsWereAsked
CHECK_DEADLOCK FALSE
