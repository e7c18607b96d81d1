\* SentAgainReplaces, put in, is violated (README, section 15).
SPECIFICATION SmallSpec
CONSTANTS
  Minute = 2
  DayStart <- SmallDays
  WeekDays = 2
  MaxPunches = 4
  Presses = 2
  Nothing = Nothing
INVARIANTS WeeksAddUp SentIsWhatArrived
PROPERTIES EditsAreLocal
CHECK_DEADLOCK FALSE
