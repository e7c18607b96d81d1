SPECIFICATION SmallWeeklySpec
CONSTANTS
  Minute = 2
  DayStart <- SmallDays
  WeekDays = 2
  MaxPunches = 4
  Presses = 2
  Nothing = Nothing
INVARIANT SentIsWhatArrived
CHECK_DEADLOCK FALSE
