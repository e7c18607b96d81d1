\* RefusedOnlyWhenStuck, put in, is violated (README, section 15).
SPECIFICATION PlanSpec
CONSTANTS
  Pay = {1, 2, 3}
  RecordAmount = {1, 2, 4, 5}
  MaxPayees = 3
  MaxRecords = 2
  MaxIncoming = 1
INVARIANTS PlanIsSound NothingSpentTwice
CHECK_DEADLOCK FALSE
