\* TotalMatches or RecordedNeverAsks, put in, is violated (README, section 15).
SPECIFICATION ShieldSpec
CONSTANTS
  p1 = p1
  f1 = f1
  None = None
  Movement <- SmallMovement
  Paycheck = {p1}
  Net = 1
  Cent = 2
  Fund = {f1}
  Held <- OnePrivate
  MaxMoves = 2
  MaxChecks = 2
  MaxTransfers = 1
  MaxOthers = 1
INVARIANT MatchesShield
CHECK_DEADLOCK FALSE
