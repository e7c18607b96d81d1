SPECIFICATION SmallSpec
CONSTANTS
  Missing = Missing
  s1 = s1
  b1 = b1
  b2 = b2
  b3 = b3
  n1 = n1
  n2 = n2
  System = {s1}
  Account = {s1, b1, b2, b3}
  Name = {n1, n2}
  Section = {"asset", "equity", "income"}
  SystemSection <- SmallSystemSection
  Retained = s1
  MaxDepth = 3
  LastPeriod = 2
  StartMonth = 2
  YearMonths = 2
  Amount = {1}
  MaxEntries = 3
SYMMETRY Symmetric
INVARIANTS JournalSound ChartSound StatementsTie
PROPERTIES OnlyReversalsFillInactive ClosedStatementsStay OnlyBranchMovesBend
CHECK_DEADLOCK FALSE
