SPECIFICATION HurriedSpec
CONSTANTS
  Nothing = Nothing
  m1 = m1
  m2 = m2
  j1 = j1
  j2 = j2
  Member = {m1, m2}
  Job = {j1}
  Presses = 3
  MaxTaken = 2
  LastDay = 0
  KeepDays = 0
  Undated = Undated
SYMMETRY Symmetric
INVARIANT PostsReach
CHECK_DEADLOCK FALSE
