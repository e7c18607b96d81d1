SPECIFICATION Spec
CONSTANTS
  Nothing = Nothing
  m1 = m1
  m2 = m2
  j1 = j1
  j2 = j2
  Member = {m1, m2}
  Job = {j1, j2}
  Presses = 3
  MaxTaken = 2
  LastDay = 1
  KeepDays = 0
  Undated = Undated
SYMMETRY Symmetric

PROPERTIES OnlyMembersRead
CHECK_DEADLOCK FALSE
