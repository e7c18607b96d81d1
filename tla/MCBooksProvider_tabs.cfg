SPECIFICATION TwoTabsSpec
CONSTANTS
  Nothing = Nothing
  a1 = a1
  a2 = a2
  e1 = e1
  e2 = e2
  t1 = t1
  t2 = t2
  Tab = {t1, t2}
  Account = {a1}
  Edit = {e1, e2}
INVARIANT AnswersHold
CHECK_DEADLOCK FALSE
