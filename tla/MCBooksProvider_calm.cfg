\* LoggedOutForgets, put in, is violated (README, section 15).
SPECIFICATION CalmSpec
CONSTANTS
  Nothing = Nothing
  a1 = a1
  a2 = a2
  e1 = e1
  e2 = e2
  t1 = t1
  t2 = t2
  Tab = {t1, t2}
  Account = {a1, a2}
  Edit = {e1, e2}
INVARIANTS AnswersHold OwnBooksOnly
PROPERTIES OnlyLateSavesRefill BackupIsCurrent UpdatesEnd
CHECK_DEADLOCK FALSE
