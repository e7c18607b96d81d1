\* LinkedIsAccepted, put in, is violated (README, section 15).
SPECIFICATION HiringSpec
CONSTANTS
  p1 = p1
  p2 = p2
  Person = {p1, p2}
  Nobody = Nobody
  MaxFlows = 3
  MaxMembers = 1
PROPERTIES JoinsOnlyAccepted DropsOnlyEnded
CHECK_DEADLOCK FALSE
SYMMETRY Symmetric
