\* One bay: a broken bay is repaired.
SPECIFICATION FairSpec
CONSTANTS
  Plates = {p1, p2}
  BayNames = {b1}
  MaxVisits = 1
  MaxIds = 3
  Limit <- LiveLimit
PROPERTIES BrokenIsRepaired
CHECK_DEADLOCK FALSE
