\* Cars where they were not sent, syncs, staff, a car taken for gone.
SPECIFICATION Spec
CONSTANTS
  Plates = {p1, p2}
  BayNames = {b1, b2}
  MaxVisits = 1
  MaxIds = 4
  Limit <- DisorderLimit
SYMMETRY Symmetry
INVARIANTS ActiveIsAssigned
PROPERTIES OccupiedStays
CHECK_DEADLOCK FALSE
