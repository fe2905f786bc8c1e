\* Two visits of two cars, a bay that breaks or is worn, a gate that fails, cars that
\* give up.  Deadlock is not checked: the cars may all have gone.
SPECIFICATION Spec
CONSTANTS
  Plates = {p1, p2}
  BayNames = {b1, b2}
  MaxVisits = 2
  MaxIds = 5
  Limit <- BaseLimit
SYMMETRY Symmetry
INVARIANTS TypeOK FreeIsEmpty
PROPERTIES PromisesTakenBack RepairsSpareCars AllocatesBays
CHECK_DEADLOCK FALSE
