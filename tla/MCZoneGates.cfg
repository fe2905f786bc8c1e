SPECIFICATION FairSpec
CONSTANTS
  Cars = {1, 2}
  Troubles <- MCTroubles
INVARIANTS TypeOK
PROPERTIES HeldGateShuts RepairSparesCars StaffOpenStands ZoneReopens CarGetsIn PaidIsReleased
CHECK_DEADLOCK FALSE
