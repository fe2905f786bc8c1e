\* Every slot is held by a call that was refused, and the recovery needs one.
SPECIFICATION FairSpec
CONSTANTS
  Callers = {1, 2}
  Slots = 2
  MaxSyncs = 2
  Logged = TRUE
  MaxRuns = 2
  MaxLevels = 2
  Troubles <- Calm
PROPERTIES CallsEnd
CHECK_DEADLOCK FALSE
