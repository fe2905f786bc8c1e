SPECIFICATION FairSpec
CONSTANTS
  Callers = {1, 2}
  Slots = 3
  MaxSyncs = 2
  Logged = TRUE
  MaxRuns = 3
  MaxLevels = 2
  Troubles <- MCTroubles
INVARIANTS TypeOK ChargeSentOnce
PROPERTIES OneRecovery RecoveryIsSynced CallsEnd LevelIsTakenOver
CHECK_DEADLOCK FALSE
