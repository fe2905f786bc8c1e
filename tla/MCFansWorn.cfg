SPECIFICATION FairSpec
CONSTANTS
  Fans = {1, 2}
  MaxAttempts = 2
  Workers = {1}
  MaxReadings = 1
  MaxTasks = 2
  Troubles <- Calm
PROPERTY WornIsRepaired
CHECK_DEADLOCK FALSE
