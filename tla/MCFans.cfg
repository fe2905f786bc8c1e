SPECIFICATION FairSpec
CONSTANTS
  Fans = {1, 2}
  MaxAttempts = 2
  Workers = {1, 2}
  MaxReadings = 1
  MaxTasks = 2
  Troubles <- MCTroubles
INVARIANTS TypeOK
PROPERTIES StopsFirst FansFollowAir BrokenIsRepaired
CHECK_DEADLOCK FALSE
