\* Every property of the ingress, with crashes, clean restarts, redeliveries
\* and a lost write.  Deadlock is not checked: the simulator may send no more.
SPECIFICATION FairSpec
CONSTANTS
  Events <- MCEvents
  VehicleEvents <- MCCarEvents
  Subject <- MCSubject
  WorkerCount = 3
  Capacity = 2
  MaxDeliveries = 3
  MaxRestarts = 2
  MaxDbErrors = 1
INVARIANTS TypeOK NoOvertaking Retryable Accounted
PROPERTIES NoReplay CleanStop EveryDeliverySettles SuccessReachesDisk
CHECK_DEADLOCK FALSE
