\* The plate comes back, and the process crashes; every car at an exit is billed.
SPECIFICATION FairSpec
CONSTANTS
  Exits = {"x"}
  PaymentRetryMax = 0
  TamperedRetryMax = 0
  Staff = {"release"}
  MaxVisits = 2
  MaxSessions = 2
  MaxInbox = 2
  Limit <- VisitsLimit
PROPERTIES InvoiceIsDue EveryExitIsBilled
CHECK_DEADLOCK FALSE
