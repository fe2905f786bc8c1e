\* A returning plate and the charge claim of its last visit.
SPECIFICATION Spec
CONSTANTS
  Exits = {"x"}
  PaymentRetryMax = 0
  TamperedRetryMax = 0
  Staff = {}
  MaxVisits = 2
  MaxSessions = 2
  MaxInbox = 2
  Limit <- VisitsLimit
PROPERTIES NewVisitIsUnclaimed
CHECK_DEADLOCK FALSE
