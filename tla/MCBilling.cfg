\* One visit, two exits, any two rare events.
SPECIFICATION Spec
CONSTANTS
  Exits = {x, y}
  PaymentRetryMax = 1
  TamperedRetryMax = 1
  Staff = {"ask", "override", "release"}
  MaxVisits = 1
  MaxSessions = 2
  MaxInbox = 2
  Limit <- VisitLimit
SYMMETRY Symmetry
INVARIANTS TypeOK InvoiceBudget PaidIsDurable
PROPERTIES InvoiceIsDue LeavesSettled
CHECK_DEADLOCK FALSE
