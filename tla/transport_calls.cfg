SPECIFICATION FairSpec
CONSTANTS
  c1 = c1
  c2 = c2
  k1 = k1
  None = None
  Calls = {c1, c2}
  Keys = {k1}
  Pages <- MCPages
  MaxRetries = 2
  MaxReloads = 1
INVARIANTS TicketsFit PaidOnce
PROPERTIES CancelStopsSpending  OnlyOpenHopsHang
CHECK_DEADLOCK FALSE
