SPECIFICATION FairSpec
CONSTANTS
  s1 = s1
  r1 = r1
  t1 = t1
  t2 = t2
  none = none
  None = none
  Signs = {s1}
  Reads = {r1}
  Tickets = {t1, t2}
  Face <- TwoTickets
  Grant = 9
  Before = 1
  Allowed = {"reorder", "early", "age", "retry"}
  MaxFaults = 1
INVARIANT AbsorbedWithinConsumed
PROPERTIES NeverOvershown Settles
