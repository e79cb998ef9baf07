SPECIFICATION TopUpsFairSpec
CONSTANTS
  e1 = e1
  e2 = e2
  o1 = o1
  h1 = h1
  h2 = h2
  h3 = h3
  none = none
  Nothing = none
  Events = {e1, e2}
  Unlabelled = {e2}
  Orders = {o1}
  Handlers = {h1, h2, h3}
  Overlapping = TRUE
  MaxFailures = 2
INVARIANT AuditIsReal
PROPERTIES KeepsPromise CreditsArrive
