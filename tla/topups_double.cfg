SPECIFICATION TopUpsSpec
CONSTANTS
  e1 = e1
  e2 = e2
  o1 = o1
  h1 = h1
  h2 = h2
  h3 = h3
  none = none
  Nothing = none
  Events = {e1}
  Unlabelled = {}
  Orders = {}
  Handlers = {h1, h2}
  Overlapping = TRUE
  MaxFailures = 1
INVARIANT NeverDoubleCredit
