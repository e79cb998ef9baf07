SPECIFICATION FairSpec
CONSTANTS
  g1 = g1
  g2 = g2
  l1 = l1
  e1 = e1
  m1 = m1
  m2 = m2
  x1 = x1
  x2 = x2
  ta = ta
  tb = tb
  none = none
  Gens = {g1, g2}
  Loads = {}
  Evicts = {e1}
  Jobs <- PlanChunk
  Targets = {ta, tb}
  Wants <- Hopping
  Managers = {m1, m2}
  Processes = {x1, x2}
  Impatient = {g1}
  None = none
INVARIANT ReaderKeepsProcess
PROPERTIES OwnAnswer CallsEnd
