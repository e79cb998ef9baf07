SPECIFICATION FairSpec
CONSTANTS
  Jobs = {j1, j2}
  Sessions <- Visits
  None = None
  MaxFaults = 1
INVARIANTS OwnCard ImportedOnce
PROPERTIES DoneStays AloneIsKept NothingSpins
CHECK_DEADLOCK FALSE
