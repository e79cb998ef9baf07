SPECIFICATION FairSpec
CONSTANTS
  Jobs = {j1, j2}
  Sessions <- Images
  None = None
  MaxFaults = 0
PROPERTY EveryResultKept
CHECK_DEADLOCK FALSE
