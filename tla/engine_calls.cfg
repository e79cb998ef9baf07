SPECIFICATION FairSpec
CONSTANTS
  j1 = j1
  j2 = j2
  s1 = s1
  e1 = e1
  c1 = c1
  c2 = c2
  none = none
  Runs = {j1, j2}
  Starts = {s1}
  Stops = {e1}
  Large = {j2}
  Cancellable = {j1}
  Children = {c1, c2}
  None = none
INVARIANTS NoStrayChild ReaderKeepsChild
PROPERTIES OwnAnswer FailureEvicts OnlyWritesHang
