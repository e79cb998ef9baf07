SPECIFICATION FairSpec
CONSTANTS
  gemma = gemma
  ltx = ltx
  image = image
  none = none
  r1 = r1
  r2 = r2
  r3 = r3
  b1 = b1
  Workers = {gemma, ltx, image}
  Gemma = gemma
  NoWorker = none
  PollRank <- MCRank
  GpuCount = 3
  GemmaGpu = 0
  Requests = {r1, r2}
  Pickers = {b1}
  Polls <- MixedPolls
  EvictWired = TRUE
INVARIANTS SlotConsistent NoHealUnderLoad
PROPERTIES CardKept EvictionPaysOff GemmaCardKept NoMissedWakeup RequestsEnd
