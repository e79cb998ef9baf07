SPECIFICATION Spec
CONSTANTS
  gemma = gemma
  ltx = ltx
  image = image
  none = none
  r1 = r1
  r2 = r2
  r3 = r3
  b1 = b1
  Workers = {gemma, ltx, image}
  Gemma = gemma
  NoWorker = none
  PollRank <- MCRank
  GpuCount = 3
  GemmaGpu = 0
  Requests = {r1, r2, r3}
  Pickers = {}
  Polls <- NoPolls
  EvictWired = TRUE
INVARIANTS OneRequestPerGpu
SYMMETRY Symm
