SPECIFICATION FairSpec
CONSTANTS
  image = image
  gemma = gemma
  ltx = ltx
  n1 = n1
  v1 = v1
  h1 = h1
  none = none
  None = none
  Workers = {image, gemma, ltx}
  Cards = {0, 1, 2}
  CardsOf <- CardsOfEach
  Pinned = {gemma}
  MultiEngine = {image}
  Reporting = {gemma}
  Restarting = {gemma}
  Failing = {image, ltx}
  Ensures = {n1}
  Evicts = {v1}
  Probes = {h1}
INVARIANTS ResidencyIsReal
PROPERTIES NothingStranded StaleResidencyEnds
