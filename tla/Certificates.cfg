SPECIFICATION FairSpec
CONSTANTS
  d1 = d1
  d2 = d2
  j1 = j1
  j2 = j2
  k1 = k1
  k2 = k2
  Nothing = Nothing
  Domains = {d1}
  Keys = {k1, k2}
  Jobs = {j1, j2}
  MaxActions = 2
INVARIANTS OneOpenJob OneJobPerKey FilesLoad
PROPERTIES JobsAreFinal ServesThroughRenewal JobsEnd TruthReturns
CHECK_DEADLOCK FALSE
