SPECIFICATION FairSpec
CONSTANTS
  m1 = m1
  m2 = m2
  w1 = w1
  w2 = w2
  Messages = {m1, m2}
  Workers = {w1, w2}
  KindsOf <- MCKindsOf
  MaxAttempts = 2
  Threshold = 2
  MaxTroubles = 1
INVARIANTS TwiceOnlyWithCause PanelTellsTheTruth
PROPERTIES QueuedIsSettled
CHECK_DEADLOCK FALSE
