SPECIFICATION Spec
CONSTANTS
  k1 = k1
  k2 = k2
  r1 = r1
  r2 = r2
  r3 = r3
  p1 = p1
  p2 = p2
  Nobody = Nobody
  Requests = {r1, r2, r3}
  Keys = {k1, k2}
  Payloads = {p1, p2}
  Flow <- MCFlow
  MaxDeaths = 2
SYMMETRY MCSymmetry
INVARIANTS TypeOK NoKeyLeftBehind RetryFindsTheOrder
PROPERTIES ResultOnce
CHECK_DEADLOCK FALSE
