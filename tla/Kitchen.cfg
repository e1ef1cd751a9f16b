SPECIFICATION Spec
CONSTANTS
  o1 = o1
  o2 = o2
  u1 = u1
  u2 = u2
  d1 = d1
  Orders = {o1, o2}
  Units = {u1, u2, d1}
  OrderOf <- MCOrderOf
  Drinks = {d1}
  Pickups = {o2}
  StockSize = 2
  ByRoad = {o1}
  ByHand = {o1}
  MaxAttempts <- MCMaxAttempts
INVARIANTS OneLiveAttempt StockFollowsAttempts ReadyMeansFinished
PROPERTIES NoOvertaking ReworkIsClosedAgain
CONSTRAINT MCReworks
CHECK_DEADLOCK FALSE
