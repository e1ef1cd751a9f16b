SPECIFICATION Spec
CONSTANTS
  o1 = o1
  o2 = o2
  r1 = r1
  r2 = r2
  c1 = c1
  c2 = c2
  NoCharge = NoCharge
  NoEvent = NoEvent
  Orders = {o1}
  Requests = {r1, r2}
  Charges = {c1}
  Fulfillment <- MCDelivery
  FoundationOrders = {}
  StockSize = 1
  CountCap = 2
  GatewayOf <- MCAsaas
  Outcomes <- MCAnyOutcome
  EnabledOps = {"change_status", "cancel"}
  AdminTargets = {"preparing"}
SYMMETRY MCSymmetry
INVARIANTS UsedFoodIsNeverReturned
CHECK_DEADLOCK FALSE
