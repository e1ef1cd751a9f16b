SPECIFICATION Spec
CONSTANTS
  o1 = o1
  o2 = o2
  r1 = r1
  r2 = r2
  c1 = c1
  c2 = c2
  NoCharge = NoCharge
  NoEvent = NoEvent
  Orders = {o1, o2}
  Requests = {r1, r2}
  Charges = {c1}
  Fulfillment <- MCHall
  FoundationOrders = {}
  StockSize = 1
  CountCap = 2
  GatewayOf <- MCMercadoPago
  Outcomes <- MCAnyOutcome
  EnabledOps = {"change_status", "cancel", "confirm_table", "serve_table"}
  AdminTargets = {"preparing", "ready_for_pickup", "cancelled"}
SYMMETRY MCSymmetry
INVARIANTS ShelfNeverNegative StockMovedOnce
CHECK_DEADLOCK FALSE
