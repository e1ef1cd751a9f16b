SPECIFICATION Spec
CONSTANTS
  o1 = o1
  o2 = o2
  r1 = r1
  r2 = r2
  c1 = c1
  c2 = c2
  NoCharge = NoCharge
  NoEvent = NoEvent
  Orders = {o1}
  Requests = {r1}
  Charges = {c1}
  Fulfillment <- MCDelivery
  FoundationOrders = {}
  StockSize = 1
  CountCap = 2
  GatewayOf <- MCMercadoPago
  Outcomes <- MCAnyOutcome
  EnabledOps = {"change_status", "cancel", "archive", "create_call", "switch_to_pay_on_delivery", "webhook_call", "status_poll", "approve", "cancel_call", "refund_call"}
  AdminTargets <- OrderStatus
SYMMETRY MCSymmetry
INVARIANTS TypeOK PointsOnce
PROPERTIES FollowsLifecycle
CHECK_DEADLOCK FALSE
