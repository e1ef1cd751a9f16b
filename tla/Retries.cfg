SPECIFICATION Spec
CONSTANTS
  o1 = o1
  o2 = o2
  r1 = r1
  r2 = r2
  c1 = c1
  c2 = c2
  NoCharge = NoCharge
  NoEvent = NoEvent
  Orders = {o1}
  Requests = {r1}
  Charges = {c1, c2}
  Fulfillment <- MCDelivery
  FoundationOrders = {}
  StockSize = 1
  CountCap = 2
  GatewayOf <- MCRetries
  Outcomes <- MCAnyOutcome
  EnabledOps = {"cancel", "create_call", "switch_to_pay_on_delivery", "webhook_call", "status_poll", "approve", "cancel_call", "refund_call"}
  AdminTargets = {}
SYMMETRY MCSymmetry
INVARIANTS OneChargePerMethod PublishedOnce PaidOrdersAreBacked
PROPERTIES ApprovalIsKept
CHECK_DEADLOCK FALSE
