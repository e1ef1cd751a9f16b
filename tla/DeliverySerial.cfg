SPECIFICATION Spec
CONSTANTS
  o1 = o1
  o2 = o2
  d1 = d1
  d2 = d2
  e1 = e1
  e2 = e2
  r1 = r1
  Nobody = Nobody
  Orders = {o1, o2}
  Drivers = {d1, d2}
  Earnings = {e1, e2}
  Requests = {r1}
  EnabledOps = {"assign", "update_status", "start", "problem", "complete", "kds_assign", "admin_complete", "pay", "person_status", "person_access", "deactivate"}
  StatusTargets = {"picked_up", "on_the_way", "failed", "cancelled"}
  AdjustsBusy = FALSE
SYMMETRY MCSymmetry
INVARIANTS BusyIffCarrying OrderFollowsDelivery PaidAtTheDoor EarnedOnce
CHECK_DEADLOCK FALSE
