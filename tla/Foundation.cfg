SPECIFICATION Spec
CONSTANTS
  o1 = o1
  a1 = a1
  p1 = p1
  p2 = p2
  r1 = r1
  r2 = r2
  Nobody = Nobody
  Lots = {1}
  Places = {p1, p2}
  Default = p1
  Orders = {o1}
  Attempts = {a1}
  First = {}
  OrderOf <- MCOrderOf
  Reservations = {r1, r2}
  Need = 2
  MaxQuantity = 2
  Amounts = {1}
  MaxStock = 2
  MaxAllocations = 1
SYMMETRY MCSymmetry
INVARIANTS ReservedIsThere ReservationServes NothingHeldForCancelled
PROPERTIES EachChangeCounts
CHECK_DEADLOCK FALSE
