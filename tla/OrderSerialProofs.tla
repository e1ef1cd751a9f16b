------------------------- MODULE OrderSerialProofs --------------------------
(***************************************************************************)
(* Theorems about orders whose rows nobody writes under a request that     *)
(* works on them: what the handlers, which load without a lock, count on.  *)
(* They hold for any number of workers, orders and charges.                *)
(***************************************************************************)
EXTENDS OrderPaymentProofs

\* While request r works on an order, nobody else writes the order's row or its
\* payment's: what a lock at the load, or a version column at the flush, would
\* see to, and what one worker at a time gives for free.
Undisturbed ==
  \A r \in Requests : (~Free(r) /\ req'[r] = req[r]) =>
    order'[req[r].o] = order[req[r].o] /\ payment'[req[r].o] = payment[req[r].o]

-----------------------------------------------------------------------------
(* How one step may move an order.                                         *)

Off == {"cancelled", "refunded"}

\* The edges of the graph, with those that only single handlers take: the
\* creation, the switch to pay on delivery and complete_local_fulfillment.
Edge(from, to) ==
  \/ from = Missing /\ to \in {"aguardando_pagamento", "paid", "preparing"}
  \/ /\ from \in Payable
     /\ to \in Payable \cup {"paid", "pago", "preparing", "cancelled"}
  \/ from \in {"paid", "pago"} /\ to \in {"preparing", "cancelled", "refunded"}
  \/ from = "preparing" /\ to \in {"ready_for_pickup", "on_the_way", "cancelled"}
  \/ /\ from = "ready_for_pickup"
     /\ to \in {"preparing", "on_the_way", "delivered", "cancelled"}
  \/ from = "on_the_way" /\ to \in {"delivered", "cancelled"}

Kept(o) ==
  /\ order'[o].status = order[o].status
  /\ order'[o].started = order[o].started
  /\ ledger'[o] = ledger[o]
  /\ order[o].status = Missing => units'[o] = units[o]
  /\ units[o] # "none" => units'[o] # "none"

\* The order goes along an edge, and its stock with it.
Moved(o, to) ==
  /\ Edge(order[o].status, to)
  /\ order'[o].status = to
  /\ order'[o].started = (order[o].started \/ to = "preparing")
  /\ units[o] # "none" => units'[o] # "none"
  /\ to = "preparing" =>
       \/ units'[o] # "none" /\ ledger'[o] = ledger[o]
       \/ /\ order[o].status # "ready_for_pickup" /\ units'[o] = units[o]
          /\ ledger'[o] = ConsumeSale(o, "preparing")
  /\ to \in Off => ledger'[o] = ReverseSale(o, ledger[o], order[o].started)
  /\ to \notin Off \cup {"preparing"} => ledger'[o] = ledger[o]

\* The shape of an order's rows between two steps.
Shape(o) ==
  /\ order[o].status = Missing => ledger[o].sale = 0 /\ units[o] = "none"
  /\ order[o].status = "preparing" => units[o] # "none" \/ ledger[o].sale = 1
  /\ ledger[o].sale \in {0, 1}
  /\ ledger[o].sale = 1 => order[o].started
  /\ ledger[o].reversal = 0
  /\ ledger[o].loss = IF order[o].status \in Off THEN ledger[o].sale ELSE 0

LEMMA OrderGraph ==
  ASSUME NEW from, NEW to, OrderMay(from, to)
  PROVE  Edge(from, to)
BY DEF OrderMay, CanTransition, OrderTransitions, Edge, Payable

LEMMA KeptShape ==
  ASSUME NEW o \in Orders, Shape(o), Kept(o)
  PROVE  Shape(o)'
BY DEF Shape, Kept

\* What the two stock operations leave of an order whose movements are in shape.
LEMMA ConsumedEntry ==
  ASSUME NEW o \in Orders, NEW entry, entry = ConsumeSale(o, "preparing"),
         ledger[o] \in LedgerRow, ledger[o].sale \in {0, 1}
  PROVE  /\ entry.sale \in {0, 1} /\ (units[o] = "none" => entry.sale = 1)
         /\ entry.loss = ledger[o].loss /\ entry.reversal = ledger[o].reversal
BY DEF ConsumeSale, Deducts, LedgerRow

LEMMA ReversedEntry ==
  ASSUME NEW o \in Orders, NEW entry \in LedgerRow, NEW started \in BOOLEAN,
         entry.sale \in {0, 1}, entry.reversal = 0, entry.loss \in {0, entry.sale},
         entry.sale = 1 => started,
         NEW left, left = ReverseSale(o, entry, started)
  PROVE  left \in LedgerRow /\ left.sale = entry.sale /\ left.reversal = 0
         /\ left.loss = entry.sale
BY DEF ReverseSale, LedgerRow

LEMMA MovedShape ==
  ASSUME NEW o \in Orders, TypeOK, Shape(o), NEW to, Moved(o, to)
  PROVE  Shape(o)'
<1>1. ledger[o] \in LedgerRow /\ order[o] \in OrderRow
  BY DEF TypeOK, StoreTypeOK
<1>2. to # Missing
  BY DEF Moved, Edge, Missing, Payable
<1>3. order[o].status \notin Off
  BY DEF Moved, Edge, Off, Missing, Payable
<1>4. /\ ledger[o].sale \in {0, 1} /\ ledger[o].loss = 0 /\ ledger[o].reversal = 0
      /\ ledger[o].sale = 1 => order[o].started
  BY <1>3 DEF Shape
<1>5. CASE to = "preparing"
  <2>1. CASE units'[o] # "none" /\ ledger'[o] = ledger[o]
    BY <1>2, <1>4, <1>5, <2>1 DEF Shape, Moved, Off
  <2>2. CASE units'[o] = units[o] /\ ledger'[o] = ConsumeSale(o, "preparing")
    <3>1. /\ ledger'[o].sale \in {0, 1} /\ (units[o] = "none" => ledger'[o].sale = 1)
          /\ ledger'[o].loss = 0 /\ ledger'[o].reversal = 0
      BY <1>1, <1>4, <2>2, ConsumedEntry
    <3>2. QED
      BY <1>2, <1>5, <2>2, <3>1 DEF Shape, Moved, Off
  <2>3. QED
    BY <1>5, <2>1, <2>2 DEF Moved
<1>6. CASE to \in Off
  <2>1. order[o].started \in BOOLEAN
    BY <1>1 DEF OrderRow
  <2>2. ledger'[o] = ReverseSale(o, ledger[o], order[o].started)
    BY <1>6 DEF Moved, Off
  <2>3. ledger'[o].sale = ledger[o].sale /\ ledger'[o].reversal = 0
        /\ ledger'[o].loss = ledger[o].sale
    BY <1>1, <1>4, <2>1, <2>2, ReversedEntry
  <2>4. QED
    BY <1>2, <1>4, <1>6, <2>3 DEF Shape, Moved, Off
<1>7. CASE to \notin Off \cup {"preparing"}
  BY <1>2, <1>4, <1>7 DEF Shape, Moved, Off
<1>8. QED
  BY <1>5, <1>6, <1>7

-----------------------------------------------------------------------------
(* What a request in flight knows.                                         *)

\* A transaction that has not loaded its order (Continued).
Later == {"award_points", "record_cancel", "archive_record", "archive_mark", "webhook_call"}

\* What its snapshot says is in the table.
Fresh(q) ==
  /\ q.op \notin Later => q.ord = order[q.o] /\ q.pay = payment[q.o]
  /\ q.op \in {"record_cancel", "archive_record"} => order[q.o].status = "cancelled"
  /\ q.op = "award_points" => order[q.o].status = "delivered"

\* What it asked of its snapshot when it loaded it.
Asked(q) ==
  /\ q.op = "change_status" =>
       /\ "change_status" \in EnabledOps
       /\ OrderMay(q.ord.status, q.to)
       /\ q.to = "preparing" => q.ord.status # "ready_for_pickup"
  /\ q.op \in {"cancel", "archive"} => q.to = "cancelled" /\ OrderMay(q.ord.status, q.to)
  /\ q.op = "serve_table" => LocalFulfillment(Fulfillment[q.o], q.ord.status)
  /\ q.op = "confirm_table" =>
       "confirm_table" \in EnabledOps /\ Fulfillment[q.o] = "dine_in"
  /\ q.op = "create_commit" => q.got \in {"pending", "rejected", "cancelled", "expired"}
  /\ q.op \in {"create_call", "create_charge", "create_commit", "preference",
               "switch_to_pay_on_delivery"} => q.ord.status \in Payable

FreshInv == \A r \in Requests : ~Free(r) => Fresh(req[r]) /\ Asked(req[r])

SerialInv == FreshInv /\ \A o \in Orders : Shape(o)

\* What a step of request r must leave for FreshInv ...
Advances(r) ==
  /\ \A x \in Requests : x # r => req'[x] = req[x]
  /\ req'[r] = Idle \/ (Fresh(req[r]) /\ Asked(req[r]))'
  /\ req'[r].op = "award_points" => order[req'[r].o].status # "delivered"

\* ... and for the orders.
OrdersMove ==
  \/ \A o \in Orders : Kept(o)
  \/ \E o \in Orders, to \in OrderStatus :
       Moved(o, to) /\ \A x \in Orders : x # o => Kept(x)

LEMMA NothingMoves ==
  ASSUME UNCHANGED <<order, ledger, units>>
  PROVE  OrdersMove
BY DEF OrdersMove, Kept

\* A step that writes the rows of one order only.
LEMMA OneMoves ==
  ASSUME NEW o \in Orders, Kept(o) \/ \E to \in OrderStatus : Moved(o, to),
         \A x \in Orders : x # o =>
           order'[x] = order[x] /\ ledger'[x] = ledger[x] /\ units'[x] = units[x]
  PROVE  OrdersMove
BY DEF OrdersMove, Kept

LEMMA Entered ==
  ASSUME Sound, NEW r \in Requests, NEW q, Enter(r, q)
  PROVE  req'[r] = q /\ \A x \in Requests : x # r => req'[x] = req[x]
BY DEF Sound, TypeOK, StoreTypeOK, Enter

LEMMA LeftAdvances ==
  ASSUME Sound, NEW r \in Requests, Leave(r)
  PROVE  Advances(r)
BY DEF Sound, TypeOK, StoreTypeOK, Leave, Advances, Idle

\* A step that only reads leaves a snapshot that is fresh.
LEMMA ReadAdvances ==
  ASSUME Sound, NEW r \in Requests, NEW q, Enter(r, q), Asked(q),
         UNCHANGED <<order, payment, ledger, units>>,
         q.op \notin Later => q.ord = order[q.o] /\ q.pay = payment[q.o],
         q.op \notin {"record_cancel", "archive_record", "award_points"}
  PROVE  Advances(r) /\ OrdersMove
<1>1. req'[r] = q /\ \A x \in Requests : x # r => req'[x] = req[x]
  BY Entered
<1>2. (Fresh(req[r]) /\ Asked(req[r]))'
  BY <1>1 DEF Fresh, Asked
<1>3. QED
  BY <1>1, <1>2, NothingMoves DEF Advances

-----------------------------------------------------------------------------
(* Orders.                                                                 *)

LEMMA StatusReads ==
  ASSUME Sound, NEW r \in Requests, NEW o \in Orders,
         \/ \E to \in OrderStatus : ChangeStatusRead(r, o, to)
         \/ \E who \in {"customer", "admin", "system"} : CancelRead(r, o, who)
         \/ ArchiveRead(r, o)
         \/ \E m \in Methods : ConfirmTableRead(r, o, m)
         \/ ServeTableRead(r, o)
  PROVE  Advances(r) /\ OrdersMove
<1>1. ASSUME NEW to \in OrderStatus, ChangeStatusRead(r, o, to)
      PROVE  Advances(r) /\ OrdersMove
  <2> DEFINE q == [Loaded("change_status", o) EXCEPT !.to = to]
  <2>1. /\ q.op = "change_status" /\ q.ord = order[o] /\ q.o = o /\ q.pay = payment[o]
        /\ q.to = to
    BY DEF Loaded
  <2>2. Asked(q)
    BY <1>1, <2>1 DEF Asked, ChangeStatusRead, GatesPass
  <2>3. QED
    BY <1>1, <2>1, <2>2, ReadAdvances DEF ChangeStatusRead
<1>2. ASSUME NEW who \in {"customer", "admin", "system"}, CancelRead(r, o, who)
      PROVE  Advances(r) /\ OrdersMove
  <2> DEFINE q == [Loaded("cancel", o) EXCEPT !.to = "cancelled", !.who = who]
  <2>1. /\ q.op = "cancel" /\ q.ord = order[o] /\ q.o = o /\ q.pay = payment[o]
        /\ q.to = "cancelled" /\ q.who = who
    BY DEF Loaded
  <2>2. Asked(q)
    BY <1>2, <2>1 DEF Asked, CancelRead, MayCancel
  <2>3. QED
    BY <1>2, <2>1, <2>2, ReadAdvances DEF CancelRead
<1>3. ASSUME ArchiveRead(r, o) PROVE Advances(r) /\ OrdersMove
  <2> DEFINE q == [Loaded("archive", o) EXCEPT !.to = "cancelled", !.who = "admin"]
             m == Continued("archive_mark", o, "none")
  <2>1. /\ q.op = "archive" /\ q.ord = order[o] /\ q.o = o /\ q.pay = payment[o]
        /\ q.to = "cancelled"
    BY DEF Loaded
  <2>2. m.op = "archive_mark"
    BY DEF Continued
  <2>3. Asked(m)
    BY <2>2 DEF Asked
  <2>4. CASE order[o].status \in {"cancelled", "refunded", "delivered"}
    BY <1>3, <2>2, <2>3, <2>4, ReadAdvances DEF ArchiveRead, Later
  <2>5. CASE order[o].status \notin {"cancelled", "refunded", "delivered"}
    <3>1. Asked(q)
      BY <1>3, <2>1, <2>5 DEF Asked, ArchiveRead
    <3>2. QED
      BY <1>3, <2>1, <2>5, <3>1, ReadAdvances DEF ArchiveRead
  <2>6. QED
    BY <2>4, <2>5
<1>4. ASSUME NEW m \in Methods, ConfirmTableRead(r, o, m)
      PROVE  Advances(r) /\ OrdersMove
  <2> DEFINE q == [Loaded("confirm_table", o) EXCEPT !.method = m]
  <2>1. q.op = "confirm_table" /\ q.ord = order[o] /\ q.o = o /\ q.pay = payment[o]
    BY DEF Loaded
  <2>2. Asked(q)
    BY <1>4, <2>1 DEF Asked, ConfirmTableRead
  <2>3. QED
    BY <1>4, <2>1, <2>2, ReadAdvances DEF ConfirmTableRead
<1>5. ASSUME ServeTableRead(r, o) PROVE Advances(r) /\ OrdersMove
  <2> DEFINE q == Loaded("serve_table", o)
  <2>1. q.op = "serve_table" /\ q.ord = order[o] /\ q.o = o /\ q.pay = payment[o]
    BY DEF Loaded
  <2>2. Asked(q)
    BY <1>5, <2>1 DEF Asked, ServeTableRead
  <2>3. QED
    BY <1>5, <2>1, <2>2, ReadAdvances DEF ServeTableRead
<1>6. QED
  BY <1>1, <1>2, <1>3, <1>4, <1>5

\* A row that nobody has written since it was loaded is saved as it was set.
LEMMA SavedFresh ==
  ASSUME NEW row \in OrderRow, NEW new \in OrderRow
  PROVE  SaveOrder(row, row, new) = new
BY DEF SaveOrder, Col, OrderRow

LEMMA PaymentSavedFresh ==
  ASSUME NEW row \in PaymentRow, NEW new \in PaymentRow
  PROVE  SavePayment(row, row, new) = new
BY DEF SavePayment, Col, PaymentRow

\* A change of status that was decided on a fresh snapshot goes along an edge.
LEMMA CommitMoves ==
  ASSUME Sound, NEW r \in Requests, NEW next, Fresh(req[r]), Asked(req[r]),
         NEW op \in {"change_status", "cancel", "archive"}, Runs(r, op),
         CommitStatus(r, next)
  PROVE  /\ OrdersMove
         /\ order'[req[r].o].status = req[r].to /\ Edge(order[req[r].o].status, req[r].to)
         /\ req'[r] = next /\ \A x \in Requests : x # r => req'[x] = req[x]
<1> DEFINE q    == req[r]
           o    == q.o
           used == IF q.to = "preparing" /\ q.ord.status # "ready_for_pickup"
                   THEN ConsumeSale(o, q.to) ELSE ledger[o]
           kept == IF q.to \in {"cancelled", "refunded"}
                   THEN ReverseSale(o, used, q.ord.started) ELSE used
           row  == WithStatus(q.ord, q.to)
<1>1. q \in Request /\ RequestOK(q) /\ q.op = op
  BY Running DEF Ops, Runs
<1>2. o \in Orders /\ q.ord = order[o] /\ order[o] \in OrderRow /\ q.to \in OrderStatus
  BY <1>1 DEF Request, RequestOK, Fresh, Later, Sound, TypeOK, StoreTypeOK
<1>3. row \in OrderRow
  BY <1>2, WithStatusType
<1>4. SaveOrder(order[o], q.ord, row) = row
  BY <1>2, <1>3, SavedFresh
<1>5. /\ order' = [order EXCEPT ![o] = SaveOrder(@, q.ord, row)]
      /\ ledger' = [ledger EXCEPT ![o] = kept]
      /\ Enter(r, next) /\ UNCHANGED <<payment, units, points, published, staffPaid>>
  BY DEF CommitStatus
<1>6. order'[o] = row /\ ledger'[o] = kept /\ units' = units
  BY <1>2, <1>4, <1>5 DEF Sound, TypeOK, StoreTypeOK
<1>7. row.status = q.to /\ row.started = (order[o].started \/ q.to = "preparing")
  BY <1>2 DEF WithStatus, OrderRow
<1>8. /\ OrderMay(order[o].status, q.to)
      /\ q.to = "preparing" => order[o].status # "ready_for_pickup"
  BY <1>1, <1>2 DEF Asked
<1>9. Edge(order[o].status, q.to)
  BY <1>8, OrderGraph
<1>10. Moved(o, q.to)
  BY <1>2, <1>6, <1>7, <1>8, <1>9 DEF Moved, Off
<1>11. OrdersMove
  BY <1>2, <1>5, <1>10, OneMoves DEF Sound, TypeOK, StoreTypeOK
<1>12. QED
  BY <1>5, <1>6, <1>7, <1>9, <1>11, Entered

LEMMA StatusCommits ==
  ASSUME Sound, NEW r \in Requests, ~Free(r) => Fresh(req[r]) /\ Asked(req[r]),
         ChangeStatusCommit(r) \/ CancelCommit(r) \/ ArchiveCancel(r)
  PROVE  Advances(r) /\ OrdersMove
<1> DEFINE q == req[r]
<1>1. PICK op \in {"change_status", "cancel", "archive"} : Runs(r, op)
  BY DEF ChangeStatusCommit, CancelCommit, ArchiveCancel
<1>2. q.op = op /\ Fresh(q) /\ Asked(q) /\ q.o \in Orders
  BY <1>1, Running DEF Runs, Ops, Request, Free, Idle
<1>3. PICK next : /\ CommitStatus(r, next)
                  /\ \/ next = Idle
                     \/ next = Continued("award_points", q.o, "none") /\ q.to = "delivered"
                     \/ /\ op \in {"cancel", "archive"}
                        /\ \/ /\ next = Continued("record_cancel", q.o, q.who)
                              /\ Runs(r, "cancel")
                           \/ next = Continued("archive_record", q.o, "admin")
  BY <1>2 DEF ChangeStatusCommit, CancelCommit, ArchiveCancel, Runs
<1>4. /\ OrdersMove /\ order'[q.o].status = q.to /\ Edge(order[q.o].status, q.to)
      /\ req'[r] = next /\ \A x \in Requests : x # r => req'[x] = req[x]
  BY <1>1, <1>2, <1>3, CommitMoves
<1>5. op \in {"cancel", "archive"} => q.to = "cancelled"
  BY <1>2 DEF Asked
<1>6. ASSUME next # Idle PROVE (Fresh(req[r]) /\ Asked(req[r]))'
  <2>1. /\ req'[r].o = q.o
        /\ \/ req'[r].op = "award_points" /\ q.to = "delivered"
           \/ req'[r].op \in {"record_cancel", "archive_record"} /\ q.to = "cancelled"
    BY <1>3, <1>4, <1>5, <1>6 DEF Continued
  <2>2. QED
    BY <1>4, <2>1 DEF Fresh, Asked, Later
<1>7. req'[r].op = "award_points" => order[req'[r].o].status # "delivered"
  BY <1>3, <1>4 DEF Continued, Idle, Edge, Missing, Payable
<1>8. QED
  BY <1>4, <1>6, <1>7 DEF Advances

\* The later transactions of a request leave the status alone; the waiter's serving
\* delivers the order that it found ready.
LEMMA StatusEnds ==
  ASSUME Sound, NEW r \in Requests, ~Free(r) => Fresh(req[r]) /\ Asked(req[r]),
         \/ StockRefusal(r) \/ AwardPoints(r) \/ RecordCancel(r) \/ ArchiveMark(r)
         \/ ConfirmTableCommit(r) \/ ServeTableCommit(r)
  PROVE  Advances(r) /\ OrdersMove
<1> DEFINE q == req[r]
<1>0. order \in [Orders -> OrderRow]
  BY DEF Sound, TypeOK, StoreTypeOK
<1>1. CASE StockRefusal(r) \/ AwardPoints(r)
  BY <1>1, LeftAdvances, NothingMoves DEF StockRefusal, AwardPoints
<1>2. CASE ArchiveMark(r)
  <2>1. q.o \in Orders
    BY <1>2, Running DEF ArchiveMark, Ops, Request
  <2>2. order' = [order EXCEPT ![q.o].archived = TRUE] /\ UNCHANGED <<ledger, units>>
    BY <1>2 DEF ArchiveMark
  <2>3. Kept(q.o)
    BY <1>0, <2>1, <2>2 DEF Kept, OrderRow
  <2>4. OrdersMove
    BY <1>0, <2>1, <2>2, <2>3, OneMoves
  <2>5. QED
    BY <1>2, <2>4, LeftAdvances DEF ArchiveMark
<1>3. CASE RecordCancel(r)
  <2> DEFINE next == IF Runs(r, "archive_record")
                     THEN Continued("archive_mark", q.o, "none") ELSE Idle
  <2>1. q.o \in Orders
    BY <1>3, Running DEF RecordCancel, Ops, Request
  <2>2. order' = [order EXCEPT ![q.o].cancelledBy = q.who] /\ UNCHANGED <<ledger, units>>
        /\ Enter(r, next)
    BY <1>3 DEF RecordCancel
  <2>3. Kept(q.o)
    BY <1>0, <2>1, <2>2 DEF Kept, OrderRow
  <2>4. OrdersMove
    BY <1>0, <2>1, <2>2, <2>3, OneMoves
  <2>5. req'[r] = next /\ \A x \in Requests : x # r => req'[x] = req[x]
    BY <2>2, Entered
  <2>6. next # Idle => next.op = "archive_mark"
    BY DEF Continued
  <2>7. next # Idle => (Fresh(req[r]) /\ Asked(req[r]))'
    BY <2>5, <2>6 DEF Fresh, Asked, Later
  <2>8. QED
    BY <2>4, <2>5, <2>6, <2>7 DEF Advances, Idle
<1>4. CASE ConfirmTableCommit(r)
  <2> DEFINE row == [q.ord EXCEPT !.paidAt = TRUE]
  <2>1. q \in Request /\ q.op = "confirm_table" /\ Fresh(q)
    BY <1>4, Running DEF ConfirmTableCommit, Ops, Runs, Free, Idle
  <2>2. q.o \in Orders /\ q.ord = order[q.o] /\ order[q.o] \in OrderRow
    BY <1>0, <2>1 DEF Request, Fresh, Later
  <2>3. row \in OrderRow /\ row.status = order[q.o].status /\ row.started = order[q.o].started
    BY <2>2 DEF OrderRow
  <2>4. order' = [order EXCEPT ![q.o] = SaveOrder(@, q.ord, row)]
        /\ UNCHANGED <<ledger, units>>
    BY <1>4 DEF ConfirmTableCommit
  <2>5. order'[q.o] = row
    BY <1>0, <2>2, <2>3, <2>4, SavedFresh
  <2>6. Kept(q.o)
    BY <2>2, <2>3, <2>4, <2>5 DEF Kept
  <2>7. OrdersMove
    BY <1>0, <2>2, <2>4, <2>6, OneMoves
  <2>8. QED
    BY <1>4, <2>7, LeftAdvances DEF ConfirmTableCommit
<1>5. CASE ServeTableCommit(r)
  <2> DEFINE row == WithStatus(q.ord, "delivered")
  <2>1. q \in Request /\ q.op = "serve_table" /\ Fresh(q) /\ Asked(q)
    BY <1>5, Running DEF ServeTableCommit, Ops, Runs, Free, Idle
  <2>2. q.o \in Orders /\ q.ord = order[q.o] /\ order[q.o] \in OrderRow
    BY <1>0, <2>1 DEF Request, Fresh, Later
  <2>3. row \in OrderRow
    BY <2>2, WithStatusType DEF OrderStatus
  <2>4. row.status = "delivered" /\ row.started = order[q.o].started
    BY <2>2 DEF WithStatus, OrderRow
  <2>5. order' = [order EXCEPT ![q.o] = SaveOrder(@, q.ord, row)]
        /\ UNCHANGED <<ledger, units>>
    BY <1>5 DEF ServeTableCommit
  <2>6. order'[q.o] = row
    BY <1>0, <2>2, <2>3, <2>5, SavedFresh
  <2>7. Edge(order[q.o].status, "delivered")
    BY <2>1, <2>2 DEF Asked, LocalFulfillment, Edge
  <2>8. Moved(q.o, "delivered") /\ "delivered" \in OrderStatus
    <3>1. /\ order'[q.o].status = "delivered"
          /\ order'[q.o].started = order[q.o].started /\ order[q.o].started \in BOOLEAN
      BY <2>2, <2>4, <2>6 DEF OrderRow
    <3>2. ledger' = ledger /\ units' = units
      BY <2>5
    <3>3. QED
      BY <2>7, <3>1, <3>2 DEF Moved, Off, OrderStatus
  <2>9. OrdersMove
    BY <1>0, <2>2, <2>5, <2>8, OneMoves
  <2>10. QED
    BY <1>5, <2>9, LeftAdvances DEF ServeTableCommit
<1>6. QED
  BY <1>1, <1>2, <1>3, <1>4, <1>5

\* A command of the kitchen display, which holds the lock of the order.
LEMMA KdsMoves ==
  ASSUME Sound, NEW o \in Orders, NEW to \in OrderStatus, KdsStatus(o, to),
         Edge(order[o].status, to), to \notin Off,
         to = "preparing" => units'[o] # "none",
         units' \in {units, [units EXCEPT ![o] = "working"]},
         ledger' = ledger
  PROVE  OrdersMove /\ order'[o].status = to
<1>1. order \in [Orders -> OrderRow] /\ order[o] \in OrderRow
      /\ units \in [Orders -> {"none", "working", "ready"}]
  BY DEF Sound, TypeOK, StoreTypeOK
<1>2. order'[o] = WithStatus(order[o], to) /\ \A x \in Orders : x # o => order'[x] = order[x]
  BY <1>1 DEF KdsStatus
<1>3. order'[o].status = to /\ order'[o].started = (order[o].started \/ to = "preparing")
  BY <1>1, <1>2 DEF WithStatus, OrderRow
<1>4. /\ units[o] # "none" => units'[o] # "none"
      /\ \A x \in Orders : x # o => units'[x] = units[x]
  BY <1>1
<1>5. Moved(o, to)
  BY <1>3, <1>4 DEF Moved
<1>6. QED
  BY <1>2, <1>3, <1>4, <1>5, OneMoves

LEMMA KitchenMoves ==
  ASSUME Sound, NEW o \in Orders, Kitchen(o)
  PROVE  OrdersMove /\ UNCHANGED req
<1>1. units \in [Orders -> {"none", "working", "ready"}]
  BY DEF Sound, TypeOK, StoreTypeOK
<1>2. {"preparing", "ready_for_pickup", "delivered"} \subseteq OrderStatus \ Off
  BY DEF OrderStatus, Off
<1>3. CASE KdsStartPreparation(o)
  <2>1. Edge(order[o].status, "preparing") /\ units'[o] # "none"
    BY <1>1, <1>3 DEF KdsStartPreparation, Edge
  <2>2. QED
    BY <1>2, <1>3, <2>1, KdsMoves DEF KdsStartPreparation
<1>4. CASE KdsUnitsReady(o) \/ KdsRemake(o)
  <2>1. /\ UNCHANGED <<order, ledger, req>>
        /\ order[o].status = "preparing" /\ units[o] # "none" /\ units'[o] # "none"
        /\ \A x \in Orders : x # o => units'[x] = units[x]
    BY <1>1, <1>4 DEF KdsUnitsReady, KdsRemake
  <2>2. Kept(o)
    BY <2>1 DEF Kept, Missing
  <2>3. QED
    BY <2>1, <2>2, OneMoves
<1>5. CASE KdsMarkReady(o)
  BY <1>2, <1>5, KdsMoves, OrderGraph DEF KdsMarkReady
<1>6. CASE KdsReturnToKitchen(o)
  <2>1. Edge(order[o].status, "preparing") /\ units'[o] # "none"
    BY <1>1, <1>6 DEF KdsReturnToKitchen, Edge
  <2>2. QED
    BY <1>2, <1>6, <2>1, KdsMoves DEF KdsReturnToKitchen
<1>7. CASE KdsServeDineIn(o)
  <2>1. Edge(order[o].status, "delivered")
    BY <1>7 DEF KdsServeDineIn, LocalFulfillment, Edge
  <2>2. QED
    BY <1>2, <1>7, <2>1, KdsMoves DEF KdsServeDineIn
<1>8. QED
  BY <1>3, <1>4, <1>5, <1>6, <1>7 DEF Kitchen

LEMMA PickupMoves ==
  ASSUME Sound, NEW r \in Requests, NEW o \in Orders, KdsCompletePickup(r, o)
  PROVE  Advances(r) /\ OrdersMove
<1> DEFINE q == Continued("award_points", o, "none")
<1>1. Edge(order[o].status, "delivered") /\ "delivered" \in OrderStatus \ Off
  BY DEF KdsCompletePickup, LocalFulfillment, Edge, OrderStatus, Off
<1>2. OrdersMove /\ order'[o].status = "delivered"
  BY <1>1, KdsMoves DEF KdsCompletePickup
<1>3. req'[r] = q /\ \A x \in Requests : x # r => req'[x] = req[x]
  BY Entered DEF KdsCompletePickup
<1>4. q.op = "award_points" /\ q.o = o
  BY DEF Continued
<1>5. (Fresh(req[r]) /\ Asked(req[r]))'
  BY <1>2, <1>3, <1>4 DEF Fresh, Asked, Later
<1>6. QED
  BY <1>1, <1>2, <1>3, <1>4, <1>5 DEF Advances, Edge, Missing, Payable

LEMMA CreationMoves ==
  ASSUME Sound, NEW o \in Orders, Creation(o)
  PROVE  OrdersMove /\ UNCHANGED req
<1>1. order \in [Orders -> OrderRow] /\ ledger \in [Orders -> LedgerRow] /\ order[o] = NoOrder
  BY DEF Creation, CreateFromCheckout, CreateFromTableSession, Sound, TypeOK, StoreTypeOK
<1>2. order[o].status = Missing /\ order[o].started = FALSE
  BY <1>1 DEF NoOrder
<1>3. ASSUME NEW kind, CreateFromCheckout(o, kind) PROVE OrdersMove /\ UNCHANGED req
  <2> DEFINE to == IF kind \in {"pay_on_delivery", "manual"} THEN "paid"
                   ELSE "aguardando_pagamento"
  <2>1. order' = [order EXCEPT ![o].status = to] /\ UNCHANGED <<ledger, units, req>>
    BY <1>3 DEF CreateFromCheckout
  <2>2. order'[o].status = to /\ order'[o].started = FALSE
    BY <1>1, <1>2, <2>1 DEF OrderRow
  <2>3. Moved(o, to) /\ to \in OrderStatus
    BY <1>2, <2>1, <2>2 DEF Moved, Edge, Off, OrderStatus
  <2>4. QED
    BY <1>1, <2>1, <2>3, OneMoves
<1>4. ASSUME CreateFromTableSession(o) PROVE OrdersMove /\ UNCHANGED req
  <2>1. /\ order' = [order EXCEPT ![o].status = "preparing", ![o].started = TRUE]
        /\ ledger' = [ledger EXCEPT ![o] = ConsumeSale(o, "preparing")]
        /\ UNCHANGED <<units, req>>
    BY <1>4 DEF CreateFromTableSession
  <2>2. order'[o].status = "preparing" /\ order'[o].started = TRUE
    BY <1>1, <2>1 DEF OrderRow
  <2>3. ledger'[o] = ConsumeSale(o, "preparing")
    BY <1>1, <2>1
  <2>4. Moved(o, "preparing") /\ "preparing" \in OrderStatus
    BY <1>2, <2>1, <2>2, <2>3 DEF Moved, Edge, Off, OrderStatus, Missing
  <2>5. QED
    BY <1>1, <2>1, <2>4, OneMoves
<1>5. QED
  BY <1>3, <1>4 DEF Creation

LEMMA OrderRequestMoves ==
  ASSUME Sound, AdminAssumption, FreshInv, NEW r \in Requests, OrderRequest(r)
  PROVE  Advances(r) /\ OrdersMove
<1>1. ~Free(r) => Fresh(req[r]) /\ Asked(req[r])
  BY DEF FreshInv
<1>2. AdminTargets \subseteq OrderStatus
  BY DEF AdminAssumption
<1>3. CASE \/ \E o \in Orders, to \in AdminTargets : ChangeStatusRead(r, o, to)
           \/ \E o \in Orders, who \in {"customer", "admin", "system"} : CancelRead(r, o, who)
           \/ \E o \in Orders : ArchiveRead(r, o)
           \/ \E o \in Orders, m \in Methods : ConfirmTableRead(r, o, m)
           \/ \E o \in Orders : ServeTableRead(r, o)
  BY <1>2, <1>3, StatusReads
<1>4. CASE ChangeStatusCommit(r) \/ CancelCommit(r) \/ ArchiveCancel(r)
  BY <1>1, <1>4, StatusCommits
<1>5. CASE \/ StockRefusal(r) \/ AwardPoints(r) \/ RecordCancel(r) \/ ArchiveMark(r)
           \/ ConfirmTableCommit(r) \/ ServeTableCommit(r)
  BY <1>1, <1>5, StatusEnds
<1>6. CASE \E o \in Orders : KdsCompletePickup(r, o)
  BY <1>6, PickupMoves
<1>7. QED
  BY <1>3, <1>4, <1>5, <1>6 DEF OrderRequest

-----------------------------------------------------------------------------
(* Payments.                                                               *)

\* An order follows its payment along an edge, or stays where it is.
LEMMA OrderAfterEdge ==
  ASSUME NEW ord \in OrderRow, NEW s \in PaymentStatus, NEW who \in Actors,
         NEW next, next = OrderAfter(ord, s, who)
  PROVE  /\ next \in OrderRow /\ next.started = ord.started
         /\ \/ next.status = ord.status
            \/ /\ Edge(ord.status, next.status)
               /\ next.status \in {"paid", "refunded", "cancelled", "pagamento_expirado"}
               /\ s = "approved" => next.status = "paid"
<1>1. next \in OrderRow
  BY OrderAfterType
<1>2. OrderTarget(s) \in {"none", "paid", "refunded", "pagamento_expirado"}
  BY DEF OrderTarget
<1>3. CASE next = ord \/ next = [ord EXCEPT !.paidAt = TRUE]
  BY <1>1, <1>3 DEF OrderRow
<1>4. CASE /\ next = [ord EXCEPT !.status = OrderTarget(s), !.paidAt = @ \/ s = "approved"]
           /\ OrderMay(ord.status, OrderTarget(s)) /\ OrderTarget(s) # "none"
  <2>1. next.status = OrderTarget(s) /\ next.started = ord.started
    BY <1>4 DEF OrderRow
  <2>2. Edge(ord.status, next.status)
    BY <1>4, <2>1, OrderGraph
  <2>3. s = "approved" => OrderTarget(s) = "paid"
    BY DEF OrderTarget
  <2>4. QED
    BY <1>1, <1>2, <1>4, <2>1, <2>2, <2>3
<1>5. CASE /\ next = [ord EXCEPT !.status = "cancelled", !.cancelledBy = who]
           /\ s \in {"expired", "cancelled"} /\ OrderMay(ord.status, OrderTarget(s))
  <2>1. next.status = "cancelled" /\ next.started = ord.started
    BY <1>5 DEF OrderRow
  <2>2. OrderTarget(s) = "pagamento_expirado"
    BY <1>5 DEF OrderTarget
  <2>3. Edge(ord.status, "pagamento_expirado")
    BY <1>5, <2>2, OrderGraph
  <2>4. Edge(ord.status, "cancelled")
    BY <2>3 DEF Edge, Payable, Missing
  <2>5. QED
    BY <1>1, <1>5, <2>1, <2>4
<1>6. QED
  BY <1>3, <1>4, <1>5 DEF OrderAfter

\* While the status of an order stays, a report on its payment moves no stock.
LEMMA StockStays ==
  ASSUME NEW o \in Orders, Shape(o), ledger[o] \in LedgerRow, order[o] \in OrderRow,
         NEW next \in OrderRow, next.status = order[o].status,
         next.started = order[o].started, NEW s
  PROVE  StockAfter(o, next, s) = ledger[o]
<1>1. ConsumeSale(o, next.status) = ledger[o]
  BY DEF ConsumeSale, Deducts, Shape
<1>2. next.status \in Off => ReverseSale(o, ledger[o], next.started) = ledger[o]
  <2> HAVE next.status \in Off
  <2>1. ledger[o].sale \in {0, 1} /\ ledger[o].loss = ledger[o].sale
        /\ (ledger[o].sale = 1 => next.started)
    BY DEF Shape
  <2>2. QED
    BY <2>1 DEF ReverseSale, LedgerRow
<1>3. QED
  BY <1>1, <1>2 DEF StockAfter, Off

LEMMA StockFollows ==
  ASSUME NEW o \in Orders, NEW next, NEW s,
         next.status \in {"paid", "refunded", "cancelled", "pagamento_expirado"},
         s = "approved" => next.status = "paid"
  PROVE  StockAfter(o, next, s) = IF next.status \in Off
                                  THEN ReverseSale(o, ledger[o], next.started) ELSE ledger[o]
BY DEF StockAfter, ConsumeSale, Deducts, Off

LEMMA ApplyMoves ==
  ASSUME Sound, NEW r \in Requests, req[r] \in Request, req[r].ord = order[req[r].o],
         Shape(req[r].o), NEW pay \in PaymentRow, NEW answer \in PaymentStatus,
         NEW who \in Actors, NEW commits,
         ApplyStatus(r, pay, req[r].ord, answer, who, commits)
  PROVE  Advances(r) /\ OrdersMove
<1> DEFINE o    == req[r].o
           s    == Settled(pay.status, answer)
           next == OrderAfter(order[o], s, who)
<1>1. /\ o \in Orders /\ order \in [Orders -> OrderRow] /\ order[o] \in OrderRow
      /\ ledger \in [Orders -> LedgerRow] /\ ledger[o] \in LedgerRow
  BY DEF Request, Sound, TypeOK, StoreTypeOK
<1>2. s \in PaymentStatus
  BY SettledType
<1>3. /\ next \in OrderRow /\ next.started = order[o].started
      /\ \/ next.status = order[o].status
         \/ /\ Edge(order[o].status, next.status)
            /\ next.status \in {"paid", "refunded", "cancelled", "pagamento_expirado"}
            /\ s = "approved" => next.status = "paid"
  BY <1>1, <1>2, OrderAfterEdge
<1>4. Leave(r) /\ UNCHANGED units
  BY DEF ApplyStatus
<1>5. CASE Accepts(pay.status, s)
  <2>1. /\ order' = [order EXCEPT ![o] = SaveOrder(@, order[o], next)]
        /\ ledger' = [ledger EXCEPT ![o] = StockAfter(o, next, s)]
    BY <1>5 DEF ApplyStatus
  <2>2. order'[o] = next /\ ledger'[o] = StockAfter(o, next, s)
    BY <1>1, <1>3, <2>1, SavedFresh
  <2>3. CASE next.status = order[o].status
    <3>1. ledger'[o] = ledger[o]
      BY <1>1, <1>3, <2>2, <2>3, StockStays
    <3>2. Kept(o)
      BY <1>3, <1>4, <2>2, <2>3, <3>1 DEF Kept
    <3>3. QED
      BY <1>1, <1>4, <2>1, <3>2, OneMoves, LeftAdvances
  <2>4. CASE next.status # order[o].status
    <3>1. /\ Edge(order[o].status, next.status)
          /\ next.status \in {"paid", "refunded", "cancelled", "pagamento_expirado"}
          /\ s = "approved" => next.status = "paid"
      BY <1>3, <2>4
    <3>2. ledger'[o] = IF next.status \in Off
                       THEN ReverseSale(o, ledger[o], order[o].started) ELSE ledger[o]
      BY <1>1, <1>3, <2>2, <3>1, StockFollows
    <3> DEFINE to == next.status
    <3>3. to \in OrderStatus /\ to # "preparing"
      BY <3>1 DEF OrderStatus
    <3>4. order'[o].status = to /\ order'[o].started = order[o].started
      BY <1>3, <2>2
    <3> HIDE DEF to
    <3>5. Moved(o, to)
      <4>1. Edge(order[o].status, to)
        BY <3>1 DEF to
      <4>2. to \in Off => ledger'[o] = ReverseSale(o, ledger[o], order[o].started)
        BY <3>2 DEF to
      <4>3. to \notin Off => ledger'[o] = ledger[o]
        BY <3>2 DEF to
      <4>4. order'[o].started = (order[o].started \/ to = "preparing")
        BY <1>1, <3>3, <3>4 DEF OrderRow
      <4>5. QED
        BY <1>4, <3>3, <3>4, <4>1, <4>2, <4>3, <4>4 DEF Moved
    <3>6. QED
      BY <1>1, <1>4, <2>1, <3>3, <3>5, OneMoves, LeftAdvances
  <2>5. QED
    BY <2>3, <2>4
<1>6. CASE ~Accepts(pay.status, s)
  BY <1>4, <1>6, NothingMoves, LeftAdvances DEF ApplyStatus
<1>7. QED
  BY <1>5, <1>6

LEMMA PaymentReads ==
  ASSUME Sound, NEW r \in Requests, NEW o \in Orders,
         \/ \E m \in OnlineMethods : CreateRead(r, o, m)
         \/ PreferenceRead(r, o)
         \/ SwitchRead(r, o)
         \/ PollRead(r, o)
         \/ \E how \in {"manual", "cash", "pay_on_delivery"} : ApproveRead(r, o, how)
         \/ \E op \in {"cancel_call", "refund_call"} : OperateRead(r, o, op)
  PROVE  Advances(r) /\ OrdersMove
<1> DEFINE payable(op) ==
             op \in {"create_call", "preference", "switch_to_pay_on_delivery"} =>
               order[o].status \in Payable
           reads(q) == Enter(r, q) /\ UNCHANGED <<order, payment, ledger, units>>
<1>1. ASSUME NEW op \in {"create_call", "preference", "switch_to_pay_on_delivery",
                        "status_poll", "approve", "cancel_call", "refund_call"},
             NEW q, reads(q), payable(op),
             q.op = op, q.o = o, q.ord = order[o], q.pay = payment[o]
      PROVE  Advances(r) /\ OrdersMove
  <2>1. Asked(q)
    BY <1>1 DEF Asked
  <2>2. QED
    BY <1>1, <2>1, ReadAdvances
<1>2. ASSUME NEW m \in OnlineMethods, CreateRead(r, o, m)
      PROVE  Advances(r) /\ OrdersMove
  <2> DEFINE q == [Loaded("create_call", o) EXCEPT !.method = m]
  <2>1. reads(q) /\ payable("create_call")
    BY <1>2 DEF CreateRead
  <2>2. q.op = "create_call" /\ q.o = o /\ q.ord = order[o] /\ q.pay = payment[o]
    BY DEF Loaded
  <2>3. QED
    BY <1>1, <2>1, <2>2
<1>3. ASSUME PollRead(r, o)
      PROVE  Advances(r) /\ OrdersMove
  <2> DEFINE q == [Loaded("status_poll", o) EXCEPT !.charge = ChargeOf(payment[o])]
  <2>1. reads(q) /\ payable("status_poll")
    BY <1>3 DEF PollRead
  <2>2. q.op = "status_poll" /\ q.o = o /\ q.ord = order[o] /\ q.pay = payment[o]
    BY DEF Loaded
  <2>3. QED
    BY <1>1, <2>1, <2>2
<1>4. ASSUME NEW op \in {"cancel_call", "refund_call"}, OperateRead(r, o, op)
      PROVE  Advances(r) /\ OrdersMove
  <2> DEFINE q == [Loaded(op, o) EXCEPT !.charge = payment[o].remote]
  <2>1. reads(q) /\ payable(op)
    BY <1>4 DEF OperateRead
  <2>2. q.op = op /\ q.o = o /\ q.ord = order[o] /\ q.pay = payment[o]
    BY DEF Loaded
  <2>3. QED
    BY <1>1, <2>1, <2>2
<1>5. ASSUME \/ PreferenceRead(r, o)
             \/ SwitchRead(r, o)
             \/ \E how \in {"manual", "cash", "pay_on_delivery"} : ApproveRead(r, o, how)
      PROVE  Advances(r) /\ OrdersMove
  <2>1. PICK op \in {"preference", "switch_to_pay_on_delivery", "approve"} :
          reads(Loaded(op, o)) /\ payable(op)
    BY <1>5 DEF PreferenceRead, SwitchRead, ApproveRead
  <2>2. /\ Loaded(op, o).op = op /\ Loaded(op, o).o = o /\ Loaded(op, o).ord = order[o]
        /\ Loaded(op, o).pay = payment[o]
    BY DEF Loaded
  <2>3. QED
    BY <1>1, <2>1, <2>2
<1>6. QED
  BY <1>2, <1>3, <1>4, <1>5

\* A request that goes on with the snapshot it has.
LEMMA GoesOnFresh ==
  ASSUME Sound, NEW r \in Requests, req[r] \in Request, Fresh(req[r]), Asked(req[r]), NEW q,
         req[r].op \in Ops \ Later,
         Enter(r, q), UNCHANGED <<order, payment, ledger, units>>,
         q.o = req[r].o, q.ord = req[r].ord, q.pay = req[r].pay,
         \/ q.op \in {"status_poll", "operate_commit"}
         \/ /\ q.op \in {"create_charge", "create_commit"}
            /\ req[r].op \in {"create_call", "create_charge"},
         q.op = "create_commit" => q.got \in {"pending", "rejected", "cancelled", "expired"}
  PROVE  Advances(r) /\ OrdersMove
<1>1. Asked(q)
  BY DEF Asked
<1>2. q.ord = order[q.o] /\ q.pay = payment[q.o]
  BY DEF Fresh
<1>3. QED
  BY <1>1, <1>2, ReadAdvances

LEMMA CallsMove ==
  ASSUME Sound, FreshInv, NEW r \in Requests,
         \/ \E c \in Charges : CreateReuse(r, c)
         \/ CreateMiss(r)
         \/ \E c \in Charges, s \in ChargeStatus : CreateCharge(r, c, s)
         \/ PollAnswer(r)
         \/ \E s \in ChargeStatus : OperateRemote(r, s)
  PROVE  Advances(r) /\ OrdersMove
<1> DEFINE q == req[r]
<1>1. q.op \in {"create_call", "create_charge", "status_poll", "refund_call", "cancel_call"}
  BY DEF CreateReuse, CreateMiss, CreateCharge, PollAnswer, OperateRemote, Runs
<1>2. q \in Request /\ Fresh(q) /\ Asked(q)
  BY <1>1, Running DEF FreshInv, Free, Idle, Ops, Runs
<1>3. q.op \in Ops \ Later
  BY <1>1 DEF Ops, Later
<1>4. PICK p : /\ Enter(r, p) /\ UNCHANGED <<order, payment, ledger, units>>
               /\ p.o = q.o /\ p.ord \in {q.ord, order[q.o]} /\ p.pay = q.pay
               /\ \/ p.op \in {"status_poll", "operate_commit"}
                  \/ /\ p.op \in {"create_charge", "create_commit"}
                     /\ q.op \in {"create_call", "create_charge"}
               /\ p.op = "create_commit" =>
                    p.got \in {"pending", "rejected", "cancelled", "expired"}
  <2>1. ASSUME NEW c, NEW s, Answered(r, c, s), UNCHANGED <<order, payment, ledger, units>>,
               q.op \in {"create_call", "create_charge"}
        PROVE  \E p : /\ Enter(r, p) /\ p.o = q.o /\ p.ord = q.ord /\ p.pay = q.pay
                      /\ p.op = "create_commit"
                      /\ p.got \in {"pending", "rejected", "cancelled", "expired"}
    <3> DEFINE p == [q EXCEPT !.op = "create_commit", !.charge = c,
                              !.got = CreateAnswer(GatewayOf[q.method], q.method, s)]
    <3>1. Enter(r, p)
      BY <2>1 DEF Answered
    <3>2. /\ p.o = q.o /\ p.ord = q.ord /\ p.pay = q.pay /\ p.op = "create_commit"
          /\ p.got = CreateAnswer(GatewayOf[q.method], q.method, s)
      BY <1>2 DEF Request
    <3>3. p.got \in {"pending", "rejected", "cancelled", "expired"}
      BY <3>2 DEF CreateAnswer
    <3>4. QED
      BY <3>1, <3>2, <3>3
  <2>2. CASE \E c \in Charges : CreateReuse(r, c)
    BY <2>1, <2>2 DEF CreateReuse, Runs
  <2>3. CASE \E c \in Charges, s \in ChargeStatus : CreateCharge(r, c, s)
    BY <2>1, <2>3 DEF CreateCharge, Runs
  <2>4. CASE CreateMiss(r)
    <3> DEFINE p == [q EXCEPT !.op = "create_charge"]
    <3>1. p.o = q.o /\ p.ord = q.ord /\ p.pay = q.pay /\ p.op = "create_charge"
      BY <1>2 DEF Request
    <3>2. QED
      BY <2>4, <3>1 DEF CreateMiss, Runs
  <2>5. CASE PollAnswer(r)
    <3> DEFINE p == [q EXCEPT !.got =
                       Answer(charge[q.charge].gateway, charge[q.charge].status, "none")]
    <3>1. p.o = q.o /\ p.ord = q.ord /\ p.pay = q.pay /\ p.op = q.op
      BY <1>2 DEF Request
    <3>2. QED
      BY <2>5, <3>1 DEF PollAnswer, Runs
  <2>6. ASSUME NEW s \in ChargeStatus, OperateRemote(r, s)
        PROVE  \E p : /\ Enter(r, p) /\ UNCHANGED <<order, payment, ledger, units>>
                      /\ p.o = q.o /\ p.ord = order[q.o] /\ p.pay = q.pay
                      /\ p.op = "operate_commit"
    <3> DEFINE p == [q EXCEPT !.op = "operate_commit", !.ord = order[q.o], !.got = s]
    <3>1. p.o = q.o /\ p.ord = order[q.o] /\ p.pay = q.pay /\ p.op = "operate_commit"
      BY <1>2 DEF Request
    <3>2. QED
      BY <2>6, <3>1 DEF OperateRemote
  <2>7. QED
    BY <2>2, <2>3, <2>4, <2>5, <2>6
<1>5. p.ord = q.ord
  BY <1>2, <1>3, <1>4 DEF Fresh
<1>6. QED
  BY <1>2, <1>3, <1>4, <1>5, GoesOnFresh

LEMMA WebhookMoves ==
  ASSUME Sound, NEW r \in Requests,
         (\E n \in Notice : WebhookFetch(r, n)) \/ WebhookLoad(r)
  PROVE  Advances(r) /\ OrdersMove
<1>1. ASSUME NEW n \in Notice, WebhookFetch(r, n)
      PROVE  Advances(r) /\ OrdersMove
  <2> DEFINE c == n[1]
             q == [Continued("webhook_call", charge[c].order, "none") EXCEPT
                     !.event = n, !.charge = c,
                     !.got = Answer(charge[c].gateway, charge[c].status, n[2])]
  <2>1. q.op = "webhook_call"
    BY DEF Continued
  <2>2. Asked(q)
    BY <2>1 DEF Asked
  <2>3. Enter(r, q) /\ UNCHANGED <<order, payment, ledger, units>>
    BY <1>1 DEF WebhookFetch
  <2>4. QED
    BY <2>1, <2>2, <2>3, ReadAdvances DEF Later
<1>2. ASSUME WebhookLoad(r) PROVE Advances(r) /\ OrdersMove
  <2> DEFINE q == req[r]
             p == [q EXCEPT !.op = "webhook", !.ord = order[q.o], !.pay = payment[q.o]]
  <2>1. q \in Request
    BY <1>2, Running DEF WebhookLoad, Ops
  <2>2. p.op = "webhook" /\ p.o = q.o /\ p.ord = order[q.o] /\ p.pay = payment[q.o]
    BY <2>1 DEF Request
  <2>3. Asked(p)
    BY <2>2 DEF Asked
  <2>4. /\ Enter(r, p) \/ Leave(r)
        /\ UNCHANGED <<order, payment, ledger, units>>
    BY <1>2 DEF WebhookLoad
  <2>5. Enter(r, p) => Advances(r) /\ OrdersMove
    BY <2>2, <2>3, <2>4, ReadAdvances
  <2>6. Leave(r) => Advances(r) /\ OrdersMove
    BY <2>4, LeftAdvances, NothingMoves
  <2>7. QED
    BY <2>4, <2>5, <2>6
<1>3. QED
  BY <1>1, <1>2

LEMMA SwitchMoves ==
  ASSUME Sound, FreshInv, NEW r \in Requests, SwitchCommit(r)
  PROVE  Advances(r) /\ OrdersMove
<1> DEFINE q   == req[r]
           o   == q.o
           row == [q.ord EXCEPT !.status = "paid"]
<1>1. q \in Request /\ q.op = "switch_to_pay_on_delivery" /\ Fresh(q) /\ Asked(q)
  BY Running DEF SwitchCommit, FreshInv, Free, Idle, Ops, Runs
<1>2. /\ o \in Orders /\ q.ord = order[o] /\ order[o] \in OrderRow
      /\ order \in [Orders -> OrderRow] /\ order[o].status \in Payable
  BY <1>1 DEF Request, Fresh, Asked, Later, Sound, TypeOK, StoreTypeOK
<1>3. row \in OrderRow /\ row.status = "paid" /\ row.started = order[o].started
  BY <1>2 DEF OrderRow, OrderStatus
<1>4. /\ order' = [order EXCEPT ![o] = SaveOrder(@, q.ord, row)]
      /\ Leave(r) /\ UNCHANGED <<ledger, units>>
  BY DEF SwitchCommit
<1>5. order'[o] = row
  BY <1>2, <1>3, <1>4, SavedFresh
<1>6. order'[o].started = (order[o].started \/ "paid" = "preparing")
  BY <1>2, <1>3, <1>5 DEF OrderRow
<1>7. Moved(o, "paid") /\ "paid" \in OrderStatus
  BY <1>2, <1>3, <1>4, <1>5, <1>6 DEF Moved, Edge, Off, OrderStatus
<1>8. QED
  BY <1>2, <1>4, <1>7, OneMoves, LeftAdvances

LEMMA PaymentCommits ==
  ASSUME Sound, SerialInv, GatewayAssumption, StoreAssumption, NEW r \in Requests,
         \/ CreateCommit(r) \/ WebhookCommit(r) \/ PollCommit(r) \/ ApproveCommit(r)
         \/ OperateCommit(r)
  PROVE  Advances(r) /\ OrdersMove
<1> DEFINE q == req[r]
<1>1. PICK op \in {"create_commit", "webhook", "status_poll", "approve", "operate_commit"} :
        Runs(r, op)
  BY DEF CreateCommit, WebhookCommit, PollCommit, ApproveCommit, OperateCommit
<1>2. q \in Request /\ RequestOK(q) /\ q.op = op /\ Fresh(q)
  BY <1>1, Running DEF Runs, SerialInv, FreshInv, Free, Idle, Ops
<1>3. /\ q.o \in Orders /\ q.ord = order[q.o] /\ q.pay \in PaymentRow /\ Shape(q.o)
      /\ q.charge \in Charges \cup {NoCharge}
  BY <1>1, <1>2 DEF Request, Fresh, Later, SerialInv
<1>4. {"system", "admin"} \subseteq Actors /\ "approved" \in PaymentStatus
  BY DEF Actors, PaymentStatus
<1>5. CASE CreateCommit(r)
  <2> DEFINE pay == Attempt(q.pay, q.method, q.charge)
  <2>1. q.method \in OnlineMethods /\ q.charge \in Charges /\ q.got \in PaymentStatus
    BY <1>2, <1>3, <1>5 DEF CreateCommit, Runs, RequestOK
  <2>2. pay \in PaymentRow
    BY <1>3, <2>1, AttemptType
  <2>3. CASE q.got # "pending"
    BY <1>2, <1>3, <1>4, <1>5, <2>1, <2>2, <2>3, ApplyMoves DEF CreateCommit
  <2>4. CASE q.got = "pending"
    BY <1>5, <2>4, NothingMoves, LeftAdvances DEF CreateCommit
  <2>5. QED
    BY <2>3, <2>4
<1>6. CASE WebhookCommit(r)
  <2> DEFINE pay == Adopt(charge[q.charge].gateway, q.pay, q.charge)
  <2>1. q.got \in PaymentStatus /\ q.charge \in Charges /\ Owned(q.o, q.charge)
        /\ q.charge # NoCharge
    BY <1>2, <1>3, <1>6 DEF WebhookCommit, Runs, RequestOK
  <2>2. charge[q.charge] \in ChargeRow
    BY <2>1 DEF Owned, Sound, TypeOK, GatewayTypeOK
  <2>3. pay \in PaymentRow
    BY <1>3, <2>2, AdoptType DEF ChargeRow
  <2>4. QED
    BY <1>2, <1>3, <1>4, <1>6, <2>1, <2>3, ApplyMoves DEF WebhookCommit
<1>7. CASE PollCommit(r)
  <2> DEFINE pay == Adopt(q.pay.provider, q.pay, q.charge)
  <2>1. q.got \in PaymentStatus /\ q.pay.provider \in Gateways
    BY <1>2, <1>7 DEF PollCommit, Runs, RequestOK, Request
  <2>2. pay \in PaymentRow
    BY <1>3, <2>1, AdoptType
  <2>3. QED
    BY <1>2, <1>3, <1>4, <1>7, <2>1, <2>2, ApplyMoves DEF PollCommit
<1>8. CASE ApproveCommit(r)
  BY <1>2, <1>3, <1>4, <1>8, ApplyMoves DEF ApproveCommit
<1>9. CASE OperateCommit(r)
  <2>1. q.got \in PaymentStatus
    BY <1>2, <1>9 DEF OperateCommit, Runs, RequestOK
  <2>2. QED
    BY <1>2, <1>3, <1>4, <1>9, <2>1, ApplyMoves DEF OperateCommit
<1>10. QED
  BY <1>5, <1>6, <1>7, <1>8, <1>9

LEMMA PaymentRequestMoves ==
  ASSUME Sound, SerialInv, GatewayAssumption, StoreAssumption, NEW r \in Requests,
         PaymentRequest(r)
  PROVE  Advances(r) /\ OrdersMove
<1>1. FreshInv
  BY DEF SerialInv
<1>2. CASE \E o \in Orders :
             \/ \E m \in OnlineMethods : CreateRead(r, o, m)
             \/ PreferenceRead(r, o)
             \/ SwitchRead(r, o)
             \/ PollRead(r, o)
             \/ \E how \in {"manual", "cash", "pay_on_delivery"} : ApproveRead(r, o, how)
             \/ \E op \in {"cancel_call", "refund_call"} : OperateRead(r, o, op)
  BY <1>2, PaymentReads
<1>3. CASE \/ \E c \in Charges : CreateReuse(r, c)
           \/ CreateMiss(r)
           \/ \E c \in Charges, s \in ChargeStatus : CreateCharge(r, c, s)
           \/ PollAnswer(r)
           \/ \E s \in ChargeStatus : OperateRemote(r, s)
  BY <1>1, <1>3, CallsMove
<1>4. CASE (\E n \in Notice : WebhookFetch(r, n)) \/ WebhookLoad(r)
  BY <1>4, WebhookMoves
<1>5. CASE SwitchCommit(r)
  BY <1>1, <1>5, SwitchMoves
<1>6. CASE \/ CreateCommit(r) \/ WebhookCommit(r) \/ PollCommit(r) \/ ApproveCommit(r)
           \/ OperateCommit(r)
  BY <1>6, PaymentCommits
<1>7. CASE PreferenceCommit(r) \/ Abort(r)
  BY <1>7, NothingMoves, LeftAdvances DEF PreferenceCommit, Abort
<1>8. QED
  BY <1>2, <1>3, <1>4, <1>5, <1>6, <1>7 DEF PaymentRequest

-----------------------------------------------------------------------------
(* The orders follow their lifecycle.                                      *)

LEMMA StepMoves ==
  ASSUME Sound, SerialInv, StoreAssumption, AdminAssumption, GatewayAssumption, [Next]_vars
  PROVE  OrdersMove /\ (UNCHANGED req \/ \E r \in Requests : Advances(r))
<1>1. ASSUME NEW o \in Orders, Kitchen(o) \/ Creation(o) PROVE OrdersMove /\ UNCHANGED req
  BY <1>1, KitchenMoves, CreationMoves
<1>2. ASSUME NEW r \in Requests, OrderRequest(r) PROVE Advances(r) /\ OrdersMove
  BY <1>2, OrderRequestMoves DEF SerialInv
<1>3. ASSUME NEW r \in Requests, PaymentRequest(r) PROVE Advances(r) /\ OrdersMove
  BY <1>3, PaymentRequestMoves
<1>4. ASSUME NEW c \in Charges, NEW s \in ChargeStatus,
             GatewayMove(c, s) \/ \E o \in Orders : PayLink(c, o, s)
      PROVE  OrdersMove /\ UNCHANGED req
  BY <1>4, NothingMoves DEF GatewayMove, PayLink, storeVars
<1>5. UNCHANGED vars => OrdersMove /\ UNCHANGED req
  BY NothingMoves DEF vars, storeVars
<1>6. QED
  BY <1>1, <1>2, <1>3, <1>4, <1>5 DEF Next

LEMMA StepSerial ==
  ASSUME Sound, SerialInv, StoreAssumption, AdminAssumption, GatewayAssumption, [Next]_vars,
         Undisturbed
  PROVE  SerialInv'
<1>1. OrdersMove /\ (UNCHANGED req \/ \E r \in Requests : Advances(r))
  BY StepMoves
<1>2. ASSUME NEW o \in Orders PROVE Shape(o)'
  <2>1. Shape(o) /\ TypeOK
    BY DEF SerialInv, Sound
  <2>2. Kept(o) \/ \E to \in OrderStatus : Moved(o, to)
    BY <1>1 DEF OrdersMove
  <2>3. QED
    BY <2>1, <2>2, KeptShape, MovedShape
<1>3. ASSUME NEW x \in Requests, ~Free(x)' PROVE (Fresh(req[x]) /\ Asked(req[x]))'
  <2>1. CASE req'[x] = req[x]
    <3>1. ~Free(x)
      BY <1>3, <2>1 DEF Free
    <3>2. Fresh(req[x]) /\ Asked(req[x])
      BY <3>1 DEF SerialInv, FreshInv
    <3>3. order'[req[x].o] = order[req[x].o] /\ payment'[req[x].o] = payment[req[x].o]
      BY <2>1, <3>1 DEF Undisturbed
    <3>4. QED
      BY <2>1, <3>2, <3>3 DEF Fresh, Asked
  <2>2. CASE req'[x] # req[x]
    <3>1. PICK r \in Requests : Advances(r)
      BY <1>1, <2>2
    <3>2. x = r /\ req'[x] # Idle
      BY <1>3, <2>2, <3>1 DEF Advances, Free
    <3>3. QED
      BY <3>1, <3>2 DEF Advances
  <2>3. QED
    BY <2>1, <2>2
<1>4. QED
  BY <1>2, <1>3 DEF SerialInv, FreshInv

LEMMA InitSerial == Init => SerialInv
BY DEF Init, StoreInit, SerialInv, FreshInv, Free, Shape, NoOrder, Off, Missing

\* Snapshots stay fresh and the rows of an order, its stock movements and its
\* production units stay in step with each other.
THEOREM SerialSound == Spec /\ [][Undisturbed]_vars => []SerialInv
<1>1. StoreAssumption /\ AdminAssumption /\ GatewayAssumption
  BY StoreAssumption, AdminAssumption, GatewayAssumption
<1>2. Sound /\ SerialInv /\ [Next]_vars /\ [Undisturbed]_vars => SerialInv'
  <2> SUFFICES ASSUME Sound, SerialInv, [Next]_vars, [Undisturbed]_vars PROVE SerialInv'
    OBVIOUS
  <2>1. CASE Undisturbed
    BY <1>1, <2>1, StepSerial
  <2>2. CASE UNCHANGED vars
    BY <2>2 DEF vars, storeVars, SerialInv, FreshInv, Free, Fresh, Asked, Shape
  <2>3. QED
    BY <2>1, <2>2
<1>3. QED
  BY <1>2, InitSerial, AlwaysSound, PTL DEF Spec

stageMap == [o \in Orders |-> StageOf[order[o].status]]
shelfMap == [o \in Orders |-> ShelfOf(ledger[o])]

LEMMA Stages ==
  /\ StageOf[Missing] = "none"
  /\ \A s \in Payable : StageOf[s] = "awaiting"
  /\ StageOf["paid"] = "accepted" /\ StageOf["pago"] = "accepted"
  /\ StageOf["preparing"] = "kitchen" /\ StageOf["ready_for_pickup"] = "ready"
  /\ StageOf["on_the_way"] = "out" /\ StageOf["delivered"] = "done"
  /\ StageOf["cancelled"] = "off" /\ StageOf["refunded"] = "off"
BY DEF StageOf, Missing, Payable

\* What becomes of the stock along an edge, as the lifecycle sees it.
LEMMA MovedShelf ==
  ASSUME NEW o \in Orders, TypeOK, Shape(o), NEW to, Moved(o, to)
  PROVE  /\ to = "preparing" =>
              \/ shelfMap'[o] = shelfMap[o]
              \/ shelfMap'[o] = "taken" /\ order[o].status # "ready_for_pickup"
         /\ to \in Off =>
              shelfMap'[o] = IF shelfMap[o] = "taken" THEN "lost" ELSE shelfMap[o]
         /\ to \notin Off \cup {"preparing"} => shelfMap'[o] = shelfMap[o]
<1>1. /\ ledger[o] \in LedgerRow /\ order[o] \in OrderRow
      /\ order[o].started \in BOOLEAN
  BY DEF TypeOK, StoreTypeOK, OrderRow
<1>2. order[o].status \notin Off
  BY DEF Moved, Edge, Off, Missing, Payable
<1>3. /\ ledger[o].sale \in {0, 1} /\ ledger[o].loss = 0 /\ ledger[o].reversal = 0
      /\ ledger[o].sale = 1 => order[o].started
  BY <1>2 DEF Shape
<1>4. shelfMap[o] = ShelfOf(ledger[o]) /\ shelfMap'[o] = ShelfOf(ledger'[o])
  BY DEF shelfMap, ShelfOf
<1>5. CASE to = "preparing"
  <2>1. CASE ledger'[o] = ledger[o]
    BY <1>4, <1>5, <2>1 DEF Off
  <2>2. CASE /\ ledger'[o] = ConsumeSale(o, "preparing")
             /\ order[o].status # "ready_for_pickup" /\ ledger'[o] # ledger[o]
    <3>1. units[o] = "none" /\ ledger[o].sale = 0
      BY <2>2 DEF ConsumeSale, Deducts
    <3>2. ledger'[o].sale = 1 /\ ledger'[o].loss = 0 /\ ledger'[o].reversal = 0
      BY <1>1, <1>3, <2>2, <3>1, ConsumedEntry
    <3>3. ShelfOf(ledger'[o]) = "taken"
      BY <3>2 DEF ShelfOf
    <3>4. QED
      BY <1>4, <1>5, <2>2, <3>3 DEF Off
  <2>3. QED
    BY <1>5, <2>1, <2>2 DEF Moved
<1>6. CASE to \in Off
  <2>1. ledger'[o] = ReverseSale(o, ledger[o], order[o].started)
    BY <1>6 DEF Moved, Off
  <2>2. ledger'[o].sale = ledger[o].sale /\ ledger'[o].reversal = 0
        /\ ledger'[o].loss = ledger[o].sale
    BY <1>1, <1>3, <2>1, ReversedEntry
  <2>3. ShelfOf(ledger'[o]) = IF ShelfOf(ledger[o]) = "taken" THEN "lost" ELSE ShelfOf(ledger[o])
    BY <1>3, <2>2 DEF ShelfOf
  <2>4. QED
    BY <1>4, <1>6, <2>3 DEF Off
<1>7. CASE to \notin Off \cup {"preparing"}
  BY <1>4, <1>7 DEF Moved, Off
<1>8. QED
  BY <1>5, <1>6, <1>7

\* Every step is a step of the lifecycle or leaves what it sees alone.
LEMMA LifecycleStep ==
  ASSUME TypeOK, \A o \in Orders : Shape(o), OrdersMove
  PROVE  Lifecycle!Next \/ UNCHANGED <<stageMap, shelfMap>>
<1> DEFINE same(x) == stageMap'[x] = stageMap[x] /\ shelfMap'[x] = shelfMap[x]
<1>1. \A x \in Orders : Kept(x) => same(x)
  BY DEF Kept, stageMap, shelfMap
<1>2. CASE \A o \in Orders : Kept(o)
  <2>1. \A x \in Orders : same(x)
    BY <1>1, <1>2
  <2>2. stageMap' = stageMap /\ shelfMap' = shelfMap
    BY <2>1 DEF stageMap, shelfMap
  <2>3. QED
    BY <2>2
<1>3. ASSUME NEW o \in Orders, NEW to \in OrderStatus, Moved(o, to),
             \A x \in Orders : x # o => Kept(x)
      PROVE  Lifecycle!Next \/ UNCHANGED <<stageMap, shelfMap>>
  <2> DEFINE from == order[o].status
             goes == StageOf[to]
             left == shelfMap'[o]
  <2>1. \A x \in Orders : x # o => same(x)
    BY <1>1, <1>3
  <2>2. Edge(from, to) /\ order'[o].status = to
    BY <1>3 DEF Moved
  <2>3. stageMap[o] = StageOf[from] /\ stageMap'[o] = goes
    BY <2>2 DEF stageMap
  <2>4. stageMap' = [stageMap EXCEPT ![o] = goes]
    BY <2>1, <2>3 DEF stageMap
  <2>5. /\ shelfMap' = [shelfMap EXCEPT ![o] = left]
        /\ left = shelfMap[o] => shelfMap' = shelfMap
    BY <2>1 DEF shelfMap
  <2>6. /\ to = "preparing" =>
              left = shelfMap[o] \/ (left = "taken" /\ from # "ready_for_pickup")
        /\ to \in Off => left = IF shelfMap[o] = "taken" THEN "lost" ELSE shelfMap[o]
        /\ to \notin Off \cup {"preparing"} => left = shelfMap[o]
    BY <1>3, MovedShelf
  <2> USE DEF Lifecycle!Next, Lifecycle!Move
  <2>7. CASE to \in Payable
    <3>1. goes = "awaiting" /\ stageMap[o] \in {"none", "awaiting"}
      BY <2>2, <2>3, <2>7, Stages DEF Edge, Payable, Missing
    <3>2. shelfMap' = shelfMap
      BY <2>5, <2>6, <2>7 DEF Off, Payable
    <3>3. stageMap[o] = "awaiting" => stageMap' = stageMap
      BY <2>4, <3>1 DEF stageMap
    <3>4. QED
      BY <2>4, <3>1, <3>2, <3>3 DEF Lifecycle!Open, stageMap, shelfMap
  <2>8. CASE to \in {"paid", "pago"}
    <3>1. goes = "accepted" /\ stageMap[o] \in {"none", "awaiting"}
      BY <2>2, <2>3, <2>8, Stages DEF Edge, Payable, Missing
    <3>2. shelfMap' = shelfMap
      BY <2>5, <2>6, <2>8 DEF Off
    <3>3. QED
      BY <2>4, <3>1, <3>2 DEF Lifecycle!Open, Lifecycle!Accept, stageMap, shelfMap
  <2>9. CASE to = "preparing" /\ from = "ready_for_pickup"
    <3>1. goes = "kitchen" /\ stageMap[o] = "ready" /\ shelfMap' = shelfMap
      BY <2>3, <2>5, <2>6, <2>9, Stages
    <3>2. QED
      BY <2>4, <3>1 DEF Lifecycle!Return, stageMap, shelfMap
  <2>10. CASE to = "preparing" /\ from # "ready_for_pickup"
    <3>1. goes = "kitchen" /\ stageMap[o] \in {"none", "awaiting", "accepted"}
      BY <2>2, <2>3, <2>10, Stages DEF Edge, Payable, Missing
    <3>2. shelfMap' \in {shelfMap, [shelfMap EXCEPT ![o] = "taken"]}
      BY <2>5, <2>6, <2>10
    <3>3. QED
      BY <2>4, <3>1, <3>2 DEF Lifecycle!Cook, stageMap, shelfMap
  <2>11. CASE to \in {"ready_for_pickup", "on_the_way", "delivered"}
    <3>1. \/ to = "ready_for_pickup" /\ from = "preparing"
          \/ to = "on_the_way" /\ from \in {"preparing", "ready_for_pickup"}
          \/ to = "delivered" /\ from \in {"ready_for_pickup", "on_the_way"}
      BY <2>2, <2>11 DEF Edge, Payable, Missing
    <3>2. \/ goes = "ready" /\ stageMap[o] = "kitchen"
          \/ goes = "out" /\ stageMap[o] \in {"kitchen", "ready"}
          \/ goes = "done" /\ stageMap[o] \in {"ready", "out"}
      BY <2>3, <3>1, Stages
    <3>3. shelfMap' = shelfMap
      BY <2>5, <2>6, <2>11 DEF Off
    <3>4. QED
      BY <2>4, <3>2, <3>3
      DEF Lifecycle!Finish, Lifecycle!Dispatch, Lifecycle!HandOver, stageMap, shelfMap
  <2>12. CASE to \in Off
    <3>1. from \in Payable \cup {"paid", "pago", "preparing", "ready_for_pickup", "on_the_way"}
      BY <2>2, <2>12 DEF Edge, Payable, Missing, Off
    <3>2. goes = "off" /\ stageMap[o] \in {"awaiting", "accepted", "kitchen", "ready", "out"}
      BY <2>3, <2>12, <3>1, Stages DEF Off
    <3>3. shelfMap' = [shelfMap EXCEPT ![o] = IF @ = "taken" THEN "lost" ELSE @]
      BY <2>5, <2>6, <2>12
    <3>4. QED
      BY <2>4, <3>2, <3>3
      DEF Lifecycle!Drop, Lifecycle!Stages, Lifecycle!Over, stageMap, shelfMap
  <2>13. QED
    BY <2>2, <2>7, <2>8, <2>9, <2>10, <2>11, <2>12 DEF Edge, Payable, Off
<1>4. QED
  BY <1>2, <1>3 DEF OrdersMove

LEMMA LifecycleInit == Init => Lifecycle!Init
BY Stages DEF Init, StoreInit, NoOrder, Lifecycle!Init, ShelfOf

\* Orders and their stock movements keep the promise of OrderLifecycle through
\* every handler, two-commit operation and crash, whatever the kitchen, the staff,
\* the customers and the gateways do, as long as no two of them overwrite each other.
THEOREM LifecycleFollowed == Spec /\ [][Undisturbed]_vars => FollowsLifecycle
<1>1. StoreAssumption /\ AdminAssumption /\ GatewayAssumption
  BY StoreAssumption, AdminAssumption, GatewayAssumption
<1>2. Sound /\ SerialInv /\ [Next]_vars =>
        [Lifecycle!Next]_<<[o \in Orders |-> StageOf[order[o].status]],
                           [o \in Orders |-> ShelfOf(ledger[o])]>>
  <2> SUFFICES ASSUME Sound, SerialInv, [Next]_vars
      PROVE  Lifecycle!Next \/ UNCHANGED <<stageMap, shelfMap>>
    BY DEF stageMap, shelfMap
  <2>1. OrdersMove
    BY <1>1, StepMoves
  <2>2. QED
    BY <2>1, LifecycleStep DEF Sound, SerialInv
<1>3. QED
  BY <1>2, LifecycleInit, AlwaysSound, SerialSound, PTL
  DEF Spec, FollowsLifecycle, Lifecycle!Spec

-----------------------------------------------------------------------------
(* The points of an order.                                                 *)

AwardInv ==
  /\ \A r \in Requests : Runs(r, "award_points") => points[req[r].o] = 0
  /\ \A r, s \in Requests :
       (Runs(r, "award_points") /\ Runs(s, "award_points") /\ req[r].o = req[s].o) => r = s
  /\ PointsOnce

\* Nothing but award_points_for_order writes points.
LEMMA PointsWritten ==
  ASSUME [Next]_vars
  PROVE  points' = points \/ \E r \in Requests : AwardPoints(r)
<1>1. ASSUME NEW o \in Orders, Kitchen(o) \/ Creation(o) PROVE points' = points
  BY <1>1 DEF Kitchen, KdsStartPreparation, KdsUnitsReady, KdsRemake, KdsMarkReady,
     KdsReturnToKitchen, KdsServeDineIn, Creation, CreateFromCheckout, CreateFromTableSession
<1>2. ASSUME NEW r \in Requests, OrderRequest(r) PROVE points' = points \/ AwardPoints(r)
  BY <1>2 DEF OrderRequest, ChangeStatusRead, ChangeStatusCommit, CommitStatus, StockRefusal,
     CancelRead, CancelCommit, RecordCancel, ArchiveRead, ArchiveCancel, ArchiveMark,
     KdsCompletePickup, ConfirmTableRead, ConfirmTableCommit, ServeTableRead, ServeTableCommit
<1>3. ASSUME NEW r \in Requests, PaymentRequest(r) PROVE points' = points
  BY <1>3 DEF PaymentRequest, CreateRead, CreateReuse, CreateMiss, CreateCharge, CreateCommit,
     PreferenceRead, PreferenceCommit, SwitchRead, SwitchCommit, WebhookFetch, WebhookLoad,
     WebhookCommit, PollRead, PollAnswer, PollCommit, ApproveRead, ApproveCommit, OperateRead,
     OperateRemote, OperateCommit, Abort, ApplyStatus
<1>4. QED
  BY <1>1, <1>2, <1>3 DEF Next, GatewayMove, PayLink, vars, storeVars

LEMMA StepAwards ==
  ASSUME Sound, SerialInv, AwardInv, StoreAssumption, AdminAssumption, GatewayAssumption,
         [Next]_vars
  PROVE  AwardInv'
<1>0. req' \in [Requests -> Request \cup {Idle}]
  BY StepSound DEF Sound, TypeOK, StoreTypeOK
<1>1. OrdersMove /\ (UNCHANGED req \/ \E r \in Requests : Advances(r))
  BY StepMoves
<1>2. points \in [Orders -> Nat]
  BY DEF Sound, TypeOK, StoreTypeOK
\* Delivered is final, and a request that goes to award points found its order
\* not delivered yet: nobody had awarded any, and nobody else was about to.
<1>3. ASSUME NEW o \in Orders, order[o].status = "delivered"
      PROVE  order'[o].status = "delivered"
  BY <1>1, <1>3 DEF OrdersMove, Kept, Moved, Edge, Missing, Payable
<1>4. ASSUME NEW r \in Requests, Runs(r, "award_points")
      PROVE  req[r].o \in Orders /\ order[req[r].o].status = "delivered"
  BY <1>4, Running DEF SerialInv, FreshInv, Free, Idle, Runs, Fresh, Request, Ops
<1>5. ASSUME NEW r \in Requests, Runs(r, "award_points")'
      PROVE  \/ req'[r] = req[r] /\ Runs(r, "award_points")
             \/ /\ order[req'[r].o].status # "delivered"
                /\ \A x \in Requests : x # r => req'[x] = req[x]
  <2>1. CASE req'[r] = req[r]
    BY <1>5, <2>1 DEF Runs
  <2>2. CASE req'[r] # req[r]
    <3>1. PICK x \in Requests : Advances(x)
      BY <1>1, <2>2
    <3>2. x = r
      BY <2>2, <3>1 DEF Advances
    <3>3. QED
      BY <1>5, <3>1, <3>2 DEF Advances, Runs
  <2>3. QED
    BY <2>1, <2>2
<1>6. CASE points' = points
  <2>1. ASSUME NEW r \in Requests, Runs(r, "award_points")'
        PROVE  points'[req'[r].o] = 0
    <3>1. CASE req'[r] = req[r] /\ Runs(r, "award_points")
      BY <1>6, <3>1 DEF AwardInv
    <3>2. CASE order[req'[r].o].status # "delivered"
      <4>1. req'[r].o \in Orders
        BY <1>0, <2>1 DEF Runs, Idle, Request
      <4>2. QED
        BY <1>2, <1>6, <3>2, <4>1 DEF AwardInv, PointsOnce
    <3>3. QED
      BY <1>5, <2>1, <3>1, <3>2
  <2>2. ASSUME NEW r \in Requests, NEW s \in Requests,
               Runs(r, "award_points")', Runs(s, "award_points")', req'[r].o = req'[s].o
        PROVE  r = s
    BY <1>4, <1>5, <2>2 DEF AwardInv, Runs
  <2>3. PointsOnce'
    BY <1>3, <1>6 DEF AwardInv, PointsOnce
  <2>4. QED
    BY <2>1, <2>2, <2>3 DEF AwardInv
<1>7. ASSUME NEW r \in Requests, AwardPoints(r) PROVE AwardInv'
  <2> DEFINE o == req[r].o
  <2>1. /\ Runs(r, "award_points") /\ o \in Orders /\ order[o].status = "delivered"
        /\ points[o] = 0
    BY <1>4, <1>7 DEF AwardPoints, AwardInv
  <2>2. /\ points' = [points EXCEPT ![o] = Bump(@)] /\ order' = order
        /\ req'[r] = Idle /\ \A x \in Requests : x # r => req'[x] = req[x]
    BY <1>7, Entered DEF AwardPoints, Leave, Enter
  <2>3. Bump(0) = 1
    BY DEF Bump, StoreAssumption
  <2>4. points'[o] = 1 /\ \A x \in Orders : x # o => points'[x] = points[x]
    BY <1>2, <2>1, <2>2, <2>3
  <2>5. PointsOnce'
    BY <2>1, <2>2, <2>4 DEF AwardInv, PointsOnce
  <2>6. ASSUME NEW x \in Requests, Runs(x, "award_points")'
        PROVE  x # r /\ req'[x] = req[x] /\ Runs(x, "award_points") /\ req[x].o # o
    BY <2>1, <2>2, <2>6 DEF Runs, Idle, AwardInv
  <2>7. QED
    BY <1>4, <2>4, <2>5, <2>6 DEF AwardInv
<1>8. QED
  BY <1>6, <1>7, PointsWritten

\* A delivered order earns its points once, and no other order earns any.
THEOREM PointsAwardedOnce == Spec /\ [][Undisturbed]_vars => []PointsOnce
<1>1. StoreAssumption /\ AdminAssumption /\ GatewayAssumption
  BY StoreAssumption, AdminAssumption, GatewayAssumption
<1>2. Init => AwardInv
  BY DEF Init, StoreInit, AwardInv, PointsOnce, Runs, Idle
<1>3. Sound /\ SerialInv /\ AwardInv /\ [Next]_vars => AwardInv'
  BY <1>1, StepAwards
<1>4. AwardInv => PointsOnce
  BY DEF AwardInv
<1>5. QED
  BY <1>2, <1>3, <1>4, AlwaysSound, SerialSound, PTL DEF Spec

-----------------------------------------------------------------------------
(* How one step may move the payment of an order that nobody's hand puts   *)
(* in another status.                                                      *)

NoHandEdits == "change_status" \notin EnabledOps

Refusals == {"rejected", "cancelled", "expired"}

\* The payment stays as it is; the order may go on, or be cancelled.
OwnWay(o) ==
  /\ payment'[o].status = payment[o].status
  /\ payment[o].pod => payment'[o].pod
  /\ published'[o] = published[o]
  /\ order'[o].status \in Payable \cup {Missing} => order'[o].status = order[o].status
  /\ order'[o].status \in PaidFlow => order[o].status \in PaidFlow
  /\ order'[o].cancelledBy # order[o].cancelledBy => order'[o].status = "cancelled"

\* create and create_preference begin another attempt ...
Restarted(o) ==
  /\ order[o].status \in Payable /\ order'[o] = order[o]
  /\ payment'[o].status = "pending"
  /\ published'[o] = published[o]

\* ... and switch_to_pay_on_delivery gives the payment to the courier.
Switched(o) ==
  /\ order[o].status \in Payable
  /\ order'[o].status = "paid" /\ order'[o].cancelledBy = order[o].cancelledBy
  /\ payment'[o].status = "pending" /\ payment'[o].pod
  /\ published'[o] = published[o]

\* _apply_status takes a report, on the payment as it is or on an attempt that
\* create has just begun and the gateway refuses.
Reported(o) ==
  \E from \in PaymentStatus \cup {Missing}, s \in PaymentStatus \ {"paid"}, who \in Actors :
    /\ Accepts(from, s)
    /\ \/ from = payment[o].status /\ (payment[o].pod => payment'[o].pod)
       \/ from = "pending" /\ order[o].status \in Payable /\ s \in Refusals
    /\ payment'[o].status = s
    /\ order'[o] = OrderAfter(order[o], s, who)
    /\ published'[o] = PublishedAfter(published[o], from, s)

\* The cashier closes the bill of a table.
Confirmed(o) ==
  /\ "confirm_table" \in EnabledOps /\ Fulfillment[o] = "dine_in"
  /\ payment'[o].status \in {payment[o].status, "approved"}
  /\ payment[o].status # "pending" => payment'[o].status = payment[o].status
  /\ order'[o].status = order[o].status
  /\ order'[o].cancelledBy = order[o].cancelledBy

Opened(o) ==
  /\ order[o].status = Missing
  /\ order'[o].cancelledBy = "none"
  /\ payment'[o].status \in {"pending", "approved"}
  /\ \/ /\ order'[o].status = "aguardando_pagamento" /\ Fulfillment[o] # "dine_in"
        /\ payment'[o].status = "pending"
     \/ order'[o].status = "paid" /\ (payment'[o].status = "approved" \/ payment'[o].pod)
     \/ order'[o].status = "preparing" /\ Fulfillment[o] = "dine_in"
  /\ published'[o] = published[o]

PaymentMoves(o) ==
  OwnWay(o) \/ Restarted(o) \/ Switched(o) \/ Reported(o) \/ Confirmed(o) \/ Opened(o)

PaymentsMove == \A o \in Orders : PaymentMoves(o)

\* No gateway answers "paid": the word is the shop's own.
Says(q) == q # Idle => q.got # "paid"
Spoken == \A r \in Requests : Says(req[r])

LEMMA NoPaymentMoves ==
  ASSUME NEW o, order'[o] = order[o], payment'[o] = payment[o], published'[o] = published[o]
  PROVE  PaymentMoves(o)
BY DEF PaymentMoves, OwnWay

LEMMA PaymentsStay ==
  ASSUME UNCHANGED <<order, payment, published>>
  PROVE  PaymentsMove
BY NoPaymentMoves DEF PaymentsMove

LEMMA OnePaymentMoves ==
  ASSUME NEW o \in Orders, PaymentMoves(o),
         \A x \in Orders : x # o => /\ order'[x] = order[x] /\ payment'[x] = payment[x]
                                   /\ published'[x] = published[x]
  PROVE  PaymentsMove
BY NoPaymentMoves DEF PaymentsMove

LEMMA ReportMoves ==
  ASSUME Sound, NEW r \in Requests, req[r] \in Request,
         req[r].ord = order[req[r].o], req[r].pay = payment[req[r].o],
         NEW pay \in PaymentRow, NEW answer \in PaymentStatus \ {"paid"}, NEW who \in Actors,
         NEW commits,
         \/ pay.status = req[r].pay.status /\ pay.pod = req[r].pay.pod
         \/ /\ pay.status = "pending" /\ order[req[r].o].status \in Payable
            /\ answer \in Refusals /\ commits = FALSE,
         ApplyStatus(r, pay, req[r].ord, answer, who, commits)
  PROVE  PaymentsMove
<1> DEFINE o    == req[r].o
           s    == Settled(pay.status, answer)
           next == OrderAfter(order[o], s, who)
           row  == [pay EXCEPT !.status = s]
<1>1. /\ o \in Orders /\ order \in [Orders -> OrderRow] /\ order[o] \in OrderRow
      /\ payment \in [Orders -> PaymentRow] /\ payment[o] \in PaymentRow
      /\ published \in [Orders -> [confirmed : Nat, reversed : Nat]]
  BY DEF Request, Sound, TypeOK, StoreTypeOK
<1>2. s \in PaymentStatus \ {"paid"}
  BY SettledType DEF Settled
<1>3. next \in OrderRow /\ row \in PaymentRow /\ row.status = s /\ row.pod = pay.pod
  BY <1>1, <1>2, OrderAfterType DEF PaymentRow
<1>4. pay.status = "pending" => s = answer
  BY DEF Settled
<1>5. CASE Accepts(pay.status, s)
  <2>1. /\ payment' = [payment EXCEPT ![o] = SavePayment(@, payment[o], row)]
        /\ order' = [order EXCEPT ![o] = SaveOrder(@, order[o], next)]
        /\ published' = [published EXCEPT ![o] = PublishedAfter(@, pay.status, s)]
    BY <1>5 DEF ApplyStatus
  <2>2. /\ payment'[o] = row /\ order'[o] = next
        /\ published'[o] = PublishedAfter(published[o], pay.status, s)
    BY <1>1, <1>3, <2>1, SavedFresh, PaymentSavedFresh
  <2>3. pay.status \in PaymentStatus \cup {Missing}
    BY DEF PaymentRow
  <2>4. Reported(o)
    BY <1>2, <1>3, <1>4, <1>5, <2>2, <2>3 DEF Reported
  <2>5. QED
    BY <1>1, <2>1, <2>4, OnePaymentMoves DEF PaymentMoves
<1>6. CASE ~Accepts(pay.status, s)
  <2>1. /\ UNCHANGED <<order, published>>
        /\ \/ payment' = payment
           \/ commits # FALSE /\ payment' = [payment EXCEPT ![o] = SavePayment(@, payment[o], pay)]
    BY <1>6 DEF ApplyStatus
  <2>2. CASE payment' = payment
    BY <2>1, <2>2, PaymentsStay
  <2>3. CASE commits # FALSE /\ payment' = [payment EXCEPT ![o] = SavePayment(@, payment[o], pay)]
    <3>1. payment'[o] = pay
      BY <1>1, <2>3, PaymentSavedFresh
    <3>2. pay.status = payment[o].status /\ pay.pod = payment[o].pod
      BY <2>3
    <3>3. OwnWay(o)
      BY <2>1, <3>1, <3>2 DEF OwnWay
    <3>4. QED
      BY <1>1, <2>1, <2>3, <3>3, OnePaymentMoves DEF PaymentMoves
  <2>4. QED
    BY <2>1, <2>2, <2>3
<1>7. QED
  BY <1>5, <1>6

LEMMA AttemptPending ==
  ASSUME GatewayAssumption, NEW pay \in PaymentRow, NEW m \in OnlineMethods, NEW c
  PROVE  Attempt(pay, m, c).status = "pending"
BY DEF Attempt, PaymentRow

LEMMA AdoptKeeps ==
  ASSUME NEW pay \in PaymentRow, NEW gateway, NEW c
  PROVE  Adopt(gateway, pay, c).status = pay.status /\ Adopt(gateway, pay, c).pod = pay.pod
BY DEF Adopt, PaymentRow

LEMMA ReportsMove ==
  ASSUME Sound, SerialInv, Spoken, GatewayAssumption, StoreAssumption, NEW r \in Requests,
         \/ CreateCommit(r) \/ WebhookCommit(r) \/ PollCommit(r) \/ ApproveCommit(r)
         \/ OperateCommit(r)
  PROVE  PaymentsMove
<1> DEFINE q == req[r]
<1>1. PICK op \in {"create_commit", "webhook", "status_poll", "approve", "operate_commit"} :
        Runs(r, op)
  BY DEF CreateCommit, WebhookCommit, PollCommit, ApproveCommit, OperateCommit
<1>2. q \in Request /\ RequestOK(q) /\ q.op = op /\ Fresh(q) /\ Asked(q)
  BY <1>1, Running DEF Runs, SerialInv, FreshInv, Free, Idle, Ops
<1>3. /\ q.o \in Orders /\ q.ord = order[q.o] /\ q.pay = payment[q.o] /\ q.pay \in PaymentRow
      /\ q.charge \in Charges \cup {NoCharge}
  BY <1>1, <1>2 DEF Request, Fresh, Later
<1>4. /\ {"system", "admin"} \subseteq Actors /\ "approved" \in PaymentStatus \ {"paid"}
      /\ q.got # "paid"
  BY <1>1, <1>2 DEF Actors, PaymentStatus, Spoken, Says, Idle
<1>5. CASE CreateCommit(r)
  <2> DEFINE pay == Attempt(q.pay, q.method, q.charge)
  <2>1. /\ q.method \in OnlineMethods /\ q.charge \in Charges /\ q.got \in PaymentStatus
        /\ q.got \in Refusals \cup {"pending"} /\ order[q.o].status \in Payable
    BY <1>2, <1>3, <1>5 DEF CreateCommit, Runs, RequestOK, Asked, Refusals
  <2>2. pay \in PaymentRow /\ pay.status = "pending"
    BY <1>3, <2>1, AttemptType, AttemptPending
  <2>3. CASE q.got # "pending"
    BY <1>2, <1>3, <1>4, <1>5, <2>1, <2>2, <2>3, ReportMoves DEF CreateCommit
  <2>4. CASE q.got = "pending"
    <3>1. payment' = [payment EXCEPT ![q.o] = SavePayment(@, payment[q.o], pay)]
          /\ UNCHANGED <<order, published>>
      BY <1>3, <1>5, <2>4 DEF CreateCommit
    <3>2. payment \in [Orders -> PaymentRow] /\ payment[q.o] \in PaymentRow
      BY <1>3 DEF Sound, TypeOK, StoreTypeOK
    <3>3. payment'[q.o] = pay
      BY <1>3, <2>2, <3>1, <3>2, PaymentSavedFresh
    <3>4. Restarted(q.o)
      BY <2>1, <2>2, <3>1, <3>3 DEF Restarted
    <3>5. QED
      BY <1>3, <3>1, <3>2, <3>4, OnePaymentMoves DEF PaymentMoves
  <2>5. QED
    BY <2>3, <2>4
<1>6. CASE WebhookCommit(r)
  <2> DEFINE pay == Adopt(charge[q.charge].gateway, q.pay, q.charge)
  <2>1. q.got \in PaymentStatus /\ q.charge \in Charges /\ Owned(q.o, q.charge)
        /\ q.charge # NoCharge
    BY <1>2, <1>3, <1>6 DEF WebhookCommit, Runs, RequestOK
  <2>2. charge[q.charge] \in ChargeRow
    BY <2>1 DEF Owned, Sound, TypeOK, GatewayTypeOK
  <2>3. pay \in PaymentRow /\ pay.status = q.pay.status /\ pay.pod = q.pay.pod
    BY <1>3, <2>2, AdoptType, AdoptKeeps DEF ChargeRow
  <2>4. QED
    BY <1>2, <1>3, <1>4, <1>6, <2>1, <2>3, ReportMoves DEF WebhookCommit
<1>7. CASE PollCommit(r)
  <2> DEFINE pay == Adopt(q.pay.provider, q.pay, q.charge)
  <2>1. q.got \in PaymentStatus /\ q.pay.provider \in Gateways
    BY <1>2, <1>7 DEF PollCommit, Runs, RequestOK, Request
  <2>2. pay \in PaymentRow /\ pay.status = q.pay.status /\ pay.pod = q.pay.pod
    BY <1>3, <2>1, AdoptType, AdoptKeeps
  <2>3. QED
    BY <1>2, <1>3, <1>4, <1>7, <2>1, <2>2, ReportMoves DEF PollCommit
<1>8. CASE ApproveCommit(r)
  BY <1>2, <1>3, <1>4, <1>8, ReportMoves DEF ApproveCommit
<1>9. CASE OperateCommit(r)
  <2>1. q.got \in PaymentStatus
    BY <1>2, <1>9 DEF OperateCommit, Runs, RequestOK
  <2>2. QED
    BY <1>2, <1>3, <1>4, <1>9, <2>1, ReportMoves DEF OperateCommit
<1>10. QED
  BY <1>5, <1>6, <1>7, <1>8, <1>9

LEMMA AttemptsMove ==
  ASSUME Sound, SerialInv, NEW r \in Requests, PreferenceCommit(r) \/ SwitchCommit(r)
  PROVE  PaymentsMove
<1> DEFINE q == req[r]
<1>1. PICK op \in {"preference", "switch_to_pay_on_delivery"} : Runs(r, op)
  BY DEF PreferenceCommit, SwitchCommit
<1>2. q \in Request /\ q.op = op /\ Fresh(q) /\ Asked(q)
  BY <1>1, Running DEF Runs, SerialInv, FreshInv, Free, Idle, Ops
<1>3. /\ q.o \in Orders /\ q.ord = order[q.o] /\ q.pay = payment[q.o] /\ q.pay \in PaymentRow
      /\ q.ord \in OrderRow /\ order[q.o].status \in Payable
  BY <1>1, <1>2 DEF Request, Fresh, Asked, Later
<1>4. payment \in [Orders -> PaymentRow] /\ order \in [Orders -> OrderRow]
  BY DEF Sound, TypeOK, StoreTypeOK
<1>5. CASE PreferenceCommit(r)
  <2> DEFINE row == IF q.pay.status = "approved" THEN q.pay
                    ELSE [q.pay EXCEPT !.method = "credit_card", !.provider = "mercado_pago"]
             pay == [row EXCEPT !.status = "pending"]
  <2>1. row \in PaymentRow
    BY <1>3 DEF PaymentRow, Methods, Providers
  <2>2. pay \in PaymentRow /\ pay.status = "pending"
    BY <2>1 DEF PaymentRow, PaymentStatus
  <2>3. payment' = [payment EXCEPT ![q.o] = SavePayment(@, payment[q.o], pay)]
        /\ UNCHANGED <<order, published>>
    BY <1>3, <1>5 DEF PreferenceCommit
  <2> HIDE DEF pay
  <2>4. payment'[q.o] = pay
    BY <1>3, <1>4, <2>2, <2>3, PaymentSavedFresh
  <2>5. Restarted(q.o)
    BY <1>3, <2>2, <2>3, <2>4 DEF Restarted
  <2>6. QED
    BY <1>3, <1>4, <2>3, <2>5, OnePaymentMoves DEF PaymentMoves
<1>6. CASE SwitchCommit(r)
  <2> DEFINE pay == [q.pay EXCEPT !.method = "cash", !.status = "pending",
                                  !.provider = "on_delivery", !.mpId = NoCharge, !.pod = TRUE]
             row == [q.ord EXCEPT !.status = "paid"]
  <2>1. pay \in PaymentRow /\ pay.status = "pending" /\ pay.pod
    BY <1>3 DEF PaymentRow, PaymentStatus, Methods, Providers
  <2>2. row \in OrderRow /\ row.status = "paid" /\ row.cancelledBy = order[q.o].cancelledBy
    BY <1>3 DEF OrderRow, OrderStatus
  <2>3. /\ payment' = [payment EXCEPT ![q.o] = SavePayment(@, payment[q.o], pay)]
        /\ order' = [order EXCEPT ![q.o] = SaveOrder(@, order[q.o], row)]
        /\ UNCHANGED published
    BY <1>3, <1>6 DEF SwitchCommit
  <2> HIDE DEF pay, row
  <2>4. payment'[q.o] = pay /\ order'[q.o] = row
    BY <1>3, <1>4, <2>1, <2>2, <2>3, PaymentSavedFresh, SavedFresh
  <2>5. Switched(q.o)
    BY <1>3, <2>1, <2>2, <2>3, <2>4 DEF Switched
  <2>6. QED
    BY <1>3, <1>4, <2>3, <2>5, OnePaymentMoves DEF PaymentMoves
<1>7. QED
  BY <1>5, <1>6

\* Cancelling, archiving and closing a bill, with who did it.
LEMMA StaffMoves ==
  ASSUME Sound, SerialInv, NoHandEdits, NEW r \in Requests,
         \/ ChangeStatusCommit(r) \/ CancelCommit(r) \/ ArchiveCancel(r) \/ RecordCancel(r)
         \/ ArchiveMark(r) \/ ConfirmTableCommit(r) \/ ServeTableCommit(r)
  PROVE  PaymentsMove
<1> DEFINE q == req[r]
           o == q.o
<1>1. PICK op \in {"change_status", "cancel", "archive", "record_cancel", "archive_record",
                   "archive_mark", "confirm_table", "serve_table"} : Runs(r, op)
  BY DEF ChangeStatusCommit, CancelCommit, ArchiveCancel, RecordCancel, ArchiveMark,
         ConfirmTableCommit, ServeTableCommit
<1>2. q \in Request /\ q.op = op /\ Fresh(q) /\ Asked(q) /\ o \in Orders
  BY <1>1, Running DEF Runs, SerialInv, FreshInv, Free, Idle, Ops, Request
<1>3. /\ order \in [Orders -> OrderRow] /\ order[o] \in OrderRow
      /\ payment \in [Orders -> PaymentRow] /\ payment[o] \in PaymentRow
      /\ published \in [Orders -> [confirmed : Nat, reversed : Nat]]
  BY <1>2 DEF Sound, TypeOK, StoreTypeOK
<1>4. ~ChangeStatusCommit(r)
  BY <1>2 DEF ChangeStatusCommit, Runs, Asked, NoHandEdits
<1>5. CASE CancelCommit(r) \/ ArchiveCancel(r)
  <2>1. PICK next : CommitStatus(r, next)
    BY <1>5 DEF CancelCommit, ArchiveCancel
  <2>2. op \in {"cancel", "archive"} /\ Runs(r, op)
    BY <1>1, <1>2, <1>5 DEF CancelCommit, ArchiveCancel, Runs
  <2>3. order'[o].status = "cancelled"
    BY <1>2, <2>1, <2>2, CommitMoves DEF Asked
  <2>4. /\ order' = [order EXCEPT ![o] = SaveOrder(@, q.ord, WithStatus(q.ord, q.to))]
        /\ UNCHANGED <<payment, published>>
    BY <2>1 DEF CommitStatus
  <2>5. q.ord \in OrderRow
    BY <1>2 DEF Request
  <2>6. order'[o].cancelledBy = order[o].cancelledBy
    BY <1>2, <1>3, <2>4, <2>5 DEF SaveOrder, Col, WithStatus, OrderRow
  <2>7. OwnWay(o)
    BY <2>3, <2>4, <2>6 DEF OwnWay, Payable, PaidFlow, Missing
  <2>8. QED
    BY <1>2, <1>3, <2>4, <2>7, OnePaymentMoves DEF PaymentMoves
<1>6. CASE RecordCancel(r)
  <2>1. op \in {"record_cancel", "archive_record"}
    BY <1>1, <1>6 DEF RecordCancel, Runs
  <2>2. order[o].status = "cancelled"
    BY <1>2, <2>1 DEF Fresh
  <2>3. /\ order' = [order EXCEPT ![o].cancelledBy = q.who]
        /\ UNCHANGED <<payment, published>>
    BY <1>6 DEF RecordCancel
  <2>4. order'[o].status = "cancelled" /\ order'[o].cancelledBy = q.who
    BY <1>2, <1>3, <2>2, <2>3 DEF OrderRow
  <2>5. OwnWay(o)
    BY <2>2, <2>3, <2>4 DEF OwnWay, Payable, PaidFlow, Missing
  <2>6. QED
    BY <1>2, <1>3, <2>3, <2>5, OnePaymentMoves DEF PaymentMoves
<1>7. CASE ArchiveMark(r)
  <2>1. order' = [order EXCEPT ![o].archived = TRUE] /\ UNCHANGED <<payment, published>>
    BY <1>7 DEF ArchiveMark
  <2>2. order'[o].status = order[o].status /\ order'[o].cancelledBy = order[o].cancelledBy
    BY <1>2, <1>3, <2>1 DEF OrderRow
  <2>3. OwnWay(o)
    BY <2>1, <2>2 DEF OwnWay
  <2>4. QED
    BY <1>2, <1>3, <2>1, <2>3, OnePaymentMoves DEF PaymentMoves
<1>8. CASE ConfirmTableCommit(r)
  <2> DEFINE pay == IF q.pay.status # "pending" THEN q.pay
                    ELSE [q.pay EXCEPT !.status = "approved", !.method = q.method,
                                       !.provider = "salao"]
             row == [q.ord EXCEPT !.paidAt = TRUE]
  <2>1. /\ q.ord = order[o] /\ q.pay = payment[o] /\ q.method \in Methods
        /\ Fulfillment[o] = "dine_in" /\ "confirm_table" \in EnabledOps
    BY <1>2, <1>8 DEF ConfirmTableCommit, Runs, Fresh, Asked, Later, Request
  <2>2. /\ payment' = [payment EXCEPT ![o] = SavePayment(@, payment[o], pay)]
        /\ order' = [order EXCEPT ![o] = SaveOrder(@, order[o], row)]
        /\ \A x \in Orders : x # o => published'[x] = published[x]
    BY <1>3, <1>8, <2>1 DEF ConfirmTableCommit
  <2>3. /\ pay \in PaymentRow /\ pay.status \in {payment[o].status, "approved"}
        /\ payment[o].status # "pending" => pay.status = payment[o].status
    BY <1>3, <2>1 DEF PaymentRow, PaymentStatus, Providers
  <2>4. row \in OrderRow /\ row.status = order[o].status
        /\ row.cancelledBy = order[o].cancelledBy
    BY <1>3, <2>1 DEF OrderRow
  <2> HIDE DEF pay, row
  <2>5. payment'[o] = pay /\ order'[o] = row
    BY <1>2, <1>3, <2>2, <2>3, <2>4, SavedFresh, PaymentSavedFresh
  <2>6. Confirmed(o)
    BY <2>1, <2>3, <2>4, <2>5 DEF Confirmed
  <2>7. QED
    BY <1>2, <1>3, <2>2, <2>6, OnePaymentMoves DEF PaymentMoves
<1>9. CASE ServeTableCommit(r)
  <2> DEFINE row == WithStatus(q.ord, "delivered")
  <2>1. q.ord = order[o] /\ LocalFulfillment(Fulfillment[o], order[o].status)
    BY <1>2, <1>9 DEF ServeTableCommit, Runs, Fresh, Asked, Later
  <2>2. row \in OrderRow
    BY <1>3, <2>1, WithStatusType DEF OrderStatus
  <2>3. row.status = "delivered" /\ row.cancelledBy = order[o].cancelledBy
    BY <1>3, <2>1 DEF WithStatus, OrderRow
  <2>4. order' = [order EXCEPT ![o] = SaveOrder(@, order[o], row)]
        /\ UNCHANGED <<payment, published>>
    BY <1>9, <2>1 DEF ServeTableCommit
  <2> HIDE DEF row
  <2>5. order'[o] = row
    BY <1>2, <1>3, <2>2, <2>4, SavedFresh
  <2>6. OwnWay(o)
    BY <2>1, <2>3, <2>4, <2>5 DEF OwnWay, LocalFulfillment, Payable, PaidFlow, Missing
  <2>7. QED
    BY <1>2, <1>3, <2>4, <2>6, OnePaymentMoves DEF PaymentMoves
<1>10. QED
  BY <1>4, <1>5, <1>6, <1>7, <1>8, <1>9

LEMMA KdsPays ==
  ASSUME Sound, NEW o \in Orders, NEW to \in PaidFlow, KdsStatus(o, to),
         order[o].status \in PaidFlow, UNCHANGED <<payment, published>>
  PROVE  PaymentsMove
<1>1. order \in [Orders -> OrderRow] /\ order[o] \in OrderRow
  BY DEF Sound, TypeOK, StoreTypeOK
<1>2. order'[o] = WithStatus(order[o], to) /\ \A x \in Orders : x # o => order'[x] = order[x]
  BY <1>1 DEF KdsStatus
<1>3. order'[o].status = to /\ order'[o].cancelledBy = order[o].cancelledBy
  BY <1>1, <1>2 DEF WithStatus, OrderRow
<1>4. OwnWay(o)
  BY <1>3 DEF OwnWay, PaidFlow, Payable, Missing
<1>5. QED
  BY <1>2, <1>4, OnePaymentMoves DEF PaymentMoves

LEMMA KitchenPays ==
  ASSUME Sound, NEW o \in Orders, Kitchen(o) \/ \E r \in Requests : KdsCompletePickup(r, o)
  PROVE  PaymentsMove
<1>1. CASE KdsStartPreparation(o)
  BY <1>1, KdsPays DEF KdsStartPreparation, PaidFlow
<1>2. CASE KdsUnitsReady(o) \/ KdsRemake(o)
  BY <1>2, PaymentsStay DEF KdsUnitsReady, KdsRemake
<1>3. CASE KdsMarkReady(o)
  <2>1. order[o].status = "preparing"
    BY <1>3 DEF KdsMarkReady, OrderMay, CanTransition, OrderTransitions
  <2>2. QED
    BY <1>3, <2>1, KdsPays DEF KdsMarkReady, PaidFlow
<1>4. CASE KdsReturnToKitchen(o)
  BY <1>4, KdsPays DEF KdsReturnToKitchen, PaidFlow
<1>5. CASE KdsServeDineIn(o)
  BY <1>5, KdsPays DEF KdsServeDineIn, LocalFulfillment, PaidFlow
<1>6. ASSUME NEW r \in Requests, KdsCompletePickup(r, o) PROVE PaymentsMove
  BY <1>6, KdsPays DEF KdsCompletePickup, LocalFulfillment, PaidFlow
<1>7. QED
  BY <1>1, <1>2, <1>3, <1>4, <1>5, <1>6 DEF Kitchen

LEMMA CreationPays ==
  ASSUME Sound, NEW o \in Orders, Creation(o)
  PROVE  PaymentsMove
<1>1. /\ order \in [Orders -> OrderRow] /\ payment \in [Orders -> PaymentRow]
      /\ order[o] = NoOrder
  BY DEF Creation, CreateFromCheckout, CreateFromTableSession, Sound, TypeOK, StoreTypeOK
<1>2. order[o].status = Missing /\ order[o].cancelledBy = "none"
  BY <1>1 DEF NoOrder
<1>3. ASSUME NEW kind \in Checkouts, CreateFromCheckout(o, kind)
      PROVE  PaymentsMove
  <2>1. /\ order' = [order EXCEPT ![o].status =
                       IF kind \in {"pay_on_delivery", "manual"} THEN "paid"
                       ELSE "aguardando_pagamento"]
        /\ payment' = [payment EXCEPT ![o] =
             [NoPayment EXCEPT
                !.status   = IF kind = "manual" THEN "approved" ELSE "pending",
                !.provider = CASE kind = "online" -> "mercado_pago"
                               [] kind = "pay_on_delivery" -> "on_delivery"
                               [] kind \in {"manual", "manual_pending"} -> "manual",
                !.method   = IF kind = "pay_on_delivery" THEN "cash" ELSE "pix",
                !.pod      = kind = "pay_on_delivery"]]
        /\ Fulfillment[o] # "dine_in" /\ UNCHANGED published
    BY <1>3 DEF CreateFromCheckout
  <2>2. /\ order'[o].status = IF kind \in {"pay_on_delivery", "manual"} THEN "paid"
                              ELSE "aguardando_pagamento"
        /\ order'[o].cancelledBy = "none"
    BY <1>1, <1>2, <2>1 DEF OrderRow
  <2>3. /\ payment'[o].status = IF kind = "manual" THEN "approved" ELSE "pending"
        /\ kind = "pay_on_delivery" => payment'[o].pod
    BY <1>1, <2>1 DEF NoPayment
  <2>4. Opened(o)
    BY <1>2, <1>3, <2>1, <2>2, <2>3 DEF Opened, Missing, Checkouts
  <2>5. QED
    BY <1>1, <2>1, <2>4, OnePaymentMoves DEF PaymentMoves
<1>4. ASSUME CreateFromTableSession(o) PROVE PaymentsMove
  <2>1. /\ order' = [order EXCEPT ![o].status = "preparing", ![o].started = TRUE]
        /\ payment' = [payment EXCEPT ![o] = [NoPayment EXCEPT
                         !.status = "pending", !.provider = "salao", !.method = "cash"]]
        /\ Fulfillment[o] = "dine_in" /\ UNCHANGED published
    BY <1>4 DEF CreateFromTableSession
  <2>2. order'[o].status = "preparing" /\ order'[o].cancelledBy = "none"
    BY <1>1, <1>2, <2>1 DEF OrderRow
  <2>3. payment'[o].status = "pending"
    BY <1>1, <2>1 DEF NoPayment
  <2>4. Opened(o)
    BY <1>2, <2>1, <2>2, <2>3 DEF Opened, Missing
  <2>5. QED
    BY <1>1, <2>1, <2>4, OnePaymentMoves DEF PaymentMoves
<1>5. QED
  BY <1>3, <1>4 DEF Creation

LEMMA StepPays ==
  ASSUME Sound, SerialInv, NoHandEdits, Spoken, StoreAssumption, GatewayAssumption,
         [Next]_vars
  PROVE  PaymentsMove
<1>1. CASE UNCHANGED vars
  BY <1>1, PaymentsStay DEF vars, storeVars
<1>2. CASE \E o \in Orders : Kitchen(o) \/ Creation(o)
  BY <1>2, KitchenPays, CreationPays
<1>3. ASSUME NEW r \in Requests, OrderRequest(r) PROVE PaymentsMove
  <2>1. CASE \/ ChangeStatusCommit(r) \/ CancelCommit(r) \/ ArchiveCancel(r)
             \/ RecordCancel(r) \/ ArchiveMark(r) \/ ConfirmTableCommit(r)
             \/ ServeTableCommit(r)
    BY <2>1, StaffMoves
  <2>2. CASE \E o \in Orders : KdsCompletePickup(r, o)
    BY <2>2, KitchenPays
  <2>3. CASE \/ \E o \in Orders, to \in AdminTargets : ChangeStatusRead(r, o, to)
             \/ StockRefusal(r) \/ AwardPoints(r)
             \/ \E o \in Orders, who \in {"customer", "admin", "system"} : CancelRead(r, o, who)
             \/ \E o \in Orders : ArchiveRead(r, o)
             \/ \E o \in Orders, m \in Methods : ConfirmTableRead(r, o, m)
             \/ \E o \in Orders : ServeTableRead(r, o)
    BY <2>3, PaymentsStay DEF ChangeStatusRead, StockRefusal, AwardPoints, CancelRead,
       ArchiveRead, ConfirmTableRead, ServeTableRead
  <2>4. QED
    BY <1>3, <2>1, <2>2, <2>3 DEF OrderRequest
<1>4. ASSUME NEW r \in Requests, PaymentRequest(r) PROVE PaymentsMove
  <2>1. CASE \/ CreateCommit(r) \/ WebhookCommit(r) \/ PollCommit(r) \/ ApproveCommit(r)
             \/ OperateCommit(r)
    BY <2>1, ReportsMove
  <2>2. CASE PreferenceCommit(r) \/ SwitchCommit(r)
    BY <2>2, AttemptsMove
  <2>3. CASE \/ \E o \in Orders, m \in OnlineMethods : CreateRead(r, o, m)
             \/ \E c \in Charges : CreateReuse(r, c)
             \/ CreateMiss(r)
             \/ \E c \in Charges, s \in ChargeStatus : CreateCharge(r, c, s)
             \/ \E o \in Orders : PreferenceRead(r, o) \/ SwitchRead(r, o) \/ PollRead(r, o)
             \/ \E n \in Notice : WebhookFetch(r, n)
             \/ WebhookLoad(r) \/ PollAnswer(r) \/ Abort(r)
             \/ \E o \in Orders, how \in {"manual", "cash", "pay_on_delivery"} :
                  ApproveRead(r, o, how)
             \/ \E o \in Orders, op \in {"cancel_call", "refund_call"} : OperateRead(r, o, op)
             \/ \E s \in ChargeStatus : OperateRemote(r, s)
    BY <2>3, PaymentsStay DEF CreateRead, CreateReuse, CreateMiss, CreateCharge,
       PreferenceRead, SwitchRead, PollRead, WebhookFetch, WebhookLoad, PollAnswer, Abort,
       ApproveRead, OperateRead, OperateRemote
  <2>4. QED
    BY <1>4, <2>1, <2>2, <2>3 DEF PaymentRequest
<1>5. CASE \/ \E c \in Charges, s \in ChargeStatus : GatewayMove(c, s)
           \/ \E c \in Charges, o \in Orders, s \in ChargeStatus : PayLink(c, o, s)
  BY <1>5, PaymentsStay DEF GatewayMove, PayLink, storeVars
<1>6. QED
  BY <1>1, <1>2, <1>3, <1>4, <1>5 DEF Next

LEMMA AnswerWord ==
  ASSUME NEW gateway \in Gateways, NEW s \in ChargeStatus, NEW event \in ChargeStatus \cup {"none"}
  PROVE  Answer(gateway, s, event) # "paid"
BY DEF Gateways, ChargeStatus, Answer, MpStatus, AsaasStatus, PagarmeStatus

LEMMA SpokenEnters ==
  ASSUME Sound, Spoken, NEW r \in Requests, NEW q, Enter(r, q), Says(q)
  PROVE  Spoken'
<1>1. req'[r] = q /\ \A x \in Requests : x # r => req'[x] = req[x]
  BY Entered
<1>2. QED
  BY <1>1 DEF Spoken, Says, Idle

LEMMA SpokenOrders ==
  ASSUME Sound, Spoken, NEW r \in Requests, OrderRequest(r)
  PROVE  Spoken'
<1>1. Says(Idle)
  BY DEF Says
<1>2. ASSUME NEW op, NEW o, NEW who PROVE Says(Continued(op, o, who)) /\ Says(Loaded(op, o))
  BY DEF Says, Continued, Loaded
<1>3. CASE ChangeStatusCommit(r) \/ CancelCommit(r) \/ ArchiveCancel(r)
  BY <1>1, <1>2, <1>3, SpokenEnters DEF ChangeStatusCommit, CancelCommit, ArchiveCancel, CommitStatus
<1>4. CASE \/ StockRefusal(r) \/ AwardPoints(r) \/ ArchiveMark(r) \/ ConfirmTableCommit(r)
           \/ ServeTableCommit(r)
  BY <1>1, <1>4, SpokenEnters
  DEF StockRefusal, AwardPoints, ArchiveMark, ConfirmTableCommit, ServeTableCommit, Leave, Enter
<1>5. CASE RecordCancel(r) \/ \E o \in Orders : KdsCompletePickup(r, o)
  BY <1>1, <1>2, <1>5, SpokenEnters DEF RecordCancel, KdsCompletePickup
<1>6. ASSUME NEW o \in Orders, NEW to \in AdminTargets, ChangeStatusRead(r, o, to) PROVE Spoken'
  <2>1. Says([Loaded("change_status", o) EXCEPT !.to = to])
    BY DEF Says, Loaded
  <2>2. QED
    BY <1>6, <2>1, SpokenEnters DEF ChangeStatusRead
<1>7. ASSUME NEW o \in Orders, NEW who, CancelRead(r, o, who) PROVE Spoken'
  <2>1. Says([Loaded("cancel", o) EXCEPT !.to = "cancelled", !.who = who])
    BY DEF Says, Loaded
  <2>2. QED
    BY <1>7, <2>1, SpokenEnters DEF CancelRead
<1>8. ASSUME NEW o \in Orders, ArchiveRead(r, o) PROVE Spoken'
  <2>1. Says([Loaded("archive", o) EXCEPT !.to = "cancelled", !.who = "admin"])
    BY DEF Says, Loaded
  <2>2. QED
    BY <1>2, <1>8, <2>1, SpokenEnters DEF ArchiveRead
<1>9. ASSUME NEW o \in Orders, NEW m, ConfirmTableRead(r, o, m) PROVE Spoken'
  <2>1. Says([Loaded("confirm_table", o) EXCEPT !.method = m])
    BY DEF Says, Loaded
  <2>2. QED
    BY <1>9, <2>1, SpokenEnters DEF ConfirmTableRead
<1>10. ASSUME NEW o \in Orders, ServeTableRead(r, o) PROVE Spoken'
  BY <1>2, <1>10, SpokenEnters DEF ServeTableRead
<1>11. QED
  BY <1>3, <1>4, <1>5, <1>6, <1>7, <1>8, <1>9, <1>10 DEF OrderRequest

LEMMA SpokenPayments ==
  ASSUME Sound, Spoken, GatewayAssumption, NEW r \in Requests, PaymentRequest(r)
  PROVE  Spoken'
<1> DEFINE q == req[r]
<1>1. Says(Idle) /\ \A op, o : Says(Loaded(op, o))
  BY DEF Says, Loaded
<1>2. ASSUME NEW p, Enter(r, p), p = Idle \/ p.got # "paid" PROVE Spoken'
  BY <1>2, SpokenEnters DEF Says
<1>3. CASE \/ CreateCommit(r) \/ PreferenceCommit(r) \/ SwitchCommit(r) \/ WebhookCommit(r)
           \/ PollCommit(r) \/ ApproveCommit(r) \/ OperateCommit(r) \/ Abort(r)
  BY <1>2, <1>3 DEF CreateCommit, PreferenceCommit, SwitchCommit, WebhookCommit, PollCommit,
     ApproveCommit, OperateCommit, Abort, ApplyStatus, Leave, Enter
<1>4. CASE \E o \in Orders :
             \/ \E m \in OnlineMethods : CreateRead(r, o, m)
             \/ PreferenceRead(r, o) \/ SwitchRead(r, o) \/ PollRead(r, o)
             \/ \E how \in {"manual", "cash", "pay_on_delivery"} : ApproveRead(r, o, how)
             \/ \E op \in {"cancel_call", "refund_call"} : OperateRead(r, o, op)
  <2>1. ASSUME NEW op, NEW o, NEW x
        PROVE  /\ Loaded(op, o).got # "paid"
               /\ [Loaded(op, o) EXCEPT !.method = x].got # "paid"
               /\ [Loaded(op, o) EXCEPT !.charge = x].got # "paid"
    BY DEF Loaded
  <2>2. QED
    BY <1>2, <1>4, <2>1 DEF CreateRead, PreferenceRead, SwitchRead, PollRead, ApproveRead,
       OperateRead
<1>5. ASSUME NEW c, NEW s, Answered(r, c, s), q \in Request PROVE Spoken'
  <2> DEFINE p == [q EXCEPT !.op = "create_commit", !.charge = c,
                            !.got = CreateAnswer(GatewayOf[q.method], q.method, s)]
  <2>1. p.got = CreateAnswer(GatewayOf[q.method], q.method, s)
    BY <1>5 DEF Request
  <2>2. p.got # "paid"
    BY <2>1 DEF CreateAnswer
  <2>3. QED
    BY <1>2, <1>5, <2>2 DEF Answered
<1>6. CASE \/ \E c \in Charges : CreateReuse(r, c)
           \/ \E c \in Charges, s \in ChargeStatus : CreateCharge(r, c, s)
  <2>1. q \in Request
    BY <1>6, Running DEF CreateReuse, CreateCharge, Ops
  <2>2. QED
    BY <1>5, <1>6, <2>1 DEF CreateReuse, CreateCharge
<1>7. CASE CreateMiss(r) \/ WebhookLoad(r)
  <2>1. q \in Request /\ q # Idle
    BY <1>7, Running DEF CreateMiss, WebhookLoad, Ops, Idle, Runs
  <2>2. PICK p : Enter(r, p) /\ (p = Idle \/ p.got = q.got)
    BY <1>7, <2>1 DEF CreateMiss, WebhookLoad, Request, Leave, Enter
  <2>3. QED
    BY <1>2, <2>1, <2>2 DEF Spoken, Says
<1>8. ASSUME NEW n \in Notice, WebhookFetch(r, n) PROVE Spoken'
  <2> DEFINE c == n[1]
             got == Answer(charge[c].gateway, charge[c].status, n[2])
  <2>1. n \in notices
    BY <1>8 DEF WebhookFetch
  <2>2. charge[c] \in ChargeRow /\ n[2] \in ChargeStatus
    BY <2>1 DEF Sound, MoneyInv, NoticeOK, TypeOK, GatewayTypeOK, Notice
  <2>3. got # "paid"
    BY <2>2, AnswerWord DEF ChargeRow
  <2>4. [Continued("webhook_call", charge[c].order, "none") EXCEPT
           !.event = n, !.charge = c, !.got = got].got # "paid"
    BY <2>3 DEF Continued
  <2>5. QED
    BY <1>2, <1>8, <2>4 DEF WebhookFetch
<1>9. CASE PollAnswer(r)
  <2> DEFINE got == Answer(charge[q.charge].gateway, charge[q.charge].status, "none")
  <2>1. q \in Request /\ RequestOK(q) /\ q.op = "status_poll"
    BY <1>9, Running DEF PollAnswer, Ops, Runs
  <2>2. charge[q.charge] \in ChargeRow
    BY <2>1 DEF RequestOK, Owned, Request, Sound, TypeOK, GatewayTypeOK
  <2>3. got # "paid"
    BY <2>2, AnswerWord DEF ChargeRow
  <2>4. [q EXCEPT !.got = got].got # "paid"
    BY <2>1, <2>3 DEF Request
  <2>5. QED
    BY <1>2, <1>9, <2>4 DEF PollAnswer
<1>10. ASSUME NEW s \in ChargeStatus, OperateRemote(r, s) PROVE Spoken'
  <2>1. q \in Request
    BY <1>10, Running DEF OperateRemote, Ops
  <2>2. [q EXCEPT !.op = "operate_commit", !.ord = order[q.o], !.got = s].got # "paid"
    BY <2>1 DEF Request, ChargeStatus
  <2>3. QED
    BY <1>2, <1>10, <2>2 DEF OperateRemote
<1>11. QED
  BY <1>3, <1>4, <1>6, <1>7, <1>8, <1>9, <1>10 DEF PaymentRequest

LEMMA StepSpoken ==
  ASSUME Sound, Spoken, GatewayAssumption, [Next]_vars
  PROVE  Spoken'
<1>1. CASE \E r \in Requests : OrderRequest(r) \/ PaymentRequest(r)
  BY <1>1, SpokenOrders, SpokenPayments
<1>2. CASE UNCHANGED req
  BY <1>2 DEF Spoken, Says
<1>3. ASSUME NEW o \in Orders, Kitchen(o) \/ Creation(o) PROVE UNCHANGED req
  BY <1>3, KitchenMoves, CreationMoves
<1>4. QED
  BY <1>1, <1>2, <1>3 DEF Next, GatewayMove, PayLink, vars, storeVars

\* What an order's status says of its payment.
PaidShape(o) ==
  /\ payment[o].status # "paid"
  /\ order[o].status = Missing => payment[o].status = Missing
  /\ order[o].status \in Payable =>
       /\ order[o].status = "aguardando_pagamento" /\ order[o].cancelledBy = "none"
       /\ Fulfillment[o] # "dine_in"
       /\ payment[o].status \notin {"approved", "refunded"}
  /\ order[o].status \in PaidFlow =>
       \/ payment[o].status \in {"approved", "refunded"}
       \/ payment[o].pod
       \/ Fulfillment[o] = "dine_in"

PaidInv == Spoken /\ \A o \in Orders : PaidShape(o)

\* What a report does to the order it finds.
LEMMA ReportedOrder ==
  ASSUME NEW ord \in OrderRow, NEW s \in PaymentStatus, NEW who \in Actors,
         NEW next, next = OrderAfter(ord, s, who)
  PROVE  /\ next.status \in Payable =>
              /\ ord.status \in Payable
              /\ \/ next.status = ord.status /\ next.cancelledBy = ord.cancelledBy
                 \/ ord.cancelledBy # "none"
         /\ (ord.status = "aguardando_pagamento" /\ s = "approved") =>
              next.status \notin Payable
         /\ next.status \in PaidFlow => ord.status \in PaidFlow \/ s = "approved"
         /\ next.status = Missing => ord.status = Missing
<1> DEFINE target == OrderTarget(s)
<1>1. /\ target \in {"none", "paid", "refunded", "pagamento_expirado"}
      /\ target = "paid" <=> s = "approved"
      /\ target = "pagamento_expirado" <=> s \in {"cancelled", "expired"}
  BY DEF OrderTarget
<1>2. CASE next = ord
  <2>1. ~(ord.status = "aguardando_pagamento" /\ s = "approved")
    <3> SUFFICES ASSUME ord.status = "aguardando_pagamento", s = "approved" PROVE FALSE
      OBVIOUS
    <3>1. OrderMay(ord.status, target) /\ target = "paid" /\ ord.status \notin PaidFlow
      BY <1>1 DEF OrderMay, CanTransition, OrderTransitions, PaidFlow
    <3>2. next = [ord EXCEPT !.status = "paid", !.paidAt = @ \/ s = "approved"]
      BY <3>1 DEF OrderAfter
    <3>3. next.status = "paid"
      BY <3>2 DEF OrderRow
    <3>4. QED
      BY <1>2, <3>3
  <2>2. QED
    BY <1>2, <2>1
<1>3. CASE next = [ord EXCEPT !.paidAt = TRUE] /\ s = "approved" /\ ord.status \in PaidFlow
  BY <1>3 DEF OrderRow, Payable, PaidFlow, Missing
<1>4. CASE /\ next = [ord EXCEPT !.status = "cancelled", !.cancelledBy = who]
           /\ s \in {"expired", "cancelled"} /\ OrderMay(ord.status, target)
  <2>1. next.status = "cancelled"
    BY <1>4 DEF OrderRow
  <2>2. ord.status \in Payable
    BY <1>1, <1>4 DEF OrderMay, CanTransition, OrderTransitions, Payable
  <2>3. QED
    BY <2>1, <2>2 DEF Payable, PaidFlow, Missing
<1>5. CASE /\ next = [ord EXCEPT !.status = target, !.paidAt = @ \/ s = "approved"]
           /\ target # "none" /\ OrderMay(ord.status, target)
           /\ s \in {"expired", "cancelled"} => ord.cancelledBy # "none"
  <2>1. next.status = target /\ next.cancelledBy = ord.cancelledBy
    BY <1>5 DEF OrderRow
  <2>2. target = "pagamento_expirado" => ord.status \in Payable
    BY <1>5 DEF OrderMay, CanTransition, OrderTransitions, Payable
  <2>3. QED
    BY <1>1, <1>5, <2>1, <2>2 DEF Payable, PaidFlow, Missing
<1>6. QED
  BY <1>2, <1>3, <1>4, <1>5 DEF OrderAfter

\* What a report does to a payment and to an order that are in shape.
LEMMA ReportedShape ==
  ASSUME Sound, NEW o \in Orders, PaidShape(o), Reported(o)
  PROVE  /\ PaidShape(o)'
         /\ payment[o].status = "approved" => payment'[o].status \in {"approved", "refunded"}
         /\ order[o].status # Missing
<1>1. order[o] \in OrderRow /\ payment[o] \in PaymentRow
  BY DEF Sound, TypeOK, StoreTypeOK
<1>2. PICK from \in PaymentStatus \cup {Missing}, s \in PaymentStatus \ {"paid"}, who \in Actors :
        /\ Accepts(from, s)
        /\ \/ from = payment[o].status /\ (payment[o].pod => payment'[o].pod)
           \/ from = "pending" /\ order[o].status \in Payable /\ s \in Refusals
        /\ payment'[o].status = s
        /\ order'[o] = OrderAfter(order[o], s, who)
  BY DEF Reported
<1>3. /\ from # Missing
      /\ from = "approved" => s \in {"approved", "refunded"}
      /\ from = "refunded" => FALSE
      /\ s = "refunded" => from \in {"approved", "paid"}
  BY <1>2 DEF Accepts, PaymentMay, CanTransition, PaymentTransitions, Missing
<1>4. /\ order'[o].status \in Payable =>
           /\ order[o].status \in Payable
           /\ \/ /\ order'[o].status = order[o].status
                 /\ order'[o].cancelledBy = order[o].cancelledBy
              \/ order[o].cancelledBy # "none"
      /\ (order[o].status = "aguardando_pagamento" /\ s = "approved") =>
           order'[o].status \notin Payable
      /\ order'[o].status \in PaidFlow => order[o].status \in PaidFlow \/ s = "approved"
      /\ order'[o].status = Missing => order[o].status = Missing
  BY <1>1, <1>2, ReportedOrder
<1>5. order[o].status # Missing
  BY <1>2, <1>3 DEF PaidShape, Payable, Missing
<1>6. order[o].status \in Payable => order[o].status \notin PaidFlow
  BY DEF Payable, PaidFlow
<1>7. payment[o].status \in {"approved", "refunded"} => from = payment[o].status
  BY <1>2 DEF PaidShape
<1>8. s = "refunded" => from = "approved"
  BY <1>2, <1>3 DEF PaidShape
<1>9. PaidShape(o)'
  <2>1. order'[o].status \in Payable =>
          /\ order'[o].status = "aguardando_pagamento" /\ order'[o].cancelledBy = "none"
          /\ Fulfillment[o] # "dine_in"
          /\ payment'[o].status \notin {"approved", "refunded"}
    BY <1>2, <1>4, <1>8 DEF PaidShape
  <2>2. order'[o].status \in PaidFlow =>
          \/ payment'[o].status \in {"approved", "refunded"}
          \/ payment'[o].pod
          \/ Fulfillment[o] = "dine_in"
    BY <1>2, <1>3, <1>4, <1>6 DEF PaidShape
  <2>3. QED
    BY <1>2, <1>4, <1>5, <2>1, <2>2 DEF PaidShape
<1>10. QED
  BY <1>2, <1>3, <1>4, <1>5, <1>7, <1>9 DEF PaidShape

\* However the payment of an order may move, the shape stays, and an approved payment
\* stays or is refunded.
LEMMA MovesShape ==
  ASSUME Sound, NEW o \in Orders, PaidShape(o), PaymentMoves(o)
  PROVE  /\ PaidShape(o)'
         /\ payment[o].status = "approved" => payment'[o].status \in {"approved", "refunded"}
<1>1. CASE OwnWay(o)
  BY <1>1 DEF OwnWay, PaidShape, Payable, PaidFlow, Missing
<1>2. CASE Restarted(o)
  BY <1>2 DEF Restarted, PaidShape, Payable, PaidFlow, Missing
<1>3. CASE Switched(o)
  BY <1>3 DEF Switched, PaidShape, Payable, PaidFlow, Missing
<1>4. CASE Reported(o)
  BY <1>4, ReportedShape
<1>5. CASE Confirmed(o)
  BY <1>5 DEF Confirmed, PaidShape, Missing
<1>6. CASE Opened(o)
  BY <1>6 DEF Opened, PaidShape, Payable, PaidFlow, Missing
<1>7. QED
  BY <1>1, <1>2, <1>3, <1>4, <1>5, <1>6 DEF PaymentMoves

\* The events on the bus say no more than the payment.
PublishedShape(o) ==
  /\ published[o].confirmed \in {0, 1} /\ published[o].reversed \in {0, 1}
  /\ published[o].confirmed = 1 => payment[o].status \in {"approved", "refunded"}
  /\ published[o].reversed = 1 => payment[o].status = "refunded"

LEMMA MovesPublished ==
  ASSUME Sound, StoreAssumption, NEW o \in Orders, PaidShape(o), PublishedShape(o),
         PaymentMoves(o), "confirm_table" \notin EnabledOps
  PROVE  PublishedShape(o)'
<1>1. CASE OwnWay(o) \/ Restarted(o) \/ Switched(o) \/ Opened(o)
  BY <1>1 DEF OwnWay, Restarted, Switched, Opened, PaidShape, PublishedShape, Missing
<1>2. CASE Reported(o)
  <2>1. PICK from \in PaymentStatus \cup {Missing}, s \in PaymentStatus \ {"paid"},
             who \in Actors :
          /\ Accepts(from, s)
          /\ \/ from = payment[o].status
             \/ from = "pending" /\ order[o].status \in Payable /\ s \in Refusals
          /\ payment'[o].status = s
          /\ published'[o] = PublishedAfter(published[o], from, s)
    BY <1>2 DEF Reported
  <2>2. /\ from = "approved" => s \in {"approved", "refunded"}
        /\ from # "refunded"
        /\ s \in {"approved", "refunded"} => from = payment[o].status
    BY <2>1 DEF Accepts, PaymentMay, CanTransition, PaymentTransitions, Missing, Refusals
  <2>3. payment[o].status \in {"approved", "refunded"} => from = payment[o].status
    BY <2>1 DEF PaidShape
  <2>4. Bump(0) = 1
    BY DEF Bump, StoreAssumption
  <2>5. /\ published'[o].confirmed = IF s = "approved" /\ from # s
                                     THEN Bump(published[o].confirmed)
                                     ELSE published[o].confirmed
        /\ published'[o].reversed = IF s = "refunded" /\ from # s
                                    THEN Bump(published[o].reversed)
                                    ELSE published[o].reversed
    BY <2>1 DEF PublishedAfter
  <2>6. published'[o].confirmed \in {0, 1}
        /\ (published'[o].confirmed = 1 => s \in {"approved", "refunded"})
    BY <2>2, <2>3, <2>4, <2>5 DEF PublishedShape
  <2>7. published'[o].reversed \in {0, 1} /\ (published'[o].reversed = 1 => s = "refunded")
    BY <2>2, <2>3, <2>4, <2>5 DEF PublishedShape
  <2>8. QED
    BY <2>1, <2>6, <2>7 DEF PublishedShape
<1>3. ~Confirmed(o)
  BY DEF Confirmed
<1>4. QED
  BY <1>1, <1>2, <1>3 DEF PaymentMoves

LEMMA StepPaid ==
  ASSUME Sound, SerialInv, PaidInv, NoHandEdits, StoreAssumption, AdminAssumption,
         GatewayAssumption, [Next]_vars
  PROVE  PaymentsMove /\ PaidInv'
<1>1. PaymentsMove
  BY StepPays DEF PaidInv
<1>2. \A o \in Orders : PaidShape(o)'
  BY <1>1, MovesShape DEF PaymentsMove, PaidInv
<1>3. Spoken'
  BY StepSpoken DEF PaidInv
<1>4. QED
  BY <1>1, <1>2, <1>3 DEF PaidInv

LEMMA InitPaid == Init => PaidInv
BY DEF Init, StoreInit, PaidInv, Spoken, Says, PaidShape, NoOrder, NoPayment,
   Idle, Missing, Payable, PaidFlow

\* The invariant of the next theorems: what an order's status says of its payment.
LEMMA PaidSound == NoHandEdits => (Spec /\ [][Undisturbed]_vars => []PaidInv)
<1> SUFFICES ASSUME NoHandEdits PROVE Spec /\ [][Undisturbed]_vars => []PaidInv
  OBVIOUS
<1>1. Sound /\ SerialInv /\ PaidInv /\ [Next]_vars => PaidInv'
  BY StoreAssumption, AdminAssumption, GatewayAssumption, StepPaid
<1>2. QED
  BY <1>1, InitPaid, AlwaysSound, SerialSound, PTL DEF Spec

\* Unless an admin sets the status by hand, an order in the shop's hands was paid
\* for, will be paid to the courier, or is the table's.
THEOREM PaidOrdersBacked ==
  NoHandEdits => (Spec /\ [][Undisturbed]_vars => []PaidOrdersAreBacked)
<1> SUFFICES ASSUME NoHandEdits PROVE Spec /\ [][Undisturbed]_vars => []PaidOrdersAreBacked
  OBVIOUS
<1>1. PaidInv => PaidOrdersAreBacked
  BY DEF PaidInv, PaidShape, PaidOrdersAreBacked
<1>2. QED
  BY <1>1, PaidSound, PTL

\* An approved payment stays approved or is refunded, whatever attempt, notice,
\* poll, switch or staff command comes next.
THEOREM ApprovalKept ==
  NoHandEdits => (Spec /\ [][Undisturbed]_vars => ApprovalIsKept)
<1> SUFFICES ASSUME NoHandEdits PROVE Spec /\ [][Undisturbed]_vars => ApprovalIsKept
  OBVIOUS
<1> DEFINE Step == \A o \in Orders : payment[o].status = "approved" =>
                     payment'[o].status \in {"approved", "refunded"}
<1>1. Sound /\ SerialInv /\ PaidInv /\ [Next]_vars => [Step]_vars
  <2> SUFFICES ASSUME Sound, SerialInv, PaidInv, [Next]_vars PROVE Step
    OBVIOUS
  <2>1. PaymentsMove
    BY StoreAssumption, AdminAssumption, GatewayAssumption, StepPaid
  <2>2. QED
    BY <2>1, MovesShape DEF PaymentsMove, PaidInv
<1>2. QED
  BY <1>1, PaidSound, AlwaysSound, SerialSound, PTL DEF Spec, ApprovalIsKept

\* The confirmation and the refund of a payment are published once each, where no
\* bill is closed at a table: the cashier's confirmation publishes every time.
THEOREM ConfirmationsOnce ==
  (NoHandEdits /\ "confirm_table" \notin EnabledOps) =>
    (Spec /\ [][Undisturbed]_vars => []PublishedOnce)
<1> SUFFICES ASSUME NoHandEdits, "confirm_table" \notin EnabledOps
             PROVE  Spec /\ [][Undisturbed]_vars => []PublishedOnce
  OBVIOUS
<1> DEFINE Events == \A o \in Orders : PublishedShape(o)
<1>1. Init => Events
  BY DEF Init, StoreInit, PublishedShape
<1>2. Sound /\ SerialInv /\ PaidInv /\ Events /\ [Next]_vars => Events'
  <2> SUFFICES ASSUME Sound, SerialInv, PaidInv, Events, [Next]_vars PROVE Events'
    OBVIOUS
  <2>1. PaymentsMove
    BY StoreAssumption, AdminAssumption, GatewayAssumption, StepPaid
  <2>2. QED
    BY <2>1, StoreAssumption, MovesPublished DEF PaymentsMove, PaidInv
<1>3. Events => PublishedOnce
  BY DEF PublishedShape, PublishedOnce
<1>4. QED
  BY <1>1, <1>2, <1>3, PaidSound, AlwaysSound, SerialSound, PTL DEF Spec

-----------------------------------------------------------------------------
(* Charges.  At ASAAS the search for an earlier charge and the creation of *)
(* a new one are two calls, and nothing in between keeps another creation  *)
(* of the same order out.                                                  *)

Creating == {"create_call", "create_charge"}

\* The creations of one order do not overlap.
OneCreation ==
  \A r, s \in Requests :
    (req[r].op \in Creating /\ req[s].op \in Creating /\ req[r].o = req[s].o) => r = s

\* Mercado Pago's idempotency key does not cover the order, only the form.
NoMercadoPago == \A m \in OnlineMethods : GatewayOf[m] # "mercado_pago"

NoCharges(o, m) ==
  \A c \in Charges : charge[c] # Unused => ~(charge[c].order = o /\ charge[c].method = m)

\* Between the two calls the order has no charge of that method; charges lie with
\* the gateway of their method, where the search looks.
ChargeInv ==
  /\ links = {}
  /\ \A r \in Requests : /\ ~Runs(r, "preference")
                         /\ Runs(r, "create_charge") => NoCharges(req[r].o, req[r].method)
  /\ \A c \in Charges : charge[c] # Unused => charge[c].gateway = GatewayOf[charge[c].method]
  /\ OneChargePerMethod

LEMMA ChargesStay ==
  ASSUME Sound, ChargeInv, NEW r \in Requests, NEW q, Enter(r, q),
         q.op \notin {"create_charge", "preference"}, UNCHANGED <<charge, links>>
  PROVE  ChargeInv'
<1>1. req'[r] = q /\ \A x \in Requests : x # r => req'[x] = req[x]
  BY Entered
<1>2. QED
  BY <1>1 DEF ChargeInv, NoCharges, Runs, OneChargePerMethod

LEMMA ChargesOfOrders ==
  ASSUME Sound, ChargeInv, NEW r \in Requests, OrderRequest(r), UNCHANGED gatewayVars
  PROVE  ChargeInv'
<1> DEFINE fits(q) == q.op \notin {"create_charge", "preference"}
<1>1. ASSUME NEW q, Enter(r, q), fits(q) PROVE ChargeInv'
  BY <1>1, ChargesStay DEF gatewayVars
<1>2. /\ fits(Idle)
      /\ \A o, who : /\ fits(Continued("award_points", o, who))
                     /\ fits(Continued("record_cancel", o, who))
                     /\ fits(Continued("archive_record", o, who))
                     /\ fits(Continued("archive_mark", o, who))
      /\ \A o, x, y : /\ fits([Loaded("change_status", o) EXCEPT !.to = x])
                      /\ fits([Loaded("cancel", o) EXCEPT !.to = x, !.who = y])
                      /\ fits([Loaded("archive", o) EXCEPT !.to = x, !.who = y])
                      /\ fits([Loaded("confirm_table", o) EXCEPT !.method = x])
                      /\ fits(Loaded("serve_table", o))
  BY DEF Continued, Loaded, Idle
<1> HIDE DEF fits
<1>3. CASE ChangeStatusCommit(r) \/ CancelCommit(r) \/ ArchiveCancel(r) \/ RecordCancel(r)
  BY <1>1, <1>2, <1>3 DEF ChangeStatusCommit, CancelCommit, ArchiveCancel, RecordCancel,
     CommitStatus
<1>4. CASE \/ StockRefusal(r) \/ AwardPoints(r) \/ ArchiveMark(r) \/ ConfirmTableCommit(r)
           \/ ServeTableCommit(r)
  <2>1. Enter(r, Idle)
    BY <1>4 DEF StockRefusal, AwardPoints, ArchiveMark, ConfirmTableCommit, ServeTableCommit,
       Leave, Enter
  <2>2. QED
    BY <1>1, <1>2, <2>1
<1>5. ASSUME NEW o \in Orders, NEW to \in AdminTargets, ChangeStatusRead(r, o, to)
      PROVE  ChargeInv'
  BY <1>1, <1>2, <1>5 DEF ChangeStatusRead
<1>6. ASSUME NEW o \in Orders, NEW who \in {"customer", "admin", "system"}, CancelRead(r, o, who)
      PROVE  ChargeInv'
  BY <1>1, <1>2, <1>6 DEF CancelRead
<1>7. ASSUME NEW o \in Orders,
             ArchiveRead(r, o) \/ KdsCompletePickup(r, o) \/ ServeTableRead(r, o)
      PROVE  ChargeInv'
  BY <1>1, <1>2, <1>7 DEF ArchiveRead, KdsCompletePickup, ServeTableRead
<1>8. ASSUME NEW o \in Orders, NEW m \in Methods, ConfirmTableRead(r, o, m)
      PROVE  ChargeInv'
  BY <1>1, <1>2, <1>8 DEF ConfirmTableRead
<1>9. QED
  BY <1>3, <1>4, <1>5, <1>6, <1>7, <1>8 DEF OrderRequest

\* A gateway that moves one of its charges leaves whose it is.
LEMMA ChargesMove ==
  ASSUME Sound, ChargeInv, NEW c \in Charges, NEW s \in ChargeStatus, charge[c] # Unused,
         charge' = [charge EXCEPT ![c].status = s], UNCHANGED links,
         \A x \in Requests : req'[x].op \in {"create_charge", "preference"} => req'[x] = req[x]
  PROVE  ChargeInv'
<1>1. charge \in [Charges -> ChargeRow \cup {Unused}] /\ charge[c] \in ChargeRow
  BY DEF Sound, TypeOK, GatewayTypeOK
<1>2. [charge[c] EXCEPT !.status = s] # Unused
  BY <1>1 DEF ChargeRow, Unused
<1>3. \A d \in Charges : /\ charge'[d] # Unused <=> charge[d] # Unused
                         /\ charge[d] # Unused => /\ charge'[d].order = charge[d].order
                                                  /\ charge'[d].method = charge[d].method
                                                  /\ charge'[d].gateway = charge[d].gateway
  BY <1>1, <1>2 DEF ChargeRow
<1>4. OneChargePerMethod'
  BY <1>3 DEF ChargeInv, OneChargePerMethod
<1>5. \A x \in Requests : /\ ~Runs(x, "preference")'
                          /\ Runs(x, "create_charge")' => NoCharges(req[x].o, req[x].method)'
  BY <1>3 DEF ChargeInv, Runs, NoCharges
<1>6. QED
  BY <1>3, <1>4, <1>5 DEF ChargeInv

\* The creation of a charge finds none of its kind.
LEMMA ChargeMade ==
  ASSUME Sound, ChargeInv, OneCreation, NoMercadoPago, GatewayAssumption, NEW r \in Requests,
         NEW c \in Charges, NEW s \in ChargeStatus, CreateCharge(r, c, s)
  PROVE  ChargeInv'
<1> DEFINE q == req[r]
           gateway == GatewayOf[q.method]
           row == [order |-> q.o, method |-> q.method, gateway |-> gateway, status |-> s]
           p == [q EXCEPT !.op = "create_commit", !.charge = c,
                          !.got = CreateAnswer(gateway, q.method, s)]
<1>1. PICK op \in Creating : Runs(r, op)
  BY DEF CreateCharge, Creating
<1>2. q \in Request /\ q.op \in Creating /\ q.o \in Orders /\ q.method \in OnlineMethods
  BY <1>1, CreateRunning DEF Creating, Runs
<1>3. gateway \in {"asaas", "pagarme"}
  BY <1>2 DEF NoMercadoPago, GatewayAssumption, Gateways
<1>4. /\ charge[c] = Unused /\ charge' = [charge EXCEPT ![c] = row]
      /\ Enter(r, p) /\ UNCHANGED links
  BY DEF CreateCharge, Answered
<1>5. NoCharges(q.o, q.method)
  <2>1. CASE gateway = "asaas"
    BY <2>1 DEF CreateCharge, ChargeInv
  <2>2. CASE gateway = "pagarme"
    <3>1. Earlier(q.o, q.method) = {}
      BY <2>2 DEF CreateCharge
    <3>2. QED
      BY <3>1 DEF Earlier, NoCharges, ChargeInv
  <2>3. QED
    BY <1>3, <2>1, <2>2
<1>6. /\ charge'[c] = row /\ \A d \in Charges : d # c => charge'[d] = charge[d]
      /\ row.order = q.o /\ row.method = q.method /\ row.gateway = gateway
  BY <1>4 DEF Sound, TypeOK, GatewayTypeOK
<1>7. p.op = "create_commit"
  BY <1>2 DEF Request
<1> HIDE DEF p, row
<1>8. req'[r] = p /\ \A x \in Requests : x # r => req'[x] = req[x]
  BY <1>4, Entered
<1>9. ASSUME NEW x \in Requests, Runs(x, "create_charge")'
      PROVE  NoCharges(req[x].o, req[x].method)'
  <2>1. x # r /\ req'[x] = req[x] /\ Runs(x, "create_charge")
    BY <1>7, <1>8, <1>9 DEF Runs
  <2>2. req[x].o # q.o
    BY <1>2, <2>1 DEF OneCreation, Creating, Runs
  <2>3. NoCharges(req[x].o, req[x].method)
    BY <2>1 DEF ChargeInv
  <2>4. QED
    BY <1>6, <2>1, <2>2, <2>3 DEF NoCharges
<1>10. \A x \in Requests : ~Runs(x, "preference")'
  BY <1>7, <1>8 DEF ChargeInv, Runs
<1>11. OneChargePerMethod'
  BY <1>4, <1>5, <1>6 DEF ChargeInv, NoCharges, OneChargePerMethod
<1>12. \A d \in Charges : charge'[d] # Unused => charge'[d].gateway = GatewayOf[charge'[d].method]
  BY <1>6 DEF ChargeInv
<1>13. QED
  BY <1>4, <1>9, <1>10, <1>11, <1>12 DEF ChargeInv

LEMMA ChargesOfPayments ==
  ASSUME Sound, ChargeInv, OneCreation, NoMercadoPago, GatewayAssumption, NEW r \in Requests,
         PaymentRequest(r)
  PROVE  ChargeInv'
<1> DEFINE q == req[r]
           fits(p) == p.op \notin {"create_charge", "preference"}
<1>1. ASSUME NEW p, Enter(r, p), fits(p), UNCHANGED <<charge, links>> PROVE ChargeInv'
  BY <1>1, ChargesStay
<1>2. CASE \/ CreateCommit(r) \/ SwitchCommit(r) \/ WebhookCommit(r) \/ PollCommit(r)
           \/ ApproveCommit(r) \/ OperateCommit(r) \/ Abort(r)
  <2>1. Enter(r, Idle) /\ fits(Idle) /\ UNCHANGED <<charge, links>>
    BY <1>2 DEF CreateCommit, SwitchCommit, WebhookCommit, PollCommit, ApproveCommit,
       OperateCommit, Abort, ApplyStatus, Leave, Enter, Idle, gatewayVars
  <2>2. QED
    BY <1>1, <2>1
<1>3. CASE \E o \in Orders :
             \/ \E m \in OnlineMethods : CreateRead(r, o, m)
             \/ SwitchRead(r, o) \/ PollRead(r, o)
             \/ \E how \in {"manual", "cash", "pay_on_delivery"} : ApproveRead(r, o, how)
             \/ \E op \in {"cancel_call", "refund_call"} : OperateRead(r, o, op)
  <2>1. \A o, x : /\ fits([Loaded("create_call", o) EXCEPT !.method = x])
                  /\ fits([Loaded("status_poll", o) EXCEPT !.charge = x])
                  /\ fits([Loaded("cancel_call", o) EXCEPT !.charge = x])
                  /\ fits([Loaded("refund_call", o) EXCEPT !.charge = x])
                  /\ fits(Loaded("approve", o))
                  /\ fits(Loaded("switch_to_pay_on_delivery", o))
    BY DEF Loaded
  <2> HIDE DEF fits
  <2>2. QED
    BY <1>1, <1>3, <2>1 DEF CreateRead, SwitchRead, PollRead, ApproveRead, OperateRead,
       gatewayVars
<1>4. ~PreferenceCommit(r) /\ \A o \in Orders : ~PreferenceRead(r, o)
  BY DEF ChargeInv, PreferenceCommit, PreferenceRead, NoMercadoPago, OnlineMethods
<1>5. ASSUME NEW c \in Charges, CreateReuse(r, c) PROVE ChargeInv'
  <2>1. q \in Request
    BY <1>5, Running DEF CreateReuse, Ops
  <2> DEFINE p == [q EXCEPT !.op = "create_commit", !.charge = c,
                            !.got = CreateAnswer(GatewayOf[q.method], q.method, charge[c].status)]
  <2>2. Enter(r, p) /\ fits(p)
    BY <1>5, <2>1 DEF CreateReuse, Answered, Request
  <2>3. QED
    BY <1>1, <1>5, <2>2 DEF CreateReuse, gatewayVars
<1>6. CASE CreateMiss(r)
  <2> DEFINE p == [q EXCEPT !.op = "create_charge"]
  <2>1. q \in Request
    BY <1>6, Running DEF CreateMiss, Ops
  <2>2. p.op = "create_charge" /\ p.o = q.o /\ p.method = q.method
    BY <2>1 DEF Request
  <2>3. req'[r] = p /\ \A x \in Requests : x # r => req'[x] = req[x]
    BY <1>6, Entered DEF CreateMiss
  <2>4. Earlier(q.o, q.method) = {} /\ UNCHANGED <<charge, links>>
    BY <1>6 DEF CreateMiss, gatewayVars
  <2>5. NoCharges(q.o, q.method)
    BY <2>4 DEF Earlier, NoCharges, ChargeInv
  <2> HIDE DEF p
  <2>6. QED
    BY <2>2, <2>3, <2>4, <2>5 DEF ChargeInv, NoCharges, Runs, OneChargePerMethod
<1>7. ASSUME NEW c \in Charges, NEW s \in ChargeStatus, CreateCharge(r, c, s) PROVE ChargeInv'
  BY <1>7, ChargeMade
<1>8. CASE WebhookLoad(r) \/ PollAnswer(r)
  <2>1. q \in Request /\ q.op \in {"webhook_call", "status_poll"}
    BY <1>8, Running DEF WebhookLoad, PollAnswer, Ops, Runs
  <2> DEFINE heard == [q EXCEPT !.got =
                         Answer(charge[q.charge].gateway, charge[q.charge].status, "none")]
             loaded == [q EXCEPT !.op = "webhook", !.ord = order[q.o], !.pay = payment[q.o]]
  <2>2. fits(Idle) /\ fits(heard) /\ fits(loaded)
    BY <2>1 DEF Request, Idle
  <2>3. Enter(r, Idle) \/ Enter(r, loaded) \/ Enter(r, heard)
    BY <1>8 DEF WebhookLoad, PollAnswer, Leave, Enter
  <2>4. UNCHANGED <<charge, links>>
    BY <1>8 DEF WebhookLoad, PollAnswer, gatewayVars
  <2> HIDE DEF fits, heard, loaded
  <2>5. QED
    BY <1>1, <2>2, <2>3, <2>4
<1>9. ASSUME NEW n \in Notice, WebhookFetch(r, n) PROVE ChargeInv'
  <2> DEFINE c == n[1]
             p == [Continued("webhook_call", charge[c].order, "none") EXCEPT
                     !.event = n, !.charge = c,
                     !.got = Answer(charge[c].gateway, charge[c].status, n[2])]
  <2>1. Enter(r, p) /\ UNCHANGED <<charge, links>>
    BY <1>9 DEF WebhookFetch, gatewayVars
  <2>2. fits(p)
    BY DEF Continued
  <2>3. QED
    BY <1>1, <2>1, <2>2
<1>10. ASSUME NEW s \in ChargeStatus, OperateRemote(r, s) PROVE ChargeInv'
  <2>1. q \in Request /\ RequestOK(q) /\ q.op \in {"refund_call", "cancel_call"}
    BY <1>10, Running DEF OperateRemote, Ops, Runs
  <2>2. q.charge \in Charges /\ charge[q.charge] # Unused
    BY <2>1 DEF RequestOK, Owned, Request
  <2> DEFINE p == [q EXCEPT !.op = "operate_commit", !.ord = order[q.o], !.got = s]
  <2>3. Enter(r, p) /\ p.op = "operate_commit"
    BY <1>10, <2>1 DEF OperateRemote, Request
  <2> HIDE DEF p
  <2>4. req'[r] = p /\ \A x \in Requests : x # r => req'[x] = req[x]
    BY <2>3, Entered
  <2>5. charge' = [charge EXCEPT ![q.charge].status = s] /\ UNCHANGED links
    BY <1>10 DEF OperateRemote
  <2>6. QED
    BY <2>2, <2>3, <2>4, <2>5, ChargesMove
<1>11. QED
  BY <1>2, <1>3, <1>4, <1>5, <1>6, <1>7, <1>8, <1>9, <1>10 DEF PaymentRequest

LEMMA StepCharges ==
  ASSUME Sound, ChargeInv, OneCreation, NoMercadoPago, GatewayAssumption, [Next]_vars
  PROVE  ChargeInv'
<1>1. CASE UNCHANGED <<req, charge, links>>
  BY <1>1 DEF ChargeInv, NoCharges, Runs, OneChargePerMethod
<1>2. ASSUME NEW o \in Orders, Kitchen(o) \/ Creation(o) PROVE UNCHANGED req
  BY <1>2, KitchenMoves, CreationMoves
<1>3. ASSUME NEW c \in Charges, NEW s \in ChargeStatus, GatewayMove(c, s) PROVE ChargeInv'
  BY <1>3, ChargesMove DEF GatewayMove, storeVars
<1>4. \A c \in Charges, o \in Orders, s \in ChargeStatus : ~PayLink(c, o, s)
  BY DEF ChargeInv, PayLink
<1>5. ASSUME NEW r \in Requests, (OrderRequest(r) /\ UNCHANGED gatewayVars) \/ PaymentRequest(r)
      PROVE  ChargeInv'
  BY <1>5, ChargesOfOrders, ChargesOfPayments
<1>6. QED
  BY <1>1, <1>2, <1>3, <1>4, <1>5 DEF Next, vars, storeVars, gatewayVars

\* While the creations of an order do not overlap, no retry, second worker or lost
\* answer leaves two charges of one method at ASAAS or Pagar.me; whatever else runs
\* beside them.
THEOREM OneCharge ==
  NoMercadoPago => (Spec /\ []OneCreation => []OneChargePerMethod)
<1> SUFFICES ASSUME NoMercadoPago PROVE Spec /\ []OneCreation => []OneChargePerMethod
  OBVIOUS
<1>1. Init => ChargeInv
  BY DEF Init, StoreInit, GatewayInit, ChargeInv, Runs, Idle, OneChargePerMethod
<1>2. Sound /\ OneCreation /\ ChargeInv /\ [Next]_vars => ChargeInv'
  BY GatewayAssumption, StepCharges
<1>3. ChargeInv => OneChargePerMethod
  BY DEF ChargeInv
<1>4. QED
  BY <1>1, <1>2, <1>3, AlwaysSound, PTL DEF Spec

\* One worker at a time: the instances that TLC runs with one request.
THEOREM OneWorkerIsEnough ==
  (\A r, s \in Requests : r = s) => (Spec => [][Undisturbed]_vars /\ []OneCreation)
<1> SUFFICES ASSUME \A r, s \in Requests : r = s
             PROVE  Spec => [][Undisturbed]_vars /\ []OneCreation
  OBVIOUS
<1>1. Sound /\ [Next]_vars => [Undisturbed]_vars
  <2> SUFFICES ASSUME Sound, Next, NEW r \in Requests, ~Free(r), req'[r] = req[r]
      PROVE  order' = order /\ payment' = payment
    BY DEF Undisturbed, vars, storeVars
  <2>1. ~SomeFree
    BY DEF SomeFree
  <2>2. /\ ~Leave(r) /\ ~Enter(r, Idle)
        /\ \A op, o, who : ~Runs(r, op) => ~Enter(r, Continued(op, o, who))
    BY Entered DEF Free, Leave, Enter, Runs, Continued, Sound, TypeOK, StoreTypeOK
  <2>3. ASSUME OrderRequest(r) PROVE order' = order /\ payment' = payment
    <3>1. ~(ChangeStatusCommit(r) \/ CancelCommit(r) \/ ArchiveCancel(r))
      BY <2>2 DEF ChangeStatusCommit, CancelCommit, ArchiveCancel, CommitStatus, Runs
    <3>2. ~RecordCancel(r)
      BY <2>2 DEF RecordCancel, Runs
    <3>3. ~(\/ ArchiveMark(r) \/ ConfirmTableCommit(r) \/ ServeTableCommit(r)
            \/ \E o \in Orders : KdsCompletePickup(r, o))
      BY <2>2 DEF ArchiveMark, ConfirmTableCommit, ServeTableCommit, KdsCompletePickup
    <3>4. QED
      BY <2>3, <3>1, <3>2, <3>3
      DEF OrderRequest, ChangeStatusRead, StockRefusal, AwardPoints, CancelRead, ArchiveRead,
          ConfirmTableRead, ServeTableRead
  <2>4. ASSUME PaymentRequest(r) PROVE order' = order /\ payment' = payment
    BY <2>2, <2>4 DEF PaymentRequest, CreateRead, CreateReuse, CreateMiss, CreateCharge,
       CreateCommit, PreferenceRead, PreferenceCommit, SwitchRead, SwitchCommit, WebhookFetch,
       WebhookLoad, WebhookCommit, PollRead, PollAnswer, PollCommit, ApproveRead, ApproveCommit,
       OperateRead, OperateRemote, OperateCommit, Abort, ApplyStatus
  <2>5. QED
    BY <2>1, <2>3, <2>4 DEF Next, GatewayMove, PayLink, storeVars
<1>2. OneCreation
  BY DEF OneCreation
<1>3. QED
  BY <1>1, <1>2, AlwaysSound, PTL DEF Spec

-----------------------------------------------------------------------------
(* Notices of an approval, where every charge is Mercado Pago's: a charge  *)
(* that was refused there stays refused, which is not so at ASAAS.         *)

OnlyMercadoPago == \A m \in OnlineMethods : GatewayOf[m] = "mercado_pago"

Alive == {"pending", "approved", "refunded"}

\* A charge that comes to nothing more.
Over(c) ==
  /\ c \in Charges /\ charge[c] # Unused
  /\ charge[c].status \in {"rejected", "cancelled", "expired", "charged_back"}

\* A payment that was refused names the charge that came to nothing.
Named(pay) ==
  /\ pay.provider \notin {"asaas", "pagarme"}
  /\ pay.provider = "mercado_pago" =>
       /\ pay.mpId = pay.remote
       /\ pay.status \notin Alive \cup {Missing} => Over(pay.mpId)

Concerned(pay, c) == pay.provider = "mercado_pago" /\ pay.mpId \in {c, NoCharge}

\* A notice of an approval that concerns a payment finds it open, or paid.
Standing(pay, c) == Concerned(pay, c) => pay.status \in Alive

Notified == {"webhook_call", "webhook"}

\* What a request knows of its charge and its payment.
Told(q) ==
  /\ q.got \in Alive \cup {"none"} \/ Over(q.charge)
  /\ q.op = "status_poll" => q.charge = q.pay.mpId
  /\ q.op \in {"cancel_call", "refund_call", "operate_commit"} =>
       q.charge = q.pay.remote /\ q.pay.provider = "mercado_pago"
  /\ q.op = "webhook" => Concerned(q.pay, q.charge)
  /\ (q.op \in Notified /\ q.got = "approved") => Standing(payment[q.o], q.charge)

Placed(o)     == payment[o].status # Missing
Unpaid(o)     == order[o].status \in Payable \cup {Missing}
SameIds(pay)  == pay.mpId = pay.remote

Known(o) ==
  /\ Named(payment[o])
  /\ Unpaid(o) => SameIds(payment[o])
  /\ order[o].status # Missing => Placed(o)

RecordInv ==
  /\ \A o \in Orders : Known(o)
  /\ \A c \in Charges : charge[c] # Unused =>
       charge[c].gateway = "mercado_pago" /\ Placed(charge[c].order)
  /\ \A o \in links : Placed(o)
  /\ \A r \in Requests : ~Free(r) => Told(req[r])
  /\ \A r, s \in Requests :
       (/\ req[r].op \in Notified /\ req[s].op \in Notified
        /\ req[r].event = req[s].event) => r = s

\* What a step must leave for RecordInv: of the charges ...
ChargesGo ==
  \A c \in Charges :
    \/ charge'[c] = charge[c]
    \/ /\ charge[c] = Unused /\ charge'[c].gateway = "mercado_pago"
       /\ Placed(charge'[c].order)
    \/ /\ charge[c] # Unused /\ ~Over(c) /\ charge'[c] # Unused
       /\ charge'[c].gateway = charge[c].gateway /\ charge'[c].order = charge[c].order

\* ... of the payments ...
Records(o) ==
  \/ payment'[o] = payment[o]
  \/ /\ Named(payment[o])' /\ Placed(o)'
     /\ \/ payment'[o].mpId = payment[o].mpId /\ payment'[o].remote = payment[o].remote
        \/ SameIds(payment'[o])
        \/ ~Unpaid(o)'

\* ... and of the request that moves.
Tells(r) ==
  \/ req'[r] = Idle
  \/ /\ Told(req[r])'
     /\ req'[r].op \in Notified =>
          \/ Runs(r, "webhook_call") /\ req'[r].event = req[r].event
          \/ \A x \in Requests \ {r} : ~Free(x) => req[x].event # req'[r].event

MeetsRecord ==
  /\ ChargesGo
  /\ \A o \in Orders : Records(o)
  /\ \A o \in links' : o \in links \/ Placed(o)'
  /\ \/ UNCHANGED req
     \/ \E r \in Requests : Tells(r) /\ \A x \in Requests : x # r => req'[x] = req[x]

\* Who begins to be an order has a payment, and who has one keeps it.
LEMMA OrdersBegin ==
  ASSUME Sound, PaidInv, OrdersMove, PaymentsMove, NEW o \in Orders
  PROVE  /\ Unpaid(o)' => Unpaid(o)
         /\ (order[o].status = Missing /\ order'[o].status # Missing) => Placed(o)'
<1>1. PaymentMoves(o) /\ PaidShape(o) /\ order[o] \in OrderRow
  BY DEF PaymentsMove, PaidInv, Sound, TypeOK, StoreTypeOK
<1>2. order'[o].status = order[o].status \/ Edge(order[o].status, order'[o].status)
  BY DEF OrdersMove, Kept, Moved
<1>3. CASE OwnWay(o)
  BY <1>2, <1>3 DEF OwnWay, Unpaid, Edge, Payable, PaidFlow, Missing
<1>4. CASE Restarted(o) \/ Switched(o) \/ Confirmed(o)
  BY <1>4 DEF Restarted, Switched, Confirmed, Unpaid, Payable, Missing
<1>5. CASE Reported(o)
  <2>1. order[o].status # Missing
    BY <1>1, <1>5, ReportedShape
  <2>2. PICK s \in PaymentStatus, who \in Actors : order'[o] = OrderAfter(order[o], s, who)
    BY <1>5 DEF Reported
  <2>3. /\ order'[o].status \in Payable => order[o].status \in Payable
        /\ order'[o].status = Missing => order[o].status = Missing
    BY <1>1, <2>2, ReportedOrder
  <2>4. QED
    BY <2>1, <2>3 DEF Unpaid
<1>6. CASE Opened(o)
  BY <1>6 DEF Opened, Unpaid, Placed, Missing
<1>7. QED
  BY <1>1, <1>3, <1>4, <1>5, <1>6 DEF PaymentMoves

LEMMA RecordKept ==
  ASSUME Sound, TypeOK', PaidInv, OrdersMove, PaymentsMove, RecordInv, Undisturbed, MeetsRecord
  PROVE  RecordInv'
<1>1. \A c : Over(c) => Over(c)'
  BY DEF MeetsRecord, ChargesGo, Over
<1>2. \A o \in Orders : Placed(o) => Placed(o)'
  BY DEF MeetsRecord, Records, Placed
<1>3. ASSUME NEW o \in Orders PROVE Known(o)'
  <2>1. Known(o) /\ Records(o)
    BY DEF RecordInv, MeetsRecord
  <2>2. Named(payment[o])'
    BY <1>1, <2>1 DEF Known, Records, Named
  <2>3. Unpaid(o)' => SameIds(payment'[o])
    BY <2>1, OrdersBegin DEF Known, Records, SameIds
  <2>4. order'[o].status # Missing => Placed(o)'
    BY <1>2, <2>1, OrdersBegin DEF Known
  <2>5. QED
    BY <2>2, <2>3, <2>4 DEF Known
<1>4. ASSUME NEW c \in Charges, charge'[c] # Unused
      PROVE  (charge[c].gateway = "mercado_pago" /\ Placed(charge[c].order))'
  <2>1. charge'[c].gateway = "mercado_pago" /\ Placed(charge'[c].order)
    BY <1>4 DEF MeetsRecord, ChargesGo, RecordInv
  <2>2. charge'[c].order \in Orders
    BY <1>4 DEF TypeOK, GatewayTypeOK, ChargeRow
  <2>3. QED
    BY <1>2, <2>1, <2>2 DEF Placed
<1>5. ASSUME NEW o \in links' PROVE Placed(o)'
  BY <1>2 DEF MeetsRecord, RecordInv, TypeOK, GatewayTypeOK
<1>6. ASSUME NEW x \in Requests, req'[x] = req[x], ~Free(x) PROVE Told(req[x])'
  <2>1. Told(req[x]) /\ payment'[req[x].o] = payment[req[x].o]
    BY <1>6 DEF RecordInv, Undisturbed
  <2>2. QED
    BY <1>1, <1>6, <2>1 DEF Told
<1>7. ASSUME NEW x \in Requests, ~Free(x)' PROVE Told(req[x])'
  BY <1>6, <1>7 DEF MeetsRecord, Tells, Free
<1>8. ASSUME NEW x \in Requests, NEW y \in Requests, req'[x].op \in Notified,
             req'[y].op \in Notified, req'[x].event = req'[y].event, x # y
      PROVE  FALSE
  <2>1. ~(req'[x] = req[x] /\ req'[y] = req[y])
    BY <1>8 DEF RecordInv
  <2>2. PICK r \in Requests : Tells(r) /\ \A z \in Requests : z # r => req'[z] = req[z]
    BY <2>1 DEF MeetsRecord
  <2>3. PICK s \in {x, y} : s # r /\ req'[s] = req[s] /\ r \in {x, y}
    BY <1>8, <2>1, <2>2
  <2>4. ~Free(s) /\ s \in Requests \ {r} /\ req'[r].op \in Notified /\ req[s].op \in Notified
        /\ req[s].event = req'[r].event
    BY <1>8, <2>3 DEF Free, Idle, Notified
  <2>5. Runs(r, "webhook_call") /\ req'[r].event = req[r].event
    BY <2>2, <2>4 DEF Tells, Idle, Notified
  <2>6. QED
    BY <2>3, <2>4, <2>5 DEF RecordInv, Runs, Notified
<1>9. QED
  BY <1>3, <1>4, <1>5, <1>7, <1>8 DEF RecordInv

\* A step that moves one request and writes neither payments nor charges.
LEMMA OnlyTold ==
  ASSUME Sound, NEW r \in Requests, NEW q, Enter(r, q), UNCHANGED <<payment, charge, links>>,
         \/ q = Idle
         \/ /\ Told(q)
            /\ q.op \in Notified =>
                 \/ Runs(r, "webhook_call") /\ q.event = req[r].event
                 \/ \A x \in Requests \ {r} : ~Free(x) => req[x].event # q.event
  PROVE  MeetsRecord
<1>1. req'[r] = q /\ \A x \in Requests : x # r => req'[x] = req[x]
  BY Entered
<1>2. Told(q) => Told(req[r])'
  BY <1>1 DEF Told, Over, Standing
<1>3. Tells(r)
  BY <1>1, <1>2 DEF Tells
<1>4. QED
  BY <1>1, <1>3 DEF MeetsRecord, ChargesGo, Records

\* A request that waits for no answer knows nothing.
Quiet(q) ==
  /\ q.got = "none"
  /\ q.op \notin Notified \cup {"status_poll", "cancel_call", "refund_call", "operate_commit"}

LEMMA QuietTold ==
  ASSUME NEW q, Quiet(q)
  PROVE  Told(q) /\ q.op \notin Notified
BY DEF Quiet, Told, Notified

LEMMA OrdersTell ==
  ASSUME Sound, RecordInv, NEW r \in Requests, OrderRequest(r), ~ConfirmTableCommit(r),
         UNCHANGED gatewayVars
  PROVE  MeetsRecord
<1> DEFINE fits(q) == q = Idle \/ Quiet(q)
<1>1. UNCHANGED <<payment, charge, links>>
  BY DEF OrderRequest, ChangeStatusRead, ChangeStatusCommit, StockRefusal, AwardPoints,
     CancelRead, CancelCommit, RecordCancel, ArchiveRead, ArchiveCancel, ArchiveMark,
     KdsCompletePickup, KdsStatus, ConfirmTableRead, ServeTableRead, ServeTableCommit,
     CommitStatus, gatewayVars
<1>2. ASSUME NEW q, Enter(r, q), fits(q) PROVE MeetsRecord
  BY <1>1, <1>2, OnlyTold, QuietTold
<1>3. /\ fits(Idle)
      /\ \A o, who : /\ fits(Continued("award_points", o, who))
                     /\ fits(Continued("record_cancel", o, who))
                     /\ fits(Continued("archive_record", o, who))
                     /\ fits(Continued("archive_mark", o, who))
      /\ \A o, x, y : /\ fits([Loaded("change_status", o) EXCEPT !.to = x])
                      /\ fits([Loaded("cancel", o) EXCEPT !.to = x, !.who = y])
                      /\ fits([Loaded("archive", o) EXCEPT !.to = x, !.who = y])
                      /\ fits([Loaded("confirm_table", o) EXCEPT !.method = x])
                      /\ fits(Loaded("serve_table", o))
  BY DEF Continued, Loaded, Quiet, Notified
<1> HIDE DEF fits
<1>4. CASE ChangeStatusCommit(r) \/ CancelCommit(r) \/ ArchiveCancel(r) \/ RecordCancel(r)
  BY <1>2, <1>3, <1>4 DEF ChangeStatusCommit, CancelCommit, ArchiveCancel, RecordCancel,
     CommitStatus
<1>5. CASE StockRefusal(r) \/ AwardPoints(r) \/ ArchiveMark(r) \/ ServeTableCommit(r)
  <2>1. Enter(r, Idle)
    BY <1>5 DEF StockRefusal, AwardPoints, ArchiveMark, ServeTableCommit, Leave, Enter
  <2>2. QED
    BY <1>2, <1>3, <2>1
<1>6. ASSUME NEW o \in Orders, NEW to \in AdminTargets, ChangeStatusRead(r, o, to)
      PROVE  MeetsRecord
  BY <1>2, <1>3, <1>6 DEF ChangeStatusRead
<1>7. ASSUME NEW o \in Orders, NEW who \in {"customer", "admin", "system"}, CancelRead(r, o, who)
      PROVE  MeetsRecord
  BY <1>2, <1>3, <1>7 DEF CancelRead
<1>8. ASSUME NEW o \in Orders,
             ArchiveRead(r, o) \/ KdsCompletePickup(r, o) \/ ServeTableRead(r, o)
      PROVE  MeetsRecord
  BY <1>2, <1>3, <1>8 DEF ArchiveRead, KdsCompletePickup, ServeTableRead
<1>9. ASSUME NEW o \in Orders, NEW m \in Methods, ConfirmTableRead(r, o, m)
      PROVE  MeetsRecord
  BY <1>2, <1>3, <1>9 DEF ConfirmTableRead
<1>10. QED
  BY <1>4, <1>5, <1>6, <1>7, <1>8, <1>9 DEF OrderRequest

LEMMA TableTells ==
  ASSUME Sound, SerialInv, RecordInv, NEW r \in Requests, ConfirmTableCommit(r),
         UNCHANGED gatewayVars
  PROVE  MeetsRecord
<1> DEFINE q == req[r]
           row == IF q.pay.status # "pending" THEN q.pay
                  ELSE [q.pay EXCEPT !.status = "approved", !.method = q.method,
                                     !.provider = "salao"]
<1>1. q \in Request /\ Fresh(q) /\ q.op = "confirm_table"
  BY Running DEF ConfirmTableCommit, Runs, Ops, SerialInv, FreshInv, Free, Idle
<1>2. q.o \in Orders /\ q.pay = payment[q.o] /\ q.pay \in PaymentRow /\ q.method \in Methods
  BY <1>1 DEF Request, Fresh, Later
<1>3. row \in PaymentRow
  BY <1>2 DEF PaymentRow, PaymentStatus, Providers
<1>4. /\ payment' = [payment EXCEPT ![q.o] = SavePayment(payment[q.o], payment[q.o], row)]
      /\ Leave(r) /\ payment \in [Orders -> PaymentRow]
  BY <1>2 DEF ConfirmTableCommit, Sound, TypeOK, StoreTypeOK
<1>5. payment'[q.o] = row /\ \A x \in Orders : x # q.o => payment'[x] = payment[x]
  BY <1>2, <1>3, <1>4, PaymentSavedFresh
<1>6. row # payment[q.o] => /\ row.status = "approved" /\ row.provider = "salao"
                            /\ row.mpId = payment[q.o].mpId /\ row.remote = payment[q.o].remote
  BY <1>2 DEF PaymentRow
<1> HIDE DEF row
<1>7. \A o \in Orders : Records(o)
  BY <1>5, <1>6 DEF Records, Named, Placed, Missing
<1>8. req'[r] = Idle /\ \A x \in Requests : x # r => req'[x] = req[x]
  BY <1>4, Entered DEF Leave, Enter
<1>9. QED
  BY <1>7, <1>8 DEF MeetsRecord, ChargesGo, Tells, gatewayVars

\* The kitchen writes no payment; the checkout and the table make a new one.
LEMMA ShopTells ==
  ASSUME Sound, NEW o \in Orders, Kitchen(o) \/ Creation(o), UNCHANGED gatewayVars
  PROVE  MeetsRecord
<1>1. UNCHANGED req
  BY KitchenMoves, CreationMoves
<1>2. SUFFICES ASSUME payment' # payment PROVE \A x \in Orders : Records(x)
  BY <1>1 DEF MeetsRecord, ChargesGo, Records, gatewayVars
<1>3. ~Kitchen(o)
  BY <1>2 DEF Kitchen, KdsStartPreparation, KdsUnitsReady, KdsRemake, KdsMarkReady,
     KdsReturnToKitchen, KdsServeDineIn, KdsStatus
<1>4. payment \in [Orders -> PaymentRow]
  BY DEF Sound, TypeOK, StoreTypeOK
<1>5. /\ \A x \in Orders : x # o => payment'[x] = payment[x]
      /\ payment'[o].mpId = NoCharge /\ payment'[o].remote = NoCharge
      /\ payment'[o].provider \in {"mercado_pago", "on_delivery", "manual", "salao"}
      /\ payment'[o].status \in {"pending", "approved"}
  <2>1. CASE CreateFromTableSession(o)
    BY <1>4, <2>1 DEF CreateFromTableSession, NoPayment
  <2>2. ASSUME NEW kind \in Checkouts, CreateFromCheckout(o, kind)
        PROVE  <1>5
    <3> DEFINE row == [NoPayment EXCEPT
                !.status   = IF kind = "manual" THEN "approved" ELSE "pending",
                !.provider = CASE kind = "online" -> "mercado_pago"
                               [] kind = "pay_on_delivery" -> "on_delivery"
                               [] kind \in {"manual", "manual_pending"} -> "manual",
                !.method   = IF kind = "pay_on_delivery" THEN "cash" ELSE "pix",
                !.pod      = kind = "pay_on_delivery"]
    <3>1. payment' = [payment EXCEPT ![o] = row]
      BY <2>2 DEF CreateFromCheckout
    <3>2. /\ row.mpId = NoCharge /\ row.remote = NoCharge
          /\ row.provider \in {"mercado_pago", "on_delivery", "manual", "salao"}
          /\ row.status \in {"pending", "approved"}
      BY DEF NoPayment, Checkouts
    <3> HIDE DEF row
    <3>3. QED
      BY <1>4, <3>1, <3>2
  <2>3. QED
    BY <1>3, <2>1, <2>2 DEF Creation
<1>6. QED
  BY <1>5 DEF Records, Named, Placed, SameIds, Alive, Missing

\* A request that ends with the payment of one order written.
LEMMA WrittenRecord ==
  ASSUME Sound, NEW r \in Requests, Leave(r), UNCHANGED charge, NEW o \in Orders, NEW new,
         payment'[o] = new, \A x \in Orders : x # o => payment'[x] = payment[x],
         links' \subseteq links \cup {o}, Named(new), new.status # Missing,
         \/ SameIds(new)
         \/ new.mpId = payment[o].mpId /\ new.remote = payment[o].remote
         \/ order'[o].status \notin Payable \cup {Missing}
  PROVE  MeetsRecord
<1>1. Named(payment[o])' /\ Placed(o)'
  BY DEF Named, Over, Placed, SameIds
<1>2. \A x \in Orders : Records(x)
  BY <1>1 DEF Records, Unpaid
<1>3. req'[r] = Idle /\ \A x \in Requests : x # r => req'[x] = req[x]
  BY Entered DEF Leave, Enter
<1>4. \A x \in links' : x \in links \/ Placed(x)'
  BY <1>1
<1>5. QED
  BY <1>2, <1>3, <1>4 DEF MeetsRecord, ChargesGo, Tells

\* What _apply_status leaves of the payment it is given.
LEMMA ApplyRecords ==
  ASSUME Sound, NEW r \in Requests, req[r] \in Request,
         req[r].ord = order[req[r].o], req[r].pay = payment[req[r].o],
         NEW pay \in PaymentRow, NEW answer \in PaymentStatus, NEW who \in Actors, NEW commits,
         ApplyStatus(r, pay, req[r].ord, answer, who, commits), UNCHANGED <<charge, links>>,
         pay.provider \notin {"asaas", "pagarme"},
         pay.provider = "mercado_pago" => SameIds(pay),
         (pay.provider = "mercado_pago" /\ answer \notin Alive) => Over(pay.mpId),
         commits # FALSE => Named(pay) /\ pay.status # Missing,
         SameIds(pay) \/ (pay.mpId = req[r].pay.mpId /\ pay.remote = req[r].pay.remote)
  PROVE  MeetsRecord
<1> DEFINE o   == req[r].o
           s   == Settled(pay.status, answer)
           row == [pay EXCEPT !.status = s]
<1>1. o \in Orders /\ payment \in [Orders -> PaymentRow] /\ payment[o] \in PaymentRow
  BY DEF Request, Sound, TypeOK, StoreTypeOK
<1>2. s \in PaymentStatus /\ s \in {answer, "refunded"}
  BY SettledType DEF Settled
<1>3. /\ row \in PaymentRow /\ row.status = s /\ row.provider = pay.provider
      /\ row.mpId = pay.mpId /\ row.remote = pay.remote
  BY <1>2 DEF PaymentRow
<1>4. s # Missing /\ (s \notin Alive => answer \notin Alive)
  BY <1>2 DEF PaymentStatus, Missing, Alive
<1>5. Leave(r)
  BY DEF ApplyStatus
<1> HIDE DEF row
<1>6. CASE payment' = payment
  <2>1. req'[r] = Idle /\ \A x \in Requests : x # r => req'[x] = req[x]
    BY <1>5, Entered DEF Leave, Enter
  <2>2. QED
    BY <1>6, <2>1 DEF MeetsRecord, ChargesGo, Records, Tells
<1>7. CASE Accepts(pay.status, s)
  <2>1. payment' = [payment EXCEPT ![o] = SavePayment(payment[o], payment[o], row)]
    BY <1>7 DEF ApplyStatus, row
  <2>2. payment'[o] = row /\ \A x \in Orders : x # o => payment'[x] = payment[x]
    BY <1>1, <1>3, <2>1, PaymentSavedFresh
  <2>3. Named(row)
    BY <1>3, <1>4 DEF Named, SameIds
  <2>4. SameIds(row) \/ (row.mpId = payment[o].mpId /\ row.remote = payment[o].remote)
    BY <1>3 DEF SameIds
  <2>5. QED
    BY <1>1, <1>3, <1>4, <1>5, <2>2, <2>3, <2>4, WrittenRecord
<1>8. CASE ~Accepts(pay.status, s) /\ payment' # payment
  <2>1. commits # FALSE
        /\ payment' = [payment EXCEPT ![o] = SavePayment(payment[o], payment[o], pay)]
    BY <1>8 DEF ApplyStatus
  <2>2. payment'[o] = pay /\ \A x \in Orders : x # o => payment'[x] = payment[x]
    BY <1>1, <2>1, PaymentSavedFresh
  <2>3. SameIds(pay) \/ (pay.mpId = payment[o].mpId /\ pay.remote = payment[o].remote)
    OBVIOUS
  <2>4. QED
    BY <1>1, <1>5, <2>1, <2>2, <2>3, WrittenRecord
<1>9. QED
  BY <1>6, <1>7, <1>8

LEMMA ReportsRecord ==
  ASSUME Sound, SerialInv, PaidInv, RecordInv, GatewayAssumption, StoreAssumption,
         OnlyMercadoPago, NEW r \in Requests,
         \/ CreateCommit(r) \/ WebhookCommit(r) \/ PollCommit(r) \/ ApproveCommit(r)
         \/ OperateCommit(r)
  PROVE  MeetsRecord
<1> DEFINE q == req[r]
<1>1. PICK op \in {"create_commit", "webhook", "status_poll", "approve", "operate_commit"} :
        Runs(r, op)
  BY DEF CreateCommit, WebhookCommit, PollCommit, ApproveCommit, OperateCommit
<1>2. q \in Request /\ RequestOK(q) /\ q.op = op /\ Fresh(q) /\ Asked(q) /\ Told(q)
  BY <1>1, Running DEF Runs, SerialInv, FreshInv, RecordInv, Free, Idle, Ops
<1>3. /\ q.o \in Orders /\ q.ord = order[q.o] /\ q.pay = payment[q.o] /\ q.pay \in PaymentRow
      /\ q.charge \in Charges \cup {NoCharge} /\ q.got \in PaymentStatus \cup {"none"}
  BY <1>1, <1>2 DEF Request, Fresh, Later
<1>4. {"system", "admin"} \subseteq Actors /\ "approved" \in PaymentStatus
  BY DEF Actors, PaymentStatus
<1>5. Known(q.o) /\ Named(q.pay)
  BY <1>3 DEF RecordInv, Known
<1>6. q.got \in PaymentStatus => (q.got \notin Alive => Over(q.charge))
  BY <1>2 DEF Told, PaymentStatus
<1>7. (q.charge # NoCharge /\ Owned(q.o, q.charge)) =>
        charge[q.charge].gateway = "mercado_pago" /\ Placed(q.o)
  BY <1>3 DEF Owned, RecordInv
<1>8. UNCHANGED <<charge, links>>
  BY DEF CreateCommit, WebhookCommit, PollCommit, ApproveCommit, OperateCommit, gatewayVars
<1>9. CASE CreateCommit(r)
  <2> DEFINE pay == Attempt(q.pay, q.method, q.charge)
  <2>1. /\ q.method \in OnlineMethods /\ q.charge \in Charges /\ order[q.o].status \in Payable
        /\ q.got \in PaymentStatus
    BY <1>2, <1>3, <1>9 DEF CreateCommit, Runs, RequestOK, Asked
  <2>2. q.pay.status # "approved" /\ GatewayOf[q.method] = "mercado_pago"
    BY <1>3, <2>1 DEF PaidInv, PaidShape, OnlyMercadoPago
  <2>3. /\ pay \in PaymentRow /\ pay.status = "pending" /\ pay.provider = "mercado_pago"
        /\ pay.mpId = q.charge /\ pay.remote = q.charge
    <3>1. pay \in PaymentRow
      BY <1>3, <2>1, AttemptType
    <3>2. pay = [[q.pay EXCEPT !.method = q.method, !.provider = "mercado_pago"]
                   EXCEPT !.status = "pending", !.provider = @, !.mpId = q.charge,
                          !.remote = q.charge,
                          !.pod = @ /\ GatewayOf[q.method] # "asaas"]
      BY <2>2 DEF Attempt
    <3>3. QED
      BY <1>3, <3>1, <3>2 DEF PaymentRow
  <2> HIDE DEF pay
  <2>4. Named(pay) /\ SameIds(pay) /\ pay.status # Missing
    BY <2>3 DEF Named, SameIds, Alive, Missing
  <2>5. CASE q.got # "pending"
    <3>1. ApplyStatus(r, pay, q.ord, q.got, "system", FALSE)
      BY <1>9, <2>5 DEF CreateCommit, pay
    <3>2. q.got \notin Alive => Over(pay.mpId)
      BY <1>6, <2>1, <2>3
    <3>3. QED
      BY <1>2, <1>3, <1>4, <1>8, <2>1, <2>3, <2>4, <3>1, <3>2, ApplyRecords
  <2>6. CASE q.got = "pending"
    <3>1. payment' = [payment EXCEPT ![q.o] = SavePayment(payment[q.o], payment[q.o], pay)]
          /\ Leave(r)
      BY <1>3, <1>9, <2>6 DEF CreateCommit, pay
    <3>2. payment \in [Orders -> PaymentRow]
      BY DEF Sound, TypeOK, StoreTypeOK
    <3>3. payment'[q.o] = pay /\ \A x \in Orders : x # q.o => payment'[x] = payment[x]
      BY <1>3, <2>3, <3>1, <3>2, PaymentSavedFresh
    <3>4. QED
      BY <1>3, <1>8, <2>4, <3>1, <3>3, WrittenRecord
  <2>7. QED
    BY <2>5, <2>6
<1>10. CASE WebhookCommit(r)
  <2> DEFINE pay == Adopt("mercado_pago", q.pay, q.charge)
  <2>1. q.got \in PaymentStatus /\ q.charge \in Charges /\ Concerned(q.pay, q.charge)
        /\ Owned(q.o, q.charge) /\ q.charge # NoCharge
    BY <1>2, <1>3, <1>10 DEF WebhookCommit, Runs, RequestOK, Told
  <2>2. /\ pay \in PaymentRow /\ pay.status = q.pay.status /\ pay.provider = "mercado_pago"
        /\ pay.mpId = q.charge /\ pay.remote = q.charge
    BY <1>3, <2>1, AdoptType DEF Adopt, PaymentRow, Gateways, Concerned
  <2>3. ApplyStatus(r, pay, q.ord, q.got, "system", TRUE)
    BY <1>7, <1>10, <2>1 DEF WebhookCommit
  <2> HIDE DEF pay
  <2>4. pay.status \notin Alive \cup {Missing} => Over(pay.mpId)
    BY <1>5, <2>1, <2>2, StoreAssumption DEF Named, Over, Concerned, StoreAssumption
  <2>5. pay.status # Missing
    BY <1>3, <1>7, <2>1, <2>2 DEF Placed
  <2>6. Named(pay) /\ SameIds(pay)
    BY <2>2, <2>4 DEF Named, SameIds
  <2>7. QED
    BY <1>2, <1>3, <1>4, <1>6, <1>8, <2>1, <2>2, <2>3, <2>5, <2>6, ApplyRecords
<1>11. CASE PollCommit(r)
  <2> DEFINE pay == Adopt("mercado_pago", q.pay, q.charge)
  <2>1. /\ q.got \in PaymentStatus /\ q.pay.provider = "mercado_pago"
        /\ q.charge = q.pay.mpId /\ q.charge # NoCharge /\ Owned(q.o, q.charge)
    BY <1>2, <1>3, <1>5, <1>11 DEF PollCommit, Runs, RequestOK, Told, Named, Gateways
  <2>2. /\ pay \in PaymentRow /\ pay.status = q.pay.status /\ pay.provider = "mercado_pago"
        /\ pay.mpId = q.charge /\ pay.remote = q.charge
    BY <1>3, <2>1, AdoptType DEF Adopt, PaymentRow, Gateways
  <2>3. ApplyStatus(r, pay, q.ord, q.got, "system", TRUE)
    BY <1>11, <2>1 DEF PollCommit
  <2> HIDE DEF pay
  <2>4. pay.status # Missing
    BY <1>3, <1>7, <2>1, <2>2 DEF Placed
  <2>5. Named(pay) /\ SameIds(pay)
    BY <1>5, <2>1, <2>2 DEF Named, SameIds
  <2>6. QED
    BY <1>2, <1>3, <1>4, <1>6, <1>8, <2>1, <2>2, <2>3, <2>4, <2>5, ApplyRecords
<1>12. CASE ApproveCommit(r) \/ OperateCommit(r)
  <2>1. PICK answer \in PaymentStatus :
          /\ ApplyStatus(r, q.pay, q.ord, answer, "admin", FALSE)
          /\ answer = "approved" \/ (answer = q.got /\ op = "operate_commit")
    BY <1>2, <1>4, <1>12 DEF ApproveCommit, OperateCommit, Runs, RequestOK
  <2>2. q.pay.provider \notin {"asaas", "pagarme"}
        /\ (q.pay.provider = "mercado_pago" => SameIds(q.pay))
    BY <1>5 DEF Named, SameIds
  <2>3. (q.pay.provider = "mercado_pago" /\ answer \notin Alive) => Over(q.pay.mpId)
    BY <1>2, <1>6, <2>1, <2>2 DEF Told, Alive, SameIds
  <2>4. QED
    BY <1>2, <1>3, <1>4, <1>8, <2>1, <2>2, <2>3, ApplyRecords
<1>13. QED
  BY <1>9, <1>10, <1>11, <1>12

\* A link to Mercado Pago's checkout, and the switch to paying the courier.
LEMMA AttemptsRecord ==
  ASSUME Sound, SerialInv, PaidInv, RecordInv, NEW r \in Requests,
         PreferenceCommit(r) \/ SwitchCommit(r)
  PROVE  MeetsRecord
<1> DEFINE q == req[r]
<1>1. PICK op \in {"preference", "switch_to_pay_on_delivery"} : Runs(r, op)
  BY DEF PreferenceCommit, SwitchCommit
<1>2. q \in Request /\ q.op = op /\ Fresh(q) /\ Asked(q)
  BY <1>1, Running DEF Runs, SerialInv, FreshInv, Free, Idle, Ops
<1>3. /\ q.o \in Orders /\ q.ord = order[q.o] /\ q.pay = payment[q.o] /\ q.pay \in PaymentRow
      /\ q.ord \in OrderRow /\ order[q.o].status \in Payable
  BY <1>1, <1>2 DEF Request, Fresh, Asked, Later
<1>4. payment \in [Orders -> PaymentRow] /\ order \in [Orders -> OrderRow]
  BY DEF Sound, TypeOK, StoreTypeOK
<1>5. SameIds(q.pay) /\ q.pay.status # "approved"
  BY <1>3 DEF RecordInv, Known, Unpaid, PaidInv, PaidShape
<1>6. CASE PreferenceCommit(r)
  <2> DEFINE row == [q.pay EXCEPT !.method = "credit_card", !.provider = "mercado_pago"]
             pay == [row EXCEPT !.status = "pending"]
  <2>1. row \in PaymentRow /\ row.provider = "mercado_pago"
        /\ row.mpId = q.pay.mpId /\ row.remote = q.pay.remote
    BY <1>3 DEF PaymentRow, Methods, Providers
  <2>2. /\ pay \in PaymentRow /\ pay.status = "pending" /\ pay.provider = "mercado_pago"
        /\ pay.mpId = q.pay.mpId /\ pay.remote = q.pay.remote
    BY <2>1 DEF PaymentRow, PaymentStatus
  <2>3. /\ payment' = [payment EXCEPT ![q.o] = SavePayment(payment[q.o], payment[q.o], pay)]
        /\ Leave(r) /\ charge' = charge /\ links' = links \cup {q.o}
    BY <1>3, <1>5, <1>6 DEF PreferenceCommit
  <2> HIDE DEF pay
  <2>4. payment'[q.o] = pay /\ \A x \in Orders : x # q.o => payment'[x] = payment[x]
    BY <1>3, <1>4, <2>2, <2>3, PaymentSavedFresh
  <2>5. Named(pay) /\ SameIds(pay) /\ pay.status # Missing
    BY <1>5, <2>2 DEF Named, SameIds, Alive, Missing
  <2>6. QED
    BY <1>3, <2>3, <2>4, <2>5, WrittenRecord
<1>7. CASE SwitchCommit(r)
  <2> DEFINE pay == [q.pay EXCEPT !.method = "cash", !.status = "pending",
                                  !.provider = "on_delivery", !.mpId = NoCharge, !.pod = TRUE]
             row == [q.ord EXCEPT !.status = "paid"]
  <2>1. pay \in PaymentRow /\ pay.status = "pending" /\ pay.provider = "on_delivery"
    BY <1>3 DEF PaymentRow, PaymentStatus, Methods, Providers
  <2>2. row \in OrderRow /\ row.status = "paid"
    BY <1>3 DEF OrderRow, OrderStatus
  <2>3. /\ payment' = [payment EXCEPT ![q.o] = SavePayment(payment[q.o], payment[q.o], pay)]
        /\ order' = [order EXCEPT ![q.o] = SaveOrder(order[q.o], order[q.o], row)]
        /\ Leave(r) /\ UNCHANGED <<charge, links>>
    BY <1>3, <1>7 DEF SwitchCommit, gatewayVars
  <2> HIDE DEF pay, row
  <2>4. payment'[q.o] = pay /\ \A x \in Orders : x # q.o => payment'[x] = payment[x]
    BY <1>3, <1>4, <2>1, <2>3, PaymentSavedFresh
  <2>5. order'[q.o] = row
    BY <1>3, <1>4, <2>2, <2>3, SavedFresh
  <2>6. order'[q.o].status \notin Payable \cup {Missing}
    BY <2>2, <2>5 DEF Payable, Missing
  <2>7. Named(pay) /\ pay.status # Missing
    BY <2>1 DEF Named, Missing
  <2>8. QED
    BY <1>3, <2>3, <2>4, <2>6, <2>7, WrittenRecord
<1>8. QED
  BY <1>6, <1>7

\* The requests that only load, and those that end.
LEMMA ReadsTell ==
  ASSUME Sound, RecordInv, NEW r \in Requests,
         \/ CreateMiss(r) \/ Abort(r)
         \/ \E o \in Orders :
              \/ \E m \in OnlineMethods : CreateRead(r, o, m)
              \/ PreferenceRead(r, o) \/ SwitchRead(r, o) \/ PollRead(r, o)
              \/ \E how \in {"manual", "cash", "pay_on_delivery"} : ApproveRead(r, o, how)
              \/ \E op \in {"cancel_call", "refund_call"} : OperateRead(r, o, op)
  PROVE  MeetsRecord
<1> DEFINE fits(p) == p = Idle \/ (Told(p) /\ p.op \notin Notified)
<1>1. UNCHANGED <<payment, charge, links>>
  BY DEF CreateMiss, Abort, CreateRead, PreferenceRead, SwitchRead, PollRead, ApproveRead,
     OperateRead, gatewayVars
<1>2. ASSUME NEW p, Enter(r, p), fits(p) PROVE MeetsRecord
  BY <1>1, <1>2, OnlyTold
<1>3. \A p : Quiet(p) => fits(p)
  BY QuietTold
<1>4. ASSUME NEW o \in Orders PROVE payment[o].provider \in Gateways =>
                                        payment[o].provider = "mercado_pago"
                                        /\ SameIds(payment[o])
  BY DEF RecordInv, Known, Named, SameIds, Gateways
<1>5. /\ \A o, m : fits([Loaded("create_call", o) EXCEPT !.method = m])
      /\ \A o : /\ fits(Loaded("preference", o)) /\ fits(Loaded("approve", o))
                /\ fits(Loaded("switch_to_pay_on_delivery", o))
  BY <1>3 DEF Loaded, Quiet, Notified
<1>6. ASSUME NEW o \in Orders, payment[o].provider \in Gateways
      PROVE  /\ fits([Loaded("status_poll", o) EXCEPT !.charge = ChargeOf(payment[o])])
             /\ \A op \in {"cancel_call", "refund_call"} :
                  fits([Loaded(op, o) EXCEPT !.charge = payment[o].remote])
  BY <1>4, <1>6 DEF Loaded, Told, Notified, ChargeOf
<1>7. CASE CreateMiss(r)
  <2> DEFINE p == [req[r] EXCEPT !.op = "create_charge"]
  <2>1. req[r] \in Request /\ req[r].op = "create_call" /\ Told(req[r])
    BY <1>7, Running DEF CreateMiss, Runs, Ops, RecordInv, Free, Idle
  <2>2. p.op = "create_charge" /\ p.got = req[r].got /\ p.charge = req[r].charge
    BY <2>1 DEF Request
  <2> HIDE DEF p
  <2>3. fits(p)
    BY <2>1, <2>2 DEF Told, Notified
  <2>4. QED
    BY <1>2, <1>7, <2>3 DEF CreateMiss, p
<1>8. fits(Idle)
  OBVIOUS
<1> HIDE DEF fits
<1>9. ASSUME NEW o \in Orders,
             \/ \E m \in OnlineMethods : CreateRead(r, o, m)
             \/ PreferenceRead(r, o) \/ SwitchRead(r, o)
             \/ \E how \in {"manual", "cash", "pay_on_delivery"} : ApproveRead(r, o, how)
      PROVE  MeetsRecord
  BY <1>2, <1>5, <1>9 DEF CreateRead, PreferenceRead, SwitchRead, ApproveRead
<1>10. ASSUME NEW o \in Orders, PollRead(r, o) PROVE MeetsRecord
  BY <1>2, <1>6, <1>10 DEF PollRead, Polls
<1>11. ASSUME NEW o \in Orders, NEW op \in {"cancel_call", "refund_call"}, OperateRead(r, o, op)
       PROVE  MeetsRecord
  BY <1>2, <1>6, <1>11 DEF OperateRead
<1>12. CASE Abort(r)
  <2>1. Enter(r, Idle)
    BY <1>12 DEF Abort, Leave, Enter
  <2>2. QED
    BY <1>2, <1>8, <2>1
<1>13. QED
  BY <1>7, <1>9, <1>10, <1>11, <1>12

\* Mercado Pago's word for one of its charges.
LEMMA AnswerTold ==
  ASSUME Sound, RecordInv, NEW c \in Charges, charge[c] # Unused, NEW event
  PROVE  LET got == Answer(charge[c].gateway, charge[c].status, event)
         IN /\ got \in Alive \/ Over(c)
            /\ got = "approved" => ~Over(c)
<1>1. charge[c].gateway = "mercado_pago" /\ charge[c].status \in ChargeStatus
  BY DEF RecordInv, Sound, TypeOK, GatewayTypeOK, ChargeRow
<1>2. Answer(charge[c].gateway, charge[c].status, event) = MpStatus(charge[c].status)
  BY <1>1 DEF Answer
<1>3. QED
  BY <1>1, <1>2 DEF MpStatus, ChargeStatus, Alive, Over

\* A customer's attempt gets an answer, on a charge that is there or a new one.
LEMMA AttemptsTell ==
  ASSUME Sound, SerialInv, RecordInv, GatewayAssumption, OnlyMercadoPago, NEW r \in Requests,
         NEW c \in Charges,
         CreateReuse(r, c) \/ \E s \in ChargeStatus : CreateCharge(r, c, s)
  PROVE  MeetsRecord
<1> DEFINE q == req[r]
<1>1. PICK op \in {"create_call", "create_charge"} : Runs(r, op)
  BY DEF CreateReuse, CreateCharge
<1>2. /\ q \in Request /\ q.op = op /\ q.o \in Orders /\ q.method \in OnlineMethods
      /\ Fresh(q) /\ Asked(q)
  BY <1>1, CreateRunning DEF Runs, SerialInv, FreshInv, Free, Idle
<1>3. GatewayOf[q.method] = "mercado_pago" /\ Placed(q.o)
  BY <1>1, <1>2 DEF OnlyMercadoPago, Fresh, Asked, Later, RecordInv, Known, Payable, Missing
<1>4. UNCHANGED <<payment, links>>
  BY DEF CreateReuse, CreateCharge, gatewayVars
<1> DEFINE found(s) == charge' = charge /\ charge[c] # Unused /\ charge[c].status = s
           made(s)  == /\ charge[c] = Unused
                       /\ charge' = [charge EXCEPT ![c] =
                            [order |-> q.o, method |-> q.method, gateway |-> "mercado_pago",
                             status |-> s]]
<1>5. PICK s \in ChargeStatus : Answered(r, c, s) /\ (found(s) \/ made(s))
  <2>1. CASE CreateReuse(r, c)
    <3>1. charge[c] # Unused /\ Answered(r, c, charge[c].status) /\ charge' = charge
      BY <2>1 DEF CreateReuse, Earlier, gatewayVars
    <3>2. charge[c].status \in ChargeStatus
      BY <3>1 DEF Sound, TypeOK, GatewayTypeOK, ChargeRow
    <3>3. QED
      BY <3>1, <3>2
  <2>2. CASE \E s \in ChargeStatus : CreateCharge(r, c, s)
    <3>1. PICK s \in ChargeStatus : CreateCharge(r, c, s)
      BY <2>2
    <3>2. Answered(r, c, s) /\ made(s)
      BY <1>3, <3>1 DEF CreateCharge
    <3>3. QED
      BY <3>2
  <2>3. QED
    BY <2>1, <2>2
<1> DEFINE got == CreateAnswer("mercado_pago", q.method, s)
           p   == [q EXCEPT !.op = "create_commit", !.charge = c, !.got = got]
<1>6. /\ charge'[c] # Unused /\ charge'[c].status = s
      /\ \A d \in Charges : d # c => charge'[d] = charge[d]
  BY <1>5 DEF Sound, TypeOK, GatewayTypeOK, Unused
<1>7. ChargesGo
  BY <1>2, <1>3, <1>5, <1>6 DEF ChargesGo, Sound, TypeOK, GatewayTypeOK
<1>8. got \in Alive \/ s \in {"rejected", "cancelled", "expired", "charged_back"}
  BY DEF CreateAnswer, Answer, MpStatus, Alive
<1>9. p.op = "create_commit" /\ p.charge = c /\ p.got = got
  BY <1>2 DEF Request
<1>10. req'[r] = p /\ \A x \in Requests : x # r => req'[x] = req[x]
  BY <1>3, <1>5, Entered DEF Answered
<1> HIDE DEF p, got
<1>11. Told(req[r])'
  BY <1>6, <1>8, <1>9, <1>10 DEF Told, Over, Notified
<1>12. Tells(r)
  BY <1>9, <1>10, <1>11 DEF Tells, Notified
<1>13. QED
  BY <1>4, <1>7, <1>10, <1>12 DEF MeetsRecord, Records

\* A notice comes in, and finds its payment.
LEMMA NoticesTell ==
  ASSUME Sound, SerialInv, RecordInv, StoreAssumption, NEW r \in Requests,
         WebhookLoad(r) \/ \E n \in Notice : WebhookFetch(r, n)
  PROVE  MeetsRecord
<1>1. UNCHANGED <<payment, charge, links>>
  BY DEF WebhookLoad, WebhookFetch, gatewayVars
<1>2. ASSUME NEW n \in Notice, WebhookFetch(r, n) PROVE MeetsRecord
  <2> DEFINE c   == n[1]
             o   == charge[c].order
             got == Answer(charge[c].gateway, charge[c].status, n[2])
             p   == [Continued("webhook_call", o, "none") EXCEPT
                       !.event = n, !.charge = c, !.got = got]
  <2>1. Enter(r, p) /\ n \in notices /\ \A x \in Requests : ~Free(x) => req[x].event # n
    BY <1>2 DEF WebhookFetch
  <2>2. c \in Charges /\ charge[c] # Unused
    BY <2>1 DEF Sound, MoneyInv, NoticeOK, Notice
  <2>3. o \in Orders /\ Placed(o) /\ Named(payment[o])
    BY <2>2 DEF Sound, TypeOK, GatewayTypeOK, ChargeRow, RecordInv, Known
  <2>4. (got \in Alive \/ Over(c)) /\ (got = "approved" => ~Over(c))
    BY <2>2, AnswerTold
  <2>5. /\ p.op = "webhook_call" /\ p.o = o /\ p.event = n /\ p.charge = c /\ p.got = got
    BY DEF Continued
  <2> HIDE DEF p, got
  <2>6. got = "approved" => Standing(payment[o], c)
    BY <2>2, <2>3, <2>4, StoreAssumption
    DEF Standing, Concerned, Named, Over, Placed, StoreAssumption
  <2>7. Told(p)
    BY <2>4, <2>5, <2>6 DEF Told
  <2>8. QED
    BY <1>1, <2>1, <2>5, <2>7, OnlyTold
<1>3. CASE WebhookLoad(r)
  <2> DEFINE q == req[r]
             p == [q EXCEPT !.op = "webhook", !.ord = order[q.o], !.pay = payment[q.o]]
  <2>1. /\ q \in Request /\ RequestOK(q) /\ q.op = "webhook_call" /\ Told(q)
    BY <1>3, Running DEF WebhookLoad, Runs, Ops, RecordInv, Free, Idle
  <2>2. q.charge \in Charges /\ charge[q.charge].gateway = "mercado_pago"
    BY <2>1 DEF RequestOK, Owned, Request, RecordInv
  <2>3. CASE Enter(r, Idle)
    BY <1>1, <2>3, OnlyTold
  <2>4. CASE ~Enter(r, Idle)
    <3>1. Enter(r, p) /\ Concerns("mercado_pago", payment[q.o], q.charge)
      BY <1>3, <2>2, <2>4 DEF WebhookLoad, Leave, Enter
    <3>2. Concerned(payment[q.o], q.charge)
      BY <3>1 DEF Concerns, Concerned
    <3>3. /\ p.op = "webhook" /\ p.o = q.o /\ p.pay = payment[q.o] /\ p.got = q.got
          /\ p.charge = q.charge /\ p.event = q.event
      BY <2>1 DEF Request
    <3> HIDE DEF p
    <3>4. Told(p)
      BY <2>1, <3>2, <3>3 DEF Told, Notified
    <3>5. QED
      BY <1>1, <2>1, <3>1, <3>3, <3>4, OnlyTold DEF Runs
  <2>5. QED
    BY <2>3, <2>4
<1>4. QED
  BY <1>2, <1>3

\* A poll gets its answer, and an operation of the staff is done at the gateway.
LEMMA AnswersTell ==
  ASSUME Sound, SerialInv, RecordInv, NEW r \in Requests,
         PollAnswer(r) \/ \E s \in ChargeStatus : OperateRemote(r, s)
  PROVE  MeetsRecord
<1> DEFINE q == req[r]
<1>1. /\ q \in Request /\ RequestOK(q) /\ q.op \in {"status_poll", "cancel_call", "refund_call"}
      /\ Told(q)
  <2>1. PICK op \in {"status_poll", "cancel_call", "refund_call"} : Runs(r, op)
    BY DEF PollAnswer, OperateRemote
  <2>2. QED
    BY <2>1, Running DEF Runs, Ops, RecordInv, Free, Idle
<1>2. q.charge \in Charges /\ charge[q.charge] # Unused
  BY <1>1 DEF RequestOK, Owned, Request
<1>3. CASE PollAnswer(r)
  <2> DEFINE got == Answer(charge[q.charge].gateway, charge[q.charge].status, "none")
             p   == [q EXCEPT !.got = got]
  <2>1. Enter(r, p) /\ UNCHANGED <<payment, charge, links>> /\ q.op = "status_poll"
    BY <1>3 DEF PollAnswer, Runs, gatewayVars
  <2>2. got \in Alive \/ Over(q.charge)
    BY <1>2, AnswerTold
  <2>3. p.op = q.op /\ p.charge = q.charge /\ p.pay = q.pay /\ p.got = got
    BY <1>1 DEF Request
  <2> HIDE DEF p, got
  <2>4. Told(p) /\ p.op \notin Notified
    BY <1>1, <2>1, <2>2, <2>3 DEF Told, Notified
  <2>5. QED
    BY <2>1, <2>4, OnlyTold
<1>4. ASSUME NEW s \in ChargeStatus, OperateRemote(r, s) PROVE MeetsRecord
  <2> DEFINE p == [q EXCEPT !.op = "operate_commit", !.ord = order[q.o], !.got = s]
  <2>1. /\ Enter(r, p) /\ charge' = [charge EXCEPT ![q.charge].status = s]
        /\ UNCHANGED <<payment, links>> /\ q.op \in {"cancel_call", "refund_call"}
        /\ charge[q.charge].status \in {"pending", "approved"}
        /\ s \in {"refunded", "cancelled"}
    BY <1>4 DEF OperateRemote, Runs
  <2>2. /\ p.op = "operate_commit" /\ p.charge = q.charge /\ p.pay = q.pay /\ p.got = s
    BY <1>1 DEF Request
  <2> HIDE DEF p
  <2>3. charge[q.charge] \in ChargeRow /\ charge \in [Charges -> ChargeRow \cup {Unused}]
    BY <1>2 DEF Sound, TypeOK, GatewayTypeOK
  <2>4. /\ \A d \in Charges : d # q.charge => charge'[d] = charge[d]
        /\ charge'[q.charge].status = s
        /\ charge'[q.charge].gateway = charge[q.charge].gateway
        /\ charge'[q.charge].order = charge[q.charge].order
        /\ charge'[q.charge] = [charge[q.charge] EXCEPT !.status = s]
    BY <1>2, <2>1, <2>3 DEF ChargeRow
  <2>5. charge'[q.charge] # Unused
    BY <2>3, <2>4 DEF ChargeRow, Unused
  <2>6. ChargesGo
    BY <1>2, <2>1, <2>4, <2>5 DEF ChargesGo, Over
  <2>7. req'[r] = p /\ \A x \in Requests : x # r => req'[x] = req[x]
    BY <2>1, Entered
  <2>8. Told(req[r])'
    BY <1>1, <1>2, <2>1, <2>2, <2>4, <2>5, <2>7 DEF Told, Over, Notified, Alive
  <2>9. Tells(r)
    BY <2>2, <2>7, <2>8 DEF Tells, Notified
  <2>10. QED
    BY <2>1, <2>6, <2>7, <2>9 DEF MeetsRecord, Records
<1>5. QED
  BY <1>3, <1>4

\* A charge of Mercado Pago's that came to nothing moves no more, and the customer
\* pays by himself only through a link.
LEMMA GatewayRecords ==
  ASSUME Sound, RecordInv, NEW c \in Charges, NEW s \in ChargeStatus,
         GatewayMove(c, s) \/ \E o \in Orders : PayLink(c, o, s)
  PROVE  MeetsRecord
<1>1. UNCHANGED <<payment, req, links>> /\ charge \in [Charges -> ChargeRow \cup {Unused}]
  BY DEF GatewayMove, PayLink, storeVars, Sound, TypeOK, GatewayTypeOK
<1>2. CASE GatewayMove(c, s)
  <2>1. /\ charge[c] \in ChargeRow /\ charge[c] # Unused
        /\ ChargeMay(charge[c].gateway, charge[c].status, s)
        /\ charge' = [charge EXCEPT ![c].status = s]
    BY <1>1, <1>2 DEF GatewayMove
  <2>2. ~Over(c)
    BY <2>1 DEF RecordInv, ChargeMay, Over
  <2>3. /\ \A d \in Charges : d # c => charge'[d] = charge[d]
        /\ charge'[c].gateway = charge[c].gateway /\ charge'[c].order = charge[c].order
        /\ charge'[c] = [charge[c] EXCEPT !.status = s]
    BY <1>1, <2>1 DEF ChargeRow
  <2>4. charge'[c] # Unused
    BY <2>1, <2>3 DEF ChargeRow, Unused
  <2>5. QED
    BY <1>1, <2>1, <2>2, <2>3, <2>4 DEF MeetsRecord, ChargesGo, Records
<1>3. ASSUME NEW o \in Orders, PayLink(c, o, s) PROVE MeetsRecord
  <2>1. /\ charge[c] = Unused /\ Placed(o)
        /\ charge' = [charge EXCEPT ![c] =
             [order |-> o, method |-> "credit_card", gateway |-> "mercado_pago", status |-> s]]
    BY <1>3 DEF PayLink, RecordInv
  <2>2. /\ \A d \in Charges : d # c => charge'[d] = charge[d]
        /\ charge'[c].gateway = "mercado_pago" /\ charge'[c].order = o
    BY <1>1, <2>1
  <2>3. QED
    BY <1>1, <2>1, <2>2 DEF MeetsRecord, ChargesGo, Records
<1>4. QED
  BY <1>2, <1>3

LEMMA StepRecords ==
  ASSUME Sound, TypeOK', SerialInv, PaidInv, RecordInv, OnlyMercadoPago, NoHandEdits,
         StoreAssumption, AdminAssumption, GatewayAssumption, Next, Undisturbed
  PROVE  RecordInv'
<1>1. OrdersMove /\ PaymentsMove
  BY StepMoves, StepPaid
<1>2. ASSUME NEW o \in Orders, Kitchen(o) \/ Creation(o), UNCHANGED gatewayVars
      PROVE  MeetsRecord
  BY <1>2, ShopTells
<1>3. ASSUME NEW r \in Requests, OrderRequest(r), UNCHANGED gatewayVars PROVE MeetsRecord
  BY <1>3, OrdersTell, TableTells
<1>4. ASSUME NEW r \in Requests, PaymentRequest(r) PROVE MeetsRecord
  <2>1. CASE \/ CreateCommit(r) \/ WebhookCommit(r) \/ PollCommit(r) \/ ApproveCommit(r)
             \/ OperateCommit(r)
    BY <2>1, ReportsRecord
  <2>2. CASE PreferenceCommit(r) \/ SwitchCommit(r)
    BY <2>2, AttemptsRecord
  <2>3. CASE \/ CreateMiss(r) \/ Abort(r)
             \/ \E o \in Orders :
                  \/ \E m \in OnlineMethods : CreateRead(r, o, m)
                  \/ PreferenceRead(r, o) \/ SwitchRead(r, o) \/ PollRead(r, o)
                  \/ \E how \in {"manual", "cash", "pay_on_delivery"} : ApproveRead(r, o, how)
                  \/ \E op \in {"cancel_call", "refund_call"} : OperateRead(r, o, op)
    BY <2>3, ReadsTell
  <2>4. CASE \E c \in Charges : \/ CreateReuse(r, c)
                                \/ \E s \in ChargeStatus : CreateCharge(r, c, s)
    BY <2>4, AttemptsTell
  <2>5. CASE WebhookLoad(r) \/ \E n \in Notice : WebhookFetch(r, n)
    BY <2>5, NoticesTell
  <2>6. CASE PollAnswer(r) \/ \E s \in ChargeStatus : OperateRemote(r, s)
    BY <2>6, AnswersTell
  <2>7. QED
    BY <1>4, <2>1, <2>2, <2>3, <2>4, <2>5, <2>6 DEF PaymentRequest
<1>5. ASSUME NEW c \in Charges, NEW s \in ChargeStatus,
             GatewayMove(c, s) \/ \E o \in Orders : PayLink(c, o, s)
      PROVE  MeetsRecord
  BY <1>5, GatewayRecords
<1>6. MeetsRecord
  BY <1>2, <1>3, <1>4, <1>5 DEF Next
<1>7. QED
  BY <1>1, <1>6, RecordKept

\* The answer to a notice of an approval leaves the payment approved, or refunded.
LEMMA NoticeAnswered ==
  ASSUME Sound, SerialInv, RecordInv, NEW r \in Requests, WebhookCommit(r),
         req[r].got = "approved"
  PROVE  payment'[req[r].o].status \in {"approved", "refunded"}
<1> DEFINE q == req[r]
           pay == Adopt("mercado_pago", q.pay, q.charge)
<1>1. q \in Request /\ RequestOK(q) /\ q.op = "webhook" /\ Fresh(q) /\ Told(q)
  BY Running DEF WebhookCommit, Runs, SerialInv, FreshInv, RecordInv, Free, Idle, Ops
<1>2. /\ q.o \in Orders /\ q.pay = payment[q.o] /\ q.pay \in PaymentRow
      /\ q.charge \in Charges /\ charge[q.charge] # Unused
  BY <1>1 DEF Request, Fresh, Later, RequestOK, Owned
<1>3. charge[q.charge].gateway = "mercado_pago" /\ q.pay.status \in Alive
  BY <1>1, <1>2 DEF RecordInv, Told, Standing, Notified
<1>4. pay \in PaymentRow /\ pay.status = q.pay.status
  BY <1>2, AdoptType DEF Adopt, PaymentRow, Gateways
<1>5. ApplyStatus(r, pay, q.ord, "approved", "system", TRUE)
  BY <1>3 DEF WebhookCommit
<1> HIDE DEF pay
<1>6. payment \in [Orders -> PaymentRow] /\ Settled(pay.status, "approved") = "approved"
  BY DEF Sound, TypeOK, StoreTypeOK, Settled
<1>7. CASE Accepts(pay.status, "approved")
  <2>1. payment' = [payment EXCEPT ![q.o] =
                      SavePayment(payment[q.o], payment[q.o], [pay EXCEPT !.status = "approved"])]
    BY <1>2, <1>5, <1>6, <1>7 DEF ApplyStatus
  <2>2. [pay EXCEPT !.status = "approved"] \in PaymentRow
        /\ [pay EXCEPT !.status = "approved"].status = "approved"
    BY <1>4 DEF PaymentRow, PaymentStatus
  <2>3. payment'[q.o].status = "approved"
    BY <1>2, <1>6, <2>1, <2>2, PaymentSavedFresh
  <2>4. QED
    BY <2>3
<1>8. CASE ~Accepts(pay.status, "approved")
  <2>1. pay.status = "refunded"
    BY <1>3, <1>4, <1>8 DEF Alive, Accepts, PaymentMay, CanTransition, PaymentTransitions
  <2>2. payment' = [payment EXCEPT ![q.o] = SavePayment(payment[q.o], payment[q.o], pay)]
    BY <1>2, <1>5, <1>6, <1>8 DEF ApplyStatus
  <2>3. payment'[q.o] = pay
    BY <1>2, <1>4, <1>6, <2>2, PaymentSavedFresh
  <2>4. QED
    BY <2>1, <2>3
<1>9. QED
  BY <1>7, <1>8

LEMMA InitRecord == Init => RecordInv
BY DEF Init, StoreInit, GatewayInit, RecordInv, Known, Named, Unpaid, SameIds, Alive, Free,
   NoOrder, NoPayment, Idle, Notified

\* With every charge at Mercado Pago and no order edited by hand, a notice of an
\* approval is never answered and lost: the webhook that takes it for its payment's
\* own records the approval, whatever attempt, refusal, poll or cancellation came in
\* between.  At ASAAS a Pix that expired can still be paid, and there it is lost.
THEOREM ApprovalsRecorded ==
  (OnlyMercadoPago /\ NoHandEdits) =>
    (Spec /\ [][Undisturbed]_vars => ApprovalNoticeIsRecorded)
<1> SUFFICES ASSUME OnlyMercadoPago, NoHandEdits
             PROVE  Spec /\ [][Undisturbed]_vars => ApprovalNoticeIsRecorded
  OBVIOUS
<1> DEFINE Step == \A r \in Requests :
         (Runs(r, "webhook") /\ req[r].got = "approved" /\ req[r].event \in seen' \ seen) =>
            payment'[req[r].o].status \in {"approved", "refunded"}
<1>1. Sound /\ SerialInv /\ RecordInv /\ [Next]_vars => [Step]_vars
  <2> SUFFICES ASSUME Sound, SerialInv, RecordInv, Next, NEW r \in Requests,
                      Runs(r, "webhook"), req[r].got = "approved", req[r].event \in seen' \ seen
               PROVE  payment'[req[r].o].status \in {"approved", "refunded"}
    OBVIOUS
  <2>1. PICK x \in Requests : WebhookLoad(x) \/ WebhookCommit(x)
    <3>1. seen' # seen
      OBVIOUS
    <3>2. ASSUME UNCHANGED gatewayVars PROVE FALSE
      BY <3>1, <3>2 DEF gatewayVars
    <3>3. ASSUME NEW c \in Charges, NEW s \in ChargeStatus,
                 GatewayMove(c, s) \/ \E o \in Orders : PayLink(c, o, s)
          PROVE  FALSE
      BY <3>1, <3>3 DEF GatewayMove, PayLink
    <3>4. ASSUME NEW x \in Requests, PaymentRequest(x) PROVE WebhookLoad(x) \/ WebhookCommit(x)
      BY <3>1, <3>4 DEF PaymentRequest, CreateRead, CreateReuse, CreateMiss, CreateCharge,
         CreateCommit, PreferenceRead, PreferenceCommit, SwitchRead, SwitchCommit, WebhookFetch,
         PollRead, PollAnswer, PollCommit, ApproveRead, ApproveCommit, OperateRead,
         OperateRemote, OperateCommit, Abort, gatewayVars
    <3>5. QED
      BY <3>2, <3>3, <3>4 DEF Next
  <2>2. req[x].op \in Notified /\ req[x].event = req[r].event
    BY <2>1 DEF WebhookLoad, WebhookCommit, Runs, Notified
  <2>3. x = r
    BY <2>2 DEF RecordInv, Runs, Notified
  <2>4. WebhookCommit(r)
    BY <2>1, <2>3 DEF WebhookLoad, Runs
  <2>5. QED
    BY <2>4, NoticeAnswered
<1>2. Sound /\ Sound' /\ SerialInv /\ PaidInv /\ RecordInv /\ [Next]_vars /\ [Undisturbed]_vars
        => RecordInv'
  <2>1. ASSUME Sound, Sound', SerialInv, PaidInv, RecordInv, Next, Undisturbed PROVE RecordInv'
    BY <2>1, StoreAssumption, AdminAssumption, GatewayAssumption, StepRecords DEF Sound
  <2>2. ASSUME RecordInv, UNCHANGED vars PROVE RecordInv'
    BY <2>2 DEF RecordInv, Known, Named, Unpaid, SameIds, Placed, Over, Told, Standing, Free,
       vars, storeVars, gatewayVars
  <2>3. ASSUME Next, UNCHANGED vars, RecordInv PROVE RecordInv'
    BY <2>2, <2>3
  <2>4. QED
    BY <2>1, <2>2
<1>3. QED
  BY <1>1, <1>2, InitRecord, PaidSound, AlwaysSound, SerialSound, PTL
  DEF Spec, ApprovalNoticeIsRecorded
=============================================================================
