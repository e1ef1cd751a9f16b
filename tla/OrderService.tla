---------------------------- MODULE OrderService ----------------------------
(***************************************************************************)
(* backend/services/order_service.py and the order transitions of          *)
(* backend/services/kds_service.py: creation of orders, the admin's status *)
(* changes, cancellation, archiving and the kitchen display's commands.    *)
(***************************************************************************)
EXTENDS OrderStore

CONSTANT AdminTargets   \* bound: the statuses an admin asks for by hand

ASSUME AdminAssumption == AdminTargets \subseteq OrderStatus

\* OrderService._get_order: archived orders are not found.
Visible(o) == order[o].status # Missing /\ ~order[o].archived

\* The columns change_status sets together with the status.
WithStatus(row, to) ==
  [row EXCEPT !.status  = to,
              !.paidAt  = @ \/ to \in {"paid", "pago"},
              !.started = @ \/ to = "preparing"]

\* create_from_checkout: the order and its payment are inserted together.  It
\* is paid at once when the courier collects or when the shop says so; an order
\* that staff enter may also wait for its payment.
Checkouts == {"online", "pay_on_delivery", "manual", "manual_pending"}

CreateFromCheckout(o, kind) ==
  /\ order[o] = NoOrder
  /\ Fulfillment[o] # "dine_in"
  /\ Balance >= 1
  /\ order' = [order EXCEPT ![o].status =
                 IF kind \in {"pay_on_delivery", "manual"} THEN "paid"
                 ELSE "aguardando_pagamento"]
  /\ payment' = [payment EXCEPT ![o] =
       [NoPayment EXCEPT
          !.status   = IF kind = "manual" THEN "approved" ELSE "pending",
          !.provider = CASE kind = "online" -> "mercado_pago"
                         [] kind = "pay_on_delivery" -> "on_delivery"
                         [] kind \in {"manual", "manual_pending"} -> "manual",
          !.method   = IF kind = "pay_on_delivery" THEN "cash" ELSE "pix",
          !.pod      = kind = "pay_on_delivery"]]
  /\ staffPaid' = [staffPaid EXCEPT ![o] = @ \/ kind = "manual"]
  /\ UNCHANGED <<ledger, units, points, published, req>>

\* create_from_table_session: the comanda is locked, so one order per session;
\* it goes to the kitchen at once and consumes its stock in the same commit.
CreateFromTableSession(o) ==
  /\ order[o] = NoOrder
  /\ Fulfillment[o] = "dine_in"
  /\ Balance >= 1
  /\ order' = [order EXCEPT ![o].status = "preparing", ![o].started = TRUE]
  /\ payment' = [payment EXCEPT ![o] = [NoPayment EXCEPT
                   !.status = "pending", !.provider = "salao", !.method = "cash"]]
  /\ ledger' = [ledger EXCEPT ![o] = ConsumeSale(o, "preparing")]
  /\ UNCHANGED <<units, points, published, staffPaid, req>>

\* confirm_table_session_payment: the cashier closes the bill.  The order and its
\* payment are loaded before the comanda is locked, and whatever became of the
\* order is not looked at.
ConfirmTableRead(r, o, method) ==
  /\ "confirm_table" \in EnabledOps
  /\ Free(r) /\ Fulfillment[o] = "dine_in" /\ order[o].status # Missing
  /\ payment[o].status \in {"pending", "approved", "paid"}
  /\ Enter(r, [Loaded("confirm_table", o) EXCEPT !.method = method])
  /\ UNCHANGED <<order, payment, ledger, units, points, published, staffPaid>>

\* A bill that was paid before is confirmed, and published, again.
ConfirmTableCommit(r) ==
  LET q == req[r]
  IN /\ Runs(r, "confirm_table")
     /\ payment' = [payment EXCEPT ![q.o] = SavePayment(@, q.pay,
          IF q.pay.status # "pending" THEN q.pay
          ELSE [q.pay EXCEPT !.status = "approved", !.method = q.method,
                             !.provider = "salao"])]
     /\ order' = [order EXCEPT ![q.o] = SaveOrder(@, q.ord, [q.ord EXCEPT !.paidAt = TRUE])]
     /\ staffPaid' = [staffPaid EXCEPT ![q.o] = TRUE]
     /\ published' = [published EXCEPT ![q.o].confirmed = Bump(@)]
     /\ Leave(r)
     /\ UNCHANGED <<ledger, units, points>>

-----------------------------------------------------------------------------
(* change_status, from the load of the order to the flush.                 *)

\* The gates before the state machine, for a caller that is not the KDS.
GatesPass(o, to) ==
  /\ ~(Fulfillment[o] = "dine_in" /\ to = "on_the_way")
  /\ ~(to = "preparing" /\ order[o].status \in {"paid", "pago", "ready_for_pickup"})
  /\ to \in {"ready_for_pickup", "on_the_way"} => units[o] # "working"
  /\ to = "ready_for_pickup" => units[o] = "none"
  /\ OrderMay(order[o].status, to)

ChangeStatusRead(r, o, to) ==
  /\ "change_status" \in EnabledOps
  /\ Free(r) /\ Visible(o)
  /\ GatesPass(o, to)
  /\ Enter(r, [Loaded("change_status", o) EXCEPT !.to = to])
  /\ UNCHANGED <<order, payment, ledger, units, points, published, staffPaid>>

\* The flush and the commit: the status of the snapshot, not of the table,
\* decides whether stock is consumed and whether a return is a loss.
CommitStatus(r, next) ==
  LET q    == req[r]
      used == IF q.to = "preparing" /\ q.ord.status # "ready_for_pickup"
              THEN ConsumeSale(q.o, q.to) ELSE ledger[q.o]
      kept == IF q.to \in {"cancelled", "refunded"}
              THEN ReverseSale(q.o, used, q.ord.started) ELSE used
  IN /\ StockSuffices(q.o, q.to)
     /\ order' = [order EXCEPT ![q.o] = SaveOrder(@, q.ord, WithStatus(q.ord, q.to))]
     /\ ledger' = [ledger EXCEPT ![q.o] = kept]
     /\ Enter(r, next)
     /\ UNCHANGED <<payment, units, points, published, staffPaid>>

\* Mutant: the points come with the dispatch.
AwardOnDispatch(r) ==
  /\ Runs(r, "change_status")
  /\ CommitStatus(r, IF req[r].to \in {"on_the_way", "delivered"}
                     THEN Continued("award_points", req[r].o, "none") ELSE Idle)

ChangeStatusCommit(r) ==
  /\ Runs(r, "change_status")
  /\ CommitStatus(r, IF req[r].to = "delivered"
                     THEN Continued("award_points", req[r].o, "none") ELSE Idle)

\* InventoryUnavailable propagates: the session is closed without a commit.
StockRefusal(r) ==
  /\ Runs(r, "change_status")
  /\ ~StockSuffices(req[r].o, req[r].to)
  /\ Leave(r)
  /\ UNCHANGED <<order, payment, ledger, units, points, published, staffPaid>>

\* award_points_for_order runs after the status is committed, in a transaction
\* of its own.
AwardPoints(r) ==
  /\ Runs(r, "award_points")
  /\ points' = [points EXCEPT ![req[r].o] = Bump(@)]
  /\ Leave(r)
  /\ UNCHANGED <<order, payment, ledger, units, published, staffPaid>>

-----------------------------------------------------------------------------
(* cancel, auto_cancel_expired and archive.                                *)

\* Mutant: the periodic job also takes paid orders.
SystemMayCancelPaid(o, who) ==
  who = "system" => order[o].status \in {"pagamento_expirado", "paid"}

\* The customer's route refuses an order that was paid for; the admin's does
\* not; the periodic job takes the orders whose payment expired.
MayCancel(o, who) ==
  CASE who = "customer" -> order[o].status \notin
         {"paid", "pago", "preparing", "ready_for_pickup", "on_the_way", "delivered"}
    [] who = "system"   -> /\ order[o].status = "pagamento_expirado"
                           /\ order[o].cancelledBy = "none"
    [] OTHER            -> TRUE

CancelRead(r, o, who) ==
  /\ "cancel" \in EnabledOps
  /\ Free(r) /\ Visible(o)
  /\ MayCancel(o, who)
  /\ OrderMay(order[o].status, "cancelled")
  /\ Enter(r, [Loaded("cancel", o) EXCEPT !.to = "cancelled", !.who = who])
  /\ UNCHANGED <<order, payment, ledger, units, points, published, staffPaid>>

CancelCommit(r) ==
  /\ Runs(r, "cancel")
  /\ CommitStatus(r, Continued("record_cancel", req[r].o, req[r].who))

\* cancel records who cancelled in a second commit; archive calls cancel and
\* goes on to its own.
RecordCancel(r) ==
  /\ Runs(r, "record_cancel") \/ Runs(r, "archive_record")
  /\ order' = [order EXCEPT ![req[r].o].cancelledBy = req[r].who]
  /\ Enter(r, IF Runs(r, "archive_record")
              THEN Continued("archive_mark", req[r].o, "none") ELSE Idle)
  /\ UNCHANGED <<payment, ledger, units, points, published, staffPaid>>

ArchiveRead(r, o) ==
  /\ "archive" \in EnabledOps
  /\ Free(r) /\ Visible(o)
  /\ IF order[o].status \in {"cancelled", "refunded", "delivered"}
     THEN Enter(r, Continued("archive_mark", o, "none"))
     ELSE /\ OrderMay(order[o].status, "cancelled")
          /\ Enter(r, [Loaded("archive", o) EXCEPT !.to = "cancelled", !.who = "admin"])
  /\ UNCHANGED <<order, payment, ledger, units, points, published, staffPaid>>

ArchiveCancel(r) ==
  /\ Runs(r, "archive")
  /\ CommitStatus(r, Continued("archive_record", req[r].o, "admin"))

\* The last commit of archive hides the order from every queue.
ArchiveMark(r) ==
  /\ Runs(r, "archive_mark")
  /\ order' = [order EXCEPT ![req[r].o].archived = TRUE]
  /\ Leave(r)
  /\ UNCHANGED <<payment, ledger, units, points, published, staffPaid>>

-----------------------------------------------------------------------------
(* The kitchen display loads the order FOR UPDATE before it reads it, so   *)
(* each of its commands is one step from the load to the commit.           *)

KdsStatus(o, to) == order' = [order EXCEPT ![o] = WithStatus(@, to)]

\* start_preparation makes the physical units, whose writer then owns the
\* stock: change_status consumes nothing for such an order.
KdsStartPreparation(o) ==
  /\ Visible(o) /\ order[o].status \in {"paid", "pago"}
  /\ units' = [units EXCEPT ![o] = "working"]
  /\ KdsStatus(o, "preparing")
  /\ UNCHANGED <<payment, ledger, points, published, staffPaid, req>>

\* KdsProductionService, seen from the order: its units become ready ...
KdsUnitsReady(o) ==
  /\ order[o].status = "preparing" /\ units[o] = "working"
  /\ units' = [units EXCEPT ![o] = "ready"]
  /\ UNCHANGED <<order, payment, ledger, points, published, staffPaid, req>>

\* ... and remake sends one back, under the lock of the order.
KdsRemake(o) ==
  /\ order[o].status = "preparing" /\ units[o] = "ready"
  /\ units' = [units EXCEPT ![o] = "working"]
  /\ UNCHANGED <<order, payment, ledger, points, published, staffPaid, req>>

\* mark_ready: orders without units keep their legacy gate.
KdsMarkReady(o) ==
  /\ Visible(o) /\ units[o] # "working"
  /\ OrderMay(order[o].status, "ready_for_pickup")
  /\ KdsStatus(o, "ready_for_pickup")
  /\ UNCHANGED <<payment, ledger, units, points, published, staffPaid, req>>

\* return_to_kitchen: the stock of the first preparation stays consumed.
KdsReturnToKitchen(o) ==
  /\ Visible(o) /\ order[o].status = "ready_for_pickup" /\ units[o] = "ready"
  /\ units' = [units EXCEPT ![o] = "working"]
  /\ KdsStatus(o, "preparing")
  /\ UNCHANGED <<payment, ledger, points, published, staffPaid, req>>

\* complete_pickup: complete_customer_pickup under the lock, then the points.
KdsCompletePickup(r, o) ==
  /\ Free(r) /\ Visible(o)
  /\ Fulfillment[o] = "pickup" /\ units[o] = "ready"
  /\ LocalFulfillment(Fulfillment[o], order[o].status)
  /\ KdsStatus(o, "delivered")
  /\ Enter(r, Continued("award_points", o, "none"))
  /\ UNCHANGED <<payment, ledger, units, points, published, staffPaid>>

\* serve_dine_in: the table's order is delivered; it earns no points.  The kitchen
\* display calls it with the order locked ...
KdsServeDineIn(o) ==
  /\ Visible(o) /\ Fulfillment[o] = "dine_in"
  /\ LocalFulfillment(Fulfillment[o], order[o].status)
  /\ KdsStatus(o, "delivered")
  /\ UNCHANGED <<payment, ledger, units, points, published, staffPaid, req>>

\* ... and serve_table_session, for the waiter, without.
ServeTableRead(r, o) ==
  /\ "serve_table" \in EnabledOps
  /\ Free(r) /\ Visible(o) /\ Fulfillment[o] = "dine_in"
  /\ LocalFulfillment(Fulfillment[o], order[o].status)
  /\ Enter(r, Loaded("serve_table", o))
  /\ UNCHANGED <<order, payment, ledger, units, points, published, staffPaid>>

ServeTableCommit(r) ==
  LET q == req[r]
  IN /\ Runs(r, "serve_table")
     /\ order' = [order EXCEPT ![q.o] = SaveOrder(@, q.ord, WithStatus(q.ord, "delivered"))]
     /\ Leave(r)
     /\ UNCHANGED <<payment, ledger, units, points, published, staffPaid>>
=============================================================================
