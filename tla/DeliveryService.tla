-------------------------- MODULE DeliveryService --------------------------
(***************************************************************************)
(* backend/services/delivery_service.py: couriers are assigned to orders,  *)
(* ride, hand over and earn; with the dispatch commands of                 *)
(* backend/services/kds_service.py that write the same rows, and the moves *)
(* of the order that the other services make meanwhile.                    *)
(*                                                                         *)
(* As in OrderStore, a handler that loads its rows without a lock is a     *)
(* Read step, which keeps a snapshot, and a commit step, which decides on  *)
(* the snapshot and writes the columns it changed.  A handler that locks   *)
(* every row it decides on is one step.                                    *)
(***************************************************************************)
EXTENDS StatusGraphs, Naturals, FiniteSets

CONSTANTS
  Orders,         \* ids of the orders; an order has at most one delivery row
  Drivers,        \* delivery_persons
  Earnings,       \* ids of delivery_earnings rows
  Requests,       \* worker slots
  Nobody,         \* a null delivery_person_id
  EnabledOps,     \* bound: the operations people use in this instance
  StatusTargets,  \* bound: the delivery statuses an admin sets by hand
  AdjustsBusy     \* bound: whether an admin sets status or access of a busy courier

DeliveryOps ==
  { "assign", "update_status", "start", "problem", "complete", "kds_assign",
    "admin_complete", "pay", "person_status", "person_access", "deactivate" }

ASSUME DeliveryAssumption ==
  /\ Nobody \notin Drivers
  /\ EnabledOps \subseteq DeliveryOps
  /\ StatusTargets \subseteq DeliveryStatus
  /\ AdjustsBusy \in BOOLEAN

VARIABLES
  ord,       \* orders.status
  archived,  \* orders.archived_at is set
  cooking,   \* some production unit of the order is not ready
  cash,      \* status of the payment the courier collects, if it is one
  dlv,       \* deliveries rows
  person,    \* delivery_persons rows
  earning,   \* delivery_earnings rows
  work       \* what each worker slot is doing, with its snapshots

vars == <<ord, archived, cooking, cash, dlv, person, earning, work>>

Missing == "absent"     \* the row does not exist

OrderStage == {"preparing", "ready_for_pickup", "on_the_way", "delivered", "cancelled"}
Cash       == {"none", "pending", "approved", "failed"}

DeliveryRow == [status : DeliveryStatus \cup {Missing}, driver : Drivers \cup {Nobody}]
PersonRow   == [status : {"available", "busy", "offline"}, active : BOOLEAN,
                deleted : BOOLEAN]
EarningRow  == [order : Orders, status : {"pending", "paid", "cancelled"}]
NoEarning   == [status |-> Missing]

Idle == [op |-> "idle"]
Work ==
  [ op   : {"assign", "move", "problem", "deliver", "complete"},
    o    : Orders,
    d    : Drivers \cup {Nobody},
    to   : DeliveryStatus,
    row  : DeliveryRow,                                 \* as the session loaded them
    ord  : OrderStage,
    cash : Cash,
    seen : {"available", "busy", "offline", "expired"}, \* person.status
    owed : SUBSET Earnings ]                            \* pending earnings of o
  \cup [ op : {"deactivate"}, d : Drivers, seen : {"available", "busy", "offline"} ]
  \cup [ op : {"pay"}, e : Earnings ]

TypeOK ==
  /\ ord      \in [Orders -> OrderStage]
  /\ archived \in [Orders -> BOOLEAN]
  /\ cooking  \in [Orders -> BOOLEAN]
  /\ cash     \in [Orders -> Cash]
  /\ dlv      \in [Orders -> DeliveryRow]
  /\ person   \in [Drivers -> PersonRow]
  /\ earning  \in [Earnings -> EarningRow \cup {NoEarning}]
  /\ work     \in [Requests -> Work \cup {Idle}]

\* The orders are in the kitchen; no courier has been asked yet.
Init ==
  /\ ord      = [o \in Orders |-> "preparing"]
  /\ archived = [o \in Orders |-> FALSE]
  /\ cooking  = [o \in Orders |-> TRUE]
  /\ cash     \in [Orders -> {"none", "pending"}]
  /\ dlv      = [o \in Orders |-> [status |-> Missing, driver |-> Nobody]]
  /\ person   \in [Drivers -> [status : {"available", "offline"}, active : {TRUE},
                               deleted : {FALSE}]]
  /\ earning  = [e \in Earnings |-> NoEarning]
  /\ work     = [r \in Requests |-> Idle]

-----------------------------------------------------------------------------
(* Rows and requests.                                                      *)

Open(status) == status \in {"assigned", "picked_up", "on_the_way"}

\* _get_delivery_person
Works(d) == d \in Drivers /\ person[d].active /\ ~person[d].deleted

Owed(o) == { e \in Earnings : earning[e] = [order |-> o, status |-> "pending"] }

\* The earnings _ensure_delivery_earning finds.
Earned(o) == { e \in Earnings : /\ earning[e] # NoEarning
                                /\ earning[e].order = o
                                /\ earning[e].status \in {"pending", "paid"} }

Offers(op)   == op \in EnabledOps
Free(r)      == work[r] = Idle
SomeFree     == \E r \in Requests : Free(r)
Runs(r, op)  == work[r].op = op
Enter(r, q)  == work' = [work EXCEPT ![r] = q]
Leave(r)     == work' = [work EXCEPT ![r] = Idle]

Snapshot(op, o, d, to) ==
  [op |-> op, o |-> o, d |-> d, to |-> to, row |-> dlv[o], ord |-> ord[o],
   cash |-> cash[o], seen |-> IF d = Nobody THEN "expired" ELSE person[d].status,
   owed |-> Owed(o)]

\* The UPDATE of a dirty object sets only the columns that changed.
Col(db, old, new) == IF new = old THEN db ELSE new

SaveDelivery(db, old, new) ==
  [ status |-> Col(db.status, old.status, new.status),
    driver |-> Col(db.driver, old.driver, new.driver) ]

Moved(q, to) ==
  dlv' = [dlv EXCEPT ![q.o] = SaveDelivery(@, q.row, [q.row EXCEPT !.status = to])]

\* Mutant: the courier of a delivery that ended stays busy.
FreedNobody(d, seen) == person

\* person.status = available, over the status the session had loaded.
Freed(d, seen) ==
  IF d = Nobody THEN person
  ELSE [person EXCEPT ![d].status = Col(@, seen, "available")]

\* Mutant: the order is left where it was.
OrderStays(q, to) == ord

\* The order goes along with its delivery: on_the_way, then delivered.
OrderAlong(q, to) ==
  IF to \in {"on_the_way", "delivered"}
  THEN [ord EXCEPT ![q.o] = Col(@, q.ord, to)] ELSE ord

\* The order is on its way or may leave now.
MayLeave(stage) == stage = "on_the_way" \/ OrderMay(stage, "on_the_way")

-----------------------------------------------------------------------------
(* Assignment.                                                             *)

Assignable   == {"preparing", "ready_for_pickup"}
Reassignable == {Missing, "failed", "cancelled"}

AssignRead(r, o, d) ==
  /\ Offers("assign") /\ Free(r)
  /\ ~archived[o] /\ ord[o] \in Assignable
  /\ dlv[o].status \in Reassignable
  /\ Works(d) /\ person[d].status # "busy"
  /\ Enter(r, Snapshot("assign", o, d, "assigned"))
  /\ UNCHANGED <<ord, archived, cooking, cash, dlv, person, earning>>

\* An INSERT beside a row that came meanwhile breaks the unique index: Abort.
AssignCommit(r) ==
  LET q == work[r]
      new == [status |-> "assigned", driver |-> q.d]
  IN
  /\ Runs(r, "assign")
  /\ q.row.status = Missing => dlv[q.o].status = Missing
  /\ dlv' = [dlv EXCEPT ![q.o] = SaveDelivery(@, q.row, new)]
  /\ person' = [person EXCEPT ![q.d].status = "busy"]
  /\ Leave(r)
  /\ UNCHANGED <<ord, archived, cooking, cash, earning>>

\* The dispatch screen locks the order, the courier and the delivery.
KdsAssign(o, d) ==
  /\ Offers("kds_assign") /\ SomeFree
  /\ ord[o] = "ready_for_pickup" /\ ~cooking[o]
  /\ Works(d) /\ person[d].status = "available"
  /\ dlv[o].status \in Reassignable
  /\ dlv' = [dlv EXCEPT ![o] = [status |-> "assigned", driver |-> d]]
  /\ person' = [person EXCEPT ![d].status = "busy"]
  /\ UNCHANGED <<ord, archived, cooking, cash, earning, work>>

-----------------------------------------------------------------------------
(* The way to the customer.                                                *)

\* update_status, by an admin.
UpdateRead(r, o, to) ==
  /\ Offers("update_status") /\ Free(r)
  /\ DeliveryMay(dlv[o].status, to)
  /\ to \in {"picked_up", "on_the_way", "delivered"} => ~archived[o] /\ ~cooking[o]
  /\ to \in {"on_the_way", "delivered"} => MayLeave(ord[o])
  /\ Enter(r, Snapshot("move", o, dlv[o].driver, to))
  /\ UNCHANGED <<ord, archived, cooking, cash, dlv, person, earning>>

\* The courier goes off: assigned, picked_up and on_the_way in one commit.
StartRead(r, o) ==
  /\ Offers("start") /\ Free(r)
  /\ Works(dlv[o].driver)
  /\ ~archived[o] /\ ~cooking[o]
  /\ DeliveryMay(dlv[o].status, "on_the_way") /\ MayLeave(ord[o])
  /\ Enter(r, Snapshot("move", o, dlv[o].driver, "on_the_way"))
  /\ UNCHANGED <<ord, archived, cooking, cash, dlv, person, earning>>

\* The courier gives up.
ProblemRead(r, o) ==
  /\ Offers("problem") /\ Free(r)
  /\ Works(dlv[o].driver)
  /\ ~archived[o]
  /\ DeliveryMay(dlv[o].status, "failed")
  /\ Enter(r, Snapshot("problem", o, dlv[o].driver, "failed"))
  /\ UNCHANGED <<ord, archived, cooking, cash, dlv, person, earning>>

\* _cancel_pending_earning, of the earnings it found.
OwedCancelled(q) ==
  [e \in Earnings |-> IF e \in q.owed THEN [earning[e] EXCEPT !.status = "cancelled"]
                     ELSE earning[e]]

\* The commit of update_status and of the start.
MoveCommit(r) ==
  LET q == work[r]
      ends == q.to \in {"failed", "cancelled"}
  IN
  /\ Runs(r, "move")
  /\ Moved(q, q.to)
  /\ ord' = OrderAlong(q, q.to)
  /\ person' = IF ends THEN Freed(q.d, q.seen) ELSE person
  /\ earning' = IF ends THEN OwedCancelled(q) ELSE earning
  /\ Leave(r)
  /\ UNCHANGED <<archived, cooking, cash>>

\* What was due at the door was not paid.
ProblemCommit(r) ==
  LET q == work[r] IN
  /\ Runs(r, "problem")
  /\ Moved(q, "failed")
  /\ cash' = IF q.cash = "pending" THEN [cash EXCEPT ![q.o] = "failed"] ELSE cash
  /\ person' = Freed(q.d, q.seen)
  /\ earning' = OwedCancelled(q)
  /\ Leave(r)
  /\ UNCHANGED <<ord, archived, cooking>>

-----------------------------------------------------------------------------
(* At the door.                                                            *)

\* The courier takes the money; the payment is locked and read again.
ConfirmPayment(o) ==
  /\ Offers("complete") /\ SomeFree
  /\ Works(dlv[o].driver) /\ ~archived[o]
  /\ dlv[o].status = "on_the_way" /\ cash[o] = "pending"
  /\ cash' = [cash EXCEPT ![o] = "approved"]
  /\ UNCHANGED <<ord, archived, cooking, dlv, person, earning, work>>

\* Mutant: only a failed payment holds the courier back.
NotRefused(o) == cash[o] # "failed"

\* pending_pay_on_delivery is false.
PaidFor(o) == cash[o] \in {"none", "approved"}

CompleteRead(r, o) ==
  /\ Offers("complete") /\ Free(r)
  /\ Works(dlv[o].driver) /\ ~archived[o]
  /\ dlv[o].status \in {"on_the_way", "delivered"}
  /\ PaidFor(o)
  /\ Enter(r, Snapshot(IF dlv[o].status = "delivered" THEN "complete" ELSE "deliver",
                       o, dlv[o].driver, "completed"))
  /\ UNCHANGED <<ord, archived, cooking, cash, dlv, person, earning>>

\* mark_driver_delivered; its commit expires the session and refreshes the row.
DeliverCommit(r) ==
  LET q == work[r] IN
  /\ Runs(r, "deliver")
  /\ ~archived[q.o] /\ MayLeave(q.ord)
  /\ Moved(q, "delivered")
  /\ ord' = OrderAlong(q, "delivered")
  /\ Enter(r, [q EXCEPT !.op = "complete", !.row = dlv'[q.o], !.seen = "expired"])
  /\ UNCHANGED <<archived, cooking, cash, person, earning>>

\* Mutant: an earning that was paid out is not looked for.
EnsureUnpaid(o, driver) ==
  IF driver # Nobody /\ Owed(o) = {}
  THEN \E e \in Earnings :
         /\ earning[e] = NoEarning
         /\ earning' = [earning EXCEPT ![e] = [order |-> o, status |-> "pending"]]
  ELSE UNCHANGED earning

\* _ensure_delivery_earning: looks, under the lock of the delivery, and adds.
EnsureEarning(o, driver) ==
  IF driver # Nobody /\ Earned(o) = {}
  THEN \E e \in Earnings :
         /\ earning[e] = NoEarning
         /\ earning' = [earning EXCEPT ![e] = [order |-> o, status |-> "pending"]]
  ELSE UNCHANGED earning

\* complete locks the delivery and decides on the row it had loaded before.
CompleteCommit(r) ==
  LET q == work[r] IN
  /\ Runs(r, "complete")
  /\ ~archived[q.o] /\ DeliveryMay(q.row.status, "completed")
  /\ Moved(q, "completed")
  /\ person' = Freed(q.row.driver, q.seen)
  /\ EnsureEarning(q.o, q.row.driver)
  /\ Leave(r)
  /\ UNCHANGED <<ord, archived, cooking, cash>>

\* complete, by an admin: nothing was loaded before the lock.  On a completed
\* delivery it only sees to the earning.
AdminComplete(o) ==
  /\ Offers("admin_complete") /\ SomeFree
  /\ ~archived[o]
  /\ dlv[o].status \in {"delivered", "completed"}
  /\ dlv' = [dlv EXCEPT ![o].status = "completed"]
  /\ person' = IF dlv[o].status = "completed" THEN person
               ELSE Freed(dlv[o].driver, "expired")
  /\ EnsureEarning(o, dlv[o].driver)
  /\ UNCHANGED <<ord, archived, cooking, cash, work>>

-----------------------------------------------------------------------------
(* Couriers and what they are owed.                                        *)

\* bulk_pay_earnings, one of its earnings.
PayRead(r, e) ==
  /\ Offers("pay") /\ Free(r)
  /\ earning[e].status = "pending"
  /\ Enter(r, [op |-> "pay", e |-> e])
  /\ UNCHANGED <<ord, archived, cooking, cash, dlv, person, earning>>

PayCommit(r) ==
  /\ Runs(r, "pay")
  /\ earning' = [earning EXCEPT ![work[r].e].status = "paid"]
  /\ Leave(r)
  /\ UNCHANGED <<ord, archived, cooking, cash, dlv, person>>

\* Bound: a courier who carries an order is left alone.
MayAdjust(d) == AdjustsBusy \/ person[d].status # "busy"

SetPersonStatus(d, status) ==
  /\ Offers("person_status") /\ SomeFree
  /\ MayAdjust(d) /\ Works(d)
  /\ person' = [person EXCEPT ![d].status = status]
  /\ UNCHANGED <<ord, archived, cooking, cash, dlv, earning, work>>

SetPersonAccess(d, active) ==
  /\ Offers("person_access") /\ SomeFree
  /\ MayAdjust(d) /\ ~person[d].deleted
  /\ person' = [person EXCEPT ![d].active = active,
                              ![d].status = IF active THEN @ ELSE "offline"]
  /\ UNCHANGED <<ord, archived, cooking, cash, dlv, earning, work>>

\* deactivate_person: refused while a delivery of the courier is active.
DeactivateRead(r, d) ==
  /\ Offers("deactivate") /\ Free(r)
  /\ ~person[d].deleted
  /\ ~ \E o \in Orders : /\ dlv[o].driver = d
                         /\ Open(dlv[o].status) \/ dlv[o].status = "pending_assignment"
  /\ Enter(r, [op |-> "deactivate", d |-> d, seen |-> person[d].status])
  /\ UNCHANGED <<ord, archived, cooking, cash, dlv, person, earning>>

DeactivateCommit(r) ==
  LET q == work[r] IN
  /\ Runs(r, "deactivate")
  /\ person' = [person EXCEPT ![q.d] = [active |-> FALSE, deleted |-> TRUE,
                                        status |-> Col(@.status, q.seen, "offline")]]
  /\ Leave(r)
  /\ UNCHANGED <<ord, archived, cooking, cash, dlv, earning>>

\* get_db closes the session of a request that died or was refused.
Abort(r) ==
  /\ ~Free(r)
  /\ Leave(r)
  /\ UNCHANGED <<ord, archived, cooking, cash, dlv, person, earning>>

-----------------------------------------------------------------------------
(* The other services.                                                     *)

KitchenReady(o) ==
  /\ SomeFree
  /\ cooking[o]
  /\ cooking' = [cooking EXCEPT ![o] = FALSE]
  /\ UNCHANGED <<ord, archived, cash, dlv, person, earning, work>>

\* OrderService.change_status and cancel, seen from here.
OrderMoves(o, to) ==
  /\ SomeFree
  /\ ~archived[o] /\ OrderMay(ord[o], to)
  /\ to \in {"ready_for_pickup", "on_the_way", "delivered"} => ~cooking[o]
  /\ ord' = [ord EXCEPT ![o] = to]
  /\ UNCHANGED <<archived, cooking, cash, dlv, person, earning, work>>

\* The last commit of OrderService.archive; the earlier ones are UpdateRead and
\* OrderMoves.
Archive(o) ==
  /\ SomeFree
  /\ ~archived[o] /\ ord[o] \in {"delivered", "cancelled"}
  /\ ~Open(dlv[o].status) /\ dlv[o].status # "pending_assignment"
  /\ archived' = [archived EXCEPT ![o] = TRUE]
  /\ UNCHANGED <<ord, cooking, cash, dlv, person, earning, work>>

\* PaymentService confirms or cancels a payment due at the door.
PaymentMoves(o, to) ==
  /\ SomeFree
  /\ cash[o] = "pending"
  /\ cash' = [cash EXCEPT ![o] = to]
  /\ UNCHANGED <<ord, archived, cooking, dlv, person, earning, work>>

\* KdsService.return_to_kitchen, under the locks of order, delivery and courier.
ReturnToKitchen(o) ==
  LET d == dlv[o].driver
      recalled == dlv[o].status \in {"pending_assignment", "assigned"}
      carriesMore == \E p \in Orders \ {o} : dlv[p].driver = d /\ Open(dlv[p].status)
  IN
  /\ SomeFree
  /\ ord[o] = "ready_for_pickup" /\ ~cooking[o]
  /\ recalled \/ dlv[o].status \in Reassignable
  /\ ord' = [ord EXCEPT ![o] = "preparing"]
  /\ cooking' = [cooking EXCEPT ![o] = TRUE]
  /\ dlv' = IF recalled THEN [dlv EXCEPT ![o].status = "cancelled"] ELSE dlv
  /\ person' = IF recalled /\ ~carriesMore THEN Freed(d, "expired") ELSE person
  /\ UNCHANGED <<archived, cash, earning, work>>

Environment(o) ==
  \/ KitchenReady(o) \/ Archive(o) \/ ReturnToKitchen(o)
  \/ \E to \in OrderStage : OrderMoves(o, to)
  \/ \E to \in {"approved", "failed"} : PaymentMoves(o, to)

Commits(r) ==
  \/ AssignCommit(r) \/ MoveCommit(r) \/ ProblemCommit(r) \/ DeliverCommit(r)
  \/ CompleteCommit(r) \/ PayCommit(r) \/ DeactivateCommit(r) \/ Abort(r)

Next ==
  \/ \E o \in Orders : Environment(o) \/ ConfirmPayment(o) \/ AdminComplete(o)
  \/ \E o \in Orders, d \in Drivers : KdsAssign(o, d)
  \/ \E d \in Drivers, status \in {"available", "offline"} : SetPersonStatus(d, status)
  \/ \E d \in Drivers, active \in BOOLEAN : SetPersonAccess(d, active)
  \/ \E r \in Requests :
       \/ Commits(r)
       \/ \E o \in Orders : StartRead(r, o) \/ ProblemRead(r, o) \/ CompleteRead(r, o)
       \/ \E o \in Orders, d \in Drivers : AssignRead(r, o, d)
       \/ \E o \in Orders, to \in StatusTargets : UpdateRead(r, o, to)
       \/ \E e \in Earnings : PayRead(r, e)
       \/ \E d \in Drivers : DeactivateRead(r, d)

Spec == Init /\ [][Next]_vars

-----------------------------------------------------------------------------
(* What a dispatcher relies on.                                            *)

Carries(d) == { o \in Orders : dlv[o].driver = d /\ Open(dlv[o].status) }

\* While requests do not overlap: assign, kds assign_driver, failure reports,
\* completions, recalls and deactivations keep couriers and deliveries in step.
\* Who carries an order is busy, carries no second one, and who is busy carries
\* an order or has one to complete.
BusyIffCarrying ==
  \A d \in Drivers :
    /\ Cardinality(Carries(d)) <= 1
    /\ Carries(d) # {} => person[d].status = "busy"
    /\ person[d].status = "busy" =>
         \/ Carries(d) # {}
         \/ \E o \in Orders : dlv[o] = [status |-> "delivered", driver |-> d]

\* While requests do not overlap: update_status, the courier's app and the
\* order's own commands tell one story.  An order whose courier is under way
\* has left the shop, and what the courier handed over is a delivered order.
OrderFollowsDelivery ==
  \A o \in Orders :
    /\ dlv[o].status = "on_the_way" => ord[o] \in {"on_the_way", "delivered", "cancelled"}
    /\ dlv[o].status \in {"delivered", "completed"} => ord[o] = "delivered"

\* complete_driver_delivery: a courier who is to collect hands nothing over,
\* and earns nothing, before the money is confirmed; neither a failed attempt,
\* a second courier nor a crash between its two commits changes that.
PaidAtTheDoor ==
  \A o \in Orders :
    dlv[o].status \in {"delivered", "completed"} \/ Earned(o) # {} =>
      cash[o] \in {"none", "approved"}

\* complete and _ensure_delivery_earning: however often and by whomever a
\* delivery is completed, while earlier earnings are being paid out, at most one
\* earning of it is due or paid.
EarnedOnce == \A o \in Orders : Cardinality(Earned(o)) <= 1
=============================================================================
