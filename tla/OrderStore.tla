----------------------------- MODULE OrderStore -----------------------------
(***************************************************************************)
(* The rows that the order and the payment services share, and how an HTTP *)
(* request reads and writes them.                                          *)
(*                                                                         *)
(* Every request has its own SQLAlchemy session over PostgreSQL at READ    *)
(* COMMITTED.  A handler loads rows WITHOUT a lock, decides on what it     *)
(* read, and emits at flush one UPDATE per row that sets only the columns  *)
(* whose value it changed.  A handler is therefore two steps here: a Read  *)
(* step that keeps a snapshot of the rows in req, and a commit step that   *)
(* decides on the SNAPSHOT and writes the changed columns over whatever is *)
(* in the table by then.  The row locks that the UPDATE and SELECT FOR     *)
(* UPDATE take make everything from the flush to the commit one step.      *)
(***************************************************************************)
EXTENDS StatusGraphs, Integers, FiniteSets

CONSTANTS
  Orders,            \* ids of the orders
  Requests,          \* worker slots: requests that may be in flight together
  Charges,           \* ids the payment gateway may give to remote charges
  NoCharge,          \* a null provider_payment_id / mercado_pago_payment_id
  NoEvent,           \* a request that does not answer a webhook
  Fulfillment,       \* Order.fulfillment_type of each order
  FoundationOrders,  \* orders whose ingredients the inventory foundation owns
  StockSize,         \* units of the shared ingredient on the shelf at the start
  EnabledOps,        \* bound: the operations clients issue in this instance
  CountCap           \* bound: history counters stop counting here

Fulfillments == {"delivery", "pickup", "dine_in"}

ASSUME StoreAssumption ==
  /\ NoCharge \notin Charges
  /\ Fulfillment \in [Orders -> Fulfillments]
  /\ FoundationOrders \subseteq Orders
  /\ StockSize \in Nat
  /\ CountCap \in Nat \ {0, 1}     \* "once" and "more than once" stay apart

VARIABLES
  order,      \* Order rows
  payment,    \* Payment rows, one per order (unique order_id)
  ledger,     \* inventory_stock_movements of each order, counted by source_type
  units,      \* production units of each order, as the KDS gate sees them
  points,     \* loyalty awards for each order
  published,  \* events put on the bus for each payment
  staffPaid,  \* history: somebody of the shop vouched that the order was paid
  req         \* what each worker slot is doing, with its snapshots

storeVars == <<order, payment, ledger, units, points, published, staffPaid, req>>

Providers == {"mercado_pago", "asaas", "pagarme", "on_delivery", "manual", "salao"}
Methods   == {"pix", "credit_card", "cash"}
Actors    == {"none", "system", "admin", "customer"}

Missing == "absent"     \* the row does not exist

\* What a remote charge can be, whichever gateway keeps it.
ChargeStatus == { "pending", "approved", "rejected", "cancelled", "expired",
                  "refunded", "charged_back" }

\* A webhook names a charge and the change it reports; the pair stands for the
\* provider_event_id, so a redelivery is the same notice.
Notice == Charges \X ChargeStatus

OrderRow ==
  [ status      : OrderStatus \cup {Missing},
    cancelledBy : Actors,
    paidAt      : BOOLEAN,       \* paid_at is set
    started     : BOOLEAN,       \* preparation_started_at is set
    archived    : BOOLEAN ]      \* archived_at is set

PaymentRow ==
  [ status   : PaymentStatus \cup {Missing},
    provider : Providers,
    method   : Methods,
    mpId     : Charges \cup {NoCharge},   \* mercado_pago_payment_id
    remote   : Charges \cup {NoCharge},   \* provider_payment_id, transaction_id
    pod      : BOOLEAN ]                  \* pay_on_delivery

LedgerRow == [sale : Nat, loss : Nat, reversal : Nat]

NoOrder   == [status |-> Missing, cancelledBy |-> "none", paidAt |-> FALSE,
              started |-> FALSE, archived |-> FALSE]
NoPayment == [status |-> Missing, provider |-> "mercado_pago", method |-> "pix",
              mpId |-> NoCharge, remote |-> NoCharge, pod |-> FALSE]

-----------------------------------------------------------------------------
(* Requests in flight.                                                     *)

Ops ==
  { "change_status", "award_points", "cancel", "record_cancel", "archive",
    "archive_record", "archive_mark", "create_call", "create_charge",
    "create_commit", "switch_to_pay_on_delivery", "webhook_call", "webhook",
    "status_poll", "approve", "cancel_call", "refund_call", "operate_commit",
    "confirm_table", "serve_table", "preference" }

ASSUME OpsAssumption == EnabledOps \subseteq Ops

Idle == [op |-> "idle"]

Request ==
  [ op     : Ops,
    o      : Orders,
    ord    : OrderRow,                      \* Order as this session loaded it
    pay    : PaymentRow,                    \* Payment as this session loaded it
    to     : OrderStatus \cup {"none"},     \* requested order status
    who    : Actors,
    method : Methods,
    got    : PaymentStatus \cup {"none"},   \* status the gateway answered
    charge : Charges \cup {NoCharge},
    event  : Notice \cup {NoEvent} ]

\* A request that has loaded the rows of order o.
Loaded(op, o) ==
  [op |-> op, o |-> o, ord |-> order[o], pay |-> payment[o], to |-> "none",
   who |-> "none", method |-> "cash", got |-> "none", charge |-> NoCharge,
   event |-> NoEvent]

\* A later transaction of the same request: commit expired what it had loaded.
Continued(op, o, who) ==
  [op |-> op, o |-> o, ord |-> NoOrder, pay |-> NoPayment, to |-> "none",
   who |-> who, method |-> "cash", got |-> "none", charge |-> NoCharge,
   event |-> NoEvent]

\* A history counter: it tells none, once and more than once apart.
Bump(n) == IF n < CountCap THEN n + 1 ELSE n

Free(r) == req[r] = Idle
Runs(r, op) == req[r].op = op
Enter(r, q) == req' = [req EXCEPT ![r] = q]
Leave(r)    == req' = [req EXCEPT ![r] = Idle]

\* The UPDATE of a dirty object: only the columns it changed are written.
Col(db, old, new) == IF new = old THEN db ELSE new

SaveOrder(db, old, new) ==
  [ status      |-> Col(db.status, old.status, new.status),
    cancelledBy |-> Col(db.cancelledBy, old.cancelledBy, new.cancelledBy),
    paidAt      |-> Col(db.paidAt, old.paidAt, new.paidAt),
    started     |-> Col(db.started, old.started, new.started),
    archived    |-> Col(db.archived, old.archived, new.archived) ]

SavePayment(db, old, new) ==
  [ status   |-> Col(db.status, old.status, new.status),
    provider |-> Col(db.provider, old.provider, new.provider),
    method   |-> Col(db.method, old.method, new.method),
    mpId     |-> Col(db.mpId, old.mpId, new.mpId),
    remote   |-> Col(db.remote, old.remote, new.remote),
    pod      |-> Col(db.pod, old.pod, new.pod) ]

-----------------------------------------------------------------------------
(* InventoryService, as the handlers call it before their commit.  Each    *)
(* order needs one unit of one shared ingredient.                          *)

\* The movement rows that take from the shelf and give back to it.
SaleRows     == UNION { {o} \X (1..ledger[o].sale) : o \in Orders }
ReversalRows == UNION { {o} \X (1..ledger[o].reversal) : o \in Orders }

\* _stock_balance_map adds the rows up.
Balance == StockSize - Cardinality(SaleRows) + Cardinality(ReversalRows)

\* Mutant: the shelf is not asked.
StockNotAsked(o, status) == TRUE

\* consume_order_sale writes a movement only for an order that is in
\* preparation, has no physical units and was not deducted before.
Deducts(o, status) ==
  status = "preparing" /\ units[o] = "none" /\ ledger[o].sale = 0

\* ... and raises InventoryUnavailable, which undoes the whole request.
StockSuffices(o, status) == Deducts(o, status) => Balance >= 1

ConsumeSale(o, status) ==
  IF Deducts(o, status) THEN [ledger[o] EXCEPT !.sale = @ + 1] ELSE ledger[o]

\* Mutant: the food goes back to the shelf whatever the kitchen did.
AlwaysReturned(o, entry, started) ==
  IF entry.sale = 0 THEN entry ELSE [entry EXCEPT !.reversal = IF @ = 0 THEN 1 ELSE @]

\* Mutant: the loss already recorded is not looked for.
LossEachTime(o, entry, started) ==
  CASE entry.sale = 0 -> entry
    [] entry.sale > 0 /\ (started \/ o \in FoundationOrders) ->
         [entry EXCEPT !.loss = @ + 1]
    [] OTHER -> [entry EXCEPT !.reversal = IF @ = 0 THEN 1 ELSE @]

\* reverse_order_sale: a loss once preparation has started, as the session
\* knows it, and a return to stock otherwise; each recorded once.
ReverseSale(o, entry, started) ==
  CASE entry.sale = 0 -> entry
    [] entry.sale > 0 /\ (started \/ o \in FoundationOrders) ->
         [entry EXCEPT !.loss = IF @ = 0 THEN 1 ELSE @]
    [] OTHER -> [entry EXCEPT !.reversal = IF @ = 0 THEN 1 ELSE @]

StoreTypeOK ==
  /\ order     \in [Orders -> OrderRow]
  /\ payment   \in [Orders -> PaymentRow]
  /\ ledger    \in [Orders -> LedgerRow]
  /\ units     \in [Orders -> {"none", "working", "ready"}]
  /\ points    \in [Orders -> Nat]
  /\ published \in [Orders -> [confirmed : Nat, reversed : Nat]]
  /\ staffPaid \in [Orders -> BOOLEAN]
  /\ req       \in [Requests -> Request \cup {Idle}]

StoreInit ==
  /\ order     = [o \in Orders |-> NoOrder]
  /\ payment   = [o \in Orders |-> NoPayment]
  /\ ledger    = [o \in Orders |-> [sale |-> 0, loss |-> 0, reversal |-> 0]]
  /\ units     = [o \in Orders |-> "none"]
  /\ points    = [o \in Orders |-> 0]
  /\ published = [o \in Orders |-> [confirmed |-> 0, reversed |-> 0]]
  /\ staffPaid = [o \in Orders |-> FALSE]
  /\ req       = [r \in Requests |-> Idle]
=============================================================================
