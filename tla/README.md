# The pizza shop platform: TLA+ models of its protocols

This directory holds the formal models of the FastAPI/SQLAlchemy backend in
`src/backend` and of the host scripts it works with. Most are about one question:
*what can become of an order, of its payment, its ingredients, its pizzas and its
delivery when customers, staff, couriers, kitchen displays, payment gateways and
crashes act on them in any order?* Two are about workers behind the shop: the queue
of HTTPS certificates and the queue of messages to customers.

Nothing here is generated. `PROJECT.json` maps every definition to the lines it
models and lists the runs, the mutants, the findings, the hazards and the
theorems.

## 1. The system

| Part | State it keeps | Operations | Interacts through |
|---|---|---|---|
| State machines (`core/state_machine.py`) | none: three transition graphs | `can_transition`, `transition`, `is_terminal`, `complete_local_fulfillment` | called by every service before it writes a status |
| Order service (`services/order_service.py`, `routes/orders.py`) | `orders` | `create_from_checkout`, `create_from_table_session`, `change_status`, `cancel`, `auto_cancel_expired`, `archive`, `complete_customer_pickup`, `serve_dine_in`, `serve_table_session`, `confirm_table_session_payment` | writes the order row that everybody else writes too; calls inventory and loyalty |
| Payment service (`services/payment_service.py`) | `payments` (one per order), `payment_events` | `create`, `create_asaas_credit_card`, `switch_to_pay_on_delivery`, three webhooks, `get_by_order`/`payment_status`/`reconcile`, `approve_manual`, `confirm_cash`, `confirm_pay_on_delivery`, `cancel_payment`, `refund_payment`, `create_preference` | writes the order's status in `_apply_status`; remote calls in the middle of a transaction |
| Gateways (Mercado Pago, ASAAS, Pagar.me; `*_gateway.py`, `*_client.py`) | remote charges | create, search, retrieve, cancel, refund; notices | webhooks that come late, again, out of order, or never |
| Kitchen display (`services/kds_service.py`) | none of its own; the dispatch marks of the units | `start_preparation`, `mark_ready`, `assign_driver`, `return_to_kitchen`, `complete_pickup`, `serve_dine_in`, dispatch of units | locks the order row, then goes through `change_status` |
| Kitchen production (`services/kds_production_service.py`, `routes/kds.py`) | production units and their attempts | `initialize`, stock check, `confirm_stock`, assembly, oven, check, `remake`, per-attempt consumption | locks attempt, unit and order; its units hold the order back at the gates of the kitchen display |
| Inventory of a sale (`services/inventory_service.py`) | `inventory_stock_movements` | `consume_order_sale`, `reverse_order_sale`, manual entries | called before the commit of whoever changes the order |
| Inventory foundation (`services/inventory_foundation_service.py`, `preparation_service.py`) | lots, reservations, operations and their movements | `create_lot`, `set_lot_state`, `create_operation`, `reserve`, `release`, `consume_legacy_sale`, `release_order_reservations`; reports of preparations | sales, kitchen attempts and cancellations consume and release through it; an ingredient's row is its lock |
| Delivery (`services/delivery_service.py`) | `deliveries` (one per order), `delivery_persons`, `delivery_earnings` | `assign`, `auto_assign_pending`, `update_status`, `complete`, the courier's start, payment, completion and failure report, `bulk_pay_earnings`, courier status, access, deactivation | moves the order to `on_the_way` and `delivered` by itself; the dispatch screen of the kitchen display writes the same rows |
| Loyalty, coupons | accounts, usages | award, apply | award is a second transaction after `delivered` |
| Idempotency (`services/idempotency_service.py`) | `idempotency_keys` | `claim`, `complete`, `abandon`, `recover_completed` | wraps the create routes |
| Table service (`services/salao_service.py`) | table sessions, rounds | open, order, close the bill | creates dine-in orders |
| Tenant domains (`services/tenant_domain_ssl_service.py`, `tenant_domain_service.py`, `scripts/tenant-domain-ssl.py`) | domains, certificate jobs with leases; on the host: nginx files, the running configuration, Certbot's certificates | enqueue, claim, validate, complete, fail, reconcile; verify, activate, suspend, remove | a root runner started by a timer calls the API, writes the host and may be killed |
| WhatsApp outbox (`services/agente_whatsapp_outbox_service.py`, `agente_whatsapp_worker.py`) | messages, outbox items, the provider's state | enqueue, process, retry, pause, resume; the provider's notices | a worker in every API process over the same rows; the provider |
| Automations | executions | enqueue, retry | a worker |
| Event bus (`core/events.py`) | none | `publish` | synchronous, after the commit, handlers log or update read models |
| Tenancy, RBAC, platform, marketing, BI, AI, fiscal, finance, web client, installer | various | CRUD, reports, user interface | not part of the order protocol |

**What is hard.** A request has a session of its own over PostgreSQL at READ COMMITTED
(`database.py:14`, `autoflush=False`). Most handlers load the order and the payment
*without* a lock, decide, call a gateway, and write at the end the columns they changed,
over whatever is in the table by then. Only the kitchen display and the inventory take
`FOR UPDATE` locks. Several operations commit twice or three times; the delivery service
locks some of the rows it decides on and reads the others from the session. Gateways
redeliver notices until answered. Two ways into the dispatch and out of it look at the
kitchen's units without a lock, and a waiter who serves a table does not lock its
orders. The two queues have workers of their own, whose calls to the outside (nginx,
Certbot, the WhatsApp provider) are not undone when the transaction around them is.
`PROJECT.json` lists the hazards this causes, each at its line.

**What correct means**, per component:

* orders follow the graph of the state machine, terminal statuses are final, and
  nothing leaves the kitchen unfinished;
* payments are approved only when money came in, approvals are kept, confirmed
  once, and money that came in is recorded in the end;
* stock is taken once per order, never below zero, and what the kitchen used
  is written off, not put back;
* what is reserved of an ingredient is there, serves its order, ends with it, and no
  two states of a reservation have one version;
* points are awarded once;
* a courier with an order on the road is busy and has no second one, and is free
  again when it ends; an order and its delivery tell the same story; what is due
  at the door is collected before anything is handed over; a delivery is earned
  once;
* a physical pizza has one live attempt, the shelf follows the attempts, and an order
  reaches the dispatch, and leaves it, finished unit by unit;
* a domain has one certificate job at a time, jobs end and stay as they ended, nginx
  can load every file the runner leaves behind, and a host that serves TLS goes on
  doing so while its certificate is issued again;
* a customer gets a message once unless something went wrong, the panel says what
  happened to it, and it is sent or given up in the end;
* a request that comes again with its idempotency key has one result, is told that
  result, and is not kept waiting for nobody.

## 2. The modules

```
StatusGraphs          the three transition graphs
  OrderStore          rows, sessions, requests in flight, stock movements
    OrderService      creation, change_status, cancel, archive, kitchen display
    PaymentService    attempts, notices, polls, staff operations, gateways
      OrderPayment    both over the same rows: Init, Next, Spec, properties
        MCOrderPayment       small instances for TLC
        OrderPaymentProofs   theorems about any overlap, and their proofs
        OrderSerialProofs    theorems about orders nobody writes under a request
  DeliveryService     couriers, deliveries and earnings, the shop around them
    MCDelivery               small instances for TLC
    DeliveryProofs           theorems and their proofs
  KitchenProduction   units, attempts, stock checks, dispatch and returns
    MCKitchen                a small instance for TLC
    KitchenProofs            theorems and their proofs
  InventoryFoundation lots, reservations, who draws on them, cancellations
    MCFoundation             a small instance for TLC
    FoundationProofs         theorems and their proofs
OrderLifecycle        the promise, which OrderPayment implements
CertificateQueue      domains, certificate jobs, the runner and its host
  MCCertificates             small instances for TLC
  CertificateProofs          theorems and their proofs
WhatsAppOutbox        messages, items, workers, the provider
  MCOutbox                   small instances for TLC
  OutboxProofs               theorems and their proofs
OneResult             what an idempotency key promises
  IdempotencyClaims   claims and the two routes around them, which keep the promise
    MCClaims                 a small instance for TLC
    ClaimsProofs             theorems and their proofs, the refinement among them
```

* **StatusGraphs** has the order, the payment and the delivery graph as functions
  from a status to the set of its successors.
* **OrderStore** has the shared variables. `order` and `payment` are the rows,
  with the columns a handler decides on: status, `cancelled_by`, whether
  `paid_at`, `preparation_started_at` and `archived_at` are set; provider,
  method, the two remote identifiers, `pay_on_delivery`. `ledger` counts the
  stock movements of an order by `source_type`. `units` is what the KDS gates
  see of the production units. `points`, `published` and `staffPaid` record
  what happened. `req` is what each worker is doing, **with the snapshot of the
  rows it loaded**.
  A handler is a *Read* step (guards and early returns on the row, snapshot into
  `req`) and a *Commit* step (decision on the snapshot; `SaveOrder` and
  `SavePayment` write the columns that differ from the snapshot and leave the
  others as they are in the table). A handler with a remote call has the call as
  a step between the two. From the flush on the UPDATE and the inventory's
  `FOR UPDATE` hold the order's row, so flush, stock movement and commit are
  one step. The kitchen display locks the order before it reads it, so its
  commands are one step from load to commit.
* **OrderService** has one action per handler step: `ChangeStatusRead` /
  `ChangeStatusCommit` / `StockRefusal` / `AwardPoints` for `change_status`;
  `CancelRead` / `CancelCommit` / `RecordCancel` for the customer's, the admin's
  and the periodic cancellation; `ArchiveRead` / `ArchiveCancel` /
  `RecordCancel` / `ArchiveMark` for the three commits of `archive`;
  `ConfirmTableRead` / `ConfirmTableCommit` for the cashier who closes a table's bill;
  `ServeTableRead` / `ServeTableCommit` for the waiter who serves a table, which does not
  lock the order as the kitchen display does (`KdsServeDineIn`). `Checkouts` are the ways an
  order comes in: paid online, collected at the door, entered by staff as paid or as
  still to be paid;
  `Kds...` for the kitchen's commands.
* **PaymentService** has `ApplyStatus`, the translation of `_apply_status` through
  which every report passes (what is accepted, what becomes of the order, the
  stock and the published events), and around it the handlers: `Create...`
  (load; search or charge at the gateway; commit), `Preference...` (a link to Mercado
  Pago's own checkout, through which charges then come in by themselves: `links`,
  `PayLink`), `Switch...`, `Webhook...`
  (event row and remote question; load; commit), `Poll...`, `Approve...`
  (`approve_manual`, `confirm_cash`, `confirm_pay_on_delivery`), `Operate...`
  (`cancel_payment`, `refund_payment`). `Abort` ends a request at any of its
  steps: a crash, a gateway error, `InventoryUnavailable`. The gateways are
  external: a charge moves by itself (`GatewayMove`, to what `Outcomes` has) and every
  move leaves a notice.
* **OrderPayment** composes them and states the properties.
* **OrderLifecycle** is the abstract specification: stages none → awaiting →
  accepted → kitchen → ready → out → done, or off; ingredients whole → taken →
  lost. `FollowsLifecycle` is its `Spec` under the refinement mapping of
  `OrderPayment` (`StageOf` of the status, `ShelfOf` of the stock movements).
* **DeliveryService** has the rows the couriers' protocol decides on: `dlv`
  (status and courier of an order's delivery), `person` (status, active,
  deleted), `earning`, and of the order its status (`ord`), `archived_at`
  (`archived`), whether a production unit is unfinished (`cooking`) and the
  status of a payment due at the door (`cash`). `work` is what each worker is
  doing, with its snapshots, as `req` is in OrderStore. `AssignRead` /
  `AssignCommit` is `assign`; `UpdateRead` and `StartRead` end in `MoveCommit`,
  since `update_status` and the courier's start write the same rows in one
  commit; the failure report is `ProblemRead` / `ProblemCommit`.
  The courier's completion is `CompleteRead`,
  `DeliverCommit` (`mark_driver_delivered`, a commit of its own) and
  `CompleteCommit` (`complete`, which locks the delivery and decides on the row
  refreshed before the lock, then looks for an earning under it:
  `EnsureEarning`). `AdminComplete`, `ConfirmPayment`, `KdsAssign` and
  `ReturnToKitchen` lock every row they decide on and are one step.
  `Environment` is what the other services do to the order meanwhile: the kitchen
  finishes, the order moves along its graph or is archived, its payment is
  confirmed or cancelled, the kitchen takes it back. `Abort` ends a request
  between any two steps.
* **KitchenProduction** has the rows of the kitchen: `unit` (the state a unit shows),
  `attempts` (per attempt its state, how its ingredients were supplied and whether
  lines were consumed for it), `closed` (the attempt the dispatch closed the unit
  with), `shelf` and `sale` (orders whose ingredients were deducted as a whole), and
  the order's status, whose gates read the units. Every command of
  `kds_production_service.py` locks attempt, unit and order before it decides, so it
  is one step: `Initialize`, the stock check and its decision, assembly, oven, check,
  `Remake`. `ahead` and `waited` are the order and the five seconds of the stock
  checks. Two are exceptions, which look at the units without a lock and write the order
  later: what sends an order off (`LeaveRead`, `LeaveCommit`), and an admin's
  `change_status("ready_for_pickup")` of an order without units (`ReleaseRead`,
  `ReleaseCommit`). `releasing` are the orders such a request is about to write,
  `overtaken` those it wrote although the kitchen had taken them up meanwhile.
* **InventoryFoundation** has one ingredient's stock by bucket, a lot or the stock of a
  place that is in no lot (`stock`, the sum of the movements), the lots' states and
  deadlines (`lot`, `past`) and the reservations (`rsv`), and of the orders what decides
  about them: status, whether preparation began, the movements of the sale. Everybody who
  writes locks the ingredient first, so `Put`, `TakeOut`, `Transfer`, `Report`, `Reserve`,
  `Release`, `Supply` (an attempt of the kitchen), `Start` and `Confirm` (which deduct)
  are one step each. `Consume` is `consume_legacy_sale`: `Takes` is what the loop over the
  buckets may take, `Leftovers` what it leaves of the order's reservations. A cancellation
  is two steps, `CancelLoad` and `CancelCommit`, since it loads the reservations before
  it locks the ingredient.
* **CertificateQueue** has the `domain` and `job` rows, and beside them what the
  rows are about: the nginx file of a host (`site`), the configuration nginx runs with
  (`loaded`), Certbot's certificate on the disk (`lineage`: none, good, lapsed), the one
  nginx has read of it and shows (`shown`: also the old one, from before a renewal, until
  nginx is reloaded), the host's records (`dns`). Certbot's own timer renews too (`Renew`),
  and its deploy hook reloads nginx unless it gives up waiting for the lock (`hook`,
  `RunHook`). `Served` is what a client sees. `runner`
  is where the one runner is, with its job, the vhost it found and whether it has
  changed anything. API operations lock the domain first and are one step; the
  runner's calls may commit without their answer being heard, and it may be killed
  between any two steps, with its lease running out.
* **WhatsAppOutbox** has the rows (`msg`, `item`, `provider`) and for each worker its
  transaction (`tx`): what it has locked, the message status it loaded, the
  provider's row as its session has it and the columns it will write. A cycle
  (`ProcessPending`, one `ProcessItem` per message, `Commit` or `Abort`) is one
  transaction with remote calls in the middle: what was sent stays sent when it is
  rolled back. `took`, `unheard`, `undone` and `asked` count the copies the provider
  has accepted of a message and the reasons for more than one.
* **OneResult** is the abstract specification of a key: `Make` one result, `Tell` it
  to those who asked for the same thing.
* **IdempotencyClaims** has the claim rows (`claim`: absent, processing or completed,
  with the request that inserted it, its body and its resource), the orders and payments
  made with a key (`made`), the orders an admin has archived since (`archived`) and of
  each request the key and body it comes with (`ask`) and how far it is (`req`). The
  claim, the result and the claim's completion are three commits with sessions of their
  own, so a request is a small machine whose stages lie between what it reads and what
  it commits: `FindNone` / `Insert` / `Replay` / `Refuse` for `claim`, `Look` /
  `Recover` / `Close` for `recover_completed`, `Create`, `Complete`, and after a failure
  (`Fail`) `Rescue` / `AbandonLoads` / `AbandonDeletes`. A replay that finds its order
  archived is refused (`Answer`). `Conflict` and `Failure` are where the two routes
  differ: orders made by staff look for what was made and give the claim back, payments
  answer with the error.

### Abstractions worth knowing

* One payment per order (`uq_payments_tenant_order_id`), one tenant, one shared
  ingredient of which each order needs one unit. Amounts are always right: the
  handlers that compare amounts refuse or log a mismatch.
* No checkout creates an order in `pending`; the branch of `create` that moves it
  to `aguardando_pagamento` is therefore left out.
* A webhook and a poll load payment and order in one step; no remote call lies
  between the two loads of a webhook.
* A redelivery of a notice waits for the row its predecessor inserted (unique
  index on the provider's event id) and then finds it, or takes its place when
  the predecessor died. The second commit of the webhooks, which only stamps
  `processing_status`, is left out.
* Publishing is part of the step that commits. An event lost by a crash right
  after the commit is not modelled.
* Idempotency keys are per browser and attempt, so any attempt may come with a
  fresh one: the model of orders and payments lets every request be sent again. What a
  key does is `IdempotencyClaims`.
* A kitchen command takes a worker for one step (`SomeFree`), so that with one
  worker requests do not overlap at all.
* `DeliveryService` is a model of its own, not composed with `OrderPayment`: what
  each needs of the other is a few columns, and the other's handlers are there
  as the moves they make. `cash` merges the payment statuses into none (paid
  online or nothing to collect), pending, approved, failed; refunds are left to
  the payment model. Of `archive` only the last commit is a move of its own.
  Confirmation codes, QR scans, ratings and positions change no status. A
  failure report cancels the earnings that were due when it loaded the order
  (`owed`). `bulk_pay_earnings` is one step pair per earning.
* The loyalty award is made for every delivered order (guests have no account in
  the code and get none).

Of the kitchen:

* A command from a stale screen is refused by its version and does nothing. Who may
  act (cook, station, presence, redistribution) only narrows what is enabled.
* One ingredient, of which an attempt takes one unit; a missing recipe is like
  missing stock. The tenant's stock control setting is a choice at each read. A
  cancelled sale is written off, and so is what a remade attempt took.
* Every unit that is not a drink goes through the oven. `closed` holds the number of
  the attempt instead of a timestamp. Cancellation, archiving and the deduction of a
  whole order are there as the moves the other services make.

Of the inventory foundation:

* One ingredient; quantities are small whole numbers. Lots are numbered by deadline; a
  lot without one may be used. A lot moves between places as a whole, so it is one
  bucket. Each order, and each attempt, takes `Need`.
* Manual entries are `Put` and `TakeOut`, and so is the reversal of one; that an entry is
  reversed once is left out. A command with a stale version, or a key it has used
  before, is refused and does nothing.
* Those who change an order load it before they lock it. What they have loaded is a
  choice among what the order has been (it was open once, and in preparation if
  `begun`), made when they commit.

Of the certificates:

* One tenant whose domains are active or not; leases are told apart by the runner's
  job, since tokens are random. Requests whose body conflicts with their key change
  nothing. `create_pending`, `set_primary` and checks of the runtime, which only
  refuse, are left out. So are the limit of five and the order of a batch.
* Time is three booleans per row: the lease has passed (`expired`), the last job is
  recent (`cooling`), the last check is old (`due`).

Of the outbox:

* One provider, whose row exists. It always gives an accepted message a name.
  "Read" counts as delivered; a session's own status (a human takes over) is left out.
* Taking the items of a batch is one step, and its items are handled in any order: a
  lock taken earlier only keeps others out. The order of a batch and its limit are
  left out. Failures beyond the threshold are not told apart.
* A retry by hand is two loads and a commit. A deadlock with a worker aborts one of
  them, which is `Abort` or `RetryFails`.

Of the idempotency keys:

* A request is sent once; a retry is another request with the same key, at any time,
  with the same body or another one. A key is what the unique constraint sees: tenant,
  operation, actor and key.
* What a route makes is one commit. Where an order has a coupon, `record_usage` commits
  in the middle of `create_from_checkout`: a failure behind it is `Fail` after
  `Create`. Orders have a unique external reference made of the key, payments none.
* A database that is lost while a request cleans up is `Die`. Payments and orders are
  not deleted. `expires_at` is written and never read, so there is no time.

## 3. The runs

Bounds, all named. Of the shop: `Orders`, `Requests` (how many requests overlap),
`Charges`, `StockSize` = 1 (the boundary: one unit, one or two orders), `CountCap` = 2
(a history counter tells none, once and more than once apart), `EnabledOps` and
`AdminTargets` (which operations and requested statuses an instance has) and `Outcomes`
(what the gateways make of charges). Of the deliveries: `Orders`, `Drivers`, `Earnings`,
`Requests`, `EnabledOps`, `StatusTargets` (which statuses an admin sets by hand) and
`AdjustsBusy` (whether an admin sets status or access of a courier who carries an
order). Of the kitchen: `MaxAttempts` per unit, `ByRoad` (which orders a driver or an
admin sends off) and `ByHand` (which orders an admin releases to the dispatch). Of the
foundation: `MaxQuantity`, `Amounts` and `MaxStock` (quantities of a reservation, of an
operation, and of all that is there), `MaxAllocations` (the pieces in which a report
takes one bucket); `Need` = `MaxStock` = 2, so that one reservation, or two, can be all
there is; the only attempt is a second one (`First = {}`), which is never covered by its
order's sale. Of the certificates: `Jobs` and `MaxActions` (how often the administrator
acts). Of the outbox: `KindsOf` (what a message may be), `MaxAttempts` = 2 instead of
the code's 3 (the last attempt and one before it), and `MaxTroubles`, one budget for
rollbacks, lost answers, retries and pauses by hand; its safety properties were also
checked with a budget of 2. Of the idempotency keys: `MaxDeaths` = 2, with three
requests (a winner, a loser and a later retry; no property speaks of more) and a key of
each route. Workers, charges, couriers, earnings and requests are symmetric in the
safety runs, and nothing is in the liveness run. The payment properties speak of one
order and need at most two charges: the current attempt and a replaced one, one after
the other or in requests that overlap. PaymentRace has one charge, since a charge of the
order that took money is all that its property asks for, and two requests and every
outcome instead. Two orders share only the shelf or a courier, hence two in HallRace and
in DeliverySerial; two earnings are what it takes to pay one delivery twice. Deadlock is
not checked: the shop may stop when all orders are over.

| Run | Instance | Shows |
|---|---|---|
| ShopSerial | one delivery order, one request at a time, **every** operation and **every** status an admin can ask for | `TypeOK`, `FollowsLifecycle`, `PointsOnce` over all sequences with crashes |
| MpAttempts | Mercado Pago, attempts and checkout links, two charges | `ApprovalNoticeIsRecorded` |
| Retries | ASAAS Pix and Pagar.me card, two charges | `OneChargePerMethod`, `PublishedOnce`, `PaidOrdersAreBacked`, `ApprovalIsKept` |
| HallRace | a table order and a pickup order over one unit of stock, two requests: status changes, cancellations, waiters who serve, bills that cashiers confirm | `ShelfNeverNegative`, `StockMovedOnce` |
| WebhookLiveness | Mercado Pago, two charges and two requests that overlap (creations, notices, the switch to payment at the door), charges that are paid or stay pending, fairness | `PaidChargeIsRecorded` in the end |
| PaymentRace | Mercado Pago, two requests (creations, notices, polls, approvals by hand, the switch, cancellations, refunds), every outcome of the charge | `NoApprovalWithoutMoney` |
| DeliverySerial | two orders, two couriers, one request at a time, with failures, recalls, deactivations, changes by an admin and crashes | `BusyIffCarrying`, `OrderFollowsDelivery`, `PaidAtTheDoor`, `EarnedOnce` |
| Kitchen | a delivery with one pizza (two attempts), a pickup with a pizza and a drink, two units of stock; every command, remakes, returns, late and repeated `initialize` | `OneLiveAttempt`, `StockFollowsAttempts`, `NoOvertaking`, `ReworkIsClosedAgain` |
| Dispatch | one delivery with two pizzas and a drink, every command of the kitchen, returns, and an admin who releases the order by hand | `ReadyMeansFinished` |
| Foundation | one lot, two places, two reservations, an order and a repeated attempt of it that each need all there can be; every operation, and cancellations that overlap them | `ReservedIsThere`, `ReservationServes`, `NothingHeldForCancelled`, `EachChangeCounts` |
| Certificates | one domain, two requests that may be repeated, two jobs, the administrator acts twice; kills, lost answers, failed rollbacks, fairness | `OneOpenJob`, `OneJobPerKey`, `JobsAreFinal`, `FilesLoad`, `ServesThroughRenewal`; `JobsEnd` and `TruthReturns` in the end |
| Outbox | two workers, a plain message and one of any kind, one trouble, fairness | `TwiceOnlyWithCause`, `PanelTellsTheTruth`; `QueuedIsSettled` in the end |
| Claims | a manual order's key and a payment's, three requests with two bodies, two deaths | `ResultOnce`, `NoKeyLeftBehind`, `RetryFindsTheOrder` |

ShopSerial and Claims also check their module's `TypeOK`. For the other modules it is
proved.

Each property of a passing run has a mutant: a plausible bug, marked `Mutant:`
beside the definition it replaces, that TLC must catch under that very run.

**Fairness** (`FairSpec` of OrderPayment, CertificateQueue and WhatsAppOutbox). A
request that runs goes on or dies (`WF` on `GoesOn`:
the process is scheduled and its remote calls have timeouts). Gateways send a
notice until it is answered and a worker is found for it; single requests may
fail but not every one (`SF` on the three steps of a webhook). Nothing is assumed
of customers, staff or polls. A gateway may refund the charge by itself, in which
case the money is no longer the shop's to record.

The timer starts the certificate runner again and again and every step of a run ends
(`WF` on `StartRun` and `RunnerStep`: commands and calls have timeouts); leases expire
and checks grow old (`WF`). A single run may be killed, but not every one before it
reaches an expired lease, a domain that is due or a queued job (`SF` on `ReconcileJob`,
`Reconciled`, `Refresh`, `Claim`). Nothing is assumed of the administrator, the DNS,
Certbot's success, its own renewals or their hook: the runner's checks correct the row
by what nginx shows.

Every API process runs its outbox loop (`WF` on `CycleStep` of each worker), an item's
`next_attempt_at` comes and a pause ends (`WF` on `ComesDue`, `PauseEnds`). Troubles are
bounded by `MaxTroubles`, so a cycle is not rolled back for ever. Nothing is assumed of
the panel or of notices.

### Findings

Four runs are expected to fail: each checks a property taken from a document or a
comment of the repository and TLC finds the code going another way.

| Run | What the code does |
|---|---|
| UsedFoodReturned | a cancellation that loaded the order before preparation started returns the ingredients (`with_for_update()` without `populate_existing()`) |
| PaidOrderExpired | an order that an admin marks as `pagamento_expirado` by hand may still be paid; the approval leaves the order where it is, and `auto_cancel_expired`, which looks at the order's status only, cancels it as "PIX nao pago" |
| LateConfirmation | at ASAAS a `PAYMENT_CONFIRMED` that comes after the answered notice of the refund approves the payment: the event's name decides, whatever the charge, which the handler has just asked for, says |
| HandRelease | `change_status("ready_for_pickup")` finds an order without units and commits later; `initialize` and a cook's stock check commit in between, and the order is at the dispatch with a unit in `checking_stock`, which no command of the kitchen accepts any more |

UsedFoodReturned and HandRelease need two requests in flight; ShopSerial shows that the
lifecycle behind the first (`FollowsLifecycle`) holds without overlap. The other two need
one request at a time. The periodic job is harmless without an admin's hand because an
expired payment cancels its order in the same commit, so that no order is left in
`pagamento_expirado` for it.

### Limits of the passing runs

They are behaviour of the code as well, and show when an instance is widened or when
the history is followed past what a property says. In the shop:

* With two overlapping `change_status` requests, which validate on the rows they
  loaded, an order leaves `delivered` or `cancelled` (`TerminalIsFinal` of
  OrderPayment is violated).
* Retries with two requests violates `PublishedOnce` (a webhook and a poll both
  publish `PaymentConfirmed`) and `ApprovalIsKept` (an attempt that waits for the
  gateway overwrites, with `rejected`, the approval its predecessor's notice brought).
* MpAttempts with `GatewayOf <- MCAsaas` violates `ApprovalNoticeIsRecorded`: a
  Pix that is paid after it was reported overdue is answered and not recorded,
  because `expired` has no way to `approved`.
* In MpAttempts a charge that the customer pays through a checkout link is ignored
  (`stale_webhook_payment_replaced`) when an attempt, refused or still open, is on
  record: `create_preference` keeps its `mercado_pago_payment_id`. The money
  is not recorded; `ApprovalNoticeIsRecorded` speaks of the notices that the
  handler takes for its payment's own.
* A table's bill is confirmed, and `PaymentConfirmed` published, each time a cashier asks,
  whatever became of the order: `PublishedOnce` does not hold for tables.
* MpAttempts with `GatewayOf <- MCPagarme` violates `ApprovalNoticeIsRecorded`
  because a notice about an earlier charge takes over the identifiers of a
  payment that was rejected since and its approval is refused.
* `PaidChargeIsRecorded` promises that money is recorded only as long as the payment is
  about the charge that took it. Three times it is not, and the notice is answered
  `stale_webhook_...` and never comes again: `switch_to_pay_on_delivery` clears the
  identifiers of a charge that was paid but not yet reported
  (`payment_service.py:771-781`); of two creations that overlap the second commit writes
  its charge over the first one (485), which the customer may have paid; and where the
  payment was another provider's before, as that of an order staff entered, a notice that
  is handled before the creation has committed. In the last case a poll still finds
  the money, in the others nothing of the code does. Without its exception for a payment
  that is about another charge, WebhookLiveness violates the property for the first two.
* Every run has `FoundationOrders = {}`: the theorem `StockOnce` covers orders
  whose ingredients the inventory foundation owns, and `InventoryFoundation` says what
  becomes of their stock.

Of the deliveries:

* DeliverySerial with `StatusTargets = {"completed"}` violates `BusyIffCarrying`:
  `update_status` to `completed` frees nobody (compare
  `KNOWLEDGE_BASE.md:1255`). With `{"pending_assignment", "assigned"}` it does so
  because a failed delivery set back to `assigned` by hand leaves its courier
  available, and with `{"delivered"}` it violates `PaidAtTheDoor`: an admin may
  hand over what was not paid.
* With `AdjustsBusy = TRUE` it violates
  `BusyIffCarrying`: a courier's status may be set while he carries an order, and
  `assign` accepts a courier who is offline.
* With two overlapping `assign` requests `BusyIffCarrying` is violated: the courier
  is read and marked busy without a lock.
* With two overlapping requests it violates `PaidAtTheDoor`: a failure report that
  loaded a pending payment overwrites a confirmation. With three it violates
  `EarnedOnce`: a start that was sent twice takes a completed delivery back to the road,
  a report fails it and cancels its earning, a completion in flight makes another, and a
  payout that loaded the first one as due pays it.

In the kitchen:

* An order that a release by hand overtook stays at the dispatch: the kitchen refuses its
  units, the dispatch the order, and only a cancellation ends it. `ReadyMeansFinished`
  leaves it out (`overtaken`); the run HandRelease is about it.
* A unit that is remade keeps the dispatch mark of its attempt before, so
  `assign_driver` passes without a new check (compare
  `docs/GRAN_TORINO_PLANO_CONSOLIDADO_2026-10-26.md:123`); `ReworkIsClosedAgain`
  leaves these units out.
* An order that is being sent off while `return_to_kitchen` or `remake` commits
  goes on the road with units that are queued again.
* A drink that was returned or remade is queued, and `mark_ready` is refused until
  `POST /kitchen/orders/{id}/initialize` repairs it. A late `initialize` of an order
  that left the kitchen without units makes units nobody can finish.
* `remake` locks unit and order in the other order than `confirm_stock` does;
  PostgreSQL aborts one of two that meet, which is a command that did nothing.

Of the inventory foundation:

* A report of a preparation that takes one bucket in several allocations checks each
  against the balance before the report (`preparation_service.py:173`; the session does
  not flush before it reads), so that together they take what is not there or is
  reserved: with `MaxAllocations = 2` `ReservedIsThere` is violated (compare
  `docs/GRAN_TORINO_FASE_1.md:59`: other withdrawals cannot consume reserved balance).
  Reports also take from lots that are barred or past their deadline, and
  `PreparationService.complete` does not look at its order's status.
* A bucket with a reservation of the order comes before all others and is used beyond
  what is reserved of it, before a lot that expires earlier (compare the order of lots
  in `docs/GRAN_TORINO_FASE_0_CONTRATOS.md:257`).
* A reservation of which something is left when its order is delivered stays active
  until it expires or is released by hand.
* While the ingredient has neither lots nor reservations a sale takes from
  `default_location` without looking at what is there, so one place may be overdrawn
  while another has stock. `ReservationServes` therefore asks for balances that are not
  negative.
* A payment that is approved by a request that loaded its order in preparation deducts
  after the order was cancelled.

Of the certificates:

* A runner killed between writing the plain vhost and reloading leaves a file that no
  later job reloads. A runner that did not hear that its job succeeded rolls back the
  host of a store that was activated meanwhile; `TruthReturns` says that the row is
  corrected later, not that TLS comes back.

Of the outbox:

* `retry` does not give attempts back: a dead item that is retried by hand is pending
  and never picked (compare `docs/agente-whatsapp-fase-10.md`: `failed`, `dead` and
  `pending` items may be reprocessed). A retry that overlaps a cycle may leave the
  message queued under an item that is sent. Hence `asked` in the properties.
* Audio that was put off `max_attempts` times stays queued for good.
* A cycle that has loaded the provider does not see a pause (compare
  `docs/agente-whatsapp-fase-11.md`: nothing is sent while the provider is paused).
* A lost answer or a rollback sends a message twice (compare
  `docs/agente-whatsapp-fase-8.md:29`); a notice that comes before the cycle's
  commit finds no message and is lost.

Of the idempotency keys, whose last two properties speak of manual orders only:

* `create_payment` never abandons its claim (`routes/payments.py:97`). After an error
  every retry with the key, which the browser keeps in its session storage, is told that
  the key is being processed (`idempotency_service.py:113`) although nobody works on it,
  and nothing reads `expires_at`: without `Flow[k] = "manual"` `NoKeyLeftBehind` is
  violated, and so is `RetryFindsTheOrder` (compare
  `docs/GRAN_TORINO_PLANO_CONSOLIDADO_2026-10-26.md:173`: a retry asks for the result
  of the same operation).
* A request that dies between its claim and its order leaves the key claimed for good.
* An order that a retry finds again may lack what its first request had not done yet:
  the customer's figures and the automation's event.
* A replay of an order that an admin has archived meanwhile is refused
  (`routes/orders.py:309`), so `RetryFindsTheOrder` leaves archived orders out.

## 4. The proofs

### Orders and payments

`OrderPaymentProofs` proves for **every** number of orders, requests and charges,
every assignment of gateways, all outcomes of charges and every stock size:

* `TypeCorrectness`: `Spec => []TypeOK`
* `MoneyFirst`: `Spec => []NoApprovalWithoutMoney`
* `StockOnce`: `Spec => []StockMovedOnce`
* `AlwaysSound`: `Spec => []Sound`, on which the first two rest

**Argument.** `NoApprovalWithoutMoney` is not inductive: what a commit writes
comes from the snapshot and the gateway's answer that the request carries.
`MoneyInv` adds what has to be known of them: a request carries only charges of
its own order (`Owned`); a snapshot or an answer that says approved, paid or
refunded means that money came in (`RowOK`, `RequestOK`); a notice that says so
is about a charge that took money (`NoticeOK`). It is preserved because money
that came in stays in one of the states approved, refunded, charged back
(`ChargeMay`), so `Backed` is monotone: an old snapshot stays right about money
however stale it is about the status. `SavePayment` then mixes a sound snapshot
and a sound row column by column; the lemma about it shows that the result is
sound. The rest is one lemma per action, one step per conjunct it can disturb.
`StockMovedOnce` is inductive: each movement is written in the step that looked
for it. It needs types only for the ledger.

`ShelfHolds`: `Spec => []ShelfNeverNegative` rests on `ShelfInv`. The balance is what
was there, less the orders' sale movements and plus their reversals, counted as rows
(`SaleRows`, `ReversalRows`); a step writes at most one movement of one order, a sale
only when the balance it read under the ingredient's lock suffices (`StockSuffices`).

`OrderSerialProofs` proves what the handlers promise to each other although none of
them locks what it loads. Its hypothesis is `Undisturbed`, an action formula: a step
of somebody else leaves the rows of the order a request is working on as they are. A
lock at the load or a version column at the flush would see to it; the code has
neither, so that these are theorems about requests that do not meet at one order (any
number of them, at different orders, and with crashes). `OneWorkerIsEnough` shows that
one worker at a time meets it. With overlapping requests several of the properties
are violated (see the limits above).

* `SerialSound`: `[]SerialInv`; `LifecycleFollowed`: `FollowsLifecycle`;
  `PointsAwardedOnce`: `[]PointsOnce`
* with `NoHandEdits` (`change_status` is not among `EnabledOps`), `PaidOrdersBacked`:
  `[]PaidOrdersAreBacked`; `ApprovalKept`: `ApprovalIsKept`; and without cashiers who
  close bills at a table `ConfirmationsOnce`: `[]PublishedOnce`
* `OneCharge`: `[]OneChargePerMethod` at ASAAS and Pagar.me (`NoMercadoPago`), from
  `OneCreation` instead of `Undisturbed`: the creations of one order do not overlap,
  whatever else does
* `ApprovalsRecorded`: `ApprovalNoticeIsRecorded`, with `NoHandEdits` and every charge
  at Mercado Pago (`OnlyMercadoPago`); at the other two gateways it does not hold

**Argument.** `SerialInv` says that a request's snapshot is the row (`Fresh`), that it
passed the guards of its read on that snapshot (`Asked`), and that an order's stock
movements fit its status (`Shape`). A step then keeps an order (`Kept`) or takes it
along an edge of the graph together with its stock (`Moved`), which is what the
refinement needs: each edge maps to a step of `OrderLifecycle` and the rest to a
stutter. `PaidInv` relates an order's status to its payment's; the steps of the
payment are sorted into a few kinds (`PaymentsMove`), and the properties follow
from the kinds. An admin who sets a status by hand breaks the relation (the limits name
a sequence), hence `NoHandEdits`. Of the points the extra fact is that a request that is
about to award them delivered the order itself, and nobody else can deliver it again.
`ChargeInv` says that between the search for an earlier charge and the creation of the
new one there is none of that method.

`ApprovalNoticeIsRecorded` rests on `RecordInv`: a refused payment of Mercado Pago's names
the charge that came to nothing (`Named`), and there such a charge never comes back
(`Over`); so a notice whose charge was paid and which concerns the payment finds it
pending or approved (`Standing`) from its arrival until it is answered. That no other
handler answers the same notice meanwhile is the unique index of `payment_events`, the
last part of the invariant. `MeetsRecord` says what a step must leave of charges, payments
and the request that moves; `RecordKept` derives the invariant from it once, and one lemma
per group of actions establishes it.

The assumptions are those of the constants (`StoreAssumption`, `OpsAssumption`,
`AdminAssumption`, `GatewayAssumption`), which TLC evaluates on every run. TLC
checks `TypeOK` in ShopSerial and `NoApprovalWithoutMoney` in PaymentRace.

### Deliveries

`DeliveryProofs` proves, for every number of orders, couriers, earnings and
overlapping requests:

* `TypesKept`: `Spec => []TypeOK`, from `DeliveryTypes`: `Spec => []TypeInv`
* `CourierPaidOnce`: `NoFailures` implies `Spec => []EarnedOnce`
* `CollectedAtTheDoor`: `ByTheCourier` implies `Spec => []PaidAtTheDoor`

and, while nobody writes the rows a request has loaded (`Undisturbed`, which
`OneRequestIsEnough` proves of one request at a time):

* `OrdersGoAlong`: `[]OrderFollowsDelivery`, whatever statuses an admin sets
* `BusyCarry`: with a `CarefulAdmin`, `[]BusyIffCarrying`
* `FailuresCollected`: `[]PaidAtTheDoor` with failure reports, if no admin sets
  `delivered`; `FailuresPaidOnce`: `[]EarnedOnce` with failure reports

`TypeOK` is not inductive by itself: a payout or a failure report writes the status
of an earning it loaded earlier, so `TypeInv` adds that this earning is still a
row (`Known`), which holds because earnings never go away (`Kept`).

`EarnedOnce` becomes inductive as `OnePayout`: two earnings of an order that are
due or paid are the same one, and nobody in flight is about to cancel one
(`Settling`). A new earning is written in the step that looked for it under the
delivery's lock (`EnsureOnce`), and what is due or paid stays so (`StillOwed`).
This is where the assumption is needed: `NoFailures` says that nobody reports a
delivery as failed (`problem` is not among `EnabledOps`) or sets it so by hand.
Without it a report cancels an earning that a payout in flight has loaded and
then pays (the last of the limits above).

`PaidAtTheDoor` becomes inductive as `DoorInv`: `Collected` adds the cancelled
earnings to it, and `Sure` says that a request in flight hands over only what has
been paid for. It holds because money once taken is not given back in this model
(`StillPaid`), so a snapshot that saw it stays right. `ByTheCourier` excludes the
two ways around it that the limits above describe: a failure report, which
overwrites a confirmation, and an admin who sets `delivered` by hand. With failure
reports both properties need requests that do not meet at a delivery.

`Undisturbed` gives `NowInv`: what a request has loaded is still so, and what it checked
still holds (`Now`). `BusyIffCarrying` becomes inductive as `RideInv`, which also speaks
of deliveries that were made: their courier stays busy until they are completed. What
happens to couriers and deliveries is one of four things (`Taken`, `Rode`, `Ended`, and
nothing). `CarefulAdmin` is what DeliverySerial sets and the limits explain: an admin
neither changes a courier who carries an order, nor sets a delivery back to the waiting
list or to completed. A deactivation in flight found a courier who carries nothing, and
`assign` refuses one who is deactivated (`Quiet`).

### Kitchen

`KitchenProofs` proves, for every number of orders and units, every stock and any
bound on attempts:

* `KitchenInvariant`: `Spec => []KitchenInv`, and from it `KitchenTypes` (`TypeOK`),
  `OneLive` (`OneLiveAttempt`) and `ReadyFinished` (`ReadyMeansFinished`)
* `ReworkClosedAgain`: `Spec => ReworkIsClosedAgain`
* `StockInvariant`: `Spec => [](KitchenInv /\ StockInv)`, and from it `StockAccounted`
  (`StockFollowsAttempts`); `NobodyOvertakes`: `Spec => NoOvertaking`

`KitchenInv` is `TypeOK /\ UnitsSound`. It says of each unit by itself (`Sound`): it
shows its latest attempt, which is not cancelled, earlier attempts are over, nobody
works on a drink, and a unit of an order at the dispatch is finished, unless a release
by hand overtook the order. The first three are what makes the fourth inductive: a
command works on an attempt that is not over, which is therefore the latest one, and its
order is still in the kitchen. Nothing needs to be known of a release in flight, since
its commit looks at nothing: that it leaves unfinished units is what makes the order
`overtaken`. Most lemmas are about one unit's sequence of attempts, before and after one
of the four things a command does to it (an attempt written, added, cancelled and added,
a drink repaired). `ReworkIsClosedAgain` needs `MarksSound` besides: a unit is open, or
closed in its latest attempt, or was remade since.

`StockInv` has three parts. `Supply` says of each attempt how it was supplied: lines if
and only if its mode is `attempts`, never for a first attempt whose order was charged as
a whole, and some mode once it is assembled. `Balanced` is the shelf's bookkeeping; what
was taken is counted as the pairs of unit and attempt that have lines, so that one
attempt more is one element more. `QueueSound` says that the running checks are strictly
ordered by when they were asked for, and that their seconds run out in that order. The
heart of both theorems is a batch of `confirm_stock`: what each check of the batch gets
depends on its place among those that may take something. Places are counted
(`UpTo(S, R, x)` are the elements of S up to x; the first k places are k elements,
`FirstPlaces`), which takes the place of an induction over the batch: at most as many are
served as the shelf has units, and whoever has an earlier place than one who is served
is served as well.

### Inventory foundation

`FoundationProofs` proves, for any number of lots, places, orders, attempts and
reservations and any quantities:

* `FoundationTypes` (`TypeOK`); `NothingHeld`: `Spec => []NothingHeldForCancelled`;
  `VersionsCount`: `Spec => EachChangeCounts`
* `ReservedCovered`: `MaxAllocations <= 1` implies `Spec => []ReservedIsThere`, and
  `ReservationsServe`: then `Spec => []ReservationServes`

The first two properties need to know what a cancellation in flight has loaded
(`SeenIsCurrent`): every active reservation of its order is among those it found, with
the version it read. It holds because whoever else makes a reservation for an order, or
consumes one, locks the order first, and the cancellation has that lock.
`ReservedIsThere` is inductive with the types. It is about sums over reservations, which
are the cardinality of a set of (reservation, unit) pairs, so that the library's facts
about finite sets apply (`SumFacts` and the lemmas after it). What is taken of a bucket
is at most what is free for the order; what goes beyond the free stock comes off the
order's own reservations (`ConsumeReserved`), and every other writer checks the balance
(`OnlyFreeStock`). The assumption excludes the reports of the limits above.

`ReservationsServe` is about existence: that there is a way to take what the order needs
in the code's order of buckets, and a way to charge it to the reservations. That there is
enough follows from `ReservedIsThere` by counting single pieces, (bucket, number) pairs
(`Pieces`, of which `Total` is the number). The way is then constructed without
recursion: the pieces are put in one order, buckets first and numbers within a bucket
(`InTurn`), and what lies in the first `Need` places is taken; lemma `Fill` says that this
empties each bucket before it touches the next. The same lemma distributes what a bucket
gives over the order's reservations of it.

### Certificates

`CertificateProofs` proves, for any number of domains, requests, jobs and actions of
the administrator:

* `CertificateTypes` (`TypeOK`); `OneJobAtATime` and `OneJobPerRequest`, which together
  are the inductive `JobInv`; `EndedForGood`: `Spec => JobsAreFinal`
* `NginxLoads`: `Spec => []FilesLoad`; `RenewalServes`: `Spec => ServesThroughRenewal`

`FilesLoad` becomes inductive as `FileInv`: a runner past Certbot has a certificate on
the host, one that found TLS there has it there still, and only one that found no
vhost writes the plain one. It holds through kills because Certbot never gives a
certificate up (`LineageStays`), so whatever file the runner left stays loadable.

### Outbox

`OutboxProofs` proves, for any number of messages, workers, attempts and troubles:

* `OutboxInvariant`: `Spec => []OutboxInv`, and from it `OutboxTypes` (`TypeOK`),
  `CopiesHaveACause` (`TwiceOnlyWithCause`) and `PanelIsRight` (`PanelTellsTheTruth`)

What a cycle made of a message is written long after it was sent, so the invariant
speaks of message, item and the cycle's outcome together (`Fits`): every copy the
provider took has a cause and an attempt, where an acceptance not yet committed counts
as both (`Counted`); what says "sent" is right (`Honest`); a cycle works only on items
with attempts left (`Workable`); and until a retry by hand row, item and cycle agree
(`Agree`). `OneHolder` is SKIP LOCKED: a message has one cycle or none, so `Fits` speaks
of one outcome. `MessagesFit` states it of every message and `CyclesFit` adds what is
needed of the provider's columns. There is one lemma about `Fits` for dealing with an
item, for the commit and for the rollback; two more (`HeldAsBefore`, `OneCycleMoves`)
carry them to all messages. The assumptions are `OutboxAssumption` and
`KindsAssumption`.

### Idempotency keys

`ClaimsProofs` proves, for any number of requests, keys and bodies and any number of
deaths:

* `ClaimsInvariant`: `Spec => []ClaimsInv`, and from it `ClaimTypes` (`TypeOK`),
  `KeysAreGivenBack` (`NoKeyLeftBehind`) and `RetriesFindTheOrder`
  (`RetryFindsTheOrder`)
* `OneResultPerKey`: `Spec => ResultOnce`, the refinement of `OneResult`

None of the three properties is inductive: that a second result is never made rests on
what abandoned claims have in common. `ClaimsInv` says of every key that its row belongs
to the request that inserted it, that nothing is made with the key but by that request,
and that a request about to give its claim back has found nothing made, so its row is
there as long as a result is; and of every request that what it found, and what it was
told, was made with its own key and body, and that it was refused a manual order of its
own body only when that is archived. A step moves one request and touches the row
of its key only (`Leaves`), so what is known of the others carries over; `Together` and
`Moving` put the parts together and each action is looked at for its own request and
key. For the refinement `StepKeepsPromise` shows that a step makes, tells, or changes
nothing the promise sees. The assumptions are `FlowAssumption`, `NobodyAssumption` and
`DeathsAssumption`.

### What is left to TLC

**Only model-checked.** Every invariant and every action property of a passing run is
stated by a theorem. With TLC alone stay:

* liveness, which is out of the prover's reach: `PaidChargeIsRecorded`, `JobsEnd`,
  `TruthReturns` and `QueuedIsSettled`;
* `UsedFoodIsNeverReturned`, `SystemCancelsUnpaidOnly`, `NoConfirmationAfterRefund` and
  `ReleasedWhenFinished`, which do not hold.

The theorems of `OrderSerialProofs` and the second group of `DeliveryProofs` say nothing
of requests that overlap at one order. What TLC found of those is among the limits.

## 5. Not modelled

`recalculate_total`, which nothing calls (`delete` is another name for `archive`); of
the kitchen cooks, stations, presence and the screens' read models; of the domains
`create_pending`, `set_primary` and the listing of hosts; of WhatsApp the gateway's
instances, alerts and metrics, transcription, speech and the AI's answers; of the
delivery service the confirmation codes, positions, profiles, settings and reports, and
`auto_assign_pending`, whose choices are among what `assign` allows; of the inventory
receipts, purchase documents, units of measure, the genealogy of lots and the stages of
a preparation; and the components marked `not_modelled` in `PROJECT.json`, each with its
reason.

## 6. Plan

In order of importance:

1. **Composition of kitchen and shop**: `KitchenProduction` refines the
   none/working/ready of `OrderService`'s `units`; the theorem is a step simulation
   from `KitchenInv`.
2. **Courier allocation**: the abstract specification of who carries what, which
   `DeliveryService` implements while requests do not overlap; its steps would be
   `Taken`, `Rode` and `Ended` of `DeliveryProofs`.
3. **Agent jobs of WhatsApp**: transcription and answers, queued beside the outbox and
   selected without row locks.
4. **Automations**: executions that are queued, retried and deduplicated.

The suite is kept to about a dozen runs so that it stays quick: with each new
module, runs of the older ones are merged or give way.

Theorems to add: the two refinements above.
