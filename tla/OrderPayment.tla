---------------------------- MODULE OrderPayment ----------------------------
(***************************************************************************)
(* The order and the payment services over their shared rows: requests of  *)
(* customers, staff, kitchen displays and gateways, each with a session of *)
(* its own, whose transactions interleave.                                 *)
(***************************************************************************)
EXTENDS OrderService, PaymentService

vars == <<storeVars, gatewayVars>>

Init == StoreInit /\ GatewayInit

\* A command that runs in one transaction still takes a worker.
SomeFree == \E r \in Requests : Free(r)

Kitchen(o) ==
  \/ KdsStartPreparation(o)
  \/ KdsUnitsReady(o)
  \/ KdsRemake(o)
  \/ KdsMarkReady(o)
  \/ KdsReturnToKitchen(o)
  \/ KdsServeDineIn(o)

Creation(o) ==
  \/ \E kind \in Checkouts : CreateFromCheckout(o, kind)
  \/ CreateFromTableSession(o)

OrderRequest(r) ==
  \/ \E o \in Orders, to \in AdminTargets : ChangeStatusRead(r, o, to)
  \/ ChangeStatusCommit(r)
  \/ StockRefusal(r)
  \/ AwardPoints(r)
  \/ \E o \in Orders, who \in {"customer", "admin", "system"} : CancelRead(r, o, who)
  \/ CancelCommit(r)
  \/ RecordCancel(r)
  \/ \E o \in Orders : ArchiveRead(r, o)
  \/ ArchiveCancel(r)
  \/ ArchiveMark(r)
  \/ \E o \in Orders : KdsCompletePickup(r, o)
  \/ \E o \in Orders, m \in Methods : ConfirmTableRead(r, o, m)
  \/ ConfirmTableCommit(r)
  \/ \E o \in Orders : ServeTableRead(r, o)
  \/ ServeTableCommit(r)

PaymentRequest(r) ==
  \/ \E o \in Orders, m \in OnlineMethods : CreateRead(r, o, m)
  \/ \E c \in Charges : CreateReuse(r, c)
  \/ CreateMiss(r)
  \/ \E c \in Charges, s \in ChargeStatus : CreateCharge(r, c, s)
  \/ CreateCommit(r)
  \/ \E o \in Orders : PreferenceRead(r, o)
  \/ PreferenceCommit(r)
  \/ \E o \in Orders : SwitchRead(r, o)
  \/ SwitchCommit(r)
  \/ \E n \in Notice : WebhookFetch(r, n)
  \/ WebhookLoad(r)
  \/ WebhookCommit(r)
  \/ \E o \in Orders : PollRead(r, o)
  \/ PollAnswer(r)
  \/ PollCommit(r)
  \/ \E o \in Orders, how \in {"manual", "cash", "pay_on_delivery"} : ApproveRead(r, o, how)
  \/ ApproveCommit(r)
  \/ \E o \in Orders, op \in {"cancel_call", "refund_call"} : OperateRead(r, o, op)
  \/ \E s \in ChargeStatus : OperateRemote(r, s)
  \/ OperateCommit(r)
  \/ Abort(r)

Next ==
  \/ /\ SomeFree
     /\ \E o \in Orders : Kitchen(o) \/ Creation(o)
     /\ UNCHANGED gatewayVars
  \/ \E r \in Requests : OrderRequest(r) /\ UNCHANGED gatewayVars
  \/ \E r \in Requests : PaymentRequest(r)
  \/ \E c \in Charges, s \in ChargeStatus : GatewayMove(c, s)
  \/ \E c \in Charges, o \in Orders, s \in ChargeStatus : PayLink(c, o, s)

Spec == Init /\ [][Next]_vars

\* A request that runs goes on or dies.
GoesOn(r) ==
  /\ ~Free(r)
  /\ PaymentRequest(r) \/ (OrderRequest(r) /\ UNCHANGED gatewayVars)

\* Gateways send a notice again until it is answered, and a worker is found
\* for it sooner or later: requests may fail, but not every one of them.
Fairness ==
  \A r \in Requests :
    /\ WF_vars(GoesOn(r))
    /\ SF_vars(\E n \in Notice : WebhookFetch(r, n))
    /\ SF_vars(WebhookLoad(r))
    /\ SF_vars(WebhookCommit(r))

FairSpec == Spec /\ Fairness

TypeOK == StoreTypeOK /\ GatewayTypeOK

-----------------------------------------------------------------------------
(* What holds whatever the interleaving.                                   *)

Money == {"approved", "refunded", "charged_back"}

\* Somebody paid: a charge of the order took money, or the staff said so.
Backed(o) ==
  \/ staffPaid[o]
  \/ \E c \in Charges : /\ charge[c] # Unused
                        /\ charge[c].order = o
                        /\ charge[c].status \in Money

\* A payment is approved, or refunded, only when money really came in: no
\* stale poll, late notice, retry or lost update approves one by itself
\* (_apply_status and its callers).
NoApprovalWithoutMoney ==
  \A o \in Orders : payment[o].status \in {"approved", "refunded"} => Backed(o)

\* The invariant behind it: a request in flight carries only charges of its own
\* order, and an answer or a snapshot that says "paid" stays true because money
\* that came in stays in one of the states of Money.
Earned == {"approved", "paid", "refunded"}

Owned(o, c) == c # NoCharge => charge[c] # Unused /\ charge[c].order = o

RowOK(o, pay) ==
  /\ Owned(o, pay.mpId)
  /\ Owned(o, pay.remote)
  /\ pay.status \in Earned => Backed(o)

NoticeOK(n) ==
  /\ charge[n[1]] # Unused
  /\ n[2] \in Money => charge[n[1]].status \in Money

RequestOK(q) ==
  /\ q.op \in {"change_status", "cancel", "archive"} => q.to \in OrderStatus
  /\ q.op \in {"create_call", "create_charge", "create_commit"} =>
       q.method \in OnlineMethods
  /\ q.op \in {"create_commit", "webhook_call", "webhook", "status_poll",
               "cancel_call", "refund_call", "operate_commit"} => q.charge # NoCharge
  /\ q.op \in {"create_commit", "webhook_call", "webhook", "operate_commit"} =>
       q.got \in PaymentStatus
  /\ q.op \in {"webhook_call", "webhook"} => q.event \in Notice
  /\ q.op = "status_poll" => q.pay.provider \in Gateways
  /\ Owned(q.o, q.charge)
  /\ RowOK(q.o, q.pay)
  /\ q.got \in Earned => Backed(q.o)

MoneyInv ==
  /\ \A r \in Requests : ~Free(r) => RequestOK(req[r])
  /\ \A o \in Orders : RowOK(o, payment[o])
  /\ \A n \in notices : NoticeOK(n)

\* However many requests consume and reverse one order's stock at the same
\* time, each kind of movement is written at most once, and only after a sale
\* (consume_order_sale and reverse_order_sale look before they insert).
StockMovedOnce ==
  \A o \in Orders :
    /\ ledger[o].sale <= 1
    /\ ledger[o].loss <= ledger[o].sale
    /\ ledger[o].reversal <= ledger[o].sale

\* The orders in flight never take more from the shelf than lies on it.
ShelfNeverNegative == Balance >= 0

-----------------------------------------------------------------------------
(* What holds while requests do not overlap.                               *)

StageOf ==
  [ absent |-> "none", pending |-> "awaiting", waiting_payment |-> "awaiting",
    aguardando_pagamento |-> "awaiting", pagamento_recusado |-> "awaiting",
    pagamento_expirado |-> "awaiting", paid |-> "accepted", pago |-> "accepted",
    preparing |-> "kitchen", ready_for_pickup |-> "ready", on_the_way |-> "out",
    delivered |-> "done", cancelled |-> "off", refunded |-> "off" ]

ShelfOf(entry) ==
  CASE entry.sale = 0 -> "whole"
    [] entry.sale = 1 /\ entry.loss = 0 /\ entry.reversal = 0 -> "taken"
    [] entry.sale = 1 /\ entry.loss = 1 /\ entry.reversal = 0 -> "lost"
    [] OTHER -> "miscounted"

Lifecycle == INSTANCE OrderLifecycle WITH
  stage <- [o \in Orders |-> StageOf[order[o].status]],
  shelf <- [o \in Orders |-> ShelfOf(ledger[o])]

\* Orders and their stock movements follow the promise of OrderLifecycle
\* through every handler, two-commit operation and crash.
FollowsLifecycle == Lifecycle!Spec

\* An approved payment is refunded or stays approved: no later attempt, notice
\* or poll resets it (create, _apply_status).
ApprovalIsKept ==
  [][\A o \in Orders : payment[o].status = "approved" =>
        payment'[o].status \in {"approved", "refunded"}]_vars

\* PaymentConfirmed and PaymentReversed reach the bus at most once, over
\* redelivered notices, polls and retries.
PublishedOnce ==
  \A o \in Orders : published[o].confirmed <= 1 /\ published[o].reversed <= 1

\* A delivered order earned its points once or, after a crash between the two
\* commits, never.
PointsOnce == \A o \in Orders : points[o] <= 1 /\ (points[o] = 1 => order[o].status = "delivered")

\* Unless an admin sets the status by hand, an order is treated as paid only
\* when its payment was approved, is collected on delivery, or is the table's.
PaidOrdersAreBacked ==
  \A o \in Orders : order[o].status \in PaidFlow =>
    \/ payment[o].status \in {"approved", "refunded"}
    \/ payment[o].pod
    \/ Fulfillment[o] = "dine_in"

\* The periodic job cancels orders that were not paid: auto_cancel_expired gives
\* "PIX nao pago" as its reason.  It does not look at the payment.
SystemCancelsUnpaidOnly ==
  [][\A o \in Orders :
        (order'[o].cancelledBy = "system" /\ order[o].cancelledBy # "system") =>
          payment[o].status \notin {"approved", "refunded"}]_vars

\* A charge whose refund was reported and answered is not confirmed by a notice of
\* its payment that comes late: docs/ASAAS_MULTI_GATEWAY_EXECUTION_PLAN.md:291 has the
\* charge looked up before a payment is confirmed.  process_asaas_webhook looks it up,
\* but _asaas_status_to_payment takes the event's name for as good as the answer.
NoConfirmationAfterRefund ==
  [][\A r \in Requests :
       (/\ Runs(r, "webhook")
        /\ payment'[req[r].o].status = "approved"
        /\ payment[req[r].o].status # "approved")
         => <<req[r].charge, "refunded">> \notin seen]_vars

\* A retry after a lost answer does not charge the customer again: the gateway
\* holds one charge per order and method.
OneChargePerMethod ==
  \A c, d \in Charges :
    (/\ Unused \notin {charge[c], charge[d]}
     /\ charge[c].order = charge[d].order
     /\ charge[c].method = charge[d].method) => c = d

\* A notice that the handler takes for its payment's own and that says
\* approved is answered only when the payment is approved, or refunded since.
ApprovalNoticeIsRecorded ==
  [][\A r \in Requests :
       (Runs(r, "webhook") /\ req[r].got = "approved" /\ req[r].event \in seen' \ seen) =>
          payment'[req[r].o].status \in {"approved", "refunded"}]_vars

\* Money that Mercado Pago took for the payment's current attempt, and whose notice
\* is not answered yet, is recorded: webhooks are retried until they are answered.
\* The promise ends when the gateway gives the money back, and when the payment is no
\* longer about that charge: it was switched to the courier, or another attempt's
\* creation wrote its own charge over it.  Then process_webhook ignores the notice, as
\* it does one that comes before the attempt of an order the shop entered is on record;
\* that money waits for a poll or a hand.  And it ends when another attempt of the order
\* comes to nothing, whose report a request in flight may write over this one.
PaidChargeIsRecorded ==
  \A o \in Orders, c \in Charges :
    (/\ payment[o].mpId = c /\ Concerns("mercado_pago", payment[o], c)
     /\ payment[o].status = "pending"
     /\ charge[c].status = "approved" /\ <<c, "approved">> \in notices \ seen)
      ~> \/ payment[o].status \in {"approved", "refunded"}
         \/ charge[c].status # "approved"
         \/ ~Concerns("mercado_pago", payment[o], c)
         \/ \E d \in Charges : /\ charge[d] # Unused /\ charge[d].order = o
                              /\ charge[d].status \in {"rejected", "cancelled", "expired"}

\* state_machine.py marks delivered, cancelled and refunded as terminal.
TerminalIsFinal ==
  [][\A o \in Orders : order[o].status \in TerminalOrder =>
        order'[o].status = order[o].status]_vars

\* What the kitchen has used is recorded as a loss and never put back.
UsedFoodIsNeverReturned ==
  \A o \in Orders : order[o].started => ledger[o].reversal = 0
=============================================================================
