--------------------------- MODULE PaymentService ---------------------------
(***************************************************************************)
(* backend/services/payment_service.py with the gateways it drives: the    *)
(* attempts a customer makes, the notices and polls that report what       *)
(* became of them, and what the shop's staff confirm, cancel or refund.    *)
(*                                                                         *)
(* The gateways themselves are external: a charge moves by itself and each *)
(* move sends a notice that may be delivered late, out of order, again     *)
(* until it is answered, or never.                                         *)
(***************************************************************************)
EXTENDS OrderStore

CONSTANTS
  GatewayOf,   \* the provider PaymentGatewayResolver picks for a method
  Outcomes     \* bound: what the gateways make of charges in this instance

Gateways      == {"mercado_pago", "asaas", "pagarme"}
OnlineMethods == {"pix", "credit_card"}

ASSUME GatewayAssumption == GatewayOf \in [OnlineMethods -> Gateways]
ASSUME OutcomesAssumption == Outcomes \subseteq ChargeStatus

VARIABLES
  charge,    \* the remote charges, as their gateway knows them
  notices,   \* notices the gateways have sent
  seen,      \* payment_events rows: notices the shop has answered
  links      \* orders with a link to Mercado Pago's own checkout

gatewayVars == <<charge, notices, seen, links>>

Unused    == [status |-> Missing]
ChargeRow == [order : Orders, method : OnlineMethods, gateway : Gateways,
              status : ChargeStatus]

GatewayTypeOK ==
  /\ charge  \in [Charges -> ChargeRow \cup {Unused}]
  /\ notices \subseteq Notice
  /\ seen    \subseteq Notice
  /\ links   \subseteq Orders

GatewayInit ==
  /\ charge  = [c \in Charges |-> Unused]
  /\ notices = {}
  /\ seen    = {}
  /\ links   = {}

-----------------------------------------------------------------------------
(* What a gateway's word means here.                                       *)

\* Mutants: a chargeback has no translation; an open charge counts as paid.
MpStatusAsIs(s) == s
MpStatusHasty(s) ==
  CASE s = "pending"      -> "approved"
    [] s = "charged_back" -> "rejected"
    [] OTHER              -> s

\* _mp_status_to_payment
MpStatus(s) == IF s = "charged_back" THEN "rejected" ELSE s

\* _asaas_status_to_payment: the event of the notice counts beside the status
\* that ASAAS answers; a card refusal is known from its event only.
AsaasStatus(s, event) ==
  IF "approved" \in {s, event} THEN "approved"
  ELSE IF "refunded" \in {s, event} THEN "refunded"
  ELSE IF "cancelled" \in {s, event} THEN "cancelled"
  ELSE IF "expired" \in {s, event} THEN "expired"
  ELSE IF event = "rejected" THEN "rejected" ELSE "pending"

\* _pagarme_status_to_payment: it has no word for an expired charge.
PagarmeStatus(s) ==
  CASE s = "charged_back" -> "rejected"
    [] s = "expired"      -> "pending"
    [] OTHER              -> s

Answer(gateway, s, event) ==
  CASE gateway = "mercado_pago" -> MpStatus(s)
    [] gateway = "asaas"        -> AsaasStatus(s, event)
    [] gateway = "pagarme"      -> PagarmeStatus(s)

\* _order_status_for_payment
OrderTarget(s) ==
  CASE s = "approved"               -> "paid"
    [] s = "refunded"               -> "refunded"
    [] s \in {"cancelled", "expired"} -> "pagamento_expirado"
    [] OTHER                        -> "none"

-----------------------------------------------------------------------------
(* _apply_status, through which every report passes.                       *)

PaidFlow == {"paid", "pago", "preparing", "ready_for_pickup", "on_the_way", "delivered"}

\* A cancellation of what was already paid is a refund.
Settled(from, s) ==
  IF s = "cancelled" /\ from \in {"approved", "paid"} THEN "refunded" ELSE s

\* Mutant: a chargeback reopens the payment.
AcceptsChargeback(from, s) ==
  \/ from = s /\ s = "approved"
  \/ from # s /\ PaymentMay(from, s)
  \/ from = "approved" /\ s = "rejected"

Accepts(from, s) == IF from = s THEN s = "approved" ELSE PaymentMay(from, s)

\* Mutant: the order follows its payment wherever it is.
OrderFollows(ord, s, who) ==
  IF OrderTarget(s) = "none" THEN ord ELSE [ord EXCEPT !.status = OrderTarget(s)]

\* The order after its payment became s.  A failed attempt cancels the order
\* in the same stroke unless somebody cancelled it before.
OrderAfter(ord, s, who) ==
  LET target == OrderTarget(s) IN
  IF target = "none" THEN ord
  ELSE IF s = "approved" /\ ord.status \in PaidFlow THEN [ord EXCEPT !.paidAt = TRUE]
  ELSE IF ~OrderMay(ord.status, target) THEN ord
  ELSE IF s \in {"expired", "cancelled"} /\ ord.cancelledBy = "none"
  THEN [ord EXCEPT !.status = "cancelled", !.cancelledBy = who]
  ELSE [ord EXCEPT !.status = target, !.paidAt = @ \/ s = "approved"]

\* Stock is consumed on approval and reversed whenever the order is off.
StockAfter(o, ord, s) ==
  LET used == IF s = "approved" THEN ConsumeSale(o, ord.status) ELSE ledger[o]
  IN IF ord.status \in {"cancelled", "refunded"}
     THEN ReverseSale(o, used, ord.started) ELSE used

\* Mutant: every accepted report is published.
PublishedEachTime(entry, from, s) ==
  [ confirmed |-> IF s = "approved" THEN Bump(entry.confirmed) ELSE entry.confirmed,
    reversed  |-> IF s = "refunded" THEN Bump(entry.reversed)  ELSE entry.reversed ]

\* PaymentConfirmed and PaymentReversed are published after the commit by the
\* request that changed the status.
PublishedAfter(entry, from, s) ==
  [ confirmed |-> IF s = "approved" /\ from # s THEN Bump(entry.confirmed)
                                                ELSE entry.confirmed,
    reversed  |-> IF s = "refunded" /\ from # s THEN Bump(entry.reversed)
                                                ELSE entry.reversed ]

\* Request r applies s to the payment and order of its session.  A refused
\* status leaves only the columns the caller filled in, if the caller commits.
ApplyStatus(r, pay, ord, answer, who, commits) ==
  LET q    == req[r]
      s    == Settled(pay.status, answer)
      next == OrderAfter(ord, s, who)
  IN /\ IF Accepts(pay.status, s)
        THEN /\ s = "approved" => StockSuffices(q.o, next.status)
             /\ payment' = [payment EXCEPT ![q.o] =
                              SavePayment(@, q.pay, [pay EXCEPT !.status = s])]
             /\ order' = [order EXCEPT ![q.o] = SaveOrder(@, q.ord, next)]
             /\ ledger' = [ledger EXCEPT ![q.o] = StockAfter(q.o, next, s)]
             /\ published' = [published EXCEPT ![q.o] =
                                PublishedAfter(@, pay.status, s)]
        ELSE /\ payment' = IF commits
                           THEN [payment EXCEPT ![q.o] = SavePayment(@, q.pay, pay)]
                           ELSE payment
             /\ UNCHANGED <<order, ledger, published>>
     /\ Leave(r)
     /\ UNCHANGED <<units, points>>

-----------------------------------------------------------------------------
(* create and its variants: load, charge the gateway, commit.              *)

Payable == {"pending", "waiting_payment", "aguardando_pagamento",
            "pagamento_recusado", "pagamento_expirado"}

\* An attempt in progress is shown again or refused, never replaced.
MayCreate(pay, method) ==
  CASE GatewayOf[method] = "mercado_pago" ->
         ~(pay.mpId # NoCharge /\ pay.status \in {"approved", "pending"})
    [] GatewayOf[method] = "pagarme" ->
         ~(pay.status = "approved" \/ (pay.status = "pending" /\ pay.remote # NoCharge))
    [] GatewayOf[method] = "asaas" ->
         /\ pay.status # "approved"
         /\ pay.status = "pending" =>
              /\ pay.mpId = NoCharge
              /\ IF method = "pix"
                 THEN ~(pay.provider = "asaas" /\ pay.method = "pix" /\ pay.remote # NoCharge)
                 ELSE pay.remote = NoCharge

CreateRead(r, o, method) ==
  /\ "create_call" \in EnabledOps
  /\ Free(r) /\ order[o].status \in Payable
  /\ MayCreate(payment[o], method)
  /\ Enter(r, [Loaded("create_call", o) EXCEPT !.method = method])
  /\ UNCHANGED <<order, payment, ledger, units, points, published, staffPaid>>
  /\ UNCHANGED gatewayVars

\* Mutant: only an open charge is found again.
EarlierOpen(o, method) ==
  { c \in Charges : /\ charge[c] # Unused
                    /\ charge[c].order = o
                    /\ charge[c].method = method
                    /\ charge[c].gateway = GatewayOf[method]
                    /\ charge[c].status = "pending" }

\* The charges an earlier attempt of the same kind left at the gateway.
Earlier(o, method) ==
  { c \in Charges : /\ charge[c] # Unused
                    /\ charge[c].order = o
                    /\ charge[c].method = method
                    /\ charge[c].gateway = GatewayOf[method] }

\* Only immediate failures count; a success waits for the notice.
CreateAnswer(gateway, method, s) ==
  LET answer == Answer(gateway, s, "none")
  IN IF /\ answer \in {"rejected", "cancelled", "expired"}
        /\ ~(gateway = "asaas" /\ method = "pix")
     THEN answer ELSE "pending"

Answered(r, c, s) ==
  LET q == req[r]
  IN Enter(r, [q EXCEPT !.op = "create_commit", !.charge = c,
                        !.got = CreateAnswer(GatewayOf[q.method], q.method, s)])

\* The gateway answers with a charge it has: ASAAS is searched for the order's
\* reference, Pagar.me's idempotency key is the order, method and amount, and
\* Mercado Pago's covers the form, which the customer may send again.
CreateReuse(r, c) ==
  /\ Runs(r, "create_call")
  /\ c \in Earlier(req[r].o, req[r].method)
  /\ Answered(r, c, charge[c].status)
  /\ UNCHANGED <<order, payment, ledger, units, points, published, staffPaid>>
  /\ UNCHANGED gatewayVars

\* At ASAAS the search and the creation are two calls.
CreateMiss(r) ==
  /\ Runs(r, "create_call")
  /\ GatewayOf[req[r].method] = "asaas"
  /\ Earlier(req[r].o, req[r].method) = {}
  /\ Enter(r, [req[r] EXCEPT !.op = "create_charge"])
  /\ UNCHANGED <<order, payment, ledger, units, points, published, staffPaid>>
  /\ UNCHANGED gatewayVars

\* A card is decided at once, a Pix waits for the customer.
FirstStatus(method) ==
  Outcomes \cap (IF method = "pix" THEN {"pending"} ELSE {"pending", "approved", "rejected"})

CreateCharge(r, c, s) ==
  LET q       == req[r]
      gateway == GatewayOf[q.method]
  IN /\ Runs(r, "create_charge") \/ (Runs(r, "create_call") /\ gateway # "asaas")
     /\ gateway = "pagarme" => Earlier(q.o, q.method) = {}
     /\ charge[c] = Unused
     /\ s \in FirstStatus(q.method)
     /\ charge' = [charge EXCEPT ![c] =
          [order |-> q.o, method |-> q.method, gateway |-> gateway, status |-> s]]
     /\ notices' = IF s = "pending" THEN notices ELSE notices \cup {<<c, s>>}
     /\ Answered(r, c, s)
     /\ UNCHANGED <<order, payment, ledger, units, points, published, staffPaid, seen,
                    links>>

\* _pending_payment and the columns of the gateway's answer.
Attempt(pay, method, c) ==
  LET gateway == GatewayOf[method]
      row     == IF pay.status = "approved" THEN pay
                 ELSE [pay EXCEPT !.method = method, !.provider = gateway]
  IN [row EXCEPT !.status   = "pending",
                 !.provider = IF gateway = "mercado_pago" THEN @ ELSE gateway,
                 !.mpId     = CASE gateway = "mercado_pago" -> c
                                [] gateway = "asaas"        -> NoCharge
                                [] gateway = "pagarme"      -> @,
                 !.remote   = c,
                 !.pod      = @ /\ gateway # "asaas"]

CreateCommit(r) ==
  LET q   == req[r]
      pay == Attempt(q.pay, q.method, q.charge)
  IN /\ Runs(r, "create_commit")
     /\ IF q.got # "pending"
        THEN ApplyStatus(r, pay, q.ord, q.got, "system", FALSE)
        ELSE /\ payment' = [payment EXCEPT ![q.o] = SavePayment(@, q.pay, pay)]
             /\ Leave(r)
             /\ UNCHANGED <<order, ledger, units, points, published>>
     /\ UNCHANGED staffPaid
     /\ UNCHANGED gatewayVars

-----------------------------------------------------------------------------
(* create_preference: a link to Mercado Pago's checkout, where customers   *)
(* pay without the shop.                                                   *)

PreferenceRead(r, o) ==
  /\ "preference" \in EnabledOps
  /\ Free(r) /\ order[o].status \in Payable
  /\ GatewayOf["credit_card"] = "mercado_pago"
  /\ Enter(r, Loaded("preference", o))
  /\ UNCHANGED <<order, payment, ledger, units, points, published, staffPaid>>
  /\ UNCHANGED gatewayVars

\* The identifiers of an earlier attempt stay on the payment.
PreferenceCommit(r) ==
  LET q   == req[r]
      row == IF q.pay.status = "approved" THEN q.pay
             ELSE [q.pay EXCEPT !.method = "credit_card", !.provider = "mercado_pago"]
  IN /\ Runs(r, "preference")
     /\ payment' = [payment EXCEPT ![q.o] =
                      SavePayment(@, q.pay, [row EXCEPT !.status = "pending"])]
     /\ links' = links \cup {q.o}
     /\ Leave(r)
     /\ UNCHANGED <<order, ledger, units, points, published, staffPaid,
                    charge, notices, seen>>

\* The customer pays through the link: a charge the shop did not ask for.
PayLink(c, o, s) ==
  /\ o \in links /\ charge[c] = Unused
  /\ s \in FirstStatus("credit_card")
  /\ charge' = [charge EXCEPT ![c] =
       [order |-> o, method |-> "credit_card", gateway |-> "mercado_pago", status |-> s]]
  /\ notices' = IF s = "pending" THEN notices ELSE notices \cup {<<c, s>>}
  /\ UNCHANGED <<seen, links>>
  /\ UNCHANGED storeVars

-----------------------------------------------------------------------------
(* switch_to_pay_on_delivery: the order goes to the kitchen unpaid.        *)

SwitchRead(r, o) ==
  /\ "switch_to_pay_on_delivery" \in EnabledOps
  /\ Free(r) /\ order[o].status \in Payable
  /\ payment[o].status = "pending" \/ PaymentMay(payment[o].status, "pending")
  /\ Enter(r, Loaded("switch_to_pay_on_delivery", o))
  /\ UNCHANGED <<order, payment, ledger, units, points, published, staffPaid>>
  /\ UNCHANGED gatewayVars

\* provider_payment_id stays; consume_order_sale is called and finds an order
\* that is paid, not in preparation.
SwitchCommit(r) ==
  LET q == req[r]
  IN /\ Runs(r, "switch_to_pay_on_delivery")
     /\ payment' = [payment EXCEPT ![q.o] = SavePayment(@, q.pay,
          [q.pay EXCEPT !.method = "cash", !.status = "pending",
                        !.provider = "on_delivery", !.mpId = NoCharge, !.pod = TRUE])]
     /\ order' = [order EXCEPT ![q.o] = SaveOrder(@, q.ord, [q.ord EXCEPT !.status = "paid"])]
     /\ Leave(r)
     /\ UNCHANGED <<ledger, units, points, published, staffPaid>>
     /\ UNCHANGED gatewayVars

-----------------------------------------------------------------------------
(* The webhooks.  The event row is inserted and flushed before the gateway *)
(* is asked; its unique index keeps a second delivery of the same notice   *)
(* waiting, and the second then finds the row.                             *)

\* Mutant: the event row is committed before the effect.
WebhookFetchEager(r, n) ==
  LET c == n[1]
  IN /\ "webhook_call" \in EnabledOps
     /\ Free(r) /\ n \in notices \ seen
     /\ Enter(r, [Continued("webhook_call", charge[c].order, "none") EXCEPT
                    !.event = n, !.charge = c,
                    !.got = Answer(charge[c].gateway, charge[c].status, n[2])])
     /\ seen' = seen \cup {n}
     /\ UNCHANGED <<order, payment, ledger, units, points, published, staffPaid,
                    charge, notices, links>>

WebhookFetch(r, n) ==
  LET c == n[1]
  IN /\ "webhook_call" \in EnabledOps
     /\ Free(r) /\ n \in notices \ seen
     /\ \A other \in { x \in Requests : ~Free(x) } : req[other].event # n
     /\ Enter(r, [Continued("webhook_call", charge[c].order, "none") EXCEPT
                    !.event = n, !.charge = c,
                    !.got = Answer(charge[c].gateway, charge[c].status, n[2])])
     /\ UNCHANGED <<order, payment, ledger, units, points, published, staffPaid>>
     /\ UNCHANGED gatewayVars

\* Mutant: nobody asks whether the payment was replaced.
ConcernsAny(gateway, pay, c) == TRUE

\* Is a notice about charge c still about this payment?  Pagar.me's handler
\* falls back on the order of the charge and does not ask.
Concerns(gateway, pay, c) ==
  CASE gateway = "mercado_pago" -> pay.provider = gateway /\ pay.mpId \in {c, NoCharge}
    [] gateway = "asaas"        -> pay.provider = gateway /\ pay.remote \in {c, NoCharge}
    [] gateway = "pagarme"      -> TRUE

WebhookLoad(r) ==
  LET q == req[r]
  IN /\ Runs(r, "webhook_call")
     /\ IF Concerns(charge[q.charge].gateway, payment[q.o], q.charge)
        THEN /\ Enter(r, [q EXCEPT !.op = "webhook", !.ord = order[q.o], !.pay = payment[q.o]])
             /\ UNCHANGED seen
        ELSE /\ Leave(r)
             /\ seen' = seen \cup {q.event}
     /\ UNCHANGED <<order, payment, ledger, units, points, published, staffPaid,
                    charge, notices, links>>

\* Mutant: whoever adopts a charge takes the payment from the courier.
AdoptOnline(gateway, pay, c) ==
  [pay EXCEPT !.provider = gateway, !.remote = c, !.pod = FALSE]

\* The identifiers a handler writes from the gateway's answer.
Adopt(gateway, pay, c) ==
  [pay EXCEPT !.provider = IF gateway = "mercado_pago" THEN @ ELSE gateway,
              !.mpId     = IF gateway = "mercado_pago" THEN c ELSE @,
              !.remote   = c]

WebhookCommit(r) ==
  LET q == req[r]
  IN /\ Runs(r, "webhook")
     /\ ApplyStatus(r, Adopt(charge[q.charge].gateway, q.pay, q.charge),
                    q.ord, q.got, "system", TRUE)
     /\ seen' = seen \cup {q.event}
     /\ UNCHANGED <<staffPaid, charge, notices, links>>

-----------------------------------------------------------------------------
(* payment_status, get_by_order and reconcile ask the gateway themselves.  *)

ChargeOf(pay) == IF pay.provider = "mercado_pago" THEN pay.mpId ELSE pay.remote

\* _sync_provider_payment: whether there is anything to ask.
Polls(pay, ord) ==
  /\ pay.provider \in Gateways
  /\ ChargeOf(pay) # NoCharge
  /\ pay.provider = "mercado_pago" =>
       \/ pay.status = "pending"
       \/ pay.status = "approved" /\ ord.status \notin PaidFlow
  /\ pay.provider = "asaas" => pay.status \notin {"cancelled", "expired", "refunded"}

PollRead(r, o) ==
  /\ "status_poll" \in EnabledOps
  /\ Free(r) /\ Polls(payment[o], order[o])
  /\ Enter(r, [Loaded("status_poll", o) EXCEPT !.charge = ChargeOf(payment[o])])
  /\ UNCHANGED <<order, payment, ledger, units, points, published, staffPaid>>
  /\ UNCHANGED gatewayVars

PollAnswer(r) ==
  LET q == req[r]
  IN /\ Runs(r, "status_poll") /\ q.got = "none"
     /\ Enter(r, [q EXCEPT !.got =
                    Answer(charge[q.charge].gateway, charge[q.charge].status, "none")])
     /\ UNCHANGED <<order, payment, ledger, units, points, published, staffPaid>>
     /\ UNCHANGED gatewayVars

\* Only Pagar.me's poll leaves without a commit when the status is refused.
PollCommit(r) ==
  LET q == req[r]
  IN /\ Runs(r, "status_poll") /\ q.got # "none"
     /\ ApplyStatus(r, Adopt(q.pay.provider, q.pay, q.charge), q.ord, q.got, "system",
                    q.pay.provider # "pagarme")
     /\ UNCHANGED staffPaid
     /\ UNCHANGED gatewayVars

-----------------------------------------------------------------------------
(* What the staff do: approve_manual, confirm_cash and                     *)
(* confirm_pay_on_delivery; cancel_payment and refund_payment.             *)

MayApprove(o, how) ==
  CASE how = "manual" ->
         /\ order[o].status \in {"pending", "waiting_payment", "aguardando_pagamento"}
         /\ payment[o].status = "pending"
    [] how = "cash" -> order[o].status # Missing /\ payment[o].method = "cash"
    [] how = "pay_on_delivery" -> payment[o].pod /\ payment[o].status = "pending"

ApproveRead(r, o, how) ==
  /\ "approve" \in EnabledOps
  /\ Free(r) /\ MayApprove(o, how)
  /\ Enter(r, Loaded("approve", o))
  /\ UNCHANGED <<order, payment, ledger, units, points, published, staffPaid>>
  /\ UNCHANGED gatewayVars

ApproveCommit(r) ==
  /\ Runs(r, "approve")
  /\ ApplyStatus(r, req[r].pay, req[r].ord, "approved", "admin", FALSE)
  /\ staffPaid' = [staffPaid EXCEPT ![req[r].o] = TRUE]
  /\ UNCHANGED gatewayVars

\* A refund needs an approved payment, a cancellation one that is still open.
OperateRead(r, o, op) ==
  /\ op \in EnabledOps
  /\ Free(r) /\ payment[o].provider \in Gateways /\ payment[o].remote # NoCharge
  /\ IF op = "refund_call"
     THEN payment[o].status \in {"approved", "paid"}
     ELSE payment[o].status \in {"pending", "rejected", "failed"}
  /\ Enter(r, [Loaded(op, o) EXCEPT !.charge = payment[o].remote])
  /\ UNCHANGED <<order, payment, ledger, units, points, published, staffPaid>>
  /\ UNCHANGED gatewayVars

\* The gateway undoes the charge, or refuses and the request ends.  The order
\* is loaded after its answer.  Pagar.me has one call for both and gives the
\* money of a paid charge back.
OperateRemote(r, undone) ==
  LET q == req[r]
      s == charge[q.charge].status
  IN /\ \/ Runs(r, "refund_call") /\ s = "approved" /\ undone = "refunded"
        \/ Runs(r, "cancel_call") /\ s = "pending" /\ undone = "cancelled"
        \/ /\ Runs(r, "cancel_call") /\ s = "approved" /\ undone = "refunded"
           /\ charge[q.charge].gateway = "pagarme"
     /\ charge' = [charge EXCEPT ![q.charge].status = undone]
     /\ notices' = notices \cup {<<q.charge, undone>>}
     /\ Enter(r, [q EXCEPT !.op = "operate_commit", !.ord = order[q.o], !.got = undone])
     /\ UNCHANGED <<order, payment, ledger, units, points, published, staffPaid, seen,
                    links>>

OperateCommit(r) ==
  /\ Runs(r, "operate_commit")
  /\ ApplyStatus(r, req[r].pay, req[r].ord, req[r].got, "admin", FALSE)
  /\ UNCHANGED staffPaid
  /\ UNCHANGED gatewayVars

-----------------------------------------------------------------------------
(* The world outside.                                                      *)

\* A request ends without a commit: the process dies, the gateway does not
\* answer, or InventoryUnavailable is raised.  What it committed before stays.
Abort(r) ==
  /\ ~Free(r)
  /\ Leave(r)
  /\ UNCHANGED <<order, payment, ledger, units, points, published, staffPaid>>
  /\ UNCHANGED gatewayVars

\* A Pix that is overdue at ASAAS can still be paid.
ChargeMay(gateway, from, to) ==
  \/ from = "pending"  /\ to \in {"approved", "rejected", "cancelled", "expired"}
  \/ from = "approved" /\ to \in {"refunded", "charged_back"}
  \/ from = "expired"  /\ to = "approved" /\ gateway = "asaas"

GatewayMove(c, s) ==
  /\ charge[c] # Unused /\ s \in Outcomes
  /\ ChargeMay(charge[c].gateway, charge[c].status, s)
  /\ charge' = [charge EXCEPT ![c].status = s]
  /\ notices' = notices \cup {<<c, s>>}
  /\ UNCHANGED <<seen, links>>
  /\ UNCHANGED storeVars
=============================================================================
