------------------------- MODULE OrderPaymentProofs -------------------------
(***************************************************************************)
(* Theorems about OrderPayment for every set of orders, requests and       *)
(* charges, every assignment of gateways to methods and every stock.       *)
(***************************************************************************)
EXTENDS OrderPayment, FiniteSetTheorems, TLAPS

-----------------------------------------------------------------------------
(* Operators on rows return rows.                                          *)

LEMMA SaveOrderType ==
  ASSUME NEW db \in OrderRow, NEW old \in OrderRow, NEW new \in OrderRow
  PROVE  SaveOrder(db, old, new) \in OrderRow
BY DEF SaveOrder, Col, OrderRow

LEMMA SavePaymentType ==
  ASSUME NEW db \in PaymentRow, NEW old \in PaymentRow, NEW new \in PaymentRow
  PROVE  SavePayment(db, old, new) \in PaymentRow
BY DEF SavePayment, Col, PaymentRow

LEMMA WithStatusType ==
  ASSUME NEW row \in OrderRow, NEW to \in OrderStatus
  PROVE  WithStatus(row, to) \in OrderRow
BY DEF WithStatus, OrderRow

LEMMA EmptyRows == NoOrder \in OrderRow /\ NoPayment \in PaymentRow
BY DEF NoOrder, NoPayment, OrderRow, PaymentRow, Actors, Providers, Methods

LEMMA TargetType ==
  ASSUME NEW s \in PaymentStatus
  PROVE  OrderTarget(s) \in OrderStatus \cup {"none"}
BY DEF OrderTarget, OrderStatus

LEMMA OrderAfterType ==
  ASSUME NEW ord \in OrderRow, NEW s \in PaymentStatus, NEW who \in Actors
  PROVE  OrderAfter(ord, s, who) \in OrderRow
<1> DEFINE target == OrderTarget(s)
           off    == [ord EXCEPT !.status = "cancelled", !.cancelledBy = who]
           moved  == [ord EXCEPT !.status = target, !.paidAt = @ \/ s = "approved"]
<1>1. "cancelled" \in OrderStatus
  BY DEF OrderStatus
<1>2. [ord EXCEPT !.paidAt = TRUE] \in OrderRow /\ off \in OrderRow
  BY <1>1 DEF OrderRow
<1>3. target # "none" => moved \in OrderRow
  <2> SUFFICES ASSUME target # "none" PROVE moved \in OrderRow
    OBVIOUS
  <2>1. target \in OrderStatus
    BY TargetType
  <2>2. (ord.paidAt \/ s = "approved") \in BOOLEAN
    OBVIOUS
  <2>3. QED
    BY <2>1, <2>2 DEF OrderRow
<1>4. QED
  BY <1>2, <1>3 DEF OrderAfter

LEMMA AnswerType ==
  ASSUME NEW gateway \in Gateways, NEW s \in ChargeStatus,
         NEW event \in ChargeStatus \cup {"none"}
  PROVE  Answer(gateway, s, event) \in PaymentStatus
BY DEF Answer, MpStatus, AsaasStatus, PagarmeStatus, Gateways, ChargeStatus, PaymentStatus

LEMMA AttemptType ==
  ASSUME GatewayAssumption, NEW pay \in PaymentRow, NEW method \in OnlineMethods, NEW c \in Charges
  PROVE  Attempt(pay, method, c) \in PaymentRow
<1>1. GatewayOf[method] \in Gateways
  BY DEF GatewayAssumption
<1>2. method \in Methods /\ Gateways \subseteq Providers
  BY DEF OnlineMethods, Methods, Gateways, Providers
<1>3. "pending" \in PaymentStatus
  BY DEF PaymentStatus
<1>4. QED
  BY <1>1, <1>2, <1>3 DEF Attempt, PaymentRow, Gateways

LEMMA AdoptType ==
  ASSUME NEW gateway \in Gateways, NEW pay \in PaymentRow, NEW c \in Charges \cup {NoCharge}
  PROVE  Adopt(gateway, pay, c) \in PaymentRow
BY DEF Adopt, PaymentRow, Gateways, Providers

LEMMA LedgerType ==
  ASSUME NEW o \in Orders, ledger \in [Orders -> LedgerRow], NEW entry \in LedgerRow
  PROVE  /\ \A status : ConsumeSale(o, status) \in LedgerRow
         /\ \A started : ReverseSale(o, entry, started) \in LedgerRow
<1>1. ledger[o] \in LedgerRow
  OBVIOUS
<1>2. \A status : ConsumeSale(o, status) \in LedgerRow
  BY <1>1 DEF ConsumeSale, LedgerRow
<1>3. \A started : ReverseSale(o, entry, started) \in LedgerRow
  BY DEF ReverseSale, LedgerRow
<1>4. QED
  BY <1>2, <1>3

LEMMA PublishedType ==
  ASSUME StoreAssumption, NEW entry \in [confirmed : Nat, reversed : Nat], NEW from, NEW s
  PROVE  PublishedAfter(entry, from, s) \in [confirmed : Nat, reversed : Nat]
<1>1. \A n \in Nat : Bump(n) \in Nat
  BY DEF Bump, StoreAssumption
<1>2. QED
  BY <1>1 DEF PublishedAfter

LEMMA SettledType ==
  ASSUME NEW from, NEW s \in PaymentStatus
  PROVE  Settled(from, s) \in PaymentStatus
BY DEF Settled, PaymentStatus

\* What _apply_status leaves is typed, if what it is given is.
LEMMA ApplyStatusType ==
  ASSUME StoreAssumption, StoreTypeOK,
         NEW r \in Requests, req[r] \in Request,
         NEW pay \in PaymentRow, NEW ord \in OrderRow, NEW answer \in PaymentStatus,
         NEW who \in Actors, NEW commits \in BOOLEAN,
         ApplyStatus(r, pay, ord, answer, who, commits)
  PROVE  /\ order' \in [Orders -> OrderRow]
         /\ payment' \in [Orders -> PaymentRow]
         /\ ledger' \in [Orders -> LedgerRow]
         /\ published' \in [Orders -> [confirmed : Nat, reversed : Nat]]
         /\ req' \in [Requests -> Request \cup {Idle}]
         /\ UNCHANGED <<units, points>>
<1> DEFINE q    == req[r]
           s    == Settled(pay.status, answer)
           next == OrderAfter(ord, s, who)
           paid == [pay EXCEPT !.status = s]
<1>1. /\ q.o \in Orders /\ q.ord \in OrderRow /\ q.pay \in PaymentRow
      /\ order[q.o] \in OrderRow /\ payment[q.o] \in PaymentRow
      /\ ledger[q.o] \in LedgerRow
      /\ published[q.o] \in [confirmed : Nat, reversed : Nat]
  BY DEF StoreTypeOK, Request
<1>2. s \in PaymentStatus
  BY SettledType
<1>3. next \in OrderRow
  BY <1>2, OrderAfterType
<1>4. paid \in PaymentRow
  BY <1>2 DEF PaymentRow
<1>5. /\ SaveOrder(order[q.o], q.ord, next) \in OrderRow
      /\ SavePayment(payment[q.o], q.pay, paid) \in PaymentRow
      /\ SavePayment(payment[q.o], q.pay, pay) \in PaymentRow
  BY <1>1, <1>3, <1>4, SaveOrderType, SavePaymentType
<1>6. StockAfter(q.o, next, s) \in LedgerRow
  BY <1>1, LedgerType DEF StockAfter, StoreTypeOK
<1>7. PublishedAfter(published[q.o], pay.status, s) \in [confirmed : Nat, reversed : Nat]
  BY <1>1, PublishedType
<1>8. req' \in [Requests -> Request \cup {Idle}] /\ UNCHANGED <<units, points>>
  BY DEF ApplyStatus, Leave, StoreTypeOK
<1>9. CASE Accepts(pay.status, s)
  <2>1. /\ payment' = [payment EXCEPT ![q.o] = SavePayment(@, q.pay, paid)]
        /\ order' = [order EXCEPT ![q.o] = SaveOrder(@, q.ord, next)]
        /\ ledger' = [ledger EXCEPT ![q.o] = StockAfter(q.o, next, s)]
        /\ published' = [published EXCEPT ![q.o] = PublishedAfter(@, pay.status, s)]
    BY <1>9 DEF ApplyStatus
  <2>2. QED
    BY <2>1, <1>1, <1>5, <1>6, <1>7, <1>8 DEF StoreTypeOK
<1>10. CASE ~Accepts(pay.status, s)
  <2>1. /\ payment' = IF commits THEN [payment EXCEPT ![q.o] = SavePayment(@, q.pay, pay)]
                                 ELSE payment
        /\ UNCHANGED <<order, ledger, published>>
    BY <1>10 DEF ApplyStatus
  <2>2. QED
    BY <2>1, <1>1, <1>5, <1>8 DEF StoreTypeOK
<1>11. QED
  BY <1>9, <1>10

-----------------------------------------------------------------------------
(* Money that came in stays: the facts that OwnMoney rests on only grow.   *)

Grows ==
  /\ \A c \in Charges : charge[c] # Unused =>
       /\ charge'[c] # Unused
       /\ charge'[c].order = charge[c].order
       /\ charge[c].status \in Money => charge'[c].status \in Money
  /\ \A o \in Orders : staffPaid[o] => staffPaid'[o]

LEMMA BackedGrows ==
  ASSUME Grows, NEW o \in Orders, Backed(o)
  PROVE  Backed(o)'
BY DEF Grows, Backed

LEMMA OwnedGrows ==
  ASSUME Grows, NEW o \in Orders, NEW c \in Charges \cup {NoCharge}, Owned(o, c)
  PROVE  Owned(o, c)'
BY DEF Grows, Owned

LEMMA RowGrows ==
  ASSUME Grows, NEW o \in Orders, NEW pay \in PaymentRow, RowOK(o, pay)
  PROVE  RowOK(o, pay)'
<1>1. pay.mpId \in Charges \cup {NoCharge} /\ pay.remote \in Charges \cup {NoCharge}
  BY DEF PaymentRow
<1>2. QED
  BY <1>1, BackedGrows, OwnedGrows DEF RowOK

LEMMA RequestGrows ==
  ASSUME Grows, NEW q \in Request, RequestOK(q)
  PROVE  RequestOK(q)'
<1>1. q.o \in Orders /\ q.pay \in PaymentRow /\ q.charge \in Charges \cup {NoCharge}
  BY DEF Request
<1>2. QED
  BY <1>1, BackedGrows, OwnedGrows, RowGrows DEF RequestOK

LEMMA NoticeGrows ==
  ASSUME Grows, NEW n \in Notice, NoticeOK(n)
  PROVE  NoticeOK(n)'
BY DEF Grows, NoticeOK, Notice

\* The sound state in which every step starts and ends.
Sound == TypeOK /\ MoneyInv

\* What a step must do to keep MoneyInv: take nothing back, and leave behind
\* requests, payments and notices that are sound before it or after it.
KeepsMoney ==
  /\ Grows
  /\ \A r \in Requests : \/ req'[r] \in {req[r], Idle}
                         \/ RequestOK(req'[r])
                         \/ RequestOK(req[r])'
  /\ \A o \in Orders : \/ payment'[o] = payment[o]
                       \/ RowOK(o, payment'[o])
                       \/ RowOK(o, payment[o])'
  /\ \A n \in notices' : n \in notices \/ NoticeOK(n)'

\* A step that keeps money and types leaves a sound state.
LEMMA Advance ==
  ASSUME Sound, TypeOK', KeepsMoney
  PROVE  Sound'
<1>1. ASSUME NEW r \in Requests, req'[r] # Idle PROVE RequestOK(req[r])'
  <2>1. req'[r] \in Request
    BY <1>1 DEF TypeOK, StoreTypeOK
  <2>2. req'[r] = req[r] => RequestOK(req'[r])
    BY <1>1 DEF Sound, MoneyInv, Free
  <2>3. RequestOK(req'[r]) => RequestOK(req[r])'
    BY <2>1, RequestGrows DEF KeepsMoney
  <2>4. QED
    BY <1>1, <2>2, <2>3 DEF KeepsMoney
<1>2. ASSUME NEW o \in Orders PROVE RowOK(o, payment[o])'
  <2>1. payment'[o] \in PaymentRow
    BY DEF TypeOK, StoreTypeOK
  <2>2. payment'[o] = payment[o] => RowOK(o, payment'[o])
    BY DEF Sound, MoneyInv
  <2>3. RowOK(o, payment'[o]) => RowOK(o, payment[o])'
    BY <2>1, RowGrows DEF KeepsMoney
  <2>4. QED
    BY <2>2, <2>3 DEF KeepsMoney
<1>3. ASSUME NEW n \in notices' PROVE NoticeOK(n)'
  BY <1>3, NoticeGrows DEF KeepsMoney, Sound, MoneyInv, TypeOK, GatewayTypeOK
<1>4. MoneyInv'
  BY <1>1, <1>2, <1>3 DEF MoneyInv, Free
<1>5. QED
  BY <1>4 DEF Sound

-----------------------------------------------------------------------------
(* Requests that enter, go on and leave.                                   *)

LEMMA EnterType ==
  ASSUME StoreTypeOK, NEW r \in Requests, NEW q \in Request \cup {Idle}, Enter(r, q)
  PROVE  /\ req' \in [Requests -> Request \cup {Idle}]
         /\ \A x \in Requests : req'[x] \in {req[x], q}
         /\ req'[r] = q
BY DEF Enter, StoreTypeOK

\* Leaving is entering the idle state.
LEMMA LeaveType ==
  ASSUME StoreTypeOK, NEW r \in Requests, Leave(r)
  PROVE  /\ req' \in [Requests -> Request \cup {Idle}]
         /\ \A x \in Requests : req'[x] \in {req[x], Idle}
BY DEF Leave, StoreTypeOK

LEMMA Running ==
  ASSUME Sound, NEW r \in Requests, NEW op \in Ops, Runs(r, op)
  PROVE  req[r] \in Request /\ RequestOK(req[r])
<1>1. req[r] # Idle
  BY DEF Runs, Idle, Ops
<1>2. QED
  BY <1>1 DEF Sound, TypeOK, StoreTypeOK, MoneyInv, Free

LEMMA ContinuedOK ==
  ASSUME NEW op \in {"award_points", "record_cancel", "archive_record", "archive_mark",
                     "webhook_call"},
         NEW o \in Orders, NEW who \in Actors
  PROVE  /\ Continued(op, o, who) \in Request
         /\ op # "webhook_call" => RequestOK(Continued(op, o, who))
<1>1. Continued(op, o, who) \in Request
  BY EmptyRows DEF Continued, Request, Ops, Methods
<1>2. RowOK(o, NoPayment)
  BY DEF RowOK, NoPayment, Owned, Earned, Missing
<1>3. QED
  BY <1>1, <1>2 DEF RequestOK, Continued, Owned, Earned

\* A session that has loaded sound rows, whatever it was asked to do.
LEMMA LoadedOK ==
  ASSUME Sound, NEW op \in Ops, NEW o \in Orders
  PROVE  /\ Loaded(op, o) \in Request
         /\ op \in {"approve", "preference", "switch_to_pay_on_delivery"} => RequestOK(Loaded(op, o))
         /\ RowOK(o, payment[o])
<1>1. order[o] \in OrderRow /\ payment[o] \in PaymentRow
  BY DEF Sound, TypeOK, StoreTypeOK
<1>2. RowOK(o, payment[o])
  BY DEF Sound, MoneyInv
<1>3. Loaded(op, o) \in Request
  BY <1>1 DEF Loaded, Request, Actors, Methods
<1>4. QED
  BY <1>2, <1>3 DEF RequestOK, Loaded, Owned, Earned

\* Saving column by column leaves the identifiers, and earns the payment, that
\* one of the two sources had.
LEMMA SavePaymentRow ==
  ASSUME NEW db \in PaymentRow, NEW old \in PaymentRow, NEW new \in PaymentRow
  PROVE  LET row == SavePayment(db, old, new) IN
         /\ row.mpId \in {db.mpId, new.mpId}
         /\ row.remote \in {db.remote, new.remote}
         /\ row.status \in {db.status, new.status}
BY DEF SavePayment, Col

\* _apply_status writes no identifier of its own, and approves or refunds only
\* when the answer says so or the payment was approved before.
LEMMA ApplyStatusMoney ==
  ASSUME Sound, NEW r \in Requests, req[r] \in Request,
         NEW pay \in PaymentRow, NEW ord \in OrderRow, NEW answer \in PaymentStatus,
         NEW who \in Actors, NEW commits \in BOOLEAN,
         ApplyStatus(r, pay, ord, answer, who, commits),
         NEW o \in Orders, payment'[o] # payment[o]
  PROVE  /\ o = req[r].o
         /\ payment'[o].mpId \in {payment[o].mpId, pay.mpId}
         /\ payment'[o].remote \in {payment[o].remote, pay.remote}
         /\ payment'[o].status \in Earned =>
              Earned \cap {payment[o].status, pay.status, answer} # {}
<1> DEFINE q    == req[r]
           s    == Settled(pay.status, answer)
           paid == [pay EXCEPT !.status = s]
<1>1. /\ q.o \in Orders /\ q.pay \in PaymentRow /\ payment[q.o] \in PaymentRow
      /\ payment \in [Orders -> PaymentRow]
  BY DEF Sound, TypeOK, StoreTypeOK, Request
<1>2. s \in PaymentStatus /\ (s \in Earned => Earned \cap {pay.status, answer} # {})
  BY SettledType DEF Settled, Earned
<1>3. /\ paid \in PaymentRow /\ paid.status = s
      /\ paid.mpId = pay.mpId /\ paid.remote = pay.remote
  BY <1>2 DEF PaymentRow
<1>4. \/ payment' = [payment EXCEPT ![q.o] = SavePayment(@, q.pay, paid)]
      \/ payment' = [payment EXCEPT ![q.o] = SavePayment(@, q.pay, pay)]
      \/ payment' = payment
  BY DEF ApplyStatus
<1>5. o = q.o
  BY <1>1, <1>4
<1>6. \/ payment'[o] = SavePayment(payment[o], q.pay, paid)
      \/ payment'[o] = SavePayment(payment[o], q.pay, pay)
  BY <1>1, <1>4, <1>5
<1>7. CASE payment'[o] = SavePayment(payment[o], q.pay, paid)
  <2>1. /\ payment'[o].mpId \in {payment[o].mpId, paid.mpId}
        /\ payment'[o].remote \in {payment[o].remote, paid.remote}
        /\ payment'[o].status \in {payment[o].status, paid.status}
    BY <1>1, <1>3, <1>5, <1>7, SavePaymentRow
  <2>2. QED
    BY <2>1, <1>2, <1>3, <1>5
<1>8. CASE payment'[o] = SavePayment(payment[o], q.pay, pay)
  <2>1. /\ payment'[o].mpId \in {payment[o].mpId, pay.mpId}
        /\ payment'[o].remote \in {payment[o].remote, pay.remote}
        /\ payment'[o].status \in {payment[o].status, pay.status}
    BY <1>1, <1>5, <1>8, SavePaymentRow
  <2>2. QED
    BY <2>1, <1>5
<1>9. QED
  BY <1>6, <1>7, <1>8

\* The same, for a caller whose row is sound and whose answer is backed once
\* the step is taken.
LEMMA ApplyStatusSound ==
  ASSUME Sound, Grows, NEW r \in Requests, req[r] \in Request,
         NEW pay \in PaymentRow, NEW ord \in OrderRow, NEW answer \in PaymentStatus,
         NEW who \in Actors, NEW commits \in BOOLEAN,
         ApplyStatus(r, pay, ord, answer, who, commits),
         RowOK(req[r].o, pay),
         NEW o \in Orders, payment'[o] # payment[o],
         answer \in Earned => Backed(o)'
  PROVE  RowOK(o, payment[o])'
<1>1. /\ o = req[r].o
      /\ payment'[o].mpId \in {payment[o].mpId, pay.mpId}
      /\ payment'[o].remote \in {payment[o].remote, pay.remote}
      /\ payment'[o].status \in Earned =>
           Earned \cap {payment[o].status, pay.status, answer} # {}
  BY ApplyStatusMoney
<1>2. RowOK(o, payment[o]) /\ RowOK(o, pay) /\ payment[o] \in PaymentRow
  BY <1>1 DEF Sound, MoneyInv, TypeOK, StoreTypeOK
<1>4. /\ \A c \in {payment[o].mpId, payment[o].remote, pay.mpId, pay.remote} : Owned(o, c)'
  <2>1. \A c \in {payment[o].mpId, payment[o].remote, pay.mpId, pay.remote} :
          c \in Charges \cup {NoCharge} /\ Owned(o, c)
    BY <1>2 DEF RowOK, PaymentRow
  <2>2. QED
    BY <2>1, OwnedGrows
<1>5. payment'[o].status \in Earned => Backed(o)'
  BY <1>1, <1>2, BackedGrows DEF RowOK
<1>6. QED
  BY <1>1, <1>4, <1>5 DEF RowOK

-----------------------------------------------------------------------------
(* The order service and the kitchen: money is not theirs to move.         *)

LEMMA OrderSide ==
  ASSUME Sound, UNCHANGED gatewayVars, UNCHANGED <<payment, published, staffPaid>>,
         order' \in [Orders -> OrderRow], ledger' \in [Orders -> LedgerRow],
         units' \in [Orders -> {"none", "working", "ready"}], points' \in [Orders -> Nat],
         req' \in [Requests -> Request \cup {Idle}],
         \A x \in Requests : req'[x] \in {req[x], Idle} \/ RequestOK(req'[x])
  PROVE  TypeOK' /\ KeepsMoney
<1>1. StoreTypeOK'
  BY DEF Sound, TypeOK, StoreTypeOK
<1>2. GatewayTypeOK'
  BY DEF Sound, TypeOK, GatewayTypeOK, gatewayVars
<1>3. Grows
  BY DEF Grows, gatewayVars
<1>4. QED
  BY <1>1, <1>2, <1>3 DEF TypeOK, KeepsMoney, gatewayVars

\* A request of the order service enters with its snapshot.
LEMMA OrderEnters ==
  ASSUME Sound, UNCHANGED gatewayVars, NEW r \in Requests, NEW q \in Request,
         RequestOK(q), Enter(r, q),
         UNCHANGED <<order, payment, ledger, units, points, published, staffPaid>>
  PROVE  TypeOK' /\ KeepsMoney
<1>1. /\ req' \in [Requests -> Request \cup {Idle}]
      /\ \A x \in Requests : req'[x] \in {req[x], Idle} \/ RequestOK(req'[x])
  BY EnterType DEF Sound, TypeOK
<1>2. QED
  BY <1>1, OrderSide DEF Sound, TypeOK, StoreTypeOK

LEMMA ChangeStatusReadOK ==
  ASSUME Sound, UNCHANGED gatewayVars, AdminAssumption,
         NEW r \in Requests, NEW o \in Orders, NEW to \in AdminTargets,
         ChangeStatusRead(r, o, to)
  PROVE  TypeOK' /\ KeepsMoney
<1> DEFINE q == [Loaded("change_status", o) EXCEPT !.to = to]
<1>1. to \in OrderStatus /\ "change_status" \in Ops
  BY DEF AdminAssumption, Ops
<1>2. Loaded("change_status", o) \in Request /\ RowOK(o, payment[o])
  BY <1>1, LoadedOK
<1>3. q \in Request
  BY <1>1, <1>2 DEF Request
<1>4. RequestOK(q)
  BY <1>1, <1>2 DEF RequestOK, Loaded, Owned, Earned
<1>5. QED
  BY <1>3, <1>4, OrderEnters DEF ChangeStatusRead

LEMMA CancelReadOK ==
  ASSUME Sound, UNCHANGED gatewayVars, NEW r \in Requests, NEW o \in Orders,
         NEW who \in {"customer", "admin", "system"}, CancelRead(r, o, who)
  PROVE  TypeOK' /\ KeepsMoney
<1> DEFINE q == [Loaded("cancel", o) EXCEPT !.to = "cancelled", !.who = who]
<1>1. "cancelled" \in OrderStatus /\ "cancel" \in Ops /\ who \in Actors
  BY DEF OrderStatus, Ops, Actors
<1>2. Loaded("cancel", o) \in Request /\ RowOK(o, payment[o])
  BY <1>1, LoadedOK
<1>3. q \in Request
  BY <1>1, <1>2 DEF Request
<1>4. RequestOK(q)
  BY <1>1, <1>2 DEF RequestOK, Loaded, Owned, Earned
<1>5. QED
  BY <1>3, <1>4, OrderEnters DEF CancelRead

LEMMA ArchiveReadOK ==
  ASSUME Sound, UNCHANGED gatewayVars, NEW r \in Requests, NEW o \in Orders,
         ArchiveRead(r, o)
  PROVE  TypeOK' /\ KeepsMoney
<1> DEFINE q == [Loaded("archive", o) EXCEPT !.to = "cancelled", !.who = "admin"]
           p == Continued("archive_mark", o, "none")
<1>1. "cancelled" \in OrderStatus /\ "archive" \in Ops /\ {"admin", "none"} \subseteq Actors
  BY DEF OrderStatus, Ops, Actors
<1>2. Loaded("archive", o) \in Request /\ RowOK(o, payment[o])
  BY <1>1, LoadedOK
<1>3. q \in Request /\ p \in Request
  BY <1>1, <1>2, ContinuedOK DEF Request
<1>4. RequestOK(q)
  BY <1>1, <1>2 DEF RequestOK, Loaded, Owned, Earned
<1>5. RequestOK(p)
  BY <1>1, ContinuedOK
<1>6. Enter(r, p) \/ Enter(r, q)
  BY DEF ArchiveRead
<1>7. QED
  BY <1>3, <1>4, <1>5, <1>6, OrderEnters DEF ArchiveRead

\* change_status, cancel and archive share their commit.
LEMMA CommitStatusOK ==
  ASSUME Sound, UNCHANGED gatewayVars, NEW r \in Requests,
         NEW op \in {"change_status", "cancel", "archive"}, Runs(r, op),
         NEW next \in Request \cup {Idle}, next # Idle => RequestOK(next),
         CommitStatus(r, next)
  PROVE  TypeOK' /\ KeepsMoney
<1> DEFINE q    == req[r]
           used == IF q.to = "preparing" /\ q.ord.status # "ready_for_pickup"
                   THEN ConsumeSale(q.o, q.to) ELSE ledger[q.o]
           kept == IF q.to \in {"cancelled", "refunded"}
                   THEN ReverseSale(q.o, used, q.ord.started) ELSE used
           row  == SaveOrder(order[q.o], q.ord, WithStatus(q.ord, q.to))
<1>1. q \in Request /\ RequestOK(q)
  BY Running DEF Ops
<1>2. /\ q.to \in OrderStatus /\ q.o \in Orders /\ q.ord \in OrderRow
      /\ order[q.o] \in OrderRow /\ ledger[q.o] \in LedgerRow
  BY <1>1 DEF RequestOK, Runs, Request, Sound, TypeOK, StoreTypeOK
<1>3. row \in OrderRow
  BY <1>2, WithStatusType, SaveOrderType
<1>4. used \in LedgerRow
  BY <1>2, LedgerType DEF Sound, TypeOK, StoreTypeOK
<1>5. kept \in LedgerRow
  BY <1>2, <1>4, LedgerType DEF Sound, TypeOK, StoreTypeOK
<1>6. order' = [order EXCEPT ![q.o] = row] /\ ledger' = [ledger EXCEPT ![q.o] = kept]
  BY DEF CommitStatus
<1>7. order' \in [Orders -> OrderRow] /\ ledger' \in [Orders -> LedgerRow]
  BY <1>2, <1>3, <1>5, <1>6 DEF Sound, TypeOK, StoreTypeOK
<1>8. /\ req' \in [Requests -> Request \cup {Idle}]
      /\ \A x \in Requests : req'[x] \in {req[x], Idle} \/ RequestOK(req'[x])
  BY EnterType DEF CommitStatus, Sound, TypeOK
<1>9. UNCHANGED <<payment, units, points, published, staffPaid>>
  BY DEF CommitStatus
<1>10. QED
  BY <1>7, <1>8, <1>9, OrderSide DEF Sound, TypeOK, StoreTypeOK

LEMMA OrderCommitsOK ==
  ASSUME Sound, UNCHANGED gatewayVars, NEW r \in Requests,
         ChangeStatusCommit(r) \/ CancelCommit(r) \/ ArchiveCancel(r)
  PROVE  TypeOK' /\ KeepsMoney
<1> DEFINE award  == Continued("award_points", req[r].o, "none")
           record == Continued("record_cancel", req[r].o, req[r].who)
           note   == Continued("archive_record", req[r].o, "admin")
<1>1. PICK op \in {"change_status", "cancel", "archive"} : Runs(r, op)
  BY DEF ChangeStatusCommit, CancelCommit, ArchiveCancel
<1>2. req[r] \in Request
  BY <1>1, Running DEF Ops
<1>3. req[r].o \in Orders /\ req[r].who \in Actors /\ {"none", "admin"} \subseteq Actors
  BY <1>2 DEF Request, Actors
<1>4. /\ {award, record, note} \subseteq Request
      /\ \A q \in {award, record, note} : RequestOK(q)
  BY <1>3, ContinuedOK
<1>5. \E q \in {award, record, note, Idle} : CommitStatus(r, q)
  BY DEF ChangeStatusCommit, CancelCommit, ArchiveCancel
<1>6. QED
  BY <1>1, <1>4, <1>5, CommitStatusOK

\* The second and third commits, and the way out.
LEMMA OrderEndsOK ==
  ASSUME Sound, UNCHANGED gatewayVars, NEW r \in Requests,
         StockRefusal(r) \/ AwardPoints(r) \/ RecordCancel(r) \/ ArchiveMark(r), StoreAssumption
  PROVE  TypeOK' /\ KeepsMoney
<1>1. CASE StockRefusal(r)
  BY <1>1, LeaveType, OrderSide DEF StockRefusal, Sound, TypeOK, StoreTypeOK
<1>2. CASE AwardPoints(r)
  <2>1. Runs(r, "award_points") /\ "award_points" \in Ops
    BY <1>2 DEF AwardPoints, Ops
  <2>2. req[r].o \in Orders
    BY <2>1, Running DEF Request
  <2>3. points' \in [Orders -> Nat]
    BY <1>2, <2>2 DEF AwardPoints, Bump, Sound, TypeOK, StoreTypeOK, StoreAssumption
  <2>4. QED
    BY <1>2, <2>3, LeaveType, OrderSide DEF AwardPoints, Sound, TypeOK, StoreTypeOK
<1>3. CASE RecordCancel(r)
  <2> DEFINE mark == Continued("archive_mark", req[r].o, "none")
             o    == req[r].o
             who  == req[r].who
  <2>1. o \in Orders /\ who \in Actors
    BY <1>3, Running DEF RecordCancel, Ops, Request
  <2>2. [order[o] EXCEPT !.cancelledBy = who] \in OrderRow
    <3>1. order[o] \in OrderRow
      BY <2>1 DEF Sound, TypeOK, StoreTypeOK
    <3>2. QED
      BY <2>1, <3>1 DEF OrderRow
  <2>3. order' \in [Orders -> OrderRow]
    BY <1>3, <2>1, <2>2 DEF RecordCancel, Sound, TypeOK, StoreTypeOK
  <2>4. mark \in Request /\ RequestOK(mark)
    BY <2>1, ContinuedOK DEF Actors
  <2>5. Enter(r, mark) \/ Enter(r, Idle)
    BY <1>3 DEF RecordCancel
  <2>6. /\ req' \in [Requests -> Request \cup {Idle}]
        /\ \A x \in Requests : req'[x] \in {req[x], Idle} \/ RequestOK(req'[x])
    BY <2>4, <2>5, EnterType DEF Sound, TypeOK
  <2>7. QED
    BY <1>3, <2>3, <2>6, OrderSide DEF RecordCancel, Sound, TypeOK, StoreTypeOK
<1>4. CASE ArchiveMark(r)
  <2>1. req[r].o \in Orders
    BY <1>4, Running DEF ArchiveMark, Ops, Request
  <2>2. [order[req[r].o] EXCEPT !.archived = TRUE] \in OrderRow
    <3>1. order[req[r].o] \in OrderRow
      BY <2>1 DEF Sound, TypeOK, StoreTypeOK
    <3>2. QED
      BY <3>1 DEF OrderRow
  <2>3. order' \in [Orders -> OrderRow]
    BY <1>4, <2>1, <2>2 DEF ArchiveMark, Sound, TypeOK, StoreTypeOK
  <2>4. QED
    BY <1>4, <2>3, LeaveType, OrderSide DEF ArchiveMark, Sound, TypeOK, StoreTypeOK
<1>5. QED
  BY <1>1, <1>2, <1>3, <1>4

LEMMA KdsStatusType ==
  ASSUME StoreTypeOK, NEW o \in Orders, NEW to \in OrderStatus, KdsStatus(o, to)
  PROVE  order' \in [Orders -> OrderRow]
<1>1. WithStatus(order[o], to) \in OrderRow
  BY WithStatusType DEF StoreTypeOK
<1>2. QED
  BY <1>1 DEF KdsStatus, StoreTypeOK

LEMMA KitchenOK ==
  ASSUME Sound, UNCHANGED gatewayVars, NEW o \in Orders, Kitchen(o)
  PROVE  TypeOK' /\ KeepsMoney
<1>1. UNCHANGED <<payment, ledger, points, published, staffPaid, req>>
  BY DEF Kitchen, KdsStartPreparation, KdsUnitsReady, KdsRemake, KdsMarkReady,
         KdsReturnToKitchen, KdsServeDineIn
<1>2. order' \in [Orders -> OrderRow]
  <2>1. \/ order' = order
        \/ \E to \in {"preparing", "ready_for_pickup", "delivered"} : KdsStatus(o, to)
    BY DEF Kitchen, KdsStartPreparation, KdsUnitsReady, KdsRemake, KdsMarkReady,
           KdsReturnToKitchen, KdsServeDineIn
  <2>2. QED
    BY <2>1, KdsStatusType DEF OrderStatus, Sound, TypeOK, StoreTypeOK
<1>3. units' \in [Orders -> {"none", "working", "ready"}]
  <2>1. \/ units' = units
        \/ \E u \in {"working", "ready"} : units' = [units EXCEPT ![o] = u]
    BY DEF Kitchen, KdsStartPreparation, KdsUnitsReady, KdsRemake, KdsMarkReady,
           KdsReturnToKitchen, KdsServeDineIn
  <2>2. QED
    BY <2>1 DEF Sound, TypeOK, StoreTypeOK
<1>4. QED
  BY <1>1, <1>2, <1>3, OrderSide DEF Sound, TypeOK, StoreTypeOK

LEMMA KdsCompletePickupOK ==
  ASSUME Sound, UNCHANGED gatewayVars, NEW r \in Requests, NEW o \in Orders,
         KdsCompletePickup(r, o)
  PROVE  TypeOK' /\ KeepsMoney
<1> DEFINE q == Continued("award_points", o, "none")
<1>1. q \in Request /\ RequestOK(q)
  BY ContinuedOK DEF Actors
<1>2. /\ req' \in [Requests -> Request \cup {Idle}]
      /\ \A x \in Requests : req'[x] \in {req[x], Idle} \/ RequestOK(req'[x])
  BY <1>1, EnterType DEF KdsCompletePickup, Sound, TypeOK
<1>3. order' \in [Orders -> OrderRow]
  BY KdsStatusType DEF KdsCompletePickup, OrderStatus, Sound, TypeOK
<1>4. QED
  BY <1>2, <1>3, OrderSide DEF KdsCompletePickup, Sound, TypeOK, StoreTypeOK

\* The cashier's request carries the method the customer pays with.
LEMMA ConfirmTableReadOK ==
  ASSUME Sound, UNCHANGED gatewayVars, NEW r \in Requests, NEW o \in Orders,
         NEW m \in Methods, ConfirmTableRead(r, o, m)
  PROVE  TypeOK' /\ KeepsMoney
<1> DEFINE q == [Loaded("confirm_table", o) EXCEPT !.method = m]
<1>1. Loaded("confirm_table", o) \in Request /\ RowOK(o, payment[o])
  BY LoadedOK DEF Ops
<1>2. q \in Request
  BY <1>1 DEF Request
<1>3. RequestOK(q)
  BY <1>1 DEF RequestOK, Loaded, Owned, Earned
<1>4. QED
  BY <1>2, <1>3, OrderEnters DEF ConfirmTableRead

\* The cashier vouches for the payment in the step that approves it.
LEMMA ConfirmTableCommitOK ==
  ASSUME Sound, UNCHANGED gatewayVars, StoreAssumption, NEW r \in Requests,
         ConfirmTableCommit(r)
  PROVE  TypeOK' /\ KeepsMoney
<1> DEFINE q   == req[r]
           pay == IF q.pay.status # "pending" THEN q.pay
                  ELSE [q.pay EXCEPT !.status = "approved", !.method = q.method,
                                     !.provider = "salao"]
           row == [q.ord EXCEPT !.paidAt = TRUE]
           new == SavePayment(payment[q.o], q.pay, pay)
<1>1. q \in Request /\ RequestOK(q)
  BY Running DEF ConfirmTableCommit, Ops
<1>2. /\ q.o \in Orders /\ q.pay \in PaymentRow /\ q.ord \in OrderRow
      /\ q.method \in Methods /\ RowOK(q.o, q.pay)
  BY <1>1 DEF Request, RequestOK
<1>3. /\ order \in [Orders -> OrderRow] /\ payment \in [Orders -> PaymentRow]
      /\ order[q.o] \in OrderRow /\ payment[q.o] \in PaymentRow
      /\ staffPaid \in [Orders -> BOOLEAN]
      /\ published \in [Orders -> [confirmed : Nat, reversed : Nat]]
      /\ RowOK(q.o, payment[q.o])
  BY <1>2 DEF Sound, TypeOK, StoreTypeOK, MoneyInv
<1>4. /\ pay \in PaymentRow /\ pay.mpId = q.pay.mpId /\ pay.remote = q.pay.remote
  BY <1>2 DEF PaymentRow, PaymentStatus, Providers
<1>5. new \in PaymentRow
  BY <1>2, <1>3, <1>4, SavePaymentType
<1>6. payment' = [payment EXCEPT ![q.o] = new]
  BY DEF ConfirmTableCommit
<1>7. order' \in [Orders -> OrderRow]
  <2>1. row \in OrderRow
    BY <1>2 DEF OrderRow
  <2>2. SaveOrder(order[q.o], q.ord, row) \in OrderRow
    BY <1>2, <1>3, <2>1, SaveOrderType
  <2>3. QED
    BY <1>3, <2>2 DEF ConfirmTableCommit
<1>8. /\ staffPaid' \in [Orders -> BOOLEAN] /\ staffPaid'[q.o]
      /\ \A x \in Orders : staffPaid[x] => staffPaid'[x]
  BY <1>2, <1>3 DEF ConfirmTableCommit
<1>9. published' \in [Orders -> [confirmed : Nat, reversed : Nat]]
  <2>1. published[q.o].confirmed \in Nat /\ CountCap \in Nat
    BY <1>2, <1>3 DEF StoreAssumption
  <2>2. Bump(published[q.o].confirmed) \in Nat
    BY <2>1 DEF Bump
  <2>3. QED
    BY <1>2, <1>3, <2>2 DEF ConfirmTableCommit
<1>10. /\ req' \in [Requests -> Request \cup {Idle}]
       /\ \A x \in Requests : req'[x] \in {req[x], Idle}
  BY LeaveType DEF ConfirmTableCommit, Sound, TypeOK
<1>11. TypeOK'
  BY <1>3, <1>5, <1>6, <1>7, <1>8, <1>9, <1>10
  DEF ConfirmTableCommit, Sound, TypeOK, StoreTypeOK, GatewayTypeOK, gatewayVars
<1>12. Grows
  BY <1>8 DEF Grows, gatewayVars
<1>13. ASSUME NEW x \in Orders, payment'[x] # payment[x] PROVE RowOK(x, payment[x])'
  <2>1. x = q.o /\ payment'[x] = new
    BY <1>3, <1>6, <1>13
  <2>2. /\ new.mpId \in {payment[q.o].mpId, pay.mpId}
        /\ new.remote \in {payment[q.o].remote, pay.remote}
    BY <1>2, <1>3, <1>4, SavePaymentRow
  <2>3. Owned(q.o, new.mpId) /\ Owned(q.o, new.remote)
    BY <1>2, <1>3, <1>4, <2>2 DEF RowOK
  <2>4. QED
    BY <1>8, <2>1, <2>3 DEF RowOK, Owned, Backed, gatewayVars
<1>14. QED
  BY <1>10, <1>11, <1>12, <1>13 DEF KeepsMoney, gatewayVars

\* The waiter's serving keeps the snapshot, and writes nothing but the status.
LEMMA ServeTableOK ==
  ASSUME Sound, UNCHANGED gatewayVars, NEW r \in Requests,
         (\E o \in Orders : ServeTableRead(r, o)) \/ ServeTableCommit(r)
  PROVE  TypeOK' /\ KeepsMoney
<1>1. ASSUME NEW o \in Orders, ServeTableRead(r, o) PROVE TypeOK' /\ KeepsMoney
  <2>1. Loaded("serve_table", o) \in Request /\ RowOK(o, payment[o])
    BY LoadedOK DEF Ops
  <2>2. RequestOK(Loaded("serve_table", o))
    BY <2>1 DEF RequestOK, Loaded, Owned, Earned
  <2>3. QED
    BY <1>1, <2>1, <2>2, OrderEnters DEF ServeTableRead
<1>2. CASE ServeTableCommit(r)
  <2> DEFINE q   == req[r]
             new == WithStatus(q.ord, "delivered")
  <2>1. q.o \in Orders /\ q.ord \in OrderRow /\ order[q.o] \in OrderRow
    BY <1>2, Running DEF ServeTableCommit, Ops, Request, Sound, TypeOK, StoreTypeOK
  <2>2. new \in OrderRow
    BY <2>1, WithStatusType DEF OrderStatus
  <2>3. SaveOrder(order[q.o], q.ord, new) \in OrderRow
    BY <2>1, <2>2, SaveOrderType
  <2>4. order' \in [Orders -> OrderRow]
    BY <1>2, <2>1, <2>3 DEF ServeTableCommit, Sound, TypeOK, StoreTypeOK
  <2>5. QED
    BY <1>2, <2>4, LeaveType, OrderSide DEF ServeTableCommit, Sound, TypeOK, StoreTypeOK
<1>3. QED
  BY <1>1, <1>2

\* Every request of the order service.
LEMMA OrderRequestOK ==
  ASSUME Sound, UNCHANGED gatewayVars, StoreAssumption, AdminAssumption,
         NEW r \in Requests, OrderRequest(r)
  PROVE  TypeOK' /\ KeepsMoney
<1>1. ASSUME NEW o \in Orders, NEW to \in AdminTargets, ChangeStatusRead(r, o, to)
      PROVE  TypeOK' /\ KeepsMoney
  BY <1>1, ChangeStatusReadOK
<1>2. ASSUME NEW o \in Orders, NEW who \in {"customer", "admin", "system"}, CancelRead(r, o, who)
      PROVE  TypeOK' /\ KeepsMoney
  BY <1>2, CancelReadOK
<1>3. ASSUME NEW o \in Orders, ArchiveRead(r, o)
      PROVE  TypeOK' /\ KeepsMoney
  BY <1>3, ArchiveReadOK
<1>4. ASSUME NEW o \in Orders, KdsCompletePickup(r, o)
      PROVE  TypeOK' /\ KeepsMoney
  BY <1>4, KdsCompletePickupOK
<1>5. ChangeStatusCommit(r) \/ CancelCommit(r) \/ ArchiveCancel(r) => TypeOK' /\ KeepsMoney
  BY OrderCommitsOK
<1>6. StockRefusal(r) \/ AwardPoints(r) \/ RecordCancel(r) \/ ArchiveMark(r)
        => TypeOK' /\ KeepsMoney
  BY OrderEndsOK
<1>7. ASSUME NEW o \in Orders, NEW m \in Methods, ConfirmTableRead(r, o, m)
      PROVE  TypeOK' /\ KeepsMoney
  BY <1>7, ConfirmTableReadOK
<1>8. ConfirmTableCommit(r) => TypeOK' /\ KeepsMoney
  BY ConfirmTableCommitOK
<1>9. (\E o \in Orders : ServeTableRead(r, o)) \/ ServeTableCommit(r) => TypeOK' /\ KeepsMoney
  BY ServeTableOK
<1>10. QED
  BY <1>1, <1>2, <1>3, <1>4, <1>5, <1>6, <1>7, <1>8, <1>9 DEF OrderRequest

\* A new order owns no charge; it is approved at once only on the shop's word.
LEMMA CreationOK ==
  ASSUME Sound, UNCHANGED gatewayVars, NEW o \in Orders, Creation(o)
  PROVE  TypeOK' /\ KeepsMoney
<1>1. /\ order \in [Orders -> OrderRow] /\ payment \in [Orders -> PaymentRow]
      /\ ledger \in [Orders -> LedgerRow] /\ staffPaid \in [Orders -> BOOLEAN]
  BY DEF Sound, TypeOK, StoreTypeOK
<1>2. order[o] \in OrderRow /\ NoPayment \in PaymentRow
  BY <1>1, EmptyRows
<1>3. order' \in [Orders -> OrderRow]
  <2>1. \A status \in {"aguardando_pagamento", "paid"} :
          [order[o] EXCEPT !.status = status] \in OrderRow
    BY <1>2 DEF OrderRow, OrderStatus
  <2>2. [order[o] EXCEPT !.status = "preparing", !.started = TRUE] \in OrderRow
    BY <1>2 DEF OrderRow, OrderStatus
  <2>3. \/ \E status \in {"aguardando_pagamento", "paid"} :
             order' = [order EXCEPT ![o] = [order[o] EXCEPT !.status = status]]
        \/ order' = [order EXCEPT ![o] =
             [order[o] EXCEPT !.status = "preparing", !.started = TRUE]]
    BY <1>1 DEF Creation, CreateFromCheckout, CreateFromTableSession
  <2>4. QED
    BY <1>1, <2>1, <2>2, <2>3
<1>4. PICK pay : /\ payment' = [payment EXCEPT ![o] = pay]
                 /\ pay \in PaymentRow
                 /\ pay.mpId = NoCharge /\ pay.remote = NoCharge
                 /\ pay.status \in Earned => staffPaid'[o]
  <2>1. CASE \E kind \in Checkouts : CreateFromCheckout(o, kind)
    <3>1. PICK kind \in Checkouts : CreateFromCheckout(o, kind)
      BY <2>1
    <3>2. staffPaid'[o] = (staffPaid[o] \/ kind = "manual")
      BY <1>1, <3>1 DEF CreateFromCheckout
    <3> DEFINE pay == [NoPayment EXCEPT
          !.status   = IF kind = "manual" THEN "approved" ELSE "pending",
          !.provider = CASE kind = "online" -> "mercado_pago"
                         [] kind = "pay_on_delivery" -> "on_delivery"
                         [] kind \in {"manual", "manual_pending"} -> "manual",
          !.method   = IF kind = "pay_on_delivery" THEN "cash" ELSE "pix",
          !.pod      = kind = "pay_on_delivery"]
    <3>3. payment' = [payment EXCEPT ![o] = pay]
      BY <3>1 DEF CreateFromCheckout
    <3>4. (kind = "pay_on_delivery") \in BOOLEAN
      OBVIOUS
    <3>5. pay \in PaymentRow
      BY <1>2, <3>4 DEF PaymentRow, PaymentStatus, Providers, Methods, Checkouts
    <3>6. pay.mpId = NoCharge /\ pay.remote = NoCharge
      BY DEF NoPayment
    <3>7. pay.status \in Earned => staffPaid'[o]
      BY <3>2 DEF NoPayment, Earned
    <3>8. QED
      BY <3>3, <3>5, <3>6, <3>7
  <2>2. CASE CreateFromTableSession(o)
    <3> DEFINE pay == [NoPayment EXCEPT !.status = "pending", !.provider = "salao",
                                        !.method = "cash"]
    <3>1. payment' = [payment EXCEPT ![o] = pay]
      BY <2>2 DEF CreateFromTableSession
    <3>2. pay \in PaymentRow
      BY <1>2 DEF PaymentRow, PaymentStatus, Providers, Methods
    <3>3. pay.mpId = NoCharge /\ pay.remote = NoCharge /\ pay.status \notin Earned
      BY DEF NoPayment, Earned
    <3>4. QED
      BY <3>1, <3>2, <3>3
  <2>3. QED
    BY <2>1, <2>2 DEF Creation
<1>5. payment' \in [Orders -> PaymentRow]
  BY <1>1, <1>4
<1>6. ledger' \in [Orders -> LedgerRow]
  <2>1. ConsumeSale(o, "preparing") \in LedgerRow
    BY <1>1, LedgerType
  <2>2. ledger' = ledger \/ ledger' = [ledger EXCEPT ![o] = ConsumeSale(o, "preparing")]
    BY DEF Creation, CreateFromCheckout, CreateFromTableSession
  <2>3. QED
    BY <1>1, <2>1, <2>2
<1>7. /\ staffPaid' \in [Orders -> BOOLEAN]
      /\ \A x \in Orders : staffPaid[x] => staffPaid'[x]
  <2>1. \/ staffPaid' = staffPaid
        \/ \E kind : staffPaid' = [staffPaid EXCEPT ![o] = staffPaid[o] \/ kind = "manual"]
    BY DEF Creation, CreateFromCheckout, CreateFromTableSession
  <2>2. QED
    BY <1>1, <2>1
<1>8. UNCHANGED <<units, points, published, req>>
  BY DEF Creation, CreateFromCheckout, CreateFromTableSession
<1>9. TypeOK'
  BY <1>3, <1>5, <1>6, <1>7, <1>8
  DEF Sound, TypeOK, StoreTypeOK, GatewayTypeOK, gatewayVars
<1>10. Grows
  BY <1>7 DEF Grows, gatewayVars
<1>11. ASSUME NEW x \in Orders, payment'[x] # payment[x] PROVE RowOK(x, payment[x])'
  <2>1. x = o /\ payment'[x] = pay
    BY <1>1, <1>4, <1>11
  <2>2. QED
    BY <2>1, <1>4 DEF RowOK, Owned, Backed
<1>12. QED
  BY <1>8, <1>9, <1>10, <1>11 DEF KeepsMoney, gatewayVars

-----------------------------------------------------------------------------
(* The payment service: reports reach a payment through _apply_status.     *)

\* A handler that applies a backed answer to a sound row.
LEMMA ApplyOK ==
  ASSUME Sound, StoreAssumption, NEW r \in Requests, req[r] \in Request,
         NEW pay \in PaymentRow, NEW ord \in OrderRow, NEW answer \in PaymentStatus,
         NEW who \in Actors, NEW commits \in BOOLEAN,
         ApplyStatus(r, pay, ord, answer, who, commits),
         RowOK(req[r].o, pay),
         UNCHANGED <<charge, notices, links>>, seen' \subseteq Notice,
         staffPaid' \in [Orders -> BOOLEAN],
         \A o \in Orders : staffPaid[o] => staffPaid'[o],
         \A o \in Orders : (o = req[r].o /\ answer \in Earned) => Backed(o)'
  PROVE  TypeOK' /\ KeepsMoney
<1>1. /\ order' \in [Orders -> OrderRow]
      /\ payment' \in [Orders -> PaymentRow]
      /\ ledger' \in [Orders -> LedgerRow]
      /\ published' \in [Orders -> [confirmed : Nat, reversed : Nat]]
      /\ req' \in [Requests -> Request \cup {Idle}]
      /\ UNCHANGED <<units, points>>
  BY ApplyStatusType DEF Sound, TypeOK
<1>2. TypeOK'
  BY <1>1 DEF Sound, TypeOK, StoreTypeOK, GatewayTypeOK
<1>3. Grows
  BY DEF Grows
<1>4. \A x \in Requests : req'[x] \in {req[x], Idle}
  BY LeaveType DEF ApplyStatus, Sound, TypeOK
<1>5. ASSUME NEW o \in Orders, payment'[o] # payment[o] PROVE RowOK(o, payment[o])'
  <2>1. o = req[r].o
    BY <1>5, ApplyStatusMoney
  <2>2. QED
    BY <1>3, <1>5, <2>1, ApplyStatusSound
<1>6. QED
  BY <1>2, <1>3, <1>4, <1>5 DEF KeepsMoney

LEMMA CreateReadOK ==
  ASSUME Sound, NEW r \in Requests, NEW o \in Orders, NEW m \in OnlineMethods,
         CreateRead(r, o, m)
  PROVE  TypeOK' /\ KeepsMoney
<1> DEFINE q == [Loaded("create_call", o) EXCEPT !.method = m]
<1>1. m \in Methods /\ "create_call" \in Ops
  BY DEF OnlineMethods, Methods, Ops
<1>2. Loaded("create_call", o) \in Request /\ RowOK(o, payment[o])
  BY <1>1, LoadedOK
<1>3. q \in Request
  BY <1>1, <1>2 DEF Request
<1>4. RequestOK(q)
  BY <1>1, <1>2 DEF RequestOK, Loaded, Owned, Earned
<1>5. QED
  BY <1>3, <1>4, OrderEnters DEF CreateRead

\* What a request knows once it asks the gateway for a charge.
LEMMA CreateRunning ==
  ASSUME Sound, NEW r \in Requests,
         NEW op \in {"create_call", "create_charge", "create_commit"}, Runs(r, op)
  PROVE  /\ req[r] \in Request /\ RequestOK(req[r])
         /\ req[r].o \in Orders /\ req[r].method \in OnlineMethods
         /\ RowOK(req[r].o, req[r].pay)
<1>1. req[r] \in Request /\ RequestOK(req[r])
  BY Running DEF Ops
<1>2. QED
  BY <1>1 DEF RequestOK, Runs, Request

\* The answer to a charge that was just made never says that money came in.
LEMMA CreateAnswerType ==
  ASSUME NEW gateway \in Gateways, NEW method, NEW s \in ChargeStatus
  PROVE  /\ CreateAnswer(gateway, method, s) \in PaymentStatus
         /\ CreateAnswer(gateway, method, s) \notin Earned
BY DEF CreateAnswer, PaymentStatus, Earned

LEMMA AnsweredType ==
  ASSUME Sound, GatewayAssumption, NEW r \in Requests,
         NEW op \in {"create_call", "create_charge"}, Runs(r, op),
         NEW c \in Charges, NEW s \in ChargeStatus
  PROVE  [req[r] EXCEPT !.op = "create_commit", !.charge = c,
            !.got = CreateAnswer(GatewayOf[req[r].method], req[r].method, s)] \in Request
<1> DEFINE got == CreateAnswer(GatewayOf[req[r].method], req[r].method, s)
<1>1. req[r] \in Request /\ req[r].method \in OnlineMethods
  BY CreateRunning
<1>2. got \in PaymentStatus
  BY <1>1, CreateAnswerType DEF GatewayAssumption
<1>3. QED
  BY <1>1, <1>2 DEF Request, Ops

LEMMA CreateReuseOK ==
  ASSUME Sound, StoreAssumption, GatewayAssumption,
         NEW r \in Requests, NEW c \in Charges, CreateReuse(r, c)
  PROVE  TypeOK' /\ KeepsMoney
<1> DEFINE got == CreateAnswer(GatewayOf[req[r].method], req[r].method, charge[c].status)
           q   == [req[r] EXCEPT !.op = "create_commit", !.charge = c, !.got = got]
<1>1. Runs(r, "create_call")
  BY DEF CreateReuse
<1>2. /\ req[r] \in Request /\ req[r].o \in Orders /\ req[r].method \in OnlineMethods
      /\ RowOK(req[r].o, req[r].pay)
  BY <1>1, CreateRunning
<1>3. charge[c] # Unused /\ charge[c].order = req[r].o
  BY DEF CreateReuse, Earlier
<1>4. charge[c].status \in ChargeStatus
  BY <1>3 DEF Sound, TypeOK, GatewayTypeOK, ChargeRow
<1>5. q \in Request
  BY <1>1, <1>4, AnsweredType
<1>6. got \in PaymentStatus /\ got \notin Earned
  BY <1>2, <1>4, CreateAnswerType DEF GatewayAssumption
<1>7. /\ q.op = "create_commit" /\ q.charge = c /\ q.got = got
      /\ q.o = req[r].o /\ q.method = req[r].method /\ q.pay = req[r].pay
  BY <1>2 DEF Request
<1>8. RequestOK(q)
  BY <1>2, <1>3, <1>6, <1>7 DEF RequestOK, Owned, StoreAssumption
<1>9. QED
  BY <1>5, <1>8, OrderEnters DEF CreateReuse, Answered

LEMMA CreateMissOK ==
  ASSUME Sound, NEW r \in Requests, CreateMiss(r)
  PROVE  TypeOK' /\ KeepsMoney
<1> DEFINE q == [req[r] EXCEPT !.op = "create_charge"]
<1>1. /\ req[r] \in Request /\ RequestOK(req[r]) /\ Runs(r, "create_call")
  BY CreateRunning DEF CreateMiss
<1>2. q \in Request
  BY <1>1 DEF Request, Ops
<1>3. RequestOK(q)
  BY <1>1 DEF RequestOK, Runs, Request
<1>4. QED
  BY <1>2, <1>3, OrderEnters DEF CreateMiss

\* The new charge belongs to the order of the request that asked for it.
LEMMA CreateChargeOK ==
  ASSUME Sound, StoreAssumption, GatewayAssumption,
         NEW r \in Requests, NEW c \in Charges, NEW s \in ChargeStatus, CreateCharge(r, c, s)
  PROVE  TypeOK' /\ KeepsMoney
<1> DEFINE got == CreateAnswer(GatewayOf[req[r].method], req[r].method, s)
           q   == [req[r] EXCEPT !.op = "create_commit", !.charge = c, !.got = got]
           row == [order |-> req[r].o, method |-> req[r].method,
                   gateway |-> GatewayOf[req[r].method], status |-> s]
<1>1. PICK op \in {"create_call", "create_charge"} : Runs(r, op)
  BY DEF CreateCharge
<1>2. /\ req[r] \in Request /\ req[r].o \in Orders /\ req[r].method \in OnlineMethods
      /\ RowOK(req[r].o, req[r].pay)
  BY <1>1, CreateRunning
<1>3. row \in ChargeRow /\ row # Unused
  BY <1>2 DEF ChargeRow, GatewayAssumption, Unused
<1>4. /\ charge[c] = Unused /\ charge' = [charge EXCEPT ![c] = row]
      /\ notices' \subseteq notices \cup {<<c, s>>} /\ notices \subseteq notices'
      /\ Enter(r, q) /\ UNCHANGED <<seen, links>>
      /\ UNCHANGED <<order, payment, ledger, units, points, published, staffPaid>>
  BY DEF CreateCharge, Answered
<1>5. charge' \in [Charges -> ChargeRow \cup {Unused}] /\ charge'[c] = row
  BY <1>3, <1>4 DEF Sound, TypeOK, GatewayTypeOK
<1>6. q \in Request
  BY <1>1, AnsweredType
<1>7. got \in PaymentStatus /\ got \notin Earned
  BY <1>2, CreateAnswerType DEF GatewayAssumption
<1>8. /\ req' \in [Requests -> Request \cup {Idle}]
      /\ \A x \in Requests : req'[x] \in {req[x], q}
  BY <1>4, <1>6, EnterType DEF Sound, TypeOK
<1>9. TypeOK'
  BY <1>4, <1>5, <1>8 DEF Sound, TypeOK, StoreTypeOK, GatewayTypeOK, Notice
<1>10. Grows
  BY <1>4 DEF Grows, Sound, TypeOK, GatewayTypeOK
<1>11. \A n \in notices' : n \in notices \/ NoticeOK(n)'
  BY <1>3, <1>4, <1>5 DEF NoticeOK
<1>12. ASSUME NEW x \in Requests, req'[x] # req[x] PROVE RequestOK(req[x])'
  <2>1. req'[x] = q
    BY <1>8, <1>12
  <2>2. /\ q.op = "create_commit" /\ q.charge = c /\ q.got = got
        /\ q.o = req[r].o /\ q.method = req[r].method /\ q.pay = req[r].pay
    BY <1>2 DEF Request
  <2>3. charge'[c] # Unused /\ charge'[c].order = q.o
    BY <1>3, <1>5, <2>2
  <2>4. RowOK(q.o, q.pay) /\ q.o \in Orders /\ q.pay \in PaymentRow
    BY <1>2, <2>2 DEF Request
  <2>5. ASSUME NEW p, p = q PROVE RequestOK(p)'
    <3>1. RowOK(p.o, p.pay)'
      BY <1>10, <2>4, <2>5, RowGrows
    <3>2. QED
      BY <1>2, <1>7, <2>2, <2>3, <2>5, <3>1 DEF RequestOK, Owned, StoreAssumption
  <2>6. QED
    BY <2>1, <2>5
<1>13. QED
  BY <1>4, <1>9, <1>10, <1>11, <1>12 DEF KeepsMoney

\* A commit that writes one sound payment row and leaves.
LEMMA PaymentSaved ==
  ASSUME Sound, NEW r \in Requests, NEW o \in Orders,
         NEW old \in PaymentRow, NEW new \in PaymentRow, RowOK(o, new), new.status \notin Earned,
         payment' = [payment EXCEPT ![o] = SavePayment(@, old, new)],
         order' \in [Orders -> OrderRow], Leave(r), UNCHANGED gatewayVars,
         UNCHANGED <<ledger, units, points, published, staffPaid>>
  PROVE  TypeOK' /\ KeepsMoney
<1> DEFINE row == SavePayment(payment[o], old, new)
<1>1. payment \in [Orders -> PaymentRow] /\ payment[o] \in PaymentRow /\ RowOK(o, payment[o])
  BY DEF Sound, TypeOK, StoreTypeOK, MoneyInv
<1>2. row \in PaymentRow
  BY <1>1, SavePaymentType
<1>3. RowOK(o, row)
  <2>1. /\ row.mpId \in {payment[o].mpId, new.mpId}
        /\ row.remote \in {payment[o].remote, new.remote}
        /\ row.status \in {payment[o].status, new.status}
    BY <1>1, SavePaymentRow
  <2>2. QED
    BY <1>1, <2>1 DEF RowOK
<1>4. payment' \in [Orders -> PaymentRow]
  BY <1>1, <1>2
<1>5. /\ req' \in [Requests -> Request \cup {Idle}]
      /\ \A x \in Requests : req'[x] \in {req[x], Idle}
  BY LeaveType DEF Sound, TypeOK
<1>6. TypeOK'
  BY <1>4, <1>5 DEF Sound, TypeOK, StoreTypeOK, GatewayTypeOK, gatewayVars
<1>7. Grows
  BY DEF Grows, gatewayVars
<1>8. ASSUME NEW x \in Orders, payment'[x] # payment[x] PROVE RowOK(x, payment'[x])
  BY <1>1, <1>3, <1>8
<1>9. QED
  BY <1>5, <1>6, <1>7, <1>8 DEF KeepsMoney, gatewayVars

LEMMA CreateCommitOK ==
  ASSUME Sound, StoreAssumption, GatewayAssumption, NEW r \in Requests, CreateCommit(r)
  PROVE  TypeOK' /\ KeepsMoney
<1> DEFINE q   == req[r]
           pay == Attempt(q.pay, q.method, q.charge)
<1>1. /\ q \in Request /\ RequestOK(q) /\ Runs(r, "create_commit")
      /\ q.o \in Orders /\ q.method \in OnlineMethods /\ RowOK(q.o, q.pay)
  BY CreateRunning DEF CreateCommit
<1>2. /\ q.charge \in Charges /\ Owned(q.o, q.charge) /\ q.got \in PaymentStatus
      /\ q.got \in Earned => Backed(q.o)
      /\ q.pay \in PaymentRow /\ q.ord \in OrderRow
  BY <1>1 DEF Runs, RequestOK, Request
<1>3. pay \in PaymentRow
  BY <1>1, <1>2, AttemptType
<1>4. /\ pay.status = "pending" /\ pay.remote = q.charge
      /\ pay.mpId \in {q.pay.mpId, q.charge, NoCharge}
  <2>1. GatewayOf[q.method] \in {"mercado_pago", "asaas", "pagarme"}
    BY <1>1 DEF GatewayAssumption, Gateways
  <2>2. QED
    BY <1>2, <2>1 DEF Attempt, PaymentRow
<1>5. RowOK(q.o, pay) /\ pay.status \notin Earned
  <2>1. "pending" \notin Earned
    BY DEF Earned
  <2>2. QED
    BY <1>1, <1>2, <1>4, <2>1 DEF RowOK, Owned
<1>6. CASE q.got # "pending"
  <2>1. ApplyStatus(r, pay, q.ord, q.got, "system", FALSE)
    BY <1>6 DEF CreateCommit
  <2>2. UNCHANGED staffPaid /\ UNCHANGED gatewayVars
    BY DEF CreateCommit
  <2>3. \A o \in Orders : (o = q.o /\ q.got \in Earned) => Backed(o)'
    BY <1>2, <2>2 DEF Backed, gatewayVars
  <2>4. QED
    BY <1>1, <1>2, <1>3, <1>5, <2>1, <2>2, <2>3, ApplyOK
    DEF Actors, gatewayVars, Sound, TypeOK, StoreTypeOK, GatewayTypeOK
<1>7. CASE q.got = "pending"
  <2>1. /\ payment' = [payment EXCEPT ![q.o] = SavePayment(@, q.pay, pay)]
        /\ Leave(r) /\ UNCHANGED <<order, ledger, units, points, published>>
        /\ UNCHANGED staffPaid /\ UNCHANGED gatewayVars
    BY <1>7 DEF CreateCommit
  <2>2. order' \in [Orders -> OrderRow]
    BY <2>1 DEF Sound, TypeOK, StoreTypeOK
  <2>3. QED
    BY <1>1, <1>2, <1>3, <1>5, <2>1, <2>2, PaymentSaved
<1>8. QED
  BY <1>6, <1>7

\* Reading before the link, the switch or the approval: nothing but a snapshot.
LEMMA PlainReadsOK ==
  ASSUME Sound, NEW r \in Requests, NEW o \in Orders,
         \/ PreferenceRead(r, o) \/ SwitchRead(r, o)
         \/ \E how \in {"manual", "cash", "pay_on_delivery"} : ApproveRead(r, o, how)
  PROVE  TypeOK' /\ KeepsMoney
<1>1. PICK op \in {"preference", "switch_to_pay_on_delivery", "approve"} : Enter(r, Loaded(op, o))
  BY DEF PreferenceRead, SwitchRead, ApproveRead
<1>2. Loaded(op, o) \in Request /\ RequestOK(Loaded(op, o))
  BY LoadedOK DEF Ops
<1>3. /\ UNCHANGED <<order, payment, ledger, units, points, published, staffPaid>>
      /\ UNCHANGED gatewayVars
  BY DEF PreferenceRead, SwitchRead, ApproveRead
<1>4. QED
  BY <1>1, <1>2, <1>3, OrderEnters

\* The link leaves the payment open, with the charges it already had.
LEMMA PreferenceCommitOK ==
  ASSUME Sound, NEW r \in Requests, PreferenceCommit(r)
  PROVE  TypeOK' /\ KeepsMoney
<1> DEFINE q   == req[r]
           row == IF q.pay.status = "approved" THEN q.pay
                  ELSE [q.pay EXCEPT !.method = "credit_card", !.provider = "mercado_pago"]
           pay == [row EXCEPT !.status = "pending"]
           new == SavePayment(payment[q.o], q.pay, pay)
<1>1. q \in Request /\ RequestOK(q)
  BY Running DEF PreferenceCommit, Ops
<1>2. q.o \in Orders /\ q.pay \in PaymentRow /\ RowOK(q.o, q.pay)
  BY <1>1 DEF Request, RequestOK
<1>3. /\ payment \in [Orders -> PaymentRow] /\ payment[q.o] \in PaymentRow
      /\ RowOK(q.o, payment[q.o]) /\ links \subseteq Orders
  BY <1>2 DEF Sound, TypeOK, StoreTypeOK, GatewayTypeOK, MoneyInv
<1>4. row \in PaymentRow /\ row.mpId = q.pay.mpId /\ row.remote = q.pay.remote
  BY <1>2 DEF PaymentRow, Methods, Providers
<1>5. /\ pay \in PaymentRow /\ pay.status = "pending"
      /\ pay.mpId = q.pay.mpId /\ pay.remote = q.pay.remote
  BY <1>4 DEF PaymentRow, PaymentStatus
<1>6. new \in PaymentRow
  BY <1>2, <1>3, <1>5, SavePaymentType
<1>7. /\ payment' = [payment EXCEPT ![q.o] = new] /\ links' = links \cup {q.o} /\ Leave(r)
      /\ UNCHANGED <<order, ledger, units, points, published, staffPaid, charge, notices, seen>>
  BY DEF PreferenceCommit
<1>8. /\ req' \in [Requests -> Request \cup {Idle}]
      /\ \A x \in Requests : req'[x] \in {req[x], Idle}
  BY <1>7, LeaveType DEF Sound, TypeOK
<1>9. TypeOK'
  BY <1>2, <1>3, <1>6, <1>7, <1>8 DEF Sound, TypeOK, StoreTypeOK, GatewayTypeOK
<1>10. Grows
  BY <1>7 DEF Grows
<1>11. ASSUME NEW x \in Orders, payment'[x] # payment[x] PROVE RowOK(x, payment'[x])
  <2>1. x = q.o /\ payment'[x] = new
    BY <1>3, <1>7, <1>11
  <2>2. /\ new.mpId \in {payment[q.o].mpId, pay.mpId}
        /\ new.remote \in {payment[q.o].remote, pay.remote}
        /\ new.status \in {payment[q.o].status, pay.status}
    BY <1>2, <1>3, <1>5, SavePaymentRow
  <2>3. RowOK(q.o, new)
    BY <1>2, <1>3, <1>5, <2>2 DEF RowOK, Earned
  <2>4. QED
    BY <2>1, <2>3
<1>12. QED
  BY <1>7, <1>8, <1>9, <1>10, <1>11 DEF KeepsMoney

LEMMA SwitchCommitOK ==
  ASSUME Sound, NEW r \in Requests, SwitchCommit(r)
  PROVE  TypeOK' /\ KeepsMoney
<1> DEFINE q   == req[r]
           pay == [q.pay EXCEPT !.method = "cash", !.status = "pending",
                                !.provider = "on_delivery", !.mpId = NoCharge, !.pod = TRUE]
           row == [q.ord EXCEPT !.status = "paid"]
<1>1. q \in Request /\ RequestOK(q)
  BY Running DEF SwitchCommit, Ops
<1>2. q.o \in Orders /\ q.pay \in PaymentRow /\ q.ord \in OrderRow /\ RowOK(q.o, q.pay)
  BY <1>1 DEF Request, RequestOK
<1>3. pay \in PaymentRow
  BY <1>2 DEF PaymentRow, Methods, PaymentStatus, Providers
<1>4. pay.status = "pending" /\ pay.mpId = NoCharge /\ pay.remote = q.pay.remote
  BY <1>2 DEF PaymentRow
<1>5. RowOK(q.o, pay) /\ pay.status \notin Earned
  BY <1>2, <1>4 DEF RowOK, Owned, Earned
<1>6. row \in OrderRow
  BY <1>2 DEF OrderRow, OrderStatus
<1>7. order' \in [Orders -> OrderRow]
  <2>1. order \in [Orders -> OrderRow] /\ order[q.o] \in OrderRow
    BY <1>2 DEF Sound, TypeOK, StoreTypeOK
  <2>2. SaveOrder(order[q.o], q.ord, row) \in OrderRow
    BY <1>2, <1>6, <2>1, SaveOrderType
  <2>3. QED
    BY <2>1, <2>2 DEF SwitchCommit
<1>8. QED
  BY <1>2, <1>3, <1>5, <1>7, PaymentSaved DEF SwitchCommit

-----------------------------------------------------------------------------
(* Notices and polls.                                                      *)

\* A gateway's word, or the event of its notice, says that money came in only
\* if it did.
LEMMA AnswerEarned ==
  ASSUME NEW gateway \in Gateways, NEW s \in ChargeStatus,
         NEW event \in ChargeStatus \cup {"none"},
         Answer(gateway, s, event) \in Earned
  PROVE  s \in Money \/ event \in Money
BY DEF Answer, MpStatus, AsaasStatus, PagarmeStatus, Gateways, ChargeStatus, Earned, Money

LEMMA WebhookFetchOK ==
  ASSUME Sound, StoreAssumption, NEW r \in Requests, NEW n \in Notice, WebhookFetch(r, n)
  PROVE  TypeOK' /\ KeepsMoney
<1> DEFINE c   == n[1]
           got == Answer(charge[c].gateway, charge[c].status, n[2])
           p   == Continued("webhook_call", charge[c].order, "none")
           q   == [p EXCEPT !.event = n, !.charge = c, !.got = got]
<1>1. /\ n \in notices /\ c \in Charges /\ n[2] \in ChargeStatus
      /\ NoticeOK(n)
  BY DEF WebhookFetch, Notice, Sound, MoneyInv
<1>2. charge[c] \in ChargeRow /\ charge[c] # Unused
  BY <1>1 DEF NoticeOK, Sound, TypeOK, GatewayTypeOK
<1>3. /\ charge[c].order \in Orders /\ charge[c].gateway \in Gateways
      /\ charge[c].status \in ChargeStatus
  BY <1>2 DEF ChargeRow
<1>4. got \in PaymentStatus
  BY <1>1, <1>3, AnswerType
<1>5. got \in Earned => Backed(charge[c].order)
  <2> HAVE got \in Earned
  <2>1. charge[c].status \in Money \/ n[2] \in Money
    BY <1>1, <1>3, AnswerEarned
  <2>2. charge[c].status \in Money
    BY <1>1, <2>1 DEF NoticeOK
  <2>3. QED
    BY <1>1, <1>2, <2>2 DEF Backed
<1>6. p \in Request
  BY <1>3, ContinuedOK DEF Actors
<1>7. q \in Request
  BY <1>1, <1>4, <1>6 DEF Request
<1>8. /\ q.op = "webhook_call" /\ q.charge = c /\ q.got = got /\ q.event = n
      /\ q.o = charge[c].order /\ q.pay = NoPayment
  BY DEF Continued
<1>9. RowOK(q.o, NoPayment)
  BY DEF RowOK, NoPayment, Owned, Earned, Missing
<1>10. RequestOK(q)
  BY <1>1, <1>2, <1>4, <1>5, <1>8, <1>9 DEF RequestOK, Owned, StoreAssumption
<1>11. QED
  BY <1>7, <1>10, OrderEnters DEF WebhookFetch

LEMMA WebhookLoadOK ==
  ASSUME Sound, NEW r \in Requests, WebhookLoad(r)
  PROVE  TypeOK' /\ KeepsMoney
<1> DEFINE q == req[r]
           p == [q EXCEPT !.op = "webhook", !.ord = order[q.o], !.pay = payment[q.o]]
<1>1. q \in Request /\ RequestOK(q) /\ q.op = "webhook_call"
  BY Running DEF WebhookLoad, Ops, Runs
<1>2. /\ q.o \in Orders /\ order[q.o] \in OrderRow /\ payment[q.o] \in PaymentRow
      /\ RowOK(q.o, payment[q.o]) /\ q.event \in Notice
  BY <1>1 DEF Request, RequestOK, Sound, MoneyInv, TypeOK, StoreTypeOK
<1>3. p \in Request
  BY <1>1, <1>2 DEF Request, Ops
<1>4. /\ p.op = "webhook" /\ p.charge = q.charge /\ p.got = q.got /\ p.event = q.event
      /\ p.o = q.o /\ p.pay = payment[q.o] /\ p.method = q.method
  BY <1>1 DEF Request
<1>5. RequestOK(p)
  BY <1>1, <1>2, <1>4 DEF RequestOK
<1>6. Enter(r, p) \/ Enter(r, Idle)
  BY DEF WebhookLoad, Leave, Enter
<1>7. /\ req' \in [Requests -> Request \cup {Idle}]
      /\ \A x \in Requests : req'[x] \in {req[x], Idle} \/ RequestOK(req'[x])
  BY <1>3, <1>5, <1>6, EnterType DEF Sound, TypeOK
<1>8. seen' \subseteq Notice
  BY <1>2 DEF WebhookLoad, Sound, TypeOK, GatewayTypeOK
<1>9. UNCHANGED <<order, payment, ledger, units, points, published, staffPaid, charge, notices,
                links>>
  BY DEF WebhookLoad
<1>10. TypeOK'
  BY <1>7, <1>8, <1>9 DEF Sound, TypeOK, StoreTypeOK, GatewayTypeOK
<1>11. QED
  BY <1>7, <1>9, <1>10 DEF KeepsMoney, Grows

\* The identifiers a handler adopts are those of a charge of its order.
LEMMA AdoptOK ==
  ASSUME NEW gateway \in Gateways, NEW pay \in PaymentRow, NEW c \in Charges,
         NEW o \in Orders, RowOK(o, pay), Owned(o, c)
  PROVE  RowOK(o, Adopt(gateway, pay, c))
BY DEF Adopt, RowOK, PaymentRow

LEMMA WebhookCommitOK ==
  ASSUME Sound, StoreAssumption, NEW r \in Requests, WebhookCommit(r)
  PROVE  TypeOK' /\ KeepsMoney
<1> DEFINE q       == req[r]
           gateway == charge[q.charge].gateway
           pay     == Adopt(gateway, q.pay, q.charge)
<1>1. q \in Request /\ RequestOK(q) /\ q.op = "webhook"
  BY Running DEF WebhookCommit, Ops, Runs
<1>2. /\ q.o \in Orders /\ q.pay \in PaymentRow /\ q.ord \in OrderRow
      /\ q.charge \in Charges /\ Owned(q.o, q.charge) /\ RowOK(q.o, q.pay)
      /\ q.got \in PaymentStatus /\ (q.got \in Earned => Backed(q.o)) /\ q.event \in Notice
  BY <1>1 DEF Request, RequestOK
<1>3. gateway \in Gateways
  <2>1. charge[q.charge] \in ChargeRow
    BY <1>2 DEF Owned, StoreAssumption, Sound, TypeOK, GatewayTypeOK
  <2>2. QED
    BY <2>1 DEF ChargeRow
<1>4. pay \in PaymentRow /\ RowOK(q.o, pay)
  BY <1>2, <1>3, AdoptType, AdoptOK
<1>5. /\ ApplyStatus(r, pay, q.ord, q.got, "system", TRUE)
      /\ seen' = seen \cup {q.event} /\ UNCHANGED <<staffPaid, charge, notices, links>>
  BY DEF WebhookCommit
<1>6. seen' \subseteq Notice /\ staffPaid' \in [Orders -> BOOLEAN]
  BY <1>2, <1>5 DEF Sound, TypeOK, StoreTypeOK, GatewayTypeOK
<1>7. \A o \in Orders : (o = q.o /\ q.got \in Earned) => Backed(o)'
  BY <1>2, <1>5 DEF Backed
<1>8. QED
  BY <1>1, <1>2, <1>4, <1>5, <1>6, <1>7, ApplyOK DEF Actors

\* The poll asks about the charge of the payment it loaded.
LEMMA PollReadOK ==
  ASSUME Sound, NEW r \in Requests, NEW o \in Orders, PollRead(r, o)
  PROVE  TypeOK' /\ KeepsMoney
<1> DEFINE c == ChargeOf(payment[o])
           q == [Loaded("status_poll", o) EXCEPT !.charge = c]
<1>1. Loaded("status_poll", o) \in Request /\ RowOK(o, payment[o])
  BY LoadedOK DEF Ops
<1>2. payment[o] \in PaymentRow /\ c # NoCharge /\ payment[o].provider \in Gateways
  BY DEF PollRead, Polls, Sound, TypeOK, StoreTypeOK
<1>3. c \in Charges /\ Owned(o, c)
  BY <1>1, <1>2 DEF ChargeOf, RowOK, PaymentRow
<1>4. q \in Request
  BY <1>1, <1>3 DEF Request
<1>5. RequestOK(q)
  BY <1>1, <1>2, <1>3 DEF RequestOK, Loaded, Earned
<1>6. QED
  BY <1>4, <1>5, OrderEnters DEF PollRead

LEMMA PollAnswerOK ==
  ASSUME Sound, StoreAssumption, NEW r \in Requests, PollAnswer(r)
  PROVE  TypeOK' /\ KeepsMoney
<1> DEFINE q   == req[r]
           c   == q.charge
           got == Answer(charge[c].gateway, charge[c].status, "none")
           p   == [q EXCEPT !.got = got]
<1>1. q \in Request /\ RequestOK(q) /\ q.op = "status_poll"
  BY Running DEF PollAnswer, Ops, Runs
<1>2. c \in Charges /\ Owned(q.o, c) /\ q.o \in Orders /\ c # NoCharge
  BY <1>1 DEF Request, RequestOK
<1>3. charge[c] \in ChargeRow /\ charge[c] # Unused /\ charge[c].order = q.o
  BY <1>2 DEF Owned, Sound, TypeOK, GatewayTypeOK
<1>4. charge[c].gateway \in Gateways /\ charge[c].status \in ChargeStatus
  BY <1>3 DEF ChargeRow
<1>5. got \in PaymentStatus
  BY <1>4, AnswerType
<1>6. got \in Earned => Backed(q.o)
  <2>1. got \in Earned => charge[c].status \in Money \/ "none" \in Money
    BY <1>4, AnswerEarned
  <2>2. QED
    BY <1>2, <1>3, <2>1 DEF Backed, Money
<1>7. p \in Request
  BY <1>1, <1>5 DEF Request
<1>8. /\ p.op = q.op /\ p.charge = c /\ p.got = got /\ p.o = q.o /\ p.pay = q.pay
  BY <1>1 DEF Request
<1>9. RequestOK(p)
  BY <1>1, <1>2, <1>6, <1>8 DEF RequestOK
<1>10. QED
  BY <1>7, <1>9, OrderEnters DEF PollAnswer

\* The payment the poll loaded belongs to a gateway (PollRead), and by now its
\* answer is a status (PollAnswer).
LEMMA PollCommitOK ==
  ASSUME Sound, StoreAssumption, NEW r \in Requests, PollCommit(r)
  PROVE  TypeOK' /\ KeepsMoney
<1> DEFINE q   == req[r]
           pay == Adopt(q.pay.provider, q.pay, q.charge)
<1>1. q \in Request /\ RequestOK(q) /\ q.op = "status_poll" /\ q.got # "none"
  BY Running DEF PollCommit, Ops, Runs
<1>2. /\ q.o \in Orders /\ q.pay \in PaymentRow /\ q.ord \in OrderRow
      /\ q.charge \in Charges /\ Owned(q.o, q.charge) /\ RowOK(q.o, q.pay)
      /\ q.got \in PaymentStatus /\ (q.got \in Earned => Backed(q.o))
      /\ q.pay.provider \in Gateways
  BY <1>1 DEF Request, RequestOK
<1>3. pay \in PaymentRow /\ RowOK(q.o, pay)
  BY <1>2, AdoptType, AdoptOK
<1>4. /\ ApplyStatus(r, pay, q.ord, q.got, "system", q.pay.provider # "pagarme")
      /\ UNCHANGED staffPaid /\ UNCHANGED gatewayVars
  BY DEF PollCommit
<1>5. \A o \in Orders : (o = q.o /\ q.got \in Earned) => Backed(o)'
  BY <1>2, <1>4 DEF Backed, gatewayVars
<1>6. QED
  BY <1>1, <1>2, <1>3, <1>4, <1>5, ApplyOK
  DEF Actors, gatewayVars, Sound, TypeOK, StoreTypeOK, GatewayTypeOK

-----------------------------------------------------------------------------
(* The staff, failures and the gateways.                                   *)

\* The staff's word backs the payment in the step that records it.
LEMMA ApproveCommitOK ==
  ASSUME Sound, StoreAssumption, NEW r \in Requests, ApproveCommit(r)
  PROVE  TypeOK' /\ KeepsMoney
<1> DEFINE q == req[r]
<1>1. q \in Request /\ RequestOK(q)
  BY Running DEF ApproveCommit, Ops
<1>2. /\ q.o \in Orders /\ q.pay \in PaymentRow /\ q.ord \in OrderRow /\ RowOK(q.o, q.pay)
  BY <1>1 DEF Request, RequestOK
<1>3. /\ ApplyStatus(r, q.pay, q.ord, "approved", "admin", FALSE)
      /\ staffPaid' = [staffPaid EXCEPT ![q.o] = TRUE] /\ UNCHANGED gatewayVars
  BY DEF ApproveCommit
<1>4. /\ staffPaid' \in [Orders -> BOOLEAN] /\ staffPaid'[q.o]
      /\ \A o \in Orders : staffPaid[o] => staffPaid'[o]
  BY <1>2, <1>3 DEF Sound, TypeOK, StoreTypeOK
<1>5. \A o \in Orders : (o = q.o /\ "approved" \in Earned) => Backed(o)'
  BY <1>4 DEF Backed
<1>6. "approved" \in PaymentStatus /\ "admin" \in Actors
  BY DEF PaymentStatus, Actors
<1>7. UNCHANGED <<charge, notices, links>> /\ seen' \subseteq Notice
  BY <1>3 DEF gatewayVars, Sound, TypeOK, GatewayTypeOK
<1>8. QED
  BY <1>1, <1>2, <1>3, <1>4, <1>5, <1>6, <1>7, ApplyOK

LEMMA OperateReadOK ==
  ASSUME Sound, NEW r \in Requests, NEW o \in Orders,
         NEW op \in {"cancel_call", "refund_call"}, OperateRead(r, o, op)
  PROVE  TypeOK' /\ KeepsMoney
<1> DEFINE c == payment[o].remote
           q == [Loaded(op, o) EXCEPT !.charge = c]
<1>1. Loaded(op, o) \in Request /\ RowOK(o, payment[o])
  BY LoadedOK DEF Ops
<1>2. payment[o] \in PaymentRow /\ c # NoCharge
  BY DEF OperateRead, Sound, TypeOK, StoreTypeOK
<1>3. c \in Charges /\ Owned(o, c)
  BY <1>1, <1>2 DEF RowOK, PaymentRow
<1>4. q \in Request
  BY <1>1, <1>3 DEF Request
<1>5. RequestOK(q)
  BY <1>1, <1>2, <1>3 DEF RequestOK, Loaded, Earned
<1>6. QED
  BY <1>4, <1>5, OrderEnters DEF OperateRead

\* A charge that is undone keeps the money it took on record.
LEMMA ChargeMoved ==
  ASSUME Sound, NEW c \in Charges, NEW s \in ChargeStatus, charge[c] # Unused,
         charge[c].status \in Money => s \in Money,
         charge' = [charge EXCEPT ![c].status = s]
  PROVE  /\ charge' \in [Charges -> ChargeRow \cup {Unused}]
         /\ \A d \in Charges : charge[d] # Unused =>
              /\ charge'[d] # Unused
              /\ charge'[d].order = charge[d].order
              /\ charge[d].status \in Money => charge'[d].status \in Money
         /\ charge'[c].status = s
<1> DEFINE row == [charge[c] EXCEPT !.status = s]
<1>1. charge \in [Charges -> ChargeRow \cup {Unused}] /\ charge[c] \in ChargeRow
  BY DEF Sound, TypeOK, GatewayTypeOK
<1>2. row \in ChargeRow /\ row # Unused /\ row.order = charge[c].order /\ row.status = s
  BY <1>1 DEF ChargeRow, Unused
<1>3. charge' = [charge EXCEPT ![c] = row]
  OBVIOUS
<1>4. QED
  BY <1>1, <1>2, <1>3

LEMMA OperateRemoteOK ==
  ASSUME Sound, StoreAssumption, NEW r \in Requests, NEW undone \in ChargeStatus,
         OperateRemote(r, undone)
  PROVE  TypeOK' /\ KeepsMoney
<1> DEFINE q == req[r]
           p == [q EXCEPT !.op = "operate_commit", !.ord = order[q.o], !.got = undone]
<1>1. /\ q \in Request /\ RequestOK(q) /\ q.op \in {"refund_call", "cancel_call"}
  BY Running DEF OperateRemote, Ops, Runs
<1>2. /\ q.o \in Orders /\ q.charge \in Charges /\ q.charge # NoCharge
      /\ Owned(q.o, q.charge) /\ RowOK(q.o, q.pay) /\ order[q.o] \in OrderRow
  BY <1>1 DEF Request, RequestOK, Sound, TypeOK, StoreTypeOK
<1>3. charge[q.charge] # Unused /\ charge[q.charge].order = q.o
  BY <1>2 DEF Owned
<1>4. /\ undone \in {"refunded", "cancelled"}
      /\ undone = "refunded" <=> charge[q.charge].status = "approved"
      /\ undone = "cancelled" <=> charge[q.charge].status = "pending"
  BY DEF OperateRemote
<1>5. /\ charge' = [charge EXCEPT ![q.charge].status = undone]
      /\ notices' = notices \cup {<<q.charge, undone>>}
      /\ Enter(r, p)
      /\ UNCHANGED <<order, payment, ledger, units, points, published, staffPaid, seen, links>>
  BY DEF OperateRemote
<1>6. charge[q.charge].status \in Money => undone \in Money
  BY <1>4 DEF Money
<1>7. /\ charge' \in [Charges -> ChargeRow \cup {Unused}]
      /\ \A d \in Charges : charge[d] # Unused =>
           /\ charge'[d] # Unused
           /\ charge'[d].order = charge[d].order
           /\ charge[d].status \in Money => charge'[d].status \in Money
      /\ charge'[q.charge].status = undone
  BY <1>2, <1>3, <1>5, <1>6, ChargeMoved
<1>8. Grows
  BY <1>5, <1>7 DEF Grows
<1>9. p \in Request
  BY <1>1, <1>2, <1>4 DEF Request, Ops, PaymentStatus
<1>10. RequestOK(p)
  <2>1. /\ p.op = "operate_commit" /\ p.charge = q.charge /\ p.got = undone
        /\ p.o = q.o /\ p.pay = q.pay
    BY <1>1 DEF Request
  <2>2. undone \in PaymentStatus /\ (undone \in Earned => Backed(q.o))
    BY <1>2, <1>3, <1>4 DEF PaymentStatus, Earned, Backed, Money
  <2>3. QED
    BY <1>2, <2>1, <2>2 DEF RequestOK
<1>11. /\ req' \in [Requests -> Request \cup {Idle}]
       /\ \A x \in Requests : req'[x] \in {req[x], Idle} \/ RequestOK(req'[x])
  BY <1>5, <1>9, <1>10, EnterType DEF Sound, TypeOK
<1>12. TypeOK'
  BY <1>2, <1>5, <1>7, <1>11 DEF Sound, TypeOK, StoreTypeOK, GatewayTypeOK, Notice
<1>13. \A n \in notices' : n \in notices \/ NoticeOK(n)'
  BY <1>2, <1>3, <1>5, <1>7 DEF NoticeOK
<1>14. QED
  BY <1>5, <1>8, <1>11, <1>12, <1>13 DEF KeepsMoney

LEMMA OperateCommitOK ==
  ASSUME Sound, StoreAssumption, NEW r \in Requests, OperateCommit(r)
  PROVE  TypeOK' /\ KeepsMoney
<1> DEFINE q == req[r]
<1>1. q \in Request /\ RequestOK(q) /\ q.op = "operate_commit"
  BY Running DEF OperateCommit, Ops, Runs
<1>2. /\ q.o \in Orders /\ q.pay \in PaymentRow /\ q.ord \in OrderRow /\ RowOK(q.o, q.pay)
      /\ q.got \in PaymentStatus /\ (q.got \in Earned => Backed(q.o))
  BY <1>1 DEF Request, RequestOK
<1>3. /\ ApplyStatus(r, q.pay, q.ord, q.got, "admin", FALSE)
      /\ UNCHANGED staffPaid /\ UNCHANGED gatewayVars
  BY DEF OperateCommit
<1>4. \A o \in Orders : (o = q.o /\ q.got \in Earned) => Backed(o)'
  BY <1>2, <1>3 DEF Backed, gatewayVars
<1>5. QED
  BY <1>1, <1>2, <1>3, <1>4, ApplyOK
  DEF Actors, gatewayVars, Sound, TypeOK, StoreTypeOK, GatewayTypeOK

LEMMA AbortOK ==
  ASSUME Sound, NEW r \in Requests, Abort(r)
  PROVE  TypeOK' /\ KeepsMoney
BY LeaveType, OrderSide DEF Abort, Sound, TypeOK, StoreTypeOK

LEMMA GatewayMoveOK ==
  ASSUME Sound, NEW c \in Charges, NEW s \in ChargeStatus, GatewayMove(c, s)
  PROVE  TypeOK' /\ KeepsMoney
<1>1. /\ charge[c] # Unused /\ charge' = [charge EXCEPT ![c].status = s]
      /\ notices' = notices \cup {<<c, s>>} /\ UNCHANGED <<seen, links, storeVars>>
  BY DEF GatewayMove
<1>2. charge[c].status \in Money => s \in Money
  BY DEF GatewayMove, ChargeMay, Money
<1>3. /\ charge' \in [Charges -> ChargeRow \cup {Unused}]
      /\ \A d \in Charges : charge[d] # Unused =>
           /\ charge'[d] # Unused
           /\ charge'[d].order = charge[d].order
           /\ charge[d].status \in Money => charge'[d].status \in Money
      /\ charge'[c].status = s
  BY <1>1, <1>2, ChargeMoved
<1>4. TypeOK'
  BY <1>1, <1>3 DEF Sound, TypeOK, StoreTypeOK, GatewayTypeOK, Notice, storeVars
<1>5. Grows
  BY <1>1, <1>3 DEF Grows, storeVars
<1>6. \A n \in notices' : n \in notices \/ NoticeOK(n)'
  BY <1>1, <1>3 DEF NoticeOK
<1>7. QED
  BY <1>1, <1>4, <1>5, <1>6 DEF KeepsMoney, storeVars

\* A charge that comes in through a link belongs to the link's order.
LEMMA PayLinkOK ==
  ASSUME Sound, NEW c \in Charges, NEW o \in Orders, NEW s \in ChargeStatus, PayLink(c, o, s)
  PROVE  TypeOK' /\ KeepsMoney
<1> DEFINE row == [order |-> o, method |-> "credit_card", gateway |-> "mercado_pago",
                   status |-> s]
<1>1. row \in ChargeRow /\ row # Unused
  BY DEF ChargeRow, OnlineMethods, Gateways, Unused
<1>2. /\ charge[c] = Unused /\ charge' = [charge EXCEPT ![c] = row]
      /\ notices' \subseteq notices \cup {<<c, s>>} /\ notices \subseteq notices'
      /\ UNCHANGED <<seen, links, storeVars>>
  BY DEF PayLink
<1>3. charge' \in [Charges -> ChargeRow \cup {Unused}] /\ charge'[c] = row
  BY <1>1, <1>2 DEF Sound, TypeOK, GatewayTypeOK
<1>4. TypeOK'
  BY <1>2, <1>3 DEF Sound, TypeOK, StoreTypeOK, GatewayTypeOK, Notice, storeVars
<1>5. Grows
  BY <1>2 DEF Grows, Sound, TypeOK, GatewayTypeOK, storeVars
<1>6. \A n \in notices' : n \in notices \/ NoticeOK(n)'
  BY <1>1, <1>2, <1>3 DEF NoticeOK
<1>7. QED
  BY <1>2, <1>4, <1>5, <1>6 DEF KeepsMoney, storeVars

-----------------------------------------------------------------------------
(* The theorems.                                                           *)

LEMMA InitSound == StoreAssumption /\ Init => Sound
<1> SUFFICES ASSUME Init PROVE Sound
  OBVIOUS
<1>1. StoreTypeOK
  BY EmptyRows DEF Init, StoreInit, StoreTypeOK, LedgerRow
<1>2. GatewayTypeOK
  BY DEF Init, GatewayInit, GatewayTypeOK
<1>3. MoneyInv
  BY DEF Init, StoreInit, GatewayInit, MoneyInv, Free, RowOK, NoPayment, Owned, Earned, Missing
<1>4. QED
  BY <1>1, <1>2, <1>3 DEF Sound, TypeOK

LEMMA PaymentRequestOK ==
  ASSUME Sound, StoreAssumption, GatewayAssumption, NEW r \in Requests, PaymentRequest(r)
  PROVE  TypeOK' /\ KeepsMoney
<1>1. ASSUME NEW o \in Orders, NEW m \in OnlineMethods, CreateRead(r, o, m)
      PROVE  TypeOK' /\ KeepsMoney
  BY <1>1, CreateReadOK
<1>2. ASSUME NEW c \in Charges, CreateReuse(r, c)
      PROVE  TypeOK' /\ KeepsMoney
  BY <1>2, CreateReuseOK
<1>3. CreateMiss(r) => TypeOK' /\ KeepsMoney
  BY CreateMissOK
<1>4. ASSUME NEW c \in Charges, NEW s \in ChargeStatus, CreateCharge(r, c, s)
      PROVE  TypeOK' /\ KeepsMoney
  BY <1>4, CreateChargeOK
<1>5. CreateCommit(r) => TypeOK' /\ KeepsMoney
  BY CreateCommitOK
<1>6. ASSUME NEW o \in Orders,
             \/ PreferenceRead(r, o)
             \/ SwitchRead(r, o)
             \/ \E how \in {"manual", "cash", "pay_on_delivery"} : ApproveRead(r, o, how)
      PROVE  TypeOK' /\ KeepsMoney
  BY <1>6, PlainReadsOK
<1>7. PreferenceCommit(r) \/ SwitchCommit(r) => TypeOK' /\ KeepsMoney
  BY PreferenceCommitOK, SwitchCommitOK
<1>8. ASSUME NEW n \in Notice, WebhookFetch(r, n)
      PROVE  TypeOK' /\ KeepsMoney
  BY <1>8, WebhookFetchOK
<1>9. WebhookLoad(r) \/ WebhookCommit(r) => TypeOK' /\ KeepsMoney
  BY WebhookLoadOK, WebhookCommitOK
<1>10. ASSUME NEW o \in Orders, PollRead(r, o)
       PROVE  TypeOK' /\ KeepsMoney
  BY <1>10, PollReadOK
<1>11. PollAnswer(r) \/ PollCommit(r) => TypeOK' /\ KeepsMoney
  BY PollAnswerOK, PollCommitOK
<1>12. ApproveCommit(r) => TypeOK' /\ KeepsMoney
  BY ApproveCommitOK
<1>13. ASSUME NEW o \in Orders, NEW op \in {"cancel_call", "refund_call"}, OperateRead(r, o, op)
       PROVE  TypeOK' /\ KeepsMoney
  BY <1>13, OperateReadOK
<1>14. ASSUME NEW s \in ChargeStatus, OperateRemote(r, s)
       PROVE  TypeOK' /\ KeepsMoney
  BY <1>14, OperateRemoteOK
<1>15. OperateCommit(r) \/ Abort(r) => TypeOK' /\ KeepsMoney
  BY OperateCommitOK, AbortOK
<1>16. QED
  BY <1>1, <1>2, <1>3, <1>4, <1>5, <1>6, <1>7, <1>8, <1>9, <1>10, <1>11, <1>12, <1>13,
     <1>14, <1>15
  DEF PaymentRequest

\* Every step leaves a sound state sound, whoever takes it.
LEMMA StepSound ==
  ASSUME Sound, StoreAssumption, AdminAssumption, GatewayAssumption, [Next]_vars
  PROVE  Sound'
<1>1. ASSUME NEW o \in Orders, Kitchen(o) \/ Creation(o), UNCHANGED gatewayVars
      PROVE  TypeOK' /\ KeepsMoney
  BY <1>1, KitchenOK, CreationOK
<1>2. ASSUME NEW r \in Requests, OrderRequest(r), UNCHANGED gatewayVars
      PROVE  TypeOK' /\ KeepsMoney
  BY <1>2, OrderRequestOK
<1>3. ASSUME NEW r \in Requests, PaymentRequest(r)
      PROVE  TypeOK' /\ KeepsMoney
  BY <1>3, PaymentRequestOK
<1>4. ASSUME NEW c \in Charges, NEW s \in ChargeStatus, GatewayMove(c, s)
      PROVE  TypeOK' /\ KeepsMoney
  BY <1>4, GatewayMoveOK
<1>5. ASSUME NEW c \in Charges, NEW o \in Orders, NEW s \in ChargeStatus, PayLink(c, o, s)
      PROVE  TypeOK' /\ KeepsMoney
  BY <1>5, PayLinkOK
<1>6. UNCHANGED vars => TypeOK' /\ KeepsMoney
  BY OrderSide DEF vars, storeVars, Sound, TypeOK, StoreTypeOK
<1>7. TypeOK' /\ KeepsMoney
  BY <1>1, <1>2, <1>3, <1>4, <1>5, <1>6 DEF Next
<1>8. QED
  BY <1>7, Advance

\* The inductive invariant: the rows, the requests in flight and the notices
\* are typed and sound in every reachable state.
THEOREM AlwaysSound == Spec => []Sound
<1>1. StoreAssumption /\ AdminAssumption /\ GatewayAssumption
  BY StoreAssumption, AdminAssumption, GatewayAssumption
<1>2. Init => Sound
  BY <1>1, InitSound
<1>3. Sound /\ [Next]_vars => Sound'
  BY <1>1, StepSound
<1>4. QED
  BY <1>2, <1>3, PTL DEF Spec

\* The rows stay typed: no answer of a gateway leaves a payment in a status
\* that state_machine.py does not know.
THEOREM TypeCorrectness == Spec => []TypeOK
<1>1. Sound => TypeOK
  BY DEF Sound
<1>2. QED
  BY <1>1, AlwaysSound, PTL

\* No interleaving of creations, notices, polls, switches, cancellations and
\* refunds approves a payment for which no money came in.
THEOREM MoneyFirst == Spec => []NoApprovalWithoutMoney
<1>1. Sound => NoApprovalWithoutMoney
  BY DEF Sound, MoneyInv, RowOK, Earned, NoApprovalWithoutMoney
<1>2. QED
  BY <1>1, AlwaysSound, PTL

-----------------------------------------------------------------------------
(* Stock movements.                                                        *)

MovedOnce(entry) ==
  /\ entry.sale <= 1
  /\ entry.loss <= entry.sale
  /\ entry.reversal <= entry.sale

LEMMA ConsumeOnce ==
  ASSUME NEW o \in Orders, NEW status, ledger \in [Orders -> LedgerRow], MovedOnce(ledger[o])
  PROVE  ConsumeSale(o, status) \in LedgerRow /\ MovedOnce(ConsumeSale(o, status))
BY DEF ConsumeSale, Deducts, LedgerRow, MovedOnce

LEMMA ReverseOnce ==
  ASSUME NEW o, NEW entry \in LedgerRow, NEW started, MovedOnce(entry)
  PROVE  MovedOnce(ReverseSale(o, entry, started))
BY DEF ReverseSale, LedgerRow, MovedOnce

\* The two places that move stock behind a status.
LEMMA CommitStatusMovesOnce ==
  ASSUME Sound, StockMovedOnce, NEW r \in Requests, NEW next,
         NEW op \in {"change_status", "cancel", "archive"}, Runs(r, op), CommitStatus(r, next)
  PROVE  StockMovedOnce'
<1> DEFINE q    == req[r]
           used == IF q.to = "preparing" /\ q.ord.status # "ready_for_pickup"
                   THEN ConsumeSale(q.o, q.to) ELSE ledger[q.o]
           kept == IF q.to \in {"cancelled", "refunded"}
                   THEN ReverseSale(q.o, used, q.ord.started) ELSE used
<1>1. q.o \in Orders
  BY Running DEF Ops, Request
<1>2. ledger \in [Orders -> LedgerRow] /\ MovedOnce(ledger[q.o])
  BY <1>1 DEF Sound, TypeOK, StoreTypeOK, StockMovedOnce, MovedOnce
<1>3. used \in LedgerRow /\ MovedOnce(used)
  BY <1>1, <1>2, ConsumeOnce
<1>4. MovedOnce(kept)
  BY <1>3, ReverseOnce
<1>5. ledger' = [ledger EXCEPT ![q.o] = kept]
  BY DEF CommitStatus
<1>6. QED
  BY <1>1, <1>2, <1>4, <1>5 DEF StockMovedOnce, MovedOnce

LEMMA ApplyStatusMovesOnce ==
  ASSUME Sound, StockMovedOnce, NEW r \in Requests, req[r] \in Request,
         NEW pay, NEW ord, NEW answer, NEW who, NEW commits,
         ApplyStatus(r, pay, ord, answer, who, commits)
  PROVE  StockMovedOnce'
<1> DEFINE q    == req[r]
           s    == Settled(pay.status, answer)
           next == OrderAfter(ord, s, who)
           used == IF s = "approved" THEN ConsumeSale(q.o, next.status) ELSE ledger[q.o]
           kept == IF next.status \in {"cancelled", "refunded"}
                   THEN ReverseSale(q.o, used, next.started) ELSE used
<1>1. q.o \in Orders
  BY DEF Request
<1>2. ledger \in [Orders -> LedgerRow] /\ MovedOnce(ledger[q.o])
  BY <1>1 DEF Sound, TypeOK, StoreTypeOK, StockMovedOnce, MovedOnce
<1>3. used \in LedgerRow /\ MovedOnce(used)
  BY <1>1, <1>2, ConsumeOnce
<1>4. MovedOnce(kept)
  BY <1>3, ReverseOnce
<1>5. ledger' = ledger \/ ledger' = [ledger EXCEPT ![q.o] = kept]
  BY DEF ApplyStatus, StockAfter
<1>6. QED
  BY <1>1, <1>2, <1>4, <1>5 DEF StockMovedOnce, MovedOnce

LEMMA ApplyingMovesOnce ==
  ASSUME Sound, StockMovedOnce, NEW r \in Requests,
         \/ CreateCommit(r)
         \/ WebhookCommit(r)
         \/ PollCommit(r)
         \/ ApproveCommit(r)
         \/ OperateCommit(r)
  PROVE  StockMovedOnce'
<1>1. PICK op \in {"create_commit", "webhook", "status_poll", "approve", "operate_commit"} :
        Runs(r, op)
  BY DEF CreateCommit, WebhookCommit, PollCommit, ApproveCommit, OperateCommit
<1>2. req[r] \in Request
  BY <1>1, Running DEF Ops
<1>3. \/ \E pay, ord, answer, who, commits : ApplyStatus(r, pay, ord, answer, who, commits)
      \/ ledger' = ledger
  BY DEF CreateCommit, WebhookCommit, PollCommit, ApproveCommit, OperateCommit
<1>4. QED
  BY <1>2, <1>3, ApplyStatusMovesOnce DEF StockMovedOnce

LEMMA StepMovesOnce ==
  ASSUME Sound, StockMovedOnce, [Next]_vars
  PROVE  StockMovedOnce'
<1>1. ASSUME ledger' = ledger PROVE StockMovedOnce'
  BY <1>1 DEF StockMovedOnce
<1>2. ASSUME NEW o \in Orders, Kitchen(o) PROVE ledger' = ledger
  BY <1>2 DEF Kitchen, KdsStartPreparation, KdsUnitsReady, KdsRemake, KdsMarkReady,
              KdsReturnToKitchen, KdsServeDineIn
<1>3. ASSUME NEW o \in Orders, Creation(o) PROVE StockMovedOnce'
  <2>1. \/ ledger' = ledger
        \/ ledger' = [ledger EXCEPT ![o] = ConsumeSale(o, "preparing")]
    BY <1>3 DEF Creation, CreateFromCheckout, CreateFromTableSession
  <2>2. ledger \in [Orders -> LedgerRow] /\ MovedOnce(ledger[o])
    BY DEF Sound, TypeOK, StoreTypeOK, StockMovedOnce, MovedOnce
  <2>3. MovedOnce(ConsumeSale(o, "preparing"))
    BY <2>2, ConsumeOnce
  <2>4. QED
    BY <2>1, <2>2, <2>3 DEF StockMovedOnce, MovedOnce
<1>4. ASSUME NEW r \in Requests, OrderRequest(r) PROVE StockMovedOnce'
  <2>1. CASE ChangeStatusCommit(r) \/ CancelCommit(r) \/ ArchiveCancel(r)
    <3>1. PICK op \in {"change_status", "cancel", "archive"} : Runs(r, op)
      BY <2>1 DEF ChangeStatusCommit, CancelCommit, ArchiveCancel
    <3>2. \E next : CommitStatus(r, next)
      BY <2>1 DEF ChangeStatusCommit, CancelCommit, ArchiveCancel
    <3>3. QED
      BY <3>1, <3>2, CommitStatusMovesOnce
  <2>2. CASE ~(ChangeStatusCommit(r) \/ CancelCommit(r) \/ ArchiveCancel(r))
    <3>1. ledger' = ledger
      BY <1>4, <2>2 DEF OrderRequest, ChangeStatusRead, StockRefusal, AwardPoints, CancelRead,
         RecordCancel, ArchiveRead, ArchiveMark, KdsCompletePickup, ConfirmTableRead,
         ConfirmTableCommit, ServeTableRead, ServeTableCommit
    <3>2. QED
      BY <1>1, <3>1
  <2>3. QED
    BY <2>1, <2>2
<1>5. ASSUME NEW r \in Requests, PaymentRequest(r) PROVE StockMovedOnce'
  <2> DEFINE applies == \/ CreateCommit(r)
                        \/ WebhookCommit(r)
                        \/ PollCommit(r)
                        \/ ApproveCommit(r)
                        \/ OperateCommit(r)
  <2>1. CASE applies
    BY <2>1, ApplyingMovesOnce
  <2>2. CASE ~applies
    <3>1. ledger' = ledger
      BY <1>5, <2>2 DEF PaymentRequest, CreateRead, CreateReuse, CreateMiss, CreateCharge,
         PreferenceRead, PreferenceCommit, SwitchRead, SwitchCommit, WebhookFetch, WebhookLoad, PollRead, PollAnswer, ApproveRead,
         OperateRead, OperateRemote, Abort
    <3>2. QED
      BY <1>1, <3>1
  <2>3. QED
    BY <2>1, <2>2
<1>6. ASSUME NEW c \in Charges, NEW s \in ChargeStatus,
             GatewayMove(c, s) \/ \E o \in Orders : PayLink(c, o, s)
      PROVE  ledger' = ledger
  BY <1>6 DEF GatewayMove, PayLink, storeVars
<1>7. UNCHANGED vars => ledger' = ledger
  BY DEF vars, storeVars
<1>8. QED
  BY <1>1, <1>2, <1>3, <1>4, <1>5, <1>6, <1>7 DEF Next

\* Requests that consume and reverse an order's stock at the same time write
\* each kind of movement at most once, and none without a sale.
THEOREM StockOnce == Spec => []StockMovedOnce
<1>1. StoreAssumption /\ AdminAssumption /\ GatewayAssumption
  BY StoreAssumption, AdminAssumption, GatewayAssumption
<1>2. Init => StockMovedOnce
  BY DEF Init, StoreInit, StockMovedOnce
<1>3. Sound /\ StockMovedOnce /\ [Next]_vars => StockMovedOnce'
  BY StepMovesOnce
<1>4. QED
  BY <1>2, <1>3, AlwaysSound, PTL DEF Spec

-----------------------------------------------------------------------------
(* The shelf.                                                              *)

\* A movement writes one row more, or none.
Takes(o)   == ledger[o].sale = 0 /\ ledger'[o].sale = 1 /\ Balance >= 1
Returns(o) == ledger[o].reversal = 0 /\ ledger'[o].reversal = 1

Moves(o) ==
  /\ \A x \in Orders : x # o => ledger'[x] = ledger[x]
  /\ ledger'[o].sale = ledger[o].sale \/ Takes(o)
  /\ ledger'[o].reversal = ledger[o].reversal \/ Returns(o)

LEMMA ConsumeTakes ==
  ASSUME NEW o \in Orders, NEW status, ledger \in [Orders -> LedgerRow],
         MovedOnce(ledger[o]), StockSuffices(o, status)
  PROVE  LET used == ConsumeSale(o, status)
         IN /\ used \in LedgerRow /\ used.reversal = ledger[o].reversal
            /\ \/ used.sale = ledger[o].sale
               \/ ledger[o].sale = 0 /\ used.sale = 1 /\ Balance >= 1
BY DEF ConsumeSale, Deducts, StockSuffices, LedgerRow

LEMMA ReverseReturns ==
  ASSUME NEW o, NEW entry \in LedgerRow, NEW started
  PROVE  LET left == ReverseSale(o, entry, started)
         IN /\ left.sale = entry.sale
            /\ left.reversal = entry.reversal \/ (entry.reversal = 0 /\ left.reversal = 1)
BY DEF ReverseSale, LedgerRow

\* A handler that consumes, and then reverses what is in the ledger.
LEMMA UsedThenReversed ==
  ASSUME NEW o \in Orders, ledger \in [Orders -> LedgerRow],
         NEW used \in LedgerRow, used.reversal = ledger[o].reversal,
         \/ used.sale = ledger[o].sale
         \/ ledger[o].sale = 0 /\ used.sale = 1 /\ Balance >= 1,
         NEW started, NEW kept, kept = used \/ kept = ReverseSale(o, used, started),
         ledger' = [ledger EXCEPT ![o] = kept]
  PROVE  Moves(o)
<1>1. /\ kept.sale = used.sale
      /\ kept.reversal = used.reversal \/ (used.reversal = 0 /\ kept.reversal = 1)
  BY ReverseReturns
<1>2. ledger'[o] = kept /\ \A x \in Orders : x # o => ledger'[x] = ledger[x]
  OBVIOUS
<1>3. QED
  BY <1>1, <1>2 DEF Moves, Takes, Returns

LEMMA CommitTakes ==
  ASSUME Sound, StockMovedOnce, NEW r \in Requests, NEW next,
         NEW op \in {"change_status", "cancel", "archive"}, Runs(r, op), CommitStatus(r, next)
  PROVE  \E o \in Orders : Moves(o)
<1> DEFINE q    == req[r]
           used == IF q.to = "preparing" /\ q.ord.status # "ready_for_pickup"
                   THEN ConsumeSale(q.o, q.to) ELSE ledger[q.o]
           kept == IF q.to \in {"cancelled", "refunded"}
                   THEN ReverseSale(q.o, used, q.ord.started) ELSE used
<1>1. q.o \in Orders
  BY Running DEF Ops, Request
<1>2. ledger \in [Orders -> LedgerRow] /\ ledger[q.o] \in LedgerRow /\ MovedOnce(ledger[q.o])
  BY <1>1 DEF Sound, TypeOK, StoreTypeOK, StockMovedOnce, MovedOnce
<1>3. StockSuffices(q.o, q.to) /\ ledger' = [ledger EXCEPT ![q.o] = kept]
  BY DEF CommitStatus
<1>4. /\ used \in LedgerRow /\ used.reversal = ledger[q.o].reversal
      /\ \/ used.sale = ledger[q.o].sale
         \/ ledger[q.o].sale = 0 /\ used.sale = 1 /\ Balance >= 1
  BY <1>1, <1>2, <1>3, ConsumeTakes
<1>5. kept = used \/ kept = ReverseSale(q.o, used, q.ord.started)
  OBVIOUS
<1> HIDE DEF used, kept
<1>6. QED
  BY <1>1, <1>2, <1>3, <1>4, <1>5, UsedThenReversed

LEMMA ApplyTakes ==
  ASSUME Sound, StockMovedOnce, NEW r \in Requests, req[r] \in Request,
         NEW pay, NEW ord, NEW answer, NEW who, NEW commits,
         ApplyStatus(r, pay, ord, answer, who, commits)
  PROVE  ledger' = ledger \/ \E o \in Orders : Moves(o)
<1> DEFINE q    == req[r]
           s    == Settled(pay.status, answer)
           next == OrderAfter(ord, s, who)
           used == IF s = "approved" THEN ConsumeSale(q.o, next.status) ELSE ledger[q.o]
           kept == IF next.status \in {"cancelled", "refunded"}
                   THEN ReverseSale(q.o, used, next.started) ELSE used
<1>1. q.o \in Orders
  BY DEF Request
<1>2. ledger \in [Orders -> LedgerRow] /\ ledger[q.o] \in LedgerRow /\ MovedOnce(ledger[q.o])
  BY <1>1 DEF Sound, TypeOK, StoreTypeOK, StockMovedOnce, MovedOnce
<1>3. \/ ledger' = ledger
      \/ /\ s = "approved" => StockSuffices(q.o, next.status)
         /\ ledger' = [ledger EXCEPT ![q.o] = kept]
  BY DEF ApplyStatus, StockAfter
<1>4. (s = "approved" => StockSuffices(q.o, next.status)) =>
         /\ used \in LedgerRow /\ used.reversal = ledger[q.o].reversal
         /\ \/ used.sale = ledger[q.o].sale
            \/ ledger[q.o].sale = 0 /\ used.sale = 1 /\ Balance >= 1
  BY <1>1, <1>2, ConsumeTakes
<1>5. kept = used \/ kept = ReverseSale(q.o, used, next.started)
  OBVIOUS
<1> HIDE DEF used, kept, next, s
<1>6. QED
  BY <1>1, <1>2, <1>3, <1>4, <1>5, UsedThenReversed

LEMMA StepTakes ==
  ASSUME Sound, StockMovedOnce, [Next]_vars
  PROVE  ledger' = ledger \/ \E o \in Orders : Moves(o)
<1>1. ASSUME NEW o \in Orders, Kitchen(o) PROVE ledger' = ledger
  BY <1>1 DEF Kitchen, KdsStartPreparation, KdsUnitsReady, KdsRemake, KdsMarkReady,
              KdsReturnToKitchen, KdsServeDineIn
<1>2. ASSUME NEW o \in Orders, Creation(o) PROVE ledger' = ledger \/ Moves(o)
  <2> DEFINE used == ConsumeSale(o, "preparing")
  <2>1. \/ ledger' = ledger
        \/ Balance >= 1 /\ ledger' = [ledger EXCEPT ![o] = used]
    BY <1>2 DEF Creation, CreateFromCheckout, CreateFromTableSession
  <2>2. ledger \in [Orders -> LedgerRow] /\ MovedOnce(ledger[o])
    BY DEF Sound, TypeOK, StoreTypeOK, StockMovedOnce, MovedOnce
  <2>3. Balance >= 1 =>
          /\ used \in LedgerRow /\ used.reversal = ledger[o].reversal
          /\ \/ used.sale = ledger[o].sale
             \/ ledger[o].sale = 0 /\ used.sale = 1 /\ Balance >= 1
    BY <2>2, ConsumeTakes DEF StockSuffices
  <2> HIDE DEF used
  <2>4. QED
    BY <2>1, <2>2, <2>3, UsedThenReversed
<1>3. ASSUME NEW r \in Requests, OrderRequest(r)
      PROVE  ledger' = ledger \/ \E o \in Orders : Moves(o)
  <2>1. CASE ChangeStatusCommit(r) \/ CancelCommit(r) \/ ArchiveCancel(r)
    <3>1. PICK op \in {"change_status", "cancel", "archive"} : Runs(r, op)
      BY <2>1 DEF ChangeStatusCommit, CancelCommit, ArchiveCancel
    <3>2. \E next : CommitStatus(r, next)
      BY <2>1 DEF ChangeStatusCommit, CancelCommit, ArchiveCancel
    <3>3. QED
      BY <3>1, <3>2, CommitTakes
  <2>2. CASE ~(ChangeStatusCommit(r) \/ CancelCommit(r) \/ ArchiveCancel(r))
    BY <1>3, <2>2 DEF OrderRequest, ChangeStatusRead, StockRefusal, AwardPoints, CancelRead,
       RecordCancel, ArchiveRead, ArchiveMark, KdsCompletePickup, ConfirmTableRead,
       ConfirmTableCommit, ServeTableRead, ServeTableCommit
  <2>3. QED
    BY <2>1, <2>2
<1>4. ASSUME NEW r \in Requests, PaymentRequest(r)
      PROVE  ledger' = ledger \/ \E o \in Orders : Moves(o)
  <2> DEFINE applies == \/ CreateCommit(r)
                        \/ WebhookCommit(r)
                        \/ PollCommit(r)
                        \/ ApproveCommit(r)
                        \/ OperateCommit(r)
  <2>1. CASE applies
    <3>1. PICK op \in {"create_commit", "webhook", "status_poll", "approve", "operate_commit"} :
            Runs(r, op)
      BY <2>1 DEF CreateCommit, WebhookCommit, PollCommit, ApproveCommit, OperateCommit
    <3>2. req[r] \in Request
      BY <3>1, Running DEF Ops
    <3>3. \/ \E pay, ord, answer, who, commits : ApplyStatus(r, pay, ord, answer, who, commits)
          \/ ledger' = ledger
      BY <2>1 DEF CreateCommit, WebhookCommit, PollCommit, ApproveCommit, OperateCommit
    <3>4. QED
      BY <3>2, <3>3, ApplyTakes
  <2>2. CASE ~applies
    BY <1>4, <2>2 DEF PaymentRequest, CreateRead, CreateReuse, CreateMiss, CreateCharge,
       PreferenceRead, PreferenceCommit, SwitchRead, SwitchCommit, WebhookFetch, WebhookLoad,
       PollRead, PollAnswer, ApproveRead, OperateRead, OperateRemote, Abort
  <2>3. QED
    BY <2>1, <2>2
<1>5. ASSUME NEW c \in Charges, NEW s \in ChargeStatus,
             GatewayMove(c, s) \/ \E o \in Orders : PayLink(c, o, s)
      PROVE  ledger' = ledger
  BY <1>5 DEF GatewayMove, PayLink, storeVars
<1>6. UNCHANGED vars => ledger' = ledger
  BY DEF vars, storeVars
<1>7. QED
  BY <1>1, <1>2, <1>3, <1>4, <1>5, <1>6 DEF Next

\* Sets of numbered rows, before and after one count goes from 0 to 1.
RowsOf(count) == UNION { {o} \X (1..count[o]) : o \in Orders }

LEMMA OneRowMore ==
  ASSUME NEW count \in [Orders -> Nat], NEW new \in [Orders -> Nat], NEW o \in Orders,
         \A x \in Orders : x # o => new[x] = count[x],
         new[o] = count[o] \/ (count[o] = 0 /\ new[o] = 1),
         IsFiniteSet(RowsOf(count))
  PROVE  /\ IsFiniteSet(RowsOf(new))
         /\ Cardinality(RowsOf(new)) = Cardinality(RowsOf(count)) + (new[o] - count[o])
         /\ Cardinality(RowsOf(count)) \in Nat
<1>0. Cardinality(RowsOf(count)) \in Nat
  BY FS_CardinalityType
<1>1. CASE new[o] = count[o]
  <2>1. new = count
    BY <1>1
  <2>2. QED
    BY <1>0, <2>1
<1>2. CASE count[o] = 0 /\ new[o] = 1
  <2>1. 1..count[o] = {} /\ 1..new[o] = {1}
    BY <1>2
  <2>2. <<o, 1>> \notin RowsOf(count)
    BY <2>1 DEF RowsOf
  <2>3. RowsOf(new) = RowsOf(count) \cup {<<o, 1>>}
    <3>1. ASSUME NEW row \in RowsOf(new) PROVE row \in RowsOf(count) \cup {<<o, 1>>}
      <4>1. PICK x \in Orders : row \in {x} \X (1..new[x])
        BY <3>1 DEF RowsOf
      <4>2. CASE x = o
        BY <2>1, <4>1, <4>2
      <4>3. CASE x # o
        BY <4>1, <4>3 DEF RowsOf
      <4>4. QED
        BY <4>2, <4>3
    <3>2. ASSUME NEW row \in RowsOf(count) PROVE row \in RowsOf(new)
      <4>1. PICK x \in Orders : row \in {x} \X (1..count[x])
        BY <3>2 DEF RowsOf
      <4>2. x # o
        BY <2>1, <4>1
      <4>3. QED
        BY <4>1, <4>2 DEF RowsOf
    <3>3. <<o, 1>> \in RowsOf(new)
      BY <2>1 DEF RowsOf
    <3>4. QED
      BY <3>1, <3>2, <3>3
  <2>4. QED
    BY <1>0, <1>2, <2>2, <2>3, FS_AddElement
<1>3. QED
  BY <1>1, <1>2

ShelfInv ==
  /\ IsFiniteSet(SaleRows) /\ IsFiniteSet(ReversalRows)
  /\ Balance >= 0

LEMMA StepShelf ==
  ASSUME Sound, StockMovedOnce, ShelfInv, StoreAssumption, [Next]_vars
  PROVE  ShelfInv'
<1> DEFINE sales == [o \in Orders |-> ledger[o].sale]
           backs == [o \in Orders |-> ledger[o].reversal]
<1>1. ledger \in [Orders -> LedgerRow] /\ ledger' \in [Orders -> LedgerRow]
  BY AdminAssumption, GatewayAssumption, StepSound DEF Sound, TypeOK, StoreTypeOK
<1>2. /\ sales \in [Orders -> Nat] /\ sales' \in [Orders -> Nat]
      /\ backs \in [Orders -> Nat] /\ backs' \in [Orders -> Nat]
  BY <1>1 DEF LedgerRow
<1>3. /\ SaleRows = RowsOf(sales) /\ SaleRows' = RowsOf(sales')
      /\ ReversalRows = RowsOf(backs) /\ ReversalRows' = RowsOf(backs')
  BY DEF SaleRows, ReversalRows, RowsOf
<1>4. CASE ledger' = ledger
  BY <1>4 DEF ShelfInv, Balance, SaleRows, ReversalRows
<1>5. ASSUME NEW o \in Orders, Moves(o) PROVE ShelfInv'
  <2>1. /\ \A x \in Orders : x # o => sales'[x] = sales[x] /\ backs'[x] = backs[x]
        /\ sales'[o] = sales[o] \/ (sales[o] = 0 /\ sales'[o] = 1 /\ Balance >= 1)
        /\ backs'[o] = backs[o] \/ (backs[o] = 0 /\ backs'[o] = 1)
    BY <1>5 DEF Moves, Takes, Returns
  <2>2. IsFiniteSet(RowsOf(sales)) /\ IsFiniteSet(RowsOf(backs))
    BY <1>3 DEF ShelfInv
  <2> HIDE DEF sales, backs
  <2>3. /\ IsFiniteSet(RowsOf(sales'))
        /\ Cardinality(RowsOf(sales')) = Cardinality(RowsOf(sales)) + (sales'[o] - sales[o])
        /\ Cardinality(RowsOf(sales)) \in Nat
    BY <1>2, <2>1, <2>2, OneRowMore
  <2>4. /\ IsFiniteSet(RowsOf(backs'))
        /\ Cardinality(RowsOf(backs')) = Cardinality(RowsOf(backs)) + (backs'[o] - backs[o])
        /\ Cardinality(RowsOf(backs)) \in Nat
    BY <1>2, <2>1, <2>2, OneRowMore
  <2>5. /\ Balance = StockSize - Cardinality(RowsOf(sales)) + Cardinality(RowsOf(backs))
        /\ Balance' = StockSize - Cardinality(RowsOf(sales')) + Cardinality(RowsOf(backs'))
        /\ StockSize \in Nat
    BY <1>3 DEF Balance, StoreAssumption
  <2>6. Balance' >= 0
    BY <1>2, <2>1, <2>3, <2>4, <2>5 DEF ShelfInv
  <2>7. QED
    BY <1>3, <2>3, <2>4, <2>6 DEF ShelfInv
<1>6. QED
  BY <1>4, <1>5, StepTakes

\* However many requests consume and reverse the stock of however many orders at
\* the same time, what lies on the shelf never falls below nothing.
THEOREM ShelfHolds == Spec => []ShelfNeverNegative
<1>1. Init => ShelfInv
  <2> SUFFICES ASSUME Init PROVE ShelfInv
    OBVIOUS
  <2>1. SaleRows = {} /\ ReversalRows = {}
    BY DEF Init, StoreInit, SaleRows, ReversalRows
  <2>2. QED
    BY <2>1, FS_EmptySet, StoreAssumption DEF ShelfInv, Balance, StoreAssumption
<1>2. Sound /\ StockMovedOnce /\ ShelfInv /\ [Next]_vars => ShelfInv'
  BY StoreAssumption, StepShelf
<1>3. ShelfInv => ShelfNeverNegative
  BY DEF ShelfInv, ShelfNeverNegative
<1>4. QED
  BY <1>1, <1>2, <1>3, AlwaysSound, StockOnce, PTL DEF Spec
=============================================================================
