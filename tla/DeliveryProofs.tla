--------------------------- MODULE DeliveryProofs ---------------------------
(***************************************************************************)
(* Theorems about DeliveryService for every set of orders, couriers,       *)
(* earnings and overlapping requests.                                      *)
(***************************************************************************)
EXTENDS DeliveryService, FiniteSetTheorems, TLAPS

\* A delivery that was made is not reported as failed, by anybody.
NoFailures ==
  /\ "problem" \notin EnabledOps
  /\ StatusTargets \cap {"failed", "cancelled"} = {}

\* Deliveries are handed over in the courier's app only.
ByTheCourier ==
  /\ "problem" \notin EnabledOps
  /\ "delivered" \notin StatusTargets

\* The earnings a payout or a failure is about to write are rows: without it
\* TypeOK is not inductive.
Known(r) ==
  /\ Runs(r, "pay") => earning[work[r].e] \in EarningRow
  /\ Runs(r, "move") \/ Runs(r, "problem") =>
       \A e \in work[r].owed : earning[e] \in EarningRow

TypeInv == TypeOK /\ \A r \in Requests : Known(r)

\* An earning may change; it does not go away.
Kept == \A e \in Earnings : earning[e] \in EarningRow => earning'[e] \in EarningRow

-----------------------------------------------------------------------------
(* Types.                                                                  *)

LEMMA Values ==
  /\ DeliveryStatus = { "pending_assignment", "assigned", "picked_up", "on_the_way",
                        "delivered", "completed", "failed", "cancelled" }
  /\ Missing \notin DeliveryStatus
  /\ Nobody \notin Drivers
  /\ StatusTargets \subseteq DeliveryStatus
<1>1. DeliveryStatus = { "pending_assignment", "assigned", "picked_up", "on_the_way",
                         "delivered", "completed", "failed", "cancelled" }
  BY DEF DeliveryStatus, DeliveryTransitions
<1>2. QED
  BY <1>1, DeliveryAssumption DEF DeliveryAssumption, Missing

\* A running request holds what its operation keeps.
LEMMA Running ==
  ASSUME TypeOK, NEW r \in Requests
  PROVE  /\ \A op \in {"assign", "move", "problem", "deliver", "complete"} :
              Runs(r, op) =>
                /\ work[r].o \in Orders
                /\ work[r].d \in Drivers \cup {Nobody}
                /\ work[r].to \in DeliveryStatus
                /\ work[r].row \in DeliveryRow
                /\ work[r].ord \in OrderStage
                /\ work[r].seen \in {"available", "busy", "offline", "expired"}
                /\ work[r].owed \subseteq Earnings
                /\ work[r] \in Work
         /\ Runs(r, "pay") => work[r].e \in Earnings
         /\ Runs(r, "deactivate") =>
              work[r].d \in Drivers /\ work[r].seen \in {"available", "busy", "offline"}
BY DEF TypeOK, Runs, Work, Idle

LEMMA SaveDeliveryType ==
  ASSUME NEW db \in DeliveryRow, NEW old \in DeliveryRow, NEW new \in DeliveryRow
  PROVE  SaveDelivery(db, old, new) \in DeliveryRow
BY DEF SaveDelivery, Col, DeliveryRow

LEMMA MovedType ==
  ASSUME TypeOK, NEW q, NEW to \in DeliveryStatus, q.o \in Orders, q.row \in DeliveryRow,
         Moved(q, to)
  PROVE  dlv' \in [Orders -> DeliveryRow]
<1>1. [q.row EXCEPT !.status = to] \in DeliveryRow
  BY DEF DeliveryRow
<1>2. dlv[q.o] \in DeliveryRow
  BY DEF TypeOK
<1>3. QED
  BY <1>1, <1>2, SaveDeliveryType DEF Moved, TypeOK

LEMMA FreedType ==
  ASSUME TypeOK, NEW d \in Drivers \cup {Nobody}, NEW seen
  PROVE  Freed(d, seen) \in [Drivers -> PersonRow]
BY DEF Freed, Col, TypeOK, PersonRow

LEMMA OrderAlongType ==
  ASSUME TypeOK, NEW q, NEW to, q.o \in Orders
  PROVE  OrderAlong(q, to) \in [Orders -> OrderStage]
BY DEF OrderAlong, Col, TypeOK, OrderStage

LEMMA EnsureType ==
  ASSUME TypeOK, NEW o \in Orders, NEW driver, EnsureEarning(o, driver)
  PROVE  earning' \in [Earnings -> EarningRow \cup {NoEarning}]
<1>1. [order |-> o, status |-> "pending"] \in EarningRow
  BY DEF EarningRow
<1>2. QED
  BY <1>1 DEF EnsureEarning, TypeOK

LEMMA SnapshotType ==
  ASSUME TypeOK, NEW op \in {"assign", "move", "problem", "deliver", "complete"},
         NEW o \in Orders, NEW d \in Drivers \cup {Nobody}, NEW to \in DeliveryStatus
  PROVE  Snapshot(op, o, d, to) \in Work
<1>1. /\ dlv[o] \in DeliveryRow
      /\ ord[o] \in OrderStage
      /\ cash[o] \in Cash
      /\ Owed(o) \in SUBSET Earnings
  BY DEF TypeOK, Owed
<1>2. (IF d = Nobody THEN "expired" ELSE person[d].status)
        \in {"available", "busy", "offline", "expired"}
  BY DEF TypeOK, PersonRow
<1>3. QED
  BY <1>1, <1>2 DEF Snapshot, Work

-----------------------------------------------------------------------------
(* Steps keep types and known earnings.                                    *)

\* A request that enters with something it may keep.
LEMMA EnterType ==
  ASSUME TypeOK, NEW r \in Requests, NEW q \in Work \cup {Idle}, Enter(r, q)
  PROVE  work' \in [Requests -> Work \cup {Idle}]
BY DEF Enter, TypeOK

LEMMA LeaveType ==
  ASSUME TypeOK, NEW r \in Requests, Leave(r)
  PROVE  work' \in [Requests -> Work \cup {Idle}]
BY DEF Leave, TypeOK

LEMMA EnterKnown ==
  ASSUME TypeInv, Kept, NEW r \in Requests, NEW q, Enter(r, q),
         q.op = "pay" => earning'[q.e] \in EarningRow,
         q.op \in {"move", "problem"} => \A e \in q.owed : earning'[e] \in EarningRow
  PROVE  \A s \in Requests : Known(s)'
<1> SUFFICES ASSUME NEW s \in Requests PROVE Known(s)'
  OBVIOUS
<1>1. CASE s = r
  BY <1>1 DEF Enter, Known, Runs, TypeInv, TypeOK
<1>2. CASE s # r
  <2>1. work'[s] = work[s]
    BY <1>2 DEF Enter, TypeInv, TypeOK
  <2>2. Runs(s, "pay") => work[s].e \in Earnings
    BY Running DEF TypeInv
  <2>3. Runs(s, "move") \/ Runs(s, "problem") => work[s].owed \subseteq Earnings
    BY Running DEF TypeInv
  <2>4. QED
    BY <2>1, <2>2, <2>3 DEF Known, Kept, Runs, TypeInv
<1>3. QED
  BY <1>1, <1>2

LEMMA LeaveKnown ==
  ASSUME TypeInv, Kept, NEW r \in Requests, Leave(r)
  PROVE  \A s \in Requests : Known(s)'
<1>1. Enter(r, Idle)
  BY DEF Leave, Enter
<1>2. Idle.op = "idle"
  BY DEF Idle
<1>3. QED
  BY <1>1, <1>2, EnterKnown

LEMMA StayKnown ==
  ASSUME TypeInv, Kept, UNCHANGED work
  PROVE  \A s \in Requests : Known(s)'
<1> SUFFICES ASSUME NEW s \in Requests PROVE Known(s)'
  OBVIOUS
<1>1. Runs(s, "pay") => work[s].e \in Earnings
  BY Running DEF TypeInv
<1>2. Runs(s, "move") \/ Runs(s, "problem") => work[s].owed \subseteq Earnings
  BY Running DEF TypeInv
<1>3. QED
  BY <1>1, <1>2 DEF Known, Kept, Runs, TypeInv

\* The driver of a delivery is a driver or nobody.
LEMMA DriverType ==
  ASSUME TypeOK, NEW o \in Orders
  PROVE  dlv[o].driver \in Drivers \cup {Nobody} /\ dlv[o].status \in DeliveryStatus \cup {Missing}
BY DEF TypeOK, DeliveryRow

LEMMA PendingIsRow ==
  ASSUME TypeOK, NEW e \in Earnings, earning[e].status = "pending"
  PROVE  earning[e] \in EarningRow
BY DEF TypeOK, NoEarning, Missing

LEMMA ReadsType ==
  ASSUME TypeInv, NEW r \in Requests, NEW o \in Orders,
         \/ \E d \in Drivers : AssignRead(r, o, d)
         \/ \E to \in StatusTargets : UpdateRead(r, o, to)
         \/ StartRead(r, o)
         \/ ProblemRead(r, o)
         \/ CompleteRead(r, o)
  PROVE  TypeInv'
<1>1. PICK op \in {"assign", "move", "problem", "deliver", "complete"},
           d \in Drivers \cup {Nobody}, to \in DeliveryStatus : Enter(r, Snapshot(op, o, d, to))
  BY Values, DriverType DEF AssignRead, UpdateRead, StartRead, ProblemRead, CompleteRead, TypeInv
<1>2. UNCHANGED <<ord, archived, cooking, cash, dlv, person, earning>>
  BY DEF AssignRead, UpdateRead, StartRead, ProblemRead, CompleteRead
<1>3. TypeOK'
  BY <1>1, <1>2, SnapshotType, EnterType DEF TypeOK, TypeInv
<1>4. \A e \in Snapshot(op, o, d, to).owed : earning'[e] \in EarningRow
  BY <1>2, PendingIsRow DEF Snapshot, Owed, TypeInv
<1>5. Snapshot(op, o, d, to).op # "pay" /\ Kept
  BY <1>2 DEF Snapshot, Kept
<1>6. QED
  BY <1>1, <1>3, <1>4, <1>5, EnterKnown DEF TypeInv

LEMMA AssignCommitType ==
  ASSUME TypeInv, NEW r \in Requests, AssignCommit(r)
  PROVE  TypeInv'
<1> DEFINE q   == work[r]
           new == [status |-> "assigned", driver |-> q.d]
<1> USE DEF TypeInv
<1>1. Runs(r, "assign") /\ q.o \in Orders /\ q.row \in DeliveryRow
  BY Running DEF AssignCommit
<1>2. new \in DeliveryRow
  BY <1>1, Running, Values DEF DeliveryRow
<1>3. dlv[q.o] \in DeliveryRow
  BY <1>1 DEF TypeOK
<1>4. dlv' \in [Orders -> DeliveryRow]
  BY <1>1, <1>2, <1>3, SaveDeliveryType DEF AssignCommit, TypeOK
<1>5. person' \in [Drivers -> PersonRow]
  BY DEF AssignCommit, TypeOK, PersonRow
<1>6. TypeOK'
  BY <1>4, <1>5, LeaveType DEF AssignCommit, TypeOK
<1>7. QED
  BY <1>6, LeaveKnown DEF AssignCommit, Kept

LEMMA MoveCommitType ==
  ASSUME TypeInv, NEW r \in Requests, MoveCommit(r) \/ ProblemCommit(r)
  PROVE  TypeInv'
<1> DEFINE q == work[r]
<1> USE DEF TypeInv
<1>1. /\ q.o \in Orders /\ q.row \in DeliveryRow /\ q.to \in DeliveryStatus
      /\ q.d \in Drivers \cup {Nobody} /\ q.owed \subseteq Earnings
  BY Running DEF MoveCommit, ProblemCommit
<1>2. dlv' \in [Orders -> DeliveryRow]
  BY <1>1, MovedType, Values DEF MoveCommit, ProblemCommit
<1>3. ord' \in [Orders -> OrderStage]
  <2>1. CASE MoveCommit(r)
    BY <1>1, <2>1, OrderAlongType DEF MoveCommit
  <2>2. CASE ProblemCommit(r)
    BY <2>2 DEF ProblemCommit, TypeOK
  <2>3. QED
    BY <2>1, <2>2
<1>4. person' \in [Drivers -> PersonRow]
  <2>1. person' = person \/ person' = Freed(q.d, q.seen)
    BY DEF MoveCommit, ProblemCommit
  <2>2. Freed(q.d, q.seen) \in [Drivers -> PersonRow]
    BY <1>1, FreedType
  <2>3. person \in [Drivers -> PersonRow]
    BY DEF TypeOK
  <2>4. QED
    BY <2>1, <2>2, <2>3
<1>5. cash' \in [Orders -> Cash]
  BY DEF MoveCommit, ProblemCommit, TypeOK, Cash
<1>6. \A e \in q.owed : earning[e] \in EarningRow
  BY DEF MoveCommit, ProblemCommit, Known
<1>7. \A e \in q.owed : [earning[e] EXCEPT !.status = "cancelled"] \in EarningRow
  BY <1>6 DEF EarningRow
<1>8. earning' \in [Earnings -> EarningRow \cup {NoEarning}] /\ Kept
  BY <1>1, <1>7 DEF MoveCommit, ProblemCommit, OwedCancelled, TypeOK, Kept
<1>9. TypeOK'
  BY <1>2, <1>3, <1>4, <1>5, <1>8, LeaveType DEF MoveCommit, ProblemCommit, TypeOK
<1>10. QED
  BY <1>8, <1>9, LeaveKnown DEF MoveCommit, ProblemCommit

LEMMA DeliverCommitType ==
  ASSUME TypeInv, NEW r \in Requests, DeliverCommit(r)
  PROVE  TypeInv'
<1> DEFINE q    == work[r]
           next == [q EXCEPT !.op = "complete", !.row = dlv'[q.o], !.seen = "expired"]
<1> USE DEF TypeInv
<1>1. q.o \in Orders /\ q.row \in DeliveryRow /\ q \in Work /\ Runs(r, "deliver")
  BY Running DEF DeliverCommit
<1>2. dlv' \in [Orders -> DeliveryRow]
  BY <1>1, MovedType, Values DEF DeliverCommit
<1>3. next \in Work /\ next.op = "complete"
  BY <1>1, <1>2 DEF Work, Runs
<1>4. work' \in [Requests -> Work \cup {Idle}]
  BY <1>3, EnterType DEF DeliverCommit
<1>5. ord' \in [Orders -> OrderStage]
  BY <1>1, OrderAlongType DEF DeliverCommit
<1>6. TypeOK'
  BY <1>2, <1>4, <1>5 DEF DeliverCommit, TypeOK
<1>7. Kept /\ Enter(r, next)
  BY DEF DeliverCommit, Kept
<1>8. QED
  BY <1>3, <1>6, <1>7, EnterKnown

LEMMA EnsureKeeps ==
  ASSUME TypeOK, NEW o \in Orders, NEW driver, EnsureEarning(o, driver)
  PROVE  Kept
<1>1. [order |-> o, status |-> "pending"] \in EarningRow
  BY DEF EarningRow
<1>2. QED
  BY <1>1 DEF EnsureEarning, TypeOK, Kept

LEMMA CompleteCommitType ==
  ASSUME TypeInv, NEW r \in Requests, CompleteCommit(r)
  PROVE  TypeInv'
<1> DEFINE q == work[r]
<1> USE DEF TypeInv
<1>1. q.o \in Orders /\ q.row \in DeliveryRow
  BY Running DEF CompleteCommit
<1>2. dlv' \in [Orders -> DeliveryRow]
  BY <1>1, MovedType, Values DEF CompleteCommit
<1>3. person' \in [Drivers -> PersonRow]
  BY <1>1, FreedType DEF CompleteCommit, DeliveryRow
<1>4. earning' \in [Earnings -> EarningRow \cup {NoEarning}] /\ Kept
  BY <1>1, EnsureType, EnsureKeeps DEF CompleteCommit
<1>5. TypeOK'
  BY <1>2, <1>3, <1>4, LeaveType DEF CompleteCommit, TypeOK
<1>6. QED
  BY <1>4, <1>5, LeaveKnown DEF CompleteCommit

LEMMA AdminCompleteType ==
  ASSUME TypeInv, NEW o \in Orders, AdminComplete(o)
  PROVE  TypeInv'
<1> USE DEF TypeInv
<1>1. dlv' \in [Orders -> DeliveryRow]
  BY Values DEF AdminComplete, TypeOK, DeliveryRow
<1>2. person' \in [Drivers -> PersonRow]
  BY DriverType, FreedType DEF AdminComplete, TypeOK
<1>3. earning' \in [Earnings -> EarningRow \cup {NoEarning}] /\ Kept
  BY EnsureType, EnsureKeeps DEF AdminComplete
<1>4. TypeOK'
  BY <1>1, <1>2, <1>3 DEF AdminComplete, TypeOK
<1>5. QED
  BY <1>3, <1>4, StayKnown DEF AdminComplete

LEMMA PayoutType ==
  ASSUME TypeInv, NEW r \in Requests,
         PayCommit(r) \/ \E e \in Earnings : PayRead(r, e)
  PROVE  TypeInv'
<1> USE DEF TypeInv
<1>1. ASSUME NEW e \in Earnings, PayRead(r, e) PROVE TypeInv'
  <2> DEFINE q == [op |-> "pay", e |-> e]
  <2>1. q \in Work
    BY DEF Work
  <2>2. TypeOK'
    BY <1>1, <2>1, EnterType DEF PayRead, TypeOK
  <2>3. earning'[q.e] \in EarningRow /\ Kept
    BY <1>1, PendingIsRow DEF PayRead, Kept
  <2>4. QED
    BY <1>1, <2>2, <2>3, EnterKnown DEF PayRead
<1>2. ASSUME PayCommit(r) PROVE TypeInv'
  <2>1. work[r].e \in Earnings /\ earning[work[r].e] \in EarningRow
    BY <1>2, Running DEF PayCommit, Known
  <2>2. earning' \in [Earnings -> EarningRow \cup {NoEarning}] /\ Kept
    BY <1>2, <2>1 DEF PayCommit, TypeOK, EarningRow, Kept
  <2>3. TypeOK'
    BY <1>2, <2>2, LeaveType DEF PayCommit, TypeOK
  <2>4. QED
    BY <1>2, <2>2, <2>3, LeaveKnown DEF PayCommit
<1>3. QED
  BY <1>1, <1>2

LEMMA DeactivateType ==
  ASSUME TypeInv, NEW r \in Requests,
         DeactivateCommit(r) \/ \E d \in Drivers : DeactivateRead(r, d)
  PROVE  TypeInv'
<1> USE DEF TypeInv
<1>1. Kept
  BY DEF DeactivateCommit, DeactivateRead, Kept
<1>2. ASSUME NEW d \in Drivers, DeactivateRead(r, d) PROVE TypeInv'
  <2> DEFINE q == [op |-> "deactivate", d |-> d, seen |-> person[d].status]
  <2>1. q \in Work
    BY DEF Work, TypeOK, PersonRow
  <2>2. TypeOK'
    BY <1>2, <2>1, EnterType DEF DeactivateRead, TypeOK
  <2>3. QED
    BY <1>1, <1>2, <2>2, EnterKnown DEF DeactivateRead
<1>3. ASSUME DeactivateCommit(r) PROVE TypeInv'
  <2>1. work[r].d \in Drivers /\ person[work[r].d] \in PersonRow
    BY <1>3, Running DEF DeactivateCommit, TypeOK
  <2>2. person' \in [Drivers -> PersonRow]
    BY <1>3, <2>1 DEF DeactivateCommit, TypeOK, PersonRow, Col
  <2>3. TypeOK'
    BY <1>3, <2>2, LeaveType DEF DeactivateCommit, TypeOK
  <2>4. QED
    BY <1>1, <1>3, <2>3, LeaveKnown DEF DeactivateCommit
<1>4. QED
  BY <1>2, <1>3

\* The one-step commands of couriers and dispatchers.
LEMMA CommandsType ==
  ASSUME TypeInv,
         \/ \E o \in Orders : ConfirmPayment(o)
         \/ \E o \in Orders, d \in Drivers : KdsAssign(o, d)
         \/ \E d \in Drivers, status \in {"available", "offline"} : SetPersonStatus(d, status)
         \/ \E d \in Drivers, active \in BOOLEAN : SetPersonAccess(d, active)
  PROVE  TypeInv'
<1> USE DEF TypeInv
<1>1. UNCHANGED work /\ Kept
  BY DEF ConfirmPayment, KdsAssign, SetPersonStatus, SetPersonAccess, Kept
<1>2. ASSUME NEW o \in Orders, ConfirmPayment(o) PROVE TypeOK'
  BY <1>2 DEF ConfirmPayment, TypeOK, Cash
<1>3. ASSUME NEW o \in Orders, NEW d \in Drivers, KdsAssign(o, d) PROVE TypeOK'
  <2>1. [status |-> "assigned", driver |-> d] \in DeliveryRow
    BY Values DEF DeliveryRow
  <2>2. person' \in [Drivers -> PersonRow]
    BY <1>3 DEF KdsAssign, TypeOK, PersonRow
  <2>3. QED
    BY <1>3, <2>1, <2>2 DEF KdsAssign, TypeOK
<1>4. ASSUME NEW d \in Drivers, NEW status \in {"available", "offline"},
             SetPersonStatus(d, status)
      PROVE TypeOK'
  BY <1>4 DEF SetPersonStatus, TypeOK, PersonRow
<1>5. ASSUME NEW d \in Drivers, NEW active \in BOOLEAN, SetPersonAccess(d, active)
      PROVE TypeOK'
  <2>1. person[d] \in PersonRow
    BY DEF TypeOK
  <2>2. [person[d] EXCEPT !.active = active,
                          !.status = IF active THEN @ ELSE "offline"] \in PersonRow
    BY <2>1 DEF PersonRow
  <2>3. person' \in [Drivers -> PersonRow]
    BY <1>5, <2>1, <2>2 DEF SetPersonAccess, TypeOK, PersonRow
  <2>4. QED
    BY <1>5, <2>3 DEF SetPersonAccess, TypeOK
<1>6. QED
  BY <1>1, <1>2, <1>3, <1>4, <1>5, StayKnown

LEMMA EnvironmentType ==
  ASSUME TypeInv, NEW o \in Orders, Environment(o)
  PROVE  TypeInv'
<1> USE DEF TypeInv
<1>1. UNCHANGED <<work, earning>>
  BY DEF Environment, KitchenReady, OrderMoves, Archive, PaymentMoves, ReturnToKitchen
<1>2. ASSUME ReturnToKitchen(o) PROVE TypeOK'
  <2>1. dlv' \in [Orders -> DeliveryRow]
    BY <1>2, Values DEF ReturnToKitchen, TypeOK, DeliveryRow
  <2>2. person' \in [Drivers -> PersonRow]
    BY <1>2, DriverType, FreedType DEF ReturnToKitchen, TypeOK
  <2>3. QED
    BY <1>2, <2>1, <2>2 DEF ReturnToKitchen, TypeOK, OrderStage
<1>3. ASSUME KitchenReady(o) \/ Archive(o) PROVE TypeOK'
  BY <1>3 DEF KitchenReady, Archive, TypeOK
<1>4. ASSUME NEW to \in OrderStage, OrderMoves(o, to) PROVE TypeOK'
  BY <1>4 DEF OrderMoves, TypeOK
<1>5. ASSUME NEW to \in {"approved", "failed"}, PaymentMoves(o, to) PROVE TypeOK'
  BY <1>5 DEF PaymentMoves, TypeOK, Cash
<1>6. TypeOK'
  BY <1>2, <1>3, <1>4, <1>5 DEF Environment
<1>7. Kept
  BY <1>1 DEF Kept
<1>8. QED
  BY <1>1, <1>6, <1>7, StayKnown

LEMMA CommitsType ==
  ASSUME TypeInv, NEW r \in Requests, Commits(r)
  PROVE  TypeInv'
<1>1. ASSUME Abort(r) PROVE TypeInv'
  <2>1. TypeOK'
    BY <1>1, LeaveType DEF Abort, TypeOK, TypeInv
  <2>2. Kept
    BY <1>1 DEF Abort, Kept
  <2>3. QED
    BY <1>1, <2>1, <2>2, LeaveKnown DEF Abort, TypeInv
<1>2. QED
  BY <1>1, AssignCommitType, MoveCommitType, DeliverCommitType, CompleteCommitType, PayoutType,
     DeactivateType DEF Commits

\* Rows and requests in flight keep their types, and what a payout or a failure
\* report is about to write is there, whatever overlaps.
THEOREM DeliveryTypes == Spec => []TypeInv
<1>1. Init => TypeInv
  <2> SUFFICES ASSUME Init PROVE TypeInv
    OBVIOUS
  <2>1. TypeOK
    BY DEF Init, TypeOK, OrderStage, Cash, DeliveryRow, PersonRow, Missing
  <2>2. \A r \in Requests : Known(r)
    BY DEF Init, Known, Runs, Idle
  <2>3. QED
    BY <2>1, <2>2 DEF TypeInv
<1>2. TypeInv /\ [Next]_vars => TypeInv'
  <2> SUFFICES ASSUME TypeInv, [Next]_vars PROVE TypeInv'
    OBVIOUS
  <2>1. ASSUME UNCHANGED vars PROVE TypeInv'
    BY <2>1 DEF vars, TypeInv, TypeOK, Known, Runs
  <2>2. ASSUME NEW r \in Requests,
               \/ Commits(r)
               \/ \E o \in Orders : StartRead(r, o) \/ ProblemRead(r, o) \/ CompleteRead(r, o)
               \/ \E o \in Orders, d \in Drivers : AssignRead(r, o, d)
               \/ \E o \in Orders, to \in StatusTargets : UpdateRead(r, o, to)
               \/ \E e \in Earnings : PayRead(r, e)
               \/ \E d \in Drivers : DeactivateRead(r, d)
        PROVE TypeInv'
    BY <2>2, CommitsType, ReadsType, PayoutType, DeactivateType
  <2>3. QED
    BY <2>1, <2>2, EnvironmentType, CommandsType, AdminCompleteType DEF Next
<1>3. QED
  BY <1>1, <1>2, PTL DEF Spec

\* The type invariant the runs check.
THEOREM TypesKept == Spec => []TypeOK
<1>1. TypeInv => TypeOK
  BY DEF TypeInv
<1>2. QED
  BY <1>1, DeliveryTypes, PTL

-----------------------------------------------------------------------------
(* One earning per delivery.                                               *)

\* A payout holds an earning that is due or paid, and nobody is about to cancel
\* one.
Settling(r) ==
  /\ Runs(r, "pay") => earning[work[r].e].status \in {"pending", "paid"}
  /\ ~Runs(r, "problem")
  /\ Runs(r, "move") => work[r].to \notin {"failed", "cancelled"}

AtMostOne == \A o \in Orders : \A e, f \in Earned(o) : e = f

OnePayout == AtMostOne /\ \A r \in Requests : Settling(r)

\* What was due or paid stays so.
StillOwed ==
  \A e \in Earnings :
    earning[e].status \in {"pending", "paid"} => earning'[e].status \in {"pending", "paid"}

LEMMA EnterSettling ==
  ASSUME TypeInv, OnePayout, StillOwed, NEW r \in Requests, NEW q, Enter(r, q),
         q.op # "problem",
         q.op = "pay" => earning'[q.e].status \in {"pending", "paid"},
         q.op = "move" => q.to \notin {"failed", "cancelled"}
  PROVE  \A s \in Requests : Settling(s)'
<1> SUFFICES ASSUME NEW s \in Requests PROVE Settling(s)'
  OBVIOUS
<1>1. CASE s = r
  BY <1>1 DEF Enter, Settling, Runs, TypeInv, TypeOK
<1>2. CASE s # r
  <2>1. work'[s] = work[s]
    BY <1>2 DEF Enter, TypeInv, TypeOK
  <2>2. Runs(s, "pay") => work[s].e \in Earnings
    BY Running DEF TypeInv
  <2>3. QED
    BY <2>1, <2>2 DEF Settling, StillOwed, Runs, OnePayout
<1>3. QED
  BY <1>1, <1>2

LEMMA StaySettling ==
  ASSUME TypeInv, OnePayout, StillOwed, UNCHANGED work
  PROVE  \A s \in Requests : Settling(s)'
<1> SUFFICES ASSUME NEW s \in Requests PROVE Settling(s)'
  OBVIOUS
<1>1. Runs(s, "pay") => work[s].e \in Earnings
  BY Running DEF TypeInv
<1>2. QED
  BY <1>1 DEF Settling, StillOwed, Runs, OnePayout

LEMMA LeaveSettling ==
  ASSUME TypeInv, OnePayout, StillOwed, NEW r \in Requests, Leave(r)
  PROVE  \A s \in Requests : Settling(s)'
<1>1. Enter(r, Idle) /\ Idle.op = "idle"
  BY DEF Leave, Enter, Idle
<1>2. QED
  BY <1>1, EnterSettling

\* A new earning is written only where none was found.
LEMMA EnsureOnce ==
  ASSUME TypeInv, AtMostOne, NEW o \in Orders, NEW driver, EnsureEarning(o, driver)
  PROVE  AtMostOne' /\ StillOwed
<1>1. CASE UNCHANGED earning
  BY <1>1 DEF AtMostOne, Earned, StillOwed
<1>2. CASE ~UNCHANGED earning
  <2>1. PICK n \in Earnings :
          /\ earning[n] = NoEarning
          /\ earning' = [earning EXCEPT ![n] = [order |-> o, status |-> "pending"]]
    BY <1>2 DEF EnsureEarning
  <2>2. Earned(o) = {}
    BY <1>2 DEF EnsureEarning
  <2>3. earning \in [Earnings -> EarningRow \cup {NoEarning}]
    BY DEF TypeInv, TypeOK
  <2>4. \A p \in Orders \ {o} : Earned(p)' \subseteq Earned(p)
    BY <2>1, <2>3 DEF Earned
  <2>5. Earned(o)' \subseteq {n}
    BY <2>1, <2>2, <2>3 DEF Earned
  <2>6. AtMostOne'
    BY <2>4, <2>5 DEF AtMostOne
  <2>7. StillOwed
    BY <2>1, <2>3 DEF StillOwed, NoEarning, Missing
  <2>8. QED
    BY <2>6, <2>7
<1>3. QED
  BY <1>1, <1>2

\* A step that leaves the earnings alone.
LEMMA SameEarnings ==
  ASSUME OnePayout, UNCHANGED earning
  PROVE  AtMostOne' /\ StillOwed
BY DEF OnePayout, AtMostOne, Earned, StillOwed

LEMMA ReadsOnce ==
  ASSUME NoFailures, TypeInv, OnePayout, NEW r \in Requests,
         \/ \E o \in Orders : StartRead(r, o) \/ ProblemRead(r, o) \/ CompleteRead(r, o)
         \/ \E o \in Orders, d \in Drivers : AssignRead(r, o, d)
         \/ \E o \in Orders, to \in StatusTargets : UpdateRead(r, o, to)
         \/ \E e \in Earnings : PayRead(r, e)
         \/ \E d \in Drivers : DeactivateRead(r, d)
  PROVE  OnePayout'
<1>1. AtMostOne' /\ StillOwed
  BY SameEarnings DEF StartRead, ProblemRead, CompleteRead, AssignRead, UpdateRead, PayRead,
                      DeactivateRead
<1> DEFINE Fine(q) ==
      /\ Enter(r, q)
      /\ q.op # "problem"
      /\ q.op = "pay" => earning'[q.e].status \in {"pending", "paid"}
      /\ q.op = "move" => q.to \notin {"failed", "cancelled"}
<1>2. \A o \in Orders : ~ProblemRead(r, o)
  BY DEF ProblemRead, Offers, NoFailures
<1>3. ASSUME NEW o \in Orders, StartRead(r, o) PROVE \E q : Fine(q)
  <2>1. Fine(Snapshot("move", o, dlv[o].driver, "on_the_way"))
    BY <1>3 DEF StartRead, Snapshot
  <2>2. QED
    BY <2>1
<1>4. ASSUME NEW o \in Orders, CompleteRead(r, o) PROVE \E q : Fine(q)
  <2>1. PICK op \in {"deliver", "complete"} : Enter(r, Snapshot(op, o, dlv[o].driver, "completed"))
    BY <1>4 DEF CompleteRead
  <2>2. Fine(Snapshot(op, o, dlv[o].driver, "completed"))
    BY <2>1 DEF Snapshot
  <2>3. QED
    BY <2>2
<1>5. ASSUME NEW o \in Orders, NEW d \in Drivers, AssignRead(r, o, d) PROVE \E q : Fine(q)
  <2>1. Fine(Snapshot("assign", o, d, "assigned"))
    BY <1>5 DEF AssignRead, Snapshot
  <2>2. QED
    BY <2>1
<1>6. ASSUME NEW o \in Orders, NEW to \in StatusTargets, UpdateRead(r, o, to)
      PROVE \E q : Fine(q)
  <2>1. Fine(Snapshot("move", o, dlv[o].driver, to))
    BY <1>6 DEF UpdateRead, Snapshot, NoFailures
  <2>2. QED
    BY <2>1
<1>7. ASSUME NEW e \in Earnings, PayRead(r, e) PROVE \E q : Fine(q)
  <2>1. Fine([op |-> "pay", e |-> e])
    BY <1>7 DEF PayRead
  <2>2. QED
    BY <2>1
<1>8. ASSUME NEW d \in Drivers, DeactivateRead(r, d) PROVE \E q : Fine(q)
  <2>1. Fine([op |-> "deactivate", d |-> d, seen |-> person[d].status])
    BY <1>8 DEF DeactivateRead
  <2>2. QED
    BY <2>1
<1>9. PICK q : Fine(q)
  BY <1>2, <1>3, <1>4, <1>5, <1>6, <1>7, <1>8
<1>10. QED
  BY <1>1, <1>9, EnterSettling DEF OnePayout

LEMMA CommitsOnce ==
  ASSUME TypeInv, OnePayout, NEW r \in Requests, Commits(r)
  PROVE  OnePayout'
<1>1. ASSUME AssignCommit(r) \/ DeactivateCommit(r) \/ Abort(r) PROVE OnePayout'
  <2>1. UNCHANGED earning /\ Leave(r)
    BY <1>1 DEF AssignCommit, DeactivateCommit, Abort
  <2>2. QED
    BY <2>1, SameEarnings, LeaveSettling DEF OnePayout
<1>2. ASSUME MoveCommit(r) \/ ProblemCommit(r) PROVE OnePayout'
  <2>1. UNCHANGED earning
    BY <1>2 DEF MoveCommit, ProblemCommit, OnePayout, Settling
  <2>2. QED
    BY <1>2, <2>1, SameEarnings, LeaveSettling DEF MoveCommit, ProblemCommit, OnePayout
<1>3. ASSUME DeliverCommit(r) PROVE OnePayout'
  <2> DEFINE q == [work[r] EXCEPT !.op = "complete", !.row = dlv'[work[r].o], !.seen = "expired"]
  <2>1. work[r] \in Work /\ Runs(r, "deliver")
    BY <1>3, Running DEF DeliverCommit, TypeInv
  <2>2. q.op = "complete"
    BY <2>1 DEF Work, Runs
  <2>3. QED
    BY <1>3, <2>2, SameEarnings, EnterSettling DEF DeliverCommit, OnePayout
<1>4. ASSUME CompleteCommit(r) PROVE OnePayout'
  <2>1. work[r].o \in Orders
    BY <1>4, Running DEF CompleteCommit, TypeInv
  <2>2. QED
    BY <1>4, <2>1, EnsureOnce, LeaveSettling DEF CompleteCommit, OnePayout
<1>5. ASSUME PayCommit(r) PROVE OnePayout'
  <2> DEFINE p == work[r].e
  <2>1. p \in Earnings /\ earning[p].status \in {"pending", "paid"} /\ earning[p] \in EarningRow
    BY <1>5, Running DEF PayCommit, OnePayout, Settling, TypeInv, Known
  <2>2. earning' = [earning EXCEPT ![p].status = "paid"]
    BY <1>5 DEF PayCommit
  <2>3. \A e \in Earnings : e # p => earning'[e] = earning[e]
    BY <2>2 DEF TypeInv, TypeOK
  <2>4. earning'[p].order = earning[p].order /\ earning'[p].status = "paid"
    BY <2>1, <2>2 DEF TypeInv, TypeOK, EarningRow
  <2>5. \A o \in Orders : Earned(o)' \subseteq Earned(o)
    BY <2>1, <2>3, <2>4 DEF Earned, EarningRow, NoEarning, Missing
  <2>6. AtMostOne' /\ StillOwed
    BY <2>1, <2>3, <2>4, <2>5 DEF OnePayout, AtMostOne, StillOwed
  <2>7. QED
    BY <1>5, <2>6, LeaveSettling DEF PayCommit, OnePayout
<1>6. QED
  BY <1>1, <1>2, <1>3, <1>4, <1>5 DEF Commits

LEMMA OthersOnce ==
  ASSUME TypeInv, OnePayout,
         \/ \E o \in Orders : Environment(o) \/ ConfirmPayment(o) \/ AdminComplete(o)
         \/ \E o \in Orders, d \in Drivers : KdsAssign(o, d)
         \/ \E d \in Drivers, status \in {"available", "offline"} : SetPersonStatus(d, status)
         \/ \E d \in Drivers, active \in BOOLEAN : SetPersonAccess(d, active)
  PROVE  OnePayout'
<1>1. ASSUME NEW o \in Orders, AdminComplete(o) PROVE OnePayout'
  BY <1>1, EnsureOnce, StaySettling DEF AdminComplete, OnePayout
<1>2. ASSUME UNCHANGED <<earning, work>> PROVE OnePayout'
  BY <1>2, SameEarnings, StaySettling DEF OnePayout
<1>3. \A o \in Orders : Environment(o) \/ ConfirmPayment(o) => UNCHANGED <<earning, work>>
  BY DEF Environment, KitchenReady, OrderMoves, Archive, PaymentMoves, ReturnToKitchen,
         ConfirmPayment
<1>4. QED
  BY <1>1, <1>2, <1>3 DEF KdsAssign, SetPersonStatus, SetPersonAccess

LEMMA AtMostOneCounts == TypeInv /\ AtMostOne => EarnedOnce
<1> SUFFICES ASSUME TypeInv, AtMostOne, NEW o \in Orders PROVE Cardinality(Earned(o)) <= 1
  BY DEF EarnedOnce
<1>1. CASE Earned(o) = {}
  BY <1>1, FS_EmptySet
<1>2. CASE Earned(o) # {}
  <2>1. PICK e \in Earned(o) : TRUE
    BY <1>2
  <2>2. Earned(o) = {e}
    BY <2>1 DEF AtMostOne
  <2>3. Cardinality({e}) = 1
    BY FS_Singleton
  <2>4. QED
    BY <2>2, <2>3
<1>3. QED
  BY <1>1, <1>2

\* As long as nobody reports a delivery that was made as failed: however many
\* couriers, admins and payouts overlap, and however often a completion is sent
\* again, a delivery has at most one earning that is due or paid.
THEOREM CourierPaidOnce ==
  ASSUME NoFailures
  PROVE  Spec => []EarnedOnce
<1>1. Init => OnePayout
  BY DEF Init, OnePayout, AtMostOne, Earned, Settling, Runs, Idle
<1>2. TypeInv /\ OnePayout /\ [Next]_vars => OnePayout'
  <2> SUFFICES ASSUME TypeInv, OnePayout, [Next]_vars PROVE OnePayout'
    OBVIOUS
  <2>1. ASSUME UNCHANGED vars PROVE OnePayout'
    BY <2>1, SameEarnings, StaySettling DEF vars, OnePayout
  <2>2. QED
    BY <2>1, ReadsOnce, CommitsOnce, OthersOnce DEF Next
<1>3. TypeInv /\ OnePayout => EarnedOnce
  BY AtMostOneCounts DEF OnePayout
<1>4. QED
  BY <1>1, <1>2, <1>3, DeliveryTypes, PTL DEF Spec

-----------------------------------------------------------------------------
(* Money at the door.                                                      *)

\* What was handed over, and what a courier earned, has been paid for.
Collected ==
  /\ \A o \in Orders : dlv[o].status \in {"delivered", "completed"} => PaidFor(o)
  /\ \A e \in Earnings : earning[e] # NoEarning => PaidFor(earning[e].order)

\* A running request hands over only what has been paid for.
Sure(r) ==
  /\ ~Runs(r, "problem")
  /\ Runs(r, "deliver") \/ Runs(r, "complete") => PaidFor(work[r].o)
  /\ Runs(r, "move") => /\ work[r].to # "delivered"
                        /\ work[r].to = "completed" => PaidFor(work[r].o)

DoorInv == Collected /\ \A r \in Requests : Sure(r)

\* Money once taken is not given back.
StillPaid == \A o \in Orders : PaidFor(o) => PaidFor(o)'

LEMMA EnterSure ==
  ASSUME TypeInv, DoorInv, StillPaid, NEW r \in Requests, NEW q, Enter(r, q),
         q.op # "problem",
         q.op \in {"deliver", "complete"} => cash'[q.o] \in {"none", "approved"},
         q.op = "move" => /\ q.to # "delivered"
                          /\ q.to = "completed" => cash'[q.o] \in {"none", "approved"}
  PROVE  \A s \in Requests : Sure(s)'
<1> SUFFICES ASSUME NEW s \in Requests PROVE Sure(s)'
  OBVIOUS
<1>1. CASE s = r
  BY <1>1 DEF Enter, Sure, Runs, PaidFor, TypeInv, TypeOK
<1>2. CASE s # r
  <2>1. work'[s] = work[s]
    BY <1>2 DEF Enter, TypeInv, TypeOK
  <2>2. Runs(s, "deliver") \/ Runs(s, "complete") \/ Runs(s, "move") => work[s].o \in Orders
    BY Running DEF TypeInv
  <2>3. QED
    BY <2>1, <2>2 DEF Sure, StillPaid, Runs, PaidFor, DoorInv
<1>3. QED
  BY <1>1, <1>2

LEMMA StaySure ==
  ASSUME TypeInv, DoorInv, StillPaid, UNCHANGED work
  PROVE  \A s \in Requests : Sure(s)'
<1> SUFFICES ASSUME NEW s \in Requests PROVE Sure(s)'
  OBVIOUS
<1>1. Runs(s, "deliver") \/ Runs(s, "complete") \/ Runs(s, "move") => work[s].o \in Orders
  BY Running DEF TypeInv
<1>2. QED
  BY <1>1 DEF Sure, StillPaid, Runs, PaidFor, DoorInv

LEMMA LeaveSure ==
  ASSUME TypeInv, DoorInv, StillPaid, NEW r \in Requests, Leave(r)
  PROVE  \A s \in Requests : Sure(s)'
<1>1. Enter(r, Idle) /\ Idle.op = "idle"
  BY DEF Leave, Enter, Idle
<1>2. QED
  BY <1>1, EnterSure

LEMMA SameCash == ASSUME UNCHANGED cash PROVE StillPaid
BY DEF StillPaid, PaidFor

\* Deliveries written on paid orders only, and earnings that keep theirs, keep
\* everything collected.
LEMMA CollectedStays ==
  ASSUME TypeInv, Collected, StillPaid,
         \A o \in Orders : dlv'[o].status \in {"delivered", "completed"} =>
           dlv[o].status \in {"delivered", "completed"} \/ PaidFor(o),
         \A e \in Earnings : earning'[e] # NoEarning =>
           \/ earning[e] # NoEarning /\ earning'[e].order = earning[e].order
           \/ earning'[e].order \in Orders /\ PaidFor(earning'[e].order)
  PROVE  Collected'
<1>1. \A e \in Earnings : earning[e] # NoEarning => earning[e].order \in Orders
  BY DEF TypeInv, TypeOK, EarningRow
<1>2. QED
  BY <1>1 DEF Collected, StillPaid, PaidFor

LEMMA EnsurePaid ==
  ASSUME TypeInv, NEW o \in Orders, NEW driver, EnsureEarning(o, driver), PaidFor(o)
  PROVE  \A e \in Earnings : earning'[e] # NoEarning =>
           \/ earning[e] # NoEarning /\ earning'[e].order = earning[e].order
           \/ earning'[e].order \in Orders /\ PaidFor(earning'[e].order)
<1>1. CASE UNCHANGED earning
  BY <1>1
<1>2. CASE ~UNCHANGED earning
  <2>1. PICK n \in Earnings :
          earning' = [earning EXCEPT ![n] = [order |-> o, status |-> "pending"]]
    BY <1>2 DEF EnsureEarning
  <2>2. earning'[n].order = o /\ \A e \in Earnings \ {n} : earning'[e] = earning[e]
    BY <2>1 DEF TypeInv, TypeOK
  <2>3. PaidFor(earning'[n].order)
    BY <2>2
  <2>4. QED
    BY <2>2, <2>3
<1>3. QED
  BY <1>1, <1>2

LEMMA ReadsPaid ==
  ASSUME ByTheCourier, TypeInv, DoorInv, NEW r \in Requests,
         \/ \E o \in Orders : StartRead(r, o) \/ ProblemRead(r, o) \/ CompleteRead(r, o)
         \/ \E o \in Orders, d \in Drivers : AssignRead(r, o, d)
         \/ \E o \in Orders, to \in StatusTargets : UpdateRead(r, o, to)
         \/ \E e \in Earnings : PayRead(r, e)
         \/ \E d \in Drivers : DeactivateRead(r, d)
  PROVE  DoorInv'
<1>1. UNCHANGED <<cash, dlv, earning>>
  BY DEF StartRead, ProblemRead, CompleteRead, AssignRead, UpdateRead, PayRead, DeactivateRead
<1>2. Collected' /\ StillPaid
  BY <1>1, SameCash DEF DoorInv, Collected, PaidFor
<1> DEFINE Fine(q) ==
      /\ Enter(r, q)
      /\ q.op # "problem"
      /\ q.op \in {"deliver", "complete"} => cash'[q.o] \in {"none", "approved"}
      /\ q.op = "move" => /\ q.to # "delivered"
                          /\ q.to = "completed" => cash'[q.o] \in {"none", "approved"}
<1>3. \A o \in Orders : ~ProblemRead(r, o)
  BY DEF ProblemRead, Offers, ByTheCourier
<1>4. ASSUME NEW o \in Orders, StartRead(r, o) PROVE \E q : Fine(q)
  <2>1. Fine(Snapshot("move", o, dlv[o].driver, "on_the_way"))
    BY <1>4 DEF StartRead, Snapshot
  <2>2. QED
    BY <2>1
<1>5. ASSUME NEW o \in Orders, CompleteRead(r, o) PROVE \E q : Fine(q)
  <2>1. PICK op \in {"deliver", "complete"} : Enter(r, Snapshot(op, o, dlv[o].driver, "completed"))
    BY <1>5 DEF CompleteRead
  <2>2. Fine(Snapshot(op, o, dlv[o].driver, "completed"))
    BY <1>1, <1>5, <2>1 DEF CompleteRead, PaidFor, Snapshot
  <2>3. QED
    BY <2>2
<1>6. ASSUME NEW o \in Orders, NEW d \in Drivers, AssignRead(r, o, d) PROVE \E q : Fine(q)
  <2>1. Fine(Snapshot("assign", o, d, "assigned"))
    BY <1>6 DEF AssignRead, Snapshot
  <2>2. QED
    BY <2>1
<1>7. ASSUME NEW o \in Orders, NEW to \in StatusTargets, UpdateRead(r, o, to)
      PROVE \E q : Fine(q)
  <2>1. to = "completed" => dlv[o].status = "delivered"
    BY <1>7 DEF UpdateRead, DeliveryMay, CanTransition, DeliveryTransitions
  <2>2. to = "completed" => cash'[o] \in {"none", "approved"}
    BY <1>1, <2>1 DEF DoorInv, Collected, PaidFor
  <2>3. Fine(Snapshot("move", o, dlv[o].driver, to))
    BY <1>7, <2>2 DEF UpdateRead, Snapshot, ByTheCourier
  <2>4. QED
    BY <2>3
<1>8. ASSUME NEW e \in Earnings, PayRead(r, e) PROVE \E q : Fine(q)
  <2>1. Fine([op |-> "pay", e |-> e])
    BY <1>8 DEF PayRead
  <2>2. QED
    BY <2>1
<1>9. ASSUME NEW d \in Drivers, DeactivateRead(r, d) PROVE \E q : Fine(q)
  <2>1. Fine([op |-> "deactivate", d |-> d, seen |-> person[d].status])
    BY <1>9 DEF DeactivateRead
  <2>2. QED
    BY <2>1
<1>10. PICK q : Fine(q)
  BY <1>3, <1>4, <1>5, <1>6, <1>7, <1>8, <1>9
<1>11. QED
  BY <1>2, <1>10, EnterSure DEF DoorInv

\* A row that is moved has its old status or the new one.
LEMMA MovedStatus ==
  ASSUME TypeInv, NEW q, NEW to, Moved(q, to), NEW o \in Orders
  PROVE  \/ dlv'[o].status = dlv[o].status
         \/ o = q.o /\ dlv'[o].status = to
BY DEF Moved, SaveDelivery, Col, TypeInv, TypeOK

LEMMA CommitsPaid ==
  ASSUME TypeInv, DoorInv, NEW r \in Requests, Commits(r)
  PROVE  DoorInv'
<1> DEFINE Shown == \A o \in Orders : dlv'[o].status \in {"delivered", "completed"} =>
                      dlv[o].status \in {"delivered", "completed"} \/ PaidFor(o)
           Gained == \A e \in Earnings : earning'[e] # NoEarning =>
                      \/ earning[e] # NoEarning /\ earning'[e].order = earning[e].order
                      \/ earning'[e].order \in Orders /\ PaidFor(earning'[e].order)
<1>1. ASSUME DeactivateCommit(r) \/ Abort(r) PROVE DoorInv'
  <2>1. UNCHANGED <<dlv, earning, cash>> /\ Leave(r)
    BY <1>1 DEF DeactivateCommit, Abort
  <2>2. QED
    BY <2>1, SameCash, LeaveSure DEF DoorInv, Collected, PaidFor
<1>2. ASSUME AssignCommit(r) PROVE DoorInv'
  <2>1. UNCHANGED <<earning, cash>> /\ Leave(r)
    BY <1>2 DEF AssignCommit
  <2>2. Shown
    BY <1>2 DEF AssignCommit, SaveDelivery, Col, TypeInv, TypeOK
  <2>3. QED
    BY <2>1, <2>2, SameCash, CollectedStays, LeaveSure DEF DoorInv
<1>3. ASSUME MoveCommit(r) \/ ProblemCommit(r) PROVE DoorInv'
  <2>1. ~ProblemCommit(r)
    BY DEF ProblemCommit, DoorInv, Sure
  <2>2. Runs(r, "move") /\ Moved(work[r], work[r].to) /\ UNCHANGED cash /\ Leave(r)
    BY <1>3, <2>1 DEF MoveCommit
  <2>3. Shown
    BY <2>2, MovedStatus DEF DoorInv, Sure
  <2>4. \A e \in work[r].owed : earning[e] \in EarningRow
    BY <2>2 DEF TypeInv, Known
  <2>5. Gained
    BY <1>3, <2>1, <2>4 DEF MoveCommit, OwedCancelled, EarningRow, NoEarning, Missing
  <2>6. QED
    BY <2>2, <2>3, <2>5, SameCash, CollectedStays, LeaveSure DEF DoorInv
<1>4. ASSUME DeliverCommit(r) PROVE DoorInv'
  <2> DEFINE q == [work[r] EXCEPT !.op = "complete", !.row = dlv'[work[r].o], !.seen = "expired"]
  <2>1. /\ Runs(r, "deliver") /\ Moved(work[r], "delivered") /\ Enter(r, q)
        /\ UNCHANGED <<cash, earning>>
    BY <1>4 DEF DeliverCommit
  <2>2. work[r] \in Work /\ PaidFor(work[r].o)
    BY <2>1, Running DEF TypeInv, DoorInv, Sure
  <2>3. q.op = "complete" /\ q.o = work[r].o
    BY <2>1, <2>2 DEF Work, Runs
  <2>4. cash'[q.o] \in {"none", "approved"}
    BY <2>1, <2>2, <2>3 DEF PaidFor
  <2>5. Shown
    BY <2>1, <2>2, MovedStatus
  <2>6. Collected' /\ StillPaid
    BY <2>1, <2>5, SameCash, CollectedStays DEF DoorInv
  <2>7. QED
    BY <2>1, <2>3, <2>4, <2>6, EnterSure DEF DoorInv
<1>5. ASSUME CompleteCommit(r) PROVE DoorInv'
  <2>1. /\ Runs(r, "complete") /\ Moved(work[r], "completed") /\ UNCHANGED cash /\ Leave(r)
        /\ EnsureEarning(work[r].o, work[r].row.driver)
    BY <1>5 DEF CompleteCommit
  <2>2. work[r].o \in Orders /\ PaidFor(work[r].o)
    BY <2>1, Running DEF TypeInv, DoorInv, Sure
  <2>3. Shown
    BY <2>1, <2>2, MovedStatus
  <2>4. Gained
    BY <2>1, <2>2, EnsurePaid
  <2>5. QED
    BY <2>1, <2>3, <2>4, SameCash, CollectedStays, LeaveSure DEF DoorInv
<1>6. ASSUME PayCommit(r) PROVE DoorInv'
  <2>1. UNCHANGED <<dlv, cash>> /\ Leave(r)
    BY <1>6 DEF PayCommit
  <2>2. earning[work[r].e] \in EarningRow
    BY <1>6 DEF PayCommit, TypeInv, Known
  <2>3. Gained
    BY <1>6, <2>2 DEF PayCommit, TypeInv, TypeOK, EarningRow, NoEarning, Missing
  <2>4. QED
    BY <2>1, <2>3, SameCash, CollectedStays, LeaveSure DEF DoorInv
<1>7. QED
  BY <1>1, <1>2, <1>3, <1>4, <1>5, <1>6 DEF Commits

LEMMA OthersPaid ==
  ASSUME TypeInv, DoorInv,
         \/ \E o \in Orders : Environment(o) \/ ConfirmPayment(o) \/ AdminComplete(o)
         \/ \E o \in Orders, d \in Drivers : KdsAssign(o, d)
         \/ \E d \in Drivers, status \in {"available", "offline"} : SetPersonStatus(d, status)
         \/ \E d \in Drivers, active \in BOOLEAN : SetPersonAccess(d, active)
  PROVE  DoorInv'
<1> DEFINE Shown == \A o \in Orders : dlv'[o].status \in {"delivered", "completed"} =>
                      dlv[o].status \in {"delivered", "completed"} \/ PaidFor(o)
<1>1. ASSUME NEW o \in Orders, AdminComplete(o) PROVE DoorInv'
  <2>1. UNCHANGED <<cash, work>> /\ EnsureEarning(o, dlv[o].driver) /\ PaidFor(o)
    BY <1>1 DEF AdminComplete, DoorInv, Collected
  <2>2. Shown
    BY <1>1 DEF AdminComplete, TypeInv, TypeOK
  <2>3. QED
    BY <2>1, <2>2, EnsurePaid, SameCash, CollectedStays, StaySure DEF DoorInv
<1>2. ASSUME UNCHANGED <<earning, work>>, StillPaid, Shown PROVE DoorInv'
  BY <1>2, CollectedStays, StaySure DEF DoorInv
<1>3. ASSUME NEW o \in Orders, Environment(o) \/ ConfirmPayment(o)
      PROVE  UNCHANGED <<earning, work>> /\ StillPaid /\ Shown
  <2>1. ASSUME UNCHANGED <<cash, dlv, earning, work>>
        PROVE  UNCHANGED <<earning, work>> /\ StillPaid /\ Shown
    BY <2>1, SameCash
  <2>2. KitchenReady(o) \/ Archive(o) \/ (\E to \in OrderStage : OrderMoves(o, to)) =>
          UNCHANGED <<cash, dlv, earning, work>>
    BY DEF KitchenReady, Archive, OrderMoves
  <2>3. ASSUME ReturnToKitchen(o) PROVE UNCHANGED <<earning, work>> /\ StillPaid /\ Shown
    BY <2>3, SameCash DEF ReturnToKitchen, TypeInv, TypeOK
  <2>4. ASSUME ConfirmPayment(o) \/ (\E to \in {"approved", "failed"} : PaymentMoves(o, to))
        PROVE  UNCHANGED <<earning, work>> /\ StillPaid /\ Shown
    <3>1. UNCHANGED <<dlv, earning, work>> /\ cash[o] = "pending"
      BY <2>4 DEF ConfirmPayment, PaymentMoves
    <3>2. \A p \in Orders \ {o} : cash'[p] = cash[p]
      BY <2>4 DEF ConfirmPayment, PaymentMoves, TypeInv, TypeOK
    <3>3. QED
      BY <3>1, <3>2 DEF StillPaid, PaidFor
  <2>5. QED
    BY <1>3, <2>1, <2>2, <2>3, <2>4 DEF Environment
<1>4. ASSUME NEW o \in Orders, NEW d \in Drivers, KdsAssign(o, d) PROVE DoorInv'
  BY <1>2, <1>4, SameCash DEF KdsAssign, TypeInv, TypeOK
<1>5. ASSUME UNCHANGED <<cash, dlv, earning, work>> PROVE DoorInv'
  BY <1>2, <1>5, SameCash
<1>6. QED
  BY <1>1, <1>2, <1>3, <1>4, <1>5 DEF SetPersonStatus, SetPersonAccess

\* While deliveries are handed over in the courier's app only, and nobody
\* reports one as failed: whatever overlaps and wherever a request dies, no
\* delivery is handed over, and no courier earns, before the money is there.
THEOREM CollectedAtTheDoor ==
  ASSUME ByTheCourier
  PROVE  Spec => []PaidAtTheDoor
<1>1. Init => DoorInv
  BY DEF Init, DoorInv, Collected, Sure, Runs, Idle, Missing
<1>2. TypeInv /\ DoorInv /\ [Next]_vars => DoorInv'
  <2> SUFFICES ASSUME TypeInv, DoorInv, [Next]_vars PROVE DoorInv'
    OBVIOUS
  <2>1. ASSUME UNCHANGED vars PROVE DoorInv'
    BY <2>1, SameCash, StaySure DEF vars, DoorInv, Collected, PaidFor
  <2>2. QED
    BY <2>1, ReadsPaid, CommitsPaid, OthersPaid DEF Next
<1>3. DoorInv => PaidAtTheDoor
  BY DEF DoorInv, Collected, PaidAtTheDoor, Earned, PaidFor
<1>4. QED
  BY <1>1, <1>2, <1>3, DeliveryTypes, PTL DEF Spec

-----------------------------------------------------------------------------
(* Requests whose rows nobody writes meanwhile.                            *)

OnOrder(q) == q.op \in {"assign", "move", "problem", "deliver", "complete"}

\* While a request is between its load and its commit, nobody else writes the
\* delivery, the order, the payment and the courier it loaded, nor the earning it
\* pays out: what a lock at the load would see to, and what one request at a time
\* gives for free.
Undisturbed ==
  \A r \in Requests : (~Free(r) /\ work'[r] = work[r]) =>
    LET q == work[r] IN
    /\ OnOrder(q) => /\ dlv'[q.o] = dlv[q.o]
                     /\ ord'[q.o] = ord[q.o]
                     /\ cash'[q.o] = cash[q.o]
    /\ (OnOrder(q) \/ q.op = "deactivate") /\ q.d # Nobody => person'[q.d] = person[q.d]
    /\ q.op = "pay" => earning'[q.e] = earning[q.e]

Seen(q) == q.seen = IF q.d = Nobody THEN "expired" ELSE person[q.d].status

\* What a request has loaded, and what it found when it did, is still so.
Now(q) ==
  /\ OnOrder(q) => q.row = dlv[q.o]
  /\ q.op = "assign" => /\ q.row.status \in Reassignable
                        /\ Works(q.d) /\ person[q.d].status # "busy"
  /\ q.op \in {"move", "problem", "deliver", "complete"} => q.d = q.row.driver
  /\ q.op \in {"move", "problem"} => DeliveryMay(q.row.status, q.to) /\ Seen(q)
  /\ q.op = "move" => q.to \in StatusTargets \cup {"on_the_way"}
  /\ q.op = "problem" => q.to = "failed" /\ q.cash = cash[q.o]
  /\ q.op \in {"move", "deliver"} => q.ord = ord[q.o]
  /\ q.op = "deliver" => q.row.status = "on_the_way"
  /\ q.op = "complete" => q.row.status = "delivered" /\ (q.seen = "expired" \/ Seen(q))
  /\ q.op \in {"deliver", "complete"} => PaidFor(q.o)
  /\ q.op = "deactivate" => q.seen = person[q.d].status
  /\ q.op = "pay" => earning[q.e].status = "pending"

NowInv == \A r \in Requests : ~Free(r) => Now(work[r])

\* What nobody wrote is still as it was loaded.
LEMMA StillNow ==
  ASSUME TypeInv, NowInv, Undisturbed, NEW r \in Requests, ~Free(r), work'[r] = work[r]
  PROVE  Now(work[r])'
<1> DEFINE q == work[r]
<1>1. Now(q)
  BY DEF NowInv
<1>2. /\ OnOrder(q) => /\ dlv'[q.o] = dlv[q.o]
                       /\ ord'[q.o] = ord[q.o]
                       /\ cash'[q.o] = cash[q.o]
      /\ (OnOrder(q) \/ q.op = "deactivate") /\ q.d # Nobody => person'[q.d] = person[q.d]
      /\ q.op = "pay" => earning'[q.e] = earning[q.e]
  BY DEF Undisturbed
<1>3. q.op \in {"assign", "deactivate"} => q.d # Nobody
  BY <1>1, Running, Values DEF Now, Works, Runs, TypeInv
<1>4. q' = q
  OBVIOUS
<1>5. Now(q)'
  <2> HIDE DEF q
  <2>1. Seen(q) /\ OnOrder(q) => Seen(q)'
    BY <1>2, <1>4 DEF Seen
  <2>2. PaidFor(q.o) /\ OnOrder(q) => PaidFor(q.o)'
    BY <1>2, <1>4 DEF PaidFor
  <2>3. q.op = "assign" /\ Works(q.d) => Works(q.d)'
    BY <1>2, <1>3, <1>4 DEF Works, OnOrder
  <2>4. QED
    BY <1>1, <1>2, <1>3, <1>4, <2>1, <2>2, <2>3 DEF Now, OnOrder
<1>6. QED
  BY <1>5

\* A request that loads its rows, goes on with them, or is done.
LEMMA EnterNow ==
  ASSUME TypeInv, NowInv, Undisturbed, NEW r \in Requests, NEW q, Enter(r, q),
         q = Idle \/ Now(q)'
  PROVE  NowInv'
<1> SUFFICES ASSUME NEW s \in Requests, ~Free(s)' PROVE Now(work[s])'
  BY DEF NowInv
<1>1. CASE s = r
  <2>1. work'[s] = q
    BY <1>1 DEF Enter, TypeInv, TypeOK
  <2>2. q # Idle
    BY <2>1 DEF Free
  <2>3. QED
    BY <2>1, <2>2 DEF Now, OnOrder, Seen
<1>2. CASE s # r
  <2>1. work'[s] = work[s]
    BY <1>2 DEF Enter, TypeInv, TypeOK
  <2>2. ~Free(s)
    BY <2>1 DEF Free
  <2>3. QED
    BY <2>1, <2>2, StillNow
<1>3. QED
  BY <1>1, <1>2

LEMMA LeaveNow ==
  ASSUME TypeInv, NowInv, Undisturbed, NEW r \in Requests, Leave(r)
  PROVE  NowInv'
<1>1. Enter(r, Idle)
  BY DEF Leave, Enter
<1>2. QED
  BY <1>1, EnterNow

LEMMA StayNow ==
  ASSUME TypeInv, NowInv, Undisturbed, UNCHANGED work
  PROVE  NowInv'
<1> SUFFICES ASSUME NEW r \in Requests, ~Free(r)' PROVE Now(work[r])'
  BY DEF NowInv
<1>1. ~Free(r) /\ work'[r] = work[r]
  BY DEF Free
<1>2. QED
  BY <1>1, StillNow

\* A session's save of a row that nobody wrote since changes the status only.
LEMMA MovedNow ==
  ASSUME TypeInv, NEW q, NEW to, q.o \in Orders, q.row = dlv[q.o], Moved(q, to)
  PROVE  dlv' = [dlv EXCEPT ![q.o].status = to]
<1>1. dlv[q.o] \in DeliveryRow
  BY DEF TypeInv, TypeOK
<1>2. SaveDelivery(dlv[q.o], dlv[q.o], [dlv[q.o] EXCEPT !.status = to])
        = [dlv[q.o] EXCEPT !.status = to]
  BY <1>1 DEF SaveDelivery, Col, DeliveryRow
<1>3. QED
  BY <1>2 DEF Moved, TypeInv, TypeOK

LEMMA ReadsNow ==
  ASSUME TypeInv, NowInv, Undisturbed, NEW r \in Requests,
         \/ \E o \in Orders : StartRead(r, o) \/ ProblemRead(r, o) \/ CompleteRead(r, o)
         \/ \E o \in Orders, d \in Drivers : AssignRead(r, o, d)
         \/ \E o \in Orders, to \in StatusTargets : UpdateRead(r, o, to)
         \/ \E e \in Earnings : PayRead(r, e)
         \/ \E d \in Drivers : DeactivateRead(r, d)
  PROVE  NowInv'
<1>1. UNCHANGED <<ord, archived, cooking, cash, dlv, person, earning>>
  BY DEF StartRead, ProblemRead, CompleteRead, AssignRead, UpdateRead, PayRead, DeactivateRead
<1>2. ASSUME NEW q, Enter(r, q), Now(q) PROVE NowInv'
  <2>1. Now(q)'
    BY <1>1, <1>2 DEF Now, Seen, PaidFor, Works
  <2>2. QED
    BY <1>2, <2>1, EnterNow
<1>3. ASSUME NEW o \in Orders, NEW to \in StatusTargets \cup {"on_the_way"},
             DeliveryMay(dlv[o].status, to),
             Enter(r, Snapshot("move", o, dlv[o].driver, to))
      PROVE NowInv'
  <2>1. Now(Snapshot("move", o, dlv[o].driver, to))
    BY <1>3 DEF Now, OnOrder, Seen, Snapshot
  <2>2. QED
    BY <1>2, <1>3, <2>1
<1>4. ASSUME NEW o \in Orders, ProblemRead(r, o) PROVE NowInv'
  <2>1. Now(Snapshot("problem", o, dlv[o].driver, "failed"))
    BY <1>4 DEF Now, OnOrder, Seen, Snapshot, ProblemRead
  <2>2. QED
    BY <1>2, <1>4, <2>1 DEF ProblemRead
<1>5. ASSUME NEW o \in Orders, CompleteRead(r, o) PROVE NowInv'
  <2> DEFINE op == IF dlv[o].status = "delivered" THEN "complete" ELSE "deliver"
  <2>1. Now(Snapshot(op, o, dlv[o].driver, "completed"))
    BY <1>5 DEF Now, OnOrder, Seen, Snapshot, CompleteRead
  <2>2. Enter(r, Snapshot(op, o, dlv[o].driver, "completed"))
    BY <1>5 DEF CompleteRead
  <2>3. QED
    BY <1>2, <2>1, <2>2
<1>6. ASSUME NEW o \in Orders, NEW d \in Drivers, AssignRead(r, o, d) PROVE NowInv'
  <2>1. Now(Snapshot("assign", o, d, "assigned"))
    BY <1>6 DEF Now, OnOrder, Snapshot, AssignRead
  <2>2. QED
    BY <1>2, <1>6, <2>1 DEF AssignRead
<1>7. ASSUME NEW e \in Earnings, PayRead(r, e) PROVE NowInv'
  <2>1. Now([op |-> "pay", e |-> e])
    BY <1>7 DEF Now, OnOrder, PayRead
  <2>2. QED
    BY <1>2, <1>7, <2>1 DEF PayRead
<1>8. ASSUME NEW d \in Drivers, DeactivateRead(r, d) PROVE NowInv'
  <2>1. Now([op |-> "deactivate", d |-> d, seen |-> person[d].status])
    BY <1>8 DEF Now, OnOrder, DeactivateRead
  <2>2. QED
    BY <1>2, <1>8, <2>1 DEF DeactivateRead
<1>9. QED
  BY <1>3, <1>4, <1>5, <1>6, <1>7, <1>8 DEF StartRead, UpdateRead

\* The second commit of a completion goes on with the row the first one left.
LEMMA DeliverNow ==
  ASSUME TypeInv, NowInv, Undisturbed, NEW r \in Requests, DeliverCommit(r)
  PROVE  NowInv'
<1> DEFINE q == work[r]
           p == [q EXCEPT !.op = "complete", !.row = dlv'[q.o], !.seen = "expired"]
<1>1. q \in Work /\ Runs(r, "deliver") /\ q.o \in Orders
  BY Running DEF DeliverCommit, TypeInv
<1>2. Now(q)
  BY <1>1 DEF NowInv, Free, Runs, Idle
<1>3. q.row = dlv[q.o] /\ q.d = q.row.driver /\ PaidFor(q.o)
  BY <1>1, <1>2 DEF Now, OnOrder, Runs
<1>4. dlv' = [dlv EXCEPT ![q.o].status = "delivered"] /\ cash' = cash
  BY <1>1, <1>3, MovedNow DEF DeliverCommit
<1>5. dlv'[q.o].status = "delivered" /\ dlv'[q.o].driver = q.d
  BY <1>1, <1>3, <1>4 DEF TypeInv, TypeOK, DeliveryRow
<1>6. /\ p.op = "complete" /\ p.o = q.o /\ p.row = dlv'[q.o] /\ p.seen = "expired"
      /\ p.d = q.d
  BY <1>1 DEF Work, Runs
<1>7. Enter(r, p)
  BY DEF DeliverCommit
<1>8. ASSUME NEW x, Enter(r, x), x.op = "complete", x.o = q.o, x.row = dlv'[q.o],
             x.seen = "expired", x.d = q.d
      PROVE NowInv'
  <2>1. PaidFor(x.o)'
    BY <1>3, <1>4, <1>8 DEF PaidFor
  <2>2. Now(x)'
    BY <1>5, <1>8, <2>1 DEF Now, OnOrder
  <2>3. QED
    BY <1>8, <2>2, EnterNow
<1>9. QED
  BY <1>6, <1>7, <1>8

\* No step of the system, by itself, makes a request in flight stale.
LEMMA StepNow ==
  ASSUME TypeInv, NowInv, Undisturbed, Next
  PROVE  NowInv'
<1>1. ASSUME NEW r \in Requests, Commits(r) PROVE NowInv'
  BY <1>1, DeliverNow, LeaveNow DEF Commits, AssignCommit, MoveCommit, ProblemCommit,
     CompleteCommit, PayCommit, DeactivateCommit, Abort
<1>2. ASSUME \/ \E o \in Orders : Environment(o) \/ ConfirmPayment(o) \/ AdminComplete(o)
             \/ \E o \in Orders, d \in Drivers : KdsAssign(o, d)
             \/ \E d \in Drivers, status \in {"available", "offline"} : SetPersonStatus(d, status)
             \/ \E d \in Drivers, active \in BOOLEAN : SetPersonAccess(d, active)
      PROVE NowInv'
  <2>1. UNCHANGED work
    BY <1>2 DEF Environment, KitchenReady, OrderMoves, Archive, PaymentMoves, ReturnToKitchen,
       ConfirmPayment, AdminComplete, KdsAssign, SetPersonStatus, SetPersonAccess
  <2>2. QED
    BY <2>1, StayNow
<1>3. QED
  BY <1>1, <1>2, ReadsNow DEF Next

LEMMA Currently == Spec /\ [][Undisturbed]_vars => [](TypeInv /\ NowInv)
<1>1. Init => NowInv
  BY DEF Init, NowInv, Free
<1>2. TypeInv /\ NowInv /\ [Next]_vars /\ [Undisturbed]_vars => NowInv'
  <2> SUFFICES ASSUME TypeInv, NowInv, [Next]_vars, [Undisturbed]_vars PROVE NowInv'
    OBVIOUS
  <2>1. ASSUME UNCHANGED vars PROVE NowInv'
    BY <2>1 DEF vars, NowInv, Free, Now, OnOrder, Seen, PaidFor, Works
  <2>2. QED
    BY <2>1, StepNow
<1>3. QED
  BY <1>1, <1>2, DeliveryTypes, PTL DEF Spec

-----------------------------------------------------------------------------
(* Couriers and the orders they carry.                                     *)

\* An admin leaves status and access of a courier who carries an order alone, and
\* takes neither way around the services: back to the waiting list, and to completed.
CarefulAdmin ==
  /\ ~AdjustsBusy
  /\ StatusTargets \cap {"pending_assignment", "completed"} = {}

Courier(o) == dlv[o].driver
Out(o)     == Open(dlv[o].status) \/ dlv[o].status = "delivered"
Busy(d)    == person[d].status = "busy"

\* What BusyIffCarrying rests on: it speaks of deliveries that were made as well,
\* whose courier is busy until they are completed, or has left the shop for good.
RideInv ==
  /\ \A o \in Orders : dlv[o].status # "pending_assignment"
  /\ \A o \in Orders : Out(o) => Courier(o) \in Drivers
  /\ \A o \in Orders : Open(dlv[o].status) => Busy(Courier(o))
  /\ \A o \in Orders : Out(o) => Busy(Courier(o)) \/ person[Courier(o)].deleted
  /\ \A o, p \in Orders : Out(o) /\ Out(p) /\ Courier(o) = Courier(p) => o = p
  /\ \A d \in Drivers : Busy(d) => \E o \in Orders : Out(o) /\ Courier(o) = d

\* Who is being deactivated carries nothing.
Quiet == \A r \in Requests : Runs(r, "deactivate") => Carries(work[r].d) = {}

\* The four things that happen to couriers and deliveries.
Taken(o, d) ==
  /\ ~Out(o) /\ Works(d) /\ ~Busy(d)
  /\ dlv' = [dlv EXCEPT ![o] = [status |-> "assigned", driver |-> d]]
  /\ person' = [person EXCEPT ![d].status = "busy"]

Rode(o, to) ==
  /\ Open(dlv[o].status) /\ to \in {"picked_up", "on_the_way", "delivered"}
  /\ dlv' = [dlv EXCEPT ![o].status = to]
  /\ UNCHANGED person

Ended(o, to) ==
  /\ Out(o) /\ to \in {"failed", "cancelled", "completed"}
  /\ dlv' = [dlv EXCEPT ![o].status = to]
  /\ person' = [person EXCEPT ![Courier(o)].status = "available"]

Adjusted(d, row) ==
  /\ row.status # "busy"
  /\ \/ ~Busy(d) /\ row.deleted = person[d].deleted
     \/ Carries(d) = {} /\ row.deleted = TRUE
  /\ person' = [person EXCEPT ![d] = row]
  /\ UNCHANGED dlv

Rides ==
  \/ UNCHANGED <<dlv, person>>
  \/ \E o \in Orders, d \in Drivers : Taken(o, d)
  \/ \E o \in Orders, to \in DeliveryStatus : Rode(o, to) \/ Ended(o, to)
  \/ \E d \in Drivers, row \in PersonRow : Adjusted(d, row)

LEMMA TakenKeeps ==
  ASSUME TypeInv, RideInv, NEW o \in Orders, NEW d \in Drivers, Taken(o, d)
  PROVE  RideInv'
<1>1. dlv'[o] = [status |-> "assigned", driver |-> d]
  BY DEF Taken, TypeInv, TypeOK
<1>2. \A p \in Orders \ {o} : dlv'[p] = dlv[p]
  BY DEF Taken, TypeInv, TypeOK
<1>3. person'[d].status = "busy" /\ person'[d].deleted = person[d].deleted
  BY DEF Taken, TypeInv, TypeOK, PersonRow
<1>4. \A c \in Drivers \ {d} : person'[c] = person[c]
  BY DEF Taken, TypeInv, TypeOK
<1>5. \A p \in Orders : Out(p) => Courier(p) # d
  BY DEF Taken, Works, RideInv
<1>6. Out(o)' /\ Open(dlv'[o].status) /\ Courier(o)' = d
  BY <1>1 DEF Out, Open, Courier
<1>7. \A p \in Orders \ {o} : Out(p)' = Out(p) /\ Courier(p)' = Courier(p)
  BY <1>2 DEF Out, Courier
<1>8. \A c \in Drivers \ {d} : Busy(c)' = Busy(c)
  BY <1>4 DEF Busy
<1>9. Busy(d)'
  BY <1>3 DEF Busy
<1>10. \A p \in Orders \ {o} : Out(p) => Courier(p) \in Drivers \ {d}
  BY <1>5 DEF RideInv
<1>11. \A p \in Orders : dlv'[p].status # "pending_assignment"
  BY <1>1, <1>2 DEF RideInv
<1>12. \A p \in Orders : Out(p)' => Courier(p)' \in Drivers
  BY <1>6, <1>7, <1>10
<1>13. \A p \in Orders : Open(dlv'[p].status) => Busy(Courier(p))'
  <2> SUFFICES ASSUME NEW p \in Orders, Open(dlv'[p].status) PROVE Busy(Courier(p))'
    OBVIOUS
  <2>1. CASE p = o
    BY <1>1, <1>3, <2>1 DEF Busy, Courier
  <2>2. CASE p # o
    BY <1>2, <1>4, <1>10, <2>2 DEF Busy, Courier, Out, RideInv
  <2>3. QED
    BY <2>1, <2>2
<1>14. \A p \in Orders : Out(p)' => (Busy(Courier(p)) \/ person[Courier(p)].deleted)'
  <2> SUFFICES ASSUME NEW p \in Orders, Out(p)'
               PROVE  (Busy(Courier(p)) \/ person[Courier(p)].deleted)'
    OBVIOUS
  <2>1. CASE p = o
    BY <1>1, <1>3, <2>1 DEF Busy, Courier
  <2>2. CASE p # o
    BY <1>2, <1>4, <1>7, <1>10, <2>2 DEF Busy, Courier, RideInv
  <2>3. QED
    BY <2>1, <2>2
<1>15. \A p, q \in Orders : Out(p)' /\ Out(q)' /\ Courier(p)' = Courier(q)' => p = q
  BY <1>6, <1>7, <1>10 DEF RideInv
<1>16. \A c \in Drivers : Busy(c)' => \E p \in Orders : Out(p)' /\ Courier(p)' = c
  <2> SUFFICES ASSUME NEW c \in Drivers, Busy(c)'
               PROVE  \E p \in Orders : Out(p)' /\ Courier(p)' = c
    OBVIOUS
  <2>1. CASE c = d
    BY <1>6, <2>1
  <2>2. CASE c # d
    <3>1. PICK p \in Orders : Out(p) /\ Courier(p) = c
      BY <1>8, <2>2 DEF RideInv
    <3>2. p # o
      BY <3>1 DEF Taken
    <3>3. QED
      BY <1>7, <3>1, <3>2
  <2>3. QED
    BY <2>1, <2>2
<1>17. QED
  BY <1>11, <1>12, <1>13, <1>14, <1>15, <1>16 DEF RideInv

LEMMA RodeKeeps ==
  ASSUME TypeInv, RideInv, NEW o \in Orders, NEW to, Rode(o, to)
  PROVE  RideInv'
<1>1. dlv'[o].status = to /\ dlv'[o].driver = dlv[o].driver
  BY DEF Rode, TypeInv, TypeOK, DeliveryRow
<1>2. \A p \in Orders \ {o} : dlv'[p] = dlv[p]
  BY DEF Rode, TypeInv, TypeOK
<1>3. Open(dlv[o].status) /\ to \in {"picked_up", "on_the_way", "delivered"}
  BY DEF Rode
<1>4. \A p \in Orders : Out(p)' = Out(p) /\ Courier(p)' = Courier(p)
  BY <1>1, <1>2, <1>3 DEF Out, Courier, Open
<1>5. \A p \in Orders : Open(dlv'[p].status) => Open(dlv[p].status)
  BY <1>2, <1>3
<1>6. \A p \in Orders : dlv'[p].status # "pending_assignment"
  BY <1>1, <1>2, <1>3 DEF RideInv
<1>7. \A d : Busy(d)' = Busy(d) /\ person'[d] = person[d]
  BY DEF Rode, Busy
<1>8. \A p \in Orders : Busy(Courier(p))' = Busy(Courier(p))
                        /\ person'[Courier(p)'] = person[Courier(p)]
  BY <1>4 DEF Rode, Busy
<1>9. QED
  BY <1>4, <1>5, <1>6, <1>7, <1>8 DEF RideInv

LEMMA EndedKeeps ==
  ASSUME TypeInv, RideInv, NEW o \in Orders, NEW to, Ended(o, to)
  PROVE  RideInv'
<1> DEFINE d == Courier(o)
<1>1. dlv'[o].status = to /\ dlv'[o].driver = dlv[o].driver
  BY DEF Ended, TypeInv, TypeOK, DeliveryRow
<1>2. \A p \in Orders \ {o} : dlv'[p] = dlv[p]
  BY DEF Ended, TypeInv, TypeOK
<1>3. Out(o) /\ to \in {"failed", "cancelled", "completed"} /\ d \in Drivers
  BY DEF Ended, RideInv
<1>4. ~Out(o)' /\ ~Open(dlv'[o].status) /\ dlv'[o].status # "pending_assignment"
  BY <1>1, <1>3 DEF Out, Open
<1>5. \A p \in Orders \ {o} : Out(p)' = Out(p) /\ Courier(p)' = Courier(p)
  BY <1>2 DEF Out, Courier
<1>6. \A p \in Orders \ {o} : Out(p) => Courier(p) \in Drivers \ {d}
  BY <1>3 DEF RideInv
<1>7. person'[d].status = "available"
  BY <1>3 DEF Ended, TypeInv, TypeOK, PersonRow
<1>8. \A c \in Drivers \ {d} : person'[c] = person[c]
  BY <1>3 DEF Ended, TypeInv, TypeOK
<1>9. \A p \in Orders : Out(p)' =>
        /\ p # o
        /\ Courier(p)' = Courier(p) /\ Courier(p) \in Drivers
        /\ person'[Courier(p)'] = person[Courier(p)]
  BY <1>4, <1>5, <1>6, <1>8
<1>10. \A p \in Orders : dlv'[p].status # "pending_assignment"
  BY <1>2, <1>4 DEF RideInv
<1>11. \A p \in Orders : Out(p)' => Courier(p)' \in Drivers
  BY <1>9
<1>12. \A p \in Orders : Open(dlv'[p].status) => Busy(Courier(p))'
  <2> SUFFICES ASSUME NEW p \in Orders, Open(dlv'[p].status) PROVE Busy(Courier(p))'
    OBVIOUS
  <2>1. Out(p)'
    BY DEF Out
  <2>2. Open(dlv[p].status)
    BY <1>2, <1>9, <2>1
  <2>3. person[Courier(p)].status = "busy"
    BY <2>2 DEF RideInv, Busy
  <2>4. QED
    BY <1>9, <2>1, <2>3 DEF Busy
<1>13. \A p \in Orders : Out(p)' => (Busy(Courier(p)) \/ person[Courier(p)].deleted)'
  <2> SUFFICES ASSUME NEW p \in Orders, Out(p)'
               PROVE  (Busy(Courier(p)) \/ person[Courier(p)].deleted)'
    OBVIOUS
  <2>1. Out(p)
    BY <1>5, <1>9
  <2>2. person[Courier(p)].status = "busy" \/ person[Courier(p)].deleted
    BY <2>1 DEF RideInv, Busy
  <2>3. QED
    BY <1>9, <2>2 DEF Busy
<1>14. \A p, q \in Orders : Out(p)' /\ Out(q)' /\ Courier(p)' = Courier(q)' => p = q
  BY <1>5, <1>9 DEF RideInv
<1>15. \A c \in Drivers : Busy(c)' => \E p \in Orders : Out(p)' /\ Courier(p)' = c
  <2> SUFFICES ASSUME NEW c \in Drivers, Busy(c)'
               PROVE  \E p \in Orders : Out(p)' /\ Courier(p)' = c
    OBVIOUS
  <2>1. c # d
    BY <1>7 DEF Busy
  <2>2. Busy(c)
    BY <1>8, <2>1 DEF Busy
  <2>3. PICK p \in Orders : Out(p) /\ Courier(p) = c
    BY <2>2 DEF RideInv
  <2>4. QED
    BY <1>5, <2>1, <2>3
<1>16. QED
  BY <1>10, <1>11, <1>12, <1>13, <1>14, <1>15 DEF RideInv

LEMMA AdjustedKeeps ==
  ASSUME TypeInv, RideInv, NEW d \in Drivers, NEW row \in PersonRow, Adjusted(d, row)
  PROVE  RideInv'
<1>1. person'[d] = row /\ row.status # "busy"
  BY DEF Adjusted, TypeInv, TypeOK
<1>2. \A c \in Drivers \ {d} : person'[c] = person[c]
  BY DEF Adjusted, TypeInv, TypeOK
<1>3. dlv' = dlv
  BY DEF Adjusted
<1>4. \A p \in Orders : Open(dlv[p].status) => Courier(p) # d
  BY DEF Adjusted, RideInv, Busy, Carries, Courier
<1>5. \A p \in Orders : Out(p) /\ Courier(p) = d => row.deleted
  BY DEF Adjusted, RideInv
<1>6. \A p \in Orders : Out(p)' = Out(p) /\ Courier(p)' = Courier(p)
  BY <1>3 DEF Out, Courier
<1>7. \A p \in Orders : Open(dlv[p].status) => Courier(p) \in Drivers \ {d}
  BY <1>4 DEF RideInv, Out
<1>8. \A p \in Orders : Open(dlv'[p].status) => Busy(Courier(p))'
  BY <1>2, <1>3, <1>6, <1>7 DEF RideInv, Busy
<1>9. \A p \in Orders : Out(p)' => (Busy(Courier(p)) \/ person[Courier(p)].deleted)'
  <2> SUFFICES ASSUME NEW p \in Orders, Out(p)'
               PROVE  (Busy(Courier(p)) \/ person[Courier(p)].deleted)'
    OBVIOUS
  <2>1. Out(p) /\ Courier(p)' = Courier(p) /\ Courier(p) \in Drivers
    BY <1>6 DEF RideInv
  <2>2. CASE Courier(p) = d
    BY <1>1, <1>5, <2>1, <2>2
  <2>3. CASE Courier(p) # d
    <3>1. person'[Courier(p)'] = person[Courier(p)]
      BY <1>2, <2>1, <2>3
    <3>2. QED
      BY <2>1, <3>1 DEF RideInv, Busy
  <2>4. QED
    BY <2>2, <2>3
<1>10. \A c \in Drivers : Busy(c)' => \E p \in Orders : Out(p)' /\ Courier(p)' = c
  <2> SUFFICES ASSUME NEW c \in Drivers, Busy(c)'
               PROVE  \E p \in Orders : Out(p)' /\ Courier(p)' = c
    OBVIOUS
  <2>1. c # d
    BY <1>1 DEF Busy
  <2>2. Busy(c)
    BY <1>2, <2>1 DEF Busy
  <2>3. QED
    BY <1>6, <2>2 DEF RideInv
<1>11. QED
  BY <1>3, <1>6, <1>8, <1>9, <1>10 DEF RideInv

LEMMA RidesKeep ==
  ASSUME TypeInv, RideInv, Rides
  PROVE  RideInv'
<1>1. ASSUME UNCHANGED <<dlv, person>> PROVE RideInv'
  BY <1>1 DEF RideInv, Out, Courier, Busy
<1>2. QED
  BY <1>1, TakenKeeps, RodeKeeps, EndedKeeps, AdjustedKeeps DEF Rides

\* Who was loaded as he is becomes available.
LEMMA FreedNow ==
  ASSUME TypeInv, NEW d \in Drivers, NEW seen, seen = "expired" \/ seen = person[d].status
  PROVE  Freed(d, seen) = [person EXCEPT ![d].status = "available"]
<1>1. d # Nobody /\ person[d] \in PersonRow
  BY Values DEF TypeInv, TypeOK
<1>2. Col(person[d].status, seen, "available") = "available"
  BY <1>1 DEF Col, PersonRow
<1>3. QED
  BY <1>1, <1>2 DEF Freed

\* Where a delivery can still go from leaves only its own route.
LEMMA MayGo ==
  ASSUME NEW from, NEW to, DeliveryMay(from, to), from # "pending_assignment",
         to \notin {"pending_assignment", "completed"}
  PROVE  Open(from) /\ to \in {"picked_up", "on_the_way", "delivered", "failed", "cancelled"}
BY DEF DeliveryMay, CanTransition, DeliveryTransitions, Open

LEMMA CommitRides ==
  ASSUME CarefulAdmin, TypeInv, NowInv, RideInv, Quiet, NEW r \in Requests, Commits(r)
  PROVE  Rides
<1> DEFINE q == work[r]
<1>1. ~Free(r) => Now(q)
  BY DEF NowInv
<1>2. ASSUME AssignCommit(r) PROVE Rides
  <2>1. Runs(r, "assign") /\ q.o \in Orders /\ q.d \in Drivers \cup {Nobody}
    BY <1>2, Running DEF AssignCommit, TypeInv
  <2>2. q.row = dlv[q.o] /\ q.row.status \in Reassignable /\ Works(q.d) /\ ~Busy(q.d)
    BY <1>1, <2>1 DEF Now, OnOrder, Runs, Free, Idle, Busy
  <2>3. dlv[q.o] \in DeliveryRow /\ q.d \in Drivers
    BY <2>1, <2>2 DEF TypeInv, TypeOK, Works
  <2>4. SaveDelivery(dlv[q.o], dlv[q.o], [status |-> "assigned", driver |-> q.d])
          = [status |-> "assigned", driver |-> q.d]
    BY DEF SaveDelivery, Col
  <2>5. dlv' = [dlv EXCEPT ![q.o] = [status |-> "assigned", driver |-> q.d]]
    BY <1>2, <2>1, <2>2, <2>4 DEF AssignCommit, TypeInv, TypeOK
  <2>6. person' = [person EXCEPT ![q.d].status = "busy"]
    BY <1>2 DEF AssignCommit
  <2>7. ~Out(q.o)
    BY <2>2 DEF Out, Open, Reassignable, Missing
  <2>8. Taken(q.o, q.d)
    BY <2>2, <2>5, <2>6, <2>7 DEF Taken
  <2>9. QED
    BY <2>1, <2>3, <2>8 DEF Rides
<1>3. ASSUME NEW to, q.o \in Orders, q.row = dlv[q.o], Moved(q, to),
             DeliveryMay(dlv[q.o].status, to), to \notin {"pending_assignment", "completed"},
             to \notin {"failed", "cancelled"} => person' = person,
             to \in {"failed", "cancelled"} =>
               person' = [person EXCEPT ![Courier(q.o)].status = "available"]
      PROVE Rides
  <2>1. dlv' = [dlv EXCEPT ![q.o].status = to]
    BY <1>3, MovedNow
  <2>2. /\ Open(dlv[q.o].status)
        /\ to \in {"picked_up", "on_the_way", "delivered", "failed", "cancelled"}
    BY <1>3, MayGo DEF RideInv
  <2>3. to \in DeliveryStatus
    BY <2>2, Values
  <2>4. CASE to \in {"failed", "cancelled"}
    BY <1>3, <2>1, <2>2, <2>3, <2>4 DEF Rides, Ended, Out
  <2>5. CASE to \notin {"failed", "cancelled"}
    BY <1>3, <2>1, <2>2, <2>3, <2>5 DEF Rides, Rode
  <2>6. QED
    BY <2>4, <2>5
<1>4. ASSUME MoveCommit(r) \/ ProblemCommit(r) PROVE Rides
  <2> DEFINE to == IF q.op = "move" THEN q.to ELSE "failed"
  <2>1. q.op \in {"move", "problem"} /\ q.o \in Orders /\ Moved(q, to)
    BY <1>4, Running DEF MoveCommit, ProblemCommit, Runs, TypeInv
  <2>2. /\ q.row = dlv[q.o] /\ q.d = q.row.driver /\ DeliveryMay(q.row.status, to) /\ Seen(q)
        /\ to \in StatusTargets \cup {"on_the_way", "failed"}
    BY <1>1, <2>1 DEF Now, OnOrder, Free, Idle
  <2>3. to \notin {"pending_assignment", "completed"}
    BY <2>2 DEF CarefulAdmin
  <2>4. Open(dlv[q.o].status)
    BY <2>1, <2>2, <2>3, MayGo DEF RideInv
  <2>5. q.d \in Drivers /\ q.d = Courier(q.o)
    BY <2>1, <2>2, <2>4 DEF RideInv, Out, Courier
  <2>6. q.seen = person[q.d].status
    BY <2>2, <2>5, Values DEF Seen
  <2>7. Freed(q.d, q.seen) = [person EXCEPT ![Courier(q.o)].status = "available"]
    BY <2>5, <2>6, FreedNow
  <2>8. to \in {"failed", "cancelled"} => person' = Freed(q.d, q.seen)
    BY <1>4 DEF MoveCommit, ProblemCommit, Runs
  <2>9. to \notin {"failed", "cancelled"} => person' = person
    BY <1>4 DEF MoveCommit, ProblemCommit, Runs
  <2>10. QED
    BY <1>3, <2>1, <2>2, <2>3, <2>7, <2>8, <2>9
<1>5. ASSUME DeliverCommit(r) PROVE Rides
  <2>1. q.op = "deliver" /\ q.o \in Orders
    BY <1>5, Running DEF DeliverCommit, Runs, TypeInv
  <2>2. q.row = dlv[q.o] /\ q.row.status = "on_the_way"
    BY <1>1, <2>1 DEF Now, OnOrder, Free, Idle
  <2>3. DeliveryMay("on_the_way", "delivered")
    BY DEF DeliveryMay, CanTransition, DeliveryTransitions
  <2>4. QED
    BY <1>3, <1>5, <2>1, <2>2, <2>3 DEF DeliverCommit
<1>6. ASSUME CompleteCommit(r) PROVE Rides
  <2>1. q.op = "complete" /\ q.o \in Orders
    BY <1>6, Running DEF CompleteCommit, Runs, TypeInv
  <2>2. /\ q.row = dlv[q.o] /\ q.row.status = "delivered" /\ q.d = q.row.driver
        /\ q.seen = "expired" \/ Seen(q)
    BY <1>1, <2>1 DEF Now, OnOrder, Free, Idle
  <2>3. Out(q.o) /\ Courier(q.o) = q.row.driver /\ q.row.driver \in Drivers
    BY <2>1, <2>2 DEF Out, Courier, RideInv
  <2>4. q.seen = "expired" \/ q.seen = person[q.row.driver].status
    BY <2>2, <2>3, Values DEF Seen
  <2>5. person' = [person EXCEPT ![Courier(q.o)].status = "available"]
    BY <1>6, <2>3, <2>4, FreedNow DEF CompleteCommit
  <2>6. dlv' = [dlv EXCEPT ![q.o].status = "completed"]
    BY <1>6, <2>1, <2>2, MovedNow DEF CompleteCommit
  <2>7. Ended(q.o, "completed") /\ "completed" \in DeliveryStatus
    BY <2>3, <2>5, <2>6, Values DEF Ended
  <2>8. QED
    BY <2>1, <2>7 DEF Rides
<1>7. ASSUME PayCommit(r) \/ Abort(r) PROVE Rides
  BY <1>7 DEF PayCommit, Abort, Rides
<1>8. ASSUME DeactivateCommit(r) PROVE Rides
  <2> DEFINE row == [active |-> FALSE, deleted |-> TRUE,
                     status |-> Col(person[q.d].status, q.seen, "offline")]
  <2>1. Runs(r, "deactivate") /\ q.d \in Drivers /\ Carries(q.d) = {}
    BY <1>8, Running DEF DeactivateCommit, TypeInv, Quiet
  <2>2. q.seen = person[q.d].status
    BY <1>1, <2>1 DEF Now, Runs, Free, Idle
  <2>3. person[q.d] \in PersonRow
    BY <2>1 DEF TypeInv, TypeOK
  <2>4. row.status = "offline" /\ row \in PersonRow
    BY <2>2, <2>3 DEF Col, PersonRow
  <2>5. person' = [person EXCEPT ![q.d] = row] /\ dlv' = dlv
    BY <1>8 DEF DeactivateCommit
  <2>6. Adjusted(q.d, row)
    BY <2>1, <2>4, <2>5 DEF Adjusted
  <2>7. QED
    BY <2>1, <2>4, <2>6 DEF Rides
<1>9. QED
  BY <1>2, <1>4, <1>5, <1>6, <1>7, <1>8 DEF Commits

\* The commands that lock all they decide on.
LEMMA OthersRide ==
  ASSUME CarefulAdmin, TypeInv, RideInv,
         \/ \E o \in Orders : Environment(o) \/ ConfirmPayment(o) \/ AdminComplete(o)
         \/ \E o \in Orders, d \in Drivers : KdsAssign(o, d)
         \/ \E d \in Drivers, status \in {"available", "offline"} : SetPersonStatus(d, status)
         \/ \E d \in Drivers, active \in BOOLEAN : SetPersonAccess(d, active)
  PROVE  Rides
<1>1. ASSUME NEW o \in Orders, ReturnToKitchen(o) PROVE Rides
  <2>1. CASE dlv[o].status = "assigned"
    <3>1. Out(o) /\ Courier(o) \in Drivers
      BY <2>1 DEF Out, Open, RideInv
    <3>2. \A p \in Orders \ {o} : ~(dlv[p].driver = dlv[o].driver /\ Open(dlv[p].status))
      BY <3>1 DEF RideInv, Out, Courier
    <3>3. person' = Freed(dlv[o].driver, "expired")
      BY <1>1, <2>1, <3>2 DEF ReturnToKitchen
    <3>4. person' = [person EXCEPT ![Courier(o)].status = "available"]
      BY <3>1, <3>3, FreedNow DEF Courier
    <3>5. dlv' = [dlv EXCEPT ![o].status = "cancelled"]
      BY <1>1, <2>1 DEF ReturnToKitchen
    <3>6. Ended(o, "cancelled") /\ "cancelled" \in DeliveryStatus
      BY <3>1, <3>4, <3>5, Values DEF Ended
    <3>7. QED
      BY <3>6 DEF Rides
  <2>2. CASE dlv[o].status # "assigned"
    <3>1. dlv[o].status \notin {"pending_assignment", "assigned"}
      BY <2>2 DEF RideInv
    <3>2. UNCHANGED <<dlv, person>>
      BY <1>1, <3>1 DEF ReturnToKitchen
    <3>3. QED
      BY <3>2 DEF Rides
  <2>3. QED
    BY <2>1, <2>2
<1>2. ASSUME NEW o \in Orders, AdminComplete(o) PROVE Rides
  <2>1. CASE dlv[o].status = "completed"
    <3>1. dlv' = dlv /\ person' = person
      BY <1>2, <2>1 DEF AdminComplete, TypeInv, TypeOK, DeliveryRow
    <3>2. QED
      BY <3>1 DEF Rides
  <2>2. CASE dlv[o].status = "delivered"
    <3>1. Out(o) /\ Courier(o) \in Drivers
      BY <2>2 DEF Out, RideInv
    <3>2. person' = [person EXCEPT ![Courier(o)].status = "available"]
      BY <1>2, <2>2, <3>1, FreedNow DEF AdminComplete, Courier
    <3>3. Ended(o, "completed") /\ "completed" \in DeliveryStatus
      BY <1>2, <3>1, <3>2, Values DEF Ended, AdminComplete
    <3>4. QED
      BY <3>3 DEF Rides
  <2>3. QED
    BY <1>2, <2>1, <2>2 DEF AdminComplete
<1>3. ASSUME NEW o \in Orders, NEW d \in Drivers, KdsAssign(o, d) PROVE Rides
  <2>1. Taken(o, d)
    BY <1>3 DEF KdsAssign, Taken, Out, Open, Busy, Reassignable, Missing
  <2>2. QED
    BY <2>1 DEF Rides
<1>4. ASSUME NEW d \in Drivers, NEW status \in {"available", "offline"},
             SetPersonStatus(d, status)
      PROVE Rides
  <2> DEFINE row == [person[d] EXCEPT !.status = status]
  <2>1. person[d] \in PersonRow
    BY DEF TypeInv, TypeOK
  <2>2. row \in PersonRow /\ row.status # "busy" /\ row.deleted = person[d].deleted
    BY <2>1 DEF PersonRow
  <2>3. person' = [person EXCEPT ![d] = row] /\ dlv' = dlv /\ ~Busy(d)
    BY <1>4 DEF SetPersonStatus, MayAdjust, CarefulAdmin, Busy
  <2>4. Adjusted(d, row)
    BY <2>2, <2>3 DEF Adjusted
  <2>5. QED
    BY <2>2, <2>4 DEF Rides
<1>5. ASSUME NEW d \in Drivers, NEW active \in BOOLEAN, SetPersonAccess(d, active)
      PROVE Rides
  <2> DEFINE row == [person[d] EXCEPT !.active = active,
                                      !.status = IF active THEN @ ELSE "offline"]
  <2>1. person[d] \in PersonRow
    BY DEF TypeInv, TypeOK
  <2>2. person' = [person EXCEPT ![d] = row] /\ dlv' = dlv /\ ~Busy(d)
    BY <1>5, <2>1 DEF SetPersonAccess, MayAdjust, CarefulAdmin, Busy, TypeInv, TypeOK, PersonRow
  <2>3. row \in PersonRow /\ row.status # "busy" /\ row.deleted = person[d].deleted
    BY <2>1, <2>2 DEF PersonRow, Busy
  <2>4. Adjusted(d, row)
    BY <2>2, <2>3 DEF Adjusted
  <2>5. QED
    BY <2>3, <2>4 DEF Rides
<1>6. \A o \in Orders : ConfirmPayment(o) \/ (Environment(o) /\ ~ReturnToKitchen(o)) =>
        UNCHANGED <<dlv, person>>
  BY DEF ConfirmPayment, Environment, KitchenReady, OrderMoves, Archive, PaymentMoves
<1>7. QED
  BY <1>1, <1>2, <1>3, <1>4, <1>5, <1>6 DEF Rides

LEMMA ReadsRide ==
  ASSUME NEW r \in Requests,
         \/ \E o \in Orders : StartRead(r, o) \/ ProblemRead(r, o) \/ CompleteRead(r, o)
         \/ \E o \in Orders, d \in Drivers : AssignRead(r, o, d)
         \/ \E o \in Orders, to \in StatusTargets : UpdateRead(r, o, to)
         \/ \E e \in Earnings : PayRead(r, e)
         \/ \E d \in Drivers : DeactivateRead(r, d)
  PROVE  Rides
BY DEF StartRead, ProblemRead, CompleteRead, AssignRead, UpdateRead, PayRead, DeactivateRead,
       Rides

\* Nobody comes to carry an order without becoming busy.
LEMMA NoSecretRide ==
  ASSUME TypeInv, RideInv, Rides, NEW d \in Drivers, person'[d] = person[d], Carries(d) = {}
  PROVE  Carries(d)' = {}
<1> SUFFICES ASSUME NEW p \in Orders, dlv'[p].driver = d, Open(dlv'[p].status) PROVE FALSE
  BY DEF Carries
<1>1. ~(dlv[p].driver = d /\ Open(dlv[p].status))
  BY DEF Carries
<1>2. ASSUME NEW o \in Orders, NEW c \in Drivers, Taken(o, c) PROVE FALSE
  <2>1. o = p /\ c = d
    BY <1>1, <1>2 DEF Taken, TypeInv, TypeOK
  <2>2. person'[d].status = "busy" /\ ~Busy(d)
    BY <1>2, <2>1 DEF Taken, TypeInv, TypeOK, PersonRow
  <2>3. QED
    BY <2>2 DEF Busy
<1>3. ASSUME NEW o \in Orders, NEW to, Rode(o, to) PROVE FALSE
  BY <1>1, <1>3 DEF Rode, TypeInv, TypeOK, DeliveryRow
<1>4. ASSUME NEW o \in Orders, NEW to, Ended(o, to) PROVE FALSE
  BY <1>1, <1>4 DEF Ended, TypeInv, TypeOK, DeliveryRow, Open
<1>5. QED
  BY <1>1, <1>2, <1>3, <1>4 DEF Rides, Adjusted

\* A request becomes a deactivation only by asking what its courier carries.
LEMMA DeactivationAsks ==
  ASSUME TypeInv, Next, NEW r \in Requests, Runs(r, "deactivate")', work'[r] # work[r]
  PROVE  dlv' = dlv /\ Carries(work'[r].d) = {}
<1>1. ASSUME NEW s \in Requests, NEW q, Enter(s, q), q.op # "deactivate" PROVE FALSE
  BY <1>1 DEF Enter, Runs, TypeInv, TypeOK
<1>2. ASSUME NEW s \in Requests, Leave(s) PROVE FALSE
  BY <1>2 DEF Leave, Runs, Idle, TypeInv, TypeOK
<1>3. ASSUME UNCHANGED work PROVE FALSE
  BY <1>3
<1>4. ASSUME NEW s \in Requests, Commits(s) PROVE FALSE
  <2>1. ASSUME DeliverCommit(s) PROVE FALSE
    <3> DEFINE q == [work[s] EXCEPT !.op = "complete", !.row = dlv'[work[s].o],
                                    !.seen = "expired"]
    <3>1. work[s] \in Work /\ Runs(s, "deliver")
      BY <2>1, Running DEF DeliverCommit, TypeInv
    <3>2. q.op = "complete"
      BY <3>1 DEF Work, Runs
    <3>3. Enter(s, q)
      BY <2>1 DEF DeliverCommit
    <3>4. QED
      BY <1>1, <3>2, <3>3
  <2>2. QED
    BY <1>2, <1>4, <2>1 DEF Commits, AssignCommit, MoveCommit, ProblemCommit, CompleteCommit,
       PayCommit, DeactivateCommit, Abort
<1>5. ASSUME NEW s \in Requests, NEW op \in {"assign", "move", "problem", "deliver", "complete"},
             NEW o, NEW d, NEW to, Enter(s, Snapshot(op, o, d, to))
      PROVE FALSE
  BY <1>1, <1>5 DEF Snapshot
<1>6. ASSUME NEW s \in Requests, NEW e, PayRead(s, e) PROVE FALSE
  BY <1>1, <1>6 DEF PayRead
<1>7. PICK s \in Requests, d \in Drivers : DeactivateRead(s, d)
  BY <1>3, <1>4, <1>5, <1>6 DEF Next, Environment, KitchenReady, OrderMoves, Archive,
     PaymentMoves, ReturnToKitchen, ConfirmPayment, AdminComplete, KdsAssign, SetPersonStatus,
     SetPersonAccess, StartRead, ProblemRead, CompleteRead, AssignRead, UpdateRead
<1>8. s = r /\ work'[r].d = d
  BY <1>7 DEF DeactivateRead, Enter, TypeInv, TypeOK
<1>9. QED
  BY <1>7, <1>8 DEF DeactivateRead, Carries

LEMMA QuietStays ==
  ASSUME TypeInv, RideInv, Quiet, Undisturbed, Next, Rides
  PROVE  Quiet'
<1> SUFFICES ASSUME NEW r \in Requests, Runs(r, "deactivate")'
             PROVE  (Carries(work[r].d) = {})'
  BY DEF Quiet
<1>1. CASE work'[r] = work[r]
  <2>1. Runs(r, "deactivate") /\ work[r].d \in Drivers /\ ~Free(r)
    BY <1>1, Running DEF Runs, Free, Idle, TypeInv
  <2>2. person'[work[r].d] = person[work[r].d]
    BY <1>1, <2>1, Values DEF Undisturbed, Runs
  <2>3. Carries(work[r].d) = {}
    BY <2>1 DEF Quiet
  <2>4. ASSUME NEW d \in Drivers, person'[d] = person[d], Carries(d) = {}, work'[r].d = d
        PROVE (Carries(work[r].d) = {})'
    BY <2>4, NoSecretRide DEF Carries
  <2>5. QED
    BY <1>1, <2>1, <2>2, <2>3, <2>4
<1>2. CASE work'[r] # work[r]
  BY <1>2, DeactivationAsks DEF Carries
<1>3. QED
  BY <1>1, <1>2

LEMMA RidesCount == TypeInv /\ RideInv => BusyIffCarrying
<1> SUFFICES ASSUME TypeInv, RideInv, NEW d \in Drivers
             PROVE  /\ Cardinality(Carries(d)) <= 1
                    /\ Carries(d) # {} => person[d].status = "busy"
                    /\ person[d].status = "busy" =>
                         \/ Carries(d) # {}
                         \/ \E o \in Orders : dlv[o] = [status |-> "delivered", driver |-> d]
  BY DEF BusyIffCarrying
<1>1. \A o, p \in Carries(d) : o = p
  BY DEF Carries, RideInv, Out, Courier
<1>2. Cardinality(Carries(d)) <= 1
  <2>1. CASE Carries(d) = {}
    BY <2>1, FS_EmptySet
  <2>2. CASE Carries(d) # {}
    <3>1. PICK o \in Carries(d) : TRUE
      BY <2>2
    <3>2. Carries(d) = {o}
      BY <1>1, <3>1
    <3>3. Cardinality({o}) = 1
      BY FS_Singleton
    <3>4. QED
      BY <3>2, <3>3
  <2>3. QED
    BY <2>1, <2>2
<1>3. Carries(d) # {} => person[d].status = "busy"
  BY DEF Carries, RideInv, Busy, Courier
<1>4. ASSUME person[d].status = "busy", Carries(d) = {}
      PROVE  \E o \in Orders : dlv[o] = [status |-> "delivered", driver |-> d]
  <2>1. PICK o \in Orders : Out(o) /\ Courier(o) = d
    BY <1>4 DEF RideInv, Busy
  <2>2. dlv[o].status = "delivered" /\ dlv[o].driver = d /\ dlv[o] \in DeliveryRow
    BY <1>4, <2>1 DEF Out, Courier, Carries, TypeInv, TypeOK
  <2>3. QED
    BY <2>2 DEF DeliveryRow
<1>5. QED
  BY <1>2, <1>3, <1>4

\* While nobody writes a delivery or a courier under a request that works on it, and
\* the admin takes no way around the services: whoever carries an order is busy and
\* carries no other, and whoever is busy carries one, or has one to complete.
THEOREM BusyCarry ==
  ASSUME CarefulAdmin
  PROVE  Spec /\ [][Undisturbed]_vars => []BusyIffCarrying
<1>1. Init => RideInv /\ Quiet
  <2> SUFFICES ASSUME Init PROVE RideInv /\ Quiet
    OBVIOUS
  <2>1. \A o \in Orders : dlv[o].status = Missing
    BY DEF Init
  <2>2. \A o \in Orders : ~Out(o) /\ ~Open(dlv[o].status)
                          /\ dlv[o].status # "pending_assignment"
    BY <2>1 DEF Out, Open, Missing
  <2>3. \A d \in Drivers : ~Busy(d)
    BY DEF Init, Busy
  <2>4. RideInv
    BY <2>2, <2>3 DEF RideInv
  <2>5. Quiet
    BY DEF Init, Quiet, Runs, Idle
  <2>6. QED
    BY <2>4, <2>5
<1>2. /\ TypeInv /\ NowInv /\ RideInv /\ Quiet
      /\ [Next]_vars /\ [Undisturbed]_vars
      => RideInv' /\ Quiet'
  <2> SUFFICES ASSUME TypeInv, NowInv, RideInv, Quiet, [Next]_vars, [Undisturbed]_vars
               PROVE  RideInv' /\ Quiet'
    OBVIOUS
  <2>1. ASSUME UNCHANGED vars PROVE RideInv' /\ Quiet'
    BY <2>1 DEF vars, RideInv, Quiet, Out, Courier, Busy, Carries, Runs
  <2>2. ASSUME Next, Undisturbed PROVE RideInv' /\ Quiet'
    <3>1. Rides
      BY <2>2, CommitRides, OthersRide, ReadsRide DEF Next
    <3>2. QED
      BY <2>2, <3>1, RidesKeep, QuietStays
  <2>3. QED
    BY <2>1, <2>2
<1>3. TypeInv /\ RideInv => BusyIffCarrying
  BY RidesCount
<1>4. QED
  BY <1>1, <1>2, <1>3, Currently, PTL DEF Spec

-----------------------------------------------------------------------------
(* Orders and their deliveries.                                            *)

\* OrderFollowsDelivery of one order.
Tale(o) ==
  /\ dlv[o].status = "on_the_way" => ord[o] \in {"on_the_way", "delivered", "cancelled"}
  /\ dlv[o].status \in {"delivered", "completed"} => ord[o] = "delivered"

LEMMA OtherTales ==
  ASSUME OrderFollowsDelivery, NEW o \in Orders, Tale(o)',
         \A p \in Orders \ {o} : dlv'[p].status = dlv[p].status /\ ord'[p] = ord[p]
  PROVE  OrderFollowsDelivery'
BY DEF OrderFollowsDelivery, Tale

\* What delivers brings the order along, what ends a ride leaves it.
LEMMA MovedTale ==
  ASSUME TypeInv, OrderFollowsDelivery, NEW q, NEW to, q.o \in Orders, q.row = dlv[q.o],
         DeliveryMay(dlv[q.o].status, to), Moved(q, to),
         \/ q.ord = ord[q.o] /\ ord' = OrderAlong(q, to)
         \/ to \in {"failed", "completed"} /\ ord' = ord
  PROVE  OrderFollowsDelivery'
<1>1. dlv' = [dlv EXCEPT ![q.o].status = to]
  BY MovedNow
<1>2. dlv'[q.o].status = to
  BY <1>1 DEF TypeInv, TypeOK, DeliveryRow
<1>3. \A p \in Orders \ {q.o} : dlv'[p].status = dlv[p].status
  BY <1>1 DEF TypeInv, TypeOK
<1>4. ord[q.o] \in OrderStage
  BY DEF TypeInv, TypeOK
<1>5. CASE q.ord = ord[q.o] /\ ord' = OrderAlong(q, to)
  <2>1. \A p \in Orders \ {q.o} : ord'[p] = ord[p]
    BY <1>5 DEF OrderAlong, TypeInv, TypeOK
  <2>2. to \in {"on_the_way", "delivered"} => ord'[q.o] = to
    BY <1>5 DEF OrderAlong, Col, TypeInv, TypeOK
  <2>3. to \notin {"on_the_way", "delivered"} => ord'[q.o] = ord[q.o]
    BY <1>5 DEF OrderAlong
  <2>4. to = "completed" => dlv[q.o].status = "delivered"
    BY DEF DeliveryMay, CanTransition, DeliveryTransitions
  <2>5. \A x, y : (x = to /\ y = ord'[q.o]) =>
          /\ x = "on_the_way" => y \in {"on_the_way", "delivered", "cancelled"}
          /\ x \in {"delivered", "completed"} => y = "delivered"
    BY <2>2, <2>3, <2>4 DEF OrderFollowsDelivery
  <2>6. \A p \in Orders :
          /\ dlv'[p].status = "on_the_way" => ord'[p] \in {"on_the_way", "delivered", "cancelled"}
          /\ dlv'[p].status \in {"delivered", "completed"} => ord'[p] = "delivered"
    BY <1>2, <1>3, <2>1, <2>5 DEF OrderFollowsDelivery
  <2>7. QED
    BY <2>6 DEF OrderFollowsDelivery
<1>6. CASE to \in {"failed", "completed"} /\ ord' = ord
  <2>1. to = "completed" => dlv[q.o].status = "delivered"
    BY DEF DeliveryMay, CanTransition, DeliveryTransitions
  <2>2. \A p \in Orders :
          /\ dlv'[p].status = "on_the_way" => ord'[p] \in {"on_the_way", "delivered", "cancelled"}
          /\ dlv'[p].status \in {"delivered", "completed"} => ord'[p] = "delivered"
    BY <1>2, <1>3, <1>6, <2>1 DEF OrderFollowsDelivery
  <2>3. QED
    BY <2>2 DEF OrderFollowsDelivery
<1>7. QED
  BY <1>5, <1>6

LEMMA CommitsTale ==
  ASSUME TypeInv, NowInv, OrderFollowsDelivery, NEW r \in Requests, Commits(r)
  PROVE  OrderFollowsDelivery'
<1> DEFINE q == work[r]
<1>1. ~Free(r) => Now(q)
  BY DEF NowInv
<1>2. ASSUME AssignCommit(r) PROVE OrderFollowsDelivery'
  <2>1. Runs(r, "assign") /\ q.o \in Orders
    BY <1>2, Running DEF AssignCommit, TypeInv
  <2>2. q.row = dlv[q.o] /\ dlv[q.o].status \in Reassignable
    BY <1>1, <2>1 DEF Now, OnOrder, Runs, Free, Idle
  <2>3. dlv'[q.o].status = "assigned"
    BY <1>2, <2>1, <2>2 DEF AssignCommit, SaveDelivery, Col, TypeInv, TypeOK
  <2>4. \A p \in Orders \ {q.o} : dlv'[p] = dlv[p]
    BY <1>2 DEF AssignCommit, TypeInv, TypeOK
  <2>5. ord' = ord
    BY <1>2 DEF AssignCommit
  <2>6. QED
    BY <2>3, <2>4, <2>5 DEF OrderFollowsDelivery
<1>3. ASSUME MoveCommit(r) PROVE OrderFollowsDelivery'
  <2>1. q.op = "move" /\ q.o \in Orders
    BY <1>3, Running DEF MoveCommit, Runs, TypeInv
  <2>2. q.row = dlv[q.o] /\ DeliveryMay(q.row.status, q.to) /\ q.ord = ord[q.o]
    BY <1>1, <2>1 DEF Now, OnOrder, Free, Idle
  <2>3. QED
    BY <1>3, <2>1, <2>2, MovedTale DEF MoveCommit
<1>4. ASSUME ProblemCommit(r) PROVE OrderFollowsDelivery'
  <2>1. q.op = "problem" /\ q.o \in Orders
    BY <1>4, Running DEF ProblemCommit, Runs, TypeInv
  <2>2. q.row = dlv[q.o] /\ DeliveryMay(q.row.status, "failed")
    BY <1>1, <2>1 DEF Now, OnOrder, Free, Idle
  <2>3. QED
    BY <1>4, <2>1, <2>2, MovedTale DEF ProblemCommit
<1>5. ASSUME DeliverCommit(r) PROVE OrderFollowsDelivery'
  <2>1. q.op = "deliver" /\ q.o \in Orders
    BY <1>5, Running DEF DeliverCommit, Runs, TypeInv
  <2>2. q.row = dlv[q.o] /\ q.row.status = "on_the_way" /\ q.ord = ord[q.o]
    BY <1>1, <2>1 DEF Now, OnOrder, Free, Idle
  <2>3. DeliveryMay("on_the_way", "delivered")
    BY DEF DeliveryMay, CanTransition, DeliveryTransitions
  <2>4. QED
    BY <1>5, <2>1, <2>2, <2>3, MovedTale DEF DeliverCommit
<1>6. ASSUME CompleteCommit(r) PROVE OrderFollowsDelivery'
  <2>1. q.op = "complete" /\ q.o \in Orders
    BY <1>6, Running DEF CompleteCommit, Runs, TypeInv
  <2>2. q.row = dlv[q.o]
    BY <1>1, <2>1 DEF Now, OnOrder, Free, Idle
  <2>3. QED
    BY <1>6, <2>1, <2>2, MovedTale DEF CompleteCommit
<1>7. ASSUME UNCHANGED <<ord, dlv>> PROVE OrderFollowsDelivery'
  BY <1>7 DEF OrderFollowsDelivery
<1>8. QED
  BY <1>2, <1>3, <1>4, <1>5, <1>6, <1>7 DEF Commits, PayCommit, DeactivateCommit, Abort

LEMMA OthersTale ==
  ASSUME TypeInv, OrderFollowsDelivery,
         \/ \E o \in Orders : Environment(o) \/ ConfirmPayment(o) \/ AdminComplete(o)
         \/ \E o \in Orders, d \in Drivers : KdsAssign(o, d)
         \/ \E d \in Drivers, status \in {"available", "offline"} : SetPersonStatus(d, status)
         \/ \E d \in Drivers, active \in BOOLEAN : SetPersonAccess(d, active)
  PROVE  OrderFollowsDelivery'
<1>1. ASSUME UNCHANGED <<ord, dlv>> PROVE OrderFollowsDelivery'
  BY <1>1 DEF OrderFollowsDelivery
<1>2. ASSUME NEW o \in Orders, ReturnToKitchen(o) PROVE OrderFollowsDelivery'
  <2>1. dlv[o].status \in {"pending_assignment", "assigned"} \cup Reassignable
    BY <1>2 DEF ReturnToKitchen
  <2>2. dlv'[o].status = dlv[o].status \/ dlv'[o].status = "cancelled"
    BY <1>2 DEF ReturnToKitchen, TypeInv, TypeOK, DeliveryRow
  <2>3. \A p \in Orders \ {o} : dlv'[p].status = dlv[p].status /\ ord'[p] = ord[p]
    BY <1>2 DEF ReturnToKitchen, TypeInv, TypeOK, DeliveryRow
  <2>4. Tale(o)'
    BY <2>1, <2>2 DEF Tale, Reassignable, Missing
  <2>5. QED
    BY <2>3, <2>4, OtherTales
<1>3. ASSUME NEW o \in Orders, NEW to \in OrderStage, OrderMoves(o, to)
      PROVE OrderFollowsDelivery'
  <2>1. to \in OrderTransitions[ord[o]] /\ ord[o] \in OrderStage
    BY <1>3 DEF OrderMoves, OrderMay, CanTransition, TypeInv, TypeOK
  <2>2. /\ ord[o] # "delivered" /\ ord[o] # "cancelled"
        /\ ord[o] = "on_the_way" => to \in {"delivered", "cancelled"}
    BY <2>1 DEF OrderTransitions, OrderStage
  <2>3. dlv' = dlv /\ ord'[o] = to
    BY <1>3 DEF OrderMoves, TypeInv, TypeOK
  <2>4. \A p \in Orders \ {o} : ord'[p] = ord[p]
    BY <1>3 DEF OrderMoves, TypeInv, TypeOK
  <2>5. Tale(o)'
    BY <2>2, <2>3 DEF Tale, OrderFollowsDelivery
  <2>6. QED
    BY <2>3, <2>4, <2>5, OtherTales
<1>4. ASSUME NEW o \in Orders, AdminComplete(o) PROVE OrderFollowsDelivery'
  <2>1. dlv'[o].status = "completed" /\ ord' = ord
    BY <1>4 DEF AdminComplete, TypeInv, TypeOK, DeliveryRow
  <2>2. \A p \in Orders \ {o} : dlv'[p].status = dlv[p].status
    BY <1>4 DEF AdminComplete, TypeInv, TypeOK
  <2>3. Tale(o)'
    BY <1>4, <2>1 DEF Tale, OrderFollowsDelivery, AdminComplete
  <2>4. QED
    BY <2>1, <2>2, <2>3, OtherTales
<1>5. ASSUME NEW o \in Orders, NEW d \in Drivers, KdsAssign(o, d) PROVE OrderFollowsDelivery'
  <2>1. dlv'[o].status = "assigned" /\ ord' = ord
    BY <1>5 DEF KdsAssign, TypeInv, TypeOK
  <2>2. \A p \in Orders \ {o} : dlv'[p] = dlv[p]
    BY <1>5 DEF KdsAssign, TypeInv, TypeOK
  <2>3. QED
    BY <2>1, <2>2 DEF OrderFollowsDelivery
<1>6. QED
  BY <1>1, <1>2, <1>3, <1>4, <1>5 DEF Environment, KitchenReady, Archive, PaymentMoves,
     ConfirmPayment, SetPersonStatus, SetPersonAccess

\* While nobody writes a delivery or an order under a request that works on it: an
\* order whose courier is under way has left the shop, and what the courier handed
\* over is a delivered order, whatever statuses an admin sets by hand.
THEOREM OrdersGoAlong == Spec /\ [][Undisturbed]_vars => []OrderFollowsDelivery
<1>1. Init => OrderFollowsDelivery
  BY DEF Init, OrderFollowsDelivery, Missing
<1>2. TypeInv /\ NowInv /\ OrderFollowsDelivery /\ [Next]_vars => OrderFollowsDelivery'
  <2> SUFFICES ASSUME TypeInv, NowInv, OrderFollowsDelivery, [Next]_vars
               PROVE  OrderFollowsDelivery'
    OBVIOUS
  <2>1. ASSUME UNCHANGED <<ord, dlv>> PROVE OrderFollowsDelivery'
    BY <2>1 DEF OrderFollowsDelivery
  <2>2. QED
    BY <2>1, CommitsTale, OthersTale DEF Next, vars, StartRead, ProblemRead, CompleteRead,
       AssignRead, UpdateRead, PayRead, DeactivateRead
<1>3. QED
  BY <1>1, <1>2, Currently, PTL DEF Spec

-----------------------------------------------------------------------------
(* Money and earnings, with couriers who give up.                          *)

\* A failure report overwrites only a payment that is still due, and nothing was
\* handed over or earned for that one.
LEMMA CommitsCollect ==
  ASSUME "delivered" \notin StatusTargets, TypeInv, NowInv, Collected,
         NEW r \in Requests, Commits(r)
  PROVE  Collected'
<1> DEFINE q == work[r]
           Shown == \A o \in Orders : dlv'[o].status \in {"delivered", "completed"} =>
                      dlv[o].status \in {"delivered", "completed"} \/ PaidFor(o)
           Gained == \A e \in Earnings : earning'[e] # NoEarning =>
                      \/ earning[e] # NoEarning /\ earning'[e].order = earning[e].order
                      \/ earning'[e].order \in Orders /\ PaidFor(earning'[e].order)
<1>1. ~Free(r) => Now(q)
  BY DEF NowInv
<1>2. ASSUME UNCHANGED <<dlv, cash, earning>> PROVE Collected'
  BY <1>2 DEF Collected, PaidFor
<1>3. ASSUME AssignCommit(r) PROVE Collected'
  <2>1. UNCHANGED <<earning, cash>>
    BY <1>3 DEF AssignCommit
  <2>2. Shown
    BY <1>3 DEF AssignCommit, SaveDelivery, Col, TypeInv, TypeOK
  <2>3. QED
    BY <2>1, <2>2, SameCash, CollectedStays
<1>4. ASSUME MoveCommit(r) PROVE Collected'
  <2>1. q.op = "move" /\ q.o \in Orders /\ Moved(q, q.to) /\ UNCHANGED cash
    BY <1>4, Running DEF MoveCommit, Runs, TypeInv
  <2>2. q.row = dlv[q.o] /\ DeliveryMay(q.row.status, q.to)
        /\ q.to \in StatusTargets \cup {"on_the_way"}
    BY <1>1, <2>1 DEF Now, OnOrder, Free, Idle
  <2>3. q.to # "delivered" /\ (q.to = "completed" => dlv[q.o].status = "delivered")
    BY <2>2 DEF DeliveryMay, CanTransition, DeliveryTransitions
  <2>4. Shown
    BY <2>1, <2>3, MovedStatus
  <2>5. \A e \in q.owed : earning[e] \in EarningRow
    BY <1>4 DEF MoveCommit, TypeInv, Known
  <2>6. Gained
    BY <1>4, <2>5 DEF MoveCommit, OwedCancelled, EarningRow, NoEarning, Missing
  <2>7. QED
    BY <2>1, <2>4, <2>6, SameCash, CollectedStays
<1>5. ASSUME ProblemCommit(r) PROVE Collected'
  <2>1. q.op = "problem" /\ q.o \in Orders /\ Moved(q, "failed")
    BY <1>5, Running DEF ProblemCommit, Runs, TypeInv
  <2>2. q.cash = cash[q.o]
    BY <1>1, <2>1 DEF Now, Free, Idle
  <2>3. StillPaid
    BY <1>5, <2>1, <2>2 DEF ProblemCommit, StillPaid, PaidFor, TypeInv, TypeOK
  <2>4. Shown
    BY <2>1, MovedStatus
  <2>5. \A e \in q.owed : earning[e] \in EarningRow
    BY <1>5 DEF ProblemCommit, TypeInv, Known
  <2>6. Gained
    BY <1>5, <2>5 DEF ProblemCommit, OwedCancelled, EarningRow, NoEarning, Missing
  <2>7. QED
    BY <2>3, <2>4, <2>6, CollectedStays
<1>6. ASSUME DeliverCommit(r) PROVE Collected'
  <2>1. q.op = "deliver" /\ Moved(q, "delivered") /\ UNCHANGED <<cash, earning>>
    BY <1>6 DEF DeliverCommit, Runs
  <2>2. PaidFor(q.o)
    BY <1>1, <2>1 DEF Now, Free, Idle
  <2>3. Shown
    BY <2>1, <2>2, MovedStatus
  <2>4. QED
    BY <2>1, <2>3, SameCash, CollectedStays
<1>7. ASSUME CompleteCommit(r) PROVE Collected'
  <2>1. /\ q.op = "complete" /\ Moved(q, "completed") /\ UNCHANGED cash
        /\ EnsureEarning(q.o, q.row.driver) /\ q.o \in Orders
    BY <1>7, Running DEF CompleteCommit, Runs, TypeInv
  <2>2. PaidFor(q.o)
    BY <1>1, <2>1 DEF Now, Free, Idle
  <2>3. Shown
    BY <2>1, <2>2, MovedStatus
  <2>4. Gained
    BY <2>1, <2>2, EnsurePaid
  <2>5. QED
    BY <2>1, <2>3, <2>4, SameCash, CollectedStays
<1>8. ASSUME PayCommit(r) PROVE Collected'
  <2>1. UNCHANGED <<dlv, cash>> /\ earning[q.e] \in EarningRow
    BY <1>8 DEF PayCommit, TypeInv, Known
  <2>2. Gained
    BY <1>8, <2>1 DEF PayCommit, TypeInv, TypeOK, EarningRow, NoEarning, Missing
  <2>3. QED
    BY <2>1, <2>2, SameCash, CollectedStays
<1>9. QED
  BY <1>2, <1>3, <1>4, <1>5, <1>6, <1>7, <1>8 DEF Commits, DeactivateCommit, Abort

LEMMA OthersCollect ==
  ASSUME TypeInv, Collected,
         \/ \E o \in Orders : Environment(o) \/ ConfirmPayment(o) \/ AdminComplete(o)
         \/ \E o \in Orders, d \in Drivers : KdsAssign(o, d)
         \/ \E d \in Drivers, status \in {"available", "offline"} : SetPersonStatus(d, status)
         \/ \E d \in Drivers, active \in BOOLEAN : SetPersonAccess(d, active)
  PROVE  Collected'
<1> DEFINE Shown == \A o \in Orders : dlv'[o].status \in {"delivered", "completed"} =>
                      dlv[o].status \in {"delivered", "completed"} \/ PaidFor(o)
<1>1. ASSUME UNCHANGED <<dlv, cash, earning>> PROVE Collected'
  BY <1>1 DEF Collected, PaidFor
<1>2. ASSUME NEW o \in Orders, AdminComplete(o) PROVE Collected'
  <2>1. UNCHANGED cash /\ EnsureEarning(o, dlv[o].driver) /\ PaidFor(o)
    BY <1>2 DEF AdminComplete, Collected
  <2>2. Shown
    BY <1>2 DEF AdminComplete, TypeInv, TypeOK
  <2>3. QED
    BY <2>1, <2>2, EnsurePaid, SameCash, CollectedStays
<1>3. ASSUME NEW o \in Orders,
             ConfirmPayment(o) \/ (\E to \in {"approved", "failed"} : PaymentMoves(o, to))
      PROVE Collected'
  <2>1. UNCHANGED <<dlv, earning>> /\ cash[o] = "pending"
    BY <1>3 DEF ConfirmPayment, PaymentMoves
  <2>2. \A p \in Orders \ {o} : cash'[p] = cash[p]
    BY <1>3 DEF ConfirmPayment, PaymentMoves, TypeInv, TypeOK
  <2>3. StillPaid
    BY <2>1, <2>2 DEF StillPaid, PaidFor
  <2>4. QED
    BY <2>1, <2>3, CollectedStays
<1>4. ASSUME NEW o \in Orders, ReturnToKitchen(o) PROVE Collected'
  <2>1. UNCHANGED <<cash, earning>>
    BY <1>4 DEF ReturnToKitchen
  <2>2. Shown
    BY <1>4 DEF ReturnToKitchen, TypeInv, TypeOK
  <2>3. QED
    BY <2>1, <2>2, SameCash, CollectedStays
<1>5. ASSUME NEW o \in Orders, NEW d \in Drivers, KdsAssign(o, d) PROVE Collected'
  <2>1. UNCHANGED <<cash, earning>>
    BY <1>5 DEF KdsAssign
  <2>2. Shown
    BY <1>5 DEF KdsAssign, TypeInv, TypeOK
  <2>3. QED
    BY <2>1, <2>2, SameCash, CollectedStays
<1>6. QED
  BY <1>1, <1>2, <1>3, <1>4, <1>5 DEF Environment, KitchenReady, OrderMoves, Archive,
     SetPersonStatus, SetPersonAccess

\* While nobody writes a delivery or a payment under a request that works on it, and
\* deliveries are handed over in the courier's app: whatever couriers give up, and
\* wherever a request dies, nothing is handed over or earned before the money is there.
THEOREM FailuresCollected ==
  ASSUME "delivered" \notin StatusTargets
  PROVE  Spec /\ [][Undisturbed]_vars => []PaidAtTheDoor
<1>1. Init => Collected
  BY DEF Init, Collected, Missing
<1>2. TypeInv /\ NowInv /\ Collected /\ [Next]_vars => Collected'
  <2> SUFFICES ASSUME TypeInv, NowInv, Collected, [Next]_vars PROVE Collected'
    OBVIOUS
  <2>1. ASSUME UNCHANGED <<dlv, cash, earning>> PROVE Collected'
    BY <2>1 DEF Collected, PaidFor
  <2>2. QED
    BY <2>1, CommitsCollect, OthersCollect DEF Next, vars, StartRead, ProblemRead,
       CompleteRead, AssignRead, UpdateRead, PayRead, DeactivateRead
<1>3. Collected => PaidAtTheDoor
  BY DEF Collected, PaidAtTheDoor, Earned, PaidFor
<1>4. QED
  BY <1>1, <1>2, <1>3, Currently, PTL DEF Spec

\* A payout, a completion or a failure report gives no delivery a second earning.
LEMMA CommitsPayOnce ==
  ASSUME TypeInv, NowInv, AtMostOne, NEW r \in Requests, Commits(r)
  PROVE  AtMostOne'
<1>1. ASSUME \A o \in Orders : Earned(o)' \subseteq Earned(o) PROVE AtMostOne'
  BY <1>1 DEF AtMostOne
<1>2. ASSUME UNCHANGED earning PROVE AtMostOne'
  BY <1>2 DEF AtMostOne, Earned
<1>3. ASSUME MoveCommit(r) \/ ProblemCommit(r) PROVE AtMostOne'
  <2>1. \A e \in work[r].owed : earning[e] \in EarningRow
    BY <1>3 DEF MoveCommit, ProblemCommit, TypeInv, Known
  <2>2. earning' = earning \/ earning' = OwedCancelled(work[r])
    BY <1>3 DEF MoveCommit, ProblemCommit
  <2>3. \A o \in Orders : Earned(o)' \subseteq Earned(o)
    BY <2>1, <2>2 DEF Earned, OwedCancelled, EarningRow, NoEarning, Missing
  <2>4. QED
    BY <1>1, <2>3
<1>4. ASSUME CompleteCommit(r) PROVE AtMostOne'
  BY <1>4, Running, EnsureOnce DEF CompleteCommit, TypeInv
<1>5. ASSUME PayCommit(r) PROVE AtMostOne'
  <2> DEFINE p == work[r].e
  <2>1. p \in Earnings /\ earning[p] \in EarningRow /\ Runs(r, "pay")
    BY <1>5, Running DEF PayCommit, TypeInv, Known
  <2>2. earning[p].status = "pending"
    BY <2>1 DEF NowInv, Now, Runs, Free, Idle
  <2>3. \A e \in Earnings : e # p => earning'[e] = earning[e]
    BY <1>5 DEF PayCommit, TypeInv, TypeOK
  <2>4. earning'[p].order = earning[p].order
    BY <1>5, <2>1 DEF PayCommit, TypeInv, TypeOK, EarningRow
  <2>5. \A o \in Orders : Earned(o)' \subseteq Earned(o)
    BY <2>1, <2>2, <2>3, <2>4 DEF Earned, EarningRow, NoEarning, Missing
  <2>6. QED
    BY <1>1, <2>5
<1>6. QED
  BY <1>2, <1>3, <1>4, <1>5 DEF Commits, AssignCommit, DeliverCommit, DeactivateCommit, Abort

\* While nobody writes an earning under its payout: a delivery has at most one
\* earning that is due or paid, however often couriers give up and start again.
THEOREM FailuresPaidOnce == Spec /\ [][Undisturbed]_vars => []EarnedOnce
<1>1. Init => AtMostOne
  BY DEF Init, AtMostOne, Earned
<1>2. TypeInv /\ NowInv /\ AtMostOne /\ [Next]_vars => AtMostOne'
  <2> SUFFICES ASSUME TypeInv, NowInv, AtMostOne, [Next]_vars PROVE AtMostOne'
    OBVIOUS
  <2>1. ASSUME UNCHANGED earning PROVE AtMostOne'
    BY <2>1 DEF AtMostOne, Earned
  <2>2. ASSUME NEW o \in Orders, AdminComplete(o) PROVE AtMostOne'
    BY <2>2, EnsureOnce DEF AdminComplete
  <2>3. QED
    BY <2>1, <2>2, CommitsPayOnce DEF Next, vars, Environment, KitchenReady, OrderMoves,
       Archive, PaymentMoves, ReturnToKitchen, ConfirmPayment, KdsAssign, SetPersonStatus,
       SetPersonAccess, StartRead, ProblemRead, CompleteRead, AssignRead, UpdateRead, PayRead,
       DeactivateRead
<1>3. TypeInv /\ AtMostOne => EarnedOnce
  BY AtMostOneCounts
<1>4. QED
  BY <1>1, <1>2, <1>3, Currently, PTL DEF Spec

\* One request at a time: the instance that TLC runs.
THEOREM OneRequestIsEnough ==
  (\A r, s \in Requests : r = s) => (Spec => [][Undisturbed]_vars)
<1> SUFFICES ASSUME \A r, s \in Requests : r = s
             PROVE  Spec => [][Undisturbed]_vars
  OBVIOUS
<1>1. TypeInv /\ [Next]_vars => [Undisturbed]_vars
  <2> SUFFICES ASSUME TypeInv, Next, NEW r \in Requests, ~Free(r), work'[r] = work[r]
               PROVE  UNCHANGED <<dlv, ord, cash, person, earning>>
    BY DEF Undisturbed, vars
  <2>1. ~SomeFree
    BY DEF SomeFree
  <2>2. \A q : Enter(r, q) => q = work[r]
    BY DEF Enter, TypeInv, TypeOK
  <2>3. ~Leave(r)
    BY <2>2 DEF Leave, Enter, Free
  <2>4. ~DeliverCommit(r)
    <3> DEFINE q == [work[r] EXCEPT !.op = "complete", !.row = dlv'[work[r].o],
                                    !.seen = "expired"]
    <3>1. SUFFICES ASSUME DeliverCommit(r) PROVE FALSE
      OBVIOUS
    <3>2. work[r] \in Work /\ Runs(r, "deliver") /\ Enter(r, q)
      BY <3>1, Running DEF DeliverCommit, TypeInv
    <3>3. q.op = "complete"
      BY <3>2 DEF Work, Runs
    <3>4. QED
      BY <2>2, <3>2, <3>3 DEF Runs
  <2>5. ~Commits(r)
    BY <2>3, <2>4 DEF Commits, AssignCommit, MoveCommit, ProblemCommit, CompleteCommit,
       PayCommit, DeactivateCommit, Abort
  <2>6. QED
    BY <2>1, <2>5 DEF Next, Environment, KitchenReady, OrderMoves, Archive, PaymentMoves,
       ReturnToKitchen, ConfirmPayment, AdminComplete, KdsAssign, SetPersonStatus,
       SetPersonAccess, StartRead, ProblemRead, CompleteRead, AssignRead, UpdateRead, PayRead,
       DeactivateRead
<1>2. QED
  BY <1>1, DeliveryTypes, PTL DEF Spec
=============================================================================
