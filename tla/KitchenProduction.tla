------------------------- MODULE KitchenProduction -------------------------
(***************************************************************************)
(* The production units of the kitchen: one physical pizza, esfiha or      *)
(* drink of an order each, made in one or more attempts                    *)
(* (kds_production_service.py), dispatched and sent back                   *)
(* (kds_service.py), with the ingredients each attempt takes and the gates *)
(* that hold the order back until its units are finished.                  *)
(*                                                                         *)
(* Every command locks the attempt, its unit and its order, or the order   *)
(* alone, before it decides, and refuses a version that is not the row's:  *)
(* a command is one step, and one from a stale screen does nothing.  Two   *)
(* commands read without a lock and write later: what sends an order off,  *)
(* and an admin who releases one that has no units to the dispatch.        *)
(***************************************************************************)
EXTENDS Naturals, Sequences, FiniteSets, StatusGraphs

CONSTANTS
  Orders, Units,
  OrderOf,      \* the order a unit belongs to
  Drinks,       \* units that need no kitchen, of station "expedicao"
  Pickups,      \* orders the customer fetches; the others are delivered
  StockSize,    \* units of the ingredient on the shelf at the start
  MaxAttempts,  \* bound: the attempts of a unit
  ByRoad,       \* bound: the orders that are sent off by a driver or an admin
  ByHand        \* bound: the orders that an admin releases to the dispatch

ASSUME KitchenAssumption ==
  /\ OrderOf \in [Units -> Orders]
  /\ Drinks \subseteq Units /\ Pickups \subseteq Orders /\ ByRoad \subseteq Orders
  /\ ByHand \subseteq Orders
  /\ IsFiniteSet(Units)
  /\ StockSize \in Nat /\ MaxAttempts \in [Units -> Nat \ {0}]

VARIABLES
  order,     \* status of an order
  archived,  \* orders with archived_at
  unit,      \* state of a unit, "none" before it has a row
  attempts,  \* attempts of a unit, in the order of attempt_number
  closed,    \* the attempt that dispatch closed the unit with, 0: it is open
  courier,   \* orders with a courier assigned by the dispatch screen
  ahead,     \* <<x, y>>: of the stock checks that run, x was requested before y
  waited,    \* those whose five seconds are over
  shelf,     \* what is left of the ingredient
  sale,      \* orders whose ingredients were deducted as a whole
  leaving,   \* orders that a request has found finished and will send off
  releasing, \* orders that an admin has found without units and will release
  overtaken  \* history: those that had units at work when that was written

work == <<unit, attempts, closed>>
stock == <<shelf, sale>>
queue == <<ahead, waited>>
hand == <<releasing, overtaken>>
vars == <<order, archived, courier, leaving, hand, work, stock, queue>>

AttemptStates ==
  {"queued", "checking_stock", "aguardando_analise", "atendimento",
   "assembling", "assembled", "baking", "checking", "ready", "cancelled"}

Modes == {"none", "attempts", "legacy_covered", "disabled"}

Attempt == [state : AttemptStates, mode : Modes, lines : BOOLEAN]

Queued == [state |-> "queued", mode |-> "none", lines |-> FALSE]
Served == [Queued EXCEPT !.state = "ready"]

UnitsOf(o) == { u \in Units : OrderOf[u] = o }
KitchenUnits(o) == UnitsOf(o) \ Drinks
HasUnits(o) == \E u \in UnitsOf(o) : attempts[u] # <<>>

Final(u) == attempts[u][Len(attempts[u])]

-----------------------------------------------------------------------------
(* Rows of an order that is put in the kitchen's queue *)

\* A drink needs no kitchen: whatever is open of it is ready.
DrinkReady(tries) ==
  [ n \in DOMAIN tries |->
      IF tries[n].state \in {"ready", "cancelled"} THEN tries[n]
      ELSE [tries[n] EXCEPT !.state = "ready"] ]

FirstAttempt(u) ==
  IF u \in Drinks THEN <<Served>> ELSE <<Queued>>

WithUnits(o) ==
  [ u \in Units |->
      IF OrderOf[u] # o THEN attempts[u]
      ELSE IF attempts[u] = <<>> THEN FirstAttempt(u)
      ELSE IF u \in Drinks THEN DrinkReady(attempts[u]) ELSE attempts[u] ]

InitializeUnits(o) ==
  /\ attempts' = WithUnits(o)
  /\ unit' = [ u \in Units |->
                 IF OrderOf[u] # o THEN unit[u]
                 ELSE IF u \in Drinks THEN "ready"
                 ELSE IF attempts[u] = <<>> THEN "queued" ELSE unit[u] ]
  /\ UNCHANGED closed

\* A screen may ask for the rows at any time and whatever the order's status.
InitializeOrder(o) ==
  /\ InitializeUnits(o)
  /\ UNCHANGED <<order, archived, courier, leaving, hand, stock, queue>>

\* The sale writer leaves an order alone that has units, so nothing is deducted.
StartPreparation(o) ==
  /\ o \notin archived /\ order[o] = "pago"
  /\ InitializeUnits(o)
  /\ order' = [order EXCEPT ![o] = "preparing"]
  /\ UNCHANGED <<archived, courier, leaving, hand, stock, queue>>

\* change_status takes an order that is not paid yet straight to the kitchen,
\* without units; where the deduction on sale is enabled it is made for all of it.
SaleDeducts(o) ==
  /\ UnitsOf(o) # {} /\ ~HasUnits(o) /\ o \notin sale
  /\ Cardinality(KitchenUnits(o)) <= shelf
  /\ shelf' = shelf - Cardinality(KitchenUnits(o))
  /\ sale' = sale \cup {o}

PrepareUnpaid(o) ==
  /\ o \notin archived /\ order[o] = "aguardando_pagamento"
  /\ order' = [order EXCEPT ![o] = "preparing"]
  /\ SaleDeducts(o) \/ UNCHANGED stock
  /\ UNCHANGED <<archived, courier, leaving, hand, work, queue>>

-----------------------------------------------------------------------------
(* Commands on one attempt.  A command is for any attempt whose id a screen *)
(* knows, the current one or an earlier one.                                *)

InState(u, n, s) ==
  /\ n \in DOMAIN attempts[u] /\ attempts[u][n].state = s
  /\ OrderOf[u] \notin archived

InKitchen(u) == order[OrderOf[u]] = "preparing"

\* a.state = a.unit.state = ...
Write(u, n, a) ==
  /\ attempts' = [attempts EXCEPT ![u][n] = a]
  /\ unit' = [unit EXCEPT ![u] = a.state]
  /\ UNCHANGED closed

To(u, n, s) == [attempts[u][n] EXCEPT !.state = s]

\* The stock checks that run, each named by its unit and attempt.
Checks ==
  UNION { {u} \X { n \in DOMAIN attempts[u] : attempts[u][n].state = "checking_stock" }
          : u \in Units }

StartStockCheck(u, n) ==
  /\ u \notin Drinks /\ InKitchen(u) /\ InState(u, n, "queued")
  /\ Write(u, n, To(u, n, "checking_stock"))
  /\ ahead' = ahead \cup (Checks \X {<<u, n>>})
  /\ UNCHANGED <<order, archived, courier, leaving, hand, stock, waited>>

\* The five seconds of the checks run out in the order they were asked for.
Waits ==
  /\ \E x \in Checks \ waited :
       /\ \A y \in Checks : <<y, x>> \in ahead => y \in waited
       /\ waited' = waited \cup {x}
  /\ UNCHANGED <<order, archived, courier, leaving, hand, work, stock, ahead>>

\* Those in `gone' run no more.
Forget(gone) ==
  /\ ahead' = { p \in ahead : p[1] \notin gone /\ p[2] \notin gone }
  /\ waited' = waited \ gone

\* Mutant: an attempt is charged although the sale was.
NotCovered(u, n) == FALSE

\* What the sale deducted covers the first attempt of each unit.
Covered(u, n) == OrderOf[u] \in sale /\ n = 1

\* consume_attempt.  The attempt takes one from the shelf, if the production's stock
\* control is on when the setting is read.
Takes(u, n, on) == on /\ ~attempts[u][n].lines /\ ~Covered(u, n)

Supplied(u, n, s, on) ==
  [ state |-> s,
    lines |-> attempts[u][n].lines \/ Takes(u, n, on),
    mode  |-> IF ~on THEN "disabled"
              ELSE IF attempts[u][n].lines \/ Takes(u, n, on) THEN "attempts"
              ELSE "legacy_covered" ]

\* The checks that confirm_stock decides on: those that are over.
Pending == { x \in Checks \cap waited : OrderOf[x[1]] \notin archived }

\* Those that come to the shelf; `on' holds the checks that find the control enabled,
\* for the setting is read for each of them.
Claims(on) ==
  { x \in Pending : InKitchen(x[1]) /\ Takes(x[1], x[2], x \in on) }

\* Mutant: the last one who asked is served first.
ServedBackwards(x, on) == { y \in Claims(on) : y = x \/ <<x, y>> \in ahead }

\* Those that come to it no later than x.
ServedUpTo(x, on) == { y \in Claims(on) : y = x \/ <<y, x>> \in ahead }

\* Each check is decided in a savepoint of its own: the order must be in the kitchen,
\* and those before it must have left something on the shelf.
Granted(x, on) ==
  /\ InKitchen(x[1])
  /\ x \in Claims(on) => Cardinality(ServedUpTo(x, on)) <= shelf

Decided(x, on) ==
  IF Granted(x, on) THEN Supplied(x[1], x[2], "assembling", x \in on)
  ELSE To(x[1], x[2], "aguardando_analise")

ConfirmStock ==
  /\ Pending # {}
  /\ \E on \in SUBSET Pending :
       /\ attempts' = [ u \in Units |-> [ n \in DOMAIN attempts[u] |->
                          IF <<u, n>> \in Pending THEN Decided(<<u, n>>, on)
                          ELSE attempts[u][n] ] ]
       /\ unit' = [ u \in Units |->
                      IF \E n \in DOMAIN attempts[u] : <<u, n>> \in Pending
                      THEN Decided(CHOOSE x \in Pending : x[1] = u, on).state
                      ELSE unit[u] ]
       /\ shelf' = IF Cardinality(Claims(on)) <= shelf
                   THEN shelf - Cardinality(Claims(on)) ELSE 0
  /\ Forget(Pending)
  /\ UNCHANGED <<order, archived, courier, leaving, hand, closed, sale>>

ReturnToService(u, n) ==
  /\ u \notin Drinks /\ InState(u, n, "aguardando_analise")
  /\ Write(u, n, To(u, n, "atendimento"))
  /\ UNCHANGED <<order, archived, courier, leaving, hand, stock, queue>>

\* An attempt that was begun before the stock gate takes its ingredients now.
FinishAssembly(u, n) ==
  /\ u \notin Drinks /\ InKitchen(u) /\ InState(u, n, "assembling")
  /\ \/ /\ attempts[u][n].mode # "none"
        /\ Write(u, n, To(u, n, "assembled")) /\ UNCHANGED shelf
     \/ /\ attempts[u][n].mode = "none"
        /\ \E on \in BOOLEAN :
             /\ Write(u, n, Supplied(u, n, "assembled", on))
             /\ \/ Takes(u, n, on) /\ shelf > 0 /\ shelf' = shelf - 1
                \/ ~Takes(u, n, on) /\ UNCHANGED shelf
  /\ UNCHANGED <<order, archived, courier, leaving, hand, sale, queue>>

\* start-oven, complete-oven and an approving check; a rejecting one changes nothing.
Command(u, n, from, to) ==
  /\ u \notin Drinks /\ InKitchen(u) /\ InState(u, n, from)
  /\ Write(u, n, To(u, n, to))
  /\ UNCHANGED <<order, archived, courier, leaving, hand, stock, queue>>

StartOven(u, n)    == Command(u, n, "assembled", "baking")
CompleteOven(u, n) == Command(u, n, "baking", "checking")
Check(u, n)        == Command(u, n, "checking", "ready")

\* Mutant: the table has no such index.
RemakeableAny(u, n) == n \in DOMAIN attempts[u]

\* An attempt in any state is given up for a new one.  The unique index on unit and
\* attempt number refuses it for an attempt that has a successor.
Remakeable(u, n) == n = Len(attempts[u])

\* Mutant: what has left the kitchen may be remade.
LateRework(u) == TRUE

MayRework(u) == order[OrderOf[u]] = "preparing"

Remake(u, n) ==
  /\ n \in DOMAIN attempts[u] /\ OrderOf[u] \notin archived /\ MayRework(u)
  /\ Remakeable(u, n) /\ Len(attempts[u]) < MaxAttempts[u]
  /\ attempts' = [attempts EXCEPT
                    ![u] = Append([@ EXCEPT ![n].state = "cancelled"], Queued)]
  /\ unit' = [unit EXCEPT ![u] = "queued"]
  /\ Forget({<<u, n>>})
  /\ UNCHANGED <<order, archived, courier, leaving, hand, closed, stock>>

-----------------------------------------------------------------------------
(* The order between kitchen and road *)

\* _assert_all_units_ready: every physical unit the order asks for has a row, is
\* ready, and so is its latest attempt.
KitchenDone(o) ==
  \A u \in KitchenUnits(o) :
    attempts[u] # <<>> /\ unit[u] = "ready" /\ Final(u).state = "ready"

\* ensure_kds_units_ready: what the rows say, read by SQL.
RowsReady(o) == \A u \in UnitsOf(o) : unit[u] \in {"none", "ready", "cancelled"}

\* The check marks the drinks ready in the session, to be written with the commit.
DrinksMarked(o) ==
  /\ attempts' = [ u \in Units |->
                     IF u \in UnitsOf(o) \cap Drinks THEN DrinkReady(attempts[u])
                     ELSE attempts[u] ]
  /\ unit' = [ u \in Units |->
                 IF u \in UnitsOf(o) \cap Drinks /\ attempts[u] # <<>> THEN "ready"
                 ELSE unit[u] ]

\* An order without units, sent to the kitchen unpaid, has only the older gate; and
\* RowsReady does not see yet what the session marked.
MarkReady(o) ==
  /\ o \notin archived /\ order[o] = "preparing"
  /\ HasUnits(o) => KitchenDone(o)
  /\ RowsReady(o)
  /\ DrinksMarked(o)
  /\ order' = [order EXCEPT ![o] = "ready_for_pickup"]
  /\ overtaken' = overtaken \ {o}
  /\ UNCHANGED <<archived, courier, leaving, releasing, closed, stock, queue>>

\* Finished in the attempt that counts; rows that were asked for when the order had
\* left the kitchen without any are untouched.
Finished(tries) ==
  tries = <<>> \/ tries = <<Queued>> \/ tries[Len(tries)].state = "ready"

\* change_status(..., "ready_for_pickup") from the admin's list of orders: refused for
\* an order that has units, which is looked up without a lock.
ReleaseRead(o) ==
  /\ o \in ByHand
  /\ o \notin archived /\ order[o] = "preparing" /\ ~HasUnits(o)
  /\ releasing' = releasing \cup {o}
  /\ UNCHANGED <<order, archived, courier, leaving, overtaken, work, stock, queue>>

\* ... and written over whatever the row, and its units, are by then.
ReleaseCommit(o) ==
  /\ o \in releasing
  /\ releasing' = releasing \ {o}
  /\ order' = [order EXCEPT ![o] = "ready_for_pickup"]
  /\ overtaken' = IF \A u \in UnitsOf(o) : Finished(attempts[u])
                  THEN overtaken \ {o} ELSE overtaken \cup {o}
  /\ UNCHANGED <<archived, courier, leaving, work, stock, queue>>

AtDispatch(o) ==
  o \notin archived /\ order[o] = "ready_for_pickup" /\ KitchenDone(o)

CompleteDispatchUnit(u) ==
  LET o == OrderOf[u]
  IN /\ AtDispatch(o) /\ attempts[u] # <<>> /\ closed[u] = 0
     /\ DrinksMarked(o)
     /\ closed' = [closed EXCEPT ![u] = Len(attempts[u])]
     /\ UNCHANGED <<order, archived, courier, leaving, hand, stock, queue>>

AllClosed(o) == \A u \in UnitsOf(o) : attempts[u] # <<>> => closed[u] # 0

\* By hand, or at once when the last unit was closed.
AssignDriver(o) ==
  /\ AtDispatch(o) /\ AllClosed(o) /\ o \notin Pickups /\ o \notin courier
  /\ DrinksMarked(o)
  /\ courier' = courier \cup {o}
  /\ UNCHANGED <<order, archived, leaving, hand, closed, stock, queue>>

CompletePickup(o) ==
  /\ AtDispatch(o) /\ AllClosed(o) /\ o \in Pickups
  /\ DrinksMarked(o)
  /\ order' = [order EXCEPT ![o] = "delivered"]
  /\ UNCHANGED <<archived, courier, leaving, hand, closed, stock, queue>>

\* Mutant: the mark of the dispatch stays on a unit that is sent back.
StaysClosed(us) == closed

Reopened(us) == [ u \in Units |-> IF u \in us THEN 0 ELSE closed[u] ]

\* Dispatch sends units back, drinks as well: each gets a new attempt, the courier is
\* released and the order is in the kitchen again.
ReturnToKitchen(o, us) ==
  /\ AtDispatch(o)
  /\ us # {} /\ us \subseteq UnitsOf(o)
  /\ \A u \in us : /\ attempts[u] # <<>> /\ Len(attempts[u]) < MaxAttempts[u]
                   /\ DrinkReady(attempts[u])[Len(attempts[u])].state = "ready"
                        \/ u \notin Drinks
  /\ attempts' = [ u \in Units |->
                     LET tries == IF u \in UnitsOf(o) \cap Drinks
                                  THEN DrinkReady(attempts[u]) ELSE attempts[u]
                     IN IF u \in us THEN Append(tries, Queued) ELSE tries ]
  /\ unit' = [ u \in Units |->
                 CASE u \in us -> "queued"
                   [] u \in (UnitsOf(o) \cap Drinks) \ us /\ attempts[u] # <<>> -> "ready"
                   [] OTHER -> unit[u] ]
  /\ closed' = Reopened(us)
  /\ courier' = courier \ {o}
  /\ order' = [order EXCEPT ![o] = "preparing"]
  /\ UNCHANGED <<archived, leaving, hand, stock, queue>>

-----------------------------------------------------------------------------
(* The rest of the shop: what it does to the order's row *)

Pay(o) ==
  /\ o \notin archived /\ order[o] = "aguardando_pagamento"
  /\ order' = [order EXCEPT ![o] = "pago"]
  /\ UNCHANGED <<archived, courier, leaving, hand, work, stock, queue>>

\* A driver or an admin: the units are checked on what was read, the status is
\* written over whatever the row holds by then.
LeaveRead(o) ==
  /\ o \in ByRoad
  /\ o \notin archived /\ OrderMay(order[o], "on_the_way") /\ RowsReady(o)
  /\ leaving' = leaving \cup {o}
  /\ UNCHANGED <<order, archived, courier, hand, work, stock, queue>>

LeaveCommit(o) ==
  /\ o \in leaving
  /\ leaving' = leaving \ {o}
  /\ order' = [order EXCEPT ![o] = "on_the_way"]
  /\ UNCHANGED <<archived, courier, hand, work, stock, queue>>

\* Delivery, cancellation and refund; what was deducted stays deducted, for an order
\* whose preparation has started is written off.
Ends(o) ==
  /\ o \notin archived
  /\ \E s \in {"delivered", "cancelled"} :
       OrderMay(order[o], s) /\ order' = [order EXCEPT ![o] = s]
  /\ UNCHANGED <<archived, courier, leaving, hand, work, stock, queue>>

Archive(o) ==
  /\ order[o] \in TerminalOrder
  /\ archived' = archived \cup {o}
  /\ UNCHANGED <<order, courier, leaving, hand, work, stock, queue>>

-----------------------------------------------------------------------------
Begun == [Queued EXCEPT !.state = "assembling"]

\* Some orders were in the kitchen, their units being assembled, before there was a
\* stock gate; the others are new.
Init ==
  \E early \in SUBSET Orders :
    /\ order = [ o \in Orders |->
                   IF o \in early THEN "preparing" ELSE "aguardando_pagamento" ]
    /\ attempts = [ u \in Units |->
                      IF OrderOf[u] \notin early THEN <<>>
                      ELSE IF u \in Drinks THEN <<Served>> ELSE <<Begun>> ]
    /\ unit = [ u \in Units |->
                  IF OrderOf[u] \notin early THEN "none"
                  ELSE IF u \in Drinks THEN "ready" ELSE "assembling" ]
    /\ closed = [u \in Units |-> 0]
    /\ archived = {} /\ courier = {} /\ leaving = {}
    /\ releasing = {} /\ overtaken = {}
    /\ ahead = {} /\ waited = {}
    /\ shelf = StockSize /\ sale = {}

UnitStep(u) ==
  \/ \E n \in 1 .. MaxAttempts[u] :
       \/ StartStockCheck(u, n) \/ ReturnToService(u, n) \/ FinishAssembly(u, n)
       \/ StartOven(u, n) \/ CompleteOven(u, n) \/ Check(u, n) \/ Remake(u, n)
  \/ CompleteDispatchUnit(u)

OrderStep(o) ==
  \/ InitializeOrder(o) \/ StartPreparation(o) \/ PrepareUnpaid(o)
  \/ MarkReady(o) \/ ReleaseRead(o) \/ ReleaseCommit(o) \/ AssignDriver(o) \/ CompletePickup(o)
  \/ \E us \in SUBSET UnitsOf(o) : ReturnToKitchen(o, us)
  \/ Pay(o) \/ LeaveRead(o) \/ LeaveCommit(o) \/ Ends(o) \/ Archive(o)

Next ==
  \/ \E u \in Units : UnitStep(u)
  \/ \E o \in Orders : OrderStep(o)
  \/ Waits \/ ConfirmStock

Spec == Init /\ [][Next]_vars

-----------------------------------------------------------------------------
(* Properties *)

TypeOK ==
  /\ order \in [Orders -> OrderStatus]
  /\ archived \subseteq Orders /\ courier \subseteq Orders /\ leaving \subseteq Orders
  /\ releasing \subseteq Orders /\ overtaken \subseteq Orders
  /\ sale \subseteq Orders
  /\ unit \in [Units -> AttemptStates \cup {"none"}]
  /\ attempts \in [Units -> Seq(Attempt)]
  /\ closed \in [Units -> Nat]
  /\ waited \subseteq Units \X Nat
  /\ ahead \subseteq (Units \X Nat) \X (Units \X Nat)
  /\ shelf \in Nat

Over == {"ready", "cancelled"}

\* A unit shows the state of its latest attempt, and every earlier attempt of it is
\* over: nobody works on two attempts of the same physical unit (docs/
\* GRAN_TORINO_FASE_7_QA.md, item 5), although remake, return_to_kitchen and the
\* drinks' repair add and change attempts from outside the unit's own commands.
OneLiveAttempt ==
  \A u \in Units :
    /\ unit[u] = IF attempts[u] = <<>> THEN "none" ELSE Final(u).state
    /\ \A n \in 1 .. Len(attempts[u]) - 1 : attempts[u][n].state \in Over

Consumed ==
  UNION { { <<u, n>> : n \in { m \in DOMAIN attempts[u] : attempts[u][m].lines } } : u \in Units }
SoldUnits == { u \in Units \ Drinks : OrderOf[u] \in sale }

\* What is gone from the shelf is one unit of the ingredient for each attempt that
\* says so and for each unit of an order charged as a whole, and no first attempt is
\* charged twice (consume_attempt beside consume_order_sale).  An attempt past its
\* stock check knows how it was supplied.
StockFollowsAttempts ==
  /\ shelf + Cardinality(Consumed) + Cardinality(SoldUnits) = StockSize
  /\ \A u \in Units \ Drinks : \A n \in DOMAIN attempts[u] :
       LET a == attempts[u][n]
       IN /\ a.lines <=> a.mode = "attempts"
          /\ a.lines /\ n = 1 => OrderOf[u] \notin sale
          /\ a.state \in {"assembled", "baking", "checking", "ready"} => a.mode # "none"

\* Nobody gets ahead in the queue for the ingredients by confirming first: when a
\* stock check is decided, every check asked for before it is decided with it, and one
\* that took nothing although it was eligible has nobody behind it who took something
\* (confirm_stock).  A check of an archived order is not looked at any more.
NoOvertaking ==
  [][\A p \in ahead :
       LET first == p[1]
           second == p[2]
           after(x) == attempts'[x[1]][x[2]]
       IN OrderOf[first[1]] \notin archived
          /\ after(second).state \in {"assembling", "aguardando_analise"}
          => /\ after(first).state # "checking_stock"
             /\ after(second).lines /\ InKitchen(first[1]) => after(first).mode # "none"]_vars

\* An order at the dispatch is finished, unit by unit, in the attempt that counts,
\* whatever was remade, sent back or repaired before; also one that an admin released
\* by hand, unless the kitchen took it up between his check and his commit.
ReadyMeansFinished ==
  \A o \in Orders : (order[o] = "ready_for_pickup" /\ o \notin overtaken) =>
    \A u \in UnitsOf(o) : Finished(attempts[u])

\* docs/GRAN_TORINO_PLANO_CONSOLIDADO_2026-10-26.md:468 says it without exception: an
\* order is released to the dispatch only with all its physical units ready.
ReleasedWhenFinished ==
  \A o \in Orders : order[o] = "ready_for_pickup" =>
    \A u \in UnitsOf(o) : Finished(attempts[u])

\* A unit that the dispatch sent back is closed again, in its new attempt, before the
\* order is given to a courier or to the customer.  A unit remade in the meantime keeps
\* the mark of the attempt before (return_to_kitchen beside remake).
ReworkIsClosedAgain ==
  [][\A o \in Orders :
       (o \in courier' \ courier \/ (order[o] = "ready_for_pickup" /\ order'[o] = "delivered"))
       => \A u \in UnitsOf(o) :
            \/ closed[u] = Len(attempts[u])
            \/ \E n \in 1 .. Len(attempts[u]) - 1 : attempts[u][n].state = "cancelled"]_vars
=============================================================================
