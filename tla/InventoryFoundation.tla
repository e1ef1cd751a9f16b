------------------------ MODULE InventoryFoundation ------------------------
(***************************************************************************)
(* The stock of one ingredient: lots, the stock without a lot, and what is *)
(* reserved of each for orders or by hand                                  *)
(* (inventory_foundation_service.py), with everybody who writes it: manual *)
(* entries and sales (inventory_service.py), the kitchen's attempts        *)
(* (kds_production_service.py) and reports of preparations                 *)
(* (preparation_service.py).                                               *)
(*                                                                         *)
(* Every writer locks the ingredient's row before it reads lots,           *)
(* reservations and balances and keeps it until its commit, so what it     *)
(* decides and what it writes are one step.  A cancellation is the         *)
(* exception: it finds the order's reservations before that lock, under    *)
(* the lock of the order alone.                                            *)
(*                                                                         *)
(* Those who change an order's status load it before they lock it.  Every  *)
(* order was once open, and there may be many requests, so what a request  *)
(* has read is a choice among what the order has been, made when it        *)
(* commits.                                                                *)
(***************************************************************************)
EXTENDS Integers, FiniteSets, FiniteSetsExt

CONSTANTS
  Lots,              \* numbered by deadline, then by when they were received
  Places,            \* locations, each with its stock without a lot
  Default,           \* the ingredient's default_location
  Orders, Nobody,    \* a reservation by hand is nobody's
  Attempts, OrderOf, \* the kitchen's attempts, and the order each is for
  First,             \* attempts that are the first of their unit
  Reservations,      \* by business_key: made once
  Need,              \* what an order or an attempt takes
  MaxQuantity,       \* bound: the quantity of a reservation
  Amounts,           \* bound: the quantities of an operation
  MaxStock,          \* bound: nothing comes in above this
  MaxAllocations     \* bound: what a report allocates of one bucket, in pieces

ASSUME FoundationAssumption ==
  /\ Lots \subseteq Nat /\ IsFiniteSet(Lots) /\ IsFiniteSet(Places) /\ Lots \cap Places = {}
  /\ Default \in Places /\ Nobody \notin Orders
  /\ OrderOf \in [Attempts -> Orders] /\ First \subseteq Attempts
  /\ IsFiniteSet(Reservations)
  /\ Need \in Nat /\ MaxQuantity \in Nat /\ Amounts \subseteq Nat /\ MaxStock \in Int /\ MaxAllocations \in Nat

VARIABLES
  lot,      \* status of a lot; one without a deadline is "undated" for good
  past,     \* lots whose deadline has passed
  stock,    \* sum of the movements of a bucket
  rsv,      \* inventory_reservations rows
  order,    \* status of an order
  begun,    \* orders whose preparation_started_at is set
  sale,     \* movements of an order's sale
  spent,    \* attempts that were supplied
  cancel    \* the cancellation in flight of an order

shop == <<order, begun, sale, spent, cancel>>
vars == <<lot, past, stock, rsv, shop>>

Buckets    == Lots \cup Places
Quantities == 1..MaxQuantity

\* Nobody reads more of a reservation that ended than its status and version.
NoRow == [status |-> "none"]
Rows  == [ status : {"active"}, bucket : Buckets, order : Orders \cup {Nobody},
           quantity : Quantities, version : Nat, late : BOOLEAN ]  \* expires_at has passed
Ended == [status : {"released", "consumed"}, version : Nat]

\* What a cancellation that holds the order's lock has loaded: the order's
\* active reservations and their versions.
Cancellations ==
  [at : {"none", "loaded"}, found : SUBSET Reservations, seen : [Reservations -> Nat]]
Idle == [at |-> "none", found |-> {}, seen |-> [r \in Reservations |-> 0]]

\* Lots, rows and requests have their types.  "out" is ready_for_pickup,
\* on_the_way and delivered, "cancelled" also refunded.
TypeOK ==
  /\ lot    \in [Lots -> {"none", "available", "barred", "undated"}]
  /\ past   \subseteq Lots
  /\ stock  \in [Buckets -> Int]
  /\ rsv    \in [Reservations -> Rows \cup Ended \cup {NoRow}]
  /\ order  \in [Orders -> {"open", "preparing", "out", "cancelled"}]
  /\ begun  \subseteq Orders
  /\ sale   \in [Orders -> {"none", "untracked", "tracked", "returned"}]
  /\ spent  \subseteq Attempts
  /\ cancel \in [Orders -> Cancellations]

Init ==
  /\ lot    = [l \in Lots |-> "none"]
  /\ past   = {}
  /\ stock  = [b \in Buckets |-> 0]
  /\ rsv    = [r \in Reservations |-> NoRow]
  /\ order  = [o \in Orders |-> "open"]
  /\ begun  = {}
  /\ sale   = [o \in Orders |-> "none"]
  /\ spent  = {}
  /\ cancel = [o \in Orders |-> Idle]

-----------------------------------------------------------------------------
(* What is there, what is reserved of it, what is free.                    *)

Eligible(b) == b \in Lots => lot[b] = "available" /\ b \notin past

\* _active_reservations
Active   == { r \in Reservations : rsv[r].status = "active" /\ ~rsv[r].late }
Quantity == [r \in Active |-> rsv[r].quantity]

\* The sum of the quantities of R, counted unit by unit.
Sum(R, quantity) == Cardinality({ u \in R \X Quantities : u[2] <= quantity[u[1]] })
Reserved(R)      == Cardinality({ u \in R \X Quantities : u[2] <= rsv[u[1]].quantity })

HoldsOf(b)       == { r \in Active : rsv[r].bucket = b }
Own(o)           == { r \in Active : rsv[r].order = o }
OwnHolds(o, b)   == HoldsOf(b) \cap Own(o)
OtherHolds(o, b) == HoldsOf(b) \ Own(o)

\* _available
Available(b) == stock[b] - Reserved(HoldsOf(b))

\* Mutants: the reservations of others are not looked at, or one's own count as theirs.
FreeAnyway(o, b) == IF stock[b] > 0 THEN stock[b] ELSE 0
FreeOfAll(o, b)  == IF Available(b) > 0 THEN Available(b) ELSE 0

\* max(ZERO, _available(own_order))
FreeFor(o, b) ==
  LET free == stock[b] - Reserved(OtherHolds(o, b)) IN IF free > 0 THEN free ELSE 0

Usable(o, b) == IF Eligible(b) THEN FreeFor(o, b) ELSE 0

\* What there is of each bucket, unit by unit.
Pieces(amount) == UNION { {b} \X (1..amount[b]) : b \in Buckets }

\* The sum over the buckets, counted in the same way; a balance may be negative.
Total(amount) ==
  Cardinality(Pieces(amount)) - Cardinality(Pieces([b \in Buckets |-> -amount[b]]))

\* The order's row is locked from the cancellation's flush of the status to its commit.
Locked(o) == cancel[o].at = "loaded"

-----------------------------------------------------------------------------
(* Time, lots, and operations by hand.                                     *)

LotExpires(l) ==
  /\ l \notin past /\ \A k \in Lots : k < l => k \in past
  /\ past' = past \cup {l}
  /\ UNCHANGED <<lot, stock, rsv, shop>>

CreateLot(l) ==
  /\ lot[l] = "none"
  /\ \E status \in {"available", "undated"} : lot' = [lot EXCEPT ![l] = status]
  /\ UNCHANGED <<past, stock, rsv, shop>>

SetLotState(l) ==
  /\ lot[l] \in {"available", "barred"}
  /\ \E status \in {"available", "barred"} : lot' = [lot EXCEPT ![l] = status]
  /\ UNCHANGED <<past, stock, rsv, shop>>

Exists(b) == b \in Lots => lot[b] # "none"

MayComeIn(q) == Total(stock) + q <= MaxStock

OnlyStock == UNCHANGED <<lot, past, rsv, shop>>

\* manual_in, adjustment_in, and what is received or prepared; without a lot
\* also a legacy entry, or the reversal of one that took stock out.
Put(b, q) ==
  /\ Exists(b) /\ MayComeIn(q)
  /\ stock' = [stock EXCEPT ![b] = @ + q]
  /\ OnlyStock

\* manual_out, adjustment_out; a loss is taken from any lot.  Without a lot also
\* a legacy entry, or the reversal of one that brought stock in.
TakeOut(b, q, kind) ==
  /\ Exists(b) /\ (kind = "loss" \/ Eligible(b))
  /\ Available(b) >= q
  /\ stock' = [stock EXCEPT ![b] = @ - q]
  /\ OnlyStock

\* transfer, of stock without a lot; a lot moves as a whole and stays the same bucket.
Transfer(p, to, q) ==
  /\ p # to /\ Available(p) >= q
  /\ stock' = [stock EXCEPT ![p] = @ - q, ![to] = @ + q]
  /\ OnlyStock

\* Each of n allocations is checked against the balance before the report.
Report(b, q, n) ==
  /\ Exists(b) /\ Available(b) >= q
  /\ stock' = [stock EXCEPT ![b] = @ - n * q]
  /\ OnlyStock

-----------------------------------------------------------------------------
(* Reservations.                                                           *)

Write(r, row) == rsv' = [rsv EXCEPT ![r] = row]

End(status, version) == [status |-> status, version |-> version + 1]

OnlyReservations == UNCHANGED <<lot, past, stock, shop>>

Lapse(r) ==
  /\ r \in Active
  /\ Write(r, [rsv[r] EXCEPT !.late = TRUE])
  /\ OnlyReservations

Hold(r, b, q, o) ==
  /\ rsv[r] = NoRow
  /\ Exists(b) /\ Eligible(b) /\ Available(b) >= q
  /\ Write(r, [status |-> "active", bucket |-> b, order |-> o, quantity |-> q,
               version |-> 1, late |-> FALSE])
  /\ OnlyReservations

MayReserve(o) == order[o] \in {"open", "preparing"}

\* Mutant: the order's status is read without locking its row.
ReserveUnlocked(r, b, q, o) == (o # Nobody => MayReserve(o)) /\ Hold(r, b, q, o)

Reserve(r, b, q, o) == (o # Nobody => MayReserve(o) /\ ~Locked(o)) /\ Hold(r, b, q, o)

Release(r) ==
  /\ rsv[r].status = "active"
  /\ Write(r, End("released", rsv[r].version))
  /\ OnlyReservations

-----------------------------------------------------------------------------
(* Consumption: consume_legacy_sale.                                       *)

\* Buckets with a reservation of the order first, then lots by deadline, then
\* locations.
Before(o, b, c) ==
  LET own(x) == OwnHolds(o, x) # {} IN
  \/ own(b) /\ ~own(c)
  \/ (own(b) <=> own(c)) /\ b \in Lots /\ (c \in Lots => b < c)

\* A bucket is not touched while one before it has some left; the order among
\* locations is the database's.
Takes(o) ==
  { take \in [Buckets -> 0..Need] :
      /\ Total(take) = Need
      /\ \A b \in Buckets : take[b] <= Usable(o, b)
      /\ \A b, c \in Buckets : Before(o, b, c) /\ take[c] > 0 => take[b] = Usable(o, b)
      /\ \A b, c \in Places : b # c /\ take[b] > 0 /\ take[c] > 0
                                => take[b] = Usable(o, b) \/ take[c] = Usable(o, c) }

\* What is left of each reservation: those of the order give what was taken of
\* their bucket, one after the other.
Leftovers(o, take) ==
  { left \in [Active -> 0..MaxQuantity] :
      /\ \A r \in Active : left[r] <= Quantity[r] /\ (r \notin Own(o) => left[r] = Quantity[r])
      /\ \A b \in Buckets :
           Reserved(OwnHolds(o, b)) - Sum(OwnHolds(o, b), left)
             = Min({take[b], Reserved(OwnHolds(o, b))})
      /\ \A q, r \in Own(o) :
           q # r /\ rsv[q].bucket = rsv[r].bucket /\ left[q] < Quantity[q] /\ left[r] < Quantity[r]
             => 0 \in {left[q], left[r]} }

Cut(row, left) ==
  CASE left = row.quantity -> row
    [] left = 0            -> End("consumed", row.version)
    [] OTHER               -> [row EXCEPT !.quantity = left, !.version = @ + 1]

Consume(o) ==
  \E take \in Takes(o) : \E left \in Leftovers(o, take) :
    /\ stock' = [b \in Buckets |-> stock[b] - take[b]]
    /\ rsv' = [r \in Reservations |-> IF r \in Active THEN Cut(rsv[r], left[r]) ELSE rsv[r]]

\* A first attempt is covered by the sale of its order, if there was one.  By
\* itself, without the order's lock, a mutant.
Supplied(a) ==
  LET o == OrderOf[a] IN
  /\ a \notin spent /\ order[o] = "preparing"
  /\ IF a \in First /\ sale[o] # "none" THEN UNCHANGED <<stock, rsv>> ELSE Consume(o)
  /\ spent' = spent \cup {a}
  /\ UNCHANGED <<lot, past, order, begun, sale, cancel>>

\* consume_attempt
Supply(a) == ~Locked(OrderOf[a]) /\ Supplied(a)

NoLots == \A l \in Lots : lot[l] = "none"

\* consume_order_sale: once, unless units took over (which are made before the
\* first attempt is supplied) or the deduction is disabled; a refusal rolls the
\* request back.
Deduct(o) ==
  \/ UNCHANGED <<stock, rsv, sale>>
  \/ /\ sale[o] = "none" /\ \A a \in spent : OrderOf[a] # o
     /\ Total(stock) >= Need
     /\ \/ /\ NoLots /\ Active = {}
           /\ stock' = [stock EXCEPT ![Default] = @ - Need]
           /\ sale' = [sale EXCEPT ![o] = "untracked"]
           /\ UNCHANGED rsv
        \/ /\ ~(NoLots /\ Active = {})
           /\ Consume(o)
           /\ sale' = [sale EXCEPT ![o] = "tracked"]

\* The order is sent to the kitchen.
Start(o) ==
  /\ ~Locked(o)
  /\ order' = [order EXCEPT ![o] = "preparing"]
  /\ begun' = begun \cup {o}
  /\ Deduct(o)
  /\ UNCHANGED <<lot, past, spent, cancel>>

\* A payment is approved, for an order loaded in preparation.
Confirm(o) ==
  /\ ~Locked(o) /\ o \in begun
  /\ Deduct(o)
  /\ UNCHANGED <<lot, past, order, begun, spent, cancel>>

MoveOn(o) ==
  /\ ~Locked(o) /\ o \in begun
  /\ order' = [order EXCEPT ![o] = "out"]
  /\ UNCHANGED <<lot, stock, rsv, past, begun, sale, spent, cancel>>

-----------------------------------------------------------------------------
(* Cancellation: reverse_order_sale and release_order_reservations.        *)

OnlyCancel == UNCHANGED <<lot, stock, rsv, past, order, begun, sale, spent>>

\* The flush of the new status locks the order; then the first query.
CancelLoad(o) ==
  /\ cancel[o] = Idle
  /\ LET rows == { r \in Reservations : rsv[r].status = "active" /\ rsv[r].order = o } IN
     cancel' = [cancel EXCEPT ![o] =
       [at |-> "loaded", found |-> rows,
        seen |-> [r \in Reservations |-> IF r \in rows THEN rsv[r].version ELSE 0]]]
  /\ OnlyCancel

\* The second query finds what is active by then; a row the session has
\* loaded before keeps the version it had.  A sale without lots comes back if
\* the order was loaded before its preparation began.
CancelCommit(o) ==
  LET c    == cancel[o]
      gone == { r \in Reservations :
                  c.found # {} /\ rsv[r].status = "active" /\ rsv[r].order = o } IN
  /\ Locked(o)
  /\ order' = [order EXCEPT ![o] = "cancelled"]
  /\ rsv' = [r \in Reservations |->
       IF r \in gone
         THEN End("released", IF r \in c.found THEN c.seen[r] ELSE rsv[r].version)
         ELSE rsv[r]]
  /\ \/ UNCHANGED <<stock, sale>>
     \/ /\ sale[o] = "untracked"
        /\ stock' = [stock EXCEPT ![Default] = @ + Need]
        /\ sale' = [sale EXCEPT ![o] = "returned"]
  /\ cancel' = [cancel EXCEPT ![o] = Idle]
  /\ UNCHANGED <<lot, past, begun, spent>>

CancelAborts(o) ==
  /\ Locked(o)
  /\ cancel' = [cancel EXCEPT ![o] = Idle]
  /\ OnlyCancel

-----------------------------------------------------------------------------
ByHand ==
  \/ \E l \in Lots : CreateLot(l) \/ SetLotState(l) \/ LotExpires(l)
  \/ \E b \in Buckets, q \in Amounts :
       \/ Put(b, q)
       \/ \E kind \in {"out", "loss"} : TakeOut(b, q, kind)
       \/ \E n \in 1..MaxAllocations : Report(b, q, n)
  \/ \E p, to \in Places, q \in Amounts : Transfer(p, to, q)

Holding ==
  \E r \in Reservations :
    \/ Lapse(r) \/ Release(r)
    \/ \E b \in Buckets, q \in Quantities, o \in Orders \cup {Nobody} : Reserve(r, b, q, o)

Selling ==
  \/ \E a \in Attempts : Supply(a)
  \/ \E o \in Orders :
       \/ Start(o) \/ Confirm(o) \/ MoveOn(o)
       \/ CancelLoad(o) \/ CancelCommit(o) \/ CancelAborts(o)

Next == ByHand \/ Holding \/ Selling

Spec == Init /\ [][Next]_vars

-----------------------------------------------------------------------------
(* What reservations are for.                                              *)

\* What is reserved of a bucket is there: nobody (operations, legacy entries,
\* transfers, other orders' sales and attempts, reports) takes it away.
ReservedIsThere ==
  \A b \in Buckets : HoldsOf(b) # {} => Reserved(HoldsOf(b)) <= stock[b]

\* An order whose reservations cover what it needs, in places and lots that may
\* be used, is served when it starts, however much others have reserved.
ReservationServes ==
  \A o \in Orders :
    LET usable == { r \in Own(o) : Eligible(rsv[r].bucket) } IN
    /\ \A b \in Buckets : stock[b] >= 0
    /\ Reserved(usable) >= Need
    => Total(stock) >= Need /\ \E take \in Takes(o) : Leftovers(o, take) # {}

\* Nothing stays reserved for an order that was cancelled.
NothingHeldForCancelled ==
  \A r \in Reservations :
    rsv[r].status = "active" /\ rsv[r].order # Nobody => order[rsv[r].order] # "cancelled"

\* A version stands for one state of a reservation: every change of status or
\* quantity raises it by one, and a reservation that ended stays as it is.
ChangeCounts(r) ==
  LET old == rsv[r]  new == rsv'[r] IN
  CASE old = NoRow -> new = NoRow \/ new.version = 1
    [] old.status = "active" ->
         \/ new.version = old.version + 1
         \/ new.version = old.version /\ new.status = "active" /\ new.quantity = old.quantity
    [] OTHER -> new = old

\* So a command from a stale screen is refused, whichever requests of customers,
\* of the kitchen and of a cancellation came before it.
EachChangeCounts == [][\A r \in Reservations : ChangeCounts(r)]_rsv

=============================================================================
