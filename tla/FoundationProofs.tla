-------------------------- MODULE FoundationProofs --------------------------
(***************************************************************************)
(* Theorems about InventoryFoundation for every number of lots, places,    *)
(* orders, attempts and reservations, and every quantity.                  *)
(***************************************************************************)
EXTENDS InventoryFoundation, FiniteSetTheorems, TLAPS

\* What a cancellation with the order's lock has loaded is the order's active
\* reservations, with their present versions.
SeenIsCurrent ==
  \A o \in Orders : Locked(o) =>
    \A r \in Reservations : rsv[r].status = "active" /\ rsv[r].order = o =>
      r \in cancel[o].found /\ cancel[o].seen[r] = rsv[r].version

\* The inductive invariant.
FoundationInv == TypeOK /\ NothingHeldForCancelled /\ SeenIsCurrent

-----------------------------------------------------------------------------
(* Rows.                                                                   *)

AnyRow == Rows \cup Ended \cup {NoRow}

LEMMA RowFacts ==
  /\ \A row \in AnyRow : row.status = "active" => row \in Rows
  /\ \A row \in Rows :
       /\ row.status = "active" /\ row.bucket \in Buckets /\ row.order \in Orders \cup {Nobody}
       /\ row.quantity \in Quantities /\ row.version \in Nat
  /\ NoRow.status = "none"
  /\ \A status \in {"released", "consumed"}, version \in Nat :
       /\ End(status, version) \in Ended
       /\ End(status, version).status = status
       /\ End(status, version).version = version + 1
BY DEF AnyRow, Rows, Ended, NoRow, End

\* What consumption leaves of a reservation.
LEMMA CutRow ==
  ASSUME NEW row \in Rows, NEW left \in 0..MaxQuantity, left <= row.quantity
  PROVE  /\ Cut(row, left) \in AnyRow
         /\ Cut(row, left).status = "active" =>
              /\ left > 0 /\ Cut(row, left).quantity = left
              /\ Cut(row, left).bucket = row.bucket /\ Cut(row, left).order = row.order
         /\ Cut(row, left) # row => Cut(row, left).version = row.version + 1
<1>1. row.quantity \in Quantities /\ row.version \in Nat /\ row.quantity > 0 /\ row.status = "active"
  BY RowFacts, FoundationAssumption DEF Quantities
<1>2. CASE left = row.quantity
  <2>1. Cut(row, left) = row
    BY <1>1, <1>2 DEF Cut
  <2>. QED  BY <2>1, <1>1, <1>2 DEF AnyRow
<1>3. CASE left # row.quantity /\ left = 0
  <2>1. Cut(row, left) = End("consumed", row.version)
    BY <1>1, <1>3 DEF Cut
  <2>. QED  BY <2>1, <1>1, RowFacts DEF AnyRow
<1>4. CASE left # row.quantity /\ left # 0
  <2>1. Cut(row, left) = [row EXCEPT !.quantity = left, !.version = @ + 1]
    BY <1>1, <1>4 DEF Cut
  <2>2. left \in Quantities
    BY <1>4 DEF Quantities
  <2>3. [row EXCEPT !.quantity = left, !.version = @ + 1] \in Rows
    <3>1. row.version + 1 \in Nat
      BY <1>1
    <3>. QED  BY <3>1, <2>2 DEF Rows
  <2>. QED  BY <2>1, <2>2, <2>3, <1>1 DEF AnyRow, Rows, Quantities
<1>. QED  BY <1>2, <1>3, <1>4

LEMMA ActiveRows ==
  ASSUME TypeOK
  PROVE  /\ Active \subseteq Reservations /\ IsFiniteSet(Active)
         /\ \A r \in Active : /\ rsv[r] \in Rows /\ Quantity[r] = rsv[r].quantity
                              /\ rsv[r].quantity \in Quantities
<1>1. Active \subseteq Reservations
  BY DEF Active
<1>2. IsFiniteSet(Active)
  BY <1>1, FS_Subset, FoundationAssumption
<1>3. ASSUME NEW r \in Active
      PROVE  rsv[r] \in Rows /\ Quantity[r] = rsv[r].quantity /\ rsv[r].quantity \in Quantities
  <2>1. rsv[r] \in AnyRow /\ rsv[r].status = "active"
    BY <1>1 DEF Active, TypeOK, AnyRow
  <2>. QED  BY <2>1, RowFacts DEF Quantity
<1>. QED  BY <1>1, <1>2, <1>3

\* Consumption for an order ends or shortens its own reservations and no others.
LEMMA ConsumeFacts ==
  ASSUME TypeOK, NEW o \in Orders, Consume(o)
  PROVE  /\ stock' \in [Buckets -> Int]
         /\ rsv' \in [Reservations -> AnyRow]
         /\ \A r \in Reservations :
              /\ rsv'[r] # rsv[r] => r \in Own(o) /\ rsv'[r].version = rsv[r].version + 1
              /\ rsv'[r].status = "active" => /\ rsv[r].status = "active"
                                              /\ rsv'[r].order = rsv[r].order
<1>1. PICK take \in Takes(o) : \E left \in Leftovers(o, take) :
        /\ stock' = [b \in Buckets |-> stock[b] - take[b]]
        /\ rsv' = [r \in Reservations |-> IF r \in Active THEN Cut(rsv[r], left[r]) ELSE rsv[r]]
  BY DEF Consume
<1>2. PICK left \in Leftovers(o, take) :
        /\ stock' = [b \in Buckets |-> stock[b] - take[b]]
        /\ rsv' = [r \in Reservations |-> IF r \in Active THEN Cut(rsv[r], left[r]) ELSE rsv[r]]
  BY <1>1
<1>3. take \in [Buckets -> 0..Need] /\ Need \in Nat /\ stock \in [Buckets -> Int]
  BY FoundationAssumption DEF Takes, TypeOK
<1>4. /\ left \in [Active -> 0..MaxQuantity]
      /\ \A r \in Active : left[r] <= Quantity[r] /\ (r \notin Own(o) => left[r] = Quantity[r])
  BY DEF Leftovers
<1>5. stock' \in [Buckets -> Int]
  BY <1>2, <1>3
<1>6. ASSUME NEW r \in Reservations
      PROVE  /\ rsv'[r] \in AnyRow
             /\ rsv'[r] # rsv[r] => r \in Own(o) /\ rsv'[r].version = rsv[r].version + 1
             /\ rsv'[r].status = "active" => /\ rsv[r].status = "active"
                                             /\ rsv'[r].order = rsv[r].order
  <2>1. CASE r \in Active
    <3>1. rsv'[r] = Cut(rsv[r], left[r]) /\ rsv[r] \in Rows /\ rsv[r].status = "active"
      BY <1>2, <2>1, ActiveRows DEF Active
    <3>2. left[r] \in 0..MaxQuantity /\ left[r] <= rsv[r].quantity
      BY <1>4, <2>1, ActiveRows
    <3>3. r \notin Own(o) => Cut(rsv[r], left[r]) = rsv[r]
      <4>1. r \notin Own(o) => left[r] = rsv[r].quantity
        BY <1>4, <2>1, ActiveRows
      <4>2. rsv[r].quantity # 0
        BY <2>1, ActiveRows, FoundationAssumption DEF Quantities
      <4>. QED  BY <4>1, <4>2 DEF Cut
    <3>. QED  BY <3>1, <3>2, <3>3, CutRow
  <2>2. CASE r \notin Active
    BY <1>2, <2>2 DEF TypeOK, AnyRow
  <2>. QED  BY <2>1, <2>2
<1>. QED  BY <1>2, <1>5, <1>6

-----------------------------------------------------------------------------
(* Types.                                                                  *)

LEMMA TypeInit == Init => TypeOK
BY FoundationAssumption DEF Init, TypeOK, Idle, Cancellations

\* What a sale takes leaves everything typed.
LEMMA DeductTypes ==
  ASSUME TypeOK, NEW o \in Orders, Deduct(o)
  PROVE  /\ stock' \in [Buckets -> Int]
         /\ rsv' \in [Reservations -> AnyRow]
         /\ sale' \in [Orders -> {"none", "untracked", "tracked", "returned"}]
<1>1. CASE UNCHANGED <<stock, rsv, sale>>
  BY <1>1 DEF TypeOK, AnyRow
<1>2. CASE /\ stock' = [stock EXCEPT ![Default] = @ - Need]
           /\ sale' = [sale EXCEPT ![o] = "untracked"]
           /\ UNCHANGED rsv
  BY <1>2, FoundationAssumption DEF TypeOK, AnyRow, Buckets
<1>3. CASE Consume(o) /\ sale' = [sale EXCEPT ![o] = "tracked"]
  BY <1>3, ConsumeFacts DEF TypeOK
<1>. QED  BY <1>1, <1>2, <1>3 DEF Deduct

LEMMA ByHandTypes == TypeOK /\ ByHand => TypeOK'
<1>. SUFFICES ASSUME TypeOK, ByHand PROVE TypeOK'
  OBVIOUS
<1>. USE FoundationAssumption
<1>1. ASSUME NEW l \in Lots, CreateLot(l) \/ SetLotState(l) \/ LotExpires(l) PROVE TypeOK'
  BY <1>1 DEF CreateLot, SetLotState, LotExpires, TypeOK, shop
<1>2. ASSUME NEW b \in Buckets, NEW q \in Amounts, Put(b, q) PROVE TypeOK'
  BY <1>2 DEF Put, OnlyStock, TypeOK, shop
<1>3. ASSUME NEW b \in Buckets, NEW q \in Amounts, NEW kind, TakeOut(b, q, kind) PROVE TypeOK'
  BY <1>3 DEF TakeOut, OnlyStock, TypeOK, shop
<1>4. ASSUME NEW b \in Buckets, NEW q \in Amounts, NEW n \in 1..MaxAllocations, Report(b, q, n)
      PROVE  TypeOK'
  <2>1. n * q \in Int
    OBVIOUS
  <2>. QED  BY <2>1, <1>4 DEF Report, OnlyStock, TypeOK, shop
<1>5. ASSUME NEW p \in Places, NEW to \in Places, NEW q \in Amounts, Transfer(p, to, q)
      PROVE  TypeOK'
  <2>1. p \in Buckets /\ to \in Buckets /\ q \in Int /\ stock \in [Buckets -> Int]
    BY DEF Buckets, TypeOK
  <2>2. stock[p] - q \in Int /\ stock[to] + q \in Int
    BY <2>1
  <2>3. [stock EXCEPT ![p] = stock[p] - q, ![to] = stock[to] + q] \in [Buckets -> Int]
    BY <2>1, <2>2
  <2>4. stock' = [stock EXCEPT ![p] = stock[p] - q, ![to] = stock[to] + q]
    BY <1>5 DEF Transfer
  <2>. QED  BY <2>3, <2>4, <1>5 DEF Transfer, OnlyStock, TypeOK, shop
<1>. QED  BY <1>1, <1>2, <1>3, <1>4, <1>5 DEF ByHand

LEMMA HoldingTypes == TypeOK /\ Holding => TypeOK'
<1>. SUFFICES ASSUME TypeOK, NEW r \in Reservations,
                     \/ Lapse(r) \/ Release(r)
                     \/ \E b \in Buckets, q \in Quantities, o \in Orders \cup {Nobody} :
                          Reserve(r, b, q, o)
              PROVE  TypeOK'
  BY DEF Holding
<1>. SUFFICES ASSUME NEW row \in AnyRow, Write(r, row), OnlyReservations
              PROVE  TypeOK'
  <2>1. CASE Lapse(r)
    <3>1. rsv[r] \in Rows
      BY <2>1, ActiveRows DEF Lapse
    <3>2. [rsv[r] EXCEPT !.late = TRUE] \in AnyRow
      BY <3>1 DEF AnyRow, Rows
    <3>. QED  BY <2>1, <3>2 DEF Lapse
  <2>2. CASE Release(r)
    <3>1. rsv[r] \in Rows
      BY <2>2, RowFacts DEF Release, TypeOK, AnyRow
    <3>. QED  BY <2>2, <3>1, RowFacts DEF Release, AnyRow
  <2>3. ASSUME NEW b \in Buckets, NEW q \in Quantities, NEW o \in Orders \cup {Nobody},
               Reserve(r, b, q, o)
        PROVE  TypeOK'
    <3>. DEFINE new == [status |-> "active", bucket |-> b, order |-> o, quantity |-> q,
                        version |-> 1, late |-> FALSE]
    <3>1. new \in AnyRow
      BY DEF AnyRow, Rows
    <3>. QED  BY <2>3, <3>1 DEF Reserve, Hold
  <2>. QED  BY <2>1, <2>2, <2>3
<1>. QED  BY DEF Write, OnlyReservations, TypeOK, shop, AnyRow

\* Committing a cancellation releases active reservations of its order.
LEMMA CancelFacts ==
  ASSUME TypeOK, NEW o \in Orders, CancelCommit(o)
  PROVE  /\ rsv' \in [Reservations -> AnyRow]
         /\ \A r \in Reservations :
              rsv'[r] # rsv[r] => /\ rsv[r].status = "active" /\ rsv[r].order = o
                                  /\ rsv'[r].status = "released"
<1>. DEFINE c == cancel[o]
            gone == { r \in Reservations :
                        c.found # {} /\ rsv[r].status = "active" /\ rsv[r].order = o }
            version(r) == IF r \in c.found THEN c.seen[r] ELSE rsv[r].version
<1>1. rsv' = [r \in Reservations |-> IF r \in gone THEN End("released", version(r)) ELSE rsv[r]]
  BY DEF CancelCommit
<1>2. ASSUME NEW r \in Reservations
      PROVE  /\ rsv'[r] \in AnyRow
             /\ rsv'[r] # rsv[r] => /\ rsv[r].status = "active" /\ rsv[r].order = o
                                    /\ rsv'[r].status = "released"
  <2>1. rsv[r] \in AnyRow
    BY DEF TypeOK, AnyRow
  <2>2. CASE r \in gone
    <3>1. rsv[r] \in Rows
      BY <2>1, <2>2, RowFacts
    <3>2. c.seen[r] \in Nat
      BY DEF TypeOK, Cancellations
    <3>3. version(r) \in Nat
      BY <3>1, <3>2, RowFacts
    <3>4. rsv'[r] = End("released", version(r))
      BY <1>1, <2>2
    <3>. QED  BY <2>2, <3>3, <3>4, RowFacts DEF AnyRow
  <2>3. CASE r \notin gone
    BY <1>1, <2>1, <2>3
  <2>. QED  BY <2>2, <2>3
<1>3. rsv' \in [Reservations -> AnyRow]
  BY <1>1, <1>2
<1>. QED  BY <1>2, <1>3

LEMMA SellingTypes == TypeOK /\ Selling => TypeOK'
<1>. SUFFICES ASSUME TypeOK, Selling PROVE TypeOK'
  OBVIOUS
<1>. USE FoundationAssumption
<1>1. ASSUME NEW a \in Attempts, Supply(a) PROVE TypeOK'
  <2>1. stock' \in [Buckets -> Int] /\ rsv' \in [Reservations -> AnyRow]
    <3>1. OrderOf[a] \in Orders
      OBVIOUS
    <3>2. CASE UNCHANGED <<stock, rsv>>
      BY <3>2 DEF TypeOK, AnyRow
    <3>3. CASE Consume(OrderOf[a])
      BY <3>1, <3>3, ConsumeFacts
    <3>. QED  BY <3>2, <3>3, <1>1 DEF Supply, Supplied
  <2>. QED  BY <1>1, <2>1 DEF Supply, Supplied, TypeOK, AnyRow
<1>2. ASSUME NEW o \in Orders, Start(o) PROVE TypeOK'
  <2>1. Deduct(o)
    BY <1>2 DEF Start
  <2>. QED  BY <1>2, <2>1, DeductTypes DEF Start, TypeOK, AnyRow
<1>3. ASSUME NEW o \in Orders, Confirm(o) PROVE TypeOK'
  <2>1. Deduct(o)
    BY <1>3 DEF Confirm
  <2>. QED  BY <1>3, <2>1, DeductTypes DEF Confirm, TypeOK, AnyRow
<1>4. ASSUME NEW o \in Orders, MoveOn(o) PROVE TypeOK'
  BY <1>4 DEF MoveOn, TypeOK
<1>5. ASSUME NEW o \in Orders, CancelLoad(o) PROVE TypeOK'
  <2>. DEFINE rows == { r \in Reservations : rsv[r].status = "active" /\ rsv[r].order = o }
              seen == [r \in Reservations |-> IF r \in rows THEN rsv[r].version ELSE 0]
  <2>1. ASSUME NEW r \in Reservations PROVE (IF r \in rows THEN rsv[r].version ELSE 0) \in Nat
    BY RowFacts DEF TypeOK, AnyRow
  <2>2. [at |-> "loaded", found |-> rows, seen |-> seen] \in Cancellations
    BY <2>1 DEF Cancellations
  <2>3. cancel' = [cancel EXCEPT ![o] = [at |-> "loaded", found |-> rows, seen |-> seen]]
    BY <1>5 DEF CancelLoad
  <2>. QED  BY <2>2, <2>3, <1>5 DEF CancelLoad, OnlyCancel, TypeOK
<1>6. Idle \in Cancellations
  BY DEF Idle, Cancellations
<1>7. ASSUME NEW o \in Orders, CancelCommit(o) PROVE TypeOK'
  <2>1. rsv' \in [Reservations -> AnyRow]
    BY <1>7, CancelFacts
  <2>2. stock' \in [Buckets -> Int]
    <3>1. stock \in [Buckets -> Int] /\ Default \in Buckets /\ stock[Default] + Need \in Int
      BY DEF TypeOK, Buckets
    <3>2. \/ stock' = stock
          \/ stock' = [stock EXCEPT ![Default] = stock[Default] + Need]
      BY <1>7 DEF CancelCommit
    <3>. QED  BY <3>1, <3>2
  <2>. QED  BY <1>6, <1>7, <2>1, <2>2 DEF CancelCommit, TypeOK, AnyRow
<1>8. ASSUME NEW o \in Orders, CancelAborts(o) PROVE TypeOK'
  BY <1>6, <1>8 DEF CancelAborts, OnlyCancel, TypeOK
<1>. QED  BY <1>1, <1>2, <1>3, <1>4, <1>5, <1>7, <1>8 DEF Selling

\* Rows, lots, orders and cancellations always have their types.
THEOREM FoundationTypes == Spec => []TypeOK
<1>1. TypeOK /\ [Next]_vars => TypeOK'
  <2>1. TypeOK /\ UNCHANGED vars => TypeOK'
    BY DEF vars, shop, TypeOK
  <2>. QED  BY <2>1, ByHandTypes, HoldingTypes, SellingTypes DEF Next
<1>. QED  BY <1>1, TypeInit, PTL DEF Spec

-----------------------------------------------------------------------------
(* Nothing stays reserved for a cancelled order.                           *)

LEMMA InvInit == Init => FoundationInv
<1>. SUFFICES ASSUME Init PROVE NothingHeldForCancelled /\ SeenIsCurrent
  BY TypeInit DEF FoundationInv
<1>1. \A r \in Reservations : rsv[r].status # "active"
  BY RowFacts DEF Init
<1>. QED  BY <1>1 DEF NothingHeldForCancelled, SeenIsCurrent

\* Rows that only end, or keep what they are for, spoil nothing while the order
\* that is locked is not among those whose rows change.
LEMMA RowsOnly ==
  ASSUME FoundationInv, UNCHANGED cancel,
         \A o \in Orders : order'[o] = "cancelled" => order[o] = "cancelled",
         \A r \in Reservations :
           rsv'[r].status = "active" => /\ rsv[r].status = "active"
                                        /\ rsv'[r].order = rsv[r].order
                                        /\ \/ rsv'[r].version = rsv[r].version
                                           \/ \A o \in Orders : rsv[r].order = o => ~Locked(o)
  PROVE  NothingHeldForCancelled' /\ SeenIsCurrent'
<1>1. ASSUME NEW r \in Reservations, rsv'[r].status = "active", rsv'[r].order # Nobody
      PROVE  order'[rsv'[r].order] # "cancelled"
  <2>1. rsv[r] \in Rows
    BY <1>1, RowFacts DEF FoundationInv, TypeOK, AnyRow
  <2>2. rsv[r].order \in Orders
    BY <1>1, <2>1, RowFacts
  <2>. QED  BY <1>1, <2>2 DEF FoundationInv, NothingHeldForCancelled
<1>2. ASSUME NEW o \in Orders, Locked(o)', NEW r \in Reservations,
             rsv'[r].status = "active", rsv'[r].order = o
      PROVE  r \in cancel'[o].found /\ cancel'[o].seen[r] = rsv'[r].version
  <2>1. Locked(o)
    BY <1>2 DEF Locked
  <2>2. rsv[r].status = "active" /\ rsv[r].order = o /\ rsv'[r].version = rsv[r].version
    BY <1>2, <2>1
  <2>. QED  BY <2>1, <2>2 DEF FoundationInv, SeenIsCurrent
<1>. QED  BY <1>1, <1>2 DEF NothingHeldForCancelled, SeenIsCurrent

LEMMA ByHandInv == FoundationInv /\ ByHand => NothingHeldForCancelled' /\ SeenIsCurrent'
<1>. SUFFICES ASSUME FoundationInv, ByHand PROVE NothingHeldForCancelled' /\ SeenIsCurrent'
  OBVIOUS
<1>1. UNCHANGED <<rsv, order, cancel>>
  BY DEF ByHand, CreateLot, SetLotState, LotExpires, Put, TakeOut, Report, Transfer, OnlyStock, shop
<1>. QED  BY <1>1, RowsOnly

LEMMA HoldingInv == FoundationInv /\ Holding => NothingHeldForCancelled' /\ SeenIsCurrent'
<1>. SUFFICES ASSUME FoundationInv, NEW r \in Reservations,
                     \/ Lapse(r) \/ Release(r)
                     \/ \E b \in Buckets, q \in Quantities, o \in Orders \cup {Nobody} :
                          Reserve(r, b, q, o)
              PROVE  NothingHeldForCancelled' /\ SeenIsCurrent'
  BY DEF Holding
<1>. TypeOK
  BY DEF FoundationInv
<1>1. CASE Lapse(r)
  <2>1. rsv[r] \in Rows /\ rsv[r].status = "active"
    BY <1>1, ActiveRows DEF Lapse, Active
  <2>2. rsv' = [rsv EXCEPT ![r] = [rsv[r] EXCEPT !.late = TRUE]] /\ UNCHANGED <<order, cancel>>
    BY <1>1 DEF Lapse, Write, OnlyReservations, shop
  <2>3. rsv \in [Reservations -> AnyRow]
    BY DEF TypeOK, AnyRow
  <2>4. /\ [rsv[r] EXCEPT !.late = TRUE].order = rsv[r].order
        /\ [rsv[r] EXCEPT !.late = TRUE].version = rsv[r].version
    BY <2>1 DEF Rows
  <2>5. ASSUME NEW s \in Reservations, rsv'[s].status = "active"
        PROVE  /\ rsv[s].status = "active" /\ rsv'[s].order = rsv[s].order
               /\ rsv'[s].version = rsv[s].version
    <3>1. CASE s = r
      BY <2>1, <2>2, <2>3, <2>4, <3>1
    <3>2. CASE s # r
      BY <2>2, <2>3, <2>5, <3>2
    <3>. QED  BY <3>1, <3>2
  <2>. QED  BY <2>2, <2>5, RowsOnly
<1>2. CASE Release(r)
  <2>1. rsv' = [rsv EXCEPT ![r] = End("released", rsv[r].version)] /\ UNCHANGED <<order, cancel>>
    BY <1>2 DEF Release, Write, OnlyReservations, shop
  <2>2. ASSUME NEW s \in Reservations, rsv'[s].status = "active"
        PROVE  rsv'[s] = rsv[s]
    BY <2>1, <2>2 DEF TypeOK, End
  <2>. QED  BY <2>1, <2>2, RowsOnly
<1>3. ASSUME NEW b \in Buckets, NEW q \in Quantities, NEW p \in Orders \cup {Nobody},
             Reserve(r, b, q, p)
      PROVE  NothingHeldForCancelled' /\ SeenIsCurrent'
  <2>. DEFINE new == [status |-> "active", bucket |-> b, order |-> p, quantity |-> q,
                      version |-> 1, late |-> FALSE]
  <2>1. rsv' = [rsv EXCEPT ![r] = new] /\ UNCHANGED <<order, cancel>>
    BY <1>3 DEF Reserve, Hold, Write, OnlyReservations, shop
  <2>2. p # Nobody => order[p] # "cancelled" /\ ~Locked(p)
    BY <1>3 DEF Reserve, MayReserve
  <2>3. \A s \in Reservations : rsv'[s] = IF s = r THEN new ELSE rsv[s]
    BY <2>1 DEF TypeOK
  <2>4. new.order = p
    OBVIOUS
  <2>. HIDE DEF new
  <2>5. NothingHeldForCancelled'
    BY <2>1, <2>2, <2>3, <2>4 DEF NothingHeldForCancelled, FoundationInv
  <2>6. SeenIsCurrent'
    <3>. SUFFICES ASSUME NEW o \in Orders, Locked(o)', NEW s \in Reservations,
                         rsv'[s].status = "active", rsv'[s].order = o
                  PROVE  s \in cancel'[o].found /\ cancel'[o].seen[s] = rsv'[s].version
      BY DEF SeenIsCurrent
    <3>1. Locked(o)
      BY <2>1 DEF Locked
    <3>2. s # r
      <4>1. SUFFICES ASSUME s = r PROVE FALSE
        OBVIOUS
      <4>2. o = p
        BY <2>3, <2>4, <4>1
      <4>3. p # Nobody
        BY <4>2, FoundationAssumption
      <4>. QED  BY <2>2, <3>1, <4>2, <4>3
    <3>. QED  BY <2>1, <2>3, <3>1, <3>2 DEF FoundationInv, SeenIsCurrent
  <2>. QED  BY <2>5, <2>6
<1>. QED  BY <1>1, <1>2, <1>3

\* A sale or an attempt touches reservations of its own order only.
LEMMA DeductRows ==
  ASSUME TypeOK, NEW o \in Orders, Deduct(o) \/ UNCHANGED <<stock, rsv>> \/ Consume(o)
  PROVE  \A r \in Reservations :
           /\ rsv'[r] # rsv[r] => rsv[r].order = o /\ rsv[r].status = "active"
                                  /\ rsv'[r].version = rsv[r].version + 1
           /\ rsv'[r].status = "active" => /\ rsv[r].status = "active"
                                           /\ rsv'[r].order = rsv[r].order
<1>1. CASE UNCHANGED rsv
  BY <1>1
<1>2. CASE Consume(o)
  BY <1>2, ConsumeFacts DEF Own, Active
<1>. QED  BY <1>1, <1>2 DEF Deduct

LEMMA SellingInv == FoundationInv /\ Selling => NothingHeldForCancelled' /\ SeenIsCurrent'
<1>. SUFFICES ASSUME FoundationInv, Selling PROVE NothingHeldForCancelled' /\ SeenIsCurrent'
  OBVIOUS
<1>. TypeOK
  BY DEF FoundationInv
<1>1. ASSUME NEW o \in Orders, ~Locked(o), UNCHANGED cancel,
             Deduct(o) \/ UNCHANGED <<stock, rsv>> \/ Consume(o),
             \A p \in Orders : order'[p] = "cancelled" => order[p] = "cancelled"
      PROVE  NothingHeldForCancelled' /\ SeenIsCurrent'
  <2>1. ASSUME NEW r \in Reservations, rsv'[r].status = "active"
        PROVE  /\ rsv[r].status = "active" /\ rsv'[r].order = rsv[r].order
               /\ \/ rsv'[r].version = rsv[r].version
                  \/ \A p \in Orders : rsv[r].order = p => ~Locked(p)
    <3>1. CASE rsv'[r] = rsv[r]
      BY <2>1, <3>1
    <3>2. CASE rsv'[r] # rsv[r]
      BY <1>1, <2>1, <3>2, DeductRows
    <3>. QED  BY <3>1, <3>2
  <2>. QED  BY <1>1, <2>1, RowsOnly
<1>2. ASSUME NEW a \in Attempts, Supply(a) PROVE NothingHeldForCancelled' /\ SeenIsCurrent'
  <2>1. OrderOf[a] \in Orders
    BY FoundationAssumption
  <2>2. UNCHANGED <<order, cancel>> /\ ~Locked(OrderOf[a])
        /\ (UNCHANGED <<stock, rsv>> \/ Consume(OrderOf[a]))
    BY <1>2 DEF Supply, Supplied
  <2>. QED  BY <1>1, <2>1, <2>2
<1>3. ASSUME NEW o \in Orders, Start(o) \/ Confirm(o) \/ MoveOn(o)
      PROVE  NothingHeldForCancelled' /\ SeenIsCurrent'
  <2>1. ~Locked(o) /\ UNCHANGED cancel /\ (Deduct(o) \/ UNCHANGED <<stock, rsv>>)
    BY <1>3 DEF Start, Confirm, MoveOn
  <2>2. \A p \in Orders : order'[p] = "cancelled" => order[p] = "cancelled"
    BY <1>3 DEF Start, Confirm, MoveOn, TypeOK
  <2>. QED  BY <1>1, <2>1, <2>2
<1>4. ASSUME NEW o \in Orders, CancelLoad(o) PROVE NothingHeldForCancelled' /\ SeenIsCurrent'
  <2>. DEFINE rows == { r \in Reservations : rsv[r].status = "active" /\ rsv[r].order = o }
              loaded == [at |-> "loaded", found |-> rows,
                         seen |-> [r \in Reservations |-> IF r \in rows THEN rsv[r].version ELSE 0]]
  <2>1. cancel' = [cancel EXCEPT ![o] = loaded] /\ UNCHANGED <<rsv, order>>
    BY <1>4 DEF CancelLoad, OnlyCancel
  <2>2. NothingHeldForCancelled'
    BY <2>1 DEF FoundationInv, NothingHeldForCancelled
  <2>3. ASSUME NEW p \in Orders, Locked(p)', NEW r \in Reservations,
               rsv'[r].status = "active", rsv'[r].order = p
        PROVE  r \in cancel'[p].found /\ cancel'[p].seen[r] = rsv'[r].version
    <3>1. CASE p = o
      <4>1. cancel'[p] = loaded
        BY <2>1, <3>1 DEF TypeOK
      <4>2. r \in rows
        BY <2>1, <2>3, <3>1
      <4>. QED  BY <2>1, <4>1, <4>2
    <3>2. CASE p # o
      <4>1. cancel'[p] = cancel[p] /\ Locked(p)
        BY <2>1, <2>3, <3>2 DEF TypeOK, Locked
      <4>. QED  BY <2>1, <2>3, <4>1 DEF FoundationInv, SeenIsCurrent
    <3>. QED  BY <3>1, <3>2
  <2>. QED  BY <2>2, <2>3 DEF SeenIsCurrent
<1>5. ASSUME NEW o \in Orders, CancelCommit(o)
      PROVE  NothingHeldForCancelled' /\ SeenIsCurrent'
  <2>1. order' = [order EXCEPT ![o] = "cancelled"] /\ cancel' = [cancel EXCEPT ![o] = Idle]
        /\ Locked(o)
    BY <1>5 DEF CancelCommit
  <2>2. ASSUME NEW r \in Reservations, rsv'[r].status = "active"
        PROVE  rsv'[r] = rsv[r] /\ rsv[r].order # o
    <3>1. rsv'[r] = rsv[r]
      BY <1>5, <2>2, CancelFacts
    <3>2. SUFFICES ASSUME rsv[r].order = o PROVE FALSE
      BY <3>1
    <3>3. r \in cancel[o].found /\ rsv[r].status = "active"
      BY <2>1, <2>2, <3>1, <3>2 DEF FoundationInv, SeenIsCurrent
    <3>4. rsv'[r].status = "released"
      BY <1>5, <3>2, <3>3 DEF CancelCommit, End
    <3>. QED  BY <2>2, <3>4
  <2>3. NothingHeldForCancelled'
    <3>. SUFFICES ASSUME NEW r \in Reservations, rsv'[r].status = "active", rsv'[r].order # Nobody
                  PROVE  order'[rsv'[r].order] # "cancelled"
      BY DEF NothingHeldForCancelled
    <3>1. rsv[r].order \in Orders \cup {Nobody}
      BY <2>2, RowFacts DEF TypeOK, AnyRow
    <3>2. order[rsv[r].order] # "cancelled"
      BY <2>2 DEF FoundationInv, NothingHeldForCancelled
    <3>. QED  BY <2>1, <2>2, <3>1, <3>2 DEF TypeOK
  <2>4. SeenIsCurrent'
    <3>. SUFFICES ASSUME NEW p \in Orders, Locked(p)', NEW r \in Reservations,
                         rsv'[r].status = "active", rsv'[r].order = p
                  PROVE  r \in cancel'[p].found /\ cancel'[p].seen[r] = rsv'[r].version
      BY DEF SeenIsCurrent
    <3>1. p # o
      BY <2>2
    <3>2. cancel'[p] = cancel[p] /\ Locked(p)
      BY <2>1, <3>1 DEF TypeOK, Locked
    <3>. QED  BY <2>2, <3>2 DEF FoundationInv, SeenIsCurrent
  <2>. QED  BY <2>3, <2>4
<1>6. ASSUME NEW o \in Orders, CancelAborts(o)
      PROVE  NothingHeldForCancelled' /\ SeenIsCurrent'
  <2>1. cancel' = [cancel EXCEPT ![o] = Idle] /\ UNCHANGED <<rsv, order>>
    BY <1>6 DEF CancelAborts, OnlyCancel
  <2>2. \A p \in Orders : Locked(p)' => Locked(p) /\ cancel'[p] = cancel[p]
    BY <2>1 DEF TypeOK, Locked, Idle
  <2>. QED  BY <2>1, <2>2 DEF FoundationInv, SeenIsCurrent, NothingHeldForCancelled
<1>. QED  BY <1>2, <1>3, <1>4, <1>5, <1>6 DEF Selling

LEMMA InvStep == FoundationInv /\ [Next]_vars => FoundationInv'
<1>1. TypeOK /\ [Next]_vars => TypeOK'
  <2>1. TypeOK /\ UNCHANGED vars => TypeOK'
    BY DEF vars, shop, TypeOK
  <2>. QED  BY <2>1, ByHandTypes, HoldingTypes, SellingTypes DEF Next
<1>2. FoundationInv /\ UNCHANGED vars => NothingHeldForCancelled' /\ SeenIsCurrent'
  BY RowsOnly DEF vars, shop
<1>. QED  BY <1>1, <1>2, ByHandInv, HoldingInv, SellingInv DEF FoundationInv, Next

\* Whatever is reserved, released, supplied or sold while an order is being
\* cancelled, nothing is reserved for it afterwards.
THEOREM NothingHeld == Spec => []NothingHeldForCancelled
<1>1. FoundationInv => NothingHeldForCancelled
  BY DEF FoundationInv
<1>. QED  BY <1>1, InvInit, InvStep, PTL DEF Spec

-----------------------------------------------------------------------------
(* Versions count the changes.                                             *)

LEMMA CountsIf ==
  ASSUME TypeOK, NEW r \in Reservations,
         \/ rsv'[r] = rsv[r]
         \/ rsv[r] = NoRow /\ rsv'[r].version = 1
         \/ rsv[r].status = "active" /\ rsv'[r].version = rsv[r].version + 1
         \/ /\ rsv[r].status = "active" /\ rsv'[r].version = rsv[r].version
            /\ rsv'[r].status = "active" /\ rsv'[r].quantity = rsv[r].quantity
  PROVE  ChangeCounts(r)
<1>1. rsv[r] = NoRow => rsv[r].status # "active"
  BY RowFacts
<1>. QED  BY <1>1 DEF ChangeCounts

LEMMA HoldingCounts ==
  FoundationInv /\ Holding => \A r \in Reservations : ChangeCounts(r)
<1>. SUFFICES ASSUME FoundationInv, NEW s \in Reservations, NEW r \in Reservations,
                     \/ Lapse(s) \/ Release(s)
                     \/ \E b \in Buckets, q \in Quantities, o \in Orders \cup {Nobody} :
                          Reserve(s, b, q, o)
              PROVE  ChangeCounts(r)
  BY DEF Holding
<1>. TypeOK
  BY DEF FoundationInv
<1>. rsv \in [Reservations -> AnyRow]
  BY DEF TypeOK, AnyRow
<1>1. CASE r # s
  <2>1. rsv'[r] = rsv[r]
    BY <1>1 DEF Lapse, Release, Reserve, Hold, Write
  <2>. QED  BY <2>1, CountsIf
<1>2. CASE r = s /\ Lapse(s)
  <2>1. rsv[r] \in Rows /\ rsv[r].status = "active"
    BY <1>2, ActiveRows DEF Lapse, Active
  <2>2. rsv'[r] = [rsv[r] EXCEPT !.late = TRUE]
    BY <1>2 DEF Lapse, Write
  <2>3. /\ rsv'[r].version = rsv[r].version /\ rsv'[r].status = "active"
        /\ rsv'[r].quantity = rsv[r].quantity
    BY <2>1, <2>2 DEF Rows
  <2>. QED  BY <2>1, <2>3, CountsIf
<1>3. CASE r = s /\ Release(s)
  <2>1. rsv[r].status = "active" /\ rsv'[r] = End("released", rsv[r].version)
    BY <1>3 DEF Release, Write
  <2>. QED  BY <2>1, CountsIf DEF End
<1>4. ASSUME NEW b \in Buckets, NEW q \in Quantities, NEW o \in Orders \cup {Nobody},
             Reserve(s, b, q, o), r = s
      PROVE  ChangeCounts(r)
  <2>1. rsv[r] = NoRow /\ rsv'[r].version = 1
    BY <1>4 DEF Reserve, Hold, Write
  <2>. QED  BY <2>1, CountsIf
<1>. QED  BY <1>1, <1>2, <1>3, <1>4

LEMMA SellingCounts ==
  FoundationInv /\ Selling => \A r \in Reservations : ChangeCounts(r)
<1>. SUFFICES ASSUME FoundationInv, Selling, NEW r \in Reservations PROVE ChangeCounts(r)
  OBVIOUS
<1>. TypeOK
  BY DEF FoundationInv
<1>1. ASSUME NEW o \in Orders, Deduct(o) \/ UNCHANGED <<stock, rsv>> \/ Consume(o)
      PROVE  ChangeCounts(r)
  BY <1>1, DeductRows, CountsIf
<1>2. ASSUME NEW a \in Attempts, Supply(a) PROVE ChangeCounts(r)
  <2>1. OrderOf[a] \in Orders
    BY FoundationAssumption
  <2>. QED  BY <1>1, <1>2, <2>1 DEF Supply, Supplied
<1>3. ASSUME NEW o \in Orders, Start(o) \/ Confirm(o) \/ MoveOn(o) \/ CancelLoad(o) \/ CancelAborts(o)
      PROVE  ChangeCounts(r)
  <2>1. Deduct(o) \/ UNCHANGED <<stock, rsv>>
    BY <1>3 DEF Start, Confirm, MoveOn, CancelLoad, CancelAborts, OnlyCancel
  <2>. QED  BY <1>1, <2>1
<1>4. ASSUME NEW o \in Orders, CancelCommit(o) PROVE ChangeCounts(r)
  <2>1. CASE rsv'[r] = rsv[r]
    BY <2>1, CountsIf
  <2>2. CASE rsv'[r] # rsv[r]
    <3>1. rsv[r].status = "active" /\ rsv[r].order = o
      BY <1>4, <2>2, CancelFacts
    <3>2. r \in cancel[o].found /\ cancel[o].seen[r] = rsv[r].version
      BY <1>4, <3>1 DEF CancelCommit, FoundationInv, SeenIsCurrent
    <3>3. rsv'[r] = End("released", rsv[r].version)
      BY <1>4, <3>1, <3>2 DEF CancelCommit
    <3>. QED  BY <3>1, <3>3, CountsIf DEF End
  <2>. QED  BY <2>1, <2>2
<1>. QED  BY <1>2, <1>3, <1>4 DEF Selling

\* Every change of a reservation raises its version by one, those of a
\* cancellation too, whose session read the version before.
THEOREM VersionsCount == Spec => EachChangeCounts
<1>1. FoundationInv /\ [Next]_vars => [\A r \in Reservations : ChangeCounts(r)]_rsv
  <2>1. FoundationInv /\ ByHand => UNCHANGED rsv
    BY DEF ByHand, CreateLot, SetLotState, LotExpires, Put, TakeOut, Report, Transfer, OnlyStock
  <2>2. UNCHANGED vars => UNCHANGED rsv
    BY DEF vars
  <2>. QED  BY <2>1, <2>2, HoldingCounts, SellingCounts DEF Next
<1>. QED  BY <1>1, InvInit, InvStep, PTL DEF Spec, EachChangeCounts

-----------------------------------------------------------------------------
(* Sums of quantities.                                                     *)

Units(R, quantity) == { u \in R \X Quantities : u[2] <= quantity[u[1]] }

LEMMA SumFacts ==
  ASSUME NEW R, IsFiniteSet(R), NEW quantity
  PROVE  /\ IsFiniteSet(Units(R, quantity))
         /\ Sum(R, quantity) = Cardinality(Units(R, quantity))
         /\ Sum(R, quantity) \in Nat
<1>1. IsFiniteSet(Quantities)
  BY FS_Interval, FoundationAssumption DEF Quantities
<1>2. IsFiniteSet(R \X Quantities)
  BY <1>1, FS_Product
<1>3. Units(R, quantity) \in SUBSET (R \X Quantities)
  BY DEF Units
<1>4. IsFiniteSet(Units(R, quantity))
  BY <1>2, <1>3, FS_Subset
<1>. QED  BY <1>4, FS_CardinalityType DEF Units, Sum

\* Less of fewer is not more.
LEMMA SumMonotone ==
  ASSUME NEW R, IsFiniteSet(R), NEW S \in SUBSET R, NEW f, NEW g,
         \A r \in S : f[r] \in Int /\ g[r] \in Int /\ f[r] <= g[r]
  PROVE  Sum(S, f) <= Sum(R, g)
<1>1. IsFiniteSet(S)
  BY FS_Subset
<1>2. ASSUME NEW u \in Units(S, f) PROVE u \in Units(R, g)
  <2>1. u[1] \in S /\ u[2] \in Quantities /\ u[2] <= f[u[1]] /\ u \in R \X Quantities
    BY DEF Units
  <2>2. u[2] \in Int
    BY <2>1 DEF Quantities
  <2>3. u[2] <= g[u[1]]
    BY <2>1, <2>2
  <2>. QED  BY <2>1, <2>3 DEF Units
<1>3. Units(S, f) \in SUBSET Units(R, g)
  BY <1>2
<1>. QED  BY <1>1, <1>3, SumFacts, FS_Subset

LEMMA SumUnion ==
  ASSUME NEW R, IsFiniteSet(R), NEW S, IsFiniteSet(S), R \cap S = {}, NEW f
  PROVE  Sum(R \cup S, f) = Sum(R, f) + Sum(S, f)
<1>1. Units(R \cup S, f) = Units(R, f) \cup Units(S, f)
  BY DEF Units
<1>2. Units(R, f) \cap Units(S, f) = {}
  BY DEF Units
<1>3. IsFiniteSet(R \cup S)
  BY FS_Union
<1>4. Cardinality(Units(R, f) \cap Units(S, f)) = 0
  BY <1>2, FS_EmptySet
<1>5. IsFiniteSet(Units(R, f)) /\ IsFiniteSet(Units(S, f)) /\ Sum(R, f) \in Nat /\ Sum(S, f) \in Nat
      /\ Sum(R, f) = Cardinality(Units(R, f)) /\ Sum(S, f) = Cardinality(Units(S, f))
      /\ Sum(R \cup S, f) = Cardinality(Units(R \cup S, f))
  BY <1>3, SumFacts
<1>6. Cardinality(Units(R, f) \cup Units(S, f))
        = Cardinality(Units(R, f)) + Cardinality(Units(S, f)) - Cardinality(Units(R, f) \cap Units(S, f))
  BY <1>5, FS_Union
<1>7. Sum(R \cup S, f) = Sum(R, f) + Sum(S, f) - 0
  BY <1>1, <1>4, <1>5, <1>6
<1>. QED  BY <1>5, <1>7

LEMMA SumOne ==
  ASSUME NEW r, NEW f, f[r] \in Quantities
  PROVE  Sum({r}, f) <= f[r]
<1>1. f[r] \in Nat /\ f[r] >= 1
  BY FoundationAssumption DEF Quantities
<1>2. IsFiniteSet(1..f[r]) /\ Cardinality(1..f[r]) = f[r]
  BY <1>1, FS_Interval
<1>3. IsFiniteSet({r}) /\ Cardinality({r}) = 1
  BY FS_Singleton
<1>4. IsFiniteSet({r} \X (1..f[r])) /\ Cardinality({r} \X (1..f[r])) = f[r]
  <2>1. /\ IsFiniteSet({r} \X (1..f[r]))
        /\ Cardinality({r} \X (1..f[r])) = Cardinality({r}) * Cardinality(1..f[r])
    BY <1>2, <1>3, FS_Product
  <2>2. Cardinality({r} \X (1..f[r])) = 1 * f[r]
    BY <2>1, <1>2, <1>3
  <2>. QED  BY <2>1, <2>2, <1>1
<1>5. ASSUME NEW u \in Units({r}, f) PROVE u \in {r} \X (1..f[r])
  BY FoundationAssumption DEF Units, Quantities
<1>6. Units({r}, f) \in SUBSET ({r} \X (1..f[r]))
  BY <1>5
<1>7. Sum({r}, f) = Cardinality(Units({r}, f))
  BY <1>3, SumFacts
<1>. QED  BY <1>4, <1>6, <1>7, FS_Subset

LEMMA SmallerOfTwo ==
  ASSUME NEW m \in Int, NEW n \in Int
  PROVE  Min({m, n}) = IF m <= n THEN m ELSE n
<1>1. CASE m <= n
  <2>1. m \in {m, n} /\ \A y \in {m, n} : m <= y
    BY <1>1
  <2>2. \A x \in {m, n} : (\A y \in {m, n} : x <= y) => x = m
    BY <1>1
  <2>. QED  BY <1>1, <2>1, <2>2 DEF Min
<1>2. CASE ~(m <= n)
  <2>1. n \in {m, n} /\ \A y \in {m, n} : n <= y
    BY <1>2
  <2>2. \A x \in {m, n} : (\A y \in {m, n} : x <= y) => x = n
    BY <1>2
  <2>. QED  BY <1>2, <2>1, <2>2 DEF Min
<1>. QED  BY <1>1, <1>2

-----------------------------------------------------------------------------
(* What is reserved is there.                                              *)

Held == [r \in Reservations |-> rsv[r].quantity]

LEMMA ReservedIsSum ==
  ASSUME NEW R \in SUBSET Reservations
  PROVE  Reserved(R) = Sum(R, Held)
<1>1. { u \in R \X Quantities : u[2] <= rsv[u[1]].quantity }
        = { u \in R \X Quantities : u[2] <= Held[u[1]] }
  BY DEF Held
<1>. QED  BY <1>1 DEF Reserved, Sum

LEMMA ReservedThenIsSum ==
  ASSUME NEW R \in SUBSET Reservations
  PROVE  Cardinality({ u \in R \X Quantities : u[2] <= rsv'[u[1]].quantity }) = Sum(R, Held')
<1>1. { u \in R \X Quantities : u[2] <= rsv'[u[1]].quantity }
        = { u \in R \X Quantities : u[2] <= Held'[u[1]] }
  BY DEF Held
<1>. QED  BY <1>1 DEF Sum

\* Reservations of a bucket that end or shrink stay covered by a balance that
\* falls no lower.
LEMMA StaysCovered ==
  ASSUME TypeOK, ReservedIsThere, NEW b \in Buckets, stock'[b] \in Int, stock'[b] >= stock[b],
         HoldsOf(b)' \subseteq HoldsOf(b),
         \A r \in HoldsOf(b)' : rsv'[r].quantity = rsv[r].quantity
  PROVE  HoldsOf(b)' # {} => Reserved(HoldsOf(b))' <= stock'[b]
<1>. SUFFICES ASSUME HoldsOf(b)' # {} PROVE Reserved(HoldsOf(b))' <= stock'[b]
  OBVIOUS
<1>1. HoldsOf(b) \subseteq Reservations /\ IsFiniteSet(HoldsOf(b)) /\ HoldsOf(b) \subseteq Active
  BY ActiveRows, FS_Subset DEF HoldsOf
<1>2. Sum(HoldsOf(b), Held) <= stock[b]
  BY <1>1, ReservedIsSum DEF ReservedIsThere
<1>3. ASSUME NEW r \in HoldsOf(b)'
      PROVE  Held'[r] \in Int /\ Held[r] \in Int /\ Held'[r] <= Held[r]
  <2>1. r \in Reservations /\ rsv[r].quantity \in Int
    BY <1>1, ActiveRows DEF Quantities
  <2>. QED  BY <2>1, <1>3 DEF Held
<1>4. Sum(HoldsOf(b)', Held') <= Sum(HoldsOf(b), Held)
  BY <1>1, <1>3, SumMonotone
<1>5. Reserved(HoldsOf(b))' = Sum(HoldsOf(b)', Held')
  BY <1>1, ReservedThenIsSum DEF Reserved
<1>6. Sum(HoldsOf(b), Held) \in Nat /\ Sum(HoldsOf(b)', Held') \in Nat
  <2>1. IsFiniteSet(HoldsOf(b)')
    BY <1>1, FS_Subset
  <2>. QED  BY <1>1, <2>1, SumFacts
<1>. QED  BY <1>2, <1>4, <1>5, <1>6 DEF TypeOK

Covered(b) == HoldsOf(b) # {} => Reserved(HoldsOf(b)) <= stock[b]

\* What is checked against the available balance leaves what is reserved there.
LEMMA OnlyFreeStock ==
  ASSUME TypeOK, ReservedIsThere, UNCHANGED rsv, NEW b \in Buckets,
         stock'[b] \in Int, stock'[b] >= stock[b] \/ stock'[b] >= Reserved(HoldsOf(b))
  PROVE  Covered(b)'
<1>1. HoldsOf(b)' = HoldsOf(b) /\ Reserved(HoldsOf(b))' = Reserved(HoldsOf(b))
  BY DEF HoldsOf, Active, Reserved
<1>2. Reserved(HoldsOf(b)) \in Nat
  <2>1. HoldsOf(b) \in SUBSET Reservations /\ IsFiniteSet(HoldsOf(b))
    BY ActiveRows, FS_Subset DEF HoldsOf
  <2>. QED  BY <2>1, ReservedIsSum, SumFacts
<1>. QED  BY <1>1, <1>2 DEF Covered, ReservedIsThere, TypeOK

LEMMA ReservedInit == Init => ReservedIsThere
<1>. SUFFICES ASSUME Init PROVE \A b \in Buckets : HoldsOf(b) = {}
  BY DEF ReservedIsThere
<1>. QED  BY RowFacts DEF Init, HoldsOf, Active

LEMMA ByHandReserved ==
  ASSUME MaxAllocations <= 1, TypeOK, ReservedIsThere, ByHand
  PROVE  ReservedIsThere'
<1>. SUFFICES ASSUME NEW b \in Buckets PROVE Covered(b)'
  BY DEF ReservedIsThere, Covered
<1>. USE FoundationAssumption
<1>1. UNCHANGED rsv
  BY DEF ByHand, CreateLot, SetLotState, LotExpires, Put, TakeOut, Report, Transfer, OnlyStock
<1>2. stock \in [Buckets -> Int] /\ Reserved(HoldsOf(b)) \in Nat
  <2>1. HoldsOf(b) \in SUBSET Reservations /\ IsFiniteSet(HoldsOf(b))
    BY ActiveRows, FS_Subset DEF HoldsOf
  <2>. QED  BY <2>1, ReservedIsSum, SumFacts DEF TypeOK
<1>3. SUFFICES stock'[b] \in Int /\ (stock'[b] >= stock[b] \/ stock'[b] >= Reserved(HoldsOf(b)))
  BY <1>1, OnlyFreeStock
<1>4. CASE UNCHANGED stock
  BY <1>2, <1>4
<1>5. ASSUME NEW c \in Buckets, NEW q \in Amounts, Put(c, q)
      PROVE  stock'[b] \in Int /\ stock'[b] >= stock[b]
  BY <1>2, <1>5 DEF Put
<1>6. ASSUME NEW c \in Buckets, NEW q \in Amounts, Available(c) >= q,
             stock' = [stock EXCEPT ![c] = @ - q]
      PROVE  stock'[b] \in Int /\ (stock'[b] >= stock[b] \/ stock'[b] >= Reserved(HoldsOf(b)))
  <2>1. CASE b = c
    <3>1. stock'[b] = stock[b] - q /\ stock[b] - Reserved(HoldsOf(b)) >= q /\ q \in Nat
      BY <1>2, <1>6, <2>1 DEF Available
    <3>. QED  BY <1>2, <3>1
  <2>2. CASE b # c
    BY <1>2, <1>6, <2>2
  <2>. QED  BY <2>1, <2>2
<1>7. ASSUME NEW c \in Buckets, NEW q \in Amounts, NEW n \in 1..MaxAllocations, Report(c, q, n)
      PROVE  Available(c) >= q /\ stock' = [stock EXCEPT ![c] = @ - q]
  <2>1. n = 1 /\ n * q = q
    OBVIOUS
  <2>. QED  BY <1>7, <2>1 DEF Report
<1>8. ASSUME NEW p \in Places, NEW to \in Places, NEW q \in Amounts, Transfer(p, to, q)
      PROVE  stock'[b] \in Int /\ (stock'[b] >= stock[b] \/ stock'[b] >= Reserved(HoldsOf(b)))
  <2>1. /\ p # to /\ p \in Buckets /\ to \in Buckets /\ q \in Nat
        /\ stock[p] - Reserved(HoldsOf(p)) >= q
        /\ stock' = [stock EXCEPT ![p] = stock[p] - q, ![to] = stock[to] + q]
    BY <1>8 DEF Transfer, Available, Buckets
  <2>2. CASE b = p
    <3>1. stock'[b] = stock[b] - q
      BY <1>2, <2>1, <2>2
    <3>. QED  BY <1>2, <2>1, <2>2, <3>1
  <2>3. CASE b # p
    <3>1. stock'[b] = stock[b] \/ stock'[b] = stock[b] + q
      BY <1>2, <2>1, <2>3
    <3>. QED  BY <1>2, <2>1, <3>1
  <2>. QED  BY <2>2, <2>3
<1>. QED
  <2>1. ASSUME NEW l \in Lots, CreateLot(l) \/ SetLotState(l) \/ LotExpires(l) PROVE UNCHANGED stock
    BY <2>1 DEF CreateLot, SetLotState, LotExpires
  <2>2. ASSUME NEW c \in Buckets, NEW q \in Amounts, NEW kind, TakeOut(c, q, kind)
        PROVE  Available(c) >= q /\ stock' = [stock EXCEPT ![c] = @ - q]
    BY <2>2 DEF TakeOut
  <2>. QED  BY <1>4, <1>5, <1>6, <1>7, <1>8, <2>1, <2>2 DEF ByHand

LEMMA HoldingReserved ==
  ASSUME TypeOK, ReservedIsThere, Holding
  PROVE  ReservedIsThere'
<1>. SUFFICES ASSUME NEW b \in Buckets, NEW r \in Reservations,
                     \/ Lapse(r) \/ Release(r)
                     \/ \E c \in Buckets, q \in Quantities, o \in Orders \cup {Nobody} :
                          Reserve(r, c, q, o)
              PROVE  Covered(b)'
  BY DEF ReservedIsThere, Covered, Holding
<1>1. rsv \in [Reservations -> AnyRow] /\ stock \in [Buckets -> Int]
  BY DEF TypeOK, AnyRow
<1>2. CASE Lapse(r) \/ Release(r)
  <2>1. UNCHANGED stock
    BY <1>2 DEF Lapse, Release, OnlyReservations
  <2>2. \A s \in Reservations : s # r => rsv'[s] = rsv[s]
    BY <1>1, <1>2 DEF Lapse, Release, Write
  <2>3. r \notin HoldsOf(b)'
    <3>1. CASE Lapse(r)
      <4>1. rsv[r] \in Rows
        BY <3>1, ActiveRows DEF Lapse
      <4>2. rsv'[r] = [rsv[r] EXCEPT !.late = TRUE]
        BY <1>1, <3>1 DEF Lapse, Write
      <4>3. rsv'[r].late
        BY <4>1, <4>2 DEF Rows
      <4>. QED  BY <4>3 DEF HoldsOf, Active
    <3>2. CASE Release(r)
      BY <1>1, <3>2 DEF Release, Write, End, HoldsOf, Active
    <3>. QED  BY <1>2, <3>1, <3>2
  <2>4. HoldsOf(b)' \subseteq HoldsOf(b)
    BY <2>2, <2>3 DEF HoldsOf, Active
  <2>5. \A s \in HoldsOf(b)' : rsv'[s].quantity = rsv[s].quantity
    BY <2>2, <2>3 DEF HoldsOf, Active
  <2>. QED  BY <1>1, <2>1, <2>4, <2>5, StaysCovered DEF Covered
<1>3. ASSUME NEW c \in Buckets, NEW q \in Quantities, NEW o \in Orders \cup {Nobody},
             Reserve(r, c, q, o)
      PROVE  Covered(b)'
  <2>. DEFINE new == [status |-> "active", bucket |-> c, order |-> o, quantity |-> q,
                      version |-> 1, late |-> FALSE]
  <2>1. /\ UNCHANGED stock /\ rsv[r] = NoRow /\ Available(c) >= q
        /\ rsv' = [rsv EXCEPT ![r] = new]
    BY <1>3 DEF Reserve, Hold, Write, OnlyReservations
  <2>2. \A s \in Reservations : rsv'[s] = IF s = r THEN new ELSE rsv[s]
    BY <1>1, <2>1
  <2>3. r \notin Active
    BY <2>1, RowFacts DEF Active
  <2>4. new.bucket = c /\ new.quantity = q /\ new.status = "active" /\ ~new.late
    OBVIOUS
  <2>. HIDE DEF new
  <2>5. CASE b # c
    <3>1. HoldsOf(b)' \subseteq HoldsOf(b) /\ r \notin HoldsOf(b)'
      BY <2>2, <2>4, <2>5 DEF HoldsOf, Active
    <3>2. \A s \in HoldsOf(b)' : rsv'[s].quantity = rsv[s].quantity
      BY <2>2, <3>1 DEF HoldsOf, Active
    <3>. QED  BY <1>1, <2>1, <3>1, <3>2, StaysCovered DEF Covered
  <2>6. CASE b = c
    <3>. DEFINE R == HoldsOf(b)
    <3>1. R \subseteq Reservations /\ IsFiniteSet(R) /\ R \subseteq Active /\ r \notin R
      BY <2>3, ActiveRows, FS_Subset DEF HoldsOf
    <3>2. HoldsOf(b)' = R \cup {r}
      BY <2>2, <2>3, <2>4, <2>6 DEF HoldsOf, Active
    <3>3. Held' = [Held EXCEPT ![r] = q]
      BY <2>2, <2>4 DEF Held
    <3>4. Sum(R, Held') <= Sum(R, Held)
      <4>1. ASSUME NEW s \in R
            PROVE  Held'[s] \in Int /\ Held[s] \in Int /\ Held'[s] <= Held[s]
        <5>1. rsv[s].quantity \in Int /\ s \in Reservations /\ s # r
          BY <3>1, ActiveRows DEF Quantities
        <5>. QED  BY <2>2, <5>1 DEF Held
      <4>. QED  BY <3>1, <4>1, SumMonotone
    <3>5. Sum({r}, Held') <= q
      <4>1. Held'[r] = q
        BY <3>3 DEF Held
      <4>. QED  BY <4>1, SumOne
    <3>6. IsFiniteSet({r}) /\ R \cap {r} = {}
      BY <3>1, FS_Singleton
    <3>7. Sum(R \cup {r}, Held') = Sum(R, Held') + Sum({r}, Held')
      BY <3>1, <3>6, SumUnion
    <3>8. Sum(R, Held') \in Nat /\ Sum({r}, Held') \in Nat /\ Sum(R, Held) \in Nat
      BY <3>1, <3>6, SumFacts
    <3>9. Sum(R, Held) + q <= stock[b]
      <4>1. Reserved(R) = Sum(R, Held)
        BY <3>1, ReservedIsSum
      <4>2. q \in Int
        BY DEF Quantities
      <4>. QED  BY <1>1, <2>1, <2>6, <3>8, <4>1, <4>2 DEF Available
    <3>10. Reserved(HoldsOf(b))' = Sum(R \cup {r}, Held')
      BY <3>1, <3>2, ReservedThenIsSum DEF Reserved
    <3>11. q \in Int
      BY DEF Quantities
    <3>. HIDE DEF R
    <3>. QED  BY <1>1, <2>1, <3>4, <3>5, <3>7, <3>8, <3>9, <3>10, <3>11 DEF Covered
  <2>. QED  BY <2>5, <2>6
<1>. QED  BY <1>2, <1>3

\* What consumption takes of a bucket is the order's own, or free.
LEMMA ConsumeReserved ==
  ASSUME TypeOK, ReservedIsThere, NEW o \in Orders, Consume(o)
  PROVE  ReservedIsThere'
<1>. SUFFICES ASSUME NEW b \in Buckets, HoldsOf(b)' # {}
              PROVE  Reserved(HoldsOf(b))' <= stock'[b]
  BY DEF ReservedIsThere
<1>1. PICK take \in Takes(o) : \E left \in Leftovers(o, take) :
        /\ stock' = [c \in Buckets |-> stock[c] - take[c]]
        /\ rsv' = [r \in Reservations |-> IF r \in Active THEN Cut(rsv[r], left[r]) ELSE rsv[r]]
  BY DEF Consume
<1>2. PICK left \in Leftovers(o, take) :
        /\ stock' = [c \in Buckets |-> stock[c] - take[c]]
        /\ rsv' = [r \in Reservations |-> IF r \in Active THEN Cut(rsv[r], left[r]) ELSE rsv[r]]
  BY <1>1
<1>. DEFINE R == HoldsOf(b)
            own == OwnHolds(o, b)
            others == OtherHolds(o, b)
<1>3. /\ R \subseteq Active /\ R \subseteq Reservations /\ IsFiniteSet(R)
      /\ own \subseteq R /\ others \subseteq R /\ IsFiniteSet(own) /\ IsFiniteSet(others)
      /\ R = own \cup others /\ own \cap others = {}
  <2>1. R \subseteq Active /\ own \subseteq R /\ others \subseteq R
        /\ R = own \cup others /\ own \cap others = {}
    BY DEF HoldsOf, OwnHolds, OtherHolds
  <2>. QED  BY <2>1, ActiveRows, FS_Subset
<1>4. /\ take[b] \in Nat /\ take[b] <= Usable(o, b)
      /\ stock'[b] = stock[b] - take[b] /\ stock[b] \in Int
  BY <1>2, FoundationAssumption DEF Takes, TypeOK
<1>5. /\ left \in [Active -> 0..MaxQuantity] /\ \A r \in Active : left[r] <= Quantity[r]
      /\ \A r \in Active : r \notin Own(o) => left[r] = Quantity[r]
      /\ Reserved(own) - Sum(own, left) = Min({take[b], Reserved(own)})
  BY DEF Leftovers
<1>6. /\ Reserved(own) = Sum(own, Held) /\ Reserved(others) = Sum(others, Held)
      /\ Reserved(R) = Sum(R, Held)
  BY <1>3, ReservedIsSum
<1>7. Sum(R, Held) = Sum(own, Held) + Sum(others, Held)
      /\ Sum(R, left) = Sum(own, left) + Sum(others, left)
  BY <1>3, SumUnion
<1>8. /\ Sum(R, Held) \in Nat /\ Sum(own, Held) \in Nat /\ Sum(others, Held) \in Nat
      /\ Sum(R, left) \in Nat /\ Sum(own, left) \in Nat /\ Sum(others, left) \in Nat
  BY <1>3, SumFacts
<1>9. Sum(others, left) <= Sum(others, Held)
  <2>1. ASSUME NEW r \in others
        PROVE  left[r] \in Int /\ Held[r] \in Int /\ left[r] <= Held[r]
    <3>1. r \in Active /\ rsv[r].quantity \in Int /\ Quantity[r] = rsv[r].quantity
      BY <1>3, ActiveRows DEF Quantities
    <3>2. Held[r] = rsv[r].quantity
      BY <1>3 DEF Held
    <3>. QED  BY <1>5, <3>1, <3>2
  <2>. QED  BY <1>3, <2>1, SumMonotone
<1>10. HoldsOf(b)' \subseteq R /\ \A r \in HoldsOf(b)' : rsv'[r].quantity = left[r]
  <2>1. ASSUME NEW r \in HoldsOf(b)' PROVE r \in R /\ rsv'[r].quantity = left[r]
    <3>1. r \in Reservations /\ rsv'[r].status = "active" /\ ~rsv'[r].late /\ rsv'[r].bucket = b
      BY DEF HoldsOf, Active
    <3>2. r \in Active
      BY <1>2, <3>1 DEF Active
    <3>3. rsv'[r] = Cut(rsv[r], left[r]) /\ rsv[r] \in Rows
      BY <1>2, <3>1, <3>2, ActiveRows
    <3>4. left[r] \in 0..MaxQuantity /\ left[r] <= rsv[r].quantity
      BY <1>5, <3>2, ActiveRows
    <3>. QED  BY <3>1, <3>2, <3>3, <3>4, CutRow DEF HoldsOf
  <2>. QED  BY <2>1
<1>11. Sum(HoldsOf(b)', Held') <= Sum(R, left) /\ Sum(HoldsOf(b)', Held') \in Nat
  <2>1. ASSUME NEW r \in HoldsOf(b)'
        PROVE  Held'[r] \in Int /\ left[r] \in Int /\ Held'[r] <= left[r]
    <3>1. r \in Active /\ r \in Reservations
      BY <1>3, <1>10
    <3>2. left[r] \in Int
      BY <1>5, <3>1, FoundationAssumption
    <3>3. Held'[r] = left[r]
      BY <1>10, <3>1 DEF Held
    <3>. QED  BY <3>2, <3>3
  <2>2. IsFiniteSet(HoldsOf(b)')
    BY <1>3, <1>10, FS_Subset
  <2>. QED  BY <1>3, <1>10, <2>1, <2>2, SumMonotone, SumFacts
<1>12. Reserved(HoldsOf(b))' = Sum(HoldsOf(b)', Held')
  BY <1>3, <1>10, ReservedThenIsSum DEF Reserved
<1>13. Reserved(R) <= stock[b]
  BY <1>3, <1>10 DEF ReservedIsThere
<1>14. SUFFICES Sum(R, left) <= stock[b] - take[b]
  <2>1. stock'[b] \in Int
    BY <1>4
  <2>. HIDE DEF R
  <2>. QED  BY <1>4, <1>8, <1>11, <1>12, <2>1
<1>15. CASE take[b] <= Sum(own, Held)
  <2>1. Min({take[b], Reserved(own)}) = take[b]
    BY <1>4, <1>6, <1>8, <1>15, SmallerOfTwo
  <2>. HIDE DEF R, own, others
  <2>2. Sum(own, left) = Sum(own, Held) - take[b]
    BY <1>4, <1>5, <1>6, <1>8, <2>1
  <2>. QED  BY <1>4, <1>6, <1>7, <1>8, <1>9, <1>13, <2>2
<1>16. CASE ~(take[b] <= Sum(own, Held))
  <2>1. Min({take[b], Reserved(own)}) = Sum(own, Held)
    BY <1>4, <1>6, <1>8, <1>16, SmallerOfTwo
  <2>2. FreeFor(o, b) >= take[b] /\ take[b] > 0
    BY <1>4, <1>8, <1>16 DEF Usable
  <2>3. take[b] <= stock[b] - Sum(others, Held)
    <3>1. Reserved(OtherHolds(o, b)) = Sum(others, Held)
      BY <1>6
    <3>. QED  BY <1>4, <1>8, <2>2, <3>1 DEF FreeFor
  <2>. HIDE DEF R, own, others
  <2>4. Sum(own, left) = 0
    BY <1>5, <1>6, <1>8, <2>1
  <2>. QED  BY <1>4, <1>7, <1>8, <1>9, <2>3, <2>4
<1>. QED  BY <1>15, <1>16

LEMMA DeductReserved ==
  ASSUME TypeOK, ReservedIsThere, NEW o \in Orders,
         Deduct(o) \/ UNCHANGED <<stock, rsv>> \/ Consume(o)
  PROVE  ReservedIsThere'
<1>1. CASE UNCHANGED <<stock, rsv>>
  BY <1>1 DEF ReservedIsThere, Reserved, HoldsOf, Active
<1>2. CASE Active = {} /\ UNCHANGED rsv
  BY <1>2 DEF ReservedIsThere, HoldsOf, Active
<1>. QED  BY <1>1, <1>2, ConsumeReserved DEF Deduct

LEMMA CancelReserved ==
  ASSUME TypeOK, ReservedIsThere, NEW o \in Orders, CancelCommit(o)
  PROVE  ReservedIsThere'
<1>. SUFFICES ASSUME NEW b \in Buckets PROVE Covered(b)'
  BY DEF ReservedIsThere, Covered
<1>1. \A r \in Reservations : rsv'[r].status = "active" => rsv'[r] = rsv[r]
  BY CancelFacts
<1>2. HoldsOf(b)' \subseteq HoldsOf(b) /\ \A r \in HoldsOf(b)' : rsv'[r].quantity = rsv[r].quantity
  BY <1>1 DEF HoldsOf, Active
<1>3. stock'[b] \in Int /\ stock'[b] >= stock[b]
  <2>1. stock \in [Buckets -> Int] /\ Need \in Nat /\ Default \in Buckets
    BY FoundationAssumption DEF TypeOK, Buckets
  <2>2. stock' = stock \/ stock' = [stock EXCEPT ![Default] = stock[Default] + Need]
    BY DEF CancelCommit
  <2>. QED  BY <2>1, <2>2
<1>. QED  BY <1>2, <1>3, StaysCovered DEF Covered

LEMMA SellingReserved ==
  ASSUME TypeOK, ReservedIsThere, Selling
  PROVE  ReservedIsThere'
<1>1. ASSUME NEW a \in Attempts, Supply(a) PROVE ReservedIsThere'
  <2>1. OrderOf[a] \in Orders
    BY FoundationAssumption
  <2>2. UNCHANGED <<stock, rsv>> \/ Consume(OrderOf[a])
    BY <1>1 DEF Supply, Supplied
  <2>. QED  BY <2>1, <2>2, DeductReserved
<1>2. ASSUME NEW o \in Orders, Start(o) \/ Confirm(o) PROVE ReservedIsThere'
  <2>1. Deduct(o)
    BY <1>2 DEF Start, Confirm
  <2>. QED  BY <2>1, DeductReserved
<1>3. ASSUME NEW o \in Orders, MoveOn(o) \/ CancelLoad(o) \/ CancelAborts(o) PROVE ReservedIsThere'
  <2>1. UNCHANGED <<stock, rsv>>
    BY <1>3 DEF MoveOn, CancelLoad, CancelAborts, OnlyCancel
  <2>. QED  BY <2>1, DeductReserved
<1>. QED  BY <1>1, <1>2, <1>3, CancelReserved DEF Selling

\* As long as no report allocates one bucket in several pieces: whatever is
\* taken out, moved, reported, sold and supplied, what is reserved of a bucket is
\* there.
THEOREM ReservedCovered ==
  ASSUME MaxAllocations <= 1
  PROVE  Spec => []ReservedIsThere
<1>1. TypeOK /\ ReservedIsThere /\ [Next]_vars => ReservedIsThere'
  <2>1. TypeOK /\ ReservedIsThere /\ UNCHANGED vars => ReservedIsThere'
    BY DEF vars, ReservedIsThere, Reserved, HoldsOf, Active
  <2>. QED  BY <2>1, ByHandReserved, HoldingReserved, SellingReserved DEF Next
<1>. QED  BY <1>1, ReservedInit, FoundationTypes, PTL DEF Spec


-----------------------------------------------------------------------------
(* Counting in an order.                                                   *)

StrictOrder(S, R) ==
  /\ \A x, y \in S : x # y => <<x, y>> \in R \/ <<y, x>> \in R
  /\ \A x, y \in S : <<x, y>> \in R => <<y, x>> \notin R
  /\ \A x, y, z \in S : <<x, y>> \in R /\ <<y, z>> \in R => <<x, z>> \in R

UpTo(S, R, x) == { y \in S : y = x \/ <<y, x>> \in R }

\* Whoever comes earlier has the smaller place.
LEMMA EarlierIsLower ==
  ASSUME NEW S, IsFiniteSet(S), NEW R, StrictOrder(S, R),
         NEW x \in S, NEW y \in S, <<x, y>> \in R
  PROVE  /\ UpTo(S, R, x) \subseteq UpTo(S, R, y)
         /\ Cardinality(UpTo(S, R, x)) # Cardinality(UpTo(S, R, y))
         /\ Cardinality(UpTo(S, R, x)) <= Cardinality(UpTo(S, R, y))
<1>1. UpTo(S, R, x) \subseteq UpTo(S, R, y) /\ y \in UpTo(S, R, y)
  BY DEF UpTo, StrictOrder
<1>2. y \notin UpTo(S, R, x)
  BY DEF UpTo, StrictOrder
<1>3. IsFiniteSet(UpTo(S, R, y))
  BY FS_Subset DEF UpTo
<1>4. QED
  BY <1>1, <1>2, <1>3, FS_Subset

\* In a queue of N the first k places are taken by k, or by all when there are fewer.
LEMMA FirstPlaces ==
  ASSUME NEW S, IsFiniteSet(S), NEW R, StrictOrder(S, R), NEW k \in Nat
  PROVE  LET first == { x \in S : Cardinality(UpTo(S, R, x)) <= k }
         IN  /\ IsFiniteSet(first)
             /\ Cardinality(first) = IF Cardinality(S) <= k THEN Cardinality(S) ELSE k
<1>. DEFINE N == Cardinality(S)
            rank == [ x \in S |-> Cardinality(UpTo(S, R, x)) ]
            first == { x \in S : Cardinality(UpTo(S, R, x)) <= k }
<1>1. N \in Nat
  BY FS_CardinalityType
<1>2. ASSUME NEW x \in S PROVE rank[x] \in 1 .. N
  <2>1. UpTo(S, R, x) \subseteq S /\ x \in UpTo(S, R, x)
    BY DEF UpTo
  <2>2. IsFiniteSet(UpTo(S, R, x)) /\ Cardinality(UpTo(S, R, x)) <= N
    BY <2>1, FS_Subset
  <2>3. Cardinality(UpTo(S, R, x)) \in Nat /\ Cardinality(UpTo(S, R, x)) # 0
    BY <2>1, <2>2, FS_CardinalityType, FS_EmptySet
  <2>4. QED
    BY <1>1, <2>2, <2>3
<1>3. ASSUME NEW x \in S, NEW y \in S, x # y PROVE rank[x] # rank[y]
  <2>1. <<x, y>> \in R \/ <<y, x>> \in R
    BY <1>3 DEF StrictOrder
  <2>2. QED
    BY <2>1, EarlierIsLower
<1>4. IsFiniteSet(1 .. N) /\ Cardinality(1 .. N) = N
  BY <1>1, FS_Interval
<1>5. rank \in Injection(S, 1 .. N)
  BY <1>2, <1>3 DEF Injection, IsInjective
<1>6. rank \in Surjection(S, 1 .. N)
  BY <1>4, <1>5, FS_Injection
<1>7. first \subseteq S
  OBVIOUS
<1>8. IsFiniteSet(first)
  BY <1>7, FS_Subset
<1>9. CASE N <= k
  <2>1. first = S
    BY <1>1, <1>2, <1>9
  <2>2. QED
    BY <1>8, <1>9, <2>1
<1>10. CASE ~(N <= k)
  <2>. DEFINE low == [ x \in first |-> rank[x] ]
  <2>1. \A x \in first : rank[x] <= k /\ rank[x] \in 1 .. N
    BY <1>2
  <2>. HIDE DEF rank, first
  <2>2. low \in [first -> 1 .. k]
    BY <2>1, <1>1
  <2>3. low \in Injection(first, 1 .. k)
    BY <1>3, <1>7, <2>2 DEF Injection, IsInjective
  <2>4. ASSUME NEW j \in 1 .. k PROVE \E x \in first : low[x] = j
    <3>1. j \in 1 .. N
      BY <1>1, <1>10
    <3>2. PICK x \in S : rank[x] = j
      BY <1>6, <3>1 DEF Surjection
    <3>3. x \in first
      BY <3>2 DEF first, rank
    <3>4. QED
      BY <3>2, <3>3
  <2>5. low \in Surjection(first, 1 .. k)
    BY <2>2, <2>4 DEF Surjection
  <2>6. IsFiniteSet(1 .. k) /\ Cardinality(1 .. k) = k
    BY FS_Interval
  <2>7. Cardinality(first) = k
    BY <2>3, <2>5, <2>6, FS_Injection
  <2>8. QED
    BY <1>8, <1>10, <2>7 DEF first
<1>11. QED
  BY <1>9, <1>10

\* What holds of a number holds of those below it: a segment, as long as it has members.
LEMMA Segment ==
  ASSUME NEW n \in Nat, NEW A \in SUBSET (1..n),
         \A k \in A : \A j \in 1..n : j < k => j \in A
  PROVE  Cardinality(A) \in 0..n /\ \A k \in 1..n : k \in A <=> k <= Cardinality(A)
<1>1. /\ IsFiniteSet(1..n) /\ Cardinality(1..n) = n
      /\ IsFiniteSet(A) /\ Cardinality(A) \in Nat /\ Cardinality(A) <= n
  <2>1. IsFiniteSet(1..n) /\ Cardinality(1..n) = n
    BY FS_Interval
  <2>2. IsFiniteSet(A) /\ Cardinality(A) <= n
    BY <2>1, FS_Subset
  <2>. QED  BY <2>1, <2>2, FS_CardinalityType
<1>2. ASSUME NEW k \in A PROVE k <= Cardinality(A)
  <2>1. (1..k) \in SUBSET A
    OBVIOUS
  <2>2. Cardinality(1..k) = k
    BY FS_Interval
  <2>. QED  BY <1>1, <2>1, <2>2, FS_Subset
<1>3. ASSUME NEW k \in 1..n, k \notin A PROVE k > Cardinality(A)
  <2>1. A \in SUBSET (1..(k-1))
    <3>1. ASSUME NEW j \in A PROVE j \in 1..(k-1)
      <4>1. j \in 1..n /\ j # k /\ (k < j => k \in A)
        BY <1>3
      <4>. QED  BY <1>3, <4>1
    <3>. QED  BY <3>1
  <2>2. IsFiniteSet(1..(k-1)) /\ Cardinality(1..(k-1)) = k - 1
    BY FS_Interval
  <2>. DEFINE B == 1..(k-1)
  <2>3. IsFiniteSet(B) /\ A \in SUBSET B /\ Cardinality(B) = k - 1
    BY <2>1, <2>2
  <2>. HIDE DEF B
  <2>4. Cardinality(A) <= k - 1
    BY <2>3, FS_Subset
  <2>. QED  BY <1>1, <2>4
<1>. QED  BY <1>1, <1>2, <1>3

LEMMA BucketsFinite == IsFiniteSet(Buckets)
BY FoundationAssumption, FS_Union DEF Buckets

LEMMA PiecesFacts ==
  ASSUME NEW amount, \A b \in Buckets : amount[b] \in Int
  PROVE  /\ IsFiniteSet(Pieces(amount)) /\ Cardinality(Pieces(amount)) \in Nat
         /\ \A b, k : <<b, k>> \in Pieces(amount) <=> b \in Buckets /\ k \in 1..amount[b]
         /\ \A x \in Pieces(amount) : x = <<x[1], x[2]>> /\ x[1] \in Buckets /\ x[2] \in 1..amount[x[1]]
<1>. DEFINE part == [b \in Buckets |-> {b} \X (1..amount[b])]
            T == { part[b] : b \in Buckets }
<1>1. part \in Surjection(Buckets, T)
  BY DEF Surjection
<1>2. IsFiniteSet(T)
  BY <1>1, BucketsFinite, FS_Surjection
<1>3. ASSUME NEW b \in Buckets PROVE IsFiniteSet(part[b])
  <2>1. IsFiniteSet({b}) /\ amount[b] \in Int
    BY FS_Singleton
  <2>2. IsFiniteSet(1..amount[b])
    BY <2>1, FS_Interval
  <2>. QED  BY <2>1, <2>2, FS_Product
<1>4. \A s \in T : IsFiniteSet(s)
  BY <1>3
<1>5. Pieces(amount) = UNION T
  BY DEF Pieces
<1>. HIDE DEF T
<1>6. IsFiniteSet(Pieces(amount))
  BY <1>2, <1>4, <1>5, FS_UNION
<1>. QED  BY <1>6, FS_CardinalityType DEF Pieces

\* What is there is counted by its units.
LEMMA TotalIsCount ==
  ASSUME NEW amount, \A b \in Buckets : amount[b] \in Nat
  PROVE  Total(amount) = Cardinality(Pieces(amount))
<1>. DEFINE less == [b \in Buckets |-> -amount[b]]
<1>1. \A b \in Buckets : less[b] \in Int /\ 1..less[b] = {}
  OBVIOUS
<1>. HIDE DEF less
<1>2. Pieces(less) = {}
  BY <1>1 DEF Pieces
<1>3. Cardinality(Pieces(less)) = 0 /\ Cardinality(Pieces(amount)) \in Nat
  BY <1>2, FS_EmptySet, PiecesFacts
<1>. QED  BY <1>3 DEF Total, less

LEMMA PiecesMonotone ==
  ASSUME NEW f, NEW g, \A b \in Buckets : f[b] \in Int /\ g[b] \in Int /\ f[b] <= g[b]
  PROVE  Pieces(f) \subseteq Pieces(g) /\ Cardinality(Pieces(f)) <= Cardinality(Pieces(g))
<1>1. ASSUME NEW x \in Pieces(f) PROVE x \in Pieces(g)
  <2>1. x = <<x[1], x[2]>> /\ x[1] \in Buckets /\ x[2] \in 1..f[x[1]]
    BY PiecesFacts
  <2>2. x[2] \in 1..g[x[1]]
    BY <2>1
  <2>. QED  BY <2>1, <2>2, PiecesFacts
<1>2. IsFiniteSet(Pieces(g))
  BY PiecesFacts
<1>. QED  BY <1>1, <1>2, FS_Subset

\* What consists of a part for each bucket is no more than the parts may hold.
LEMMA CountByParts ==
  ASSUME NEW whole, NEW part, NEW size,
         \A b \in Buckets : /\ IsFiniteSet(part[b]) /\ size[b] \in Int
                            /\ Cardinality(part[b]) <= size[b],
         \A x \in whole : \E b \in Buckets : x \in part[b]
  PROVE  Cardinality(whole) <= Cardinality(Pieces(size))
<1>. DEFINE n == [b \in Buckets |-> Cardinality(part[b])]
            g == [b \in Buckets |-> CHOOSE f \in Surjection(1..n[b], part[b]) : TRUE]
            f == [x \in Pieces(n) |-> g[x[1]][x[2]]]
            image == { f[x] : x \in Pieces(n) }
<1>1. \A b \in Buckets : n[b] \in Nat
  BY FS_CardinalityType
<1>2. ASSUME NEW b \in Buckets PROVE g[b] \in Surjection(1..n[b], part[b])
  <2>1. ExistsBijection(1..n[b], part[b])
    BY FS_CardinalityType
  <2>2. \E h : h \in Surjection(1..n[b], part[b])
    BY <2>1 DEF ExistsBijection, Bijection
  <2>. QED  BY <2>2
<1>3. IsFiniteSet(Pieces(n)) /\ Cardinality(Pieces(n)) <= Cardinality(Pieces(size))
      /\ Cardinality(Pieces(n)) \in Nat /\ Cardinality(Pieces(size)) \in Nat
  <2>1. \A b \in Buckets : n[b] \in Int /\ size[b] \in Int /\ n[b] <= size[b]
    BY <1>1
  <2>. HIDE DEF n
  <2>. QED  BY <2>1, PiecesMonotone, PiecesFacts
<1>4. f \in Surjection(Pieces(n), image)
  BY DEF Surjection
<1>5. ASSUME NEW x \in whole PROVE x \in image
  <2>1. PICK b \in Buckets : x \in part[b]
    OBVIOUS
  <2>2. PICK k \in 1..n[b] : g[b][k] = x
    BY <1>2, <2>1 DEF Surjection
  <2>3. <<b, k>> \in Pieces(n)
    BY <1>1, <2>2 DEF Pieces
  <2>4. f[<<b, k>>] = x
    BY <2>2, <2>3
  <2>. QED  BY <2>3, <2>4
<1>. HIDE DEF f, image, n
<1>6. IsFiniteSet(image) /\ Cardinality(image) <= Cardinality(Pieces(n))
  BY <1>3, <1>4, FS_Surjection
<1>7. IsFiniteSet(whole) /\ Cardinality(whole) <= Cardinality(image)
  BY <1>5, <1>6, FS_Subset
<1>. QED  BY <1>3, <1>6, <1>7, FS_CardinalityType

Injective(num, K) == \A x, y \in K : x # y => num[x] # num[y]

LEMMA Numbering ==
  ASSUME NEW K, IsFiniteSet(K)
  PROVE  \E num : num \in [K -> Nat] /\ Injective(num, K)
<1>. DEFINE n == Cardinality(K)
<1>1. n \in Nat /\ ExistsBijection(1..n, K)
  BY FS_CardinalityType
<1>2. PICK f : f \in Surjection(1..n, K)
  BY <1>1 DEF ExistsBijection, Bijection
<1>. DEFINE num == [x \in K |-> CHOOSE i \in 1..n : f[i] = x]
<1>3. ASSUME NEW x \in K PROVE num[x] \in 1..n /\ f[num[x]] = x
  <2>1. \E i \in 1..n : f[i] = x
    BY <1>2 DEF Surjection
  <2>. QED  BY <2>1
<1>. HIDE DEF n
<1>4. num \in [K -> Nat]
  BY <1>1, <1>3
<1>5. Injective(num, K)
  <2>. HIDE DEF num
  <2>. QED  BY <1>3 DEF Injective
<1>. QED  BY <1>4, <1>5

\* Piece by piece: all of what comes first, then all of what comes next.
InTurn(V, R) ==
  { p \in V \X V : \/ <<p[1][1], p[2][1]>> \in R
                   \/ p[1][1] = p[2][1] /\ p[1][2] < p[2][2] }

LEMMA InTurnOrder ==
  ASSUME NEW K, NEW R, StrictOrder(K, R), NEW V,
         \A x \in V : x = <<x[1], x[2]>> /\ x[1] \in K /\ x[2] \in Int
  PROVE  StrictOrder(V, InTurn(V, R))
<1>. DEFINE T == InTurn(V, R)
<1>1. ASSUME NEW x \in V, NEW y \in V
      PROVE  <<x, y>> \in T <=> <<x[1], y[1]>> \in R \/ (x[1] = y[1] /\ x[2] < y[2])
  BY DEF InTurn
<1>. HIDE DEF T
<1>2. ASSUME NEW x \in V, NEW y \in V, x # y PROVE <<x, y>> \in T \/ <<y, x>> \in T
  <2>1. CASE x[1] # y[1]
    BY <1>1, <2>1 DEF StrictOrder
  <2>2. CASE x[1] = y[1]
    <3>1. x[2] # y[2] /\ x[2] \in Int /\ y[2] \in Int
      BY <1>2, <2>2
    <3>2. x[2] < y[2] \/ y[2] < x[2]
      BY <3>1
    <3>. QED  BY <1>1, <2>2, <3>2
  <2>. QED  BY <2>1, <2>2
<1>3. ASSUME NEW x \in V, NEW y \in V, <<x, y>> \in T PROVE <<y, x>> \notin T
  <2>1. CASE <<x[1], y[1]>> \in R
    BY <1>1, <2>1 DEF StrictOrder
  <2>2. CASE x[1] = y[1] /\ x[2] < y[2]
    <3>1. <<y[1], x[1]>> \notin R
      BY <2>2 DEF StrictOrder
    <3>2. x[2] \in Int /\ y[2] \in Int
      OBVIOUS
    <3>. QED  BY <1>1, <2>2, <3>1, <3>2
  <2>. QED  BY <1>1, <1>3, <2>1, <2>2
<1>4. ASSUME NEW x \in V, NEW y \in V, NEW z \in V, <<x, y>> \in T, <<y, z>> \in T
      PROVE  <<x, z>> \in T
  <2>1. \/ <<x[1], z[1]>> \in R
        \/ x[1] = y[1] /\ y[1] = z[1] /\ x[2] < y[2] /\ y[2] < z[2]
    BY <1>1, <1>4 DEF StrictOrder
  <2>2. x[2] \in Int /\ y[2] \in Int /\ z[2] \in Int
    OBVIOUS
  <2>. QED  BY <1>1, <2>1, <2>2
<1>. QED  BY <1>2, <1>3, <1>4 DEF StrictOrder, T

\* The pieces of each size.
Consists(V, K, size) ==
  /\ \A x \in V : x = <<x[1], x[2]>> /\ x[1] \in K /\ x[2] \in 1..size[x[1]]
  /\ \A k \in K : \A j \in 1..size[k] : <<k, j>> \in V

Share(V, fill) == { x \in V : x[2] <= fill[x[1]] }

\* A need of m is met in turn: none has to give before those earlier are used up.
LEMMA Fill ==
  ASSUME NEW K, NEW R, StrictOrder(K, R), NEW size, \A k \in K : size[k] \in Nat,
         NEW V, IsFiniteSet(V), Consists(V, K, size),
         NEW m \in Nat, m <= Cardinality(V)
  PROVE  \E fill \in [K -> Nat] :
           /\ \A k \in K : fill[k] <= size[k]
           /\ Cardinality(Share(V, fill)) = m
           /\ \A k, l \in K : <<k, l>> \in R /\ fill[l] > 0 => fill[k] = size[k]
<1>. DEFINE T == InTurn(V, R)
            first == { x \in V : Cardinality(UpTo(V, T, x)) <= m }
            share(k) == { j \in 1..size[k] : <<k, j>> \in first }
            fill == [k \in K |-> Cardinality(share(k))]
<1>0. /\ \A x \in V : x = <<x[1], x[2]>> /\ x[1] \in K /\ x[2] \in 1..size[x[1]]
      /\ \A k \in K : \A j \in 1..size[k] : <<k, j>> \in V
  BY DEF Consists
<1>1. StrictOrder(V, T)
  <2>1. \A x \in V : x = <<x[1], x[2]>> /\ x[1] \in K /\ x[2] \in Int
    BY <1>0
  <2>. QED  BY <2>1, InTurnOrder
<1>2. Cardinality(first) = m
  <2>1. Cardinality(V) \in Nat
    BY FS_CardinalityType
  <2>2. Cardinality(first) = IF Cardinality(V) <= m THEN Cardinality(V) ELSE m
    BY <1>1, FirstPlaces
  <2>. QED  BY <2>1, <2>2
<1>3. ASSUME NEW x \in V, NEW y \in first, <<x, y>> \in T PROVE x \in first
  <2>1. y \in V /\ Cardinality(UpTo(V, T, y)) <= m
    OBVIOUS
  <2>. HIDE DEF T
  <2>2. Cardinality(UpTo(V, T, x)) <= Cardinality(UpTo(V, T, y))
    BY <1>1, <1>3, <2>1, EarlierIsLower
  <2>3. Cardinality(UpTo(V, T, x)) \in Nat /\ Cardinality(UpTo(V, T, y)) \in Nat
    <3>1. \A z : UpTo(V, T, z) \in SUBSET V
      BY DEF UpTo
    <3>. QED  BY <3>1, FS_Subset, FS_CardinalityType
  <2>. QED  BY <2>1, <2>2, <2>3
<1>4. ASSUME NEW x \in V, NEW y \in V
      PROVE  <<x, y>> \in T <=> <<x[1], y[1]>> \in R \/ (x[1] = y[1] /\ x[2] < y[2])
  BY DEF InTurn
<1>5. first \subseteq V
  OBVIOUS
<1>. HIDE DEF T, first
<1>6. ASSUME NEW k \in K
      PROVE  /\ fill[k] \in Nat /\ fill[k] <= size[k]
             /\ \A j \in 1..size[k] : <<k, j>> \in first <=> j <= fill[k]
  <2>. DEFINE A == share(k)
  <2>1. size[k] \in Nat /\ A \in SUBSET (1..size[k])
    OBVIOUS
  <2>2. ASSUME NEW i \in A, NEW j \in 1..size[k], j < i PROVE j \in A
    <3>1. <<k, j>> \in V /\ <<k, i>> \in V /\ <<k, i>> \in first
      BY <1>0
    <3>2. <<k, j>>[1] = k /\ <<k, j>>[2] = j /\ <<k, i>>[1] = k /\ <<k, i>>[2] = i
      OBVIOUS
    <3>3. <<<<k, j>>, <<k, i>>>> \in T
      BY <1>4, <2>2, <3>1, <3>2
    <3>. QED  BY <1>3, <3>1, <3>3
  <2>3. \A j \in 1..size[k] : j \in A <=> <<k, j>> \in first
    OBVIOUS
  <2>4. fill[k] = Cardinality(A)
    OBVIOUS
  <2>. HIDE DEF A, fill
  <2>5. Cardinality(A) \in 0..size[k] /\ \A j \in 1..size[k] : j \in A <=> j <= Cardinality(A)
    BY <2>1, <2>2, Segment
  <2>. QED  BY <2>1, <2>3, <2>4, <2>5
<1>7. fill \in [K -> Nat]
  <2>1. \A k \in K : Cardinality(share(k)) \in Nat
    BY <1>6
  <2>. QED  BY <2>1
<1>. HIDE DEF fill
<1>8. Share(V, fill) = first
  <2>1. ASSUME NEW x \in V PROVE x \in first <=> x[2] <= fill[x[1]]
    <3>1. x = <<x[1], x[2]>> /\ x[1] \in K /\ x[2] \in 1..size[x[1]]
      BY <1>0
    <3>. QED  BY <1>6, <3>1
  <2>. QED  BY <1>5, <2>1 DEF Share
<1>9. ASSUME NEW k \in K, NEW l \in K, <<k, l>> \in R, fill[l] > 0 PROVE fill[k] = size[k]
  <2>1. 1 \in 1..size[l] /\ 1 <= fill[l]
    BY <1>6, <1>9
  <2>2. <<l, 1>> \in first /\ <<l, 1>> \in V
    BY <1>0, <1>6, <2>1
  <2>3. ASSUME size[k] # 0 PROVE size[k] <= fill[k]
    <3>1. size[k] \in 1..size[k] /\ <<k, size[k]>> \in V
      BY <1>0, <2>3
    <3>2. <<k, size[k]>>[1] = k /\ <<l, 1>>[1] = l
      OBVIOUS
    <3>3. <<<<k, size[k]>>, <<l, 1>>>> \in T
      BY <1>4, <1>9, <2>2, <3>1, <3>2
    <3>4. <<k, size[k]>> \in first
      BY <1>3, <2>2, <3>1, <3>3
    <3>. QED  BY <1>6, <3>1, <3>4
  <2>4. fill[k] \in Nat /\ fill[k] <= size[k] /\ size[k] \in Nat
    BY <1>6
  <2>. QED  BY <2>3, <2>4
<1>. QED  BY <1>2, <1>6, <1>7, <1>8, <1>9

-----------------------------------------------------------------------------
(* An order whose reservations cover it is served.                         *)

\* What an order may take of a bucket is at least what it has reserved of it.
LEMMA UsableFacts ==
  ASSUME TypeOK, ReservedIsThere, NEW o \in Orders, NEW b \in Buckets
  PROVE  /\ Usable(o, b) \in Nat
         /\ Eligible(b) => Reserved(OwnHolds(o, b)) <= Usable(o, b)
         /\ stock[b] >= 0 => Usable(o, b) <= stock[b]
<1>. DEFINE own == OwnHolds(o, b)
            other == OtherHolds(o, b)
<1>1. /\ own \in SUBSET Reservations /\ other \in SUBSET Reservations
      /\ own \cap other = {} /\ own \cup other = HoldsOf(b)
      /\ HoldsOf(b) \in SUBSET Active
  BY ActiveRows DEF HoldsOf, OwnHolds, OtherHolds
<1>2. IsFiniteSet(own) /\ IsFiniteSet(other) /\ HoldsOf(b) \in SUBSET Reservations
  BY <1>1, ActiveRows, FS_Subset
<1>. HIDE DEF own, other
<1>3. /\ Reserved(own) \in Nat /\ Reserved(other) \in Nat
      /\ Reserved(HoldsOf(b)) = Reserved(own) + Reserved(other)
  <2>1. Reserved(own) = Sum(own, Held) /\ Reserved(other) = Sum(other, Held)
        /\ Reserved(HoldsOf(b)) = Sum(HoldsOf(b), Held)
    BY <1>1, <1>2, ReservedIsSum
  <2>2. Sum(own \cup other, Held) = Sum(own, Held) + Sum(other, Held)
    BY <1>1, <1>2, SumUnion
  <2>. QED  BY <1>1, <1>2, <2>1, <2>2, SumFacts
<1>4. stock[b] \in Int
  BY DEF TypeOK
<1>5. FreeFor(o, b) = IF stock[b] - Reserved(other) > 0 THEN stock[b] - Reserved(other) ELSE 0
  BY DEF FreeFor, other
<1>6. Usable(o, b) \in Nat /\ (stock[b] >= 0 => Usable(o, b) <= stock[b])
  BY <1>3, <1>4, <1>5 DEF Usable
<1>7. Reserved(own) <= FreeFor(o, b)
  <2>1. CASE HoldsOf(b) = {}
    <3>1. own = {}
      BY <1>1, <2>1
    <3>2. Reserved(own) = 0
      BY <3>1, FS_EmptySet DEF Reserved
    <3>. QED  BY <1>3, <1>4, <1>5, <3>2
  <2>2. CASE HoldsOf(b) # {}
    <3>1. Reserved(HoldsOf(b)) <= stock[b]
      BY <2>2 DEF ReservedIsThere
    <3>. QED  BY <1>3, <1>4, <1>5, <3>1
  <2>. QED  BY <2>1, <2>2
<1>. QED  BY <1>6, <1>7 DEF Usable, own

\* The order in which buckets are used: owned ones, then lots, then places.
InLine(owned, num) ==
  { p \in Buckets \X Buckets :
      \/ p[1] \in owned /\ p[2] \notin owned
      \/ /\ p[1] \in owned <=> p[2] \in owned
         /\ \/ p[1] \in Lots /\ (p[2] \in Lots => p[1] < p[2])
            \/ p[1] \notin Lots /\ p[2] \notin Lots /\ num[p[1]] < num[p[2]] }

LEMMA InLineOrder ==
  ASSUME NEW owned, NEW num \in [Buckets -> Nat], Injective(num, Buckets)
  PROVE  StrictOrder(Buckets, InLine(owned, num))
<1>. DEFINE R == InLine(owned, num)
<1>1. ASSUME NEW b \in Buckets, NEW c \in Buckets
      PROVE  <<b, c>> \in R <=>
               \/ b \in owned /\ c \notin owned
               \/ /\ b \in owned <=> c \in owned
                  /\ \/ b \in Lots /\ (c \in Lots => b < c)
                     \/ b \notin Lots /\ c \notin Lots /\ num[b] < num[c]
  BY DEF InLine
<1>2. \A l \in Lots : l \in Nat
  BY FoundationAssumption
<1>3. \A b \in Buckets : num[b] \in Nat
  OBVIOUS
<1>4. \A b, c \in Buckets : b # c => num[b] # num[c]
  BY DEF Injective
<1>. HIDE DEF R
<1>5. ASSUME NEW b \in Buckets, NEW c \in Buckets, b # c PROVE <<b, c>> \in R \/ <<c, b>> \in R
  BY <1>1, <1>2, <1>3, <1>4, <1>5
<1>6. ASSUME NEW b \in Buckets, NEW c \in Buckets, <<b, c>> \in R PROVE <<c, b>> \notin R
  BY <1>1, <1>2, <1>3, <1>6
<1>7. ASSUME NEW b \in Buckets, NEW c \in Buckets, NEW d \in Buckets,
             <<b, c>> \in R, <<c, d>> \in R
      PROVE  <<b, d>> \in R
  BY <1>1, <1>2, <1>3, <1>7
<1>. QED  BY <1>5, <1>6, <1>7 DEF StrictOrder, R

\* What an order needs can be taken where that much is usable.
LEMMA TakeExists ==
  ASSUME TypeOK, NEW o \in Orders, \A b \in Buckets : Usable(o, b) \in Nat,
         Cardinality(Pieces([b \in Buckets |-> Usable(o, b)])) >= Need
  PROVE  \E take : take \in Takes(o)
<1>. DEFINE size == [b \in Buckets |-> Usable(o, b)]
            V == Pieces(size)
            owned == { b \in Buckets : OwnHolds(o, b) # {} }
<1>1. PICK num : num \in [Buckets -> Nat] /\ Injective(num, Buckets)
  BY BucketsFinite, Numbering
<1>. DEFINE R == InLine(owned, num)
<1>2. StrictOrder(Buckets, R)
  BY <1>1, InLineOrder
<1>3. Need \in Nat
  BY FoundationAssumption
<1>4. \A b \in Buckets : size[b] = Usable(o, b) /\ size[b] \in Nat /\ size[b] \in Int
  OBVIOUS
<1>5. Cardinality(V) >= Need
  OBVIOUS
<1>6. \A b, c \in Buckets : Before(o, b, c) => <<b, c>> \in R
  BY DEF Before, InLine
<1>. HIDE DEF size
<1>7. /\ IsFiniteSet(V) /\ Cardinality(V) \in Nat
      /\ Consists(V, Buckets, size)
  BY <1>4, PiecesFacts DEF Consists
<1>. HIDE DEF V, R
<1>8. PICK fill \in [Buckets -> Nat] :
        /\ \A b \in Buckets : fill[b] <= size[b]
        /\ Cardinality(Share(V, fill)) = Need
        /\ \A b, c \in Buckets : <<b, c>> \in R /\ fill[c] > 0 => fill[b] = size[b]
  <2>1. Need <= Cardinality(V) /\ \A b \in Buckets : size[b] \in Nat
    BY <1>3, <1>4, <1>5, <1>7
  <2>. QED  BY <1>2, <1>3, <1>7, <2>1, Fill
<1>9. Share(V, fill) = Pieces(fill)
  <2>1. \A b \in Buckets : fill[b] \in Int /\ fill[b] <= size[b] /\ size[b] \in Int
    BY <1>4, <1>8
  <2>2. ASSUME NEW x \in Pieces(fill) PROVE x \in V /\ x[2] <= fill[x[1]]
    <3>1. x = <<x[1], x[2]>> /\ x[1] \in Buckets /\ x[2] \in 1..fill[x[1]]
      BY <2>1, PiecesFacts
    <3>2. x[2] \in 1..size[x[1]]
      BY <2>1, <3>1
    <3>. QED  BY <1>7, <2>1, <3>1, <3>2 DEF Consists
  <2>3. ASSUME NEW x \in V, x[2] <= fill[x[1]] PROVE x \in Pieces(fill)
    <3>1. x = <<x[1], x[2]>> /\ x[1] \in Buckets /\ x[2] \in 1..size[x[1]]
      BY <1>7 DEF Consists
    <3>2. x[2] \in 1..fill[x[1]]
      BY <2>1, <2>3, <3>1
    <3>. QED  BY <2>1, <3>1, <3>2, PiecesFacts
  <2>. QED  BY <2>2, <2>3 DEF Share
<1>10. Total(fill) = Need
  BY <1>8, <1>9, TotalIsCount
<1>11. ASSUME NEW b \in Buckets PROVE fill[b] \in 0..Need
  <2>1. fill[b] \in Nat /\ IsFiniteSet(Pieces(fill)) /\ Cardinality(Pieces(fill)) = Need
    <3>1. \A c \in Buckets : fill[c] \in Int
      OBVIOUS
    <3>. QED  BY <1>8, <1>9, <3>1, PiecesFacts
  <2>2. ({b} \X (1..fill[b])) \in SUBSET Pieces(fill)
    BY DEF Pieces
  <2>3. /\ IsFiniteSet({b}) /\ Cardinality({b}) = 1
        /\ IsFiniteSet(1..fill[b]) /\ Cardinality(1..fill[b]) = fill[b]
    <3>1. IsFiniteSet({b}) /\ Cardinality({b}) = 1
      BY FS_Singleton
    <3>2. IsFiniteSet(1..fill[b]) /\ Cardinality(1..fill[b]) = fill[b]
      BY <2>1, FS_Interval
    <3>. QED  BY <3>1, <3>2
  <2>4. Cardinality({b} \X (1..fill[b])) = 1 * fill[b]
    BY <2>3, FS_Product
  <2>5. Cardinality({b} \X (1..fill[b])) <= Need
    BY <2>1, <2>2, FS_Subset
  <2>. QED  BY <1>3, <2>1, <2>4, <2>5
<1>12. ASSUME NEW b \in Places, NEW c \in Places, b # c, fill[b] > 0, fill[c] > 0
       PROVE  fill[b] = Usable(o, b) \/ fill[c] = Usable(o, c)
  <2>1. b \in Buckets /\ c \in Buckets
    BY DEF Buckets
  <2>2. <<b, c>> \in R \/ <<c, b>> \in R
    BY <1>2, <1>12, <2>1 DEF StrictOrder
  <2>. QED  BY <1>4, <1>8, <1>12, <2>1, <2>2
<1>13. fill \in Takes(o)
  <2>1. fill \in [Buckets -> 0..Need]
    BY <1>11
  <2>2. \A b \in Buckets : fill[b] <= Usable(o, b)
    BY <1>4, <1>8
  <2>3. \A b, c \in Buckets : Before(o, b, c) /\ fill[c] > 0 => fill[b] = Usable(o, b)
    BY <1>4, <1>6, <1>8
  <2>. QED  BY <1>10, <1>12, <2>1, <2>2, <2>3 DEF Takes
<1>. QED  BY <1>13

\* What one bucket gives is taken from the order's reservations of it, one after the other.
OneByOne(o, b, taken, left) ==
  /\ left \in [OwnHolds(o, b) -> Nat]
  /\ \A r \in OwnHolds(o, b) : left[r] <= Quantity[r]
  /\ Reserved(OwnHolds(o, b)) - Sum(OwnHolds(o, b), left)
       = Min({taken, Reserved(OwnHolds(o, b))})
  /\ \A q, r \in OwnHolds(o, b) :
       q # r /\ left[q] < Quantity[q] /\ left[r] < Quantity[r] => 0 \in {left[q], left[r]}

LEMMA OneByOneExists ==
  ASSUME TypeOK, NEW o \in Orders, NEW b \in Buckets, NEW taken \in Nat
  PROVE  \E left : OneByOne(o, b, taken, left)
<1>. DEFINE K == OwnHolds(o, b)
            V == Units(K, Held)
            all == Reserved(K)
            m == all - Min({taken, all})
<1>1. K \in SUBSET Active /\ K \in SUBSET Reservations /\ IsFiniteSet(K)
  <2>1. K \in SUBSET Active
    BY DEF OwnHolds, HoldsOf
  <2>. QED  BY <2>1, ActiveRows, FS_Subset
<1>2. \A k \in K : Held[k] = Quantity[k] /\ Held[k] \in Quantities /\ Held[k] \in Nat
  BY <1>1, ActiveRows, FoundationAssumption DEF Held, Quantities
<1>. HIDE DEF K
<1>3. IsFiniteSet(V) /\ all = Cardinality(V) /\ all \in Nat
  BY <1>1, SumFacts, ReservedIsSum
<1>. HIDE DEF V, all
<1>4. m \in Nat /\ m <= all /\ all - m = Min({taken, all})
  <2>1. Min({taken, all}) = IF taken <= all THEN taken ELSE all
    BY <1>3, SmallerOfTwo
  <2>. QED  BY <1>3, <2>1
<1>. HIDE DEF m
<1>5. Consists(V, K, Held)
  <2>1. ASSUME NEW x \in V PROVE x = <<x[1], x[2]>> /\ x[1] \in K /\ x[2] \in 1..Held[x[1]]
    <3>1. x \in K \X Quantities /\ x[2] <= Held[x[1]]
      BY DEF V, Units
    <3>2. x[1] \in K /\ x[2] \in Quantities /\ x = <<x[1], x[2]>>
      BY <3>1
    <3>. QED  BY <1>2, <3>1, <3>2, FoundationAssumption DEF Quantities
  <2>2. ASSUME NEW k \in K, NEW j \in 1..Held[k] PROVE <<k, j>> \in V
    <3>1. j \in Quantities /\ j <= Held[k]
      BY <1>2, FoundationAssumption DEF Quantities
    <3>. QED  BY <3>1 DEF V, Units
  <2>. QED  BY <2>1, <2>2 DEF Consists
<1>6. PICK num : num \in [K -> Nat] /\ Injective(num, K)
  BY <1>1, Numbering
<1>. DEFINE R == { p \in K \X K : num[p[1]] < num[p[2]] }
<1>7. StrictOrder(K, R)
  <2>1. ASSUME NEW x \in K, NEW y \in K PROVE <<x, y>> \in R <=> num[x] < num[y]
    OBVIOUS
  <2>2. \A x \in K : num[x] \in Nat
    BY <1>6
  <2>3. \A x, y \in K : x # y => num[x] # num[y]
    BY <1>6 DEF Injective
  <2>. HIDE DEF R
  <2>4. ASSUME NEW x \in K, NEW y \in K, x # y PROVE <<x, y>> \in R \/ <<y, x>> \in R
    BY <2>1, <2>2, <2>3, <2>4
  <2>5. ASSUME NEW x \in K, NEW y \in K, <<x, y>> \in R PROVE <<y, x>> \notin R
    BY <2>1, <2>2, <2>5
  <2>6. ASSUME NEW x \in K, NEW y \in K, NEW z \in K, <<x, y>> \in R, <<y, z>> \in R
        PROVE  <<x, z>> \in R
    BY <2>1, <2>2, <2>6
  <2>. QED  BY <2>4, <2>5, <2>6 DEF StrictOrder
<1>. HIDE DEF R
<1>8. PICK left \in [K -> Nat] :
        /\ \A k \in K : left[k] <= Held[k]
        /\ Cardinality(Share(V, left)) = m
        /\ \A k, l \in K : <<k, l>> \in R /\ left[l] > 0 => left[k] = Held[k]
  <2>. DEFINE size == Held
  <2>1. \A k \in K : size[k] \in Nat
    BY <1>2
  <2>2. IsFiniteSet(V) /\ Consists(V, K, size)
    BY <1>3, <1>5
  <2>3. m \in Nat /\ m <= Cardinality(V)
    BY <1>3, <1>4
  <2>. HIDE DEF size
  <2>4. \E left \in [K -> Nat] :
          /\ \A k \in K : left[k] <= size[k]
          /\ Cardinality(Share(V, left)) = m
          /\ \A k, l \in K : <<k, l>> \in R /\ left[l] > 0 => left[k] = size[k]
    BY <1>7, <2>1, <2>2, <2>3, Fill
  <2>. QED  BY <2>4 DEF size
<1>9. Sum(K, left) = m
  <2>1. ASSUME NEW u \in K \X Quantities
        PROVE  u[2] <= left[u[1]] <=> u[2] <= Held[u[1]] /\ u[2] <= left[u[1]]
    <3>1. u[1] \in K /\ u[2] \in Quantities
      OBVIOUS
    <3>. QED  BY <1>2, <1>8, <3>1 DEF Quantities
  <2>2. Units(K, left) = Share(V, left)
    BY <2>1 DEF Units, Share, V
  <2>. QED  BY <1>1, <1>8, <2>2, SumFacts
<1>10. ASSUME NEW q \in K, NEW r \in K, q # r, left[q] < Quantity[q], left[r] < Quantity[r]
       PROVE  0 \in {left[q], left[r]}
  <2>1. <<q, r>> \in R \/ <<r, q>> \in R
    BY <1>7, <1>10 DEF StrictOrder
  <2>2. /\ left[q] \in Nat /\ left[r] \in Nat /\ Held[q] \in Nat /\ Held[r] \in Nat
        /\ Held[q] = Quantity[q] /\ Held[r] = Quantity[r]
    BY <1>2, <1>8
  <2>. QED  BY <1>8, <1>10, <2>1, <2>2
<1>11. OneByOne(o, b, taken, left)
  <2>1. all - Sum(K, left) = Min({taken, all})
    BY <1>3, <1>4, <1>9
  <2>2. \A r \in K : left[r] <= Quantity[r]
    BY <1>2, <1>8
  <2>. QED  BY <1>8, <1>10, <2>1, <2>2 DEF OneByOne, K, all
<1>. QED  BY <1>11

LEMMA LeftoversExist ==
  ASSUME TypeOK, NEW o \in Orders, NEW take \in [Buckets -> 0..Need]
  PROVE  Leftovers(o, take) # {}
<1>. DEFINE part == [b \in Buckets |-> CHOOSE l : OneByOne(o, b, take[b], l)]
            left == [r \in Active |-> IF r \in Own(o) THEN part[rsv[r].bucket][r] ELSE Quantity[r]]
<1>1. ASSUME NEW b \in Buckets PROVE OneByOne(o, b, take[b], part[b])
  <2>1. take[b] \in Nat
    BY FoundationAssumption
  <2>2. \E l : OneByOne(o, b, take[b], l)
    BY <2>1, OneByOneExists
  <2>. QED  BY <2>2
<1>. HIDE DEF part
<1>2. ASSUME NEW b \in Buckets, NEW r \in OwnHolds(o, b)
      PROVE  r \in Active /\ r \in Own(o) /\ rsv[r].bucket = b /\ left[r] = part[b][r]
  BY DEF OwnHolds, HoldsOf, Own
<1>3. ASSUME NEW r \in Own(o) PROVE r \in OwnHolds(o, rsv[r].bucket) /\ rsv[r].bucket \in Buckets
  <2>1. r \in Active
    BY DEF Own
  <2>2. rsv[r].bucket \in Buckets
    BY <2>1, ActiveRows, RowFacts
  <2>. QED  BY <2>1, <2>2 DEF OwnHolds, HoldsOf
<1>4. \A r \in Active : Quantity[r] \in Quantities
  BY ActiveRows
<1>5. ASSUME NEW r \in Active
      PROVE  /\ left[r] \in 0..MaxQuantity /\ left[r] <= Quantity[r]
             /\ r \notin Own(o) => left[r] = Quantity[r]
  <2>1. CASE r \in Own(o)
    <3>. DEFINE b == rsv[r].bucket
    <3>1. r \in OwnHolds(o, b) /\ b \in Buckets
      BY <1>3, <2>1
    <3>. HIDE DEF b
    <3>2. left[r] = part[b][r]
      BY <1>2, <3>1
    <3>3. part[b][r] \in Nat /\ part[b][r] <= Quantity[r]
      BY <1>1, <3>1 DEF OneByOne
    <3>. QED  BY <1>4, <2>1, <3>2, <3>3, FoundationAssumption DEF Quantities
  <2>2. CASE r \notin Own(o)
    BY <1>4, <2>2, FoundationAssumption DEF Quantities
  <2>. QED  BY <2>1, <2>2
<1>6. left \in [Active -> 0..MaxQuantity]
  BY <1>5
<1>7. ASSUME NEW b \in Buckets
      PROVE  Reserved(OwnHolds(o, b)) - Sum(OwnHolds(o, b), left)
               = Min({take[b], Reserved(OwnHolds(o, b))})
  <2>. DEFINE K == OwnHolds(o, b)
  <2>1. \A u \in K \X Quantities : left[u[1]] = part[b][u[1]]
    BY <1>2
  <2>. HIDE DEF left
  <2>2. Sum(K, left) = Sum(K, part[b])
    <3>1. { u \in K \X Quantities : u[2] <= left[u[1]] }
            = { u \in K \X Quantities : u[2] <= part[b][u[1]] }
      BY <2>1
    <3>. QED  BY <3>1 DEF Sum
  <2>. QED  BY <1>1, <2>2 DEF OneByOne
<1>8. ASSUME NEW q \in Own(o), NEW r \in Own(o), q # r, rsv[q].bucket = rsv[r].bucket,
             left[q] < Quantity[q], left[r] < Quantity[r]
      PROVE  0 \in {left[q], left[r]}
  <2>. DEFINE b == rsv[q].bucket
  <2>1. q \in OwnHolds(o, b) /\ r \in OwnHolds(o, b) /\ b \in Buckets
    BY <1>3, <1>8
  <2>. HIDE DEF b
  <2>2. left[q] = part[b][q] /\ left[r] = part[b][r]
    BY <1>2, <2>1
  <2>. HIDE DEF left
  <2>. QED  BY <1>1, <1>8, <2>1, <2>2 DEF OneByOne
<1>. HIDE DEF left
<1>9. left \in Leftovers(o, take)
  BY <1>5, <1>6, <1>7, <1>8 DEF Leftovers
<1>. QED  BY <1>9

\* An order whose reservations cover what it needs is served, whatever others have
\* reserved, taken out, moved or sold: there is enough in all, a way to take it, and a
\* way to charge it to the reservations.
THEOREM ReservationsServe ==
  ASSUME MaxAllocations <= 1
  PROVE  Spec => []ReservationServes
<1>1. ASSUME TypeOK, ReservedIsThere PROVE ReservationServes
  <2>1. SUFFICES ASSUME NEW o \in Orders, \A b \in Buckets : stock[b] >= 0,
                        Reserved({ r \in Own(o) : Eligible(rsv[r].bucket) }) >= Need
                 PROVE  Total(stock) >= Need /\ \E take \in Takes(o) : Leftovers(o, take) # {}
    BY DEF ReservationServes
  <2>. DEFINE size == [b \in Buckets |-> Usable(o, b)]
              fit == { r \in Own(o) : Eligible(rsv[r].bucket) }
              part == [b \in Buckets |-> IF Eligible(b) THEN Units(OwnHolds(o, b), Held) ELSE {}]
  <2>2. \A b \in Buckets : /\ Usable(o, b) \in Nat /\ Usable(o, b) <= stock[b] /\ stock[b] \in Nat
                           /\ Eligible(b) => Reserved(OwnHolds(o, b)) <= Usable(o, b)
    BY <1>1, <2>1, UsableFacts DEF TypeOK
  <2>3. fit \in SUBSET Active /\ fit \in SUBSET Reservations /\ IsFiniteSet(fit)
    <3>1. fit \in SUBSET Active
      BY DEF Own
    <3>. QED  BY <1>1, <3>1, ActiveRows, FS_Subset
  <2>4. Cardinality(Units(fit, Held)) >= Need
    <3>. HIDE DEF fit
    <3>1. Reserved(fit) = Cardinality(Units(fit, Held))
      BY <2>3, ReservedIsSum, SumFacts
    <3>. QED  BY <2>1, <3>1 DEF fit
  <2>5. ASSUME NEW b \in Buckets
        PROVE  /\ IsFiniteSet(part[b]) /\ size[b] \in Int /\ Cardinality(part[b]) <= size[b]
    <3>1. CASE Eligible(b)
      <4>1. OwnHolds(o, b) \in SUBSET Reservations /\ IsFiniteSet(OwnHolds(o, b))
        <5>1. OwnHolds(o, b) \in SUBSET Active
          BY DEF OwnHolds, HoldsOf
        <5>. QED  BY <1>1, <5>1, ActiveRows, FS_Subset
      <4>2. part[b] = Units(OwnHolds(o, b), Held)
        BY <3>1
      <4>3. IsFiniteSet(part[b]) /\ Reserved(OwnHolds(o, b)) = Cardinality(part[b])
        BY <4>1, <4>2, ReservedIsSum, SumFacts
      <4>. QED  BY <2>2, <3>1, <4>3
    <3>2. CASE ~Eligible(b)
      <4>1. part[b] = {} /\ size[b] \in Nat
        BY <2>2, <3>2
      <4>. QED  BY <4>1, FS_EmptySet
    <3>. QED  BY <3>1, <3>2
  <2>6. ASSUME NEW x \in Units(fit, Held) PROVE \E b \in Buckets : x \in part[b]
    <3>1. x \in fit \X Quantities /\ x[2] <= Held[x[1]] /\ x[1] \in fit
      BY DEF Units
    <3>. DEFINE b == rsv[x[1]].bucket
    <3>2. x[1] \in Active /\ x[1] \in Own(o) /\ Eligible(b)
      BY <3>1 DEF Own
    <3>3. b \in Buckets /\ x[1] \in OwnHolds(o, b)
      <4>1. rsv[x[1]] \in Rows
        BY <1>1, <3>2, ActiveRows
      <4>. QED  BY <3>2, <4>1, RowFacts DEF OwnHolds, HoldsOf
    <3>4. x \in Units(OwnHolds(o, b), Held)
      BY <3>1, <3>3 DEF Units
    <3>. QED  BY <3>2, <3>3, <3>4
  <2>7. Cardinality(Pieces(size)) >= Need
    <3>. HIDE DEF size, part, fit
    <3>1. Cardinality(Units(fit, Held)) <= Cardinality(Pieces(size))
      BY <2>5, <2>6, CountByParts
    <3>2. Cardinality(Units(fit, Held)) \in Nat /\ Cardinality(Pieces(size)) \in Nat /\ Need \in Nat
      <4>1. IsFiniteSet(Units(fit, Held))
        BY <2>3, SumFacts
      <4>. QED  BY <2>5, <4>1, FS_CardinalityType, PiecesFacts, FoundationAssumption
    <3>. QED  BY <2>4, <3>1, <3>2
  <2>8. Total(stock) >= Need
    <3>1. \A b \in Buckets : size[b] \in Int /\ stock[b] \in Int /\ size[b] <= stock[b]
      BY <2>2
    <3>. HIDE DEF size
    <3>2. Cardinality(Pieces(size)) <= Cardinality(Pieces(stock))
      BY <3>1, PiecesMonotone
    <3>3. Total(stock) = Cardinality(Pieces(stock))
      BY <2>2, TotalIsCount
    <3>4. Cardinality(Pieces(size)) \in Nat /\ Cardinality(Pieces(stock)) \in Nat /\ Need \in Nat
      BY <3>1, PiecesFacts, FoundationAssumption
    <3>. QED  BY <2>7, <3>2, <3>3, <3>4
  <2>9. PICK take \in Takes(o) : TRUE
    <3>1. \E take : take \in Takes(o)
      BY <1>1, <2>2, <2>7, TakeExists
    <3>. QED  BY <3>1
  <2>10. Leftovers(o, take) # {}
    BY <1>1, LeftoversExist DEF Takes
  <2>. QED  BY <2>8, <2>9, <2>10
<1>. QED  BY <1>1, ReservedCovered, FoundationTypes, PTL

=============================================================================
