---------------------------- MODULE KitchenProofs ----------------------------
(***************************************************************************)
(* Theorems about KitchenProduction for every number of orders and units,  *)
(* every stock and every bound on attempts.                                *)
(***************************************************************************)
EXTENDS KitchenProduction, FiniteSetTheorems, TLAPS

\* What a unit's rows are: the unit shows its latest attempt, which was not given up,
\* and the earlier ones are over.
Rows(tries, shown) ==
  /\ shown = IF tries = <<>> THEN "none" ELSE tries[Len(tries)].state
  /\ tries # <<>> => tries[Len(tries)].state # "cancelled"
  /\ \A n \in 1 .. Len(tries) - 1 : tries[n].state \in Over

\* A unit of an order with this status.  Nobody works on a drink.
Sound(w, tries, shown, status) ==
  /\ tries \in Seq(Attempt)
  /\ Rows(tries, shown)
  /\ w \in Drinks => \A n \in DOMAIN tries : tries[n].state \in {"queued", "ready", "cancelled"}
  /\ status = "ready_for_pickup" => Finished(tries)

\* The status that vouches for the units: an order that was released past them has none.
Held(o) == IF o \in overtaken THEN "overtaken" ELSE order[o]

UnitsSound == \A w \in Units : Sound(w, attempts[w], unit[w], Held(OrderOf[w]))

\* The inductive invariant.
KitchenInv == TypeOK /\ UnitsSound

-----------------------------------------------------------------------------
(* Attempts.                                                               *)

LEMMA AttemptFacts ==
  /\ Queued \in Attempt /\ Served \in Attempt
  /\ Queued.state = "queued" /\ Served.state = "ready"
  /\ \A a \in Attempt, s \in AttemptStates :
       /\ [a EXCEPT !.state = s] \in Attempt
       /\ [a EXCEPT !.state = s].state = s
  /\ \A a \in Attempt : a.state \in AttemptStates
BY DEF Queued, Served, Attempt, AttemptStates, Modes

\* An attempt that goes on: it is the latest one, since the earlier ones are over.
LEMMA WorkedOnIsLatest ==
  ASSUME NEW tries \in Seq(Attempt), NEW shown, Rows(tries, shown),
         NEW n \in DOMAIN tries, tries[n].state \notin Over
  PROVE  n = Len(tries) /\ tries # <<>>
BY DEF Rows

LEMMA OneWritten ==
  ASSUME NEW tries \in Seq(Attempt), NEW shown, Rows(tries, shown),
         NEW n \in DOMAIN tries, n = Len(tries),
         NEW a \in Attempt, a.state # "cancelled"
  PROVE  /\ [tries EXCEPT ![n] = a] \in Seq(Attempt)
         /\ Rows([tries EXCEPT ![n] = a], a.state)
         /\ [tries EXCEPT ![n] = a] # <<>>
         /\ Len([tries EXCEPT ![n] = a]) = Len(tries)
         /\ [tries EXCEPT ![n] = a][Len(tries)] = a
<1>. DEFINE new == [tries EXCEPT ![n] = a]
<1>1. new \in Seq(Attempt) /\ Len(new) = Len(tries) /\ DOMAIN new = DOMAIN tries
  OBVIOUS
<1>2. n \in 1 .. Len(tries) /\ new[n] = a /\ \A m \in 1 .. Len(tries) - 1 : new[m] = tries[m]
  OBVIOUS
<1>3. QED
  BY <1>1, <1>2 DEF Rows

LEMMA OneAdded ==
  ASSUME NEW tries \in Seq(Attempt),
         \A n \in DOMAIN tries : tries[n].state \in Over
  PROVE  /\ Append(tries, Queued) \in Seq(Attempt)
         /\ Rows(Append(tries, Queued), "queued")
         /\ Append(tries, Queued) # <<>>
<1>. DEFINE new == Append(tries, Queued)
<1>1. /\ new \in Seq(Attempt) /\ Len(new) = Len(tries) + 1
      /\ new[Len(new)] = Queued
      /\ \A n \in 1 .. Len(tries) : new[n] = tries[n]
  BY AttemptFacts
<1>2. QED
  BY <1>1, AttemptFacts DEF Rows

LEMMA DrinkRows ==
  ASSUME NEW tries \in Seq(Attempt), tries # <<>>, NEW shown, Rows(tries, shown)
  PROVE  /\ DrinkReady(tries) \in Seq(Attempt)
         /\ DrinkReady(tries) # <<>>
         /\ Len(DrinkReady(tries)) = Len(tries)
         /\ Rows(DrinkReady(tries), "ready")
         /\ \A n \in DOMAIN tries : DrinkReady(tries)[n].state \in Over
         /\ DrinkReady(tries)[Len(tries)].state = "ready"
<1>. DEFINE new == DrinkReady(tries)
<1>1. ASSUME NEW n \in DOMAIN tries PROVE new[n] \in Attempt /\ new[n].state \in Over
  <2>1. tries[n] \in Attempt /\ "ready" \in AttemptStates
    BY DEF AttemptStates
  <2>2. CASE tries[n].state \in {"ready", "cancelled"}
    <3>1. new[n] = tries[n]
      BY <2>2 DEF DrinkReady
    <3>2. QED
      BY <2>1, <2>2, <3>1 DEF Over
  <2>3. CASE tries[n].state \notin {"ready", "cancelled"}
    <3>1. new[n] = [tries[n] EXCEPT !.state = "ready"]
      BY <2>3 DEF DrinkReady
    <3>2. QED
      BY <2>1, <3>1, AttemptFacts DEF Over
  <2>4. QED
    BY <2>2, <2>3
<1>2. DOMAIN new = 1 .. Len(tries) /\ Len(tries) \in Nat
  BY DEF DrinkReady
<1>3. new \in Seq(Attempt) /\ Len(new) = Len(tries)
  <2>1. new = [n \in 1 .. Len(tries) |-> new[n]]
    BY DEF DrinkReady
  <2>2. \A n \in 1 .. Len(tries) : new[n] \in Attempt
    BY <1>1
  <2>. HIDE DEF new
  <2>3. new \in Seq(Attempt)
    BY <1>2, <2>1, <2>2
  <2>4. QED
    BY <1>2, <2>3
<1>4. Len(tries) \in DOMAIN tries
  OBVIOUS
<1>5. new[Len(tries)].state = "ready"
  BY <1>4, AttemptFacts DEF DrinkReady, Rows, AttemptStates
<1>6. QED
  BY <1>1, <1>2, <1>3, <1>5 DEF Rows

-----------------------------------------------------------------------------
(* What an action does to the rows of one unit.                            *)

LEMMA SoundStays ==
  ASSUME NEW w, NEW tries, NEW shown, NEW status, Sound(w, tries, shown, status),
         NEW later, later = status \/ later # "ready_for_pickup"
  PROVE  Sound(w, tries, shown, later)
BY DEF Sound

LEMMA SoundWritten ==
  ASSUME NEW w \in Units \ Drinks, NEW tries, NEW shown, NEW status,
         Sound(w, tries, shown, status),
         NEW n \in DOMAIN tries, tries[n].state \notin Over,
         status = "ready_for_pickup" => tries[n].state # "queued",
         NEW a \in Attempt, a.state # "cancelled"
  PROVE  Sound(w, [tries EXCEPT ![n] = a], a.state, status)
<1>1. tries \in Seq(Attempt) /\ Rows(tries, shown)
  BY DEF Sound
<1>2. n = Len(tries) /\ tries # <<>>
  BY <1>1, WorkedOnIsLatest
<1>3. status # "ready_for_pickup"
  <2>1. SUFFICES ASSUME status = "ready_for_pickup" PROVE FALSE
    OBVIOUS
  <2>2. Finished(tries)
    BY <2>1 DEF Sound
  <2>3. CASE tries = <<Queued>>
    BY <1>2, <2>1, <2>3, AttemptFacts
  <2>4. QED
    BY <1>2, <2>2, <2>3 DEF Finished, Over
<1>4. QED
  BY <1>1, <1>2, <1>3, OneWritten DEF Sound

LEMMA SoundServed ==
  ASSUME NEW w \in Drinks, NEW tries, NEW shown, NEW status, Sound(w, tries, shown, status),
         tries # <<>>, NEW later
  PROVE  Sound(w, DrinkReady(tries), "ready", later)
<1>1. tries \in Seq(Attempt) /\ Rows(tries, shown)
  BY DEF Sound
<1>2. DOMAIN DrinkReady(tries) = DOMAIN tries
  BY DEF DrinkReady
<1>3. QED
  BY <1>1, <1>2, DrinkRows DEF Sound, Over, Finished

LEMMA SoundNew ==
  ASSUME NEW w \in Units, NEW status
  PROVE  Sound(w, FirstAttempt(w), IF w \in Drinks THEN "ready" ELSE "queued", status)
<1>1. CASE w \in Drinks
  <2>1. FirstAttempt(w) = <<Served>>
    BY <1>1 DEF FirstAttempt
  <2>2. QED
    BY <1>1, <2>1, AttemptFacts DEF Sound, Rows, Finished
<1>2. CASE w \notin Drinks
  <2>1. FirstAttempt(w) = <<Queued>>
    BY <1>2 DEF FirstAttempt
  <2>2. QED
    BY <1>2, <2>1, AttemptFacts DEF Sound, Rows, Finished
<1>3. QED
  BY <1>1, <1>2

LEMMA SoundAdded ==
  ASSUME NEW w, NEW tries \in Seq(Attempt),
         \A n \in DOMAIN tries : tries[n].state \in Over,
         NEW status, status # "ready_for_pickup"
  PROVE  Sound(w, Append(tries, Queued), "queued", status)
<1>1. \A n \in DOMAIN Append(tries, Queued) :
        Append(tries, Queued)[n].state \in {"queued", "ready", "cancelled"}
  <2>1. TAKE n \in DOMAIN Append(tries, Queued)
  <2>2. CASE n \in DOMAIN tries
    BY <2>2 DEF Over
  <2>3. CASE n = Len(tries) + 1
    BY <2>3, AttemptFacts
  <2>4. QED
    BY <2>2, <2>3
<1>2. QED
  BY <1>1, OneAdded DEF Sound

-----------------------------------------------------------------------------
(* From the units to the invariant.                                        *)

\* TypeOK but for the rows of the units.
RestTyped ==
  /\ order \in [Orders -> OrderStatus]
  /\ archived \subseteq Orders /\ courier \subseteq Orders /\ leaving \subseteq Orders
  /\ releasing \subseteq Orders /\ overtaken \subseteq Orders
  /\ sale \subseteq Orders
  /\ closed \in [Units -> Nat]
  /\ waited \subseteq Units \X Nat
  /\ ahead \subseteq (Units \X Nat) \X (Units \X Nat)
  /\ shelf \in Nat

LEMMA SoundIsTyped ==
  ASSUME NEW w, NEW tries, NEW shown, NEW status, Sound(w, tries, shown, status)
  PROVE  tries \in Seq(Attempt) /\ shown \in AttemptStates \cup {"none"}
<1>1. tries \in Seq(Attempt) /\ Rows(tries, shown)
  BY DEF Sound
<1>2. CASE tries = <<>>
  BY <1>1, <1>2 DEF Rows
<1>3. CASE tries # <<>>
  <2>1. Len(tries) \in DOMAIN tries
    BY <1>1, <1>3
  <2>2. tries[Len(tries)] \in Attempt
    BY <1>1, <2>1
  <2>3. QED
    BY <1>1, <1>3, <2>2, AttemptFacts DEF Rows
<1>4. QED
  BY <1>2, <1>3

\* A step keeps the invariant when it leaves each unit sound and the rest typed.
LEMMA Keeps ==
  ASSUME RestTyped',
         attempts' = [w \in Units |-> attempts'[w]], unit' = [w \in Units |-> unit'[w]],
         \A w \in Units : Sound(w, attempts'[w], unit'[w], Held(OrderOf[w])')
  PROVE  KitchenInv'
<1>1. \A w \in Units : attempts'[w] \in Seq(Attempt) /\ unit'[w] \in AttemptStates \cup {"none"}
  BY SoundIsTyped
<1>2. attempts' \in [Units -> Seq(Attempt)] /\ unit' \in [Units -> AttemptStates \cup {"none"}]
  BY <1>1
<1>3. QED
  BY <1>2 DEF KitchenInv, TypeOK, RestTyped, UnitsSound

-----------------------------------------------------------------------------
(* The actions.                                                            *)

LEMMA Parts ==
  ASSUME KitchenInv
  PROVE  /\ RestTyped
         /\ attempts \in [Units -> Seq(Attempt)]
         /\ unit \in [Units -> AttemptStates \cup {"none"}]
         /\ \A w \in Units : OrderOf[w] \in Orders
         /\ \A w \in Units : Sound(w, attempts[w], unit[w], Held(OrderOf[w]))
BY KitchenAssumption DEF KitchenInv, TypeOK, RestTyped, UnitsSound

LEMMA StatusFacts ==
  /\ {"preparing", "ready_for_pickup", "pago", "on_the_way", "delivered", "cancelled"}
       \subseteq OrderStatus
  /\ "ready_for_pickup" \notin {"overtaken", "preparing", "pago", "on_the_way", "delivered", "cancelled"}
BY DEF OrderStatus

LEMMA HeldStays ==
  ASSUME UNCHANGED overtaken,
         \A p \in Orders : order'[p] = order[p] \/ order'[p] # "ready_for_pickup"
  PROVE  \A p \in Orders : Held(p)' = Held(p) \/ Held(p)' # "ready_for_pickup"
BY StatusFacts DEF Held

\* A step that leaves the rows of the units alone and finishes no order.
LEMMA WorkUnchanged ==
  ASSUME KitchenInv, RestTyped', UNCHANGED <<attempts, unit>>,
         \A o \in Orders : Held(o)' = Held(o) \/ Held(o)' # "ready_for_pickup"
  PROVE  KitchenInv'
<1>1. ASSUME NEW w \in Units
      PROVE  Sound(w, attempts'[w], unit'[w], Held(OrderOf[w])')
  BY Parts, SoundStays
<1>2. attempts' = [w \in Units |-> attempts'[w]] /\ unit' = [w \in Units |-> unit'[w]]
  BY Parts
<1>3. QED
  BY <1>1, <1>2, Keeps

\* A command of the kitchen on the attempt that a unit is worked on.
LEMMA WriteKeeps ==
  ASSUME KitchenInv, RestTyped', UNCHANGED <<order, overtaken>>,
         NEW u \in Units \ Drinks, NEW n \in DOMAIN attempts[u],
         attempts[u][n].state \notin Over,
         Held(OrderOf[u]) # "ready_for_pickup" \/ attempts[u][n].state # "queued",
         NEW a \in Attempt, a.state # "cancelled", Write(u, n, a)
  PROVE  KitchenInv'
<1>1. /\ attempts' = [attempts EXCEPT ![u] = [attempts[u] EXCEPT ![n] = a]]
      /\ unit' = [unit EXCEPT ![u] = a.state]
  BY Parts DEF Write
<1>2. ASSUME NEW w \in Units
      PROVE  Sound(w, attempts'[w], unit'[w], Held(OrderOf[w])')
  <2>1. CASE w # u
    BY <1>1, <2>1, Parts DEF Held
  <2>2. CASE w = u
    <3>1. attempts'[u] = [attempts[u] EXCEPT ![n] = a] /\ unit'[u] = a.state
      BY <1>1, Parts
    <3>2. Held(OrderOf[u]) = "ready_for_pickup" => attempts[u][n].state # "queued"
      OBVIOUS
    <3>3. Sound(u, [attempts[u] EXCEPT ![n] = a], a.state, Held(OrderOf[u]))
      BY <3>2, Parts, SoundWritten
    <3>4. QED
      BY <2>2, <3>1, <3>3 DEF Held
  <2>3. QED
    BY <2>1, <2>2
<1>3. attempts' = [w \in Units |-> attempts'[w]] /\ unit' = [w \in Units |-> unit'[w]]
  BY <1>1, Parts
<1>4. QED
  BY <1>2, <1>3, Keeps

\* What is put in the queue: new rows, and drinks that are ready.
LEMMA InitializedKeeps ==
  ASSUME KitchenInv, RestTyped', NEW o \in Orders, InitializeUnits(o),
         \A p \in Orders : Held(p)' = Held(p) \/ Held(p)' # "ready_for_pickup"
  PROVE  KitchenInv'
<1>1. ASSUME NEW w \in Units
      PROVE  Sound(w, attempts'[w], unit'[w], Held(OrderOf[w])')
  <2>1. CASE OrderOf[w] # o
    <3>1. attempts'[w] = attempts[w] /\ unit'[w] = unit[w]
      BY <2>1 DEF InitializeUnits, WithUnits
    <3>2. QED
      BY <3>1, Parts, SoundStays
  <2>2. CASE OrderOf[w] = o /\ attempts[w] = <<>>
    <3>1. /\ attempts'[w] = FirstAttempt(w)
          /\ unit'[w] = IF w \in Drinks THEN "ready" ELSE "queued"
      BY <2>2 DEF InitializeUnits, WithUnits
    <3>2. QED
      BY <3>1, SoundNew
  <2>3. CASE OrderOf[w] = o /\ attempts[w] # <<>> /\ w \in Drinks
    <3>1. attempts'[w] = DrinkReady(attempts[w]) /\ unit'[w] = "ready"
      BY <2>3 DEF InitializeUnits, WithUnits
    <3>2. QED
      BY <2>3, <3>1, Parts, SoundServed
  <2>4. CASE OrderOf[w] = o /\ attempts[w] # <<>> /\ w \notin Drinks
    <3>1. attempts'[w] = attempts[w] /\ unit'[w] = unit[w]
      BY <2>4 DEF InitializeUnits, WithUnits
    <3>2. QED
      BY <3>1, Parts, SoundStays
  <2>5. QED
    BY <2>1, <2>2, <2>3, <2>4
<1>2. attempts' = [w \in Units |-> attempts'[w]] /\ unit' = [w \in Units |-> unit'[w]]
  BY DEF InitializeUnits, WithUnits
<1>3. QED
  BY <1>1, <1>2, Keeps

\* The check of the whole order marks its drinks.
LEMMA MarkedKeeps ==
  ASSUME KitchenInv, RestTyped', NEW o \in Orders, DrinksMarked(o),
         \A p \in Orders : Held(p)' = Held(p) \/ Held(p)' # "ready_for_pickup"
                           \/ (p = o /\ \A u \in KitchenUnits(o) : Finished(attempts[u]))
  PROVE  KitchenInv'
<1>1. ASSUME NEW w \in Units
      PROVE  Sound(w, attempts'[w], unit'[w], Held(OrderOf[w])')
  <2>1. CASE w \in UnitsOf(o) \cap Drinks /\ attempts[w] # <<>>
    <3>1. attempts'[w] = DrinkReady(attempts[w]) /\ unit'[w] = "ready"
      BY <2>1 DEF DrinksMarked
    <3>2. QED
      BY <2>1, <3>1, Parts, SoundServed
  <2>2. CASE w \in UnitsOf(o) \cap Drinks /\ attempts[w] = <<>>
    <3>1. attempts'[w] = <<>> /\ unit'[w] = unit[w]
      BY <2>2 DEF DrinksMarked, DrinkReady
    <3>2. QED
      BY <2>2, <3>1, Parts DEF Sound, Finished
  <2>3. CASE w \notin UnitsOf(o) \cap Drinks
    <3>1. attempts'[w] = attempts[w] /\ unit'[w] = unit[w]
      BY <2>3 DEF DrinksMarked
    <3>2. CASE OrderOf[w] = o
      <4>1. w \in KitchenUnits(o)
        BY <2>3, <3>2 DEF KitchenUnits, UnitsOf
      <4>2. Held(o)' = Held(o) \/ Held(o)' # "ready_for_pickup" \/ Finished(attempts[w])
        BY <4>1
      <4>3. QED
        BY <3>1, <3>2, <4>2, Parts DEF Sound
    <3>3. CASE OrderOf[w] # o
      BY <3>1, <3>3, Parts, SoundStays
    <3>4. QED
      BY <3>2, <3>3
  <2>4. QED
    BY <2>1, <2>2, <2>3
<1>2. attempts' = [w \in Units |-> attempts'[w]] /\ unit' = [w \in Units |-> unit'[w]]
  BY DEF DrinksMarked
<1>3. QED
  BY <1>1, <1>2, Keeps

\* Dispatch sends units back: those are over, and get a new attempt.
LEMMA ReturnedKeeps ==
  ASSUME KitchenInv, RestTyped', NEW o \in Orders, NEW us \in SUBSET UnitsOf(o),
         ReturnToKitchen(o, us)
  PROVE  KitchenInv'
<1>1. \A q \in Orders : Held(q)' = Held(q) \/ Held(q)' # "ready_for_pickup"
  BY Parts, HeldStays DEF ReturnToKitchen, RestTyped, hand
<1>2. Held(o)' # "ready_for_pickup"
  BY Parts DEF ReturnToKitchen, RestTyped, Held
<1>3. ASSUME NEW w \in Units
      PROVE  Sound(w, attempts'[w], unit'[w], Held(OrderOf[w])')
  <2>1. CASE w \in us
    <3>1. /\ OrderOf[w] = o /\ attempts[w] # <<>> /\ unit'[w] = "queued"
          /\ w \in Drinks => attempts'[w] = Append(DrinkReady(attempts[w]), Queued)
          /\ w \notin Drinks => attempts'[w] = Append(attempts[w], Queued)
      BY <2>1 DEF ReturnToKitchen, UnitsOf
    <3>2. attempts[w] \in Seq(Attempt) /\ Rows(attempts[w], unit[w])
      BY Parts DEF Sound
    <3>3. CASE w \in Drinks
      <4>1. DrinkReady(attempts[w]) \in Seq(Attempt)
            /\ \A n \in DOMAIN DrinkReady(attempts[w]) : DrinkReady(attempts[w])[n].state \in Over
        BY <3>1, <3>2, DrinkRows
      <4>2. QED
        BY <1>2, <3>1, <3>3, <4>1, SoundAdded
    <3>4. CASE w \notin Drinks
      <4>1. Final(w).state = "ready"
        BY <2>1, <3>1, <3>4 DEF ReturnToKitchen, AtDispatch, KitchenDone, KitchenUnits
      <4>2. \A n \in DOMAIN attempts[w] : attempts[w][n].state \in Over
        BY <3>2, <4>1 DEF Rows, Over, Final
      <4>3. QED
        BY <1>2, <3>1, <3>2, <3>4, <4>2, SoundAdded
    <3>5. QED
      BY <3>3, <3>4
  <2>2. CASE w \notin us /\ w \in UnitsOf(o) \cap Drinks /\ attempts[w] # <<>>
    <3>1. attempts'[w] = DrinkReady(attempts[w]) /\ unit'[w] = "ready"
      BY <2>2 DEF ReturnToKitchen
    <3>2. QED
      BY <2>2, <3>1, Parts, SoundServed
  <2>3. CASE w \notin us /\ w \in UnitsOf(o) \cap Drinks /\ attempts[w] = <<>>
    <3>1. attempts'[w] = <<>> /\ unit'[w] = unit[w]
      BY <2>3 DEF ReturnToKitchen, DrinkReady
    <3>2. QED
      BY <1>1, <2>3, <3>1, Parts, SoundStays
  <2>4. CASE w \notin us /\ w \notin UnitsOf(o) \cap Drinks
    <3>1. attempts'[w] = attempts[w] /\ unit'[w] = unit[w]
      BY <2>4 DEF ReturnToKitchen
    <3>2. QED
      BY <1>1, <3>1, Parts, SoundStays
  <2>5. QED
    BY <2>1, <2>2, <2>3, <2>4
<1>4. attempts' = [w \in Units |-> attempts'[w]] /\ unit' = [w \in Units |-> unit'[w]]
  BY DEF ReturnToKitchen
<1>5. QED
  BY <1>3, <1>4, Keeps

LEMMA RemakeKeeps ==
  ASSUME KitchenInv, RestTyped', NEW u \in Units, NEW n, Remake(u, n)
  PROVE  KitchenInv'
<1>. DEFINE given == [attempts[u] EXCEPT ![n].state = "cancelled"]
<1>1. attempts[u] \in Seq(Attempt) /\ Rows(attempts[u], unit[u])
  BY Parts DEF Sound
<1>2. n \in DOMAIN attempts[u] /\ n = Len(attempts[u]) /\ attempts[u][n] \in Attempt
  BY <1>1 DEF Remake, Remakeable
<1>3. given = [attempts[u] EXCEPT ![n] = [attempts[u][n] EXCEPT !.state = "cancelled"]]
  BY <1>1, <1>2
<1>4. [attempts[u][n] EXCEPT !.state = "cancelled"] \in Attempt
      /\ [attempts[u][n] EXCEPT !.state = "cancelled"].state = "cancelled"
  BY <1>2, AttemptFacts DEF AttemptStates
<1>5. given \in Seq(Attempt) /\ \A m \in DOMAIN given : given[m].state \in Over
  <2>. HIDE DEF given
  <2>1. given \in Seq(Attempt) /\ DOMAIN given = DOMAIN attempts[u]
        /\ given[n].state = "cancelled"
        /\ \A m \in DOMAIN attempts[u] : m # n => given[m] = attempts[u][m]
    <3>. DEFINE c == [attempts[u][n] EXCEPT !.state = "cancelled"]
    <3>1. c \in Attempt /\ c.state = "cancelled" /\ given = [attempts[u] EXCEPT ![n] = c]
      BY <1>3, <1>4
    <3>. HIDE DEF c
    <3>2. QED
      BY <1>1, <1>2, <3>1
  <2>2. \A m \in DOMAIN attempts[u] : m # n => attempts[u][m].state \in Over
    BY <1>1, <1>2 DEF Rows
  <2>3. QED
    BY <2>1, <2>2 DEF Over
<1>6. /\ attempts' = [attempts EXCEPT ![u] = Append(given, Queued)]
      /\ unit' = [unit EXCEPT ![u] = "queued"]
      /\ order[OrderOf[u]] = "preparing" /\ UNCHANGED <<order, overtaken>>
  BY DEF Remake, MayRework, hand
<1>. HIDE DEF given
<1>7. ASSUME NEW w \in Units
      PROVE  Sound(w, attempts'[w], unit'[w], Held(OrderOf[w])')
  <2>1. CASE w # u
    BY <1>6, <2>1, Parts DEF Held
  <2>2. CASE w = u
    <3>1. attempts'[u] = Append(given, Queued) /\ unit'[u] = "queued"
      BY <1>6, Parts
    <3>2. Held(OrderOf[u])' # "ready_for_pickup"
      BY <1>6 DEF Held
    <3>3. QED
      BY <1>5, <2>2, <3>1, <3>2, SoundAdded
  <2>3. QED
    BY <2>1, <2>2
<1>8. attempts' = [w \in Units |-> attempts'[w]] /\ unit' = [w \in Units |-> unit'[w]]
  BY <1>6, Parts
<1>9. QED
  BY <1>7, <1>8, Keeps

\* A stock check runs on the latest attempt of its unit, so there are finitely many.
LEMMA ChecksSound ==
  ASSUME KitchenInv
  PROVE  /\ Checks \subseteq Units \X Nat
         /\ \A x \in Checks : /\ x[1] \in Units \ Drinks
                              /\ x[2] \in DOMAIN attempts[x[1]]
                              /\ x[2] = Len(attempts[x[1]])
                              /\ attempts[x[1]][x[2]].state = "checking_stock"
         /\ \A u \in Units : \A n \in DOMAIN attempts[u] :
              attempts[u][n].state = "checking_stock" => <<u, n>> \in Checks
         /\ IsFiniteSet(Checks)
<1>1. \A u \in Units : \A n \in DOMAIN attempts[u] :
        attempts[u][n].state = "checking_stock" <=> <<u, n>> \in Checks
  BY DEF Checks
<1>2. ASSUME NEW x \in Checks
      PROVE  /\ x[1] \in Units /\ x[2] \in DOMAIN attempts[x[1]] /\ x = <<x[1], x[2]>>
             /\ attempts[x[1]][x[2]].state = "checking_stock"
  BY DEF Checks
<1>3. ASSUME NEW x \in Checks
      PROVE  x[1] \notin Drinks /\ x[2] = Len(attempts[x[1]]) /\ x[2] \in Nat
  <2>1. Sound(x[1], attempts[x[1]], unit[x[1]], Held(OrderOf[x[1]]))
    BY <1>2, Parts
  <2>2. x[1] \notin Drinks
    BY <1>2, <2>1 DEF Sound
  <2>3. x[2] = Len(attempts[x[1]]) /\ attempts[x[1]] \in Seq(Attempt)
    BY <1>2, <2>1, WorkedOnIsLatest DEF Sound, Over
  <2>4. QED
    BY <2>2, <2>3
<1>4. IsFiniteSet(Checks)
  <2>. DEFINE last == [u \in Units |-> <<u, Len(attempts[u])>>]
              T == { last[u] : u \in Units }
  <2>1. last \in Surjection(Units, T)
    BY DEF Surjection
  <2>2. IsFiniteSet(T)
    BY <2>1, KitchenAssumption, FS_Surjection
  <2>3. Checks \subseteq T
    BY <1>2, <1>3
  <2>4. QED
    BY <2>2, <2>3, FS_Subset
<1>5. QED
  BY <1>1, <1>2, <1>3, <1>4

LEMMA DecidedFacts ==
  ASSUME KitchenInv, NEW u \in Units, NEW n \in DOMAIN attempts[u], NEW on
  PROVE  /\ Decided(<<u, n>>, on) \in Attempt
         /\ Decided(<<u, n>>, on).state \in {"assembling", "aguardando_analise"}
<1>1. attempts[u][n] \in Attempt
  BY Parts
<1>2. /\ To(u, n, "aguardando_analise") \in Attempt
      /\ To(u, n, "aguardando_analise").state = "aguardando_analise"
  BY <1>1, AttemptFacts DEF To, AttemptStates
<1>3. Supplied(u, n, "assembling", <<u, n>> \in on) \in Attempt
      /\ Supplied(u, n, "assembling", <<u, n>> \in on).state = "assembling"
  BY <1>1 DEF Supplied, Takes, Attempt, AttemptStates, Modes
<1>4. QED
  BY <1>2, <1>3 DEF Decided

LEMMA ConfirmKeeps ==
  ASSUME KitchenInv, RestTyped', ConfirmStock
  PROVE  KitchenInv'
<1>1. PICK on \in SUBSET Pending :
        /\ attempts' = [ u \in Units |-> [ n \in DOMAIN attempts[u] |->
                          IF <<u, n>> \in Pending THEN Decided(<<u, n>>, on)
                          ELSE attempts[u][n] ] ]
        /\ unit' = [ u \in Units |->
                      IF \E n \in DOMAIN attempts[u] : <<u, n>> \in Pending
                      THEN Decided(CHOOSE x \in Pending : x[1] = u, on).state
                      ELSE unit[u] ]
  BY DEF ConfirmStock
<1>2. \A o \in Orders : Held(o)' = Held(o)
  BY DEF ConfirmStock, Held, hand
<1>3. \A x \in Pending : /\ x[1] \in Units \ Drinks /\ x[2] = Len(attempts[x[1]])
                         /\ x = <<x[1], x[2]>> /\ x[2] \in DOMAIN attempts[x[1]]
                         /\ attempts[x[1]][x[2]].state = "checking_stock"
  BY ChecksSound DEF Pending
<1>4. ASSUME NEW w \in Units
      PROVE  Sound(w, attempts'[w], unit'[w], Held(OrderOf[w])')
  <2>1. Sound(w, attempts[w], unit[w], Held(OrderOf[w])) /\ attempts[w] \in Seq(Attempt)
    BY Parts
  <2>2. CASE ~\E n \in DOMAIN attempts[w] : <<w, n>> \in Pending
    <3>1. attempts'[w] = [n \in DOMAIN attempts[w] |-> attempts[w][n]] /\ unit'[w] = unit[w]
      BY <1>1, <2>2
    <3>2. attempts'[w] = attempts[w]
      BY <2>1, <3>1
    <3>3. QED
      BY <1>2, <2>1, <3>1, <3>2, Parts
  <2>3. CASE \E n \in DOMAIN attempts[w] : <<w, n>> \in Pending
    <3>1. PICK n \in DOMAIN attempts[w] : <<w, n>> \in Pending
      BY <2>3
    <3>. DEFINE a == Decided(<<w, n>>, on)
    <3>2. \A x \in Pending : x[1] = w => x = <<w, n>>
      BY <1>3, <3>1
    <3>3. (CHOOSE x \in Pending : x[1] = w) = <<w, n>>
      BY <3>1, <3>2
    <3>4. unit'[w] = a.state
      BY <1>1, <3>1, <3>3
    <3>5. w \notin Drinks /\ attempts[w][n].state = "checking_stock"
      BY <1>3, <3>1
    <3>6. attempts'[w] = [attempts[w] EXCEPT ![n] = a]
      <4>1. attempts'[w] = [ m \in DOMAIN attempts[w] |->
                               IF <<w, m>> \in Pending THEN Decided(<<w, m>>, on)
                               ELSE attempts[w][m] ]
        BY <1>1
      <4>2. \A m \in DOMAIN attempts[w] : <<w, m>> \in Pending <=> m = n
        BY <3>1, <3>2
      <4>3. attempts'[w] = [ m \in DOMAIN attempts[w] |-> IF m = n THEN a ELSE attempts[w][m] ]
        BY <4>1, <4>2
      <4>. HIDE DEF a
      <4>4. QED
        BY <2>1, <4>3
    <3>7. a \in Attempt /\ a.state \in {"assembling", "aguardando_analise"}
      BY DecidedFacts
    <3>. HIDE DEF a
    <3>8. Sound(w, [attempts[w] EXCEPT ![n] = a], a.state, Held(OrderOf[w]))
      BY <2>1, <3>5, <3>7, SoundWritten DEF Over
    <3>9. QED
      BY <1>2, <3>4, <3>6, <3>8, Parts
  <2>4. QED
    BY <2>2, <2>3
<1>5. attempts' = [w \in Units |-> attempts'[w]] /\ unit' = [w \in Units |-> unit'[w]]
  BY <1>1
<1>6. QED
  BY <1>4, <1>5, Keeps

-----------------------------------------------------------------------------
(* The rest of the state, and the invariant.                               *)

LEMMA OrdersFinite ==
  ASSUME NEW o
  PROVE  Cardinality(KitchenUnits(o)) \in Nat
BY KitchenAssumption, FS_Subset, FS_CardinalityType DEF KitchenUnits, UnitsOf

LEMMA ClaimsFinite ==
  ASSUME KitchenInv, NEW on
  PROVE  Cardinality(Claims(on)) \in Nat
<1>1. Claims(on) \subseteq Checks
  BY DEF Claims, Pending
<1>2. QED
  BY <1>1, ChecksSound, FS_Subset, FS_CardinalityType

LEMMA InitSound ==
  Init => KitchenInv
<1>. SUFFICES ASSUME Init PROVE KitchenInv
  OBVIOUS
<1>1. PICK early \in SUBSET Orders :
        /\ order = [ o \in Orders |->
                       IF o \in early THEN "preparing" ELSE "aguardando_pagamento" ]
        /\ attempts = [ u \in Units |->
                          IF OrderOf[u] \notin early THEN <<>>
                          ELSE IF u \in Drinks THEN <<Served>> ELSE <<Begun>> ]
        /\ unit = [ u \in Units |->
                      IF OrderOf[u] \notin early THEN "none"
                      ELSE IF u \in Drinks THEN "ready" ELSE "assembling" ]
  BY DEF Init
<1>2. Begun \in Attempt /\ Begun.state = "assembling"
  BY AttemptFacts DEF Begun, AttemptStates
<1>3. ASSUME NEW w \in Units
      PROVE  Sound(w, attempts[w], unit[w], Held(OrderOf[w]))
  <2>1. Held(OrderOf[w]) # "ready_for_pickup"
    BY <1>1, KitchenAssumption DEF Held
  <2>2. CASE OrderOf[w] \notin early
    <3>1. attempts[w] = <<>> /\ unit[w] = "none"
      BY <1>1, <2>2
    <3>2. QED
      BY <2>1, <3>1 DEF Sound, Rows
  <2>3. CASE OrderOf[w] \in early /\ w \in Drinks
    <3>1. attempts[w] = <<Served>> /\ unit[w] = "ready"
      BY <1>1, <2>3
    <3>2. QED
      BY <2>1, <3>1, AttemptFacts DEF Sound, Rows
  <2>4. CASE OrderOf[w] \in early /\ w \notin Drinks
    <3>1. attempts[w] = <<Begun>> /\ unit[w] = "assembling"
      BY <1>1, <2>4
    <3>2. QED
      BY <1>2, <2>1, <2>4, <3>1 DEF Sound, Rows
  <2>5. QED
    BY <2>2, <2>3, <2>4
<1>4. attempts \in [Units -> Seq(Attempt)] /\ unit \in [Units -> AttemptStates \cup {"none"}]
  <2>1. \A w \in Units : attempts[w] \in Seq(Attempt) /\ unit[w] \in AttemptStates \cup {"none"}
    BY <1>3, SoundIsTyped
  <2>2. QED
    BY <1>1, <2>1
<1>5. order \in [Orders -> OrderStatus]
  BY <1>1 DEF OrderStatus
<1>6. UnitsSound
  BY <1>3 DEF UnitsSound
<1>7. /\ archived = {} /\ courier = {} /\ leaving = {} /\ releasing = {} /\ overtaken = {} /\ sale = {} /\ waited = {} /\ ahead = {}
      /\ closed \in [Units -> Nat] /\ shelf \in Nat
  BY KitchenAssumption DEF Init
<1>8. QED
  BY <1>4, <1>5, <1>6, <1>7 DEF KitchenInv, TypeOK

LEMMA UnitStepSound ==
  ASSUME KitchenInv, NEW u \in Units, UnitStep(u)
  PROVE  KitchenInv'
<1>. USE Parts DEF RestTyped, hand
<1>1. ASSUME NEW n, StartStockCheck(u, n) PROVE KitchenInv'
  <2>1. n \in DOMAIN attempts[u] /\ n \in Nat /\ attempts[u][n] \in Attempt
    BY <1>1 DEF StartStockCheck, InState
  <2>2. To(u, n, "checking_stock") \in Attempt /\ To(u, n, "checking_stock").state = "checking_stock"
    BY <2>1, AttemptFacts DEF To, AttemptStates
  <2>3. ahead' \subseteq (Units \X Nat) \X (Units \X Nat)
    BY <1>1, <2>1, ChecksSound DEF StartStockCheck
  <2>4. RestTyped'
    BY <1>1, <2>3 DEF StartStockCheck, Write, stock
  <2>5. QED
    BY <1>1, <2>1, <2>2, <2>4, WriteKeeps
       DEF StartStockCheck, InState, InKitchen, Over, Held
<1>2. ASSUME NEW n, ReturnToService(u, n) PROVE KitchenInv'
  <2>1. n \in DOMAIN attempts[u] /\ attempts[u][n] \in Attempt
    BY <1>2 DEF ReturnToService, InState
  <2>2. To(u, n, "atendimento") \in Attempt /\ To(u, n, "atendimento").state = "atendimento"
    BY <2>1, AttemptFacts DEF To, AttemptStates
  <2>3. RestTyped'
    BY <1>2 DEF ReturnToService, Write, stock, queue
  <2>4. QED
    BY <1>2, <2>1, <2>2, <2>3, WriteKeeps DEF ReturnToService, InState, Over
<1>3. ASSUME NEW n, FinishAssembly(u, n) PROVE KitchenInv'
  <2>1. n \in DOMAIN attempts[u] /\ attempts[u][n] \in Attempt
    BY <1>3 DEF FinishAssembly, InState
  <2>2. To(u, n, "assembled") \in Attempt /\ To(u, n, "assembled").state = "assembled"
    BY <2>1, AttemptFacts DEF To, AttemptStates
  <2>3. \A on \in BOOLEAN : Supplied(u, n, "assembled", on) \in Attempt
                            /\ Supplied(u, n, "assembled", on).state = "assembled"
    BY <2>1 DEF Supplied, Takes, Attempt, AttemptStates, Modes
  <2>4. PICK a \in Attempt : a.state = "assembled" /\ Write(u, n, a)
    BY <1>3, <2>2, <2>3 DEF FinishAssembly
  <2>5. RestTyped'
    BY <1>3 DEF FinishAssembly, Write, queue
  <2>6. QED
    BY <1>3, <2>1, <2>4, <2>5, WriteKeeps DEF FinishAssembly, InState, Over
<1>4. ASSUME NEW n, NEW from \in {"assembled", "baking", "checking"},
             NEW to \in {"baking", "checking", "ready"}, Command(u, n, from, to)
      PROVE  KitchenInv'
  <2>1. n \in DOMAIN attempts[u] /\ attempts[u][n] \in Attempt
    BY <1>4 DEF Command, InState
  <2>. to \in AttemptStates
    BY DEF AttemptStates
  <2>2. To(u, n, to) \in Attempt /\ To(u, n, to).state = to
    BY <2>1, AttemptFacts DEF To
  <2>3. RestTyped'
    BY <1>4 DEF Command, Write, stock, queue
  <2>4. QED
    BY <1>4, <2>1, <2>2, <2>3, WriteKeeps DEF Command, InState, Over
<1>5. ASSUME NEW n, Remake(u, n) PROVE KitchenInv'
  <2>1. RestTyped'
    BY <1>5 DEF Remake, Forget, stock
  <2>2. QED
    BY <1>5, <2>1, RemakeKeeps
<1>6. CASE CompleteDispatchUnit(u)
  <2>1. closed' \in [Units -> Nat]
    BY <1>6 DEF CompleteDispatchUnit
  <2>2. RestTyped'
    BY <1>6, <2>1 DEF CompleteDispatchUnit, stock, queue
  <2>3. DrinksMarked(OrderOf[u]) /\ UNCHANGED <<order, overtaken>>
    BY <1>6 DEF CompleteDispatchUnit
  <2>4. QED
    BY <2>2, <2>3, HeldStays, MarkedKeeps
<1>7. QED
  BY <1>1, <1>2, <1>3, <1>4, <1>5, <1>6 DEF UnitStep, StartOven, CompleteOven, Check

LEMMA OrderStepSound ==
  ASSUME KitchenInv, NEW o \in Orders, OrderStep(o)
  PROVE  KitchenInv'
<1>. USE Parts, StatusFacts DEF RestTyped, hand
<1>1. CASE InitializeOrder(o)
  <2>1. RestTyped' /\ InitializeUnits(o) /\ UNCHANGED <<order, overtaken>>
    BY <1>1 DEF InitializeOrder, InitializeUnits, stock, queue
  <2>2. QED
    BY <2>1, HeldStays, InitializedKeeps
<1>2. CASE StartPreparation(o)
  <2>1. RestTyped' /\ InitializeUnits(o)
    BY <1>2 DEF StartPreparation, InitializeUnits, stock, queue
  <2>2. \A p \in Orders : Held(p)' = Held(p) \/ Held(p)' # "ready_for_pickup"
    BY <1>2, HeldStays DEF StartPreparation
  <2>3. QED
    BY <2>1, <2>2, InitializedKeeps
<1>3. CASE PrepareUnpaid(o)
  <2>1. shelf' \in Nat /\ sale' \subseteq Orders
    BY <1>3, OrdersFinite DEF PrepareUnpaid, SaleDeducts, stock
  <2>2. RestTyped'
    BY <1>3, <2>1 DEF PrepareUnpaid, work, queue
  <2>3. /\ UNCHANGED <<attempts, unit>>
        /\ \A p \in Orders : Held(p)' = Held(p) \/ Held(p)' # "ready_for_pickup"
    BY <1>3, HeldStays DEF PrepareUnpaid, work
  <2>4. QED
    BY <2>2, <2>3, WorkUnchanged
<1>4. CASE MarkReady(o)
  <2>1. RestTyped' /\ DrinksMarked(o)
    BY <1>4 DEF MarkReady, stock, queue
  <2>2. \A u \in KitchenUnits(o) : Finished(attempts[u])
    BY <1>4 DEF MarkReady, KitchenDone, HasUnits, KitchenUnits, Final, Finished
  <2>3. \A p \in Orders : Held(p)' = Held(p) \/ p = o
    BY <1>4 DEF MarkReady, Held
  <2>4. QED
    BY <2>1, <2>2, <2>3, MarkedKeeps
<1>5. CASE AssignDriver(o)
  <2>1. RestTyped' /\ DrinksMarked(o) /\ UNCHANGED <<order, overtaken>>
    BY <1>5 DEF AssignDriver, stock, queue
  <2>2. QED
    BY <2>1, HeldStays, MarkedKeeps
<1>6. CASE CompletePickup(o)
  <2>1. RestTyped' /\ DrinksMarked(o)
    BY <1>6 DEF CompletePickup, stock, queue
  <2>2. \A p \in Orders : Held(p)' = Held(p) \/ Held(p)' # "ready_for_pickup"
    BY <1>6, HeldStays DEF CompletePickup
  <2>3. QED
    BY <2>1, <2>2, MarkedKeeps
<1>7. ASSUME NEW us \in SUBSET UnitsOf(o), ReturnToKitchen(o, us) PROVE KitchenInv'
  <2>1. closed' \in [Units -> Nat]
    BY <1>7 DEF ReturnToKitchen, Reopened
  <2>2. RestTyped'
    BY <1>7, <2>1 DEF ReturnToKitchen, stock, queue
  <2>3. QED
    BY <1>7, <2>2, ReturnedKeeps
<1>8. CASE Pay(o) \/ LeaveRead(o) \/ LeaveCommit(o) \/ Ends(o) \/ Archive(o)
  <2>1. UNCHANGED <<attempts, unit, closed, overtaken, releasing, courier, sale, shelf, waited, ahead>>
    BY <1>8 DEF Pay, LeaveRead, LeaveCommit, Ends, Archive, work, stock, queue
  <2>2. \A p \in Orders : Held(p)' = Held(p) \/ Held(p)' # "ready_for_pickup"
    BY <1>8, HeldStays DEF Pay, LeaveRead, LeaveCommit, Ends, Archive
  <2>3. order' \in [Orders -> OrderStatus]
    BY <1>8 DEF Pay, LeaveRead, LeaveCommit, Ends, Archive
  <2>4. archived' \subseteq Orders /\ leaving' \subseteq Orders
    BY <1>8 DEF Pay, LeaveRead, LeaveCommit, Ends, Archive
  <2>5. RestTyped'
    BY <2>1, <2>3, <2>4
  <2>6. QED
    BY <2>1, <2>2, <2>5, WorkUnchanged
<1>9. CASE ReleaseRead(o)
  <2>1. RestTyped' /\ UNCHANGED <<attempts, unit, order, overtaken>>
    BY <1>9 DEF ReleaseRead, work, stock, queue
  <2>2. QED
    BY <2>1, HeldStays, WorkUnchanged
<1>10. CASE ReleaseCommit(o)
  <2>1. RestTyped' /\ UNCHANGED <<attempts, unit>>
    BY <1>10 DEF ReleaseCommit, work, stock, queue
  <2>2. ASSUME NEW w \in Units
        PROVE  Sound(w, attempts'[w], unit'[w], Held(OrderOf[w])')
    <3>1. CASE OrderOf[w] # o
      <4>1. Held(OrderOf[w])' = Held(OrderOf[w])
        BY <1>10, <3>1 DEF ReleaseCommit, Held
      <4>2. QED
        BY <2>1, <4>1
    <3>2. CASE OrderOf[w] = o /\ Finished(attempts[w])
      BY <2>1, <3>2 DEF Sound
    <3>3. CASE OrderOf[w] = o /\ ~Finished(attempts[w])
      <4>1. o \in overtaken'
        BY <1>10, <3>3 DEF ReleaseCommit, UnitsOf
      <4>2. Held(OrderOf[w])' # "ready_for_pickup"
        BY <3>3, <4>1 DEF Held
      <4>3. QED
        BY <2>1, <4>2, SoundStays
    <3>4. QED
      BY <3>1, <3>2, <3>3
  <2>3. attempts' = [w \in Units |-> attempts'[w]] /\ unit' = [w \in Units |-> unit'[w]]
    BY <2>1
  <2>4. QED
    BY <2>1, <2>2, <2>3, Keeps
<1>11. QED
  BY <1>1, <1>2, <1>3, <1>4, <1>5, <1>6, <1>7, <1>8, <1>9, <1>10 DEF OrderStep

LEMMA QueueStepSound ==
  ASSUME KitchenInv, Waits \/ ConfirmStock
  PROVE  KitchenInv'
<1>. USE Parts DEF RestTyped, hand
<1>1. CASE Waits
  <2>1. waited' \subseteq Units \X Nat
    BY <1>1, ChecksSound DEF Waits
  <2>2. RestTyped' /\ UNCHANGED <<attempts, unit, order, overtaken>>
    BY <1>1, <2>1 DEF Waits, work, stock
  <2>3. QED
    BY <2>2, HeldStays, WorkUnchanged
<1>2. CASE ConfirmStock
  <2>1. shelf' \in Nat
    BY <1>2, ClaimsFinite DEF ConfirmStock
  <2>2. RestTyped'
    BY <1>2, <2>1 DEF ConfirmStock, Forget
  <2>3. QED
    BY <1>2, <2>2, ConfirmKeeps
<1>3. QED
  BY <1>1, <1>2

LEMMA InvStep ==
  ASSUME KitchenInv, [Next]_vars
  PROVE  KitchenInv'
<1>1. CASE Next
  BY <1>1, UnitStepSound, OrderStepSound, QueueStepSound DEF Next
<1>2. CASE UNCHANGED vars
  BY <1>2 DEF KitchenInv, TypeOK, UnitsSound, Held, vars, hand, work, stock, queue
<1>3. QED
  BY <1>1, <1>2

\* The inductive invariant: the rows of every unit are sound in every reachable state.
THEOREM KitchenInvariant == Spec => []KitchenInv
<1>1. Init => KitchenInv
  BY InitSound
<1>2. KitchenInv /\ [Next]_vars => KitchenInv'
  BY InvStep
<1>3. QED
  BY <1>1, <1>2, PTL DEF Spec

\* Every variable of the kitchen keeps its type; the shelf never holds less than nothing.
THEOREM KitchenTypes == Spec => []TypeOK
<1>1. KitchenInv => TypeOK
  BY DEF KitchenInv
<1>2. QED
  BY <1>1, KitchenInvariant, PTL

\* A unit shows its latest attempt and nobody works on an earlier one, whatever remake,
\* return_to_kitchen and the repair of the drinks do.
THEOREM OneLive == Spec => []OneLiveAttempt
<1>1. KitchenInv => OneLiveAttempt
  BY DEF KitchenInv, UnitsSound, Sound, Rows, OneLiveAttempt, Final
<1>2. QED
  BY <1>1, KitchenInvariant, PTL

\* What waits at the dispatch is finished, unit by unit, in the attempt that counts.
THEOREM ReadyFinished == Spec => []ReadyMeansFinished
<1>1. KitchenInv => ReadyMeansFinished
  <2>1. SUFFICES ASSUME KitchenInv, NEW o \in Orders, order[o] = "ready_for_pickup",
                        o \notin overtaken, NEW u \in UnitsOf(o)
                 PROVE  Finished(attempts[u])
    BY DEF ReadyMeansFinished
  <2>2. Sound(u, attempts[u], unit[u], Held(OrderOf[u])) /\ OrderOf[u] = o
    BY <2>1 DEF KitchenInv, UnitsSound, UnitsOf
  <2>3. QED
    BY <2>1, <2>2 DEF Sound, Held
<1>2. QED
  BY <1>1, KitchenInvariant, PTL

-----------------------------------------------------------------------------
(* The marks of the dispatch.                                              *)

\* A unit is open, or closed in its latest attempt, or was remade since.
Mark(tries, c) ==
  \/ c = 0 \/ c = Len(tries)
  \/ \E n \in 1 .. Len(tries) - 1 : tries[n].state = "cancelled"

MarksSound == \A u \in Units : Mark(attempts[u], closed[u])

\* The attempts stay, and what was given up remains so.
SameAttempts(tries, new) ==
  /\ Len(new) = Len(tries)
  /\ \A n \in 1 .. Len(tries) : tries[n].state = "cancelled" => new[n].state = "cancelled"

LEMMA MarkStays ==
  ASSUME NEW tries \in Seq(Attempt), NEW new, SameAttempts(tries, new), NEW c, Mark(tries, c)
  PROVE  Mark(new, c)
BY DEF Mark, SameAttempts

LEMMA ServedStays ==
  ASSUME NEW tries \in Seq(Attempt), NEW shown, Rows(tries, shown)
  PROVE  SameAttempts(tries, DrinkReady(tries))
<1>1. CASE tries = <<>>
  BY <1>1 DEF SameAttempts, DrinkReady
<1>2. CASE tries # <<>>
  <2>1. Len(DrinkReady(tries)) = Len(tries)
    BY <1>2, DrinkRows
  <2>2. ASSUME NEW n \in 1 .. Len(tries), tries[n].state = "cancelled"
        PROVE  DrinkReady(tries)[n].state = "cancelled"
    BY <2>2 DEF DrinkReady
  <2>3. QED
    BY <2>1, <2>2 DEF SameAttempts
<1>3. QED
  BY <1>1, <1>2

\* A step that changes attempts only as SameAttempts says, or not at all, and opens or
\* keeps the marks.
LEMMA MarksStay ==
  ASSUME KitchenInv, MarksSound,
         \A w \in Units : /\ SameAttempts(attempts[w], attempts'[w]) \/ attempts'[w] = attempts[w]
                          /\ closed'[w] = closed[w] \/ closed'[w] = 0 \/ closed'[w] = Len(attempts'[w])
  PROVE  MarksSound'
<1>1. ASSUME NEW w \in Units PROVE Mark(attempts'[w], closed'[w])
  <2>1. attempts[w] \in Seq(Attempt) /\ Mark(attempts[w], closed[w])
    BY Parts DEF MarksSound
  <2>2. Mark(attempts'[w], closed[w])
    BY <2>1, MarkStays
  <2>3. QED
    BY <2>2 DEF Mark
<1>2. QED
  BY <1>1 DEF MarksSound

LEMMA WriteMarks ==
  ASSUME KitchenInv, MarksSound, NEW u \in Units, NEW n \in DOMAIN attempts[u],
         attempts[u][n].state # "cancelled", NEW a, Write(u, n, a)
  PROVE  MarksSound'
<1>1. attempts' = [attempts EXCEPT ![u] = [attempts[u] EXCEPT ![n] = a]] /\ UNCHANGED closed
  BY Parts DEF Write
<1>2. SameAttempts(attempts[u], [attempts[u] EXCEPT ![n] = a])
  <2>1. attempts[u] \in Seq(Attempt)
    BY Parts
  <2>2. Len([attempts[u] EXCEPT ![n] = a]) = Len(attempts[u])
    BY <2>1
  <2>3. \A m \in 1 .. Len(attempts[u]) : m # n => [attempts[u] EXCEPT ![n] = a][m] = attempts[u][m]
    BY <2>1
  <2>4. QED
    BY <2>2, <2>3 DEF SameAttempts
<1>3. \A w \in Units : SameAttempts(attempts[w], attempts'[w]) \/ attempts'[w] = attempts[w]
  BY <1>1, <1>2, Parts
<1>4. QED
  BY <1>1, <1>3, MarksStay

LEMMA MarkedMarks ==
  ASSUME KitchenInv, MarksSound, NEW o, DrinksMarked(o),
         \A w \in Units : closed'[w] = closed[w] \/ closed'[w] = Len(attempts[w])
  PROVE  MarksSound'
<1>1. ASSUME NEW w \in Units
      PROVE  /\ SameAttempts(attempts[w], attempts'[w])
             /\ closed'[w] = closed[w] \/ closed'[w] = Len(attempts'[w])
  <2>1. attempts[w] \in Seq(Attempt) /\ Rows(attempts[w], unit[w])
    BY Parts DEF Sound
  <2>2. attempts'[w] = DrinkReady(attempts[w]) \/ attempts'[w] = attempts[w]
    BY DEF DrinksMarked
  <2>3. SameAttempts(attempts[w], attempts[w])
    BY DEF SameAttempts
  <2>4. SameAttempts(attempts[w], attempts'[w])
    BY <2>1, <2>2, <2>3, ServedStays
  <2>5. QED
    BY <2>4 DEF SameAttempts
<1>2. QED
  BY <1>1, MarksStay

LEMMA InitializedMarks ==
  ASSUME KitchenInv, MarksSound, NEW o, InitializeUnits(o)
  PROVE  MarksSound'
<1>1. ASSUME NEW w \in Units PROVE Mark(attempts'[w], closed'[w])
  <2>1. /\ attempts[w] \in Seq(Attempt) /\ Rows(attempts[w], unit[w])
        /\ Mark(attempts[w], closed[w]) /\ closed' = closed
    BY Parts DEF Sound, MarksSound, InitializeUnits
  <2>2. CASE attempts[w] = <<>>
    <3>1. closed[w] = 0
      BY <2>1, <2>2 DEF Mark
    <3>2. QED
      BY <2>1, <3>1 DEF Mark
  <2>3. CASE attempts[w] # <<>>
    <3>1. attempts'[w] = DrinkReady(attempts[w]) \/ attempts'[w] = attempts[w]
      BY <2>3 DEF InitializeUnits, WithUnits
    <3>2. SameAttempts(attempts[w], attempts[w])
      BY DEF SameAttempts
    <3>3. SameAttempts(attempts[w], attempts'[w])
      BY <2>1, <3>1, <3>2, ServedStays
    <3>4. QED
      BY <2>1, <3>3, MarkStays
  <2>4. QED
    BY <2>2, <2>3
<1>2. QED
  BY <1>1 DEF MarksSound

LEMMA ReturnedMarks ==
  ASSUME KitchenInv, MarksSound, NEW o, NEW us, ReturnToKitchen(o, us)
  PROVE  MarksSound'
<1>1. ASSUME NEW w \in Units PROVE Mark(attempts'[w], closed'[w])
  <2>1. /\ attempts[w] \in Seq(Attempt) /\ Rows(attempts[w], unit[w])
        /\ Mark(attempts[w], closed[w])
    BY Parts DEF Sound, MarksSound
  <2>2. CASE w \in us
    <3>1. closed'[w] = 0
      BY <2>2 DEF ReturnToKitchen, Reopened
    <3>2. QED
      BY <3>1 DEF Mark
  <2>3. CASE w \notin us
    <3>1. closed'[w] = closed[w]
      BY <2>3 DEF ReturnToKitchen, Reopened
    <3>2. attempts'[w] = DrinkReady(attempts[w]) \/ attempts'[w] = attempts[w]
      BY <2>3 DEF ReturnToKitchen
    <3>3. SameAttempts(attempts[w], attempts[w])
      BY DEF SameAttempts
    <3>4. QED
      BY <2>1, <3>1, <3>2, <3>3, ServedStays, MarkStays
  <2>4. QED
    BY <2>2, <2>3
<1>2. QED
  BY <1>1 DEF MarksSound

LEMMA RemakeMarks ==
  ASSUME KitchenInv, MarksSound, NEW u \in Units, NEW n, Remake(u, n)
  PROVE  MarksSound'
<1>. DEFINE given == [attempts[u] EXCEPT ![n].state = "cancelled"]
            c == [attempts[u][n] EXCEPT !.state = "cancelled"]
<1>1. /\ attempts[u] \in Seq(Attempt) /\ n = Len(attempts[u]) /\ n \in DOMAIN attempts[u]
      /\ attempts' = [attempts EXCEPT ![u] = Append(given, Queued)] /\ closed' = closed
  BY Parts DEF Remake, Remakeable
<1>2. c \in Attempt /\ c.state = "cancelled"
  <2>1. attempts[u][n] \in Attempt
    BY <1>1
  <2>2. "cancelled" \in AttemptStates
    BY DEF AttemptStates
  <2>3. QED
    BY <2>1, <2>2, AttemptFacts
<1>3. given = [attempts[u] EXCEPT ![n] = c]
  BY <1>1
<1>. HIDE DEF given, c
<1>4. given \in Seq(Attempt) /\ Len(given) = n /\ given[n].state = "cancelled"
  BY <1>1, <1>2, <1>3
<1>5. /\ Len(Append(given, Queued)) = n + 1 /\ Append(given, Queued)[n].state = "cancelled"
      /\ n \in 1 .. n
  BY <1>1, <1>4, AttemptFacts
<1>6. Mark(Append(given, Queued), closed[u])
  BY <1>1, <1>5 DEF Mark
<1>7. ASSUME NEW w \in Units PROVE Mark(attempts'[w], closed'[w])
  <2>1. CASE w = u
    BY <1>1, <1>6, <2>1, Parts
  <2>2. CASE w # u
    BY <1>1, <2>2, Parts DEF MarksSound
  <2>3. QED
    BY <2>1, <2>2
<1>8. QED
  BY <1>7 DEF MarksSound

LEMMA ConfirmMarks ==
  ASSUME KitchenInv, MarksSound, ConfirmStock
  PROVE  MarksSound'
<1>1. PICK on \in SUBSET Pending :
        attempts' = [ u \in Units |-> [ n \in DOMAIN attempts[u] |->
                        IF <<u, n>> \in Pending THEN Decided(<<u, n>>, on)
                        ELSE attempts[u][n] ] ]
  BY DEF ConfirmStock
<1>2. ASSUME NEW w \in Units PROVE SameAttempts(attempts[w], attempts'[w])
  <2>1. attempts[w] \in Seq(Attempt)
    BY Parts
  <2>2. attempts'[w] = [ n \in 1 .. Len(attempts[w]) |->
                           IF <<w, n>> \in Pending THEN Decided(<<w, n>>, on)
                           ELSE attempts[w][n] ]
    BY <1>1, <2>1
  <2>3. \A n \in 1 .. Len(attempts[w]) : attempts'[w][n] \in Attempt
    BY <2>1, <2>2, DecidedFacts
  <2>4. attempts'[w] \in Seq(Attempt) /\ DOMAIN attempts'[w] = 1 .. Len(attempts[w])
    <3>. DEFINE new == attempts'[w]
    <3>1. new = [n \in 1 .. Len(attempts[w]) |-> new[n]]
      BY <2>2
    <3>2. \A n \in 1 .. Len(attempts[w]) : new[n] \in Attempt
      BY <2>3
    <3>. HIDE DEF new
    <3>3. new \in Seq(Attempt) /\ DOMAIN new = 1 .. Len(attempts[w])
      BY <2>1, <3>1, <3>2
    <3>4. QED
      BY <3>3 DEF new
  <2>5. Len(attempts'[w]) = Len(attempts[w])
    BY <2>1, <2>4
  <2>6. ASSUME NEW n \in 1 .. Len(attempts[w]), attempts[w][n].state = "cancelled"
        PROVE  attempts'[w][n].state = "cancelled"
    <3>1. <<w, n>> \notin Pending
      BY <2>6, ChecksSound DEF Pending
    <3>2. QED
      BY <2>2, <2>6, <3>1
  <2>7. QED
    BY <2>5, <2>6 DEF SameAttempts
<1>3. closed' = closed
  BY DEF ConfirmStock
<1>4. QED
  BY <1>2, <1>3, MarksStay

LEMMA MarksStep ==
  ASSUME KitchenInv, MarksSound, [Next]_vars
  PROVE  MarksSound'
<1>1. ASSUME NEW u \in Units, UnitStep(u) PROVE MarksSound'
  <2>1. ASSUME NEW n, StartStockCheck(u, n) \/ ReturnToService(u, n)
                      \/ StartOven(u, n) \/ CompleteOven(u, n) \/ Check(u, n)
        PROVE  MarksSound'
    <3>1. PICK s \in AttemptStates : Write(u, n, To(u, n, s))
      BY <2>1 DEF StartStockCheck, ReturnToService, StartOven, CompleteOven, Check,
                  Command, AttemptStates
    <3>2. n \in DOMAIN attempts[u] /\ attempts[u][n].state # "cancelled"
      BY <2>1 DEF StartStockCheck, ReturnToService, StartOven, CompleteOven, Check,
                  Command, InState
    <3>3. QED
      BY <3>1, <3>2, WriteMarks
  <2>2. ASSUME NEW n, FinishAssembly(u, n) PROVE MarksSound'
    <3>1. PICK a : Write(u, n, a)
      BY <2>2 DEF FinishAssembly
    <3>2. n \in DOMAIN attempts[u] /\ attempts[u][n].state # "cancelled"
      BY <2>2 DEF FinishAssembly, InState
    <3>3. QED
      BY <3>1, <3>2, WriteMarks
  <2>3. CASE CompleteDispatchUnit(u)
    <3>1. closed' = [closed EXCEPT ![u] = Len(attempts[u])] /\ DrinksMarked(OrderOf[u])
      BY <2>3 DEF CompleteDispatchUnit
    <3>2. \A w \in Units : closed'[w] = closed[w] \/ closed'[w] = Len(attempts[w])
      BY <3>1 DEF KitchenInv, TypeOK
    <3>3. QED
      BY <3>1, <3>2, MarkedMarks
  <2>4. QED
    BY <1>1, <2>1, <2>2, <2>3, RemakeMarks DEF UnitStep
<1>2. ASSUME NEW o \in Orders, OrderStep(o) PROVE MarksSound'
  <2>1. CASE InitializeOrder(o) \/ StartPreparation(o)
    BY <2>1, InitializedMarks DEF InitializeOrder, StartPreparation
  <2>2. CASE MarkReady(o) \/ AssignDriver(o) \/ CompletePickup(o)
    BY <2>2, MarkedMarks DEF MarkReady, AssignDriver, CompletePickup
  <2>3. ASSUME UNCHANGED <<attempts, closed>> PROVE MarksSound'
    BY <2>3 DEF MarksSound
  <2>4. QED
    BY <1>2, <2>1, <2>2, <2>3, ReturnedMarks
       DEF OrderStep, PrepareUnpaid, ReleaseRead, ReleaseCommit, Pay, LeaveRead, LeaveCommit, Ends,
           Archive, work
<1>3. CASE Waits \/ UNCHANGED vars
  BY <1>3 DEF Waits, vars, work, MarksSound
<1>4. QED
  BY <1>1, <1>2, <1>3, ConfirmMarks DEF Next

\* An order is handed to the customer at the counter by CompletePickup alone.
LEMMA OrderMoves ==
  ASSUME [Next]_vars, ~\E p \in Orders : AssignDriver(p) \/ CompletePickup(p)
  PROVE  order' = order \/ \E p \in Orders, t \in OrderStatus :
           order' = [order EXCEPT ![p] = t] /\ (t = "delivered" => OrderMay(order[p], t))
<1>1. ASSUME NEW u \in Units, UnitStep(u) PROVE order' = order
  BY <1>1 DEF UnitStep, StartStockCheck, ReturnToService, FinishAssembly, StartOven,
              CompleteOven, Check, Command, Remake, CompleteDispatchUnit
<1>2. ASSUME NEW p \in Orders, OrderStep(p)
      PROVE  order' = order \/ \E t \in OrderStatus :
               order' = [order EXCEPT ![p] = t] /\ (t = "delivered" => OrderMay(order[p], t))
  <2>1. CASE InitializeOrder(p) \/ ReleaseRead(p) \/ LeaveRead(p) \/ Archive(p)
    BY <2>1 DEF InitializeOrder, ReleaseRead, LeaveRead, Archive
  <2>2. ASSUME NEW t \in {"preparing", "ready_for_pickup", "pago", "on_the_way"},
               order' = [order EXCEPT ![p] = t]
        PROVE  \E t2 \in OrderStatus :
                 order' = [order EXCEPT ![p] = t2] /\ (t2 = "delivered" => OrderMay(order[p], t2))
    BY <2>2, StatusFacts
  <2>3. CASE \/ StartPreparation(p) \/ PrepareUnpaid(p) \/ MarkReady(p) \/ ReleaseCommit(p)
             \/ Pay(p) \/ LeaveCommit(p)
    BY <2>2, <2>3 DEF StartPreparation, PrepareUnpaid, MarkReady, ReleaseCommit, Pay, LeaveCommit
  <2>4. ASSUME NEW us, ReturnToKitchen(p, us) PROVE order' = [order EXCEPT ![p] = "preparing"]
    BY <2>4 DEF ReturnToKitchen
  <2>5. CASE Ends(p)
    BY <2>5, StatusFacts DEF Ends
  <2>6. QED
    BY <1>2, <2>1, <2>2, <2>3, <2>4, <2>5 DEF OrderStep
<1>3. CASE Waits \/ ConfirmStock \/ UNCHANGED vars
  BY <1>3 DEF Waits, ConfirmStock, vars
<1>4. QED
  BY <1>1, <1>2, <1>3 DEF Next

\* A unit that the dispatch sent back is closed again in its new attempt before a
\* courier or the customer gets the order.
THEOREM ReworkClosedAgain == Spec => ReworkIsClosedAgain
<1>. DEFINE Given(o) == \/ o \in courier' \ courier
                        \/ order[o] = "ready_for_pickup" /\ order'[o] = "delivered"
            Again(o) == \A u \in UnitsOf(o) :
                          \/ closed[u] = Len(attempts[u])
                          \/ \E n \in 1 .. Len(attempts[u]) - 1 : attempts[u][n].state = "cancelled"
            Step == \A o \in Orders : Given(o) => Again(o)
<1>1. Init => MarksSound
  <2>1. SUFFICES ASSUME Init PROVE \A w \in Units : closed[w] = 0
    BY DEF MarksSound, Mark
  <2>2. QED
    BY <2>1 DEF Init
<1>2. KitchenInv /\ MarksSound /\ [Next]_vars => MarksSound'
  BY MarksStep
<1>3. ASSUME KitchenInv, MarksSound, [Next]_vars PROVE Step
  <2>1. SUFFICES ASSUME NEW o \in Orders, Given(o) PROVE Again(o)
    OBVIOUS
  <2>2. AllClosed(o)
    <3>1. CASE \E p \in Orders : AssignDriver(p) \/ CompletePickup(p)
      <4>1. PICK p \in Orders : AssignDriver(p) \/ CompletePickup(p)
        BY <3>1
      <4>2. courier' \subseteq courier \cup {p} /\ \A q \in Orders \ {p} : order'[q] = order[q]
        BY <1>3, <4>1, Parts DEF AssignDriver, CompletePickup, RestTyped
      <4>3. CASE AssignDriver(p)
        BY <2>1, <4>2, <4>3 DEF AssignDriver
      <4>4. CASE CompletePickup(p)
        BY <2>1, <4>2, <4>4 DEF CompletePickup
      <4>5. QED
        BY <4>1, <4>3, <4>4
    <3>2. CASE ~\E p \in Orders : AssignDriver(p) \/ CompletePickup(p)
      <4>1. courier' \subseteq courier
        BY <1>3, <3>2
           DEF Next, UnitStep, OrderStep, StartStockCheck, ReturnToService, FinishAssembly,
               StartOven, CompleteOven, Check, Command, Remake, CompleteDispatchUnit,
               InitializeOrder, StartPreparation, PrepareUnpaid, MarkReady, ReturnToKitchen,
               ReleaseRead, ReleaseCommit, Pay, LeaveRead, LeaveCommit, Ends, Archive,
               Waits, ConfirmStock, vars
      <4>2. order' = order \/ \E p \in Orders, t \in OrderStatus :
              order' = [order EXCEPT ![p] = t] /\ (t = "delivered" => OrderMay(order[p], t))
        BY <1>3, <3>2, OrderMoves
      <4>3. ~OrderMay("ready_for_pickup", "delivered")
        BY DEF OrderMay, CanTransition, OrderTransitions
      <4>4. ~(order[o] = "ready_for_pickup" /\ order'[o] = "delivered")
        BY <1>3, <4>2, <4>3, Parts DEF RestTyped
      <4>5. QED
        BY <2>1, <4>1, <4>4
    <3>3. QED
      BY <3>1, <3>2
  <2>3. ASSUME NEW u \in UnitsOf(o) PROVE Mark(attempts[u], closed[u]) /\ (closed[u] = 0 => Len(attempts[u]) = 0)
    BY <1>3, <2>2, Parts DEF AllClosed, UnitsOf, MarksSound
  <2>4. QED
    BY <2>3 DEF Mark
<1>4. KitchenInv /\ MarksSound /\ [Next]_vars =>
        [\A o \in Orders :
           (o \in courier' \ courier \/ (order[o] = "ready_for_pickup" /\ order'[o] = "delivered"))
           => \A u \in UnitsOf(o) :
                \/ closed[u] = Len(attempts[u])
                \/ \E n \in 1 .. Len(attempts[u]) - 1 : attempts[u][n].state = "cancelled"]_vars
  BY <1>3
<1>5. QED
  BY <1>1, <1>2, <1>4, KitchenInvariant, PTL DEF Spec, ReworkIsClosedAgain

-----------------------------------------------------------------------------
(* The places of a queue.                                                  *)

StrictOrder(S, R) ==
  /\ \A x, y \in S : x # y => <<x, y>> \in R \/ <<y, x>> \in R
  /\ \A x, y \in S : <<x, y>> \in R => <<y, x>> \notin R
  /\ \A x, y, z \in S : <<x, y>> \in R /\ <<y, z>> \in R => <<x, z>> \in R

UpTo(S, R, x) == { y \in S : y = x \/ <<y, x>> \in R }

\* Whoever comes earlier has the smaller place.
LEMMA EarlierIsLower ==
  ASSUME NEW S, IsFiniteSet(S), NEW R, StrictOrder(S, R),
         NEW x \in S, NEW y \in S, <<x, y>> \in R
  PROVE  /\ UpTo(S, R, x) \subseteq UpTo(S, R, y)
         /\ Cardinality(UpTo(S, R, x)) # Cardinality(UpTo(S, R, y))
         /\ Cardinality(UpTo(S, R, x)) <= Cardinality(UpTo(S, R, y))
<1>1. UpTo(S, R, x) \subseteq UpTo(S, R, y) /\ y \in UpTo(S, R, y)
  BY DEF UpTo, StrictOrder
<1>2. y \notin UpTo(S, R, x)
  BY DEF UpTo, StrictOrder
<1>3. IsFiniteSet(UpTo(S, R, y))
  BY FS_Subset DEF UpTo
<1>4. QED
  BY <1>1, <1>2, <1>3, FS_Subset

\* In a queue of N the first k places are taken by k, or by all when there are fewer.
LEMMA FirstPlaces ==
  ASSUME NEW S, IsFiniteSet(S), NEW R, StrictOrder(S, R), NEW k \in Nat
  PROVE  LET first == { x \in S : Cardinality(UpTo(S, R, x)) <= k }
         IN  /\ IsFiniteSet(first)
             /\ Cardinality(first) = IF Cardinality(S) <= k THEN Cardinality(S) ELSE k
<1>. DEFINE N == Cardinality(S)
            rank == [ x \in S |-> Cardinality(UpTo(S, R, x)) ]
            first == { x \in S : Cardinality(UpTo(S, R, x)) <= k }
<1>1. N \in Nat
  BY FS_CardinalityType
<1>2. ASSUME NEW x \in S PROVE rank[x] \in 1 .. N
  <2>1. UpTo(S, R, x) \subseteq S /\ x \in UpTo(S, R, x)
    BY DEF UpTo
  <2>2. IsFiniteSet(UpTo(S, R, x)) /\ Cardinality(UpTo(S, R, x)) <= N
    BY <2>1, FS_Subset
  <2>3. Cardinality(UpTo(S, R, x)) \in Nat /\ Cardinality(UpTo(S, R, x)) # 0
    BY <2>1, <2>2, FS_CardinalityType, FS_EmptySet
  <2>4. QED
    BY <1>1, <2>2, <2>3
<1>3. ASSUME NEW x \in S, NEW y \in S, x # y PROVE rank[x] # rank[y]
  <2>1. <<x, y>> \in R \/ <<y, x>> \in R
    BY <1>3 DEF StrictOrder
  <2>2. QED
    BY <2>1, EarlierIsLower
<1>4. IsFiniteSet(1 .. N) /\ Cardinality(1 .. N) = N
  BY <1>1, FS_Interval
<1>5. rank \in Injection(S, 1 .. N)
  BY <1>2, <1>3 DEF Injection, IsInjective
<1>6. rank \in Surjection(S, 1 .. N)
  BY <1>4, <1>5, FS_Injection
<1>7. first \subseteq S
  OBVIOUS
<1>8. IsFiniteSet(first)
  BY <1>7, FS_Subset
<1>9. CASE N <= k
  <2>1. first = S
    BY <1>1, <1>2, <1>9
  <2>2. QED
    BY <1>8, <1>9, <2>1
<1>10. CASE ~(N <= k)
  <2>. DEFINE low == [ x \in first |-> rank[x] ]
  <2>1. \A x \in first : rank[x] <= k /\ rank[x] \in 1 .. N
    BY <1>2
  <2>. HIDE DEF rank, first
  <2>2. low \in [first -> 1 .. k]
    BY <2>1, <1>1
  <2>3. low \in Injection(first, 1 .. k)
    BY <1>3, <1>7, <2>2 DEF Injection, IsInjective
  <2>4. ASSUME NEW j \in 1 .. k PROVE \E x \in first : low[x] = j
    <3>1. j \in 1 .. N
      BY <1>1, <1>10
    <3>2. PICK x \in S : rank[x] = j
      BY <1>6, <3>1 DEF Surjection
    <3>3. x \in first
      BY <3>2 DEF first, rank
    <3>4. QED
      BY <3>2, <3>3
  <2>5. low \in Surjection(first, 1 .. k)
    BY <2>2, <2>4 DEF Surjection
  <2>6. IsFiniteSet(1 .. k) /\ Cardinality(1 .. k) = k
    BY FS_Interval
  <2>7. Cardinality(first) = k
    BY <2>3, <2>5, <2>6, FS_Injection
  <2>8. QED
    BY <1>8, <1>10, <2>7 DEF first
<1>11. QED
  BY <1>9, <1>10

-----------------------------------------------------------------------------
(* The ingredients.                                                        *)

Late == {"assembled", "baking", "checking", "ready"}

\* How an attempt was supplied, when the orders in `sold' were charged as a whole.
Supply(w, n, a, sold) ==
  /\ w \in Drinks => ~a.lines
  /\ w \notin Drinks =>
       /\ a.lines => a.mode = "attempts"
       /\ a.mode = "attempts" => a.lines
       /\ a.lines /\ n = 1 => OrderOf[w] \notin sold
       /\ a.state \in Late => a.mode # "none"
       /\ a.state \in {"queued", "checking_stock"} => a.mode = "none"

SupplySound == \A w \in Units : \A n \in DOMAIN attempts[w] : Supply(w, n, attempts[w][n], sale)

\* The books of the shelf.
Balanced ==
  /\ IsFiniteSet(Consumed)
  /\ shelf + Cardinality(Consumed) + Cardinality(SoldUnits) = StockSize

\* The stock checks that run are in a queue, and their seconds run out in its order.
QueueSound ==
  /\ ahead \subseteq Checks \X Checks /\ waited \subseteq Checks
  /\ StrictOrder(Checks, ahead)
  /\ \A x, y \in Checks : <<x, y>> \in ahead /\ y \in waited => x \in waited

StockInv == SupplySound /\ Balanced /\ QueueSound

Charged(rows) ==
  { x \in UNION { {w} \X DOMAIN rows[w] : w \in Units } : rows[x[1]][x[2]].lines }

LEMMA ChargedIsConsumed ==
  Consumed = Charged(attempts) /\ Consumed' = Charged(attempts')
BY DEF Consumed, Charged

LEMMA ChargedFacts ==
  ASSUME NEW rows, NEW w, NEW n
  PROVE  <<w, n>> \in Charged(rows) <=> w \in Units /\ n \in DOMAIN rows[w] /\ rows[w][n].lines
BY DEF Charged

LEMMA ChargedPairs ==
  ASSUME NEW rows, NEW x \in Charged(rows)
  PROVE  x = <<x[1], x[2]>> /\ x[1] \in Units /\ x[2] \in DOMAIN rows[x[1]] /\ rows[x[1]][x[2]].lines
BY DEF Charged

\* An attempt that goes on without anything from the shelf.
GoesOn(w, n, a, b) == b.lines = a.lines /\ Supply(w, n, b, sale)

\* A unit whose attempts go on, or that gets a new one.
Free(w, tries, new) ==
  /\ DOMAIN tries \subseteq DOMAIN new
  /\ \A n \in DOMAIN tries : GoesOn(w, n, tries[n], new[n])
  /\ \A n \in DOMAIN new \ DOMAIN tries : new[n] = Queued \/ (w \in Drinks /\ new[n] = Served)

LEMMA FreeSupply ==
  ASSUME KitchenInv, SupplySound, NEW w \in Units, Free(w, attempts[w], attempts'[w])
  PROVE  \A n \in DOMAIN attempts'[w] : Supply(w, n, attempts'[w][n], sale)
<1>1. ASSUME NEW n \in DOMAIN attempts[w]
      PROVE  Supply(w, n, attempts'[w][n], sale)
  BY <1>1 DEF Free, GoesOn
<1>2. ASSUME NEW n \in DOMAIN attempts'[w] \ DOMAIN attempts[w]
      PROVE  Supply(w, n, attempts'[w][n], sale)
  BY <1>2 DEF Free, Supply, Queued, Served, Late
<1>3. QED
  BY <1>1, <1>2

LEMMA FreeCharges ==
  ASSUME \A w \in Units : Free(w, attempts[w], attempts'[w])
  PROVE  Consumed' = Consumed
<1>1. ASSUME NEW x \in Charged(attempts) PROVE x \in Charged(attempts')
  <2>1. /\ x = <<x[1], x[2]>> /\ x[1] \in Units /\ x[2] \in DOMAIN attempts[x[1]]
        /\ attempts[x[1]][x[2]].lines
    BY ChargedPairs
  <2>2. x[2] \in DOMAIN attempts'[x[1]] /\ attempts'[x[1]][x[2]].lines
    BY <2>1 DEF Free, GoesOn
  <2>3. QED
    BY <2>1, <2>2, ChargedFacts
<1>2. ASSUME NEW x \in Charged(attempts') PROVE x \in Charged(attempts)
  <2>1. /\ x = <<x[1], x[2]>> /\ x[1] \in Units /\ x[2] \in DOMAIN attempts'[x[1]]
        /\ attempts'[x[1]][x[2]].lines
    BY ChargedPairs
  <2>2. x[2] \in DOMAIN attempts[x[1]]
    BY <2>1 DEF Free, Queued, Served
  <2>3. attempts[x[1]][x[2]].lines
    BY <2>1, <2>2 DEF Free, GoesOn
  <2>4. QED
    BY <2>1, <2>2, <2>3, ChargedFacts
<1>3. QED
  BY <1>1, <1>2, ChargedIsConsumed

\* A step that takes nothing from the shelf.
LEMMA FreeKeeps ==
  ASSUME KitchenInv, SupplySound, Balanced, UNCHANGED stock,
         \A w \in Units : Free(w, attempts[w], attempts'[w])
  PROVE  SupplySound' /\ Balanced'
<1>1. SupplySound'
  BY FreeSupply DEF SupplySound, stock
<1>2. Balanced'
  BY FreeCharges DEF Balanced, stock, SoldUnits
<1>3. QED
  BY <1>1, <1>2

\* What leaves the checks that run as they are.
SameChecks(tries, new) ==
  \A n : (n \in DOMAIN new /\ new[n].state = "checking_stock")
         <=> (n \in DOMAIN tries /\ tries[n].state = "checking_stock")

LEMMA ChecksStay ==
  ASSUME \A w \in Units : SameChecks(attempts[w], attempts'[w])
  PROVE  Checks' = Checks
<1>1. Checks = UNION { {u} \X { n \in DOMAIN attempts[u] : attempts[u][n].state = "checking_stock" }
                       : u \in Units }
  BY DEF Checks
<1>2. Checks' = UNION { {u} \X { n \in DOMAIN attempts'[u] : attempts'[u][n].state = "checking_stock" }
                        : u \in Units }
  BY DEF Checks
<1>3. \A u \in Units : { n \in DOMAIN attempts'[u] : attempts'[u][n].state = "checking_stock" }
                     = { n \in DOMAIN attempts[u] : attempts[u][n].state = "checking_stock" }
  BY DEF SameChecks
<1>4. QED
  BY <1>1, <1>2, <1>3

LEMMA QueueStays ==
  ASSUME QueueSound, \A w \in Units : SameChecks(attempts[w], attempts'[w]), UNCHANGED queue
  PROVE  QueueSound'
BY ChecksStay DEF QueueSound, StrictOrder, queue

\* Checks leave the queue.
LEMMA QueueForgets ==
  ASSUME QueueSound, NEW gone, Checks' = Checks \ gone, Forget(gone)
  PROVE  QueueSound'
<1>1. ahead' = { p \in ahead : p[1] \notin gone /\ p[2] \notin gone } /\ waited' = waited \ gone
  BY DEF Forget
<1>2. \A x, y : <<x, y>> \in ahead' <=> <<x, y>> \in ahead /\ x \notin gone /\ y \notin gone
  BY <1>1
<1>3. ahead' \subseteq Checks' \X Checks' /\ waited' \subseteq Checks'
  BY <1>1 DEF QueueSound
<1>4. StrictOrder(Checks', ahead')
  BY <1>2 DEF QueueSound, StrictOrder
<1>5. \A x, y \in Checks' : <<x, y>> \in ahead' /\ y \in waited' => x \in waited'
  BY <1>1, <1>2 DEF QueueSound
<1>6. QED
  BY <1>3, <1>4, <1>5 DEF QueueSound, StrictOrder

LEMMA FreeSame ==
  ASSUME SupplySound, NEW w \in Units
  PROVE  Free(w, attempts[w], attempts[w]) /\ SameChecks(attempts[w], attempts[w])
BY DEF Free, GoesOn, SupplySound, SameChecks

LEMMA FreeServed ==
  ASSUME KitchenInv, SupplySound, NEW w \in Units, w \in Drinks
  PROVE  /\ Free(w, attempts[w], DrinkReady(attempts[w]))
         /\ SameChecks(attempts[w], DrinkReady(attempts[w]))
         /\ DrinkReady(attempts[w]) \in Seq(Attempt)
<1>1. attempts[w] \in Seq(Attempt) /\ Rows(attempts[w], unit[w])
      /\ \A n \in DOMAIN attempts[w] : attempts[w][n].state \in {"queued", "ready", "cancelled"}
  BY Parts DEF Sound
<1>2. DOMAIN DrinkReady(attempts[w]) = DOMAIN attempts[w]
  BY DEF DrinkReady
<1>3. ASSUME NEW n \in DOMAIN attempts[w]
      PROVE  /\ DrinkReady(attempts[w])[n].lines = attempts[w][n].lines
             /\ DrinkReady(attempts[w])[n].state \in {"ready", "cancelled"}
  <2>1. attempts[w][n] \in Attempt
    BY <1>1
  <2>2. CASE attempts[w][n].state \in {"ready", "cancelled"}
    BY <2>2 DEF DrinkReady
  <2>3. CASE attempts[w][n].state \notin {"ready", "cancelled"}
    <3>1. DrinkReady(attempts[w])[n] = [attempts[w][n] EXCEPT !.state = "ready"]
      BY <2>3 DEF DrinkReady
    <3>2. QED
      BY <2>1, <3>1 DEF Attempt
  <2>4. QED
    BY <2>2, <2>3
<1>4. ASSUME NEW n \in DOMAIN attempts[w]
      PROVE  GoesOn(w, n, attempts[w][n], DrinkReady(attempts[w])[n])
  BY <1>3 DEF GoesOn, Supply, SupplySound
<1>5. SameChecks(attempts[w], DrinkReady(attempts[w]))
  <2>1. ASSUME NEW n \in DOMAIN attempts[w]
        PROVE  /\ attempts[w][n].state # "checking_stock"
               /\ DrinkReady(attempts[w])[n].state # "checking_stock"
    BY <1>1, <1>3
  <2>2. QED
    BY <1>2, <2>1 DEF SameChecks
<1>6. DrinkReady(attempts[w]) \in Seq(Attempt)
  <2>1. CASE attempts[w] = <<>>
    BY <2>1 DEF DrinkReady
  <2>2. CASE attempts[w] # <<>>
    BY <1>1, <2>2, DrinkRows
  <2>3. QED
    BY <2>1, <2>2
<1>7. QED
  BY <1>2, <1>4, <1>5, <1>6 DEF Free

LEMMA FreeAppend ==
  ASSUME NEW w \in Units, NEW old, NEW tries \in Seq(Attempt),
         DOMAIN old = DOMAIN tries, Free(w, old, tries), SameChecks(old, tries)
  PROVE  Free(w, old, Append(tries, Queued)) /\ SameChecks(old, Append(tries, Queued))
<1>. DEFINE new == Append(tries, Queued)
<1>1. /\ DOMAIN tries = 1 .. Len(tries) /\ DOMAIN new = 1 .. Len(tries) + 1
      /\ \A n \in DOMAIN tries : new[n] = tries[n]
      /\ new[Len(tries) + 1] = Queued
      /\ Len(tries) \in Nat
  BY AttemptFacts
<1>. HIDE DEF new
<1>2. Free(w, old, new)
  <2>1. DOMAIN old \subseteq DOMAIN new
    BY <1>1
  <2>2. \A n \in DOMAIN old : GoesOn(w, n, old[n], new[n])
    BY <1>1 DEF Free
  <2>3. \A n \in DOMAIN new \ DOMAIN old : new[n] = Queued
    BY <1>1
  <2>4. QED
    BY <2>1, <2>2, <2>3 DEF Free
<1>3. SameChecks(old, new)
  <2>1. ASSUME NEW n
        PROVE  (n \in DOMAIN new /\ new[n].state = "checking_stock")
               <=> (n \in DOMAIN tries /\ tries[n].state = "checking_stock")
    <3>1. CASE n \in DOMAIN tries
      BY <1>1, <3>1
    <3>2. CASE n = Len(tries) + 1
      BY <1>1, <3>2, AttemptFacts
    <3>3. CASE n \notin DOMAIN new
      BY <1>1, <3>3
    <3>4. QED
      BY <1>1, <3>1, <3>2, <3>3
  <2>2. QED
    BY <2>1 DEF SameChecks
<1>4. QED
  BY <1>2, <1>3 DEF new

\* A step that takes nothing from the shelf and leaves the checks alone.
LEMMA FreeStep ==
  ASSUME KitchenInv, StockInv, UNCHANGED <<stock, queue>>,
         \A w \in Units : /\ Free(w, attempts[w], attempts'[w])
                          /\ SameChecks(attempts[w], attempts'[w])
  PROVE  StockInv'
BY FreeKeeps, QueueStays DEF StockInv

LEMMA InitializedStock ==
  ASSUME KitchenInv, StockInv, NEW o, InitializeUnits(o), UNCHANGED <<stock, queue>>
  PROVE  StockInv'
<1>1. ASSUME NEW w \in Units
      PROVE  Free(w, attempts[w], attempts'[w]) /\ SameChecks(attempts[w], attempts'[w])
  <2>1. attempts'[w] = IF OrderOf[w] # o THEN attempts[w]
                       ELSE IF attempts[w] = <<>> THEN FirstAttempt(w)
                       ELSE IF w \in Drinks THEN DrinkReady(attempts[w]) ELSE attempts[w]
    BY DEF InitializeUnits, WithUnits
  <2>2. CASE attempts'[w] = attempts[w]
    BY <2>2, FreeSame DEF StockInv
  <2>3. CASE w \in Drinks /\ attempts'[w] = DrinkReady(attempts[w])
    BY <2>3, FreeServed DEF StockInv
  <2>4. CASE attempts[w] = <<>> /\ attempts'[w] = FirstAttempt(w)
    <3>1. attempts'[w] = <<Queued>> \/ (w \in Drinks /\ attempts'[w] = <<Served>>)
      <4>1. CASE w \in Drinks
        BY <2>4, <4>1 DEF FirstAttempt
      <4>2. CASE w \notin Drinks
        BY <2>4, <4>2 DEF FirstAttempt
      <4>3. QED
        BY <4>1, <4>2
    <3>2. PICK a \in {Queued, Served} : attempts'[w] = <<a>> /\ (a = Queued \/ w \in Drinks)
      BY <3>1
    <3>3. /\ DOMAIN attempts[w] = {} /\ DOMAIN attempts'[w] = {1} /\ attempts'[w][1] = a
          /\ a.state # "checking_stock"
      BY <2>4, <3>2, AttemptFacts
    <3>4. QED
      BY <3>2, <3>3 DEF Free, SameChecks
  <2>5. QED
    BY <2>1, <2>2, <2>3, <2>4
<1>2. QED
  BY <1>1, FreeStep

LEMMA MarkedStock ==
  ASSUME KitchenInv, StockInv, NEW o, DrinksMarked(o), UNCHANGED <<stock, queue>>
  PROVE  StockInv'
<1>1. ASSUME NEW w \in Units
      PROVE  Free(w, attempts[w], attempts'[w]) /\ SameChecks(attempts[w], attempts'[w])
  <2>1. attempts'[w] = attempts[w] \/ (w \in Drinks /\ attempts'[w] = DrinkReady(attempts[w]))
    BY DEF DrinksMarked
  <2>2. QED
    BY <2>1, FreeSame, FreeServed DEF StockInv
<1>2. QED
  BY <1>1, FreeStep

LEMMA ReturnedStock ==
  ASSUME KitchenInv, StockInv, NEW o, NEW us, ReturnToKitchen(o, us)
  PROVE  StockInv'
<1>1. ASSUME NEW w \in Units
      PROVE  Free(w, attempts[w], attempts'[w]) /\ SameChecks(attempts[w], attempts'[w])
  <2>. DEFINE tries == IF w \in UnitsOf(o) \cap Drinks THEN DrinkReady(attempts[w]) ELSE attempts[w]
  <2>1. attempts'[w] = IF w \in us THEN Append(tries, Queued) ELSE tries
    BY DEF ReturnToKitchen
  <2>2. /\ Free(w, attempts[w], tries) /\ SameChecks(attempts[w], tries)
        /\ tries \in Seq(Attempt) /\ DOMAIN attempts[w] = DOMAIN tries
    <3>1. DOMAIN DrinkReady(attempts[w]) = DOMAIN attempts[w]
      BY DEF DrinkReady
    <3>2. CASE w \in UnitsOf(o) \cap Drinks
      BY <3>1, <3>2, FreeServed DEF StockInv
    <3>3. CASE w \notin UnitsOf(o) \cap Drinks
      BY <3>3, FreeSame, Parts DEF StockInv
    <3>4. QED
      BY <3>2, <3>3
  <2>. HIDE DEF tries
  <2>3. QED
    BY <2>1, <2>2, FreeAppend
<1>2. UNCHANGED <<stock, queue>>
  BY DEF ReturnToKitchen
<1>3. QED
  BY <1>1, <1>2, FreeStep

\* A command that takes nothing: the units but this one stay as they are.
LEMMA WriteFree ==
  ASSUME KitchenInv, SupplySound, NEW u \in Units, NEW n \in DOMAIN attempts[u], NEW a,
         Write(u, n, a), GoesOn(u, n, attempts[u][n], a)
  PROVE  \A w \in Units : Free(w, attempts[w], attempts'[w])
<1>1. ASSUME NEW w \in Units PROVE Free(w, attempts[w], attempts'[w])
  <2>1. CASE w # u
    <3>1. attempts'[w] = attempts[w]
      BY <2>1, Parts DEF Write
    <3>2. QED
      BY <3>1, FreeSame
  <2>2. CASE w = u
    <3>1. attempts'[u] = [attempts[u] EXCEPT ![n] = a]
      BY Parts DEF Write
    <3>2. \A m \in DOMAIN attempts[u] : GoesOn(u, m, attempts[u][m], attempts[u][m])
      BY DEF GoesOn, SupplySound
    <3>3. QED
      BY <2>2, <3>1, <3>2 DEF Free
  <2>3. QED
    BY <2>1, <2>2
<1>2. QED
  BY <1>1

LEMMA WriteChecks ==
  ASSUME KitchenInv, NEW u \in Units, NEW n \in DOMAIN attempts[u], NEW a,
         Write(u, n, a),
         attempts[u][n].state # "checking_stock", a.state # "checking_stock"
  PROVE  \A w \in Units : SameChecks(attempts[w], attempts'[w])
<1>1. ASSUME NEW w \in Units PROVE SameChecks(attempts[w], attempts'[w])
  <2>1. CASE w # u
    <3>1. attempts'[w] = attempts[w]
      BY <2>1, Parts DEF Write
    <3>2. QED
      BY <3>1 DEF SameChecks
  <2>2. CASE w = u
    <3>1. attempts'[u] = [attempts[u] EXCEPT ![n] = a]
      BY Parts DEF Write
    <3>2. QED
      BY <2>2, <3>1 DEF SameChecks
  <2>3. QED
    BY <2>1, <2>2
<1>2. QED
  BY <1>1

\* A check that begins comes last in the queue.
LEMMA StartedStock ==
  ASSUME KitchenInv, StockInv, NEW u \in Units, NEW n, StartStockCheck(u, n)
  PROVE  StockInv'
<1>. DEFINE a == To(u, n, "checking_stock")
<1>1. /\ u \notin Drinks /\ n \in DOMAIN attempts[u] /\ attempts[u][n].state = "queued"
      /\ Write(u, n, a)
      /\ ahead' = ahead \cup (Checks \X {<<u, n>>}) /\ waited' = waited /\ UNCHANGED stock
  BY DEF StartStockCheck, InState
<1>2. attempts[u][n] \in Attempt
  BY <1>1, Parts
<1>3. a.lines = attempts[u][n].lines /\ a.mode = attempts[u][n].mode /\ a.state = "checking_stock"
  BY <1>2 DEF To, Attempt
<1>. HIDE DEF a
<1>4. Supply(u, n, attempts[u][n], sale)
  BY <1>1 DEF StockInv, SupplySound
<1>5. GoesOn(u, n, attempts[u][n], a)
  BY <1>1, <1>3, <1>4 DEF GoesOn, Supply, Late
<1>6. SupplySound' /\ Balanced'
  BY <1>1, <1>5, WriteFree, FreeKeeps DEF StockInv
<1>7. Checks' = Checks \cup {<<u, n>>}
  <2>1. /\ \A w \in Units : w # u => attempts'[w] = attempts[w]
        /\ attempts'[u] = [attempts[u] EXCEPT ![n] = a]
    BY <1>1, Parts DEF Write
  <2>2. \A w \in Units : DOMAIN attempts'[w] = DOMAIN attempts[w]
    BY <2>1
  <2>3. \A w \in Units : \A m \in DOMAIN attempts[w] :
          attempts'[w][m] = IF w = u /\ m = n THEN a ELSE attempts[w][m]
    BY <2>1, <1>1
  <2>4. ASSUME NEW x \in Checks' PROVE x \in Checks \cup {<<u, n>>}
    <3>1. PICK w \in Units : \E m \in DOMAIN attempts'[w] :
            x = <<w, m>> /\ attempts'[w][m].state = "checking_stock"
      BY <2>4 DEF Checks
    <3>2. PICK m \in DOMAIN attempts'[w] : x = <<w, m>> /\ attempts'[w][m].state = "checking_stock"
      BY <3>1
    <3>3. QED
      BY <2>2, <2>3, <3>2 DEF Checks
  <2>5. ASSUME NEW x \in Checks PROVE x \in Checks'
    <3>1. PICK w \in Units : \E m \in DOMAIN attempts[w] :
            x = <<w, m>> /\ attempts[w][m].state = "checking_stock"
      BY <2>5 DEF Checks
    <3>2. PICK m \in DOMAIN attempts[w] : x = <<w, m>> /\ attempts[w][m].state = "checking_stock"
      BY <3>1
    <3>3. m \in DOMAIN attempts'[w] /\ attempts'[w][m].state = "checking_stock"
      BY <2>2, <2>3, <3>2, <1>3
    <3>4. QED
      BY <3>2, <3>3 DEF Checks
  <2>6. <<u, n>> \in Checks'
    <3>1. n \in DOMAIN attempts'[u] /\ attempts'[u][n].state = "checking_stock"
      BY <1>1, <1>3, <2>2, <2>3
    <3>2. QED
      BY <3>1 DEF Checks
  <2>7. QED
    BY <2>4, <2>5, <2>6
<1>8. <<u, n>> \notin Checks
  BY <1>1 DEF Checks
<1>. DEFINE new == <<u, n>>
<1>. HIDE DEF new
<1>9. QueueSound'
  <2>1. \A x, y : <<x, y>> \in ahead' <=> <<x, y>> \in ahead \/ (x \in Checks /\ y = new)
    BY <1>1 DEF new
  <2>2. \A x, y : <<x, y>> \in ahead => x \in Checks /\ y \in Checks
    BY DEF StockInv, QueueSound
  <2>3. new \notin Checks /\ Checks' = Checks \cup {new} /\ waited' = waited /\ waited \subseteq Checks
    BY <1>1, <1>7, <1>8 DEF new, StockInv, QueueSound
  <2>4. StrictOrder(Checks, ahead)
        /\ \A x, y \in Checks : <<x, y>> \in ahead /\ y \in waited => x \in waited
    BY DEF StockInv, QueueSound
  <2>5. ahead' \subseteq Checks' \X Checks'
    <3>1. ahead \subseteq Checks \X Checks
      BY DEF StockInv, QueueSound
    <3>2. QED
      BY <1>1, <2>3, <3>1 DEF new
  <2>6. StrictOrder(Checks', ahead')
    <3>1. ASSUME NEW x \in Checks', NEW y \in Checks', x # y
          PROVE  <<x, y>> \in ahead' \/ <<y, x>> \in ahead'
      <4>1. CASE x \in Checks /\ y \in Checks
        BY <2>1, <2>4, <3>1, <4>1 DEF StrictOrder
      <4>2. CASE x \notin Checks \/ y \notin Checks
        BY <2>1, <2>3, <3>1, <4>2
      <4>3. QED
        BY <4>1, <4>2
    <3>2. \A x, y \in Checks' : <<x, y>> \in ahead' => <<y, x>> \notin ahead'
      BY <2>1, <2>2, <2>3, <2>4 DEF StrictOrder
    <3>3. \A x, y, z \in Checks' : <<x, y>> \in ahead' /\ <<y, z>> \in ahead' => <<x, z>> \in ahead'
      BY <2>1, <2>2, <2>3, <2>4 DEF StrictOrder
    <3>4. QED
      BY <3>1, <3>2, <3>3 DEF StrictOrder
  <2>7. \A x, y \in Checks' : <<x, y>> \in ahead' /\ y \in waited' => x \in waited'
    BY <2>1, <2>2, <2>3, <2>4
  <2>8. QED
    BY <2>3, <2>5, <2>6, <2>7 DEF QueueSound, StrictOrder
<1>10. QED
  BY <1>6, <1>9 DEF StockInv

LEMMA WaitsStock ==
  ASSUME KitchenInv, StockInv, Waits
  PROVE  StockInv'
<1>1. UNCHANGED <<attempts, ahead>> /\ UNCHANGED stock
  BY DEF Waits, work
<1>2. SupplySound' /\ Balanced'
  BY <1>1, FreeSame, FreeKeeps DEF StockInv
<1>3. Checks' = Checks
  BY <1>1 DEF Checks
<1>4. PICK x \in Checks \ waited :
        (\A y \in Checks : <<y, x>> \in ahead => y \in waited) /\ waited' = waited \cup {x}
  BY DEF Waits
<1>5. QueueSound'
  BY <1>1, <1>3, <1>4 DEF StockInv, QueueSound, StrictOrder
<1>6. QED
  BY <1>2, <1>5 DEF StockInv

\* A command of the oven, or one that gives an attempt back to the service.
LEMMA MovedStock ==
  ASSUME KitchenInv, StockInv, NEW u \in Units, NEW n,
         \/ \E from \in Late, to \in Late : Command(u, n, from, to)
         \/ ReturnToService(u, n)
  PROVE  StockInv'
<1>1. PICK s \in Late \cup {"atendimento"} :
        /\ u \notin Drinks /\ n \in DOMAIN attempts[u]
        /\ attempts[u][n].state \in Late \cup {"aguardando_analise"}
        /\ s \in Late => attempts[u][n].state \in Late
        /\ Write(u, n, To(u, n, s)) /\ UNCHANGED <<stock, queue>>
  BY DEF Command, ReturnToService, InState, Late
<1>. DEFINE a == To(u, n, s)
<1>2. attempts[u][n] \in Attempt
  BY <1>1, Parts
<1>3. a.lines = attempts[u][n].lines /\ a.mode = attempts[u][n].mode /\ a.state = s
  BY <1>2 DEF To, Attempt
<1>. HIDE DEF a
<1>4. Supply(u, n, attempts[u][n], sale)
  BY <1>1 DEF StockInv, SupplySound
<1>5. GoesOn(u, n, attempts[u][n], a)
  BY <1>1, <1>3, <1>4 DEF GoesOn, Supply, Late
<1>6. \A w \in Units : Free(w, attempts[w], attempts'[w])
  BY <1>1, <1>5, WriteFree DEF StockInv, a
<1>7. \A w \in Units : SameChecks(attempts[w], attempts'[w])
  BY <1>1, <1>3, WriteChecks DEF Late, a
<1>8. QED
  BY <1>1, <1>6, <1>7, FreeStep

\* An attempt that takes one from the shelf.
LEMMA TakenBalanced ==
  ASSUME KitchenInv, Balanced, NEW u \in Units, NEW n \in DOMAIN attempts[u], NEW a,
         Write(u, n, a), ~attempts[u][n].lines, a.lines,
         shelf > 0, shelf' = shelf - 1, UNCHANGED sale
  PROVE  Balanced'
<1>1. /\ \A w \in Units : w # u => attempts'[w] = attempts[w]
      /\ attempts'[u] = [attempts[u] EXCEPT ![n] = a]
  BY Parts DEF Write
<1>2. \A w \in Units : DOMAIN attempts'[w] = DOMAIN attempts[w]
  BY <1>1
<1>3. \A w \in Units : \A m \in DOMAIN attempts[w] :
        attempts'[w][m] = IF w = u /\ m = n THEN a ELSE attempts[w][m]
  BY <1>1
<1>4. Charged(attempts') = Charged(attempts) \cup {<<u, n>>}
  <2>1. ASSUME NEW x \in Charged(attempts') PROVE x \in Charged(attempts) \cup {<<u, n>>}
    BY <1>2, <1>3, <2>1, ChargedPairs, ChargedFacts
  <2>2. ASSUME NEW x \in Charged(attempts) PROVE x \in Charged(attempts')
    <3>1. /\ x = <<x[1], x[2]>> /\ x[1] \in Units /\ x[2] \in DOMAIN attempts[x[1]]
          /\ attempts[x[1]][x[2]].lines
      BY <2>2, ChargedPairs
    <3>2. x[2] \in DOMAIN attempts'[x[1]] /\ attempts'[x[1]][x[2]].lines
      BY <1>2, <1>3, <3>1
    <3>3. QED
      BY <3>1, <3>2, ChargedFacts
  <2>3. <<u, n>> \in Charged(attempts')
    BY <1>2, <1>3, ChargedFacts
  <2>4. QED
    BY <2>1, <2>2, <2>3
<1>5. <<u, n>> \notin Charged(attempts)
  BY ChargedFacts
<1>6. IsFiniteSet(Consumed') /\ Cardinality(Consumed') = Cardinality(Consumed) + 1
  BY <1>4, <1>5, ChargedIsConsumed, FS_AddElement DEF Balanced
<1>7. SoldUnits' = SoldUnits
  BY DEF SoldUnits
<1>8. /\ Cardinality(Consumed) \in Nat /\ Cardinality(SoldUnits) \in Nat /\ shelf \in Nat
  BY KitchenAssumption, FS_Subset, FS_CardinalityType, Parts DEF Balanced, SoldUnits, RestTyped
<1>9. QED
  BY <1>6, <1>7, <1>8 DEF Balanced

LEMMA AssembledStock ==
  ASSUME KitchenInv, StockInv, NEW u \in Units, NEW n, FinishAssembly(u, n)
  PROVE  StockInv'
<1>1. /\ u \notin Drinks /\ n \in DOMAIN attempts[u] /\ attempts[u][n].state = "assembling"
      /\ UNCHANGED queue /\ sale' = sale
  BY DEF FinishAssembly, InState
<1>2. attempts[u][n] \in Attempt /\ Supply(u, n, attempts[u][n], sale)
  BY <1>1, Parts DEF StockInv, SupplySound
<1>3. CASE attempts[u][n].mode # "none" /\ Write(u, n, To(u, n, "assembled")) /\ UNCHANGED shelf
  <2>. DEFINE a == To(u, n, "assembled")
  <2>1. a.lines = attempts[u][n].lines /\ a.mode = attempts[u][n].mode /\ a.state = "assembled"
    BY <1>2 DEF To, Attempt
  <2>. HIDE DEF a
  <2>2. GoesOn(u, n, attempts[u][n], a)
    BY <1>1, <1>2, <1>3, <2>1 DEF GoesOn, Supply, Late
  <2>3. \A w \in Units : Free(w, attempts[w], attempts'[w]) /\ SameChecks(attempts[w], attempts'[w])
    BY <1>1, <1>3, <2>1, <2>2, WriteFree, WriteChecks DEF StockInv, a
  <2>4. QED
    BY <1>1, <1>3, <2>3, FreeStep DEF stock
<1>4. ASSUME NEW on \in BOOLEAN, attempts[u][n].mode = "none",
             Write(u, n, Supplied(u, n, "assembled", on)),
             ~Takes(u, n, on), UNCHANGED shelf
      PROVE  StockInv'
  <2>. DEFINE a == Supplied(u, n, "assembled", on)
  <2>1. a.lines = attempts[u][n].lines /\ a.state = "assembled"
        /\ ~a.lines /\ a.mode \in {"disabled", "legacy_covered"}
    BY <1>1, <1>2, <1>4 DEF Supplied, Supply, Attempt, Takes
  <2>. HIDE DEF a
  <2>2. GoesOn(u, n, attempts[u][n], a)
    BY <1>1, <2>1 DEF GoesOn, Supply, Late
  <2>3. \A w \in Units : Free(w, attempts[w], attempts'[w]) /\ SameChecks(attempts[w], attempts'[w])
    BY <1>1, <1>4, <2>1, <2>2, WriteFree, WriteChecks DEF StockInv, a
  <2>4. QED
    BY <1>1, <1>4, <2>3, FreeStep DEF stock
<1>5. ASSUME NEW on \in BOOLEAN, attempts[u][n].mode = "none",
             Write(u, n, Supplied(u, n, "assembled", on)),
             Takes(u, n, on), shelf > 0, shelf' = shelf - 1
      PROVE  StockInv'
  <2>. DEFINE a == Supplied(u, n, "assembled", on)
  <2>1. a.lines /\ a.state = "assembled" /\ a.mode = "attempts" /\ ~attempts[u][n].lines
        /\ ~Covered(u, n)
    BY <1>5 DEF Supplied, Takes
  <2>. HIDE DEF a
  <2>2. Balanced'
    BY <1>1, <1>5, <2>1, TakenBalanced DEF StockInv, a
  <2>3. \A w \in Units : SameChecks(attempts[w], attempts'[w])
    BY <1>1, <1>5, <2>1, WriteChecks DEF a
  <2>4. QueueSound'
    BY <1>1, <2>3, QueueStays DEF StockInv
  <2>5. Supply(u, n, a, sale)
    BY <1>1, <2>1 DEF Supply, Late, Covered
  <2>6. attempts' = [attempts EXCEPT ![u] = [attempts[u] EXCEPT ![n] = a]]
    BY <1>5, Parts DEF Write, a
  <2>7. ASSUME NEW w \in Units, NEW m \in DOMAIN attempts'[w]
        PROVE  Supply(w, m, attempts'[w][m], sale)
    <3>1. m \in DOMAIN attempts[w] /\ (attempts'[w][m] = attempts[w][m] \/ (w = u /\ m = n /\ attempts'[w][m] = a))
      BY <2>6, Parts
    <3>2. QED
      BY <2>5, <3>1 DEF StockInv, SupplySound
  <2>8. SupplySound'
    BY <1>1, <2>7 DEF SupplySound
  <2>9. QED
    BY <2>2, <2>4, <2>8 DEF StockInv
<1>6. QED
  BY <1>3, <1>4, <1>5 DEF FinishAssembly

\* An attempt that is given up keeps what it took, and its check runs no more.
LEMMA RemadeStock ==
  ASSUME KitchenInv, StockInv, NEW u \in Units, NEW n, Remake(u, n)
  PROVE  StockInv'
<1>. DEFINE given == [attempts[u] EXCEPT ![n].state = "cancelled"]
            c == [attempts[u][n] EXCEPT !.state = "cancelled"]
            new == Append(given, Queued)
<1>1. /\ attempts[u] \in Seq(Attempt) /\ n = Len(attempts[u]) /\ n \in DOMAIN attempts[u]
      /\ attempts' = [attempts EXCEPT ![u] = new]
      /\ Forget({<<u, n>>}) /\ UNCHANGED stock
  BY Parts DEF Remake, Remakeable
<1>2. attempts[u][n] \in Attempt
  BY <1>1
<1>3. c \in Attempt /\ c.state = "cancelled" /\ c.lines = attempts[u][n].lines
      /\ c.mode = attempts[u][n].mode
  BY <1>2 DEF Attempt, AttemptStates
<1>4. given = [attempts[u] EXCEPT ![n] = c]
  BY <1>1
<1>. HIDE DEF given, c
<1>5. given \in Seq(Attempt) /\ DOMAIN given = DOMAIN attempts[u] /\ Len(given) = n
      /\ given[n] = c /\ \A m \in DOMAIN attempts[u] : m # n => given[m] = attempts[u][m]
  BY <1>1, <1>3, <1>4
<1>6. /\ DOMAIN new = 1 .. n + 1 /\ DOMAIN attempts[u] = 1 .. n /\ n \in Nat
      /\ new[n + 1] = Queued
      /\ \A m \in 1 .. n : new[m] = given[m]
  BY <1>1, <1>5, AttemptFacts
<1>. HIDE DEF new
<1>7. /\ new[n] = c
      /\ \A m \in DOMAIN attempts[u] : m # n => new[m] = attempts[u][m]
      /\ \A m \in DOMAIN new \ DOMAIN attempts[u] : m = n + 1 /\ new[m] = Queued
      /\ DOMAIN attempts[u] \subseteq DOMAIN new
  BY <1>1, <1>5, <1>6
<1>8. \A m \in DOMAIN attempts[u] : Supply(u, m, attempts[u][m], sale)
  BY DEF StockInv, SupplySound
<1>9. GoesOn(u, n, attempts[u][n], c)
  BY <1>1, <1>3, <1>8 DEF GoesOn, Supply, Late
<1>10. Free(u, attempts[u], new)
  BY <1>7, <1>8, <1>9 DEF Free, GoesOn
<1>11. \A w \in Units : w # u => attempts'[w] = attempts[w]
  BY <1>1, Parts
<1>12. attempts'[u] = new
  BY <1>1, Parts
<1>13. \A w \in Units : Free(w, attempts[w], attempts'[w])
  BY <1>10, <1>11, <1>12, FreeSame DEF StockInv
<1>14. SupplySound' /\ Balanced'
  BY <1>1, <1>13, FreeKeeps DEF StockInv
<1>15. Checks' = Checks \ {<<u, n>>}
  <2>1. ASSUME NEW w \in Units, NEW m
        PROVE  (m \in DOMAIN attempts'[w] /\ attempts'[w][m].state = "checking_stock")
               <=> (/\ m \in DOMAIN attempts[w] /\ attempts[w][m].state = "checking_stock"
                    /\ <<w, m>> # <<u, n>>)
    <3>1. CASE w # u
      BY <1>11, <3>1
    <3>2. CASE w = u /\ m = n
      BY <1>3, <1>7, <1>12, <3>2
    <3>3. CASE w = u /\ m # n /\ m \in DOMAIN attempts[u]
      BY <1>7, <1>12, <3>3
    <3>4. CASE w = u /\ m \notin DOMAIN attempts[u]
      BY <1>7, <1>12, <3>4, AttemptFacts
    <3>5. QED
      BY <3>1, <3>2, <3>3, <3>4
  <2>2. ASSUME NEW x \in Checks' PROVE x \in Checks \ {<<u, n>>}
    BY <2>1, <2>2 DEF Checks
  <2>3. ASSUME NEW x \in Checks \ {<<u, n>>} PROVE x \in Checks'
    <3>1. PICK w \in Units : \E m \in DOMAIN attempts[w] :
            x = <<w, m>> /\ attempts[w][m].state = "checking_stock"
      BY <2>3 DEF Checks
    <3>2. PICK m \in DOMAIN attempts[w] : x = <<w, m>> /\ attempts[w][m].state = "checking_stock"
      BY <3>1
    <3>3. m \in DOMAIN attempts'[w] /\ attempts'[w][m].state = "checking_stock"
      BY <2>1, <2>3, <3>2
    <3>4. QED
      BY <3>2, <3>3 DEF Checks
  <2>4. QED
    BY <2>2, <2>3
<1>16. QueueSound'
  BY <1>1, <1>15, QueueForgets DEF StockInv
<1>17. QED
  BY <1>14, <1>16 DEF StockInv

\* An order that is charged as a whole has no attempts, so none of them is charged twice.
LEMMA SoldStock ==
  ASSUME KitchenInv, StockInv, NEW o \in Orders, SaleDeducts(o), UNCHANGED <<attempts, queue>>
  PROVE  StockInv'
<1>1. /\ ~HasUnits(o) /\ o \notin sale /\ sale' = sale \cup {o}
      /\ Cardinality(KitchenUnits(o)) <= shelf /\ shelf' = shelf - Cardinality(KitchenUnits(o))
  BY DEF SaleDeducts
<1>2. SupplySound'
  <2>1. ASSUME NEW w \in Units, NEW n \in DOMAIN attempts[w]
        PROVE  Supply(w, n, attempts[w][n], sale')
    <3>1. OrderOf[w] # o
      BY <1>1 DEF HasUnits, UnitsOf
    <3>2. Supply(w, n, attempts[w][n], sale)
      BY DEF StockInv, SupplySound
    <3>3. QED
      BY <1>1, <3>1, <3>2 DEF Supply
  <2>2. QED
    BY <2>1 DEF SupplySound
<1>3. Consumed' = Consumed
  BY DEF Consumed
<1>4. SoldUnits' = SoldUnits \cup KitchenUnits(o) /\ SoldUnits \cap KitchenUnits(o) = {}
  BY <1>1 DEF SoldUnits, KitchenUnits, UnitsOf
<1>5. IsFiniteSet(SoldUnits) /\ IsFiniteSet(KitchenUnits(o))
  BY KitchenAssumption, FS_Subset DEF SoldUnits, KitchenUnits, UnitsOf
<1>6. Cardinality(SoldUnits') = Cardinality(SoldUnits) + Cardinality(KitchenUnits(o))
  BY <1>4, <1>5, FS_Union, FS_EmptySet, FS_CardinalityType
<1>7. /\ Cardinality(Consumed) \in Nat /\ Cardinality(SoldUnits) \in Nat /\ shelf \in Nat
      /\ Cardinality(KitchenUnits(o)) \in Nat
  BY <1>5, FS_CardinalityType, Parts DEF Balanced, StockInv, RestTyped
<1>8. Balanced'
  BY <1>1, <1>3, <1>6, <1>7 DEF Balanced, StockInv
<1>9. QueueSound'
  <2>1. Checks' = Checks
    BY DEF Checks
  <2>2. QED
    BY <2>1 DEF StockInv, QueueSound, StrictOrder, queue
<1>10. QED
  BY <1>2, <1>8, <1>9 DEF StockInv

\* Of the checks that come to the shelf, those that find something there.
Taken(on) == { x \in Claims(on) : Cardinality(ServedUpTo(x, on)) <= shelf }

LEMMA PendingFacts ==
  ASSUME KitchenInv, NEW x \in Pending
  PROVE  /\ x = <<x[1], x[2]>> /\ x \in Checks
         /\ x[1] \in Units \ Drinks /\ x[2] \in DOMAIN attempts[x[1]]
         /\ attempts[x[1]][x[2]].state = "checking_stock"
         /\ attempts[x[1]][x[2]] \in Attempt
<1>1. /\ x \in Checks /\ x[1] \in Units \ Drinks /\ x[2] \in DOMAIN attempts[x[1]]
      /\ attempts[x[1]][x[2]].state = "checking_stock" /\ x \in Units \X Nat
  BY ChecksSound DEF Pending
<1>2. attempts[x[1]] \in Seq(Attempt)
  BY <1>1, Parts
<1>3. QED
  BY <1>1, <1>2

LEMMA TakenFacts ==
  ASSUME KitchenInv, StockInv, NEW on
  PROVE  /\ IsFiniteSet(Taken(on))
         /\ Cardinality(Taken(on)) =
              IF Cardinality(Claims(on)) <= shelf THEN Cardinality(Claims(on)) ELSE shelf
         /\ Cardinality(Claims(on)) \in Nat
<1>. DEFINE S == Claims(on)
<1>1. S \subseteq Checks
  BY DEF Claims, Pending
<1>2. IsFiniteSet(S) /\ Cardinality(S) \in Nat
  BY <1>1, ChecksSound, FS_Subset, ClaimsFinite
<1>3. StrictOrder(S, ahead)
  BY <1>1 DEF StockInv, QueueSound, StrictOrder
<1>4. \A x \in S : ServedUpTo(x, on) = UpTo(S, ahead, x)
  BY DEF ServedUpTo, UpTo
<1>5. Taken(on) = { x \in S : Cardinality(UpTo(S, ahead, x)) <= shelf }
  BY <1>4 DEF Taken
<1>6. shelf \in Nat
  BY Parts DEF RestTyped
<1>. HIDE DEF S
<1>7. QED
  BY <1>2, <1>3, <1>5, <1>6, FirstPlaces DEF S

\* What a decision makes of a check.
LEMMA DecidedSupply ==
  ASSUME KitchenInv, StockInv, NEW on \in SUBSET Pending, NEW x \in Pending
  PROVE  LET a == Decided(x, on)
         IN  /\ a.lines => x \in Taken(on)
             /\ x \in Taken(on) => a.lines
             /\ Supply(x[1], x[2], a, sale)
             /\ a.state \in {"assembling", "aguardando_analise"}
<1>. DEFINE old == attempts[x[1]][x[2]]
            a == Decided(x, on)
            on1 == x \in on
            s == Supplied(x[1], x[2], "assembling", on1)
            t == To(x[1], x[2], "aguardando_analise")
<1>1. /\ x[1] \in Units \ Drinks /\ x[2] \in DOMAIN attempts[x[1]]
      /\ old.state = "checking_stock" /\ old \in Attempt
  BY PendingFacts
<1>2. Supply(x[1], x[2], old, sale)
  BY <1>1 DEF StockInv, SupplySound
<1>3. old.mode = "none" /\ ~old.lines
  BY <1>1, <1>2 DEF Supply
<1>4. Takes(x[1], x[2], on1) => on1 /\ ~Covered(x[1], x[2])
  BY DEF Takes
<1>5. /\ s.state = "assembling"
      /\ s.lines => Takes(x[1], x[2], on1)
      /\ Takes(x[1], x[2], on1) => s.lines
      /\ s.lines => s.mode = "attempts"
      /\ s.mode = "attempts" => s.lines
  BY <1>3 DEF Supplied, Takes
<1>6. t.lines = old.lines /\ t.mode = "none" /\ t.state = "aguardando_analise"
  BY <1>1, <1>3 DEF To, Attempt
<1>7. a = IF Granted(x, on) THEN s ELSE t
  BY DEF Decided
<1>8. x \in Claims(on) => InKitchen(x[1]) /\ Takes(x[1], x[2], on1)
  BY DEF Claims
<1>9. InKitchen(x[1]) /\ Takes(x[1], x[2], on1) => x \in Claims(on)
  BY DEF Claims
<1>. HIDE DEF old, a, on1, s, t
<1>10. CASE Granted(x, on)
  <2>1. a = s /\ InKitchen(x[1])
    BY <1>7, <1>10 DEF Granted
  <2>2. a.lines => x \in Taken(on)
    BY <1>5, <1>9, <1>10, <2>1 DEF Granted, Taken
  <2>3. x \in Taken(on) => a.lines
    BY <1>5, <1>8, <2>1 DEF Taken
  <2>4. Supply(x[1], x[2], a, sale)
    BY <1>1, <1>4, <1>5, <2>1 DEF Supply, Late, Covered
  <2>5. QED
    BY <1>5, <2>1, <2>2, <2>3, <2>4 DEF a
<1>11. CASE ~Granted(x, on)
  <2>1. a = t
    BY <1>7, <1>11
  <2>2. x \notin Taken(on)
    BY <1>8, <1>11 DEF Granted, Taken
  <2>3. Supply(x[1], x[2], a, sale)
    BY <1>1, <1>3, <1>6, <2>1 DEF Supply, Late
  <2>4. QED
    BY <1>3, <1>6, <2>1, <2>2, <2>3 DEF a
<1>12. QED
  BY <1>10, <1>11

\* The rows after a confirmation.
LEMMA ConfirmedRows ==
  ASSUME KitchenInv, NEW on,
         attempts' = [ u \in Units |-> [ n \in DOMAIN attempts[u] |->
                        IF <<u, n>> \in Pending THEN Decided(<<u, n>>, on)
                        ELSE attempts[u][n] ] ]
  PROVE  /\ \A w \in Units : DOMAIN attempts'[w] = DOMAIN attempts[w]
         /\ \A w \in Units : \A n \in DOMAIN attempts[w] :
              /\ <<w, n>> \in Pending => attempts'[w][n] = Decided(<<w, n>>, on)
              /\ <<w, n>> \notin Pending => attempts'[w][n] = attempts[w][n]
OBVIOUS

LEMMA ChecksLater ==
  ASSUME NEW x \in Checks'
  PROVE  \E w \in Units : \E m \in DOMAIN attempts'[w] :
           x = <<w, m>> /\ attempts'[w][m].state = "checking_stock"
BY DEF Checks

LEMMA ConfirmedChecks ==
  ASSUME KitchenInv, StockInv, NEW on \in SUBSET Pending,
         attempts' = [ u \in Units |-> [ n \in DOMAIN attempts[u] |->
                        IF <<u, n>> \in Pending THEN Decided(<<u, n>>, on)
                        ELSE attempts[u][n] ] ]
  PROVE  Checks' = Checks \ Pending
<1>1. ASSUME NEW w \in Units, NEW n
      PROVE  (n \in DOMAIN attempts'[w] /\ attempts'[w][n].state = "checking_stock")
             <=> (/\ n \in DOMAIN attempts[w] /\ attempts[w][n].state = "checking_stock"
                  /\ <<w, n>> \notin Pending)
  <2>1. DOMAIN attempts'[w] = DOMAIN attempts[w]
    BY ConfirmedRows
  <2>2. CASE n \in DOMAIN attempts[w] /\ <<w, n>> \in Pending
    <3>1. attempts'[w][n] = Decided(<<w, n>>, on)
      BY <2>2, ConfirmedRows
    <3>2. Decided(<<w, n>>, on).state # "checking_stock"
      BY <2>2, DecidedFacts
    <3>3. QED
      BY <2>2, <3>1, <3>2
  <2>3. CASE n \in DOMAIN attempts[w] /\ <<w, n>> \notin Pending
    <3>1. attempts'[w][n] = attempts[w][n]
      BY <2>3, ConfirmedRows
    <3>2. QED
      BY <2>1, <2>3, <3>1
  <2>4. QED
    BY <2>1, <2>2, <2>3
<1>2. ASSUME NEW x \in Checks' PROVE x \in Checks \ Pending
  <2>1. PICK w \in Units : \E m \in DOMAIN attempts'[w] :
          x = <<w, m>> /\ attempts'[w][m].state = "checking_stock"
    BY <1>2, ChecksLater
  <2>2. PICK m \in DOMAIN attempts'[w] : x = <<w, m>> /\ attempts'[w][m].state = "checking_stock"
    BY <2>1
  <2>3. /\ m \in DOMAIN attempts[w] /\ attempts[w][m].state = "checking_stock"
        /\ <<w, m>> \notin Pending
    BY <1>1, <2>2
  <2>4. QED
    BY <2>2, <2>3 DEF Checks
<1>3. ASSUME NEW x \in Checks \ Pending PROVE x \in Checks'
  <2>1. PICK w \in Units : \E m \in DOMAIN attempts[w] :
          x = <<w, m>> /\ attempts[w][m].state = "checking_stock"
    BY <1>3 DEF Checks
  <2>2. PICK m \in DOMAIN attempts[w] : x = <<w, m>> /\ attempts[w][m].state = "checking_stock"
    BY <2>1
  <2>3. m \in DOMAIN attempts'[w] /\ attempts'[w][m].state = "checking_stock"
    BY <1>1, <1>3, <2>2
  <2>4. QED
    BY <2>2, <2>3 DEF Checks
<1>4. QED
  BY <1>2, <1>3

LEMMA ConfirmedCharges ==
  ASSUME KitchenInv, StockInv, NEW on \in SUBSET Pending,
         attempts' = [ u \in Units |-> [ n \in DOMAIN attempts[u] |->
                        IF <<u, n>> \in Pending THEN Decided(<<u, n>>, on)
                        ELSE attempts[u][n] ] ]
  PROVE  Consumed' = Consumed \cup Taken(on) /\ Consumed \cap Taken(on) = {}
<1>1. Taken(on) \subseteq Pending
  BY DEF Taken, Claims
<1>2. ASSUME NEW x \in Taken(on)
      PROVE  x \notin Charged(attempts) /\ x \in Charged(attempts')
  <2>1. /\ x = <<x[1], x[2]>> /\ x \in Pending /\ x[1] \in Units \ Drinks
        /\ x[2] \in DOMAIN attempts[x[1]] /\ attempts[x[1]][x[2]].state = "checking_stock"
    BY <1>1, PendingFacts
  <2>2. Supply(x[1], x[2], attempts[x[1]][x[2]], sale)
    BY <2>1 DEF StockInv, SupplySound
  <2>3. ~attempts[x[1]][x[2]].lines
    BY <2>1, <2>2 DEF Supply
  <2>4. attempts'[x[1]][x[2]] = Decided(x, on) /\ x[2] \in DOMAIN attempts'[x[1]]
    BY <2>1, ConfirmedRows
  <2>5. Decided(x, on).lines
    BY <2>1, DecidedSupply
  <2>6. x \notin Charged(attempts)
    BY <2>3, ChargedPairs
  <2>7. x \in Charged(attempts')
    BY <2>1, <2>4, <2>5, ChargedFacts
  <2>8. QED
    BY <2>6, <2>7
<1>3. ASSUME NEW x \in Charged(attempts) PROVE x \in Charged(attempts')
  <2>1. /\ x = <<x[1], x[2]>> /\ x[1] \in Units /\ x[2] \in DOMAIN attempts[x[1]]
        /\ attempts[x[1]][x[2]].lines
    BY ChargedPairs
  <2>2. x \notin Pending
    <3>1. SUFFICES ASSUME x \in Pending PROVE FALSE
      OBVIOUS
    <3>2. x[1] \notin Drinks /\ attempts[x[1]][x[2]].state = "checking_stock"
      BY <3>1, PendingFacts
    <3>3. Supply(x[1], x[2], attempts[x[1]][x[2]], sale)
      BY <2>1 DEF StockInv, SupplySound
    <3>4. QED
      BY <2>1, <3>2, <3>3 DEF Supply
  <2>3. x[2] \in DOMAIN attempts'[x[1]] /\ attempts'[x[1]][x[2]] = attempts[x[1]][x[2]]
    BY <2>1, <2>2, ConfirmedRows
  <2>4. QED
    BY <2>1, <2>3, ChargedFacts
<1>4. ASSUME NEW x \in Charged(attempts') PROVE x \in Charged(attempts) \cup Taken(on)
  <2>1. /\ x = <<x[1], x[2]>> /\ x[1] \in Units /\ x[2] \in DOMAIN attempts'[x[1]]
        /\ attempts'[x[1]][x[2]].lines
    BY ChargedPairs
  <2>2. x[2] \in DOMAIN attempts[x[1]]
    BY <2>1, ConfirmedRows
  <2>3. CASE x \in Pending
    <3>1. attempts'[x[1]][x[2]] = Decided(x, on)
      BY <2>1, <2>2, <2>3, ConfirmedRows
    <3>2. QED
      BY <2>1, <2>3, <3>1, DecidedSupply
  <2>4. CASE x \notin Pending
    <3>1. attempts'[x[1]][x[2]] = attempts[x[1]][x[2]]
      BY <2>1, <2>2, <2>4, ConfirmedRows
    <3>2. QED
      BY <2>1, <2>2, <3>1, ChargedFacts
  <2>5. QED
    BY <2>3, <2>4
<1>5. QED
  BY <1>2, <1>3, <1>4, ChargedIsConsumed

LEMMA ConfirmedStock ==
  ASSUME KitchenInv, StockInv, ConfirmStock
  PROVE  StockInv'
<1>1. PICK on \in SUBSET Pending :
        /\ attempts' = [ u \in Units |-> [ n \in DOMAIN attempts[u] |->
                          IF <<u, n>> \in Pending THEN Decided(<<u, n>>, on)
                          ELSE attempts[u][n] ] ]
        /\ shelf' = IF Cardinality(Claims(on)) <= shelf
                    THEN shelf - Cardinality(Claims(on)) ELSE 0
  BY DEF ConfirmStock
<1>2. Forget(Pending) /\ sale' = sale
  BY DEF ConfirmStock
<1>3. QueueSound'
  BY <1>1, <1>2, ConfirmedChecks, QueueForgets DEF StockInv
<1>4. ASSUME NEW w \in Units, NEW n \in DOMAIN attempts'[w]
      PROVE  Supply(w, n, attempts'[w][n], sale)
  <2>1. n \in DOMAIN attempts[w]
    BY <1>1, ConfirmedRows
  <2>2. CASE <<w, n>> \in Pending
    <3>1. attempts'[w][n] = Decided(<<w, n>>, on)
      BY <1>1, <2>1, <2>2, ConfirmedRows
    <3>. DEFINE x == <<w, n>>
    <3>2. x[1] = w /\ x[2] = n
      OBVIOUS
    <3>3. Supply(x[1], x[2], Decided(x, on), sale)
      BY <2>2, DecidedSupply
    <3>4. QED
      BY <3>1, <3>2, <3>3
  <2>3. CASE <<w, n>> \notin Pending
    <3>1. attempts'[w][n] = attempts[w][n]
      BY <1>1, <2>1, <2>3, ConfirmedRows
    <3>2. QED
      BY <2>1, <3>1 DEF StockInv, SupplySound
  <2>4. QED
    BY <2>2, <2>3
<1>5. SupplySound'
  BY <1>2, <1>4 DEF SupplySound
<1>6. Consumed' = Consumed \cup Taken(on) /\ Consumed \cap Taken(on) = {}
  BY <1>1, ConfirmedCharges
<1>7. IsFiniteSet(Consumed) /\ IsFiniteSet(Taken(on))
  BY TakenFacts DEF StockInv, Balanced
<1>8. /\ IsFiniteSet(Consumed')
      /\ Cardinality(Consumed') = Cardinality(Consumed) + Cardinality(Taken(on))
  <2>. DEFINE A == Consumed
              B == Taken(on)
  <2>1. IsFiniteSet(A) /\ IsFiniteSet(B) /\ Cardinality(A) \in Nat /\ Cardinality(B) \in Nat
    BY <1>7, FS_CardinalityType
  <2>2. Cardinality(A \cap B) = 0
    BY <1>6, FS_EmptySet
  <2>. HIDE DEF A, B
  <2>3. /\ IsFiniteSet(A \cup B)
        /\ Cardinality(A \cup B) = Cardinality(A) + Cardinality(B) - Cardinality(A \cap B)
    BY <2>1, FS_Union
  <2>4. Cardinality(A \cup B) = Cardinality(A) + Cardinality(B)
    BY <2>1, <2>2, <2>3
  <2>5. QED
    BY <1>6, <2>3, <2>4 DEF A, B
<1>9. SoldUnits' = SoldUnits
  BY <1>2 DEF SoldUnits
<1>10. /\ Cardinality(Consumed) \in Nat /\ Cardinality(SoldUnits) \in Nat /\ shelf \in Nat
       /\ Cardinality(Taken(on)) \in Nat
  BY <1>7, KitchenAssumption, FS_Subset, FS_CardinalityType, Parts DEF SoldUnits, RestTyped
<1>11. shelf' = shelf - Cardinality(Taken(on))
  BY <1>1, <1>10, TakenFacts
<1>12. Balanced'
  BY <1>8, <1>9, <1>10, <1>11 DEF StockInv, Balanced
<1>13. QED
  BY <1>3, <1>5, <1>12 DEF StockInv

-----------------------------------------------------------------------------
(* The steps together.                                                     *)

LEMMA RowsStay ==
  ASSUME KitchenInv, StockInv, UNCHANGED <<attempts, stock, queue>>
  PROVE  StockInv'
BY FreeSame, FreeStep DEF StockInv

LEMMA StockStep ==
  ASSUME KitchenInv, StockInv, [Next]_vars
  PROVE  StockInv'
<1>1. ASSUME NEW u \in Units, UnitStep(u) PROVE StockInv'
  <2>1. ASSUME NEW n, StartOven(u, n) \/ CompleteOven(u, n) \/ Check(u, n) \/ ReturnToService(u, n)
        PROVE  StockInv'
    <3>1. \/ \E from \in Late, to \in Late : Command(u, n, from, to)
          \/ ReturnToService(u, n)
      BY <2>1 DEF StartOven, CompleteOven, Check, Late
    <3>2. QED
      BY <3>1, MovedStock
  <2>2. CASE CompleteDispatchUnit(u)
    BY <2>2, MarkedStock DEF CompleteDispatchUnit
  <2>3. QED
    BY <1>1, <2>1, <2>2, StartedStock, AssembledStock, RemadeStock DEF UnitStep
<1>2. ASSUME NEW o \in Orders, OrderStep(o) PROVE StockInv'
  <2>1. CASE InitializeOrder(o) \/ StartPreparation(o)
    BY <2>1, InitializedStock DEF InitializeOrder, StartPreparation
  <2>2. CASE MarkReady(o) \/ AssignDriver(o) \/ CompletePickup(o)
    BY <2>2, MarkedStock DEF MarkReady, AssignDriver, CompletePickup
  <2>3. CASE PrepareUnpaid(o)
    BY <2>3, SoldStock, RowsStay DEF PrepareUnpaid, work
  <2>4. CASE \/ ReleaseRead(o) \/ ReleaseCommit(o) \/ Pay(o) \/ LeaveRead(o) \/ LeaveCommit(o)
             \/ Ends(o) \/ Archive(o)
    BY <2>4, RowsStay
       DEF ReleaseRead, ReleaseCommit, Pay, LeaveRead, LeaveCommit, Ends, Archive, work
  <2>5. QED
    BY <1>2, <2>1, <2>2, <2>3, <2>4, ReturnedStock DEF OrderStep
<1>3. CASE UNCHANGED vars
  BY <1>3, RowsStay DEF vars, work
<1>4. QED
  BY <1>1, <1>2, <1>3, WaitsStock, ConfirmedStock DEF Next

LEMMA StockInit ==
  Init => StockInv
<1>. SUFFICES ASSUME Init PROVE StockInv
  OBVIOUS
<1>1. PICK early \in SUBSET Orders :
        attempts = [ u \in Units |->
                      IF OrderOf[u] \notin early THEN <<>>
                      ELSE IF u \in Drinks THEN <<Served>> ELSE <<Begun>> ]
  BY DEF Init
<1>2. ahead = {} /\ waited = {} /\ shelf = StockSize /\ sale = {}
  BY DEF Init
<1>3. ASSUME NEW w \in Units, NEW n \in DOMAIN attempts[w]
      PROVE  /\ ~attempts[w][n].lines /\ attempts[w][n].mode = "none"
             /\ attempts[w][n].state # "checking_stock"
             /\ w \notin Drinks => attempts[w][n].state = "assembling"
  <2>1. CASE OrderOf[w] \notin early
    BY <1>1, <2>1
  <2>2. CASE OrderOf[w] \in early /\ w \in Drinks
    <3>1. attempts[w] = <<Served>>
      BY <1>1, <2>2
    <3>2. n = 1 /\ attempts[w][n] = Served
      BY <3>1
    <3>3. QED
      BY <2>2, <3>2 DEF Served, Queued
  <2>3. CASE OrderOf[w] \in early /\ w \notin Drinks
    <3>1. attempts[w] = <<Begun>>
      BY <1>1, <2>3
    <3>2. n = 1 /\ attempts[w][n] = Begun
      BY <3>1
    <3>3. QED
      BY <2>3, <3>2 DEF Begun, Queued
  <2>4. QED
    BY <2>1, <2>2, <2>3
<1>4. SupplySound
  BY <1>3 DEF SupplySound, Supply, Late
<1>5. Checks = {}
  BY <1>3 DEF Checks
<1>6. QueueSound
  BY <1>2, <1>5 DEF QueueSound, StrictOrder
<1>7. Charged(attempts) = {}
  BY <1>3, ChargedPairs
<1>8. Consumed = {} /\ SoldUnits = {}
  BY <1>2, <1>7, ChargedIsConsumed DEF SoldUnits
<1>9. Balanced
  BY <1>2, <1>8, FS_EmptySet, KitchenAssumption DEF Balanced
<1>10. QED
  BY <1>4, <1>6, <1>9 DEF StockInv

\* The inductive invariant of the ingredients and of the queue for them.
THEOREM StockInvariant == Spec => [](KitchenInv /\ StockInv)
<1>1. Init => KitchenInv /\ StockInv
  BY InitSound, StockInit
<1>2. KitchenInv /\ StockInv /\ [Next]_vars => (KitchenInv /\ StockInv)'
  BY InvStep, StockStep
<1>3. QED
  BY <1>1, <1>2, PTL DEF Spec

\* What is gone from the shelf is what the attempts and the sales say they took, and no
\* first attempt is charged beside its sale, however the commands, the remakes and the
\* batches of stock checks are interleaved.
THEOREM StockAccounted == Spec => []StockFollowsAttempts
<1>1. KitchenInv /\ StockInv => StockFollowsAttempts
  <2>1. SUFFICES ASSUME KitchenInv, StockInv PROVE StockFollowsAttempts
    OBVIOUS
  <2>2. shelf + Cardinality(Consumed) + Cardinality(SoldUnits) = StockSize
    BY <2>1 DEF StockInv, Balanced
  <2>3. ASSUME NEW w \in Units \ Drinks, NEW n \in DOMAIN attempts[w]
        PROVE  LET a == attempts[w][n]
               IN  /\ a.lines <=> a.mode = "attempts"
                   /\ a.lines /\ n = 1 => OrderOf[w] \notin sale
                   /\ a.state \in {"assembled", "baking", "checking", "ready"} => a.mode # "none"
    <3>1. attempts[w][n] \in Attempt
      BY <2>1, Parts
    <3>2. Supply(w, n, attempts[w][n], sale)
      BY <2>1 DEF StockInv, SupplySound
    <3>3. attempts[w][n].lines \in BOOLEAN
      BY <3>1 DEF Attempt
    <3>4. QED
      BY <3>2, <3>3 DEF Supply, Late
  <2>4. QED
    BY <2>2, <2>3 DEF StockFollowsAttempts
<1>2. QED
  BY <1>1, StockInvariant, PTL

-----------------------------------------------------------------------------
(* Nobody gets ahead in the queue.                                         *)

Untouched(x) == attempts'[x[1]][x[2]] = attempts[x[1]][x[2]]

LEMMA WriteElsewhere ==
  ASSUME KitchenInv, NEW x \in Checks, NEW u \in Units, NEW n \in DOMAIN attempts[u], NEW a,
         Write(u, n, a), attempts[u][n].state # "checking_stock"
  PROVE  Untouched(x)
<1>1. x[1] \in Units /\ x[2] \in DOMAIN attempts[x[1]]
      /\ attempts[x[1]][x[2]].state = "checking_stock"
  BY ChecksSound
<1>2. attempts' = [attempts EXCEPT ![u] = [attempts[u] EXCEPT ![n] = a]]
  BY Parts DEF Write
<1>3. x[1] # u \/ x[2] # n
  BY <1>1
<1>4. QED
  BY <1>1, <1>2, <1>3, Parts DEF Untouched

\* A check that runs is decided by confirm_stock, or given up with its attempt.
LEMMA OnlyConfirmDecides ==
  ASSUME KitchenInv, [Next]_vars, ~ConfirmStock, NEW x \in Checks
  PROVE  attempts'[x[1]][x[2]].state \in {"checking_stock", "cancelled"}
<1>1. /\ x[1] \in Units \ Drinks /\ x[2] \in DOMAIN attempts[x[1]]
      /\ attempts[x[1]][x[2]].state = "checking_stock"
      /\ attempts[x[1]] \in Seq(Attempt) /\ attempts[x[1]] # <<>>
  BY ChecksSound, Parts
<1>2. SUFFICES ASSUME ~Untouched(x)
               PROVE  attempts'[x[1]][x[2]].state = "cancelled"
  BY <1>1 DEF Untouched
<1>3. ASSUME NEW u \in Units, UnitStep(u) PROVE attempts'[x[1]][x[2]].state = "cancelled"
  <2>1. ASSUME NEW n, StartStockCheck(u, n) \/ ReturnToService(u, n) \/ FinishAssembly(u, n)
                      \/ StartOven(u, n) \/ CompleteOven(u, n) \/ Check(u, n)
        PROVE  FALSE
    <3>1. PICK a : Write(u, n, a)
      BY <2>1 DEF StartStockCheck, ReturnToService, FinishAssembly, StartOven, CompleteOven,
                  Check, Command
    <3>2. n \in DOMAIN attempts[u] /\ attempts[u][n].state # "checking_stock"
      BY <2>1 DEF StartStockCheck, ReturnToService, FinishAssembly, StartOven, CompleteOven,
                  Check, Command, InState
    <3>3. QED
      BY <1>2, <3>1, <3>2, WriteElsewhere
  <2>2. ASSUME NEW n, Remake(u, n) PROVE attempts'[x[1]][x[2]].state = "cancelled"
    <3>. DEFINE given == [attempts[u] EXCEPT ![n].state = "cancelled"]
                c == [attempts[u][n] EXCEPT !.state = "cancelled"]
    <3>1. /\ attempts[u] \in Seq(Attempt) /\ n \in DOMAIN attempts[u]
          /\ attempts' = [attempts EXCEPT ![u] = Append(given, Queued)]
      BY <2>2, Parts DEF Remake
    <3>2. c \in Attempt /\ c.state = "cancelled" /\ given = [attempts[u] EXCEPT ![n] = c]
      <4>1. attempts[u][n] \in Attempt
        BY <3>1
      <4>2. QED
        BY <3>1, <4>1, AttemptFacts DEF AttemptStates
    <3>3. x[1] = u
      BY <1>1, <1>2, <3>1, Parts DEF Untouched
    <3>. HIDE DEF given, c
    <3>4. \A m \in DOMAIN attempts[u] :
            Append(given, Queued)[m] = IF m = n THEN c ELSE attempts[u][m]
      <4>1. given \in Seq(Attempt) /\ DOMAIN given = DOMAIN attempts[u]
            /\ \A m \in DOMAIN attempts[u] : given[m] = IF m = n THEN c ELSE attempts[u][m]
        BY <3>1, <3>2
      <4>2. \A m \in DOMAIN given : Append(given, Queued)[m] = given[m]
        BY <4>1, AttemptFacts
      <4>3. QED
        BY <4>1, <4>2
    <3>5. attempts'[u] = Append(given, Queued)
      BY <3>1, Parts
    <3>6. x[2] = n
      BY <1>1, <1>2, <3>3, <3>4, <3>5 DEF Untouched
    <3>7. QED
      BY <1>1, <3>2, <3>3, <3>4, <3>5, <3>6
  <2>3. CASE CompleteDispatchUnit(u)
    BY <1>1, <1>2, <2>3 DEF CompleteDispatchUnit, DrinksMarked, Untouched
  <2>4. QED
    BY <1>3, <2>1, <2>2, <2>3 DEF UnitStep
<1>4. ASSUME NEW o \in Orders, OrderStep(o) PROVE FALSE
  <2>1. CASE InitializeOrder(o) \/ StartPreparation(o)
    BY <1>1, <1>2, <2>1 DEF InitializeOrder, StartPreparation, InitializeUnits, WithUnits, Untouched
  <2>2. CASE MarkReady(o) \/ AssignDriver(o) \/ CompletePickup(o)
    BY <1>1, <1>2, <2>2 DEF MarkReady, AssignDriver, CompletePickup, DrinksMarked, Untouched
  <2>3. ASSUME NEW us, ReturnToKitchen(o, us) PROVE FALSE
    <3>1. attempts'[x[1]] = IF x[1] \in us THEN Append(attempts[x[1]], Queued) ELSE attempts[x[1]]
      BY <1>1, <2>3 DEF ReturnToKitchen
    <3>2. Append(attempts[x[1]], Queued)[x[2]] = attempts[x[1]][x[2]]
      BY <1>1, AttemptFacts
    <3>3. QED
      BY <1>2, <3>1, <3>2 DEF Untouched
  <2>4. CASE UNCHANGED attempts
    BY <1>2, <2>4 DEF Untouched
  <2>5. QED
    BY <1>4, <2>1, <2>2, <2>3, <2>4
       DEF OrderStep, PrepareUnpaid, ReleaseRead, ReleaseCommit, Pay, LeaveRead, LeaveCommit, Ends,
           Archive, work
<1>5. CASE Waits \/ UNCHANGED vars
  BY <1>2, <1>5 DEF Waits, vars, work, Untouched
<1>6. QED
  BY <1>3, <1>4, <1>5 DEF Next

\* When a check is decided, so are those that were asked for before it; and it takes
\* something only where they found what they came for.
LEMMA EarlierDecided ==
  ASSUME KitchenInv, StockInv, ConfirmStock, NEW x, NEW y, <<x, y>> \in ahead,
         OrderOf[x[1]] \notin archived,
         attempts'[y[1]][y[2]].state # "checking_stock"
  PROVE  /\ attempts'[x[1]][x[2]].state # "checking_stock"
         /\ attempts'[y[1]][y[2]].lines /\ InKitchen(x[1]) =>
              attempts'[x[1]][x[2]].mode # "none"
<1>1. PICK on \in SUBSET Pending :
        attempts' = [ u \in Units |-> [ n \in DOMAIN attempts[u] |->
                       IF <<u, n>> \in Pending THEN Decided(<<u, n>>, on)
                       ELSE attempts[u][n] ] ]
  BY DEF ConfirmStock
<1>2. x \in Checks /\ y \in Checks
  BY DEF StockInv, QueueSound
<1>3. ASSUME NEW z \in Checks
      PROVE  /\ z = <<z[1], z[2]>> /\ z[1] \in Units /\ z[2] \in DOMAIN attempts[z[1]]
             /\ z \in Pending => attempts'[z[1]][z[2]] = Decided(z, on)
             /\ z \notin Pending => attempts'[z[1]][z[2]].state = "checking_stock"
  <2>1. /\ z \in Units \X Nat /\ z[1] \in Units /\ z[2] \in DOMAIN attempts[z[1]]
        /\ attempts[z[1]][z[2]].state = "checking_stock"
    BY ChecksSound
  <2>2. z = <<z[1], z[2]>>
    BY <2>1
  <2>3. QED
    BY <1>1, <2>1, <2>2, ConfirmedRows
<1>4. y \in Pending
  BY <1>2, <1>3
<1>5. x \in Pending
  BY <1>2, <1>4 DEF Pending, StockInv, QueueSound
<1>6. attempts'[x[1]][x[2]] = Decided(x, on) /\ attempts'[y[1]][y[2]] = Decided(y, on)
  BY <1>2, <1>3, <1>4, <1>5
<1>7. Decided(x, on).state # "checking_stock"
  BY <1>5, DecidedSupply
<1>8. ASSUME Decided(y, on).lines, InKitchen(x[1]) PROVE Decided(x, on).mode # "none"
  <2>1. y \in Taken(on)
    BY <1>4, <1>8, DecidedSupply
  <2>2. Granted(x, on)
    <3>1. SUFFICES ASSUME x \in Claims(on) PROVE Cardinality(ServedUpTo(x, on)) <= shelf
      BY <1>8 DEF Granted
    <3>2. Claims(on) \subseteq Checks /\ y \in Claims(on)
      BY <2>1 DEF Claims, Pending, Taken
    <3>3. IsFiniteSet(Claims(on)) /\ StrictOrder(Claims(on), ahead)
      BY <3>2, ChecksSound, FS_Subset DEF StockInv, QueueSound, StrictOrder
    <3>4. /\ ServedUpTo(x, on) = UpTo(Claims(on), ahead, x)
          /\ ServedUpTo(y, on) = UpTo(Claims(on), ahead, y)
      BY DEF ServedUpTo, UpTo
    <3>5. Cardinality(ServedUpTo(x, on)) <= Cardinality(ServedUpTo(y, on))
      BY <3>1, <3>2, <3>3, <3>4, EarlierIsLower
    <3>6. Cardinality(ServedUpTo(y, on)) <= shelf
      BY <2>1 DEF Taken
    <3>7. /\ Cardinality(ServedUpTo(x, on)) \in Nat /\ Cardinality(ServedUpTo(y, on)) \in Nat
          /\ shelf \in Nat
      BY <3>3, FS_Subset, FS_CardinalityType, Parts DEF ServedUpTo, RestTyped
    <3>8. QED
      BY <3>5, <3>6, <3>7
  <2>3. QED
    BY <2>2 DEF Decided, Supplied
<1>9. QED
  BY <1>6, <1>7, <1>8

\* In a batch of stock checks nobody takes what someone who asked before him needs,
\* whatever is started, waited for, remade or archived between the requests.
THEOREM NobodyOvertakes == Spec => NoOvertaking
<1>1. ASSUME KitchenInv, StockInv, [Next]_vars, NEW p \in ahead,
             OrderOf[p[1][1]] \notin archived,
             attempts'[p[2][1]][p[2][2]].state \in {"assembling", "aguardando_analise"}
      PROVE  /\ attempts'[p[1][1]][p[1][2]].state # "checking_stock"
             /\ attempts'[p[2][1]][p[2][2]].lines /\ InKitchen(p[1][1])
                  => attempts'[p[1][1]][p[1][2]].mode # "none"
  <2>1. p = <<p[1], p[2]>> /\ p[2] \in Checks
    BY <1>1 DEF StockInv, QueueSound
  <2>2. ConfirmStock
    BY <1>1, <2>1, OnlyConfirmDecides
  <2>. DEFINE x == p[1]
              y == p[2]
  <2>3. <<x, y>> \in ahead
    BY <2>1
  <2>. HIDE DEF x, y
  <2>4. OrderOf[x[1]] \notin archived /\ attempts'[y[1]][y[2]].state # "checking_stock"
    BY <1>1 DEF x, y
  <2>5. /\ attempts'[x[1]][x[2]].state # "checking_stock"
        /\ attempts'[y[1]][y[2]].lines /\ InKitchen(x[1]) =>
             attempts'[x[1]][x[2]].mode # "none"
    BY <1>1, <2>2, <2>3, <2>4, EarlierDecided
  <2>6. QED
    BY <2>5 DEF x, y
<1>2. KitchenInv /\ StockInv /\ [Next]_vars =>
        [\A p \in ahead :
           LET first == p[1]
               second == p[2]
               after(x) == attempts'[x[1]][x[2]]
           IN OrderOf[first[1]] \notin archived
              /\ after(second).state \in {"assembling", "aguardando_analise"}
              => /\ after(first).state # "checking_stock"
                 /\ after(second).lines /\ InKitchen(first[1]) => after(first).mode # "none"]_vars
  BY <1>1
<1>3. QED
  BY <1>2, StockInvariant, PTL DEF Spec, NoOvertaking
=============================================================================
