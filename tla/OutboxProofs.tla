---------------------------- MODULE OutboxProofs ----------------------------
(***************************************************************************)
(* Theorems about WhatsAppOutbox: how often a message is sent, and what    *)
(* the panel says of it, for any number of messages, cycles and troubles.  *)
(***************************************************************************)
EXTENDS WhatsAppOutbox, TLAPS

(***************************************************************************)
(* The inductive invariant follows one message at a time: r is its row, i  *)
(* its item, o what the cycle that has it locked made of it ("skip": no    *)
(* cycle has it), seen the status that cycle loaded, and t, u, d, a how    *)
(* often it was taken, unheard, undone and asked for.                      *)
(***************************************************************************)

\* The copies sent have a cause, and an attempt each.
Counted(i, o, t, u, d, a) ==
  /\ t <= u + d + a + (IF i.status = "sent" \/ o = "sent" THEN 1 ELSE 0)
  /\ t <= i.attempts + d + (IF o \in Accepted THEN 1 ELSE 0)

\* What says that the message was sent is right.
Honest(r, i, o, t) ==
  i.status = "sent" \/ r.status \in {"sent", "delivered"} \/ r.pid
    \/ o \in {"sent", "unheard", "already"} => t >= 1

\* A cycle works on items that may be tried, and turns away what has none.
Workable(i, o) ==
  /\ i.status = "none" => i.attempts = 0
  /\ o \notin {"skip", "turned"} =>
       i.status \in {"none", "pending", "failed"} /\ i.attempts < MaxAttempts
  /\ o = "turned" => i.status = "none"

\* Without a retry by hand the row and its item agree, and so does the cycle.
Agree(r, i, o, seen) ==
  /\ i.status = "none" => ~r.pid /\ r.status \in {"new", "queued", "failed", "blocked_review"}
  /\ i.status \in {"pending", "failed"} => ~r.pid /\ r.status = "queued"
  /\ i.status = "dead" => ~r.pid /\ r.status = "failed"
  /\ i.status = "sent" => r.status \in {"sent", "delivered", "failed"}
  /\ o # "skip" => r.status = "queued"
  /\ o \notin {"skip", "todo"} => seen = "queued" /\ o # "already"

Fits(r, i, o, seen, t, u, d, a) ==
  /\ Counted(i, o, t, u, d, a)
  /\ Honest(r, i, o, t)
  /\ Workable(i, o)
  /\ a = 0 => Agree(r, i, o, seen)

FitsIn(m, o, seen) == Fits(msg[m], item[m], o, seen, took[m], unheard[m], undone[m], asked[m])

OneHolder ==
  \A m \in Messages : \A v, w \in Workers :
    tx[v].out[m] # "skip" /\ tx[w].out[m] # "skip" => v = w

MessagesFit ==
  \A m \in Messages :
    /\ Free(m) => FitsIn(m, "skip", "new")
    /\ \A w \in Workers : tx[w].out[m] # "skip" => FitsIn(m, tx[w].out[m], tx[w].seen[m])

CyclesFit ==
  \A w \in Workers :
    /\ tx[w].view = Unread => tx[w].dirty = {}
    /\ ~tx[w].busy => \A m \in Messages : tx[w].out[m] = "skip"

OutboxInv == TypeOK /\ OneHolder /\ MessagesFit /\ CyclesFit

-----------------------------------------------------------------------------
(* Types of what the operations compute.                                   *)

\* A session's view of the provider, before and after a pause that is over.
LEMMA ViewTyped ==
  ASSUME TypeOK, NEW w \in Workers
  PROVE  View(w) \in ProviderRow /\ Rested(View(w)) \in ProviderRow
<1>1. provider \in ProviderRow /\ tx[w].view \in ProviderRow \cup {Unread}
  BY DEF TypeOK, Cycle
<1>2. View(w) \in ProviderRow
  BY <1>1 DEF View
<1>3. Active \in ProviderRow
  BY OutboxAssumption, SMT DEF Active, ProviderRow
<1> QED
  BY <1>2, <1>3 DEF Rested

\* A failure that is recorded leaves a row.
LEMMA FailedTyped ==
  ASSUME NEW v \in ProviderRow
  PROVE  Failed(v) \in ProviderRow
BY OutboxAssumption, SMT DEF Failed, ProviderRow

\* _process_item and _fail_item leave an item's row.
LEMMA ItemTyped ==
  ASSUME TypeOK, NEW m \in Messages, NEW o \in Outcome,
         o \notin {"skip", "turned"} => item[m].attempts < MaxAttempts
  PROVE  ItemAfter(m, o) \in ItemRow
<1>1. item[m] \in ItemRow
  BY DEF TypeOK
<1>2. Tries(m, o) \in 0..MaxAttempts \/ o \in {"skip", "turned"}
  BY <1>1, OutboxAssumption, SMT DEF Tries, ItemRow, Outcome
<1> QED
  BY <1>1, <1>2, SMT DEF ItemAfter, ItemRow

\* ... and a message's row of the same kind.
LEMMA MessageTyped ==
  ASSUME TypeOK, NEW m \in Messages, NEW o \in Outcome, NEW seen \in MessageStatus
  PROVE  /\ MessageAfter(m, o, seen) \in MessageRow
         /\ MessageAfter(m, o, seen).status =
              IF StatusAfter(m, o, seen) = seen THEN msg[m].status ELSE StatusAfter(m, o, seen)
         /\ MessageAfter(m, o, seen).pid = (msg[m].pid \/ o = "sent")
<1>1. msg[m] \in MessageRow
  BY DEF TypeOK
<1>2. StatusAfter(m, o, seen) \in MessageStatus
  BY SMT DEF StatusAfter, TurnedTo, MessageStatus
<1> DEFINE status == IF StatusAfter(m, o, seen) = seen THEN msg[m].status ELSE StatusAfter(m, o, seen)
           pid    == msg[m].pid \/ o = "sent"
<1>3. status \in MessageStatus /\ pid \in BOOLEAN
  BY <1>1, <1>2 DEF MessageRow
<1>4. MessageAfter(m, o, seen) = [msg[m] EXCEPT !.status = status, !.pid = pid]
  BY <1>1 DEF MessageAfter, MessageRow
<1> HIDE DEF status, pid
<1>5. /\ MessageAfter(m, o, seen) \in MessageRow
      /\ MessageAfter(m, o, seen).status = status /\ MessageAfter(m, o, seen).pid = pid
  BY <1>1, <1>3, <1>4 DEF MessageRow
<1> QED
  BY <1>5 DEF status, pid

\* What a cycle writes of the provider is a row.
LEMMA ProviderTyped ==
  ASSUME TypeOK, CyclesFit, NEW w \in Workers
  PROVE  ProviderAfter(tx[w]) \in ProviderRow
<1>1. /\ provider \in ProviderRow /\ tx[w] \in Cycle
      /\ tx[w].view = Unread => tx[w].dirty = {}
  BY DEF TypeOK, CyclesFit
<1>2. CASE tx[w].dirty = {}
  BY <1>1, <1>2, SMT DEF ProviderAfter, ProviderRow
<1>3. CASE tx[w].view \in ProviderRow
  BY <1>1, <1>3, SMT DEF ProviderAfter, ProviderRow
<1> QED
  BY <1>1, <1>2, <1>3 DEF Cycle

\* A cycle at rest.
LEMMA RestTyped == Rest \in Cycle /\ Rest.view = Unread /\ Rest.dirty = {} /\ ~Rest.busy
                   /\ \A m \in Messages : Rest.out[m] = "skip"
BY DEF Rest, Cycle, Outcome, MessageStatus

\* What a cycle that deals with one message leaves of its record.
LEMMA HandlesEffect ==
  ASSUME TypeOK, NEW w \in Workers, NEW m \in Messages,
         NEW o \in Outcome, NEW v \in ProviderRow, Handles(w, m, o, v)
  PROVE  /\ tx' \in [Workers -> Cycle]
         /\ \A x \in Workers : x # w => tx'[x] = tx[x]
         /\ tx'[w].busy = tx[w].busy /\ tx'[w].view = v
         /\ tx'[w].out = [tx[w].out EXCEPT ![m] = o]
         /\ tx'[w].seen = [tx[w].seen EXCEPT ![m] = msg[m].status]
<1> DEFINE D == tx[w].dirty \cup Changed(View(w), Rested(View(w))) \cup Changed(Rested(View(w)), v)
           O == [tx[w].out EXCEPT ![m] = o]
           S == [tx[w].seen EXCEPT ![m] = msg[m].status]
           T == [tx[w] EXCEPT !.out = O, !.seen = S, !.view = v, !.dirty = D]
<1>1. tx \in [Workers -> Cycle] /\ tx[w] \in Cycle /\ msg[m].status \in MessageStatus
  BY DEF TypeOK, MessageRow
<1>2. D \in SUBSET Columns
  BY <1>1 DEF Cycle, Changed
<1>3. O \in [Messages -> Outcome] /\ S \in [Messages -> MessageStatus]
  BY <1>1 DEF Cycle
<1>4. tx' = [tx EXCEPT ![w] = T]
  <2>1. tx' = [tx EXCEPT ![w] = [tx[w] EXCEPT !.out[m] = o, !.seen[m] = msg[m].status,
                                              !.view = v, !.dirty = D]]
    BY <1>1 DEF Handles
  <2>2. [tx[w] EXCEPT !.out[m] = o, !.seen[m] = msg[m].status, !.view = v, !.dirty = D] = T
    BY <1>1 DEF Cycle
  <2> QED
    BY <2>1, <2>2
<1> HIDE DEF D, O, S
<1>5. /\ T \in Cycle /\ T.busy = tx[w].busy /\ T.view = v /\ T.out = O /\ T.seen = S
  BY <1>1, <1>2, <1>3 DEF Cycle
<1> HIDE DEF T
<1>6. /\ tx' \in [Workers -> Cycle] /\ tx'[w] = T
      /\ \A x \in Workers : x # w => tx'[x] = tx[x]
  BY <1>1, <1>4, <1>5
<1> QED
  BY <1>5, <1>6 DEF O, S

-----------------------------------------------------------------------------
(* One message, before and after a step.                                   *)

\* A message that a cycle has still to deal with fits whatever comes of it.
LEMMA DealtWithFits ==
  ASSUME TypeOK, NEW r \in MessageRow, NEW i \in ItemRow, NEW s,
         NEW t \in Nat, NEW u \in Nat, NEW d \in Nat, NEW a \in Nat,
         Fits(r, i, "todo", s, t, u, d, a)
  PROVE  /\ \A o \in {"deferred", "silent", "refused"} : Fits(r, i, o, r.status, t, u, d, a)
         /\ r.pid => Fits(r, i, "already", r.status, t, u, d, a)
         /\ Fits(r, i, "sent", r.status, t + 1, u, d, a)
         /\ Fits(r, i, "unheard", r.status, t + 1, u + 1, d, a)
<1> USE DEF Fits, Counted, Honest, Workable, Agree, Accepted, MessageRow, ItemRow
<1>1. \A o \in {"deferred", "silent", "refused"} : Fits(r, i, o, r.status, t, u, d, a)
  BY SMT
<1>2. r.pid => Fits(r, i, "already", r.status, t, u, d, a)
  BY SMT
<1>3. Fits(r, i, "sent", r.status, t + 1, u, d, a)
  BY OutboxAssumption, SMT
<1>4. Fits(r, i, "unheard", r.status, t + 1, u + 1, d, a)
  BY OutboxAssumption, SMT
<1> QED
  BY <1>1, <1>2, <1>3, <1>4

\* What a cycle commits fits.
LEMMA CommittedFits ==
  ASSUME TypeOK, NEW m \in Messages, NEW o \in Outcome \ {"skip", "todo"},
         NEW s \in MessageStatus, FitsIn(m, o, s)
  PROVE  Fits(MessageAfter(m, o, s), ItemAfter(m, o), "skip", "new",
              took[m], unheard[m], undone[m], asked[m])
<1> DEFINE r == msg[m]
           i == item[m]
           R == MessageAfter(m, o, s)
           I == ItemAfter(m, o)
           t == took[m]
           u == unheard[m]
           d == undone[m]
           a == asked[m]
<1>1. /\ r \in MessageRow /\ i \in ItemRow
      /\ t \in Nat /\ u \in Nat /\ d \in Nat /\ a \in Nat
  BY DEF TypeOK
<1>2. Fits(r, i, o, s, t, u, d, a)
  BY DEF FitsIn
<1>3. /\ R.status = IF StatusAfter(m, o, s) = s THEN r.status ELSE StatusAfter(m, o, s)
      /\ R.pid = (r.pid \/ o = "sent")
  BY MessageTyped
<1>4. CASE o = "turned"
  <2>1. I = i /\ StatusAfter(m, o, s) \in {"failed", "blocked_review"} /\ R.pid = r.pid
    BY <1>1, <1>3, <1>4 DEF ItemAfter, StatusAfter, TurnedTo, MessageRow
  <2>2. R.status \in {r.status, "failed", "blocked_review"}
    BY <1>3, <2>1
  <2> HIDE DEF r, i, R, I, t, u, d, a
  <2>3. Fits(R, I, "skip", "new", t, u, d, a)
    BY <1>1, <1>2, <1>4, <2>1, <2>2, SMT
    DEF Fits, Counted, Honest, Workable, Agree, Accepted, MessageRow, ItemRow
  <2> QED
    BY <2>3 DEF R, I, t, u, d, a
<1>5. CASE o # "turned"
  <2>1. i.attempts \in 0..MaxAttempts /\ i.attempts < MaxAttempts
        /\ i.status \in {"none", "pending", "failed"}
    BY <1>1, <1>2, <1>5 DEF Fits, Workable, ItemRow
  <2>2. /\ I.status = IF o \in {"sent", "already"} THEN "sent"
                      ELSE IF o \in {"unheard", "refused"} /\ Tries(m, o) >= MaxAttempts
                      THEN "dead" ELSE "failed"
        /\ I.attempts = Tries(m, o)
    BY <1>5 DEF ItemAfter
  <2>3. Tries(m, o) = IF o = "deferred" THEN i.attempts ELSE i.attempts + 1
    BY DEF Tries
  <2>4. R.status = IF o = "sent" THEN (IF s = "sent" THEN r.status ELSE "sent")
                   ELSE IF o = "already" THEN r.status
                   ELSE IF I.status = "dead" THEN (IF s = "failed" THEN r.status ELSE "failed")
                   ELSE IF s = "queued" THEN r.status ELSE "queued"
    BY <1>3, <1>5 DEF StatusAfter
  <2>5. /\ (s = "queued" /\ r.status = "queued" /\ ~r.pid) \/ a # 0
        /\ r.status \in {"sent", "delivered"} \/ r.pid => t >= 1
        /\ o \in {"sent", "unheard", "already"} => t >= 1
        /\ t <= u + d + a + (IF o = "sent" THEN 1 ELSE 0)
        /\ t <= i.attempts + d + (IF o \in Accepted THEN 1 ELSE 0)
        /\ a = 0 => o # "already"
    BY <1>1, <1>2, <1>5, <2>1 DEF Fits, Counted, Honest, Agree, Workable
  <2> HIDE DEF r, i, R, I, t, u, d, a
  <2>6. Counted(I, "skip", t, u, d, a)
    BY <1>1, <1>5, <2>1, <2>2, <2>3, <2>5, OutboxAssumption, SMT DEF Counted, Accepted, Outcome
  <2>7. Honest(R, I, "skip", t)
    BY <1>3, <2>2, <2>4, <2>5 DEF Honest
  <2>8. Workable(I, "skip")
    BY <2>2 DEF Workable
  <2>9. ASSUME a = 0
        PROVE  Agree(R, I, "skip", "new")
    <3>1. I.status \in {"sent", "dead", "failed"} /\ (I.status = "sent" <=> o = "sent")
      BY <2>2, <2>5, <2>9
    <3>2. R.pid = (o = "sent")
      BY <1>3, <2>5, <2>9
    <3>3. R.status = IF o = "sent" THEN "sent"
                     ELSE IF I.status = "dead" THEN "failed" ELSE "queued"
      BY <2>4, <2>5, <2>9
    <3> QED
      BY <3>1, <3>2, <3>3 DEF Agree
  <2>10. Fits(R, I, "skip", "new", t, u, d, a)
    BY <2>6, <2>7, <2>8, <2>9 DEF Fits
  <2> QED
    BY <2>10 DEF R, I, t, u, d, a
<1> QED
  BY <1>4, <1>5

\* So does what a cycle leaves that is rolled back: a copy it sent has its cause in that.
LEMMA UndoneFits ==
  ASSUME NEW r \in MessageRow, NEW i \in ItemRow, NEW o \in Outcome, NEW s,
         NEW t \in Nat, NEW u \in Nat, NEW d \in Nat, NEW a \in Nat,
         o # "skip", Fits(r, i, o, s, t, u, d, a)
  PROVE  Fits(r, i, "skip", "new", t, u, d + (IF o \in Accepted THEN 1 ELSE 0), a)
BY SMT DEF Fits, Counted, Honest, Workable, Agree, Accepted, MessageRow, ItemRow, Outcome

-----------------------------------------------------------------------------
(* All messages.                                                           *)

\* A step that locks nothing and frees nothing.
LEMMA HeldAsBefore ==
  ASSUME OutboxInv,
         \A w \in Workers : tx'[w].out = tx[w].out /\ tx'[w].seen = tx[w].seen,
         \A m \in Messages : \A o, s :
           (o = "skip" \/ ~Free(m)) /\ FitsIn(m, o, s) => FitsIn(m, o, s)'
  PROVE  OneHolder' /\ MessagesFit'
<1>1. OneHolder'
  BY DEF OutboxInv, OneHolder
<1>2. ASSUME NEW m \in Messages, Free(m)'
      PROVE  FitsIn(m, "skip", "new")'
  <2>1. Free(m)
    BY <1>2 DEF Free
  <2>2. FitsIn(m, "skip", "new")
    BY <2>1 DEF OutboxInv, MessagesFit
  <2> QED
    BY <2>2
<1>3. ASSUME NEW m \in Messages, NEW w \in Workers, tx'[w].out[m] # "skip"
      PROVE  FitsIn(m, tx[w].out[m], tx[w].seen[m])'
  <2>1. ~Free(m) /\ tx[w].out[m] # "skip"
    BY <1>3 DEF Free
  <2>2. FitsIn(m, tx[w].out[m], tx[w].seen[m])
    BY <2>1 DEF OutboxInv, MessagesFit
  <2> QED
    BY <2>1, <2>2 DEF FitsIn
<1> QED
  BY <1>1, <1>2, <1>3 DEF MessagesFit

\* A step of one cycle, which locks what is free, or changes what it has.
LEMMA OneCycleMoves ==
  ASSUME OutboxInv, NEW w \in Workers,
         \A x \in Workers : x # w => tx'[x] = tx[x],
         \A m \in Messages :
           \/ /\ tx'[w].out[m] = tx[w].out[m]
              /\ tx[w].out[m] # "skip" => tx'[w].seen[m] = tx[w].seen[m]
              /\ \A o, s : FitsIn(m, o, s) => FitsIn(m, o, s)'
           \/ /\ Free(m) \/ tx[w].out[m] # "skip"
              /\ tx'[w].out[m] = "skip" => FitsIn(m, "skip", "new")'
              /\ tx'[w].out[m] # "skip" => FitsIn(m, tx[w].out[m], tx[w].seen[m])'
  PROVE  OneHolder' /\ MessagesFit'
<1> DEFINE Kept(m) == /\ tx'[w].out[m] = tx[w].out[m]
                      /\ tx[w].out[m] # "skip" => tx'[w].seen[m] = tx[w].seen[m]
                      /\ \A o, s : FitsIn(m, o, s) => FitsIn(m, o, s)'
           Moved(m) == /\ Free(m) \/ tx[w].out[m] # "skip"
                       /\ tx'[w].out[m] = "skip" => FitsIn(m, "skip", "new")'
                       /\ tx'[w].out[m] # "skip" => FitsIn(m, tx[w].out[m], tx[w].seen[m])'
<1>1. ASSUME NEW m \in Messages, Moved(m), NEW x \in Workers, x # w
      PROVE  tx[x].out[m] = "skip" /\ tx'[x].out[m] = "skip"
  BY <1>1 DEF OutboxInv, OneHolder, Free
<1>2. OneHolder'
  <2> SUFFICES ASSUME NEW m \in Messages, NEW x \in Workers, NEW y \in Workers,
                      tx'[x].out[m] # "skip", tx'[y].out[m] # "skip"
               PROVE  x = y
    BY DEF OneHolder
  <2>1. CASE Kept(m)
    BY <2>1 DEF OutboxInv, OneHolder
  <2>2. CASE Moved(m)
    BY <2>2, <1>1
  <2> QED
    BY <2>1, <2>2
<1>3. ASSUME NEW m \in Messages, Free(m)'
      PROVE  FitsIn(m, "skip", "new")'
  <2>1. CASE Kept(m)
    <3>1. Free(m)
      BY <1>3, <2>1 DEF Free
    <3> QED
      BY <2>1, <3>1 DEF OutboxInv, MessagesFit
  <2>2. CASE Moved(m)
    BY <1>3, <2>2 DEF Free
  <2> QED
    BY <2>1, <2>2
<1>4. ASSUME NEW m \in Messages, NEW x \in Workers, tx'[x].out[m] # "skip"
      PROVE  FitsIn(m, tx[x].out[m], tx[x].seen[m])'
  <2>1. CASE Kept(m)
    <3>1. tx'[x].out[m] = tx[x].out[m] /\ tx'[x].seen[m] = tx[x].seen[m]
      BY <1>4, <2>1
    <3>2. FitsIn(m, tx[x].out[m], tx[x].seen[m])
      BY <1>4, <3>1 DEF OutboxInv, MessagesFit
    <3> QED
      BY <2>1, <3>1, <3>2 DEF FitsIn
  <2>2. CASE Moved(m)
    BY <1>1, <1>4, <2>2
  <2> QED
    BY <2>1, <2>2
<1> QED
  BY <1>2, <1>3, <1>4 DEF MessagesFit

\* A cycle deals with one of its messages.
LEMMA ItemDealtWith ==
  ASSUME OutboxInv, NEW w \in Workers, NEW m \in Messages, Todo(w, m),
         NEW o \in Outcome \ {"skip"}, NEW v \in ProviderRow, Handles(w, m, o, v),
         UNCHANGED <<msg, item, undone, asked>>,
         \A n \in Messages \ {m} : took'[n] = took[n] /\ unheard'[n] = unheard[n],
         Fits(msg[m], item[m], o, msg[m].status, took'[m], unheard'[m], undone[m], asked[m])
  PROVE  tx' \in [Workers -> Cycle] /\ OneHolder' /\ MessagesFit' /\ CyclesFit'
<1>1. /\ tx' \in [Workers -> Cycle]
      /\ \A x \in Workers : x # w => tx'[x] = tx[x]
      /\ tx'[w].busy = tx[w].busy /\ tx'[w].view = v
      /\ tx'[w].out = [tx[w].out EXCEPT ![m] = o]
      /\ tx'[w].seen = [tx[w].seen EXCEPT ![m] = msg[m].status]
  BY HandlesEffect DEF OutboxInv
<1>2. tx[w].out \in [Messages -> Outcome] /\ tx[w].seen \in [Messages -> MessageStatus]
  BY DEF OutboxInv, TypeOK, Cycle
<1>3. OneHolder' /\ MessagesFit'
  <2>1. ASSUME NEW n \in Messages, n # m
        PROVE  /\ tx'[w].out[n] = tx[w].out[n] /\ tx'[w].seen[n] = tx[w].seen[n]
               /\ \A q, s : FitsIn(n, q, s) => FitsIn(n, q, s)'
    BY <1>1, <1>2, <2>1 DEF FitsIn
  <2>2. /\ tx[w].out[m] # "skip" /\ tx'[w].out[m] = o /\ tx'[w].seen[m] = msg[m].status
        /\ FitsIn(m, tx[w].out[m], tx[w].seen[m])'
    BY <1>1, <1>2 DEF FitsIn, Todo
  <2>3. ASSUME NEW n \in Messages
        PROVE  \/ /\ tx'[w].out[n] = tx[w].out[n]
                  /\ tx[w].out[n] # "skip" => tx'[w].seen[n] = tx[w].seen[n]
                  /\ \A q, s : FitsIn(n, q, s) => FitsIn(n, q, s)'
               \/ /\ Free(n) \/ tx[w].out[n] # "skip"
                  /\ tx'[w].out[n] = "skip" => FitsIn(n, "skip", "new")'
                  /\ tx'[w].out[n] # "skip" => FitsIn(n, tx[w].out[n], tx[w].seen[n])'
    <3>1. CASE n # m
      BY <2>1, <3>1
    <3>2. CASE n = m
      BY <2>2, <3>2
    <3> QED
      BY <3>1, <3>2
  <2> QED
    BY <1>1, <2>3, OneCycleMoves
<1>4. CyclesFit'
  <2>1. v # Unread
    BY DEF ProviderRow, Unread
  <2>2. tx'[w].busy
    BY <1>1 DEF Todo
  <2> QED
    BY <1>1, <2>1, <2>2 DEF OutboxInv, CyclesFit
<1> QED
  BY <1>1, <1>3, <1>4

\* _process_item, whatever comes of it.
LEMMA ProcessItemFits ==
  ASSUME OutboxInv, NEW w \in Workers, NEW m \in Messages, ProcessItem(w, m)
  PROVE  OutboxInv'
<1> USE DEF OutboxInv
<1>1. /\ msg[m] \in MessageRow /\ item[m] \in ItemRow
      /\ took[m] \in Nat /\ unheard[m] \in Nat /\ undone[m] \in Nat /\ asked[m] \in Nat
      /\ View(w) \in ProviderRow /\ Rested(View(w)) \in ProviderRow /\ Active \in ProviderRow
  BY ViewTyped, OutboxAssumption DEF TypeOK, Active, ProviderRow
<1>2. Todo(w, m)
  BY DEF ProcessItem, DeferItem, SkipSent, DeferAudio, SendAccepted, SendRefused,
         SendUnheard, MaySend
<1>3. Fits(msg[m], item[m], "todo", tx[w].seen[m], took[m], unheard[m], undone[m], asked[m])
  BY <1>2 DEF Todo, MessagesFit, FitsIn
<1>4. /\ \A o \in {"deferred", "silent", "refused"} :
           Fits(msg[m], item[m], o, msg[m].status, took[m], unheard[m], undone[m], asked[m])
      /\ msg[m].pid =>
           Fits(msg[m], item[m], "already", msg[m].status, took[m], unheard[m], undone[m], asked[m])
      /\ Fits(msg[m], item[m], "sent", msg[m].status, took[m] + 1, unheard[m], undone[m], asked[m])
      /\ Fits(msg[m], item[m], "unheard", msg[m].status, took[m] + 1, unheard[m] + 1,
              undone[m], asked[m])
  BY <1>1, <1>3, DealtWithFits
<1>5. CASE DeferItem(w, m)
  <2>1. tx' \in [Workers -> Cycle] /\ OneHolder' /\ MessagesFit' /\ CyclesFit'
    BY <1>1, <1>2, <1>4, <1>5, ItemDealtWith DEF DeferItem, history, Outcome
  <2> QED
    BY <1>5, <2>1 DEF DeferItem, history, TypeOK
<1>6. CASE SkipSent(w, m)
  <2>1. tx' \in [Workers -> Cycle] /\ OneHolder' /\ MessagesFit' /\ CyclesFit'
    BY <1>1, <1>2, <1>4, <1>6, ItemDealtWith DEF SkipSent, AlreadySent, history, Outcome
  <2> QED
    BY <1>6, <2>1 DEF SkipSent, history, TypeOK
<1>7. CASE DeferAudio(w, m)
  <2>1. tx' \in [Workers -> Cycle] /\ OneHolder' /\ MessagesFit' /\ CyclesFit'
    BY <1>1, <1>2, <1>4, <1>7, ItemDealtWith DEF DeferAudio, history, Outcome
  <2> QED
    BY <1>7, <2>1 DEF DeferAudio, history, TypeOK
<1>8. CASE SendAccepted(w, m)
  <2>1. /\ took' \in [Messages -> Nat] /\ took'[m] = took[m] + 1
        /\ \A n \in Messages \ {m} : took'[n] = took[n]
    BY <1>8 DEF SendAccepted, TypeOK
  <2>2. tx' \in [Workers -> Cycle] /\ OneHolder' /\ MessagesFit' /\ CyclesFit'
    BY <1>1, <1>2, <1>4, <1>8, <2>1, ItemDealtWith DEF SendAccepted, Outcome
  <2> QED
    BY <1>8, <2>1, <2>2 DEF SendAccepted, TypeOK
<1>9. CASE SendRefused(w, m)
  <2>1. Failed(Rested(View(w))) \in ProviderRow
    BY <1>1, FailedTyped
  <2>2. tx' \in [Workers -> Cycle] /\ OneHolder' /\ MessagesFit' /\ CyclesFit'
    BY <1>1, <1>2, <1>4, <1>9, <2>1, ItemDealtWith DEF SendRefused, history, Outcome
  <2> QED
    BY <1>9, <2>2 DEF SendRefused, history, TypeOK
<1>10. CASE SendUnheard(w, m)
  <2>1. /\ took' \in [Messages -> Nat] /\ took'[m] = took[m] + 1
        /\ unheard' \in [Messages -> Nat] /\ unheard'[m] = unheard[m] + 1
        /\ \A n \in Messages \ {m} : took'[n] = took[n] /\ unheard'[n] = unheard[n]
    BY <1>10 DEF SendUnheard, TypeOK
  <2>2. Failed(Rested(View(w))) \in ProviderRow
    BY <1>1, FailedTyped
  <2>3. tx' \in [Workers -> Cycle] /\ OneHolder' /\ MessagesFit' /\ CyclesFit'
    BY <1>1, <1>2, <1>4, <1>10, <2>1, <2>2, ItemDealtWith DEF SendUnheard, Outcome
  <2>4. troubles' \in 0..MaxTroubles
    BY <1>10, OutboxAssumption DEF SendUnheard, TypeOK
  <2> QED
    BY <1>10, <2>1, <2>3, <2>4 DEF SendUnheard, TypeOK
<1> QED
  BY <1>5, <1>6, <1>7, <1>8, <1>9, <1>10 DEF ProcessItem

\* A cycle takes what is free and waiting.
LEMMA ProcessPendingFits ==
  ASSUME OutboxInv, NEW w \in Workers, ProcessPending(w)
  PROVE  OutboxInv'
<1> USE DEF OutboxInv
<1> DEFINE O == [m \in Messages |-> IF m \in Ready \cup (Unqueued \ TurnedAway) THEN "todo"
                                    ELSE IF m \in Unqueued THEN "turned" ELSE "skip"]
           S == [m \in Messages |-> IF m \in Unqueued THEN "queued" ELSE "new"]
           T == [Rest EXCEPT !.busy = TRUE, !.out = O, !.seen = S]
<1>1. O \in [Messages -> Outcome] /\ S \in [Messages -> MessageStatus]
  BY DEF Outcome, MessageStatus
<1>2. tx' = [tx EXCEPT ![w] = T] /\ tx[w].busy = FALSE
  BY DEF ProcessPending, TypeOK, Cycle
<1>3. UNCHANGED <<msg, item, provider, ask, took, unheard, undone, asked, troubles>>
  BY DEF ProcessPending, history
<1> HIDE DEF O, S
<1>4. T \in Cycle /\ T.busy /\ T.out = O /\ T.seen = S /\ T.view = Unread /\ T.dirty = {}
  BY <1>1 DEF Rest, Cycle
<1> HIDE DEF T
<1>5. /\ tx' \in [Workers -> Cycle] /\ tx'[w] = T
      /\ \A x \in Workers : x # w => tx'[x] = tx[x]
  BY <1>2, <1>4 DEF TypeOK
<1>6. TypeOK'
  BY <1>3, <1>5 DEF TypeOK
<1>7. CyclesFit'
  BY <1>4, <1>5 DEF CyclesFit
<1>8. OneHolder' /\ MessagesFit'
  <2>1. \A n \in Messages : tx[w].out[n] = "skip"
    BY <1>2 DEF CyclesFit
  <2>2. ASSUME NEW n \in Messages, n \in Ready \cup Unqueued
        PROVE  /\ Free(n) /\ tx'[w].out[n] # "skip"
               /\ FitsIn(n, tx[w].out[n], tx[w].seen[n])'
    <3>1. Free(n)
      BY <2>2 DEF Ready, Unqueued
    <3>2. Fits(msg[n], item[n], "skip", "new", took[n], unheard[n], undone[n], asked[n])
      BY <3>1 DEF MessagesFit, FitsIn
    <3>3. /\ msg[n] \in MessageRow /\ item[n] \in ItemRow
          /\ took[n] \in Nat /\ unheard[n] \in Nat /\ undone[n] \in Nat /\ asked[n] \in Nat
      BY DEF TypeOK
    <3>4. O[n] \in {"todo", "turned"} /\ S[n] = IF n \in Unqueued THEN "queued" ELSE "new"
      BY <2>2 DEF O, S
    <3>5. CASE O[n] = "todo"
      <4>1. \/ item[n].status \in {"pending", "failed"} /\ item[n].attempts < MaxAttempts
            \/ item[n].status = "none" /\ msg[n].status = "queued"
        BY <2>2, <3>5 DEF Ready, Unqueued, Waiting, TriesLeft
      <4>2. Fits(msg[n], item[n], "todo", S[n], took[n], unheard[n], undone[n], asked[n])
        BY <3>2, <3>3, <4>1, OutboxAssumption, SMT
        DEF Fits, Counted, Honest, Workable, Agree, Accepted, MessageRow, ItemRow
      <4> QED
        BY <1>3, <1>4, <1>5, <3>1, <3>5, <4>2 DEF FitsIn
    <3>6. CASE O[n] = "turned"
      <4>1. item[n].status = "none" /\ msg[n].status = "queued" /\ S[n] = "queued"
        BY <2>2, <3>6 DEF O, S, Ready, Unqueued
      <4>2. Fits(msg[n], item[n], "turned", S[n], took[n], unheard[n], undone[n], asked[n])
        BY <3>2, <3>3, <4>1, OutboxAssumption, SMT
        DEF Fits, Counted, Honest, Workable, Agree, Accepted, MessageRow, ItemRow
      <4> QED
        BY <1>3, <1>4, <1>5, <3>1, <3>6, <4>2 DEF FitsIn
    <3> QED
      BY <3>4, <3>5, <3>6
  <2>3. ASSUME NEW n \in Messages, n \notin Ready \cup Unqueued
        PROVE  tx'[w].out[n] = "skip" /\ \A o, s : FitsIn(n, o, s) => FitsIn(n, o, s)'
    BY <1>3, <1>4, <1>5, <2>3 DEF O, FitsIn
  <2>4. ASSUME NEW n \in Messages
        PROVE  \/ /\ tx'[w].out[n] = tx[w].out[n]
                  /\ tx[w].out[n] # "skip" => tx'[w].seen[n] = tx[w].seen[n]
                  /\ \A q, s : FitsIn(n, q, s) => FitsIn(n, q, s)'
               \/ /\ Free(n) \/ tx[w].out[n] # "skip"
                  /\ tx'[w].out[n] = "skip" => FitsIn(n, "skip", "new")'
                  /\ tx'[w].out[n] # "skip" => FitsIn(n, tx[w].out[n], tx[w].seen[n])'
    <3>1. CASE n \in Ready \cup Unqueued
      BY <2>2, <3>1
    <3>2. CASE n \notin Ready \cup Unqueued
      BY <2>1, <2>3, <3>2
    <3> QED
      BY <3>1, <3>2
  <2> QED
    BY <1>5, <2>4, OneCycleMoves
<1> QED
  BY <1>6, <1>7, <1>8

\* A cycle writes what came of its messages.
LEMMA CommitFits ==
  ASSUME OutboxInv, NEW w \in Workers, Commit(w)
  PROVE  OutboxInv'
<1> USE DEF OutboxInv
<1> DEFINE t == tx[w]
<1>1. /\ t \in Cycle /\ t.busy /\ \A m \in Messages : t.out[m] # "todo"
      /\ item' = [m \in Messages |-> ItemAfter(m, t.out[m])]
      /\ msg'  = [m \in Messages |-> MessageAfter(m, t.out[m], t.seen[m])]
      /\ provider' = ProviderAfter(t)
      /\ tx' = [tx EXCEPT ![w] = Rest]
      /\ UNCHANGED <<ask, took, unheard, undone, asked, troubles>>
  BY DEF Commit, history, TypeOK
<1>2. \A m \in Messages : t.out[m] \in Outcome \ {"todo"} /\ t.seen[m] \in MessageStatus
  BY <1>1 DEF Cycle
<1>3. \A m \in Messages : t.out[m] # "skip" => FitsIn(m, t.out[m], t.seen[m])
  BY DEF MessagesFit
<1>4. /\ tx' \in [Workers -> Cycle] /\ tx'[w] = Rest
      /\ \A x \in Workers : x # w => tx'[x] = tx[x]
  BY <1>1, RestTyped DEF TypeOK
<1>5. provider' \in ProviderRow
  BY <1>1, ProviderTyped
<1> HIDE DEF t
<1>6. item' \in [Messages -> ItemRow] /\ msg' \in [Messages -> MessageRow]
  <2>1. ASSUME NEW m \in Messages
        PROVE  ItemAfter(m, t.out[m]) \in ItemRow
    <3>1. t.out[m] \notin {"skip", "turned"} => item[m].attempts < MaxAttempts
      BY <1>3 DEF FitsIn, Fits, Workable
    <3> QED
      BY <1>2, <3>1, ItemTyped
  <2>2. ASSUME NEW m \in Messages
        PROVE  MessageAfter(m, t.out[m], t.seen[m]) \in MessageRow
    BY <1>2, MessageTyped
  <2> QED
    BY <1>1, <2>1, <2>2
<1>7. TypeOK'
  BY <1>1, <1>4, <1>5, <1>6 DEF TypeOK
<1>8. CyclesFit'
  BY <1>4, RestTyped DEF CyclesFit
<1>9. OneHolder' /\ MessagesFit'
  <2>1. ASSUME NEW m \in Messages, t.out[m] # "skip"
        PROVE  FitsIn(m, "skip", "new")'
    <3>1. Fits(MessageAfter(m, t.out[m], t.seen[m]), ItemAfter(m, t.out[m]), "skip", "new",
               took[m], unheard[m], undone[m], asked[m])
      BY <1>2, <1>3, <2>1, CommittedFits
    <3>2. item'[m] = ItemAfter(m, t.out[m]) /\ msg'[m] = MessageAfter(m, t.out[m], t.seen[m])
      BY <1>1
    <3> QED
      BY <1>1, <3>1, <3>2 DEF FitsIn
  <2>2. ASSUME NEW m \in Messages, t.out[m] = "skip"
        PROVE  \A o, s : FitsIn(m, o, s) => FitsIn(m, o, s)'
    <3>1. item'[m] = item[m]
      BY <1>1, <2>2 DEF ItemAfter
    <3>2. /\ msg'[m] \in MessageRow /\ msg[m] \in MessageRow
          /\ msg'[m].status = msg[m].status /\ msg'[m].pid = msg[m].pid
      <4>1. StatusAfter(m, t.out[m], t.seen[m]) = t.seen[m]
        BY <2>2 DEF StatusAfter
      <4> QED
        BY <1>1, <1>2, <1>6, <2>2, <4>1, MessageTyped DEF TypeOK, MessageRow
    <3> QED
      BY <1>1, <3>1, <3>2 DEF FitsIn, Fits, Honest, Agree
  <2>3. ASSUME NEW n \in Messages
        PROVE  \/ /\ tx'[w].out[n] = tx[w].out[n]
                  /\ tx[w].out[n] # "skip" => tx'[w].seen[n] = tx[w].seen[n]
                  /\ \A q, s : FitsIn(n, q, s) => FitsIn(n, q, s)'
               \/ /\ Free(n) \/ tx[w].out[n] # "skip"
                  /\ tx'[w].out[n] = "skip" => FitsIn(n, "skip", "new")'
                  /\ tx'[w].out[n] # "skip" => FitsIn(n, tx[w].out[n], tx[w].seen[n])'
    <3>1. tx'[w].out[n] = "skip"
      BY <1>4, RestTyped
    <3>2. CASE t.out[n] = "skip"
      BY <2>2, <3>1, <3>2 DEF t
    <3>3. CASE t.out[n] # "skip"
      BY <2>1, <3>1, <3>3 DEF t
    <3> QED
      BY <3>2, <3>3
  <2> QED
    BY <1>4, <2>3, OneCycleMoves
<1> QED
  BY <1>7, <1>8, <1>9

\* A cycle is rolled back.
LEMMA AbortFits ==
  ASSUME OutboxInv, NEW w \in Workers, Abort(w)
  PROVE  OutboxInv'
<1> USE DEF OutboxInv
<1>1. /\ tx[w] \in Cycle
      /\ tx' = [tx EXCEPT ![w] = Rest]
      /\ undone' = [m \in Messages |-> undone[m] + (IF tx[w].out[m] \in Accepted THEN 1 ELSE 0)]
      /\ troubles' = troubles + 1 /\ troubles < MaxTroubles
      /\ UNCHANGED <<msg, item, provider, ask, took, unheard, asked>>
  BY DEF Abort, TypeOK
<1>2. /\ tx' \in [Workers -> Cycle] /\ tx'[w] = Rest
      /\ \A x \in Workers : x # w => tx'[x] = tx[x]
  BY <1>1, RestTyped DEF TypeOK
<1>3. TypeOK'
  <2>1. undone' \in [Messages -> Nat]
    BY <1>1 DEF TypeOK
  <2>2. troubles' \in 0..MaxTroubles
    BY <1>1, OutboxAssumption DEF TypeOK
  <2> QED
    BY <1>1, <1>2, <2>1, <2>2 DEF TypeOK
<1>4. CyclesFit'
  BY <1>2, RestTyped DEF CyclesFit
<1>5. OneHolder' /\ MessagesFit'
  <2>1. ASSUME NEW m \in Messages, tx[w].out[m] # "skip"
        PROVE  FitsIn(m, "skip", "new")'
    <3>1. Fits(msg[m], item[m], tx[w].out[m], tx[w].seen[m], took[m], unheard[m], undone[m], asked[m])
      BY <2>1 DEF MessagesFit, FitsIn
    <3>2. /\ msg[m] \in MessageRow /\ item[m] \in ItemRow /\ tx[w].out[m] \in Outcome
          /\ took[m] \in Nat /\ unheard[m] \in Nat /\ undone[m] \in Nat /\ asked[m] \in Nat
      BY <1>1 DEF TypeOK, Cycle
    <3>3. Fits(msg[m], item[m], "skip", "new", took[m], unheard[m],
               undone[m] + (IF tx[w].out[m] \in Accepted THEN 1 ELSE 0), asked[m])
      BY <2>1, <3>1, <3>2, UndoneFits
    <3> QED
      BY <1>1, <3>3 DEF FitsIn
  <2>2. ASSUME NEW m \in Messages, tx[w].out[m] = "skip"
        PROVE  \A o, s : FitsIn(m, o, s) => FitsIn(m, o, s)'
    <3>1. undone'[m] = undone[m]
      BY <1>1, <2>2 DEF TypeOK, Accepted
    <3> QED
      BY <1>1, <3>1 DEF FitsIn
  <2>3. ASSUME NEW n \in Messages
        PROVE  \/ /\ tx'[w].out[n] = tx[w].out[n]
                  /\ tx[w].out[n] # "skip" => tx'[w].seen[n] = tx[w].seen[n]
                  /\ \A q, s : FitsIn(n, q, s) => FitsIn(n, q, s)'
               \/ /\ Free(n) \/ tx[w].out[n] # "skip"
                  /\ tx'[w].out[n] = "skip" => FitsIn(n, "skip", "new")'
                  /\ tx'[w].out[n] # "skip" => FitsIn(n, tx[w].out[n], tx[w].seen[n])'
    <3>1. tx'[w].out[n] = "skip"
      BY <1>2, RestTyped
    <3> QED
      BY <2>1, <2>2, <3>1
  <2> QED
    BY <1>2, <2>3, OneCycleMoves
<1> QED
  BY <1>3, <1>4, <1>5

\* Queued messages get their items, or are turned away.
LEMMA EnqueueFits ==
  ASSUME OutboxInv, EnqueueQueued
  PROVE  OutboxInv'
<1> USE DEF OutboxInv
<1>1. /\ item' = [m \in Messages |-> IF m \in Unqueued \ TurnedAway
                                     THEN [NoItem EXCEPT !.status = "pending"] ELSE item[m]]
      /\ msg'  = [m \in Messages |-> IF m \in Unqueued \cap TurnedAway
                                     THEN [msg[m] EXCEPT !.status = TurnedTo(m)] ELSE msg[m]]
      /\ UNCHANGED <<provider, tx, ask, took, unheard, undone, asked, troubles>>
  BY DEF EnqueueQueued, history
<1> DEFINE New == [NoItem EXCEPT !.status = "pending"]
<1>2. New \in ItemRow /\ New.status = "pending" /\ New.attempts = 0
  <2>1. 0 \in 0..MaxAttempts
    BY OutboxAssumption
  <2>2. NoItem \in ItemRow /\ NoItem.attempts = 0
    BY <2>1 DEF NoItem, ItemRow
  <2> QED
    BY <2>2 DEF ItemRow
<1>3. ASSUME NEW m \in Messages
      PROVE  /\ msg[m] \in MessageRow /\ item[m] \in ItemRow
             /\ [msg[m] EXCEPT !.status = TurnedTo(m)] \in MessageRow
             /\ [msg[m] EXCEPT !.status = TurnedTo(m)].pid = msg[m].pid
             /\ [msg[m] EXCEPT !.status = TurnedTo(m)].status \in {"failed", "blocked_review"}
             /\ took[m] \in Nat /\ unheard[m] \in Nat /\ undone[m] \in Nat /\ asked[m] \in Nat
  BY DEF TypeOK, TurnedTo, MessageRow, MessageStatus
<1> HIDE DEF New
<1>4. item' \in [Messages -> ItemRow] /\ msg' \in [Messages -> MessageRow]
  BY <1>1, <1>2, <1>3 DEF New
<1>5. TypeOK'
  BY <1>1, <1>4 DEF TypeOK
<1>6. ASSUME NEW m \in Messages, NEW o, NEW s, o = "skip" \/ ~Free(m), FitsIn(m, o, s)
      PROVE  FitsIn(m, o, s)'
  <2>1. Fits(msg[m], item[m], o, s, took[m], unheard[m], undone[m], asked[m])
    BY <1>6 DEF FitsIn
  <2>2. CASE m \notin Unqueued
    BY <1>1, <2>1, <2>2 DEF FitsIn
  <2>3. CASE m \in Unqueued
    <3>1. o = "skip" /\ msg[m].status = "queued" /\ item[m].status = "none"
      BY <1>6, <2>3 DEF Unqueued
    <3>2. CASE m \in TurnedAway
      <4>1. /\ item'[m] = item[m] /\ msg'[m].pid = msg[m].pid
            /\ msg'[m].status \in {"failed", "blocked_review"}
        BY <1>1, <1>3, <2>3, <3>2
      <4>2. Fits(msg'[m], item'[m], o, s, took[m], unheard[m], undone[m], asked[m])
        BY <1>3, <2>1, <3>1, <4>1 DEF Fits, Honest, Agree
      <4> QED
        BY <1>1, <4>2 DEF FitsIn
    <3>3. CASE m \notin TurnedAway
      <4>1. item'[m] = New /\ msg'[m] = msg[m]
        BY <1>1, <2>3, <3>3 DEF New
      <4>2. Fits(msg[m], New, o, s, took[m], unheard[m], undone[m], asked[m])
        BY <1>2, <1>3, <2>1, <3>1, SMT DEF Fits, Counted, Honest, Workable, Agree, Accepted
      <4> QED
        BY <1>1, <4>1, <4>2 DEF FitsIn
    <3> QED
      BY <3>2, <3>3
  <2> QED
    BY <2>2, <2>3
<1>7. OneHolder' /\ MessagesFit'
  BY <1>1, <1>6, HeldAsBefore
<1>8. CyclesFit'
  BY <1>1 DEF CyclesFit
<1> QED
  BY <1>5, <1>7, <1>8

\* The rows of one message change, and no cycle: it is enough that this message still
\* fits as it did.
LEMMA OneMessageMoves ==
  ASSUME OutboxInv, TypeOK', UNCHANGED tx, NEW m \in Messages,
         \A n \in Messages \ {m} :
           /\ msg'[n] = msg[n] /\ item'[n] = item[n] /\ took'[n] = took[n]
           /\ unheard'[n] = unheard[n] /\ undone'[n] = undone[n] /\ asked'[n] = asked[n],
         \A o, s : (o = "skip" \/ ~Free(m)) /\ FitsIn(m, o, s) => FitsIn(m, o, s)'
  PROVE  OutboxInv'
<1>1. ASSUME NEW n \in Messages, NEW o, NEW s, o = "skip" \/ ~Free(n), FitsIn(n, o, s)
      PROVE  FitsIn(n, o, s)'
  <2>1. CASE n = m
    BY <1>1, <2>1
  <2>2. CASE n # m
    BY <1>1, <2>2 DEF FitsIn
  <2> QED
    BY <2>1, <2>2
<1>2. OneHolder' /\ MessagesFit'
  BY <1>1, HeldAsBefore
<1>3. CyclesFit'
  BY DEF OutboxInv, CyclesFit
<1> QED
  BY <1>2, <1>3 DEF OutboxInv

\* A new message, a notice of the provider, and time that passes.
LEMMA MessageStepFits ==
  ASSUME OutboxInv, NEW m \in Messages,
         \/ \E kind \in KindsOf[m] : Post(m, kind)
         \/ \E status \in {"sent", "delivered", "failed"} : UpdateMessageStatus(m, status)
         \/ ComesDue(m)
  PROVE  OutboxInv'
<1>1. /\ msg[m] \in MessageRow /\ item[m] \in ItemRow
      /\ took[m] \in Nat /\ unheard[m] \in Nat /\ undone[m] \in Nat /\ asked[m] \in Nat
  BY DEF OutboxInv, TypeOK
<1>2. CASE \E kind \in KindsOf[m] : Post(m, kind)
  <2>1. PICK kind \in Kind : Post(m, kind)
    BY <1>2, KindsAssumption
  <2>2. UNCHANGED <<item, provider, tx, ask, took, unheard, undone, asked, troubles>>
        /\ msg[m].status = "new"
    BY <2>1 DEF Post, history
  <2>3. /\ msg' \in [Messages -> MessageRow]
        /\ msg'[m].status = "queued" /\ msg'[m].pid = msg[m].pid
        /\ \A n \in Messages \ {m} : msg'[n] = msg[n]
    BY <2>1 DEF Post, OutboxInv, TypeOK, MessageRow, MessageStatus
  <2>4. TypeOK'
    BY <2>2, <2>3 DEF OutboxInv, TypeOK
  <2>5. ASSUME NEW o, NEW s, FitsIn(m, o, s)
        PROVE  FitsIn(m, o, s)'
    BY <1>1, <2>2, <2>3, <2>5 DEF FitsIn, Fits, Honest, Agree
  <2> QED
    BY <2>2, <2>3, <2>4, <2>5, OneMessageMoves
<1>3. CASE \E status \in {"sent", "delivered", "failed"} : UpdateMessageStatus(m, status)
  <2>1. PICK status \in {"sent", "delivered", "failed"} : UpdateMessageStatus(m, status)
    BY <1>3
  <2>2. UNCHANGED <<item, provider, tx, ask, took, unheard, undone, asked, troubles>>
        /\ msg[m].pid
    BY <2>1 DEF UpdateMessageStatus, history
  <2>3. /\ msg' \in [Messages -> MessageRow]
        /\ msg'[m].status = status /\ msg'[m].pid = msg[m].pid
        /\ \A n \in Messages \ {m} : msg'[n] = msg[n]
    BY <2>1 DEF UpdateMessageStatus, OutboxInv, TypeOK, MessageRow, MessageStatus
  <2>4. TypeOK'
    BY <2>2, <2>3 DEF OutboxInv, TypeOK
  <2>5. ASSUME NEW o, NEW s, FitsIn(m, o, s)
        PROVE  FitsIn(m, o, s)'
    <3>1. Fits(msg[m], item[m], o, s, took[m], unheard[m], undone[m], asked[m])
      BY <2>5 DEF FitsIn
    <3>2. asked[m] = 0 => item[m].status = "sent" /\ o = "skip"
      BY <1>1, <2>2, <3>1 DEF Fits, Agree, Workable, ItemRow
    <3>3. took[m] >= 1
      BY <2>2, <3>1 DEF Fits, Honest
    <3>4. Fits(msg'[m], item[m], o, s, took[m], unheard[m], undone[m], asked[m])
      BY <2>1, <2>3, <3>1, <3>2, <3>3 DEF Fits, Honest, Agree
    <3> QED
      BY <2>2, <3>4 DEF FitsIn
  <2> QED
    BY <2>2, <2>3, <2>4, <2>5, OneMessageMoves
<1>4. CASE ComesDue(m)
  <2>1. UNCHANGED <<msg, provider, tx, ask, took, unheard, undone, asked, troubles>>
    BY <1>4 DEF ComesDue, history
  <2>2. /\ item' \in [Messages -> ItemRow]
        /\ item'[m].status = item[m].status /\ item'[m].attempts = item[m].attempts
        /\ \A n \in Messages \ {m} : item'[n] = item[n]
    BY <1>4 DEF ComesDue, OutboxInv, TypeOK, ItemRow
  <2>3. TypeOK'
    BY <2>1, <2>2 DEF OutboxInv, TypeOK
  <2>4. ASSUME NEW o, NEW s, FitsIn(m, o, s)
        PROVE  FitsIn(m, o, s)'
    BY <2>1, <2>2, <2>4 DEF FitsIn, Fits, Counted, Honest, Workable, Agree
  <2> QED
    BY <2>1, <2>2, <2>3, <2>4, OneMessageMoves
<1> QED
  BY <1>2, <1>3, <1>4

\* The retry by hand: from now on the message and its item may differ.
LEMMA RetryFits ==
  ASSUME OutboxInv, RetryCommits
  PROVE  OutboxInv'
<1>1. ask \in Ask
  BY DEF OutboxInv, TypeOK, RetryCommits, NoAsk
<1> PICK m \in Messages : m = ask.of
  BY <1>1 DEF Ask
<1>2. Free(m)
  BY DEF RetryCommits
<1>3. UNCHANGED <<provider, tx, took, unheard, undone, troubles>> /\ ask' = NoAsk
  BY DEF RetryCommits
<1>4. /\ msg[m] \in MessageRow /\ item[m] \in ItemRow
      /\ took[m] \in Nat /\ unheard[m] \in Nat /\ undone[m] \in Nat /\ asked[m] \in Nat
  BY <1>2 DEF OutboxInv, TypeOK
<1> DEFINE S == IF ask.item = "pending" THEN item[m].status ELSE "pending"
           R == IF ask.msg = "queued" THEN msg[m].status ELSE "queued"
<1>5. /\ item' \in [Messages -> ItemRow]
      /\ item'[m].status = S /\ item'[m].attempts = item[m].attempts
      /\ \A n \in Messages \ {m} : item'[n] = item[n]
  <2>1. item' = [item EXCEPT ![m] = [item[m] EXCEPT !.status = S, !.due = TRUE]]
    BY <1>2, <1>4 DEF RetryCommits, OutboxInv, TypeOK, ItemRow
  <2>2. S \in {"none", "pending", "failed", "sent", "dead"}
    BY <1>4 DEF ItemRow
  <2> HIDE DEF S
  <2>3. [item[m] EXCEPT !.status = S, !.due = TRUE] \in ItemRow
    BY <1>4, <2>2 DEF ItemRow
  <2>4. item' \in [Messages -> ItemRow]
    BY <1>2, <2>1, <2>3 DEF OutboxInv, TypeOK
  <2> QED
    BY <1>2, <1>4, <2>1, <2>4 DEF OutboxInv, TypeOK, ItemRow
<1>6. /\ msg' \in [Messages -> MessageRow]
      /\ msg'[m].status = R /\ msg'[m].pid = msg[m].pid
      /\ \A n \in Messages \ {m} : msg'[n] = msg[n]
  BY <1>2, <1>4 DEF RetryCommits, OutboxInv, TypeOK, MessageRow, MessageStatus
<1>7. /\ asked' \in [Messages -> Nat] /\ asked'[m] = asked[m] + 1
      /\ \A n \in Messages \ {m} : asked'[n] = asked[n]
  BY <1>2 DEF RetryCommits, OutboxInv, TypeOK
<1>8. TypeOK'
  BY <1>3, <1>5, <1>6, <1>7 DEF OutboxInv, TypeOK
<1>9. ASSUME NEW o, NEW s, o = "skip", FitsIn(m, o, s)
      PROVE  FitsIn(m, o, s)'
  <2>1. Fits(msg[m], item[m], o, s, took[m], unheard[m], undone[m], asked[m])
    BY <1>9 DEF FitsIn
  <2>2. S = "sent" => item[m].status = "sent"
    OBVIOUS
  <2>3. S = "none" => item[m].status = "none"
    OBVIOUS
  <2>4. R \in {msg[m].status, "queued"}
    OBVIOUS
  <2> HIDE DEF S, R
  <2>5. Fits(msg'[m], item'[m], o, s, took[m], unheard[m], undone[m], asked'[m])
    <3>1. Counted(item'[m], o, took[m], unheard[m], undone[m], asked'[m])
      BY <1>4, <1>5, <1>7, <1>9, <2>1, <2>2, SMT DEF Fits, Counted, Accepted, ItemRow
    <3>2. Honest(msg'[m], item'[m], o, took[m])
      BY <1>5, <1>6, <1>9, <2>1, <2>2, <2>4 DEF Fits, Honest
    <3>3. Workable(item'[m], o)
      BY <1>5, <1>9, <2>1, <2>3 DEF Fits, Workable
    <3>4. asked'[m] # 0
      BY <1>4, <1>7
    <3> QED
      BY <3>1, <3>2, <3>3, <3>4 DEF Fits
  <2> QED
    BY <1>3, <2>5 DEF FitsIn
<1> QED
  BY <1>2, <1>3, <1>5, <1>6, <1>7, <1>8, <1>9, OneMessageMoves

\* Steps that change neither messages nor items nor what a cycle has of them.
LEMMA ElsewhereFits ==
  ASSUME OutboxInv, UNCHANGED <<msg, item, history>>, TypeOK', CyclesFit',
         \A w \in Workers : tx'[w].out = tx[w].out /\ tx'[w].seen = tx[w].seen
  PROVE  OutboxInv'
<1>1. \A m \in Messages : \A o, s : FitsIn(m, o, s) => FitsIn(m, o, s)'
  BY DEF FitsIn, history
<1>2. OneHolder' /\ MessagesFit'
  BY <1>1, HeldAsBefore
<1> QED
  BY <1>2 DEF OutboxInv

\* The panel, the pauses and their ends.
LEMMA PanelFits ==
  ASSUME OutboxInv,
         \/ \E m \in Messages : RetryLoadsItem(m)
         \/ \E w \in Workers : PauseEndsMidway(w)
         \/ RetryLoadsMessage \/ RetryFails \/ PauseProvider \/ ResumeProvider \/ PauseEnds
  PROVE  OutboxInv'
<1> USE DEF OutboxInv
<1>1. CASE \E m \in Messages : RetryLoadsItem(m)
  <2>1. PICK m \in Messages : RetryLoadsItem(m)
    BY <1>1
  <2>2. item[m].status \in {"pending", "failed", "sent", "dead"}
    BY <2>1 DEF RetryLoadsItem, TypeOK, ItemRow
  <2>3. ask' \in Ask /\ troubles' \in 0..MaxTroubles
    BY <2>1, <2>2, OutboxAssumption DEF RetryLoadsItem, Ask, MessageStatus, TypeOK
  <2>4. UNCHANGED <<msg, item, provider, tx, took, unheard, undone, asked>>
    BY <2>1 DEF RetryLoadsItem, history
  <2>5. TypeOK' /\ CyclesFit'
    BY <2>3, <2>4 DEF TypeOK, CyclesFit
  <2> QED
    BY <2>4, <2>5, ElsewhereFits DEF history
<1>2. CASE RetryLoadsMessage
  <2>1. ask \in Ask
    BY <1>2 DEF RetryLoadsMessage, TypeOK, NoAsk
  <2>2. msg[ask.of].status \in MessageStatus
    BY <2>1 DEF TypeOK, Ask, MessageRow
  <2>3. ask' \in Ask
    BY <1>2, <2>1, <2>2 DEF RetryLoadsMessage, Ask
  <2>4. UNCHANGED <<msg, item, provider, tx, took, unheard, undone, asked, troubles>>
    BY <1>2 DEF RetryLoadsMessage, history
  <2>5. TypeOK' /\ CyclesFit'
    BY <2>3, <2>4 DEF TypeOK, CyclesFit
  <2> QED
    BY <2>4, <2>5, ElsewhereFits DEF history
<1>3. CASE RetryFails
  <2>1. TypeOK' /\ CyclesFit'
    BY <1>3 DEF RetryFails, history, TypeOK, CyclesFit
  <2> QED
    BY <1>3, <2>1, ElsewhereFits DEF RetryFails
<1>4. CASE PauseProvider \/ ResumeProvider \/ PauseEnds
  <2>1. provider' \in ProviderRow
    <3>1. provider \in ProviderRow
      BY DEF TypeOK
    <3>2. CASE PauseProvider
      BY <3>1, <3>2 DEF PauseProvider, ProviderRow
    <3>3. CASE ResumeProvider
      BY <3>3, OutboxAssumption, SMT DEF ResumeProvider, Active, ProviderRow
    <3>4. CASE PauseEnds
      BY <3>1, <3>4 DEF PauseEnds, ProviderRow
    <3> QED
      BY <1>4, <3>2, <3>3, <3>4
  <2>2. troubles' \in 0..MaxTroubles
    BY <1>4, OutboxAssumption DEF PauseProvider, ResumeProvider, PauseEnds, TypeOK
  <2>3. UNCHANGED <<msg, item, tx, ask, took, unheard, undone, asked>>
    BY <1>4 DEF PauseProvider, ResumeProvider, PauseEnds, history
  <2>4. TypeOK' /\ CyclesFit'
    BY <2>1, <2>2, <2>3 DEF TypeOK, CyclesFit
  <2> QED
    BY <2>3, <2>4, ElsewhereFits DEF history
<1>5. CASE \E w \in Workers : PauseEndsMidway(w)
  <2>1. PICK w \in Workers : PauseEndsMidway(w)
    BY <1>5
  <2>2. tx[w] \in Cycle /\ tx[w].view \in ProviderRow
    BY <2>1 DEF PauseEndsMidway, TypeOK, Cycle
  <2> DEFINE V == [tx[w].view EXCEPT !.until = "passed"]
             T == [tx[w] EXCEPT !.view = V]
  <2>3. tx' = [tx EXCEPT ![w] = T]
    BY <2>1, <2>2 DEF PauseEndsMidway, TypeOK, Cycle, ProviderRow
  <2>4. V \in ProviderRow /\ V # Unread
    BY <2>2 DEF ProviderRow, Unread
  <2> HIDE DEF V
  <2>5. /\ T \in Cycle /\ T.view = V /\ T.out = tx[w].out /\ T.seen = tx[w].seen
        /\ T.busy = tx[w].busy
    BY <2>2, <2>4 DEF Cycle
  <2> HIDE DEF T
  <2>6. /\ tx' \in [Workers -> Cycle] /\ tx'[w] = T
        /\ \A x \in Workers : x # w => tx'[x] = tx[x]
    BY <2>3, <2>5 DEF TypeOK
  <2>7. UNCHANGED <<msg, item, provider, ask, took, unheard, undone, asked, troubles>>
    BY <2>1 DEF PauseEndsMidway, history
  <2>8. TypeOK'
    BY <2>6, <2>7 DEF TypeOK
  <2>9. CyclesFit'
    BY <2>4, <2>5, <2>6 DEF CyclesFit
  <2>10. \A x \in Workers : tx'[x].out = tx[x].out /\ tx'[x].seen = tx[x].seen
    BY <2>5, <2>6
  <2> QED
    BY <2>7, <2>8, <2>9, <2>10, ElsewhereFits DEF history
<1> QED
  BY <1>1, <1>2, <1>3, <1>4, <1>5

-----------------------------------------------------------------------------
(* Theorems.                                                               *)

\* With no message queued and no cycle running every message fits.
LEMMA StartFits ==
  ASSUME Init
  PROVE  OutboxInv
<1>1. /\ [status |-> "new", kind |-> "plain", pid |-> FALSE] \in MessageRow
      /\ 0 \in 0..MaxAttempts /\ 0 \in 0..Threshold /\ 0 \in 0..MaxTroubles
  BY OutboxAssumption DEF MessageRow, MessageStatus, Kind
<1>2. NoItem \in ItemRow /\ Active \in ProviderRow
  BY <1>1 DEF NoItem, ItemRow, Active, ProviderRow
<1>3. TypeOK
  BY <1>1, <1>2, RestTyped DEF Init, TypeOK
<1>4. OneHolder /\ CyclesFit
  BY RestTyped DEF Init, OneHolder, CyclesFit
<1>5. MessagesFit
  <2>1. ASSUME NEW m \in Messages
        PROVE  FitsIn(m, "skip", "new")
    BY SMT DEF Init, FitsIn, Fits, Counted, Honest, Workable, Agree, Accepted, NoItem
  <2>2. ASSUME NEW m \in Messages, NEW w \in Workers
        PROVE  tx[w].out[m] = "skip"
    BY RestTyped DEF Init
  <2> QED
    BY <2>1, <2>2 DEF MessagesFit
<1> QED
  BY <1>3, <1>4, <1>5 DEF OutboxInv

\* Every step keeps the invariant.
LEMMA StepFits ==
  ASSUME OutboxInv, [Next]_vars
  PROVE  OutboxInv'
<1>1. CASE \E m \in Messages : (\E kind \in KindsOf[m] : Post(m, kind)) \/ ComesDue(m)
  BY <1>1, MessageStepFits
<1>2. CASE \E m \in Messages, status \in {"sent", "delivered", "failed"} :
             UpdateMessageStatus(m, status)
  BY <1>2, MessageStepFits
<1>3. CASE EnqueueQueued
  BY <1>3, EnqueueFits
<1>4. CASE \E w \in Workers : CycleStep(w)
  BY <1>4, ProcessPendingFits, CommitFits, ProcessItemFits DEF CycleStep
<1>5. CASE \E w \in Workers : Abort(w)
  BY <1>5, AbortFits
<1>6. CASE RetryCommits
  BY <1>6, RetryFits
<1>7. CASE \/ \E m \in Messages : RetryLoadsItem(m)
           \/ \E w \in Workers : PauseEndsMidway(w)
           \/ RetryLoadsMessage \/ RetryFails \/ PauseProvider \/ ResumeProvider \/ PauseEnds
  BY <1>7, PanelFits
<1>8. CASE UNCHANGED vars
  <2>1. TypeOK' /\ CyclesFit'
    BY <1>8 DEF vars, history, OutboxInv, TypeOK, CyclesFit
  <2> QED
    BY <1>8, <2>1, ElsewhereFits DEF vars
<1> QED
  BY <1>1, <1>2, <1>3, <1>4, <1>5, <1>6, <1>7, <1>8 DEF Next

\* Each message, its item and the cycle that has it agree at every moment, and no two
\* cycles have the same message (SKIP LOCKED in process_pending).
THEOREM OutboxInvariant == Spec => []OutboxInv
<1> QED
  BY StartFits, StepFits, PTL DEF Spec

\* The rows, the cycles and the counters have the types declared for them.
THEOREM OutboxTypes == Spec => []TypeOK
<1>1. OutboxInv => TypeOK
  BY DEF OutboxInv
<1> QED
  BY <1>1, OutboxInvariant, PTL

\* A message is either free or held by one cycle; it fits in both cases.
LEMMA SomehowFits ==
  ASSUME OutboxInv, NEW m \in Messages
  PROVE  \E o \in Outcome : \E s : FitsIn(m, o, s)
<1>1. CASE Free(m)
  BY <1>1 DEF OutboxInv, MessagesFit, Outcome
<1>2. CASE ~Free(m)
  <2>1. PICK w \in Workers : tx[w].out[m] # "skip"
    BY <1>2 DEF Free
  <2>2. tx[w].out[m] \in Outcome
    BY DEF OutboxInv, TypeOK, Cycle
  <2> QED
    BY <2>1, <2>2 DEF OutboxInv, MessagesFit
<1> QED
  BY <1>1, <1>2

\* A customer gets a message twice only after a lost answer, a cycle rolled back or a
\* retry by hand, and, these cycles apart, never more often than max_attempts, however
\* many workers run (process_pending, _process_item, _fail_item, retry).
THEOREM CopiesHaveACause == Spec => []TwiceOnlyWithCause
<1>1. ASSUME OutboxInv, NEW m \in Messages
      PROVE  /\ took[m] <= 1 + unheard[m] + undone[m] + asked[m]
             /\ took[m] <= MaxAttempts + undone[m]
  <2>1. PICK o \in Outcome : \E s : FitsIn(m, o, s)
    BY <1>1, SomehowFits
  <2>2. Counted(item[m], o, took[m], unheard[m], undone[m], asked[m]) /\ Workable(item[m], o)
    BY <2>1 DEF FitsIn, Fits
  <2>3. /\ item[m] \in ItemRow
        /\ took[m] \in Nat /\ unheard[m] \in Nat /\ undone[m] \in Nat /\ asked[m] \in Nat
    BY <1>1 DEF OutboxInv, TypeOK
  <2> QED
    BY <2>2, <2>3, OutboxAssumption, SMT DEF Counted, Workable, Accepted, ItemRow
<1>2. OutboxInv => TwiceOnlyWithCause
  BY <1>1 DEF TwiceOnlyWithCause
<1> QED
  BY <1>2, OutboxInvariant, PTL

\* What the panel shows as sent the provider accepted, and as long as nobody retried a
\* message by hand its row and its item agree (the commits of process_pending, retry
\* and update_message_status).
THEOREM PanelIsRight == Spec => []PanelTellsTheTruth
<1>1. ASSUME OutboxInv, NEW m \in Messages
      PROVE  /\ item[m].status = "sent" \/ msg[m].status \in {"sent", "delivered"} => took[m] >= 1
             /\ asked[m] = 0 =>
                  /\ item[m].status \in {"pending", "failed"} => msg[m].status = "queued"
                  /\ item[m].status = "dead" => msg[m].status = "failed"
                  /\ item[m].status = "sent" => msg[m].status \in {"sent", "delivered", "failed"}
  <2>1. PICK o \in Outcome : \E s : FitsIn(m, o, s)
    BY <1>1, SomehowFits
  <2>2. PICK s : FitsIn(m, o, s)
    BY <2>1
  <2> QED
    BY <2>2 DEF FitsIn, Fits, Honest, Agree
<1>2. OutboxInv => PanelTellsTheTruth
  BY <1>1 DEF PanelTellsTheTruth
<1> QED
  BY <1>2, OutboxInvariant, PTL
=============================================================================
