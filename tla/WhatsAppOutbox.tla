--------------------------- MODULE WhatsAppOutbox ---------------------------
(***************************************************************************)
(* Messages to customers on WhatsApp and the queue they are sent from      *)
(* (backend/services/agente_whatsapp_outbox_service.py).  A worker in each *)
(* API process, or an administrator, runs a cycle (agente_whatsapp_        *)
(* worker.py): queued messages get an item, items that are due are locked  *)
(* with SKIP LOCKED and handed to the provider one by one, and everything  *)
(* that came of it is committed at the end, or rolled back together.       *)
(*                                                                         *)
(* What a cycle has flushed is locked until it ends, so writes of others   *)
(* to these rows wait for it: every transaction writes in its last step.   *)
(***************************************************************************)
EXTENDS Naturals, FiniteSets

CONSTANTS
  Messages,     \* outbound rows of agente_whatsapp_messages
  Workers,      \* cycles that run at the same time
  MaxAttempts,  \* max_attempts
  Threshold,    \* AGENTE_WHATSAPP_PROVIDER_FAILURE_THRESHOLD
  KindsOf,      \* bound: what a message may be
  MaxTroubles   \* bound: cycles rolled back, answers lost, retries and pauses by hand

ASSUME OutboxAssumption ==
  /\ MaxAttempts \in Nat \ {0} /\ Threshold \in Nat \ {0}
  /\ MaxTroubles \in Nat

VARIABLES
  msg,       \* agente_whatsapp_messages rows
  item,      \* agente_whatsapp_outbox rows, one per message
  provider,  \* the row of agente_whatsapp_provider_states
  tx,        \* what each cycle has locked, read and made of it
  ask,       \* the retry by hand in flight
  took,      \* how often the provider accepted the message
  unheard,   \* how often it did and its answer was lost
  undone,    \* how often it did and the cycle was rolled back
  asked,     \* how often a retry by hand was committed
  troubles   \* cycles rolled back, answers lost, retries and pauses by hand so far

history == <<took, unheard, undone, asked>>
vars    == <<msg, item, provider, tx, ask, history, troubles>>

MessageStatus == {"new", "queued", "sent", "delivered", "failed", "blocked_review"}

\* Written by the AI and not approved by its manager; of a session without a phone
\* number; audio, while the gateway does not send audio; and all the others.
Kind        == {"plain", "audio", "no_phone", "unapproved"}
MessageRow  == [status : MessageStatus, kind : Kind, pid : BOOLEAN]  \* provider_message_id is set

ASSUME KindsAssumption == KindsOf \in [Messages -> SUBSET Kind]

ItemRow       == [ status   : {"none", "pending", "failed", "sent", "dead"},
                   attempts : 0..MaxAttempts,
                   due      : BOOLEAN ]                     \* next_attempt_at is null or past
NoItem        == [status |-> "none", attempts |-> 0, due |-> TRUE]

Columns     == {"status", "failures", "until"}
ProviderRow == [ status   : {"active", "paused"},
                 failures : 0..Threshold,
                 until    : {"none", "ahead", "passed"} ]   \* paused_until
Active      == [status |-> "active", failures |-> 0, until |-> "none"]
Unread      == [status |-> "unread"]

\* What a cycle made of a message; "skip" is one it has not locked, "turned" one
\* that got no item.
Outcome == {"skip", "turned", "todo", "deferred", "silent", "already", "sent", "unheard", "refused"}
Accepted == {"sent", "unheard"}

Cycle == [ busy  : BOOLEAN,
           out   : [Messages -> Outcome],
           seen  : [Messages -> MessageStatus],   \* the message's status when it was loaded
           view  : ProviderRow \cup {Unread},     \* the provider as the session has it
           dirty : SUBSET Columns ]               \* its columns to be written
Rest == [ busy |-> FALSE, out |-> [m \in Messages |-> "skip"],
          seen |-> [m \in Messages |-> "new"], view |-> Unread, dirty |-> {} ]

Ask     == [ at : {"item", "message"}, of : Messages,
             item : {"pending", "failed", "sent", "dead"}, msg : MessageStatus ]
NoAsk   == [at |-> "idle"]

TypeOK ==
  /\ msg      \in [Messages -> MessageRow]
  /\ item     \in [Messages -> ItemRow]
  /\ provider \in ProviderRow
  /\ tx       \in [Workers -> Cycle]
  /\ ask      \in Ask \cup {NoAsk}
  /\ took \in [Messages -> Nat] /\ unheard \in [Messages -> Nat]
  /\ undone \in [Messages -> Nat] /\ asked \in [Messages -> Nat]
  /\ troubles \in 0..MaxTroubles

Init ==
  /\ msg      = [m \in Messages |-> [status |-> "new", kind |-> "plain", pid |-> FALSE]]
  /\ item     = [m \in Messages |-> NoItem]
  /\ provider = Active
  /\ tx       = [w \in Workers |-> Rest]
  /\ ask      = NoAsk
  /\ took     = [m \in Messages |-> 0] /\ unheard = [m \in Messages |-> 0]
  /\ undone   = [m \in Messages |-> 0] /\ asked   = [m \in Messages |-> 0]
  /\ troubles = 0

-----------------------------------------------------------------------------
(* Messages become items.                                                  *)

\* Mutant: the rows are read without a lock.
FreeAlways(m) == TRUE

\* with_for_update(skip_locked): no cycle has the message or its item.
Free(m) == \A w \in Workers : tx[w].out[m] = "skip"

Unqueued == { m \in Messages : msg[m].status = "queued" /\ item[m].status = "none" /\ Free(m) }
TurnedAway == { m \in Messages : msg[m].kind \in {"no_phone", "unapproved"} }
TurnedTo(m) == IF msg[m].kind = "no_phone" THEN "failed" ELSE "blocked_review"

Post(m, kind) ==
  /\ msg[m].status = "new"
  /\ msg' = [msg EXCEPT ![m] = [@ EXCEPT !.status = "queued", !.kind = kind]]
  /\ UNCHANGED <<item, provider, tx, ask, history, troubles>>

\* POST /outbox/enqueue: enqueue_queued_messages and a commit.
EnqueueQueued ==
  /\ Unqueued # {}
  /\ item' = [m \in Messages |-> IF m \in Unqueued \ TurnedAway
                                 THEN [NoItem EXCEPT !.status = "pending"] ELSE item[m]]
  /\ msg'  = [m \in Messages |-> IF m \in Unqueued \cap TurnedAway
                                 THEN [msg[m] EXCEPT !.status = TurnedTo(m)] ELSE msg[m]]
  /\ UNCHANGED <<provider, tx, ask, history, troubles>>

-----------------------------------------------------------------------------
(* A cycle: process_pending, _process_item, and the end of the transaction. *)

TriesLeft(m) == item[m].attempts < MaxAttempts

\* Mutant: only items that were never tried are looked for.
PendingOnly(m) == item[m].status = "pending"
Waiting(m) == item[m].status \in {"pending", "failed"}

Ready == { m \in Messages : Waiting(m) /\ TriesLeft(m) /\ item[m].due /\ Free(m) }

\* What was enqueued by the cycle itself is due at once.
ProcessPending(w) ==
  /\ ~tx[w].busy
  /\ Unqueued \cup Ready # {}
  /\ tx' = [tx EXCEPT ![w] = [Rest EXCEPT
       !.busy = TRUE,
       !.out  = [m \in Messages |-> IF m \in Ready \cup (Unqueued \ TurnedAway) THEN "todo"
                                    ELSE IF m \in Unqueued THEN "turned" ELSE "skip"],
       !.seen = [m \in Messages |-> IF m \in Unqueued THEN "queued" ELSE "new"]]]
  /\ UNCHANGED <<msg, item, provider, ask, history, troubles>>

\* The provider's row is loaded once in a transaction.
View(w) == IF tx[w].view = Unread THEN provider ELSE tx[w].view

\* _is_provider_paused: a pause that is over ends here.
Rested(v) == IF v.status = "paused" /\ v.until = "passed" THEN Active ELSE v

\* _record_provider_failure; failures beyond the threshold are not told apart.
Failed(v) == IF v.failures + 1 >= Threshold
             THEN [status |-> "paused", failures |-> Threshold, until |-> "ahead"]
             ELSE [v EXCEPT !.failures = @ + 1]

Changed(v, v2) == { c \in Columns : v[c] # v2[c] }

\* The cycle has dealt with m, and leaves the provider as v in its session.
Handles(w, m, outcome, v) ==
  LET rested == Rested(View(w))
  IN tx' = [tx EXCEPT ![w] = [@ EXCEPT
       !.out[m]  = outcome,
       !.seen[m] = msg[m].status,
       !.view    = v,
       !.dirty   = tx[w].dirty \cup Changed(View(w), rested) \cup Changed(rested, v)]]

Todo(w, m)  == tx[w].busy /\ tx[w].out[m] = "todo"
Usable(w)   == Rested(View(w)).status = "active"
AlreadySent(m) == msg[m].status = "sent" /\ msg[m].pid

\* _defer_item, because the provider is paused: no attempt is counted.
DeferItem(w, m) ==
  /\ Todo(w, m) /\ ~Usable(w)
  /\ Handles(w, m, "deferred", View(w))
  /\ UNCHANGED <<msg, item, provider, ask, history, troubles>>

\* Somebody else's cycle has sent it.
SkipSent(w, m) ==
  /\ Todo(w, m) /\ Usable(w) /\ AlreadySent(m)
  /\ Handles(w, m, "already", Active)
  /\ UNCHANGED <<msg, item, provider, ask, history, troubles>>

\* _defer_item, because the gateway sends no audio: the attempt is counted.
DeferAudio(w, m) ==
  /\ Todo(w, m) /\ Usable(w) /\ ~AlreadySent(m) /\ msg[m].kind = "audio"
  /\ Handles(w, m, "silent", Rested(View(w)))
  /\ UNCHANGED <<msg, item, provider, ask, history, troubles>>

MaySend(w, m) == Todo(w, m) /\ Usable(w) /\ ~AlreadySent(m) /\ msg[m].kind # "audio"

SendAccepted(w, m) ==
  /\ MaySend(w, m)
  /\ Handles(w, m, "sent", Active)
  /\ took' = [took EXCEPT ![m] = @ + 1]
  /\ UNCHANGED <<msg, item, provider, ask, unheard, undone, asked, troubles>>

\* Refused, or not reached.
SendRefused(w, m) ==
  /\ MaySend(w, m)
  /\ Handles(w, m, "refused", Failed(Rested(View(w))))
  /\ UNCHANGED <<msg, item, provider, ask, history, troubles>>

\* The provider has the message; the call timed out.
SendUnheard(w, m) ==
  /\ MaySend(w, m) /\ troubles < MaxTroubles
  /\ Handles(w, m, "unheard", Failed(Rested(View(w))))
  /\ took'    = [took EXCEPT ![m] = @ + 1]
  /\ unheard' = [unheard EXCEPT ![m] = @ + 1]
  /\ troubles' = troubles + 1
  /\ UNCHANGED <<msg, item, provider, ask, undone, asked>>

ProcessItem(w, m) ==
  \/ DeferItem(w, m) \/ SkipSent(w, m) \/ DeferAudio(w, m)
  \/ SendAccepted(w, m) \/ SendRefused(w, m) \/ SendUnheard(w, m)

Tries(m, outcome) == IF outcome = "deferred" THEN item[m].attempts ELSE item[m].attempts + 1

\* _fail_item beside the other ends of _process_item.
ItemAfter(m, outcome) ==
  LET tries == Tries(m, outcome)
      dead  == outcome \in {"unheard", "refused"} /\ tries >= MaxAttempts
  IN IF outcome \in {"skip", "turned"} THEN item[m]
     ELSE [ status   |-> IF outcome \in {"sent", "already"} THEN "sent"
                         ELSE IF dead THEN "dead" ELSE "failed",
            attempts |-> tries,
            due      |-> dead \/ outcome \in {"sent", "already"} ]

\* Mutant: a message whose item died stays queued.
StatusUnlessDead(m, outcome, seen) ==
  IF outcome = "turned" THEN TurnedTo(m)
  ELSE IF outcome = "sent" THEN "sent"
  ELSE IF outcome \in {"skip", "already"} THEN seen
  ELSE "queued"

StatusAfter(m, outcome, seen) ==
  IF outcome = "turned" THEN TurnedTo(m)
  ELSE IF outcome = "sent" THEN "sent"
  ELSE IF outcome \in {"skip", "already"} THEN seen
  ELSE IF ItemAfter(m, outcome).status = "dead" THEN "failed" ELSE "queued"

\* Only a status that differs from the one loaded is written.
MessageAfter(m, outcome, seen) ==
  LET status == StatusAfter(m, outcome, seen)
  IN [msg[m] EXCEPT !.status = IF status = seen THEN @ ELSE status,
                    !.pid = @ \/ outcome = "sent"]

\* So is the provider's row, column by column, over what others wrote meanwhile.
ProviderAfter(t) ==
  [ status   |-> IF "status"   \in t.dirty THEN t.view.status   ELSE provider.status,
    failures |-> IF "failures" \in t.dirty THEN t.view.failures ELSE provider.failures,
    until    |-> IF "until"    \in t.dirty THEN t.view.until    ELSE provider.until ]

Commit(w) ==
  LET t == tx[w]
  IN /\ t.busy /\ \A m \in Messages : t.out[m] # "todo"
     /\ item' = [m \in Messages |-> ItemAfter(m, t.out[m])]
     /\ msg'  = [m \in Messages |-> MessageAfter(m, t.out[m], t.seen[m])]
     /\ provider' = ProviderAfter(t)
     /\ tx' = [tx EXCEPT ![w] = Rest]
     /\ UNCHANGED <<ask, history, troubles>>

\* An exception, a deadlock or a crash rolls the whole cycle back.
Abort(w) ==
  /\ tx[w].busy /\ troubles < MaxTroubles
  /\ tx' = [tx EXCEPT ![w] = Rest]
  /\ undone' = [m \in Messages |-> undone[m] + (IF tx[w].out[m] \in Accepted THEN 1 ELSE 0)]
  /\ troubles' = troubles + 1
  /\ UNCHANGED <<msg, item, provider, ask, took, unheard, asked>>

-----------------------------------------------------------------------------
(* The panel, the provider's notices, and time.                            *)

\* retry loads the item, then its message, and writes what it changed; it waits for
\* a cycle that has the item.
RetryLoadsItem(m) ==
  /\ ask = NoAsk /\ troubles < MaxTroubles
  /\ item[m].status # "none"
  /\ ask' = [at |-> "item", of |-> m, item |-> item[m].status, msg |-> "new"]
  /\ troubles' = troubles + 1
  /\ UNCHANGED <<msg, item, provider, tx, history>>

RetryLoadsMessage ==
  /\ ask.at = "item"
  /\ ask' = [ask EXCEPT !.at = "message", !.msg = msg[ask.of].status]
  /\ UNCHANGED <<msg, item, provider, tx, history, troubles>>

RetryCommits ==
  /\ ask.at = "message" /\ Free(ask.of)
  /\ item' = [item EXCEPT ![ask.of].status = IF ask.item = "pending" THEN @ ELSE "pending",
                          ![ask.of].due = TRUE]
  /\ msg'  = [msg EXCEPT ![ask.of].status = IF ask.msg = "queued" THEN @ ELSE "queued"]
  /\ asked' = [asked EXCEPT ![ask.of] = @ + 1]
  /\ ask' = NoAsk
  /\ UNCHANGED <<provider, tx, took, unheard, undone, troubles>>

RetryFails ==
  /\ ask # NoAsk
  /\ ask' = NoAsk
  /\ UNCHANGED <<msg, item, provider, tx, history, troubles>>

\* update_message_status finds the message by the name the provider gave it.
UpdateMessageStatus(m, status) ==
  /\ msg[m].pid
  /\ msg' = [msg EXCEPT ![m].status = status]
  /\ UNCHANGED <<item, provider, tx, ask, history, troubles>>

PauseProvider ==
  /\ troubles < MaxTroubles
  /\ provider' = [provider EXCEPT !.status = "paused", !.until = "ahead"]
  /\ troubles' = troubles + 1
  /\ UNCHANGED <<msg, item, tx, ask, history>>

ResumeProvider ==
  /\ provider' = Active
  /\ UNCHANGED <<msg, item, tx, ask, history, troubles>>

PauseEnds ==
  /\ provider.until = "ahead"
  /\ provider' = [provider EXCEPT !.until = "passed"]
  /\ UNCHANGED <<msg, item, tx, ask, history, troubles>>

\* The pause a cycle knows of ends while it runs.
PauseEndsMidway(w) ==
  /\ tx[w].view # Unread /\ tx[w].view.until = "ahead"
  /\ tx' = [tx EXCEPT ![w].view.until = "passed"]
  /\ UNCHANGED <<msg, item, provider, ask, history, troubles>>

ComesDue(m) ==
  /\ ~item[m].due
  /\ item' = [item EXCEPT ![m].due = TRUE]
  /\ UNCHANGED <<msg, provider, tx, ask, history, troubles>>

-----------------------------------------------------------------------------

CycleStep(w) ==
  \/ ProcessPending(w) \/ Commit(w)
  \/ \E m \in Messages : ProcessItem(w, m)

Next ==
  \/ \E m \in Messages : (\E kind \in KindsOf[m] : Post(m, kind)) \/ ComesDue(m) \/ RetryLoadsItem(m)
  \/ \E m \in Messages, status \in {"sent", "delivered", "failed"} : UpdateMessageStatus(m, status)
  \/ EnqueueQueued
  \/ \E w \in Workers :
       CycleStep(w) \/ Abort(w) \/ PauseEndsMidway(w)
  \/ RetryLoadsMessage \/ RetryCommits \/ RetryFails
  \/ PauseProvider \/ ResumeProvider \/ PauseEnds

Spec == Init /\ [][Next]_vars

\* Every process runs its loop, remote calls have timeouts, and clocks advance.
FairSpec ==
  /\ Spec
  /\ \A w \in Workers : WF_vars(CycleStep(w))
  /\ \A m \in Messages : WF_vars(ComesDue(m))
  /\ WF_vars(PauseEnds)

-----------------------------------------------------------------------------
(* Properties.                                                             *)

\* A customer gets a message a second time only for a reason: an answer that was
\* lost, a cycle that was rolled back after sending, a retry by hand.  Two workers,
\* or a worker and the panel, are no reason (agente_whatsapp_worker.py: "Row locking
\* in the service prevents multiple workers from sending the same item").  And not
\* even retries send it more often than max_attempts, rolled back cycles apart.
TwiceOnlyWithCause ==
  \A m \in Messages :
    /\ took[m] <= 1 + unheard[m] + undone[m] + asked[m]
    /\ took[m] <= MaxAttempts + undone[m]

\* The panel tells the truth: nothing is shown as sent that the provider never
\* accepted, and as long as nobody retried it by hand a message and its item agree,
\* although they are written by cycles, the panel and the provider's notices.
PanelTellsTheTruth ==
  \A m \in Messages :
    /\ item[m].status = "sent" \/ msg[m].status \in {"sent", "delivered"} => took[m] >= 1
    /\ asked[m] = 0 =>
         /\ item[m].status \in {"pending", "failed"} => msg[m].status = "queued"
         /\ item[m].status = "dead" => msg[m].status = "failed"
         /\ item[m].status = "sent" => msg[m].status \in {"sent", "delivered", "failed"}

\* A message that is queued is sent or given up in the end, through pauses, lost
\* answers and rolled back cycles.  A retry by hand may leave it queued for good.
QueuedIsSettled ==
  \A m \in Messages :
    msg[m].status = "queued" /\ msg[m].kind # "audio" ~> msg[m].status # "queued" \/ asked[m] > 0
=============================================================================
