------------------------- MODULE IdempotencyClaims -------------------------
(***************************************************************************)
(* Requests that may be sent again with the same Idempotency-Key           *)
(* (backend/services/idempotency_service.py) and the two routes that use   *)
(* it: an order made by staff (_create_manual_order, routes/orders.py),    *)
(* which gives a claim back when it fails and finds its order again by a   *)
(* reference, and a payment (create_payment, routes/payments.py), which    *)
(* does neither.                                                           *)
(*                                                                         *)
(* The claim, the result and the claim's completion are three commits;     *)
(* every action is what a request reads or commits between two of them.    *)
(***************************************************************************)
EXTENDS Naturals

CONSTANTS
  Requests,  \* each sent once; a retry is another request with the same key
  Keys,      \* key and operation, the unique constraint of the claims
  Payloads,  \* bodies, as far as request_hash tells them apart
  Flow,      \* the route a key is used with
  Nobody,
  MaxDeaths  \* bound: requests that die half way

ASSUME FlowAssumption   == Flow \in [Keys -> {"manual", "payment"}]
ASSUME NobodyAssumption == Nobody \notin Requests
ASSUME DeathsAssumption == MaxDeaths \in Nat

VARIABLES
  ask,    \* the key and the body each request has
  req,    \* the requests in flight
  claim,  \* idempotency_keys rows
  made,   \* the requests whose order or payment was committed, per key
  archived, \* those whose order an admin has archived since
  deaths  \* requests that died so far

vars == <<ask, req, claim, made, archived, deaths>>

Stage == { "new", "claim", "insert", "again", "look", "recover", "close", "work", "complete",
           "rescue", "abandon", "release", "told", "refused", "dead" }

Ask == [key : Keys, payload : Payloads]
Req == [ at     : Stage,
         found  : Requests \cup {Nobody},   \* the order it found by its reference
         due    : SUBSET Requests,          \* what had been made when it came
         answer : Requests \cup {Nobody} ]

\* A row is the request that inserted it (its id), the body's hash and resource_id.
NoClaim   == [status |-> "none"]
Claimed   == [status : {"processing"}, by : Requests, payload : Payloads]
Completed == [status : {"completed"}, by : Requests, payload : Payloads, resource : Requests]

\* The rows and the requests have their types; a completed claim names a result.
TypeOK ==
  /\ ask    \in [Requests -> Ask]
  /\ req    \in [Requests -> Req]
  /\ claim  \in [Keys -> Claimed \cup Completed \cup {NoClaim}]
  /\ made   \in [Keys -> SUBSET Requests]
  /\ archived \subseteq Requests
  /\ deaths \in 0..MaxDeaths

Init ==
  /\ ask    \in [Requests -> Ask]
  /\ req    = [r \in Requests |-> [at |-> "new", found |-> Nobody, due |-> {}, answer |-> Nobody]]
  /\ claim  = [k \in Keys |-> NoClaim]
  /\ made   = [k \in Keys |-> {}]
  /\ archived = {}
  /\ deaths = 0

-----------------------------------------------------------------------------
K(r)      == ask[r].key
Row(r)    == claim[K(r)]
Manual(r) == Flow[K(r)] = "manual"
At(r, s)  == req[r].at = s

InFlight(r) == req[r].at \notin {"new", "told", "refused", "dead"}

Go(r, s) == req' = [req EXCEPT ![r].at = s]
Find(r, w) == req' = [req EXCEPT ![r].at = "recover", ![r].found = w]
Tell(r, w) == req' = [req EXCEPT ![r].at = "told", ![r].answer = w]

\* The row with the claim's own id.
Own(r) == Row(r) # NoClaim /\ Row(r).by = r

\* A replayed order is loaded first, and refused when it is archived.  A request that
\* comes back to its own order after a failure answers with what it has found.
Answer(r, w) ==
  IF Manual(r) /\ ~Own(r) /\ w \in archived THEN Go(r, "refused") ELSE Tell(r, w)

Arrive(r) ==
  /\ At(r, "new")
  /\ req' = [req EXCEPT ![r].at = "claim", ![r].due = made[K(r)]]
  /\ UNCHANGED <<ask, claim, made, archived, deaths>>

-----------------------------------------------------------------------------
(* claim and recover_completed.                                            *)

\* Mutant: the body is not compared with the first one.
DiffersNever(r) == FALSE

\* record.request_hash != request_hash
Differs(r) == Row(r).payload # ask[r].payload

\* Mutant: a conflict ends the request, as it does for payments.
ConflictEnds(r) == "refused"

\* Where a route goes on after an IdempotencyConflict of claim.
Conflict(r) == IF Manual(r) THEN "look" ELSE "refused"

\* The first _find of claim finds nothing.
FindNone(r) ==
  /\ At(r, "claim") /\ Row(r) = NoClaim
  /\ Go(r, "insert")
  /\ UNCHANGED <<ask, claim, made, archived, deaths>>

\* _existing_claim: the claim of an earlier request, before or after the insertion.
Replay(r) ==
  /\ At(r, "claim") \/ At(r, "again")
  /\ Row(r).status = "completed"
  /\ ~Differs(r)
  /\ Answer(r, Row(r).resource)
  /\ UNCHANGED <<ask, claim, made, archived, deaths>>

Refuse(r) ==
  /\ At(r, "claim") \/ At(r, "again")
  /\ Row(r) # NoClaim
  /\ Differs(r) \/ Row(r).status = "processing"
  /\ Go(r, Conflict(r))
  /\ UNCHANGED <<ask, claim, made, archived, deaths>>

\* The unique constraint lets one of the insertions through.
Insert(r) ==
  /\ At(r, "insert")
  /\ IF Row(r) = NoClaim
     THEN /\ claim' = [claim EXCEPT ![K(r)] =
                         [status |-> "processing", by |-> r, payload |-> ask[r].payload]]
          /\ Go(r, "work")
     ELSE Go(r, "again") /\ UNCHANGED claim
  /\ UNCHANGED <<ask, made, archived, deaths>>

\* The claim that was in the way has been abandoned: the IntegrityError is raised.
AgainNone(r) ==
  /\ At(r, "again") /\ Row(r) = NoClaim
  /\ Go(r, "refused")
  /\ UNCHANGED <<ask, claim, made, archived, deaths>>

\* Refused by the claim, the route looks for the order by its external reference.
Look(r) ==
  /\ At(r, "look")
  /\ \/ \E w \in made[K(r)] : Find(r, w)
     \/ made[K(r)] = {} /\ Go(r, "refused")
  /\ UNCHANGED <<ask, claim, made, archived, deaths>>

Recover(r) ==
  /\ At(r, "recover")
  /\ IF Row(r) = NoClaim \/ Differs(r) THEN Go(r, "refused")
     ELSE IF Row(r).status = "completed" THEN Answer(r, Row(r).resource)
     ELSE Go(r, "close")
  /\ UNCHANGED <<ask, claim, made, archived, deaths>>

\* Mutant: the claim is completed without its resource.
DoneOfNone(r, w) == [Row(r) EXCEPT !.status = "completed"]

\* record.status and record.resource_id
Done(r, w) == [ status |-> "completed", by |-> Row(r).by, payload |-> Row(r).payload,
                resource |-> w ]

\* The commit of recover_completed.
Close(r) ==
  /\ At(r, "close") /\ Row(r) # NoClaim
  /\ claim' = [claim EXCEPT ![K(r)] = Done(r, req[r].found)]
  /\ Answer(r, req[r].found)
  /\ UNCHANGED <<ask, made, archived, deaths>>

-----------------------------------------------------------------------------
(* The business operation, complete and abandon.                           *)

\* Mutant: a failed request leaves its claim, as it does for payments.
FailureEnds(r) == "refused"

\* The handlers of DomainError, and for orders of any other exception.
Failure(r) == IF Manual(r) THEN "rescue" ELSE "refused"

\* create_from_checkout (the reference is unique) and PaymentService.create.
Create(r) ==
  /\ At(r, "work")
  /\ Manual(r) => made[K(r)] = {}
  /\ made' = [made EXCEPT ![K(r)] = made[K(r)] \cup {r}]
  /\ Go(r, "complete")
  /\ UNCHANGED <<ask, claim, archived, deaths>>

\* An exception before the result is committed, or after it: of what follows the
\* commit (a coupon's is in the middle), of the event's handlers, of complete.
Fail(r) ==
  /\ At(r, "work") \/ At(r, "complete")
  /\ Go(r, Failure(r))
  /\ UNCHANGED <<ask, claim, made, archived, deaths>>

\* complete; a manual order is then loaded again, which may fail.
Complete(r) ==
  /\ At(r, "complete") /\ Row(r) # NoClaim
  /\ claim' = [claim EXCEPT ![K(r)] = Done(r, r)]
  /\ Tell(r, r) \/ (Manual(r) /\ Go(r, "rescue"))
  /\ UNCHANGED <<ask, made, archived, deaths>>

\* The handlers look for the order before they give the claim back.
Rescue(r) ==
  /\ At(r, "rescue")
  /\ \/ \E w \in made[K(r)] : Find(r, w)
     \/ made[K(r)] = {} /\ Go(r, "abandon")
  /\ UNCHANGED <<ask, claim, made, archived, deaths>>

AbandonLoads(r) ==
  /\ At(r, "abandon")
  /\ Go(r, IF Own(r) /\ Row(r).status = "processing" THEN "release" ELSE "refused")
  /\ UNCHANGED <<ask, claim, made, archived, deaths>>

AbandonDeletes(r) ==
  /\ At(r, "release")
  /\ claim' = [claim EXCEPT ![K(r)] = IF Own(r) THEN NoClaim ELSE Row(r)]
  /\ Go(r, "refused")
  /\ UNCHANGED <<ask, made, archived, deaths>>

\* OrderService.archive, by an admin: the order disappears from what service.get finds.
Archive(r) ==
  /\ r \in made[K(r)] /\ Manual(r)
  /\ archived' = archived \cup {r}
  /\ UNCHANGED <<ask, req, claim, made, deaths>>

\* The process, or its connection to the database while it cleans up, is lost.
Die(r) ==
  /\ InFlight(r)
  /\ deaths < MaxDeaths
  /\ Go(r, "dead")
  /\ deaths' = deaths + 1
  /\ UNCHANGED <<ask, claim, made, archived>>

Next == \E r \in Requests :
  \/ Arrive(r)
  \/ FindNone(r)
  \/ Replay(r)
  \/ Refuse(r)
  \/ Insert(r)
  \/ AgainNone(r)
  \/ Look(r)
  \/ Recover(r)
  \/ Close(r)
  \/ Create(r)
  \/ Fail(r)
  \/ Complete(r)
  \/ Rescue(r)
  \/ AbandonLoads(r)
  \/ AbandonDeletes(r)
  \/ Archive(r)
  \/ Die(r)

Spec == Init /\ [][Next]_vars

-----------------------------------------------------------------------------
Promise == INSTANCE OneResult WITH told <- [r \in Requests |-> req[r].answer]

\* However requests with one key overlap, fail, give up the claim, find the order
\* again or die, one order or payment is made, and only those are answered with it
\* who asked for the same thing.
ResultOnce == Promise!Spec

\* A claim on a manual order is given back or completed by the request that made
\* it, unless that request died: whoever is told that the key is being processed
\* may wait for somebody.
NoKeyLeftBehind == \A k \in Keys :
  Flow[k] = "manual" /\ claim[k].status = "processing"
    => InFlight(claim[k].by) \/ At(claim[k].by, "dead")

\* Whoever repeats a manual order that was made is not refused, whatever became of
\* the first request, unless the repetition asks for something else or an admin has
\* archived the order.
RetryFindsTheOrder == \A r \in Requests :
  At(r, "refused") /\ Manual(r) =>
    \A w \in req[r].due : ask[w].payload # ask[r].payload \/ w \in archived
=============================================================================
