---------------------------- MODULE ClaimsProofs ----------------------------
(***************************************************************************)
(* Theorems about IdempotencyClaims, for any number of keys, requests,     *)
(* bodies and deaths.                                                      *)
(***************************************************************************)
EXTENDS IdempotencyClaims, TLAPS

-----------------------------------------------------------------------------
(* Types.                                                                  *)

\* A request changes nothing of itself but where it is and what it knows.
LEMMA Going ==
  ASSUME TypeOK, NEW r \in Requests, NEW s \in Stage, Go(r, s)
  PROVE  req' \in [Requests -> Req]
BY DEF TypeOK, Go, Req

LEMMA Finding ==
  ASSUME TypeOK, NEW r \in Requests, NEW w \in Requests, Find(r, w)
  PROVE  req' \in [Requests -> Req]
<1>1. "recover" \in Stage
  BY DEF Stage
<1>2. req[r] \in Req
  BY DEF TypeOK
<1>3. [req[r] EXCEPT !.at = "recover", !.found = w] \in Req
  BY <1>1, <1>2 DEF Req
<1>4. QED
  BY <1>3 DEF TypeOK, Find

LEMMA Telling ==
  ASSUME TypeOK, NEW r \in Requests, NEW w \in Requests, Tell(r, w)
  PROVE  req' \in [Requests -> Req]
<1>1. "told" \in Stage
  BY DEF Stage
<1>2. req[r] \in Req
  BY DEF TypeOK
<1>3. [req[r] EXCEPT !.at = "told", !.answer = w] \in Req
  BY <1>1, <1>2 DEF Req
<1>4. QED
  BY <1>3 DEF TypeOK, Tell

LEMMA Answering ==
  ASSUME TypeOK, NEW r \in Requests, NEW w \in Requests, Answer(r, w)
  PROVE  req' \in [Requests -> Req]
<1>1. "refused" \in Stage
  BY DEF Stage
<1>2. QED
  BY <1>1, Going, Telling DEF Answer

\* What a row is, by its status.
LEMMA Rows ==
  ASSUME TypeOK, NEW k \in Keys
  PROVE  /\ claim[k] = NoClaim <=> claim[k].status = "none"
         /\ claim[k] # NoClaim => /\ claim[k].status \in {"processing", "completed"}
                                  /\ claim[k].by \in Requests
                                  /\ claim[k].payload \in Payloads
         /\ claim[k].status = "processing" => claim[k] \in Claimed
         /\ claim[k].status = "completed" => claim[k].resource \in Requests
<1>1. claim[k] \in Claimed \cup Completed \cup {NoClaim}
  BY DEF TypeOK
<1>2. CASE claim[k] \in Claimed
  BY <1>2 DEF Claimed, NoClaim
<1>3. CASE claim[k] \in Completed
  BY <1>3 DEF Completed, NoClaim
<1>4. CASE claim[k] = NoClaim
  BY <1>4 DEF NoClaim
<1>5. QED
  BY <1>1, <1>2, <1>3, <1>4

LEMMA Requested ==
  ASSUME TypeOK, NEW r \in Requests
  PROVE  /\ K(r) \in Keys
         /\ ask[r].payload \in Payloads
         /\ made[K(r)] \subseteq Requests
         /\ req[r].found \in Requests \cup {Nobody}
BY DEF TypeOK, Ask, Req, K

LEMMA Finishing ==
  ASSUME TypeOK, NEW r \in Requests, Row(r) # NoClaim, NEW w \in Requests
  PROVE  Done(r, w) \in Completed
<1>1. K(r) \in Keys
  BY Requested
<1>2. Row(r).by \in Requests /\ Row(r).payload \in Payloads
  BY <1>1, Rows DEF Row
<1>3. QED
  BY <1>2 DEF Done, Completed

\* Every step keeps the types.
LEMMA TypesKept ==
  ASSUME TypeOK, [Next]_vars,
         \A r \in Requests : At(r, "close") => req[r].found \in Requests
  PROVE  TypeOK'
<1>1. CASE UNCHANGED vars
  BY <1>1 DEF TypeOK, vars
<1>2. ASSUME NEW r \in Requests, Arrive(r)
      PROVE  TypeOK'
  <2>1. req' \in [Requests -> Req]
    <3>1. "claim" \in Stage
      BY DEF Stage
    <3>2. made[K(r)] \in SUBSET Requests
      BY Requested
    <3>3. req[r] \in Req
      BY DEF TypeOK
    <3>4. [req[r] EXCEPT !.at = "claim", !.due = made[K(r)]] \in Req
      BY <3>1, <3>2, <3>3 DEF Req
    <3>5. QED
      BY <1>2, <3>4 DEF TypeOK, Arrive
  <2>2. QED
    BY <1>2, <2>1 DEF TypeOK, Arrive
<1>3. ASSUME NEW r \in Requests, FindNone(r)
      PROVE  TypeOK'
  <2>1. "insert" \in Stage
    BY DEF Stage
  <2>2. QED
    BY <1>3, <2>1, Going DEF TypeOK, FindNone
<1>4. ASSUME NEW r \in Requests, Refuse(r)
      PROVE  TypeOK'
  <2>1. Conflict(r) \in Stage
    BY DEF Stage, Conflict
  <2>2. QED
    BY <1>4, <2>1, Going DEF TypeOK, Refuse
<1>5. ASSUME NEW r \in Requests, AgainNone(r)
      PROVE  TypeOK'
  <2>1. "refused" \in Stage
    BY DEF Stage
  <2>2. QED
    BY <1>5, <2>1, Going DEF TypeOK, AgainNone
<1>6. ASSUME NEW r \in Requests, Fail(r)
      PROVE  TypeOK'
  <2>1. Failure(r) \in Stage
    BY DEF Stage, Failure
  <2>2. QED
    BY <1>6, <2>1, Going DEF TypeOK, Fail
<1>7. ASSUME NEW r \in Requests, AbandonLoads(r)
      PROVE  TypeOK'
  <2>1. (IF Own(r) /\ Row(r).status = "processing" THEN "release" ELSE "refused") \in Stage
    BY DEF Stage
  <2>2. QED
    BY <1>7, <2>1, Going DEF TypeOK, AbandonLoads
<1>8. ASSUME NEW r \in Requests, Replay(r)
      PROVE  TypeOK'
  <2>1. Row(r).resource \in Requests
    BY <1>8, Rows, Requested DEF Replay, Row
  <2>2. QED
    BY <1>8, <2>1, Answering DEF TypeOK, Replay
<1>9. ASSUME NEW r \in Requests, Insert(r)
      PROVE  TypeOK'
  <2>1. "work" \in Stage /\ "again" \in Stage
    BY DEF Stage
  <2>2. req' \in [Requests -> Req]
    BY <1>9, <2>1, Going DEF Insert
  <2>3. [status |-> "processing", by |-> r, payload |-> ask[r].payload] \in Claimed
    BY Requested DEF Claimed
  <2>4. claim' \in [Keys -> Claimed \cup Completed \cup {NoClaim}]
    BY <1>9, <2>3, Requested DEF TypeOK, Insert
  <2>5. QED
    BY <1>9, <2>2, <2>4 DEF TypeOK, Insert
<1>10. ASSUME NEW r \in Requests, Look(r)
      PROVE  TypeOK'
  <2>1. "refused" \in Stage
    BY DEF Stage
  <2>2. req' \in [Requests -> Req]
    BY <1>10, <2>1, Going, Finding, Requested DEF Look
  <2>3. QED
    BY <1>10, <2>2 DEF TypeOK, Look
<1>11. ASSUME NEW r \in Requests, Rescue(r)
      PROVE  TypeOK'
  <2>1. "abandon" \in Stage
    BY DEF Stage
  <2>2. req' \in [Requests -> Req]
    BY <1>11, <2>1, Going, Finding, Requested DEF Rescue
  <2>3. QED
    BY <1>11, <2>2 DEF TypeOK, Rescue
<1>12. ASSUME NEW r \in Requests, Recover(r)
      PROVE  TypeOK'
  <2>1. "refused" \in Stage /\ "close" \in Stage
    BY DEF Stage
  <2>2. Row(r).status = "completed" => Row(r).resource \in Requests
    BY Rows, Requested DEF Row
  <2>3. req' \in [Requests -> Req]
    BY <1>12, <2>1, <2>2, Going, Answering DEF Recover
  <2>4. QED
    BY <1>12, <2>3 DEF TypeOK, Recover
<1>13. ASSUME NEW r \in Requests, Create(r)
      PROVE  TypeOK'
  <2>1. "complete" \in Stage
    BY DEF Stage
  <2>2. req' \in [Requests -> Req]
    BY <1>13, <2>1, Going DEF Create
  <2>3. made' \in [Keys -> SUBSET Requests]
    BY <1>13, Requested DEF TypeOK, Create
  <2>4. QED
    BY <1>13, <2>2, <2>3 DEF TypeOK, Create
<1>14. ASSUME NEW r \in Requests, Complete(r)
      PROVE  TypeOK'
  <2>1. "rescue" \in Stage
    BY DEF Stage
  <2>2. req' \in [Requests -> Req]
    BY <1>14, <2>1, Going, Telling DEF Complete
  <2>3. claim' \in [Keys -> Claimed \cup Completed \cup {NoClaim}]
    BY <1>14, Finishing DEF TypeOK, Complete
  <2>4. QED
    BY <1>14, <2>2, <2>3 DEF TypeOK, Complete
<1>15. ASSUME NEW r \in Requests, AbandonDeletes(r)
      PROVE  TypeOK'
  <2>1. "refused" \in Stage
    BY DEF Stage
  <2>2. req' \in [Requests -> Req]
    BY <1>15, <2>1, Going DEF AbandonDeletes
  <2>3. claim' \in [Keys -> Claimed \cup Completed \cup {NoClaim}]
    BY <1>15, Requested DEF TypeOK, AbandonDeletes, Row
  <2>4. QED
    BY <1>15, <2>2, <2>3 DEF TypeOK, AbandonDeletes
<1>16. ASSUME NEW r \in Requests, Die(r)
      PROVE  TypeOK'
  <2>1. "dead" \in Stage
    BY DEF Stage
  <2>2. req' \in [Requests -> Req]
    BY <1>16, <2>1, Going DEF Die
  <2>3. deaths' \in 0..MaxDeaths
    BY <1>16, DeathsAssumption DEF TypeOK, Die
  <2>4. QED
    BY <1>16, <2>2, <2>3 DEF TypeOK, Die
<1>17. ASSUME NEW r \in Requests, Close(r), req[r].found \in Requests
      PROVE  TypeOK'
  <2>1. req' \in [Requests -> Req]
    BY <1>17, Answering DEF Close
  <2>2. claim' \in [Keys -> Claimed \cup Completed \cup {NoClaim}]
    BY <1>17, Finishing DEF TypeOK, Close
  <2>3. QED
    BY <1>17, <2>1, <2>2 DEF TypeOK, Close
<1>18. ASSUME NEW r \in Requests, Archive(r)
       PROVE  TypeOK'
  BY <1>18 DEF TypeOK, Archive
<1>19. QED
  BY <1>1, <1>2, <1>3, <1>4, <1>5, <1>6, <1>7, <1>8, <1>9, <1>10, <1>11, <1>12, <1>13, <1>14, <1>15, <1>16, <1>17, <1>18 DEF Next, Close

-----------------------------------------------------------------------------
(***************************************************************************)
(* The inductive invariant.  A row belongs to the request that inserted    *)
(* it, and nothing is made with a key but by that request; so what is made *)
(* is one result, and its row is never given back.                         *)
(***************************************************************************)

\* Where a request has no claim of its own yet.
Early(r) == req[r].at \in {"new", "claim", "insert", "again", "look"}

\* Where it has one.
Owner(r) == req[r].at \in {"work", "complete", "rescue", "abandon", "release"}

KeyOK(k) ==
  /\ claim[k] # NoClaim => /\ ask[claim[k].by].key = k
                           /\ ask[claim[k].by].payload = claim[k].payload
                           /\ ~Early(claim[k].by)
  /\ \A w \in made[k] : claim[k] # NoClaim /\ claim[k].by = w
  /\ claim[k].status = "completed" => claim[k].resource \in made[k]
  /\ Flow[k] = "manual" /\ claim[k].status = "processing"
       => InFlight(claim[k].by) \/ At(claim[k].by, "dead")

\* What a request holds, and what it found.
HoldsOK(r) ==
  /\ Owner(r) => Row(r) # NoClaim /\ Row(r).by = r
  /\ At(r, "work") => r \notin made[K(r)]
  /\ At(r, "complete") => r \in made[K(r)]
  /\ At(r, "abandon") \/ At(r, "release") => made[K(r)] = {}
  /\ At(r, "recover") \/ At(r, "close") => req[r].found \in made[K(r)]
  /\ At(r, "close") => ask[r].payload = Row(r).payload

\* What it was told, and what had been made when it came.
ToldOK(r) ==
  /\ req[r].answer # Nobody => /\ At(r, "told")
                               /\ req[r].answer \in made[K(r)]
                               /\ ask[req[r].answer] = ask[r]
  /\ req[r].due \subseteq made[K(r)]
  /\ At(r, "new") \/ At(r, "insert") \/ At(r, "again") \/ Owner(r) => req[r].due = {}
  /\ At(r, "refused") /\ Manual(r) =>
       \A w \in req[r].due : ask[w].payload # ask[r].payload \/ w \in archived

ClaimsInv ==
  /\ TypeOK
  /\ \A k \in Keys : KeyOK(k)
  /\ \A r \in Requests : HoldsOK(r) /\ ToldOK(r)

\* What a step of r leaves to the others: their places and the bodies; what is
\* made, but that the owner of a claim may make its result; and the claims, but
\* that their owner may give back one with which nothing was made.
Leaves(r) ==
  /\ ask' = ask /\ archived \subseteq archived'
  /\ \A q \in Requests : q # r => req'[q] = req[q]
  /\ \A k \in Keys : made'[k] = made[k] \/ (/\ claim[k] # NoClaim /\ claim[k].by = r
                                            /\ made'[k] = made[k] \cup {r})
  /\ \A k \in Keys : claim[k] # NoClaim =>
       \/ claim'[k] # NoClaim /\ claim'[k].by = claim[k].by /\ claim'[k].payload = claim[k].payload
       \/ claim[k].by = r /\ made[k] = {}

\* It touches its own key only.
OwnKeyOnly(r) == \A k \in Keys : k # K(r) => claim'[k] = claim[k] /\ made'[k] = made[k]

LEMMA OthersHold ==
  ASSUME ClaimsInv, NEW r \in Requests, Leaves(r), NEW q \in Requests, q # r
  PROVE  HoldsOK(q)'
<1>1. K(q) \in Keys
  BY Requested DEF ClaimsInv
<1>2. HoldsOK(q) /\ KeyOK(K(q))
  BY <1>1 DEF ClaimsInv
<1>3. req'[q] = req[q] /\ ask' = ask
  BY DEF Leaves
<1>4. made'[K(q)] = made[K(q)]
        \/ (claim[K(q)] # NoClaim /\ claim[K(q)].by = r /\ made'[K(q)] = made[K(q)] \cup {r})
  BY <1>1 DEF Leaves
<1>5. claim[K(q)] # NoClaim =>
        \/ /\ claim'[K(q)] # NoClaim /\ claim'[K(q)].by = claim[K(q)].by
           /\ claim'[K(q)].payload = claim[K(q)].payload
        \/ claim[K(q)].by = r /\ made[K(q)] = {}
  BY <1>1 DEF Leaves
<1>6. K(q)' = K(q) /\ Row(q)' = claim'[K(q)] /\ Row(q) = claim[K(q)]
  BY <1>3 DEF K, Row
<1>7. QED
  BY <1>2, <1>3, <1>4, <1>5, <1>6 DEF HoldsOK, KeyOK, Owner, At

LEMMA OthersTold ==
  ASSUME ClaimsInv, NEW r \in Requests, Leaves(r), NEW q \in Requests, q # r
  PROVE  ToldOK(q)'
<1>1. K(q) \in Keys
  BY Requested DEF ClaimsInv
<1>2. req'[q] = req[q] /\ ask' = ask /\ made[K(q)] \subseteq made'[K(q)]
      /\ archived \subseteq archived'
  BY <1>1 DEF Leaves
<1>3. K(q)' = K(q)
  BY <1>2 DEF K
<1>4. QED
  BY <1>2, <1>3 DEF ClaimsInv, ToldOK, Owner, At, Manual

LEMMA OtherKeys ==
  ASSUME ClaimsInv, NEW r \in Requests, Leaves(r), OwnKeyOnly(r), NEW k \in Keys, k # K(r)
  PROVE  KeyOK(k)'
<1>1. KeyOK(k) /\ claim'[k] = claim[k] /\ made'[k] = made[k] /\ ask' = ask
  BY DEF ClaimsInv, OwnKeyOnly, Leaves
<1>2. CASE claim[k] = NoClaim
  BY <1>1, <1>2 DEF KeyOK, NoClaim
<1>3. CASE claim[k] # NoClaim
  <2>1. claim[k].by \in Requests /\ claim[k].by # r
    BY <1>1, <1>3, Rows DEF ClaimsInv, KeyOK, K
  <2>2. req'[claim[k].by] = req[claim[k].by]
    BY <2>1 DEF Leaves
  <2>3. QED
    BY <1>1, <2>2 DEF KeyOK, Early, InFlight, At
<1>4. QED
  BY <1>2, <1>3

\* So a step has to be looked at for its own request and key only.
LEMMA Together ==
  ASSUME ClaimsInv, TypeOK', NEW r \in Requests, Leaves(r), OwnKeyOnly(r),
         KeyOK(K(r))', HoldsOK(r)', ToldOK(r)'
  PROVE  ClaimsInv'
<1>1. K(r)' = K(r)
  BY DEF Leaves, K
<1>2. \A k \in Keys : KeyOK(k)'
  BY <1>1, OtherKeys
<1>3. \A q \in Requests : HoldsOK(q)' /\ ToldOK(q)'
  BY OthersHold, OthersTold
<1>4. QED
  BY <1>2, <1>3 DEF ClaimsInv

LEMMA Moving ==
  ASSUME ClaimsInv, TypeOK', NEW r \in Requests, UNCHANGED <<ask, claim, made, archived>>,
         \A q \in Requests : q # r => req'[q] = req[q],
         HoldsOK(r)', ToldOK(r)',
         Row(r) # NoClaim /\ Row(r).by = r => ~Early(r)',
         Row(r) # NoClaim /\ Row(r).by = r /\ Manual(r) /\ Row(r).status = "processing"
           => InFlight(r)' \/ At(r, "dead")'
  PROVE  ClaimsInv'
<1>1. Leaves(r) /\ OwnKeyOnly(r)
  BY DEF Leaves, OwnKeyOnly
<1>2. K(r) \in Keys /\ K(r)' = K(r)
  BY Requested DEF ClaimsInv, K
<1>3. KeyOK(K(r)) /\ Row(r) = claim[K(r)]
  BY <1>2 DEF ClaimsInv, Row
<1>4. KeyOK(K(r))'
  <2>1. CASE claim[K(r)] = NoClaim
    BY <1>2, <1>3, <2>1 DEF KeyOK, NoClaim
  <2>2. CASE claim[K(r)] # NoClaim /\ claim[K(r)].by # r
    <3>1. claim[K(r)].by \in Requests
      BY <1>2, <2>2, Rows DEF ClaimsInv
    <3>2. req'[claim[K(r)].by] = req[claim[K(r)].by]
      BY <3>1, <2>2
    <3>3. QED
      BY <1>2, <1>3, <2>2, <3>2 DEF KeyOK, Early, InFlight, At
  <2>3. CASE claim[K(r)] # NoClaim /\ claim[K(r)].by = r
    BY <1>2, <1>3, <2>3 DEF KeyOK, Manual, Early, InFlight, At
  <2>4. QED
    BY <2>1, <2>2, <2>3
<1>5. QED
  BY <1>1, <1>4, Together

\* What the invariant says of a request and its row.
RowOK(r) ==
  /\ Row(r) # NoClaim => /\ ask[Row(r).by].key = K(r)
                         /\ ask[Row(r).by].payload = Row(r).payload
                         /\ ~Early(Row(r).by)
  /\ \A w \in made[K(r)] : w \in Requests /\ Row(r) # NoClaim /\ Row(r).by = w
  /\ Row(r).status = "completed" => Row(r) # NoClaim /\ Row(r).resource \in made[K(r)]
  /\ Row(r) # NoClaim => Row(r).status \in {"processing", "completed"} /\ Row(r).by \in Requests
  /\ Manual(r) /\ Row(r).status = "processing"
       => InFlight(Row(r).by) \/ At(Row(r).by, "dead")

LEMMA Known ==
  ASSUME ClaimsInv, NEW r \in Requests
  PROVE  /\ TypeOK /\ K(r) \in Keys /\ Row(r) = claim[K(r)]
         /\ KeyOK(K(r)) /\ RowOK(r) /\ HoldsOK(r) /\ ToldOK(r)
<1>1. TypeOK /\ K(r) \in Keys /\ Row(r) = claim[K(r)] /\ made[K(r)] \subseteq Requests
  BY Requested DEF ClaimsInv, Row
<1>2. KeyOK(K(r)) /\ HoldsOK(r) /\ ToldOK(r)
  BY <1>1 DEF ClaimsInv
<1>3. /\ Row(r).status = "completed" => Row(r) # NoClaim
      /\ Row(r) # NoClaim => Row(r).status \in {"processing", "completed"} /\ Row(r).by \in Requests
  BY <1>1, Rows DEF NoClaim
<1>4. RowOK(r)
  BY <1>1, <1>2, <1>3 DEF KeyOK, RowOK, Manual
<1>5. QED
  BY <1>1, <1>2, <1>4

\* The maker of a result that was asked for with r's key and body asked for it.
LEMMA SameAsked ==
  ASSUME ClaimsInv, NEW r \in Requests, NEW w \in made[K(r)], Row(r).payload = ask[r].payload
  PROVE  ask[w] = ask[r]
<1>1. w \in Requests /\ Row(r) # NoClaim /\ Row(r).by = w
  BY Known DEF RowOK
<1>2. ask[w].key = ask[r].key /\ ask[w].payload = ask[r].payload
  BY <1>1, Known DEF RowOK, K
<1>3. ask[w] \in Ask /\ ask[r] \in Ask
  BY <1>1, Known DEF TypeOK
<1>4. QED
  BY <1>2, <1>3 DEF Ask

\* Where a request goes, and nothing else of it.
LEMMA Goes ==
  ASSUME TypeOK, NEW r \in Requests, NEW s, Go(r, s)
  PROVE  /\ req'[r].at = s /\ req'[r].found = req[r].found
         /\ req'[r].due = req[r].due /\ req'[r].answer = req[r].answer
         /\ \A q \in Requests : q # r => req'[q] = req[q]
BY DEF TypeOK, Go, Req

LEMMA Finds ==
  ASSUME TypeOK, NEW r \in Requests, NEW w, Find(r, w)
  PROVE  /\ req'[r].at = "recover" /\ req'[r].found = w
         /\ req'[r].due = req[r].due /\ req'[r].answer = req[r].answer
         /\ \A q \in Requests : q # r => req'[q] = req[q]
BY DEF TypeOK, Find, Req

LEMMA Tells ==
  ASSUME TypeOK, NEW r \in Requests, NEW w, Tell(r, w)
  PROVE  /\ req'[r].at = "told" /\ req'[r].answer = w
         /\ req'[r].due = req[r].due /\ req'[r].found = req[r].found
         /\ \A q \in Requests : q # r => req'[q] = req[q]
BY DEF TypeOK, Tell, Req

\* Who is refused because the order is archived is refused for the only order there is.
LEMMA Refusing ==
  ASSUME ClaimsInv, NEW r \in Requests, NEW w \in made[K(r)], w \in archived,
         Go(r, "refused"), ~At(r, "told"), UNCHANGED <<ask, made, archived>>
  PROVE  HoldsOK(r)' /\ ToldOK(r)'
<1>1. TypeOK /\ RowOK(r) /\ ToldOK(r)
  BY Known
<1>2. req'[r].at = "refused" /\ req'[r].due = req[r].due /\ req'[r].answer = req[r].answer
  BY <1>1, Goes
<1>3. K(r)' = K(r) /\ (\A x \in made[K(r)] : x = w)
  BY <1>1 DEF RowOK, K
<1>4. HoldsOK(r)'
  BY <1>2 DEF HoldsOK, Owner, At
<1>5. req[r].due \subseteq made[K(r)] /\ (req[r].answer # Nobody => At(r, "told"))
  BY <1>1 DEF ToldOK
<1>6. req'[r].answer = Nobody
  BY <1>2, <1>5
<1>7. QED
  BY <1>2, <1>3, <1>4, <1>5, <1>6 DEF ToldOK, Owner, At

LEMMA FindNoneKeeps ==
  ASSUME ClaimsInv, TypeOK', NEW r \in Requests, FindNone(r)
  PROVE  ClaimsInv'
<1>1. UNCHANGED <<ask, claim, made, archived>>
  BY DEF FindNone
<1>2. K(r)' = K(r) /\ Row(r)' = Row(r) /\ Manual(r)' = Manual(r)
  BY <1>1 DEF K, Row, Manual
<1>3. TypeOK /\ RowOK(r) /\ HoldsOK(r) /\ ToldOK(r)
  BY Known
<1>4. ASSUME Go(r, "insert")
      PROVE  ClaimsInv'
  <2>1. /\ req'[r].at = "insert" /\ req'[r].found = req[r].found
        /\ req'[r].due = req[r].due /\ req'[r].answer = req[r].answer
        /\ \A q \in Requests : q # r => req'[q] = req[q]
    BY <1>4, <1>3, Goes
  <2>2. HoldsOK(r)'
    BY <1>4, <1>1, <1>2, <1>3, <2>1 DEF FindNone, RowOK, HoldsOK, ToldOK, Owner, InFlight, At
  <2>3. ToldOK(r)'
    BY <1>4, <1>1, <1>2, <1>3, <2>1 DEF FindNone, RowOK, HoldsOK, ToldOK, Owner, InFlight, At, Manual
  <2>4. /\ Row(r) # NoClaim /\ Row(r).by = r => ~Early(r)'
        /\ Row(r) # NoClaim /\ Row(r).by = r /\ Manual(r) /\ Row(r).status = "processing"
             => InFlight(r)' \/ At(r, "dead")'
    BY <1>4, <1>1, <1>2, <1>3, <2>1 DEF FindNone, RowOK, HoldsOK, ToldOK, Owner, InFlight, At, Early
  <2>5. QED
    BY <1>1, <2>1, <2>2, <2>3, <2>4, Moving
<1>5. QED
  BY <1>4 DEF FindNone

LEMMA AgainNoneKeeps ==
  ASSUME ClaimsInv, TypeOK', NEW r \in Requests, AgainNone(r)
  PROVE  ClaimsInv'
<1>1. UNCHANGED <<ask, claim, made, archived>>
  BY DEF AgainNone
<1>2. K(r)' = K(r) /\ Row(r)' = Row(r) /\ Manual(r)' = Manual(r)
  BY <1>1 DEF K, Row, Manual
<1>3. TypeOK /\ RowOK(r) /\ HoldsOK(r) /\ ToldOK(r)
  BY Known
<1>4. ASSUME Go(r, "refused")
      PROVE  ClaimsInv'
  <2>1. /\ req'[r].at = "refused" /\ req'[r].found = req[r].found
        /\ req'[r].due = req[r].due /\ req'[r].answer = req[r].answer
        /\ \A q \in Requests : q # r => req'[q] = req[q]
    BY <1>4, <1>3, Goes
  <2>2. HoldsOK(r)'
    BY <1>4, <1>1, <1>2, <1>3, <2>1 DEF AgainNone, RowOK, HoldsOK, ToldOK, Owner, InFlight, At
  <2>3. ToldOK(r)'
    BY <1>4, <1>1, <1>2, <1>3, <2>1 DEF AgainNone, RowOK, HoldsOK, ToldOK, Owner, InFlight, At, Manual
  <2>4. /\ Row(r) # NoClaim /\ Row(r).by = r => ~Early(r)'
        /\ Row(r) # NoClaim /\ Row(r).by = r /\ Manual(r) /\ Row(r).status = "processing"
             => InFlight(r)' \/ At(r, "dead")'
    BY <1>4, <1>1, <1>2, <1>3, <2>1 DEF AgainNone, RowOK, HoldsOK, ToldOK, Owner, InFlight, At, Early
  <2>5. QED
    BY <1>1, <2>1, <2>2, <2>3, <2>4, Moving
<1>5. QED
  BY <1>4 DEF AgainNone

LEMMA DieKeeps ==
  ASSUME ClaimsInv, TypeOK', NEW r \in Requests, Die(r)
  PROVE  ClaimsInv'
<1>1. UNCHANGED <<ask, claim, made, archived>>
  BY DEF Die
<1>2. K(r)' = K(r) /\ Row(r)' = Row(r) /\ Manual(r)' = Manual(r)
  BY <1>1 DEF K, Row, Manual
<1>3. TypeOK /\ RowOK(r) /\ HoldsOK(r) /\ ToldOK(r)
  BY Known
<1>4. ASSUME Go(r, "dead")
      PROVE  ClaimsInv'
  <2>1. /\ req'[r].at = "dead" /\ req'[r].found = req[r].found
        /\ req'[r].due = req[r].due /\ req'[r].answer = req[r].answer
        /\ \A q \in Requests : q # r => req'[q] = req[q]
    BY <1>4, <1>3, Goes
  <2>2. HoldsOK(r)'
    BY <1>4, <1>1, <1>2, <1>3, <2>1 DEF Die, RowOK, HoldsOK, ToldOK, Owner, InFlight, At
  <2>3. ToldOK(r)'
    BY <1>4, <1>1, <1>2, <1>3, <2>1 DEF Die, RowOK, HoldsOK, ToldOK, Owner, InFlight, At, Manual
  <2>4. /\ Row(r) # NoClaim /\ Row(r).by = r => ~Early(r)'
        /\ Row(r) # NoClaim /\ Row(r).by = r /\ Manual(r) /\ Row(r).status = "processing"
             => InFlight(r)' \/ At(r, "dead")'
    BY <1>4, <1>1, <1>2, <1>3, <2>1 DEF Die, RowOK, HoldsOK, ToldOK, Owner, InFlight, At, Early
  <2>5. QED
    BY <1>1, <2>1, <2>2, <2>3, <2>4, Moving
<1>5. QED
  BY <1>4 DEF Die

LEMMA ReplayKeeps ==
  ASSUME ClaimsInv, TypeOK', NEW r \in Requests, Replay(r)
  PROVE  ClaimsInv'
<1>1. UNCHANGED <<ask, claim, made, archived>>
  BY DEF Replay
<1>2. K(r)' = K(r) /\ Row(r)' = Row(r) /\ Manual(r)' = Manual(r)
  BY <1>1 DEF K, Row, Manual
<1>3. TypeOK /\ RowOK(r) /\ HoldsOK(r) /\ ToldOK(r)
  BY Known
<1>4. ASSUME Tell(r, Row(r).resource)
      PROVE  ClaimsInv'
  <2>1. /\ req'[r].at = "told" /\ req'[r].answer = Row(r).resource
        /\ req'[r].due = req[r].due
        /\ \A q \in Requests : q # r => req'[q] = req[q]
    BY <1>4, <1>3, Tells
  <2>2. Row(r).resource \in made[K(r)] /\ ask[Row(r).resource] = ask[r]
    <3>1. Row(r).resource \in made[K(r)] /\ Row(r).payload = ask[r].payload
      BY <1>3 DEF Replay, Differs, RowOK
    <3>2. QED
      BY <3>1, SameAsked
  <2>3. HoldsOK(r)'
    BY <1>4, <1>1, <1>2, <1>3, <2>1, <2>2 DEF Replay, RowOK, HoldsOK, ToldOK, Owner, InFlight, At
  <2>4. ToldOK(r)'
    BY <1>4, <1>1, <1>2, <1>3, <2>1, <2>2 DEF Replay, RowOK, HoldsOK, ToldOK, Owner, InFlight, At, Manual
  <2>5. /\ Row(r) # NoClaim /\ Row(r).by = r => ~Early(r)'
        /\ Row(r) # NoClaim /\ Row(r).by = r /\ Manual(r) /\ Row(r).status = "processing"
             => InFlight(r)' \/ At(r, "dead")'
    BY <1>4, <1>1, <1>2, <1>3, <2>1, <2>2 DEF Replay, RowOK, HoldsOK, ToldOK, Owner, InFlight, At, Early
  <2>6. QED
    BY <1>1, <2>1, <2>3, <2>4, <2>5, Moving
<1>5. ASSUME Go(r, "refused"), ~Own(r), Row(r).status = "completed", Row(r).resource \in archived
      PROVE  ClaimsInv'
  <2>1. \A q \in Requests : q # r => req'[q] = req[q]
    BY <1>5, <1>3, Goes
  <2>2. HoldsOK(r)' /\ ToldOK(r)'
    BY <1>5, <1>1, <1>3, Refusing DEF Replay, RowOK, At
  <2>3. QED
    BY <1>5, <1>1, <2>1, <2>2, Moving DEF Own
<1>6. QED
  BY <1>4, <1>5 DEF Replay, Answer

LEMMA RefuseKeeps ==
  ASSUME ClaimsInv, TypeOK', NEW r \in Requests, Refuse(r)
  PROVE  ClaimsInv'
<1>1. UNCHANGED <<ask, claim, made, archived>>
  BY DEF Refuse
<1>2. K(r)' = K(r) /\ Row(r)' = Row(r) /\ Manual(r)' = Manual(r)
  BY <1>1 DEF K, Row, Manual
<1>3. TypeOK /\ RowOK(r) /\ HoldsOK(r) /\ ToldOK(r)
  BY Known
<1>4. ASSUME Go(r, "look")
      PROVE  ClaimsInv'
  <2>1. /\ req'[r].at = "look" /\ req'[r].found = req[r].found
        /\ req'[r].due = req[r].due /\ req'[r].answer = req[r].answer
        /\ \A q \in Requests : q # r => req'[q] = req[q]
    BY <1>4, <1>3, Goes
  <2>2. HoldsOK(r)'
    BY <1>4, <1>1, <1>2, <1>3, <2>1 DEF Refuse, RowOK, HoldsOK, ToldOK, Owner, InFlight, At
  <2>3. ToldOK(r)'
    BY <1>4, <1>1, <1>2, <1>3, <2>1 DEF Refuse, RowOK, HoldsOK, ToldOK, Owner, InFlight, At, Manual
  <2>4. /\ Row(r) # NoClaim /\ Row(r).by = r => ~Early(r)'
        /\ Row(r) # NoClaim /\ Row(r).by = r /\ Manual(r) /\ Row(r).status = "processing"
             => InFlight(r)' \/ At(r, "dead")'
    BY <1>4, <1>1, <1>2, <1>3, <2>1 DEF Refuse, RowOK, HoldsOK, ToldOK, Owner, InFlight, At, Early
  <2>5. QED
    BY <1>1, <2>1, <2>2, <2>3, <2>4, Moving
<1>5. ASSUME Go(r, "refused"), ~Manual(r)
      PROVE  ClaimsInv'
  <2>1. /\ req'[r].at = "refused" /\ req'[r].found = req[r].found
        /\ req'[r].due = req[r].due /\ req'[r].answer = req[r].answer
        /\ \A q \in Requests : q # r => req'[q] = req[q]
    BY <1>5, <1>3, Goes
  <2>2. HoldsOK(r)'
    BY <1>5, <1>1, <1>2, <1>3, <2>1 DEF Refuse, RowOK, HoldsOK, ToldOK, Owner, InFlight, At
  <2>3. ToldOK(r)'
    BY <1>5, <1>1, <1>2, <1>3, <2>1 DEF Refuse, RowOK, HoldsOK, ToldOK, Owner, InFlight, At, Manual
  <2>4. /\ Row(r) # NoClaim /\ Row(r).by = r => ~Early(r)'
        /\ Row(r) # NoClaim /\ Row(r).by = r /\ Manual(r) /\ Row(r).status = "processing"
             => InFlight(r)' \/ At(r, "dead")'
    BY <1>5, <1>1, <1>2, <1>3, <2>1 DEF Refuse, RowOK, HoldsOK, ToldOK, Owner, InFlight, At, Early
  <2>5. QED
    BY <1>1, <2>1, <2>2, <2>3, <2>4, Moving
<1>6. QED
  BY <1>4, <1>5 DEF Refuse, Conflict

LEMMA LookKeeps ==
  ASSUME ClaimsInv, TypeOK', NEW r \in Requests, Look(r)
  PROVE  ClaimsInv'
<1>1. UNCHANGED <<ask, claim, made, archived>>
  BY DEF Look
<1>2. K(r)' = K(r) /\ Row(r)' = Row(r) /\ Manual(r)' = Manual(r)
  BY <1>1 DEF K, Row, Manual
<1>3. TypeOK /\ RowOK(r) /\ HoldsOK(r) /\ ToldOK(r)
  BY Known
<1>4. ASSUME NEW w \in made[K(r)], Find(r, w)
      PROVE  ClaimsInv'
  <2>1. /\ req'[r].at = "recover" /\ req'[r].found = w
        /\ req'[r].due = req[r].due /\ req'[r].answer = req[r].answer
        /\ \A q \in Requests : q # r => req'[q] = req[q]
    BY <1>4, <1>3, Finds
  <2>2. HoldsOK(r)'
    BY <1>4, <1>1, <1>2, <1>3, <2>1 DEF Look, RowOK, HoldsOK, ToldOK, Owner, InFlight, At
  <2>3. ToldOK(r)'
    BY <1>4, <1>1, <1>2, <1>3, <2>1 DEF Look, RowOK, HoldsOK, ToldOK, Owner, InFlight, At, Manual
  <2>4. /\ Row(r) # NoClaim /\ Row(r).by = r => ~Early(r)'
        /\ Row(r) # NoClaim /\ Row(r).by = r /\ Manual(r) /\ Row(r).status = "processing"
             => InFlight(r)' \/ At(r, "dead")'
    BY <1>4, <1>1, <1>2, <1>3, <2>1 DEF Look, RowOK, HoldsOK, ToldOK, Owner, InFlight, At, Early
  <2>5. QED
    BY <1>1, <2>1, <2>2, <2>3, <2>4, Moving
<1>5. ASSUME Go(r, "refused"), made[K(r)] = {}
      PROVE  ClaimsInv'
  <2>1. /\ req'[r].at = "refused" /\ req'[r].found = req[r].found
        /\ req'[r].due = req[r].due /\ req'[r].answer = req[r].answer
        /\ \A q \in Requests : q # r => req'[q] = req[q]
    BY <1>5, <1>3, Goes
  <2>2. HoldsOK(r)'
    BY <1>5, <1>1, <1>2, <1>3, <2>1 DEF Look, RowOK, HoldsOK, ToldOK, Owner, InFlight, At
  <2>3. ToldOK(r)'
    BY <1>5, <1>1, <1>2, <1>3, <2>1 DEF Look, RowOK, HoldsOK, ToldOK, Owner, InFlight, At, Manual
  <2>4. /\ Row(r) # NoClaim /\ Row(r).by = r => ~Early(r)'
        /\ Row(r) # NoClaim /\ Row(r).by = r /\ Manual(r) /\ Row(r).status = "processing"
             => InFlight(r)' \/ At(r, "dead")'
    BY <1>5, <1>1, <1>2, <1>3, <2>1 DEF Look, RowOK, HoldsOK, ToldOK, Owner, InFlight, At, Early
  <2>5. QED
    BY <1>1, <2>1, <2>2, <2>3, <2>4, Moving
<1>6. QED
  BY <1>4, <1>5 DEF Look

LEMMA RecoverKeeps ==
  ASSUME ClaimsInv, TypeOK', NEW r \in Requests, Recover(r)
  PROVE  ClaimsInv'
<1>1. UNCHANGED <<ask, claim, made, archived>>
  BY DEF Recover
<1>2. K(r)' = K(r) /\ Row(r)' = Row(r) /\ Manual(r)' = Manual(r)
  BY <1>1 DEF K, Row, Manual
<1>3. TypeOK /\ RowOK(r) /\ HoldsOK(r) /\ ToldOK(r)
  BY Known
<1>4. ASSUME Go(r, "refused"), Row(r) = NoClaim \/ Differs(r)
      PROVE  ClaimsInv'
  <2>1. /\ req'[r].at = "refused" /\ req'[r].found = req[r].found
        /\ req'[r].due = req[r].due /\ req'[r].answer = req[r].answer
        /\ \A q \in Requests : q # r => req'[q] = req[q]
    BY <1>4, <1>3, Goes
  <2>2. HoldsOK(r)'
    BY <1>4, <1>1, <1>2, <1>3, <2>1 DEF Recover, RowOK, HoldsOK, ToldOK, Owner, InFlight, At, Differs
  <2>3. ToldOK(r)'
    BY <1>4, <1>1, <1>2, <1>3, <2>1 DEF Recover, RowOK, HoldsOK, ToldOK, Owner, InFlight, At, Manual, Differs
  <2>4. /\ Row(r) # NoClaim /\ Row(r).by = r => ~Early(r)'
        /\ Row(r) # NoClaim /\ Row(r).by = r /\ Manual(r) /\ Row(r).status = "processing"
             => InFlight(r)' \/ At(r, "dead")'
    BY <1>4, <1>1, <1>2, <1>3, <2>1 DEF Recover, RowOK, HoldsOK, ToldOK, Owner, InFlight, At, Early, Differs
  <2>5. QED
    BY <1>1, <2>1, <2>2, <2>3, <2>4, Moving
<1>5. ASSUME Tell(r, Row(r).resource), Row(r).status = "completed", ~Differs(r)
      PROVE  ClaimsInv'
  <2>1. /\ req'[r].at = "told" /\ req'[r].answer = Row(r).resource
        /\ req'[r].due = req[r].due
        /\ \A q \in Requests : q # r => req'[q] = req[q]
    BY <1>5, <1>3, Tells
  <2>2. Row(r).resource \in made[K(r)] /\ ask[Row(r).resource] = ask[r]
    <3>1. Row(r).resource \in made[K(r)] /\ Row(r).payload = ask[r].payload
      BY <1>5, <1>3 DEF Differs, RowOK
    <3>2. QED
      BY <3>1, SameAsked
  <2>3. HoldsOK(r)'
    BY <1>5, <1>1, <1>2, <1>3, <2>1, <2>2 DEF Recover, RowOK, HoldsOK, ToldOK, Owner, InFlight, At
  <2>4. ToldOK(r)'
    BY <1>5, <1>1, <1>2, <1>3, <2>1, <2>2 DEF Recover, RowOK, HoldsOK, ToldOK, Owner, InFlight, At, Manual
  <2>5. /\ Row(r) # NoClaim /\ Row(r).by = r => ~Early(r)'
        /\ Row(r) # NoClaim /\ Row(r).by = r /\ Manual(r) /\ Row(r).status = "processing"
             => InFlight(r)' \/ At(r, "dead")'
    BY <1>5, <1>1, <1>2, <1>3, <2>1, <2>2 DEF Recover, RowOK, HoldsOK, ToldOK, Owner, InFlight, At, Early
  <2>6. QED
    BY <1>1, <2>1, <2>3, <2>4, <2>5, Moving
<1>6. ASSUME Go(r, "close"), ~Differs(r)
      PROVE  ClaimsInv'
  <2>1. /\ req'[r].at = "close" /\ req'[r].found = req[r].found
        /\ req'[r].due = req[r].due /\ req'[r].answer = req[r].answer
        /\ \A q \in Requests : q # r => req'[q] = req[q]
    BY <1>6, <1>3, Goes
  <2>2. HoldsOK(r)'
    BY <1>6, <1>1, <1>2, <1>3, <2>1 DEF Recover, RowOK, HoldsOK, ToldOK, Owner, InFlight, At, Differs
  <2>3. ToldOK(r)'
    BY <1>6, <1>1, <1>2, <1>3, <2>1 DEF Recover, RowOK, HoldsOK, ToldOK, Owner, InFlight, At, Manual, Differs
  <2>4. /\ Row(r) # NoClaim /\ Row(r).by = r => ~Early(r)'
        /\ Row(r) # NoClaim /\ Row(r).by = r /\ Manual(r) /\ Row(r).status = "processing"
             => InFlight(r)' \/ At(r, "dead")'
    BY <1>6, <1>1, <1>2, <1>3, <2>1 DEF Recover, RowOK, HoldsOK, ToldOK, Owner, InFlight, At, Early, Differs
  <2>5. QED
    BY <1>1, <2>1, <2>2, <2>3, <2>4, Moving
<1>7. ASSUME Go(r, "refused"), ~Own(r), Row(r).status = "completed", Row(r).resource \in archived
      PROVE  ClaimsInv'
  <2>1. \A q \in Requests : q # r => req'[q] = req[q]
    BY <1>7, <1>3, Goes
  <2>2. HoldsOK(r)' /\ ToldOK(r)'
    BY <1>7, <1>1, <1>3, Refusing DEF Recover, RowOK, At
  <2>3. QED
    BY <1>7, <1>1, <2>1, <2>2, Moving DEF Own
<1>8. QED
  BY <1>4, <1>5, <1>6, <1>7 DEF Recover, Answer

LEMMA FailKeeps ==
  ASSUME ClaimsInv, TypeOK', NEW r \in Requests, Fail(r)
  PROVE  ClaimsInv'
<1>1. UNCHANGED <<ask, claim, made, archived>>
  BY DEF Fail
<1>2. K(r)' = K(r) /\ Row(r)' = Row(r) /\ Manual(r)' = Manual(r)
  BY <1>1 DEF K, Row, Manual
<1>3. TypeOK /\ RowOK(r) /\ HoldsOK(r) /\ ToldOK(r)
  BY Known
<1>4. ASSUME Go(r, "rescue")
      PROVE  ClaimsInv'
  <2>1. /\ req'[r].at = "rescue" /\ req'[r].found = req[r].found
        /\ req'[r].due = req[r].due /\ req'[r].answer = req[r].answer
        /\ \A q \in Requests : q # r => req'[q] = req[q]
    BY <1>4, <1>3, Goes
  <2>2. HoldsOK(r)'
    BY <1>4, <1>1, <1>2, <1>3, <2>1 DEF Fail, RowOK, HoldsOK, ToldOK, Owner, InFlight, At
  <2>3. ToldOK(r)'
    BY <1>4, <1>1, <1>2, <1>3, <2>1 DEF Fail, RowOK, HoldsOK, ToldOK, Owner, InFlight, At, Manual
  <2>4. /\ Row(r) # NoClaim /\ Row(r).by = r => ~Early(r)'
        /\ Row(r) # NoClaim /\ Row(r).by = r /\ Manual(r) /\ Row(r).status = "processing"
             => InFlight(r)' \/ At(r, "dead")'
    BY <1>4, <1>1, <1>2, <1>3, <2>1 DEF Fail, RowOK, HoldsOK, ToldOK, Owner, InFlight, At, Early
  <2>5. QED
    BY <1>1, <2>1, <2>2, <2>3, <2>4, Moving
<1>5. ASSUME Go(r, "refused"), ~Manual(r)
      PROVE  ClaimsInv'
  <2>1. /\ req'[r].at = "refused" /\ req'[r].found = req[r].found
        /\ req'[r].due = req[r].due /\ req'[r].answer = req[r].answer
        /\ \A q \in Requests : q # r => req'[q] = req[q]
    BY <1>5, <1>3, Goes
  <2>2. HoldsOK(r)'
    BY <1>5, <1>1, <1>2, <1>3, <2>1 DEF Fail, RowOK, HoldsOK, ToldOK, Owner, InFlight, At
  <2>3. ToldOK(r)'
    BY <1>5, <1>1, <1>2, <1>3, <2>1 DEF Fail, RowOK, HoldsOK, ToldOK, Owner, InFlight, At, Manual
  <2>4. /\ Row(r) # NoClaim /\ Row(r).by = r => ~Early(r)'
        /\ Row(r) # NoClaim /\ Row(r).by = r /\ Manual(r) /\ Row(r).status = "processing"
             => InFlight(r)' \/ At(r, "dead")'
    BY <1>5, <1>1, <1>2, <1>3, <2>1 DEF Fail, RowOK, HoldsOK, ToldOK, Owner, InFlight, At, Early
  <2>5. QED
    BY <1>1, <2>1, <2>2, <2>3, <2>4, Moving
<1>6. QED
  BY <1>4, <1>5 DEF Fail, Failure

LEMMA RescueKeeps ==
  ASSUME ClaimsInv, TypeOK', NEW r \in Requests, Rescue(r)
  PROVE  ClaimsInv'
<1>1. UNCHANGED <<ask, claim, made, archived>>
  BY DEF Rescue
<1>2. K(r)' = K(r) /\ Row(r)' = Row(r) /\ Manual(r)' = Manual(r)
  BY <1>1 DEF K, Row, Manual
<1>3. TypeOK /\ RowOK(r) /\ HoldsOK(r) /\ ToldOK(r)
  BY Known
<1>4. ASSUME NEW w \in made[K(r)], Find(r, w)
      PROVE  ClaimsInv'
  <2>1. /\ req'[r].at = "recover" /\ req'[r].found = w
        /\ req'[r].due = req[r].due /\ req'[r].answer = req[r].answer
        /\ \A q \in Requests : q # r => req'[q] = req[q]
    BY <1>4, <1>3, Finds
  <2>2. HoldsOK(r)'
    BY <1>4, <1>1, <1>2, <1>3, <2>1 DEF Rescue, RowOK, HoldsOK, ToldOK, Owner, InFlight, At
  <2>3. ToldOK(r)'
    BY <1>4, <1>1, <1>2, <1>3, <2>1 DEF Rescue, RowOK, HoldsOK, ToldOK, Owner, InFlight, At, Manual
  <2>4. /\ Row(r) # NoClaim /\ Row(r).by = r => ~Early(r)'
        /\ Row(r) # NoClaim /\ Row(r).by = r /\ Manual(r) /\ Row(r).status = "processing"
             => InFlight(r)' \/ At(r, "dead")'
    BY <1>4, <1>1, <1>2, <1>3, <2>1 DEF Rescue, RowOK, HoldsOK, ToldOK, Owner, InFlight, At, Early
  <2>5. QED
    BY <1>1, <2>1, <2>2, <2>3, <2>4, Moving
<1>5. ASSUME Go(r, "abandon"), made[K(r)] = {}
      PROVE  ClaimsInv'
  <2>1. /\ req'[r].at = "abandon" /\ req'[r].found = req[r].found
        /\ req'[r].due = req[r].due /\ req'[r].answer = req[r].answer
        /\ \A q \in Requests : q # r => req'[q] = req[q]
    BY <1>5, <1>3, Goes
  <2>2. HoldsOK(r)'
    BY <1>5, <1>1, <1>2, <1>3, <2>1 DEF Rescue, RowOK, HoldsOK, ToldOK, Owner, InFlight, At
  <2>3. ToldOK(r)'
    BY <1>5, <1>1, <1>2, <1>3, <2>1 DEF Rescue, RowOK, HoldsOK, ToldOK, Owner, InFlight, At, Manual
  <2>4. /\ Row(r) # NoClaim /\ Row(r).by = r => ~Early(r)'
        /\ Row(r) # NoClaim /\ Row(r).by = r /\ Manual(r) /\ Row(r).status = "processing"
             => InFlight(r)' \/ At(r, "dead")'
    BY <1>5, <1>1, <1>2, <1>3, <2>1 DEF Rescue, RowOK, HoldsOK, ToldOK, Owner, InFlight, At, Early
  <2>5. QED
    BY <1>1, <2>1, <2>2, <2>3, <2>4, Moving
<1>6. QED
  BY <1>4, <1>5 DEF Rescue

LEMMA AbandonLoadsKeeps ==
  ASSUME ClaimsInv, TypeOK', NEW r \in Requests, AbandonLoads(r)
  PROVE  ClaimsInv'
<1>1. UNCHANGED <<ask, claim, made, archived>>
  BY DEF AbandonLoads
<1>2. K(r)' = K(r) /\ Row(r)' = Row(r) /\ Manual(r)' = Manual(r)
  BY <1>1 DEF K, Row, Manual
<1>3. TypeOK /\ RowOK(r) /\ HoldsOK(r) /\ ToldOK(r)
  BY Known
<1>4. ASSUME Go(r, "release")
      PROVE  ClaimsInv'
  <2>1. /\ req'[r].at = "release" /\ req'[r].found = req[r].found
        /\ req'[r].due = req[r].due /\ req'[r].answer = req[r].answer
        /\ \A q \in Requests : q # r => req'[q] = req[q]
    BY <1>4, <1>3, Goes
  <2>2. HoldsOK(r)'
    BY <1>4, <1>1, <1>2, <1>3, <2>1 DEF AbandonLoads, RowOK, HoldsOK, ToldOK, Owner, InFlight, At
  <2>3. ToldOK(r)'
    BY <1>4, <1>1, <1>2, <1>3, <2>1 DEF AbandonLoads, RowOK, HoldsOK, ToldOK, Owner, InFlight, At, Manual
  <2>4. /\ Row(r) # NoClaim /\ Row(r).by = r => ~Early(r)'
        /\ Row(r) # NoClaim /\ Row(r).by = r /\ Manual(r) /\ Row(r).status = "processing"
             => InFlight(r)' \/ At(r, "dead")'
    BY <1>4, <1>1, <1>2, <1>3, <2>1 DEF AbandonLoads, RowOK, HoldsOK, ToldOK, Owner, InFlight, At, Early
  <2>5. QED
    BY <1>1, <2>1, <2>2, <2>3, <2>4, Moving
<1>5. ASSUME Go(r, "refused"), ~(Own(r) /\ Row(r).status = "processing")
      PROVE  ClaimsInv'
  <2>1. /\ req'[r].at = "refused" /\ req'[r].found = req[r].found
        /\ req'[r].due = req[r].due /\ req'[r].answer = req[r].answer
        /\ \A q \in Requests : q # r => req'[q] = req[q]
    BY <1>5, <1>3, Goes
  <2>2. made[K(r)] = {} /\ Row(r) # NoClaim /\ Row(r).by = r /\ Row(r).status # "completed" /\ Row(r).status # "processing"
    BY <1>5, <1>3 DEF AbandonLoads, RowOK, HoldsOK, Owner, At, Own
  <2>3. HoldsOK(r)'
    BY <1>5, <1>1, <1>2, <1>3, <2>1, <2>2 DEF AbandonLoads, RowOK, HoldsOK, ToldOK, Owner, InFlight, At
  <2>4. ToldOK(r)'
    BY <1>5, <1>1, <1>2, <1>3, <2>1, <2>2 DEF AbandonLoads, RowOK, HoldsOK, ToldOK, Owner, InFlight, At, Manual
  <2>5. /\ Row(r) # NoClaim /\ Row(r).by = r => ~Early(r)'
        /\ Row(r) # NoClaim /\ Row(r).by = r /\ Manual(r) /\ Row(r).status = "processing"
             => InFlight(r)' \/ At(r, "dead")'
    BY <1>5, <1>1, <1>2, <1>3, <2>1, <2>2 DEF AbandonLoads, RowOK, HoldsOK, ToldOK, Owner, InFlight, At, Early
  <2>6. QED
    BY <1>1, <2>1, <2>3, <2>4, <2>5, Moving
<1>6. QED
  BY <1>4, <1>5 DEF AbandonLoads

LEMMA ArriveKeeps ==
  ASSUME ClaimsInv, TypeOK', NEW r \in Requests, Arrive(r)
  PROVE  ClaimsInv'
<1>1. TypeOK /\ RowOK(r) /\ HoldsOK(r) /\ ToldOK(r)
  BY Known
<1>2. UNCHANGED <<ask, claim, made, archived>>
  BY DEF Arrive
<1>3. K(r)' = K(r) /\ Row(r)' = Row(r) /\ Manual(r)' = Manual(r)
  BY <1>2 DEF K, Row, Manual
<1>4. /\ req'[r].at = "claim" /\ req'[r].due = made[K(r)] /\ req'[r].answer = req[r].answer
      /\ \A q \in Requests : q # r => req'[q] = req[q]
  BY <1>1 DEF Arrive, TypeOK, Req
<1>5. HoldsOK(r)' /\ ToldOK(r)'
  BY <1>1, <1>2, <1>3, <1>4 DEF Arrive, HoldsOK, ToldOK, Owner, At
<1>6. Row(r) # NoClaim => Row(r).by # r
  BY <1>1 DEF Arrive, RowOK, Early, At
<1>7. QED
  BY <1>2, <1>4, <1>5, <1>6, Moving

LEMMA InsertKeeps ==
  ASSUME ClaimsInv, TypeOK', NEW r \in Requests, Insert(r)
  PROVE  ClaimsInv'
<1>1. TypeOK /\ RowOK(r) /\ HoldsOK(r) /\ ToldOK(r) /\ K(r) \in Keys /\ Row(r) = claim[K(r)]
  BY Known
<1>2. ask' = ask /\ K(r)' = K(r) /\ Manual(r)' = Manual(r) /\ Row(r)' = claim'[K(r)]
  BY DEF Insert, K, Row, Manual
<1>3. CASE Row(r) # NoClaim
  <2>1. Go(r, "again") /\ UNCHANGED <<ask, claim, made, archived>>
    BY <1>3 DEF Insert
  <2>2. /\ req'[r].at = "again" /\ req'[r].due = req[r].due /\ req'[r].answer = req[r].answer
        /\ \A q \in Requests : q # r => req'[q] = req[q]
    BY <1>1, <2>1, Goes
  <2>3. HoldsOK(r)' /\ ToldOK(r)'
    BY <1>1, <1>2, <2>1, <2>2 DEF Insert, HoldsOK, ToldOK, Owner, At
  <2>4. Row(r).by # r
    BY <1>1, <1>3 DEF Insert, RowOK, Early, At
  <2>5. QED
    BY <2>1, <2>2, <2>3, <2>4, Moving
<1>4. CASE Row(r) = NoClaim
  <2>1. /\ claim' = [claim EXCEPT ![K(r)] =
                       [status |-> "processing", by |-> r, payload |-> ask[r].payload]]
        /\ Go(r, "work") /\ UNCHANGED <<ask, made, archived>>
    BY <1>4 DEF Insert
  <2>2. /\ req'[r].at = "work" /\ req'[r].due = req[r].due /\ req'[r].answer = req[r].answer
        /\ \A q \in Requests : q # r => req'[q] = req[q]
    BY <1>1, <2>1, Goes
  <2>3. claim'[K(r)] = [status |-> "processing", by |-> r, payload |-> ask[r].payload]
    BY <1>1, <2>1 DEF TypeOK
  <2>4. claim'[K(r)] # NoClaim
    BY <2>3 DEF NoClaim
  <2>5. made[K(r)] = {}
    BY <1>1, <1>4 DEF RowOK
  <2>6. Leaves(r) /\ OwnKeyOnly(r)
    BY <1>1, <1>2, <1>4, <2>1, <2>2 DEF Leaves, OwnKeyOnly, TypeOK
  <2>7. HoldsOK(r)' /\ ToldOK(r)'
    BY <1>1, <1>2, <2>1, <2>2, <2>3, <2>4, <2>5 DEF Insert, HoldsOK, ToldOK, Owner, At
  <2>8. KeyOK(K(r))'
    BY <1>2, <2>1, <2>2, <2>3, <2>4, <2>5 DEF KeyOK, Early, InFlight, At, K
  <2>9. QED
    BY <2>6, <2>7, <2>8, Together
<1>5. QED
  BY <1>3, <1>4

\* A row keeps whose it is and what was asked when it is completed.
LEMMA Finished ==
  ASSUME ClaimsInv, NEW r \in Requests, Row(r) # NoClaim, NEW w \in made[K(r)],
         claim' = [claim EXCEPT ![K(r)] = Done(r, w)], UNCHANGED <<ask, made, archived>>,
         \A q \in Requests : q # r => req'[q] = req[q],
         Row(r).by = r => ~Early(r)'
  PROVE  /\ Leaves(r) /\ OwnKeyOnly(r) /\ KeyOK(K(r))'
         /\ Row(r)' # NoClaim /\ Row(r)'.by = Row(r).by /\ Row(r)'.payload = Row(r).payload
<1>1. TypeOK /\ RowOK(r) /\ K(r) \in Keys /\ Row(r) = claim[K(r)]
  BY Known
<1>2. K(r)' = K(r) /\ Row(r)' = claim'[K(r)] /\ claim'[K(r)] = Done(r, w)
  BY <1>1 DEF K, Row, TypeOK
<1>3. /\ Row(r)'.status = "completed" /\ Row(r)'.resource = w
      /\ Row(r)'.by = Row(r).by /\ Row(r)'.payload = Row(r).payload
  BY <1>2 DEF Done
<1>4. Row(r)' # NoClaim
  BY <1>3 DEF NoClaim
<1>5. OwnKeyOnly(r)
  BY <1>1 DEF OwnKeyOnly, TypeOK
<1>6. Leaves(r)
  BY <1>1, <1>2, <1>3, <1>4, <1>5 DEF Leaves, OwnKeyOnly
<1>7. \A b \in Requests : b = Row(r).by => ~Early(b)'
  BY <1>1 DEF RowOK, Early
<1>8. KeyOK(K(r))'
  BY <1>1, <1>2, <1>3, <1>4, <1>7 DEF KeyOK, RowOK, Early
<1>9. QED
  BY <1>3, <1>4, <1>5, <1>6, <1>8

LEMMA CloseKeeps ==
  ASSUME ClaimsInv, TypeOK', NEW r \in Requests, Close(r)
  PROVE  ClaimsInv'
<1>1. TypeOK /\ RowOK(r) /\ HoldsOK(r) /\ ToldOK(r) /\ K(r) \in Keys /\ Row(r) = claim[K(r)]
  BY Known
<1>2. ask' = ask /\ K(r)' = K(r) /\ Manual(r)' = Manual(r) /\ Row(r)' = claim'[K(r)]
  BY DEF Close, K, Row, Manual
<1>3. /\ Row(r) # NoClaim /\ req[r].found \in made[K(r)] /\ Row(r).payload = ask[r].payload
      /\ claim' = [claim EXCEPT ![K(r)] = Done(r, req[r].found)]
      /\ UNCHANGED <<ask, made, archived>>
  BY <1>1 DEF Close, HoldsOK, At
<1>4. ASSUME Tell(r, req[r].found)
      PROVE  ClaimsInv'
  <2>1. /\ req'[r].at = "told" /\ req'[r].answer = req[r].found /\ req'[r].due = req[r].due
        /\ \A q \in Requests : q # r => req'[q] = req[q]
    BY <1>1, <1>4, Tells
  <2>2. ~Early(r)'
    BY <2>1 DEF Early
  <2>3. /\ Leaves(r) /\ OwnKeyOnly(r) /\ KeyOK(K(r))'
    BY <1>3, <2>1, <2>2, Finished
  <2>4. ask[req[r].found] = ask[r]
    BY <1>3, SameAsked
  <2>5. HoldsOK(r)' /\ ToldOK(r)'
    BY <1>1, <1>2, <1>3, <2>1, <2>4 DEF HoldsOK, ToldOK, Owner, At
  <2>6. QED
    BY <2>3, <2>5, Together
<1>5. ASSUME Go(r, "refused"), req[r].found \in archived
      PROVE  ClaimsInv'
  <2>1. req'[r].at = "refused" /\ \A q \in Requests : q # r => req'[q] = req[q]
    BY <1>1, <1>5, Goes
  <2>2. ~Early(r)'
    BY <2>1 DEF Early
  <2>3. /\ Leaves(r) /\ OwnKeyOnly(r) /\ KeyOK(K(r))'
    BY <1>3, <2>1, <2>2, Finished
  <2>4. HoldsOK(r)' /\ ToldOK(r)'
    BY <1>3, <1>5, Refusing DEF Close, At
  <2>5. QED
    BY <2>3, <2>4, Together
<1>6. QED
  BY <1>4, <1>5 DEF Close, Answer

LEMMA CompleteKeeps ==
  ASSUME ClaimsInv, TypeOK', NEW r \in Requests, Complete(r)
  PROVE  ClaimsInv'
<1>1. TypeOK /\ RowOK(r) /\ HoldsOK(r) /\ ToldOK(r) /\ K(r) \in Keys /\ Row(r) = claim[K(r)]
  BY Known
<1>2. ask' = ask /\ K(r)' = K(r) /\ Manual(r)' = Manual(r) /\ Row(r)' = claim'[K(r)]
  BY DEF Complete, K, Row, Manual
<1>3. /\ Row(r) # NoClaim /\ r \in made[K(r)] /\ Row(r).by = r
      /\ claim' = [claim EXCEPT ![K(r)] = Done(r, r)] /\ UNCHANGED <<ask, made, archived>>
  BY <1>1 DEF Complete, HoldsOK, Owner, At
<1>4. ASSUME Tell(r, r)
      PROVE  ClaimsInv'
  <2>1. /\ req'[r].at = "told" /\ req'[r].answer = r /\ req'[r].due = req[r].due
        /\ \A q \in Requests : q # r => req'[q] = req[q]
    BY <1>1, <1>4, Tells
  <2>2. ~Early(r)'
    BY <2>1 DEF Early
  <2>3. /\ Leaves(r) /\ OwnKeyOnly(r) /\ KeyOK(K(r))'
    BY <1>3, <2>1, <2>2, Finished
  <2>4. HoldsOK(r)' /\ ToldOK(r)'
    BY <1>1, <1>2, <1>3, <2>1 DEF HoldsOK, ToldOK, Owner, At
  <2>5. QED
    BY <2>3, <2>4, Together
<1>5. ASSUME Go(r, "rescue")
      PROVE  ClaimsInv'
  <2>1. /\ req'[r].at = "rescue" /\ req'[r].answer = req[r].answer /\ req'[r].due = req[r].due
        /\ \A q \in Requests : q # r => req'[q] = req[q]
    BY <1>1, <1>5, Goes
  <2>2. ~Early(r)'
    BY <2>1 DEF Early
  <2>3. /\ Leaves(r) /\ OwnKeyOnly(r) /\ KeyOK(K(r))'
        /\ Row(r)' # NoClaim /\ Row(r)'.by = r
    BY <1>3, <2>1, <2>2, Finished
  <2>4. HoldsOK(r)' /\ ToldOK(r)'
    BY <1>1, <1>2, <1>3, <2>1, <2>3 DEF Complete, HoldsOK, ToldOK, Owner, At
  <2>5. QED
    BY <2>3, <2>4, Together
<1>6. QED
  BY <1>4, <1>5 DEF Complete

LEMMA CreateKeeps ==
  ASSUME ClaimsInv, TypeOK', NEW r \in Requests, Create(r)
  PROVE  ClaimsInv'
<1>1. TypeOK /\ RowOK(r) /\ HoldsOK(r) /\ ToldOK(r) /\ K(r) \in Keys /\ Row(r) = claim[K(r)]
  BY Known
<1>2. ask' = ask /\ K(r)' = K(r) /\ Manual(r)' = Manual(r) /\ Row(r)' = claim'[K(r)]
  BY DEF Create, K, Row, Manual
<1>3. /\ Row(r) # NoClaim /\ Row(r).by = r /\ At(r, "work")
      /\ made' = [made EXCEPT ![K(r)] = made[K(r)] \cup {r}]
      /\ Go(r, "complete") /\ UNCHANGED <<ask, claim, archived>>
  BY <1>1 DEF Create, HoldsOK, Owner, At
<1>4. /\ req'[r].at = "complete" /\ req'[r].due = req[r].due /\ req'[r].answer = req[r].answer
      /\ \A q \in Requests : q # r => req'[q] = req[q]
  BY <1>1, <1>3, Goes
<1>5. made'[K(r)] = made[K(r)] \cup {r}
  BY <1>1, <1>3 DEF TypeOK
<1>6. Leaves(r) /\ OwnKeyOnly(r)
  BY <1>1, <1>3, <1>4, <1>5 DEF Leaves, OwnKeyOnly, TypeOK
<1>7. HoldsOK(r)' /\ ToldOK(r)'
  BY <1>1, <1>2, <1>3, <1>4, <1>5 DEF HoldsOK, ToldOK, Owner, At
<1>8. KeyOK(K(r))'
  BY <1>1, <1>2, <1>3, <1>4, <1>5 DEF KeyOK, RowOK, Early, InFlight, At
<1>9. QED
  BY <1>6, <1>7, <1>8, Together

LEMMA AbandonDeletesKeeps ==
  ASSUME ClaimsInv, TypeOK', NEW r \in Requests, AbandonDeletes(r)
  PROVE  ClaimsInv'
<1>1. TypeOK /\ RowOK(r) /\ HoldsOK(r) /\ ToldOK(r) /\ K(r) \in Keys /\ Row(r) = claim[K(r)]
  BY Known
<1>2. ask' = ask /\ K(r)' = K(r) /\ Manual(r)' = Manual(r) /\ Row(r)' = claim'[K(r)]
  BY DEF AbandonDeletes, K, Row, Manual
<1>3. /\ Row(r) # NoClaim /\ Row(r).by = r /\ made[K(r)] = {}
      /\ claim' = [claim EXCEPT ![K(r)] = NoClaim]
      /\ Go(r, "refused") /\ UNCHANGED <<ask, made, archived>>
  BY <1>1 DEF AbandonDeletes, HoldsOK, Owner, Own, At
<1>4. /\ req'[r].at = "refused" /\ req'[r].due = req[r].due /\ req'[r].answer = req[r].answer
      /\ \A q \in Requests : q # r => req'[q] = req[q]
  BY <1>1, <1>3, Goes
<1>5. claim'[K(r)] = NoClaim
  BY <1>1, <1>3 DEF TypeOK
<1>6. Leaves(r) /\ OwnKeyOnly(r)
  BY <1>1, <1>3, <1>4 DEF Leaves, OwnKeyOnly, TypeOK
<1>7. HoldsOK(r)' /\ ToldOK(r)'
  BY <1>1, <1>2, <1>3, <1>4 DEF AbandonDeletes, HoldsOK, ToldOK, Owner, At
<1>8. KeyOK(K(r))'
  BY <1>2, <1>3, <1>5 DEF KeyOK, NoClaim
<1>9. QED
  BY <1>6, <1>7, <1>8, Together

\* An order that is archived is there all the same.
LEMMA ArchiveKeeps ==
  ASSUME ClaimsInv, TypeOK', NEW r \in Requests, Archive(r)
  PROVE  ClaimsInv'
<1>1. UNCHANGED <<ask, req, claim, made>> /\ archived \subseteq archived'
  BY DEF Archive
<1>2. \A k \in Keys : KeyOK(k)'
  BY <1>1 DEF ClaimsInv, KeyOK, Early, InFlight, At
<1>3. \A q \in Requests : HoldsOK(q)'
  BY <1>1 DEF ClaimsInv, HoldsOK, Owner, At, K, Row
<1>4. \A q \in Requests : ToldOK(q)'
  BY <1>1 DEF ClaimsInv, ToldOK, Owner, At, K, Manual
<1>5. QED
  BY <1>2, <1>3, <1>4 DEF ClaimsInv

LEMMA ClaimsStart == Init => ClaimsInv
<1>1. SUFFICES ASSUME Init PROVE ClaimsInv
  OBVIOUS
<1>2. TypeOK
  BY <1>1, DeathsAssumption DEF Init, TypeOK, Req, Stage
<1>3. \A k \in Keys : KeyOK(k)
  BY <1>1 DEF Init, KeyOK, NoClaim
<1>4. \A r \in Requests : req[r].at = "new" /\ req[r].answer = Nobody /\ req[r].due = {}
  BY <1>1 DEF Init
<1>5. \A r \in Requests : HoldsOK(r) /\ ToldOK(r)
  BY <1>4 DEF HoldsOK, ToldOK, Owner, At
<1>6. QED
  BY <1>2, <1>3, <1>5 DEF ClaimsInv

LEMMA ClaimsStep == ClaimsInv /\ [Next]_vars => ClaimsInv'
<1>1. SUFFICES ASSUME ClaimsInv, [Next]_vars PROVE ClaimsInv'
  OBVIOUS
<1>2. \A r \in Requests : At(r, "close") => req[r].found \in Requests
  BY <1>1, Known DEF RowOK, HoldsOK
<1>3. TypeOK'
  BY <1>1, <1>2, TypesKept DEF ClaimsInv
<1>4. CASE UNCHANGED vars
  BY <1>1, <1>3, <1>4 DEF ClaimsInv, KeyOK, HoldsOK, ToldOK, Owner, Early, InFlight, At, K, Row, Manual, vars
<1>5. CASE Next
  BY <1>1, <1>3, <1>5, ArriveKeeps, FindNoneKeeps, ReplayKeeps, RefuseKeeps, InsertKeeps, AgainNoneKeeps, LookKeeps, RecoverKeeps,
     CloseKeeps, CreateKeeps, FailKeeps, CompleteKeeps, RescueKeeps, AbandonLoadsKeeps, AbandonDeletesKeeps,
     ArchiveKeeps, DieKeeps DEF Next
<1>6. QED
  BY <1>1, <1>4, <1>5

-----------------------------------------------------------------------------
(* The theorems.                                                           *)

\* The inductive invariant: what was made with a key is what its claim stands for,
\* and only the request that inserted the claim works on it.
THEOREM ClaimsInvariant == Spec => []ClaimsInv
BY ClaimsStart, ClaimsStep, PTL DEF Spec

\* Requests, claims (IdempotencyKey) and results keep their types.
THEOREM ClaimTypes == Spec => []TypeOK
<1>1. ClaimsInv => TypeOK
  BY DEF ClaimsInv
<1>2. QED
  BY <1>1, ClaimsInvariant, PTL

\* abandon and complete: the claim of a manual order in progress has a request
\* that works on it, or one that died.
THEOREM KeysAreGivenBack == Spec => []NoKeyLeftBehind
<1>1. ClaimsInv => NoKeyLeftBehind
  BY DEF ClaimsInv, KeyOK, NoKeyLeftBehind
<1>2. QED
  BY <1>1, ClaimsInvariant, PTL

\* recover_completed: once a manual order is there, no repetition is refused until it
\* is archived.
THEOREM RetriesFindTheOrder == Spec => []RetryFindsTheOrder
<1>1. ClaimsInv => RetryFindsTheOrder
  BY DEF ClaimsInv, ToldOK, RetryFindsTheOrder
<1>2. QED
  BY <1>1, ClaimsInvariant, PTL

-----------------------------------------------------------------------------
(* Claims keep the promise of OneResult.                                   *)

told == [r \in Requests |-> req[r].answer]

\* Steps at which nothing is made and nobody is told anything.
LEMMA QuietGo ==
  ASSUME TypeOK, NEW r \in Requests, NEW s, Go(r, s)
  PROVE  told' = told
BY Goes DEF told

LEMMA QuietFind ==
  ASSUME TypeOK, NEW r \in Requests, NEW w, Find(r, w)
  PROVE  told' = told
BY Finds DEF told

LEMMA TellTells ==
  ASSUME ClaimsInv, ClaimsInv', NEW r \in Requests, NEW w \in Requests, Tell(r, w),
         ~At(r, "told"), UNCHANGED <<ask, made>>
  PROVE  Promise!Tell(r)
<1>1. /\ req'[r].at = "told" /\ req'[r].answer = w
      /\ \A q \in Requests : q # r => req'[q] = req[q]
  BY Tells DEF ClaimsInv
<1>2. req[r].answer = Nobody
  BY Known DEF ToldOK
<1>3. w # Nobody
  BY NobodyAssumption
<1>4. ToldOK(r)'
  BY DEF ClaimsInv
<1>5. w \in made[K(r)] /\ ask[w] = ask[r]
  BY <1>1, <1>3, <1>4 DEF ToldOK, K
<1>6. told' = [told EXCEPT ![r] = w]
  BY <1>1 DEF told
<1>7. QED
  BY <1>2, <1>5, <1>6 DEF Promise!Tell, told, K

LEMMA StepKeepsPromise ==
  ASSUME ClaimsInv, ClaimsInv', [Next]_vars
  PROVE  [Promise!Next]_<<ask, made, told>>
<1>1. TypeOK
  BY DEF ClaimsInv
<1>2. CASE UNCHANGED vars
  BY <1>2 DEF vars, told
<1>3. ASSUME NEW r \in Requests, Create(r)
      PROVE  Promise!Make(r)
  <2>1. RowOK(r) /\ HoldsOK(r) /\ K(r) \in Keys
    BY Known
  <2>2. made[K(r)] = {}
    BY <1>3, <2>1 DEF Create, RowOK, HoldsOK, Owner, At
  <2>3. told' = told
    BY <1>1, <1>3, QuietGo DEF Create
  <2>4. made' = [made EXCEPT ![ask[r].key] = {r}] /\ ask' = ask
    BY <1>3, <2>2 DEF Create, K
  <2>5. QED
    BY <2>2, <2>3, <2>4 DEF Promise!Make, told, K
<1>4. ASSUME NEW r \in Requests, FindNone(r)
      PROVE  [Promise!Next]_<<ask, made, told>>
  BY <1>1, <1>4, QuietGo DEF FindNone
<1>5. ASSUME NEW r \in Requests, Refuse(r)
      PROVE  [Promise!Next]_<<ask, made, told>>
  BY <1>1, <1>5, QuietGo DEF Refuse
<1>6. ASSUME NEW r \in Requests, AgainNone(r)
      PROVE  [Promise!Next]_<<ask, made, told>>
  BY <1>1, <1>6, QuietGo DEF AgainNone
<1>7. ASSUME NEW r \in Requests, Fail(r)
      PROVE  [Promise!Next]_<<ask, made, told>>
  BY <1>1, <1>7, QuietGo DEF Fail
<1>8. ASSUME NEW r \in Requests, AbandonLoads(r)
      PROVE  [Promise!Next]_<<ask, made, told>>
  BY <1>1, <1>8, QuietGo DEF AbandonLoads
<1>9. ASSUME NEW r \in Requests, Die(r)
      PROVE  [Promise!Next]_<<ask, made, told>>
  BY <1>1, <1>9, QuietGo DEF Die
<1>10. ASSUME NEW r \in Requests, Look(r)
      PROVE  [Promise!Next]_<<ask, made, told>>
  BY <1>1, <1>10, QuietGo, QuietFind DEF Look
<1>11. ASSUME NEW r \in Requests, Rescue(r)
      PROVE  [Promise!Next]_<<ask, made, told>>
  BY <1>1, <1>11, QuietGo, QuietFind DEF Rescue
<1>12. ASSUME NEW r \in Requests, Insert(r)
      PROVE  [Promise!Next]_<<ask, made, told>>
  BY <1>1, <1>12, QuietGo DEF Insert
<1>13. ASSUME NEW r \in Requests, AbandonDeletes(r)
      PROVE  [Promise!Next]_<<ask, made, told>>
  BY <1>1, <1>13, QuietGo DEF AbandonDeletes
<1>14. ASSUME NEW r \in Requests, Arrive(r)
      PROVE  [Promise!Next]_<<ask, made, told>>
  <2>1. /\ req'[r].answer = req[r].answer
        /\ \A q \in Requests : q # r => req'[q] = req[q]
    BY <1>1, <1>14 DEF Arrive, TypeOK, Req
  <2>2. told' = told
    BY <2>1 DEF told
  <2>3. QED
    BY <1>14, <2>2 DEF Arrive
<1>15. ASSUME NEW r \in Requests, Replay(r)
      PROVE  [Promise!Next]_<<ask, made, told>>
  <2>1. Row(r).resource \in Requests
    BY <1>15, Known DEF Replay, RowOK
  <2>2. Tell(r, Row(r).resource) => Promise!Tell(r)
    BY <1>15, <2>1, TellTells DEF Replay, At
  <2>3. QED
    BY <1>1, <1>15, <2>2, QuietGo DEF Replay, Answer, Promise!Next
<1>16. ASSUME NEW r \in Requests, Recover(r)
      PROVE  [Promise!Next]_<<ask, made, told>>
  <2>1. Row(r).status = "completed" => Row(r).resource \in Requests
    BY Known DEF RowOK
  <2>2. Row(r).status = "completed" /\ Tell(r, Row(r).resource) => Promise!Tell(r)
    BY <1>16, <2>1, TellTells DEF Recover, At
  <2>3. QED
    BY <1>1, <1>16, <2>2, QuietGo DEF Recover, Answer, Promise!Next
<1>17. ASSUME NEW r \in Requests, Close(r)
      PROVE  [Promise!Next]_<<ask, made, told>>
  <2>1. req[r].found \in Requests
    BY <1>17, Known DEF Close, RowOK, HoldsOK
  <2>2. Tell(r, req[r].found) => Promise!Tell(r)
    BY <1>17, <2>1, TellTells DEF Close, At
  <2>3. QED
    BY <1>1, <1>17, <2>2, QuietGo DEF Close, Answer, Promise!Next
<1>18. ASSUME NEW r \in Requests, Complete(r)
      PROVE  [Promise!Next]_<<ask, made, told>>
  <2>1. Tell(r, r) => Promise!Tell(r)
    BY <1>18, TellTells DEF Complete, At
  <2>2. QED
    BY <1>1, <1>18, <2>1, QuietGo DEF Complete, Promise!Next
<1>19. ASSUME NEW r \in Requests, Archive(r)
       PROVE  [Promise!Next]_<<ask, made, told>>
  BY <1>19 DEF Archive, told
<1>20. QED
  BY <1>2, <1>3, <1>4, <1>5, <1>6, <1>7, <1>8, <1>9, <1>10, <1>11, <1>12, <1>13, <1>14, <1>15, <1>16, <1>17, <1>18, <1>19 DEF Next, Promise!Next

\* claim, complete, abandon and recover_completed keep the promise of a key: one
\* result, and the same answer for everybody who asked for it.
THEOREM OneResultPerKey == Spec => ResultOnce
<1>1. Init => Promise!Init
  BY DEF Init, Promise!Init
<1>2. ClaimsInv /\ ClaimsInv' /\ [Next]_vars => [Promise!Next]_<<ask, made, told>>
  BY StepKeepsPromise
<1>3. QED
  BY <1>1, <1>2, ClaimsInvariant, PTL DEF Spec, ResultOnce, Promise!Spec, told
=============================================================================
