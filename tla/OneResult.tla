----------------------------- MODULE OneResult -----------------------------
(***************************************************************************)
(* What an idempotency key promises: however often a request comes with    *)
(* it, one result is made, and whoever gets an answer gets that result and *)
(* had asked for it.                                                       *)
(***************************************************************************)
CONSTANTS Requests, Keys, Nobody

VARIABLES
  ask,   \* the key and the payload each request comes with
  made,  \* the requests whose result was made, per key
  told   \* the request whose result each request was answered with

Init ==
  /\ made = [k \in Keys |-> {}]
  /\ told = [r \in Requests |-> Nobody]

Make(r) ==
  /\ made[ask[r].key] = {}
  /\ made' = [made EXCEPT ![ask[r].key] = {r}]
  /\ UNCHANGED <<ask, told>>

Tell(r) ==
  /\ told[r] = Nobody
  /\ \E w \in made[ask[r].key] :
       /\ ask[w] = ask[r]
       /\ told' = [told EXCEPT ![r] = w]
  /\ UNCHANGED <<ask, made>>

Next == \E r \in Requests : Make(r) \/ Tell(r)

Spec == Init /\ [][Next]_<<ask, made, told>>
=============================================================================
