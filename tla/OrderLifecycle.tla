--------------------------- MODULE OrderLifecycle ---------------------------
(***************************************************************************)
(* What the shop promises about an order, whoever moves it: it goes from   *)
(* the customer to the kitchen to the door, its end is final, and its      *)
(* ingredients leave the shelf when it is cooked and never come back.      *)
(***************************************************************************)

CONSTANT Orders

VARIABLES
  stage,   \* where the order is
  shelf    \* what became of its ingredients

Stages == {"none", "awaiting", "accepted", "kitchen", "ready", "out", "done", "off"}
Over   == {"done", "off"}
Shelf  == {"whole", "taken", "lost"}

Init ==
  /\ stage = [o \in Orders |-> "none"]
  /\ shelf = [o \in Orders |-> "whole"]

Move(o, from, to) ==
  /\ stage[o] \in from
  /\ stage' = [stage EXCEPT ![o] = to]

Open(o) ==
  /\ Move(o, {"none"}, "awaiting") \/ Move(o, {"none"}, "accepted")
  /\ UNCHANGED shelf

Accept(o) == Move(o, {"awaiting"}, "accepted") /\ UNCHANGED shelf

\* Cooking takes the ingredients, unless production units account for them; a
\* table's order is opened and cooked at once.
Cook(o) ==
  /\ Move(o, {"none", "awaiting", "accepted"}, "kitchen")
  /\ shelf' \in {shelf, [shelf EXCEPT ![o] = "taken"]}

Finish(o)   == Move(o, {"kitchen"}, "ready") /\ UNCHANGED shelf
Return(o)   == Move(o, {"ready"}, "kitchen") /\ UNCHANGED shelf
Dispatch(o) == Move(o, {"kitchen", "ready"}, "out") /\ UNCHANGED shelf
HandOver(o) == Move(o, {"ready", "out"}, "done") /\ UNCHANGED shelf

\* A cancelled or refunded order loses what was taken for it.
Drop(o) ==
  /\ Move(o, Stages \ (Over \cup {"none"}), "off")
  /\ shelf' = [shelf EXCEPT ![o] = IF @ = "taken" THEN "lost" ELSE @]

Next == \E o \in Orders :
  \/ Open(o)
  \/ Accept(o)
  \/ Cook(o)
  \/ Finish(o)
  \/ Return(o)
  \/ Dispatch(o)
  \/ HandOver(o)
  \/ Drop(o)

Spec == Init /\ [][Next]_<<stage, shelf>>
=============================================================================
