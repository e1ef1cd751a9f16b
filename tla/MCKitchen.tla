----------------------------- MODULE MCKitchen -----------------------------
(* A small instance of KitchenProduction for TLC. *)
EXTENDS KitchenProduction

CONSTANTS o1, o2, u1, u2, d1

\* Two orders in one kitchen.
MCOrderOf == [u \in {u1, u2, d1} |-> IF u = u1 THEN o1 ELSE o2]
MCMaxAttempts == [u \in {u1, u2, d1} |-> CASE u = u1 -> 2 [] u = u2 -> 1 [] u = d1 -> 3]

\* Bound: only one order's units are remade or sent back, so that an attempt in between
\* can be remade again; the orders share nothing but the shelf.
Reworked(o) == \E u \in UnitsOf(o) : Len(attempts[u]) > 1
MCReworks   == ~(Reworked(o1) /\ Reworked(o2))
=============================================================================
