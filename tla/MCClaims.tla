------------------------------ MODULE MCClaims ------------------------------
(* Small instances of IdempotencyClaims for TLC. *)
EXTENDS IdempotencyClaims, TLC

CONSTANTS k1, k2, r1, r2, r3, p1, p2

MCFlow == (k1 :> "manual") @@ (k2 :> "payment")

MCSymmetry == Permutations(Requests) \cup Permutations(Payloads)
=============================================================================
