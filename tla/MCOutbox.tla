------------------------------ MODULE MCOutbox ------------------------------
(* Small instances of WhatsAppOutbox for TLC. *)
EXTENDS WhatsAppOutbox, TLC

CONSTANTS m1, m2, w1, w2

MCKindsOf == (m1 :> {"plain"}) @@ (m2 :> Kind)
=============================================================================
