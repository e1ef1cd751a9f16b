----------------------------- MODULE MCDelivery -----------------------------
(* Small instances of DeliveryService for TLC. *)
EXTENDS DeliveryService, TLC

CONSTANTS o1, o2, d1, d2, e1, e2, r1

MCSymmetry ==
  Permutations(Orders) \cup Permutations(Drivers) \cup Permutations(Earnings)
=============================================================================
