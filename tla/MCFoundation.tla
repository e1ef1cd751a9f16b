---------------------------- MODULE MCFoundation ----------------------------
(* A small instance of InventoryFoundation for TLC. *)
EXTENDS InventoryFoundation, TLC

CONSTANTS o1, a1, p1, p2, r1, r2

MCOrderOf == [a \in Attempts |-> o1]
MCSymmetry == Permutations({r1, r2})
=============================================================================
