--------------------------- MODULE MCOrderPayment ---------------------------
(* Small instances of OrderPayment for TLC. *)
EXTENDS OrderPayment, TLC

CONSTANTS o1, o2, r1, r2, c1, c2

MCDelivery == o1 :> "delivery"
MCHall     == (o1 :> "dine_in") @@ (o2 :> "pickup")

MCMercadoPago == [m \in OnlineMethods |-> "mercado_pago"]
MCAsaas       == [m \in OnlineMethods |-> "asaas"]
MCRetries     == ("pix" :> "asaas") @@ ("credit_card" :> "pagarme")

\* Whatever a charge can become, or only that it is paid.
MCAnyOutcome == ChargeStatus
MCPaidOnly   == {"pending", "approved"}

MCSymmetry == Permutations(Requests) \cup Permutations(Charges)
=============================================================================
