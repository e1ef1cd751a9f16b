---------------------------- MODULE StatusGraphs ----------------------------
(***************************************************************************)
(* The transition graphs of backend/core/state_machine.py, the module that *)
(* every service consults before it writes a status.  A graph maps a       *)
(* status to the set of statuses that may follow it.                       *)
(***************************************************************************)

OrderTransitions ==
  [ pending              |-> {"waiting_payment", "aguardando_pagamento", "paid",
                              "pago", "preparing", "cancelled"},
    waiting_payment      |-> {"paid", "pago", "preparing", "pagamento_recusado",
                              "pagamento_expirado", "cancelled"},
    aguardando_pagamento |-> {"paid", "pago", "preparing", "pagamento_recusado",
                              "pagamento_expirado", "cancelled"},
    paid                 |-> {"preparing", "cancelled", "refunded"},
    pago                 |-> {"preparing", "cancelled", "refunded"},
    pagamento_recusado   |-> {"aguardando_pagamento", "cancelled"},
    pagamento_expirado   |-> {"aguardando_pagamento", "cancelled"},
    preparing            |-> {"ready_for_pickup", "on_the_way", "cancelled"},
    ready_for_pickup     |-> {"preparing", "on_the_way", "cancelled"},
    on_the_way           |-> {"delivered", "cancelled"},
    delivered            |-> {},
    cancelled            |-> {},
    refunded             |-> {} ]

DeliveryTransitions ==
  [ pending_assignment |-> {"assigned", "cancelled"},
    assigned           |-> {"picked_up", "on_the_way", "failed", "cancelled"},
    picked_up          |-> {"on_the_way", "failed"},
    on_the_way         |-> {"delivered", "failed"},
    delivered          |-> {"completed"},
    completed          |-> {},
    failed             |-> {"pending_assignment"},
    cancelled          |-> {} ]

PaymentTransitions ==
  [ pending   |-> {"approved", "paid", "rejected", "failed", "cancelled", "expired"},
    approved  |-> {"refunded"},
    paid      |-> {"refunded"},
    rejected  |-> {"pending"},
    failed    |-> {"pending"},
    cancelled |-> {"pending"},
    expired   |-> {"pending"},
    refunded  |-> {} ]

OrderStatus ==
  { "pending", "waiting_payment", "aguardando_pagamento", "paid", "pago",
    "pagamento_recusado", "pagamento_expirado", "preparing", "ready_for_pickup",
    "on_the_way", "delivered", "cancelled", "refunded" }

PaymentStatus ==
  { "pending", "approved", "paid", "rejected", "failed", "cancelled", "expired",
    "refunded" }

DeliveryStatus == DOMAIN DeliveryTransitions

\* StateMachine.can_transition: an unknown status has no successor.
CanTransition(graph, from, to) == from \in DOMAIN graph /\ to \in graph[from]

OrderMay(from, to) == CanTransition(OrderTransitions, from, to)
PaymentMay(from, to) == CanTransition(PaymentTransitions, from, to)
DeliveryMay(from, to) == CanTransition(DeliveryTransitions, from, to)

\* StateMachine.is_terminal, on the order graph.
TerminalOrder == { s \in OrderStatus : OrderTransitions[s] = {} }

\* StateMachine.complete_local_fulfillment: a pickup or a table order goes from
\* ready_for_pickup to delivered without the route that the graph demands.
LocalFulfillment(kind, from) ==
  /\ kind \in {"pickup", "dine_in"}
  /\ from = "ready_for_pickup"
=============================================================================
