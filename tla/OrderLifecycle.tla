---------------------------- MODULE OrderLifecycle ----------------------------
(***************************************************************************)
(* The order state machine of module 08: OrderLifecycle's transition table  *)
(* and the checks transition() makes against it.                            *)
(***************************************************************************)
OrderStates == {"PENDING", "CONFIRMED", "PAID", "SHIPPED", "DELIVERED",
                "CANCELLED", "CLOSED"}

OrderActors == {"CUSTOMER", "SYSTEM", "ADMIN"}

TerminalOrderStates == {"CANCELLED", "CLOSED"}

Rule(from, to, actors, reasonRequired) ==
  [from |-> from, to |-> to, actors |-> actors, reasonRequired |-> reasonRequired]

OrderTransitions ==
  { Rule("PENDING",   "CONFIRMED", {"SYSTEM", "ADMIN"},   FALSE),
    Rule("PENDING",   "CANCELLED", {"CUSTOMER", "ADMIN"}, TRUE),
    Rule("CONFIRMED", "PAID",      {"SYSTEM"},            FALSE),
    Rule("CONFIRMED", "CANCELLED", {"ADMIN"},             TRUE),
    Rule("PAID",      "SHIPPED",   {"SYSTEM", "ADMIN"},   FALSE),
    Rule("SHIPPED",   "DELIVERED", {"SYSTEM", "ADMIN"},   FALSE),
    Rule("DELIVERED", "CLOSED",    {"SYSTEM", "ADMIN"},   FALSE) }

\* transition() accepts the move: deny by default.
OrderMovePermitted(from, to, actor, reasonGiven) ==
  /\ from \notin TerminalOrderStates
  /\ from # to
  /\ \E rule \in OrderTransitions :
       /\ rule.from = from
       /\ rule.to = to
       /\ actor \in rule.actors
       /\ rule.reasonRequired => reasonGiven

\* Some actor may make the move.
OrderEdge(from, to) ==
  \E rule \in OrderTransitions : rule.from = from /\ rule.to = to
===============================================================================
