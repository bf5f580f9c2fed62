--------------------------- MODULE PaymentLifecycle ---------------------------
(***************************************************************************)
(* The payment state machine of module 09: PaymentLifecycle's transition    *)
(* table, the checks transition() makes against it, and what processWebhook *)
(* takes each provider event to mean.                                       *)
(***************************************************************************)
PaymentStates == {"PENDING", "PROCESSING", "CAPTURED", "FAILED",
                  "REFUND_PENDING", "REFUNDED", "EXPIRED"}

TerminalPaymentStates == {"FAILED", "EXPIRED", "REFUNDED"}

PaymentRule(from, to, actor, reasonRequired) ==
  [from |-> from, to |-> to, actor |-> actor, reasonRequired |-> reasonRequired]

PaymentTransitions ==
  { PaymentRule("PENDING",        "PROCESSING",     "CUSTOMER", FALSE),
    PaymentRule("PENDING",        "EXPIRED",        "SYSTEM",   FALSE),
    PaymentRule("PROCESSING",     "CAPTURED",       "SYSTEM",   FALSE),
    PaymentRule("PROCESSING",     "FAILED",         "SYSTEM",   FALSE),
    PaymentRule("CAPTURED",       "REFUND_PENDING", "ADMIN",    TRUE),
    PaymentRule("REFUND_PENDING", "REFUNDED",       "SYSTEM",   FALSE),
    PaymentRule("REFUND_PENDING", "FAILED",         "SYSTEM",   FALSE) }

\* transition() accepts the move: deny by default.
PaymentMovePermitted(from, to, actor, reasonGiven) ==
  /\ from \notin TerminalPaymentStates
  /\ from # to
  /\ \E rule \in PaymentTransitions :
       /\ rule.from = from
       /\ rule.to = to
       /\ rule.actor = actor
       /\ rule.reasonRequired => reasonGiven

\* Some actor may make the move.
PaymentEdge(from, to) ==
  \E rule \in PaymentTransitions : rule.from = from /\ rule.to = to

\* The events processWebhook recognises and the state each one asks for.
RequestedState ==
  [type \in {"payment.captured", "payment.authorized", "payment.failed",
             "payment.expired", "refund.created", "refund.processed"} |->
     CASE type \in {"payment.captured", "payment.authorized"} -> "CAPTURED"
       [] type \in {"payment.failed", "payment.expired"}      -> "FAILED"
       [] type \in {"refund.created", "refund.processed"}     -> "REFUNDED"]
===============================================================================
