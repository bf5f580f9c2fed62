------------------------------- MODULE Checkout -------------------------------
(***************************************************************************)
(* Modules 08 and 09 and the payment provider: an order is placed, a        *)
(* payment is initiated for it, the customer pays at the provider, webhooks *)
(* bring the news back, and an administrator may refund.                    *)
(*                                                                          *)
(* Orders are the order book that Orders is shown to implement: each call   *)
(* into module 08 is one atomic move or a refusal.  Payments are modelled   *)
(* step by step: PaymentApplicationService commits to its own tables, to    *)
(* the provider and to module 08 one after the other, with nothing that     *)
(* spans two of them, and the process may die in between.                   *)
(*                                                                          *)
(* The idempotency row of initiatePayment is left out: it can only end a    *)
(* call after its validation and before its first write, as Drop does.      *)
(***************************************************************************)
EXTENDS Integers, Sequences, FiniteSets, OrderLifecycle, PaymentLifecycle

CONSTANTS
  Customers, OrderIds, Calls,
  Amount,     \* amountCents of every order
  MaxTries    \* bound on the provider orders created per order

ASSUME AmountAssumption == Amount \in Nat \ {0} /\ MaxTries \in Nat \ {0}

VARIABLES
  book,       \* [OrderIds -> order]            module 08's orders
  payments,   \* [OrderIds -> payment row]      payments, one per order
  history,    \* [OrderIds -> Seq(episode)]     payment_state_transitions
  refunds,    \* [OrderIds -> SUBSET refund]    payment_refunds
  gateway,    \* [OrderIds -> [opened, status]] the provider's side of an order
  sent,       \* SUBSET Events                  webhooks the provider (re)sends
  task        \* [Calls -> what a call is doing]

vars == <<book, payments, history, refunds, gateway, sent, task>>

\* Module 08 as module 09 sees it.
M08 == INSTANCE OrderBook

NoPayment == [state |-> "NONE", version |-> 0]

PaymentRows == [state : PaymentStates, version : Nat \ {0}]

PaymentEpisodes == [from : PaymentStates, to : PaymentStates]

\* A refund row; version, that of the payment it was saved with, tells it from
\* another one of the same amount.
Refunds == [amount : 1..Amount, state : {"PENDING", "REFUNDED"}, version : Nat]

\* The events processWebhook recognises.
EventTypes == {"payment.authorized", "payment.captured", "payment.failed",
               "payment.expired", "refund.created", "refund.processed"}

Events == [order : OrderIds, type : EventTypes]

\* What became of the provider's order: refunding is a refund created there and
\* not processed yet.
GatewayStates == {"none", "open", "expired", "authorized", "captured",
                  "refunding", "refunded"}

Idle == [pc |-> "idle"]

\* An initiatePayment call.
InitiateTasks == [pc : {"insert", "provider", "processing", "confirm"},
                  order : OrderIds]

\* A webhook or refund call that read the payment and is about to save it.
SaveTasks == [pc : {"webhook"}, order : OrderIds, seen : PaymentStates,
              version : Nat \ {0}, to : {"CAPTURED", "FAILED", "REFUNDED"}]
       \cup [pc : {"refund"}, order : OrderIds, seen : PaymentStates,
             version : Nat \ {0}, amount : 1..Amount]

\* A webhook call that saved CAPTURED and is about to tell module 08.
PaidTasks == [pc : {"paid"}, order : OrderIds]

TypeOK ==
  /\ book \in [OrderIds -> {M08!NotPlaced} \cup
                           [customer : Customers, state : OrderStates]]
  /\ payments \in [OrderIds -> {NoPayment} \cup PaymentRows]
  /\ history \in [OrderIds -> Seq(PaymentEpisodes)]
  /\ refunds \in [OrderIds -> SUBSET Refunds]
  /\ gateway \in [OrderIds -> [opened : 0..MaxTries, status : GatewayStates]]
  /\ sent \subseteq Events
  /\ task \in [Calls -> {Idle} \cup InitiateTasks \cup SaveTasks \cup PaidTasks]

Init ==
  /\ M08!Init
  /\ payments = [o \in OrderIds |-> NoPayment]
  /\ history = [o \in OrderIds |-> <<>>]
  /\ refunds = [o \in OrderIds |-> {}]
  /\ gateway = [o \in OrderIds |-> [opened |-> 0, status |-> "none"]]
  /\ sent = {}
  /\ task = [t \in Calls |-> Idle]

Goto(t, step) ==
  task' = [task EXCEPT ![t] = [pc |-> step, order |-> task[t].order]]

Finish(t) == task' = [task EXCEPT ![t] = Idle]

\* The payment row holds its provider order id (from SaveProcessing on).
StoredAtProvider(o) == payments[o].version > 1

\* repository.save: the version-guarded update and the episode, atomically.
Current(o, version) == payments[o].version = version

\* (faulty variant: the version is not part of the WHERE clause)
SaveUnguarded(o, version, from, to) ==
  /\ payments' = [payments EXCEPT ![o] = [state |-> to, version |-> version + 1]]
  /\ history' = [history EXCEPT ![o] = Append(@, [from |-> from, to |-> to])]

Save(o, version, from, to) ==
  /\ Current(o, version)
  /\ payments' = [payments EXCEPT ![o] = [state |-> to, version |-> version + 1]]
  /\ history' = [history EXCEPT ![o] = Append(@, [from |-> from, to |-> to])]

-------------------------------------------------------------------------------
(* Faulty variants, each a bug the code could have.                           *)

\* the first version of an aggregate is 0
InsertAtVersionZero(t) ==
  LET o == task[t].order IN
  /\ task[t].pc = "insert"
  /\ payments[o] = NoPayment
  /\ payments' = [payments EXCEPT ![o] = [state |-> "PENDING", version |-> 0]]
  /\ Goto(t, "provider")
  /\ UNCHANGED <<book, history, refunds, gateway, sent>>

\* the insert is an upsert: the unique order id stops nobody
InsertUpserts(t) ==
  LET o == task[t].order IN
  /\ task[t].pc = "insert"
  /\ payments' = [payments EXCEPT ![o] = [state |-> "PENDING", version |-> 1]]
  /\ Goto(t, "provider")
  /\ UNCHANGED <<book, history, refunds, gateway, sent>>

\* module 08 is told that the order is paid whatever the event said
WebhookAlwaysPays(t) ==
  LET o == task[t].order
      to == task[t].to
  IN  /\ task[t].pc = "webhook"
      /\ Save(o, task[t].version, task[t].seen, to)
      /\ Goto(t, "paid")
      /\ UNCHANGED <<book, refunds, gateway, sent>>

\* only payment.captured is taken for a capture
ReceiveCapturedOnly(t, event) ==
  LET o == event.order
      to == RequestedState[event.type]
  IN  /\ task[t] = Idle
      /\ event \in sent
      /\ event.type # "payment.authorized"
      /\ StoredAtProvider(o)
      /\ PaymentMovePermitted(payments[o].state, to, "SYSTEM", TRUE)
      /\ task' = [task EXCEPT ![t] =
           [pc |-> "webhook", order |-> o, seen |-> payments[o].state,
            version |-> payments[o].version, to |-> to]]
      /\ UNCHANGED <<book, payments, history, refunds, gateway, sent>>

\* the refund row is written outside the version-guarded transaction
RefundRowAlwaysWritten(t) ==
  LET o == task[t].order IN
  /\ task[t].pc = "refund"
  /\ \/ Save(o, task[t].version, task[t].seen, "REFUND_PENDING")
     \/ ~Current(o, task[t].version) /\ UNCHANGED <<payments, history>>
  /\ refunds' = [refunds EXCEPT ![o] =
       @ \cup {[amount |-> task[t].amount, state |-> "PENDING",
                version |-> task[t].version + 1]}]
  /\ Finish(t)
  /\ UNCHANGED <<book, gateway, sent>>

-------------------------------------------------------------------------------
(* Module 08's own traffic: orders are placed, cancelled and shipped.         *)

PlaceOrder(o, c) ==
  /\ M08!Place(o, c)
  /\ UNCHANGED <<payments, history, refunds, gateway, sent, task>>

\* cancelOrder by the customer, or transitionOrder by an administrator.
MoveOrder(o, to, actor) ==
  /\ OrderMovePermitted(book[o].state, to, actor, TRUE)
  /\ M08!Move(o, to)
  /\ UNCHANGED <<payments, history, refunds, gateway, sent, task>>

\* Module08OrderWriteAdapter: transitionOrder as SYSTEM.
SystemMove(o, to) ==
  \/ /\ OrderMovePermitted(book[o].state, to, "SYSTEM", TRUE)
     /\ M08!Move(o, to)
  \/ /\ ~(OrderMovePermitted(book[o].state, to, "SYSTEM", TRUE)
          /\ M08!Vacant(book[o].customer, to))
     /\ UNCHANGED book

-------------------------------------------------------------------------------
(* initiatePayment                                                            *)

\* The order is pending and has no payment when the request is validated.
InitiatePayment(t, o) ==
  /\ task[t] = Idle
  /\ book[o].state = "PENDING"
  /\ payments[o] = NoPayment
  /\ task' = [task EXCEPT ![t] = [pc |-> "insert", order |-> o]]
  /\ UNCHANGED <<book, payments, history, refunds, gateway, sent>>

\* The payment is inserted, unless the unique order id is taken meanwhile.
InsertPayment(t) ==
  LET o == task[t].order IN
  /\ task[t].pc = "insert"
  /\ \/ /\ payments[o] = NoPayment
        /\ payments' = [payments EXCEPT ![o] = [state |-> "PENDING", version |-> 1]]
        /\ Goto(t, "provider")
     \/ /\ payments[o] # NoPayment
        /\ Finish(t)
        /\ UNCHANGED payments
  /\ UNCHANGED <<book, history, refunds, gateway, sent>>

\* createProviderOrder succeeds.
OpenProviderOrder(t) ==
  LET o == task[t].order IN
  /\ task[t].pc = "provider"
  /\ gateway[o].opened < MaxTries
  /\ gateway' = [gateway EXCEPT ![o] = [opened |-> @.opened + 1, status |-> "open"]]
  /\ Goto(t, "processing")
  /\ UNCHANGED <<book, payments, history, refunds, sent>>

\* createProviderOrder throws: PAYMENT_PROVIDER_ERROR, the payment stays PENDING.
ProviderRejects(t) ==
  /\ task[t].pc = "provider"
  /\ Finish(t)
  /\ UNCHANGED <<book, payments, history, refunds, gateway, sent>>

\* The provider's order id is stored with the move to PROCESSING.
SaveProcessing(t) ==
  LET o == task[t].order IN
  /\ task[t].pc = "processing"
  /\ \/ Save(o, 1, "PENDING", "PROCESSING") /\ Goto(t, "confirm")
     \/ ~Current(o, 1) /\ Finish(t) /\ UNCHANGED <<payments, history>>
  /\ UNCHANGED <<book, refunds, gateway, sent>>

\* Module 08 is told; if it refuses, the call throws and the payment stays.
ConfirmOrder(t) ==
  /\ task[t].pc = "confirm"
  /\ SystemMove(task[t].order, "CONFIRMED")
  /\ Finish(t)
  /\ UNCHANGED <<payments, history, refunds, gateway, sent>>

-------------------------------------------------------------------------------
(* The provider and the customer at its checkout (external)                   *)

\* The provider order id is readable once it is stored with the payment.
Payable(o) == gateway[o].status = "open" /\ StoredAtProvider(o)

Announce(o, type) == sent' = sent \cup {[order |-> o, type |-> type]}

\* An attempt to pay is declined; the customer may try again.
Decline(o) ==
  /\ Payable(o)
  /\ Announce(o, "payment.failed")
  /\ UNCHANGED <<book, payments, history, refunds, gateway, task>>

\* The time to pay runs out.
Expire(o) ==
  /\ Payable(o)
  /\ gateway' = [gateway EXCEPT ![o].status = "expired"]
  /\ Announce(o, "payment.expired")
  /\ UNCHANGED <<book, payments, history, refunds, task>>

Authorize(o) ==
  /\ Payable(o)
  /\ gateway' = [gateway EXCEPT ![o].status = "authorized"]
  /\ Announce(o, "payment.authorized")
  /\ UNCHANGED <<book, payments, history, refunds, task>>

Capture(o) ==
  /\ gateway[o].status = "authorized"
  /\ gateway' = [gateway EXCEPT ![o].status = "captured"]
  /\ Announce(o, "payment.captured")
  /\ UNCHANGED <<book, payments, history, refunds, task>>

\* A refund is created at the provider, and processed later.
CreateRefund(o) ==
  /\ gateway[o].status = "captured"
  /\ gateway' = [gateway EXCEPT ![o].status = "refunding"]
  /\ Announce(o, "refund.created")
  /\ UNCHANGED <<book, payments, history, refunds, task>>

Refund(o) ==
  /\ gateway[o].status = "refunding"
  /\ gateway' = [gateway EXCEPT ![o].status = "refunded"]
  /\ Announce(o, "refund.processed")
  /\ UNCHANGED <<book, payments, history, refunds, task>>

-------------------------------------------------------------------------------
(* processWebhook                                                             *)

\* A webhook arrives, for the first time or again: the payment that stores its
\* provider order id is read, and the lifecycle accepts what the event asks.
ReceiveWebhook(t, event) ==
  LET o == event.order
      to == RequestedState[event.type]
  IN  /\ task[t] = Idle
      /\ event \in sent
      /\ StoredAtProvider(o)
      /\ PaymentMovePermitted(payments[o].state, to, "SYSTEM", TRUE)
      /\ task' = [task EXCEPT ![t] =
           [pc |-> "webhook", order |-> o, seen |-> payments[o].state,
            version |-> payments[o].version, to |-> to]]
      /\ UNCHANGED <<book, payments, history, refunds, gateway, sent>>

\* The payment is saved, with a refund row of the full amount if the event was
\* a refund and names the provider's refund id; a concurrent save ends the call.
SaveWebhook(t) ==
  LET o == task[t].order
      to == task[t].to
  IN  /\ task[t].pc = "webhook"
      /\ \/ /\ Save(o, task[t].version, task[t].seen, to)
            /\ \/ UNCHANGED refunds
               \/ /\ to = "REFUNDED"
                  /\ refunds' = [refunds EXCEPT ![o] =
                       @ \cup {[amount |-> Amount, state |-> "REFUNDED",
                                version |-> task[t].version + 1]}]
            /\ IF to = "CAPTURED" THEN Goto(t, "paid") ELSE Finish(t)
         \/ /\ ~Current(o, task[t].version)
            /\ Finish(t)
            /\ UNCHANGED <<payments, history, refunds>>
      /\ UNCHANGED <<book, gateway, sent>>

\* Module 08 is told that the order is paid; if it refuses, the call throws.
MarkOrderPaid(t) ==
  /\ task[t].pc = "paid"
  /\ SystemMove(task[t].order, "PAID")
  /\ Finish(t)
  /\ UNCHANGED <<payments, history, refunds, gateway, sent>>

-------------------------------------------------------------------------------
(* initiateRefund                                                             *)

\* An administrator asks to refund part or all of a captured payment.
InitiateRefund(t, o, amount) ==
  /\ task[t] = Idle
  /\ payments[o].state = "CAPTURED"
  /\ amount <= Amount
  /\ task' = [task EXCEPT ![t] =
       [pc |-> "refund", order |-> o, seen |-> "CAPTURED",
        version |-> payments[o].version, amount |-> amount]]
  /\ UNCHANGED <<book, payments, history, refunds, gateway, sent>>

\* The payment and the refund row are saved; the provider is not called.
SaveRefund(t) ==
  LET o == task[t].order IN
  /\ task[t].pc = "refund"
  /\ \/ /\ Save(o, task[t].version, task[t].seen, "REFUND_PENDING")
        /\ refunds' = [refunds EXCEPT ![o] =
             @ \cup {[amount |-> task[t].amount, state |-> "PENDING",
                      version |-> task[t].version + 1]}]
     \/ ~Current(o, task[t].version) /\ UNCHANGED <<payments, history, refunds>>
  /\ Finish(t)
  /\ UNCHANGED <<book, gateway, sent>>

-------------------------------------------------------------------------------

\* The process serving the call dies between two steps.
Drop(t) ==
  /\ task[t] # Idle
  /\ Finish(t)
  /\ UNCHANGED <<book, payments, history, refunds, gateway, sent>>

Work(t) ==
  \/ InsertPayment(t)
  \/ OpenProviderOrder(t)
  \/ ProviderRejects(t)
  \/ SaveProcessing(t)
  \/ ConfirmOrder(t)
  \/ SaveWebhook(t)
  \/ MarkOrderPaid(t)
  \/ SaveRefund(t)

Next ==
  \/ \E o \in OrderIds :
       \/ \E c \in Customers : PlaceOrder(o, c)
       \/ \E to \in OrderStates, actor \in {"CUSTOMER", "ADMIN"} : MoveOrder(o, to, actor)
       \/ Decline(o) \/ Expire(o) \/ Authorize(o) \/ Capture(o)
       \/ CreateRefund(o) \/ Refund(o)
  \/ \E t \in Calls :
       \/ \E o \in OrderIds : InitiatePayment(t, o)
       \/ \E event \in sent : ReceiveWebhook(t, event)
       \/ \E o \in OrderIds, amount \in 1..Amount : InitiateRefund(t, o, amount)
       \/ Work(t)
       \/ Drop(t)

Spec == Init /\ [][Next]_vars

\* The provider sends a webhook again until it is accepted, and the process
\* does not die every time a call is resumed; nobody must pay, cancel, ship or
\* refund.
FairSpec ==
  /\ Spec
  /\ \A t \in Calls : SF_vars(Work(t))
  /\ \A event \in Events : SF_vars(\E t \in Calls : ReceiveWebhook(t, event))

-------------------------------------------------------------------------------

Reached(o, state) == \E i \in DOMAIN history[o] : history[o][i].to = state

\* The episodes of a payment tell its whole life: they start at PENDING, follow
\* the lifecycle's edges without a gap and end in the state the row shows,
\* whatever webhooks and refunds ran at the same time.
PaymentHistoryMatches ==
  \A o \in OrderIds : payments[o] # NoPayment =>
    LET path == history[o]
        n == Len(path)
    IN  /\ payments[o].version = n + 1
        /\ payments[o].state = IF n = 0 THEN "PENDING" ELSE path[n].to
        /\ \A i \in 1..n :
             /\ PaymentEdge(path[i].from, path[i].to)
             /\ path[i].from = IF i = 1 THEN "PENDING" ELSE path[i-1].to

\* An order is only ever paid, and shipped, after its payment was recorded as
\* CAPTURED, and that only after the customer authorized the payment at the
\* provider: no declined or expired attempt, no retried or late webhook pays an
\* order.  Nothing stronger holds: processWebhook takes payment.authorized for a
\* capture, so the provider need not have captured yet, which decisions D-03 and
\* D-05 of module 09 ask for.
PaidOrdersWereAuthorized ==
  \A o \in OrderIds :
    book[o].state \in {"PAID", "SHIPPED", "DELIVERED", "CLOSED"} =>
      /\ Reached(o, "CAPTURED")
      /\ gateway[o].status \in {"authorized", "captured", "refunding", "refunded"}

\* Two initiations of one order, retried or racing, never open two orders at
\* the provider: the customer cannot be asked to pay twice.
OneProviderOrder == \A o \in OrderIds : gateway[o].opened <= 1

\* The refunds administrators asked for, and those recorded as made.
Asked(o) == {r \in refunds[o] : r.state = "PENDING"}

Made(o) == {r \in refunds[o] : r.state = "REFUNDED"}

\* The refund rows of a payment tell its life: it has one refund that was asked
\* for if it went through REFUND_PENDING and none otherwise, and at most one that
\* was made, only when it ended REFUNDED and only after an administrator asked,
\* whatever refunds and webhooks race.  Their amounts are not added up: the row a
\* webhook writes repeats the full amount beside the row that was asked for, so
\* together the two exceed what was captured, against decision D-04 of module 09.
RefundRowsTellTheLife ==
  \A o \in OrderIds :
    /\ Cardinality(Asked(o)) <= 1
    /\ Asked(o) # {} <=> Reached(o, "REFUND_PENDING")
    /\ Cardinality(Made(o)) <= 1
    /\ Made(o) # {} => Asked(o) # {} /\ payments[o].state = "REFUNDED"

\* What the provider announced reaches the payment: one that was paid does not
\* stay PROCESSING.
PaymentsSettle ==
  \A o \in OrderIds :
    (gateway[o].status = "authorized" /\ payments[o].state = "PROCESSING")
      ~> payments[o].state # "PROCESSING"

\* payment-application.service.ts: "M09 processes webhooks to transition payment
\* to CAPTURED and order to PAID": the order of a captured payment does not
\* stay CONFIRMED.
CapturedOrdersGetPaid ==
  \A o \in OrderIds :
    (payments[o].state = "CAPTURED" /\ book[o].state = "CONFIRMED")
      ~> book[o].state # "CONFIRMED"
===============================================================================
