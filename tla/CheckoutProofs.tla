---------------------------- MODULE CheckoutProofs ----------------------------
(***************************************************************************)
(* Proofs about Checkout for any number of customers, orders and calls.    *)
(* Five layers: the shapes (TypeOK); the payments, whose episodes lead to  *)
(* their rows, and what calls know of them (Told, Known); the provider's   *)
(* orders, of which a payment opens one (Opened); the way a capture takes  *)
(* from the provider over its webhook to module 08 (Backed); and the       *)
(* refunds, of which a payment has one once it reached REFUND_PENDING      *)
(* (AskedOnce).                                                            *)
(***************************************************************************)
EXTENDS Checkout, FiniteSetTheorems, TLAPS

Tasks == {Idle} \cup InitiateTasks \cup SaveTasks \cup PaidTasks

OrderRows == [customer : Customers, state : OrderStates]

-------------------------------------------------------------------------------
(* The shapes.                                                                *)

LEMMA TaskShapes ==
  ASSUME NEW x \in Tasks
  PROVE  /\ x = Idle <=> x.pc = "idle"
         /\ x # Idle => x.order \in OrderIds
         /\ x.pc \in {"insert", "provider", "processing", "confirm"} => x \in InitiateTasks
         /\ x.pc = "webhook" =>
              /\ x.seen \in PaymentStates
              /\ x.version \in Nat \ {0}
              /\ x.to \in {"CAPTURED", "FAILED", "REFUNDED"}
         /\ x.pc = "refund" =>
              /\ x.seen \in PaymentStates
              /\ x.version \in Nat \ {0}
              /\ x.amount \in 1..Amount
         /\ x.pc = "paid" => x \in PaidTasks
  BY DEF Tasks, Idle, InitiateTasks, SaveTasks, PaidTasks

LEMMA OrderMoves ==
  ASSUME NEW from, NEW to, NEW actor, OrderMovePermitted(from, to, actor, TRUE)
  PROVE  /\ from \in OrderStates
         /\ to \in OrderStates
         /\ actor # "SYSTEM" => to # "PAID"
         /\ to \in {"SHIPPED", "DELIVERED", "CLOSED"} =>
              from \in {"PAID", "SHIPPED", "DELIVERED"}
  BY DEF OrderMovePermitted, OrderTransitions, Rule, OrderStates

LEMMA PaymentMoves ==
  ASSUME NEW from, NEW to, NEW actor, PaymentMovePermitted(from, to, actor, TRUE)
  PROVE  PaymentEdge(from, to) /\ from \in PaymentStates /\ to \in PaymentStates
  BY DEF PaymentMovePermitted, PaymentEdge, PaymentTransitions, PaymentRule, PaymentStates

LEMMA Requested ==
  ASSUME NEW type \in EventTypes
  PROVE  /\ RequestedState[type] \in {"CAPTURED", "FAILED", "REFUNDED"}
         /\ RequestedState[type] = "CAPTURED" =>
              type \in {"payment.authorized", "payment.captured"}
  BY DEF EventTypes, RequestedState

\* An order that module 08 moves is in its new state, the others stay.
LEMMA MoveStep ==
  ASSUME TypeOK, NEW o \in OrderIds, NEW to \in OrderStates,
         book[o].state \in OrderStates, M08!Move(o, to)
  PROVE  /\ book' \in [OrderIds -> {M08!NotPlaced} \cup OrderRows]
         /\ book'[o].state = to
         /\ \A p \in OrderIds \ {o} : book'[p] = book[p]
<1>1. book \in [OrderIds -> {M08!NotPlaced} \cup OrderRows]
  BY DEF TypeOK, OrderRows
<1>2. book[o] \in OrderRows
  BY <1>1 DEF M08!NotPlaced, OrderStates
<1>3. PICK row : row = [book[o] EXCEPT !.state = to]
  OBVIOUS
<1>4. row \in OrderRows /\ row.state = to
  BY <1>2, <1>3 DEF OrderRows
<1>5. book' = [book EXCEPT ![o] = row]
  BY <1>3 DEF M08!Move
<1> QED
  BY <1>1, <1>4, <1>5

\* A call takes its next step.
LEMMA TaskStep ==
  ASSUME TypeOK, NEW t \in Calls, NEW x \in Tasks, task' = [task EXCEPT ![t] = x]
  PROVE  /\ task' \in [Calls -> Tasks]
         /\ task'[t] = x
         /\ \A u \in Calls \ {t} : task'[u] = task[u]
  BY DEF TypeOK, Tasks

LEMMA FinishStep ==
  ASSUME TypeOK, NEW t \in Calls, Finish(t)
  PROVE  /\ task' \in [Calls -> Tasks]
         /\ task'[t] = Idle
         /\ \A u \in Calls \ {t} : task'[u] = task[u]
  BY TaskStep DEF Finish, Tasks

LEMMA GotoStep ==
  ASSUME TypeOK, NEW t \in Calls, task[t] # Idle,
         NEW step \in {"provider", "processing", "confirm", "paid"}, Goto(t, step)
  PROVE  /\ task' \in [Calls -> Tasks]
         /\ task'[t].pc = step
         /\ task'[t].order = task[t].order
         /\ \A u \in Calls \ {t} : task'[u] = task[u]
<1>1. PICK x : x = [pc |-> step, order |-> task[t].order]
  OBVIOUS
<1>2. task[t].order \in OrderIds
  BY TaskShapes DEF TypeOK, Tasks
<1>3. x \in Tasks /\ x.pc = step /\ x.order = task[t].order
  BY <1>1, <1>2 DEF Tasks, InitiateTasks, PaidTasks
<1>4. task' = [task EXCEPT ![t] = x]
  BY <1>1 DEF Goto
<1> QED
  BY <1>3, <1>4, TaskStep

\* The rows of the payments after a save.
LEMMA SaveStep ==
  ASSUME TypeOK, NEW o \in OrderIds, NEW version \in Nat \ {0},
         NEW from \in PaymentStates, NEW to \in PaymentStates, Save(o, version, from, to)
  PROVE  /\ payments' \in [OrderIds -> {NoPayment} \cup PaymentRows]
         /\ history' \in [OrderIds -> Seq(PaymentEpisodes)]
         /\ payments'[o] = [state |-> to, version |-> version + 1]
         /\ payments'[o] # NoPayment
         /\ history'[o] = Append(history[o], [from |-> from, to |-> to])
         /\ \A p \in OrderIds \ {o} : payments'[p] = payments[p] /\ history'[p] = history[p]
         /\ payments[o].version = version
<1>1. PICK row, episode : /\ row = [state |-> to, version |-> version + 1]
                          /\ episode = [from |-> from, to |-> to]
  OBVIOUS
<1>2. row \in PaymentRows /\ row # NoPayment /\ episode \in PaymentEpisodes
  BY <1>1 DEF PaymentRows, PaymentEpisodes, NoPayment, PaymentStates
<1>3. payments' = [payments EXCEPT ![o] = row]
  BY <1>1 DEF Save
<1>4. /\ payments' \in [OrderIds -> {NoPayment} \cup PaymentRows]
      /\ payments'[o] = row
      /\ \A p \in OrderIds \ {o} : payments'[p] = payments[p]
  BY <1>2, <1>3 DEF TypeOK
<1>5. PICK path : path = Append(history[o], episode)
  OBVIOUS
<1>6. history[o] \in Seq(PaymentEpisodes)
  BY DEF TypeOK
<1>7. path \in Seq(PaymentEpisodes)
  BY <1>2, <1>5, <1>6
<1>8. history' = [history EXCEPT ![o] = path]
  BY <1>1, <1>5 DEF Save
<1>9. /\ history' \in [OrderIds -> Seq(PaymentEpisodes)]
      /\ history'[o] = path
      /\ \A p \in OrderIds \ {o} : history'[p] = history[p]
  BY <1>7, <1>8 DEF TypeOK
<1> QED
  BY <1>1, <1>2, <1>4, <1>5, <1>9 DEF Save, Current

\* What a save does to the payments.
LEMMA SavedPayment ==
  ASSUME TypeOK, NEW o \in OrderIds, NEW version \in Nat \ {0},
         NEW from \in PaymentStates, NEW to \in PaymentStates, Save(o, version, from, to)
  PROVE  /\ payments'[o] = [state |-> to, version |-> version + 1]
         /\ payments'[o] # NoPayment
         /\ \A p \in OrderIds \ {o} : payments'[p] = payments[p]
<1>1. payments \in [OrderIds -> {NoPayment} \cup PaymentRows]
  BY DEF TypeOK
<1>2. PICK row : row = [state |-> to, version |-> version + 1]
  OBVIOUS
<1>3. row # NoPayment
  BY <1>2 DEF NoPayment, PaymentStates
<1>4. payments' = [payments EXCEPT ![o] = row]
  BY <1>2 DEF Save
<1> QED
  BY <1>1, <1>2, <1>3, <1>4

LEMMA InitTypeOK == Init => TypeOK
<1> SUFFICES ASSUME Init PROVE TypeOK
  OBVIOUS
<1>1. 0 \in 0..MaxTries
  BY AmountAssumption
<1> QED
  BY <1>1 DEF Init, TypeOK, M08!Init, Idle, GatewayStates

\* What the steps of TypeOK have in common.
LEMMA Shapes ==
  ASSUME book' \in [OrderIds -> {M08!NotPlaced} \cup OrderRows],
         payments' \in [OrderIds -> {NoPayment} \cup PaymentRows],
         history' \in [OrderIds -> Seq(PaymentEpisodes)],
         refunds' \in [OrderIds -> SUBSET Refunds],
         gateway' \in [OrderIds -> [opened : 0..MaxTries, status : GatewayStates]],
         sent' \subseteq Events,
         task' \in [Calls -> Tasks]
  PROVE  TypeOK'
  BY DEF TypeOK, Tasks, OrderRows

LEMMA TypeOKParts ==
  ASSUME TypeOK
  PROVE  /\ book \in [OrderIds -> {M08!NotPlaced} \cup OrderRows]
         /\ payments \in [OrderIds -> {NoPayment} \cup PaymentRows]
         /\ history \in [OrderIds -> Seq(PaymentEpisodes)]
         /\ refunds \in [OrderIds -> SUBSET Refunds]
         /\ gateway \in [OrderIds -> [opened : 0..MaxTries, status : GatewayStates]]
         /\ sent \subseteq Events
         /\ task \in [Calls -> Tasks]
  BY DEF TypeOK, Tasks, OrderRows

LEMMA SystemMoveStep ==
  ASSUME TypeOK, NEW o \in OrderIds, NEW to \in OrderStates, SystemMove(o, to)
  PROVE  /\ book' \in [OrderIds -> {M08!NotPlaced} \cup OrderRows]
         /\ book'[o] = book[o] \/ book'[o].state = to
         /\ \A p \in OrderIds \ {o} : book'[p] = book[p]
<1>1. CASE UNCHANGED book
  BY <1>1, TypeOKParts
<1>2. CASE OrderMovePermitted(book[o].state, to, "SYSTEM", TRUE) /\ M08!Move(o, to)
  BY <1>2, OrderMoves, MoveStep
<1> QED
  BY <1>1, <1>2 DEF SystemMove

LEMMA StatusStep ==
  ASSUME TypeOK, NEW o \in OrderIds, NEW status \in GatewayStates,
         gateway' = [gateway EXCEPT ![o].status = status]
  PROVE  /\ gateway' \in [OrderIds -> [opened : 0..MaxTries, status : GatewayStates]]
         /\ gateway'[o].status = status
         /\ gateway'[o].opened = gateway[o].opened
         /\ \A p \in OrderIds \ {o} : gateway'[p] = gateway[p]
<1>1. PICK row : row = [gateway[o] EXCEPT !.status = status]
  OBVIOUS
<1>2. /\ row \in [opened : 0..MaxTries, status : GatewayStates]
      /\ row.status = status
      /\ row.opened = gateway[o].opened
  BY <1>1, TypeOKParts
<1>3. gateway' = [gateway EXCEPT ![o] = row]
  BY <1>1
<1>4. gateway'[o] = row /\ \A p \in OrderIds \ {o} : gateway'[p] = gateway[p]
  BY <1>3, TypeOKParts
<1>5. gateway' \in [OrderIds -> [opened : 0..MaxTries, status : GatewayStates]]
  BY <1>2, <1>3, TypeOKParts
<1> QED
  BY <1>2, <1>4, <1>5

LEMMA OpenStep ==
  ASSUME TypeOK, NEW t \in Calls, OpenProviderOrder(t)
  PROVE  /\ gateway' \in [OrderIds -> [opened : 0..MaxTries, status : GatewayStates]]
         /\ task[t].order \in OrderIds
         /\ gateway'[task[t].order].status = "open"
         /\ gateway'[task[t].order].opened = gateway[task[t].order].opened + 1
         /\ \A p \in OrderIds \ {task[t].order} : gateway'[p] = gateway[p]
<1>1. PICK o : o = task[t].order
  OBVIOUS
<1>2. o \in OrderIds
  BY <1>1, TaskShapes, TypeOKParts DEF OpenProviderOrder, Idle
<1>3. PICK row : row = [opened |-> gateway[o].opened + 1, status |-> "open"]
  OBVIOUS
<1>4. gateway[o].opened \in 0..MaxTries /\ gateway[o].opened < MaxTries
  BY <1>1, <1>2, TypeOKParts DEF OpenProviderOrder
<1>5. /\ row \in [opened : 0..MaxTries, status : GatewayStates]
      /\ row.status = "open"
      /\ row.opened = gateway[o].opened + 1
  BY <1>3, <1>4, AmountAssumption DEF GatewayStates
<1>6. gateway' = [gateway EXCEPT ![o] = row]
  BY <1>1, <1>3 DEF OpenProviderOrder
<1> QED
  BY <1>1, <1>2, <1>5, <1>6, TypeOKParts

LEMMA TypeOfOrders ==
  ASSUME TypeOK, NEW o \in OrderIds,
         \/ \E c \in Customers : PlaceOrder(o, c)
         \/ \E to \in OrderStates, actor \in {"CUSTOMER", "ADMIN"} : MoveOrder(o, to, actor)
         \/ Decline(o) \/ Expire(o) \/ Authorize(o) \/ Capture(o)
         \/ CreateRefund(o) \/ Refund(o)
  PROVE  TypeOK'
<1> USE TypeOKParts
<1>1. ASSUME NEW c \in Customers, PlaceOrder(o, c)
      PROVE  TypeOK'
  <2>1. [customer |-> c, state |-> "PENDING"] \in OrderRows
    BY DEF OrderRows, OrderStates
  <2>2. book' \in [OrderIds -> {M08!NotPlaced} \cup OrderRows]
    BY <1>1, <2>1 DEF PlaceOrder, M08!Place
  <2> QED
    BY <1>1, <2>2, Shapes DEF PlaceOrder
<1>2. ASSUME NEW to \in OrderStates, NEW actor, MoveOrder(o, to, actor)
      PROVE  TypeOK'
  <2>1. book' \in [OrderIds -> {M08!NotPlaced} \cup OrderRows]
    BY <1>2, OrderMoves, MoveStep DEF MoveOrder
  <2> QED
    BY <1>2, <2>1, Shapes DEF MoveOrder
<1>3. ASSUME NEW type \in EventTypes, Announce(o, type)
      PROVE  sent' \subseteq Events
  BY <1>3 DEF Announce, Events
<1>4. CASE Decline(o)
  BY <1>3, <1>4, Shapes DEF Decline, EventTypes
<1>5. ASSUME NEW status \in GatewayStates, NEW type \in EventTypes,
             gateway' = [gateway EXCEPT ![o].status = status], Announce(o, type),
             UNCHANGED <<book, payments, history, refunds, task>>
      PROVE  TypeOK'
  BY <1>3, <1>5, StatusStep, Shapes
<1>6. CASE Expire(o) \/ Authorize(o) \/ Capture(o) \/ CreateRefund(o) \/ Refund(o)
  BY <1>5, <1>6 DEF Expire, Authorize, Capture, CreateRefund, Refund, EventTypes,
     GatewayStates
<1> QED
  BY <1>1, <1>2, <1>4, <1>6

\* What a call that begins holds.
LEMMA BeginStep ==
  ASSUME TypeOK, NEW t \in Calls,
         \/ \E o \in OrderIds : InitiatePayment(t, o)
         \/ \E event \in sent : ReceiveWebhook(t, event)
         \/ \E o \in OrderIds, amount \in 1..Amount : InitiateRefund(t, o, amount)
  PROVE  /\ task[t] = Idle
         /\ task' \in [Calls -> Tasks]
         /\ \A u \in Calls \ {t} : task'[u] = task[u]
         /\ task'[t].pc \in {"insert", "webhook", "refund"}
         /\ task'[t].pc = "webhook" =>
              \E event \in sent :
                /\ task'[t].order = event.order
                /\ task'[t].to = RequestedState[event.type]
                /\ payments[event.order] # NoPayment
                /\ task'[t].seen = payments[event.order].state
                /\ task'[t].version = payments[event.order].version
                /\ PaymentEdge(task'[t].seen, task'[t].to)
         /\ task'[t].pc = "refund" =>
              /\ payments[task'[t].order] # NoPayment
              /\ task'[t].seen = "CAPTURED"
              /\ task'[t].seen = payments[task'[t].order].state
              /\ task'[t].version = payments[task'[t].order].version
         /\ UNCHANGED <<book, payments, history, refunds, gateway, sent>>
<1> USE TypeOKParts
<1>1. ASSUME NEW o \in OrderIds, InitiatePayment(t, o)
      PROVE  /\ task[t] = Idle
             /\ \E x \in Tasks : x.pc = "insert" /\ task' = [task EXCEPT ![t] = x]
             /\ UNCHANGED <<book, payments, history, refunds, gateway, sent>>
  <2>1. [pc |-> "insert", order |-> o] \in Tasks
    BY DEF Tasks, InitiateTasks
  <2> QED
    BY <1>1, <2>1 DEF InitiatePayment
<1>2. ASSUME NEW event \in sent, ReceiveWebhook(t, event)
      PROVE  /\ task[t] = Idle
             /\ \E x \in Tasks :
                  /\ x.pc = "webhook"
                  /\ task' = [task EXCEPT ![t] = x]
                  /\ x.order = event.order
                  /\ x.to = RequestedState[event.type]
                  /\ payments[event.order] # NoPayment
                  /\ x.seen = payments[event.order].state
                  /\ x.version = payments[event.order].version
                  /\ PaymentEdge(x.seen, x.to)
             /\ UNCHANGED <<book, payments, history, refunds, gateway, sent>>
  <2>1. event \in Events
    OBVIOUS
  <2>2. PICK o \in OrderIds, type \in EventTypes : o = event.order /\ type = event.type
    BY <2>1 DEF Events
  <2>3. PICK x : x = [pc |-> "webhook", order |-> o, seen |-> payments[o].state,
                      version |-> payments[o].version, to |-> RequestedState[type]]
    OBVIOUS
  <2>4. payments[o] \in {NoPayment} \cup PaymentRows /\ payments[o].version > 1
    BY <1>2, <2>2 DEF ReceiveWebhook, StoredAtProvider
  <2>5. payments[o] # NoPayment /\ payments[o] \in PaymentRows
    BY <2>4 DEF NoPayment
  <2>6. /\ PaymentEdge(payments[o].state, RequestedState[type])
        /\ payments[o].state \in PaymentStates
    BY <1>2, <2>2, PaymentMoves DEF ReceiveWebhook
  <2>7. x \in SaveTasks
    BY <2>2, <2>3, <2>5, <2>6, Requested DEF SaveTasks, PaymentRows
  <2>8. /\ task[t] = Idle
        /\ task' = [task EXCEPT ![t] = x]
        /\ UNCHANGED <<book, payments, history, refunds, gateway, sent>>
    BY <1>2, <2>2, <2>3 DEF ReceiveWebhook
  <2>9. /\ x.pc = "webhook"
        /\ x.order = o
        /\ x.to = RequestedState[type]
        /\ x.seen = payments[o].state
        /\ x.version = payments[o].version
    BY <2>3
  <2>10. x \in Tasks
    BY <2>7 DEF Tasks
  <2> QED
    BY <2>2, <2>5, <2>6, <2>8, <2>9, <2>10
<1>3. ASSUME NEW o \in OrderIds, NEW amount \in 1..Amount, InitiateRefund(t, o, amount)
      PROVE  /\ task[t] = Idle
             /\ \E x \in Tasks :
                  /\ x.pc = "refund"
                  /\ task' = [task EXCEPT ![t] = x]
                  /\ payments[x.order] # NoPayment
                  /\ x.seen = "CAPTURED"
                  /\ x.seen = payments[x.order].state
                  /\ x.version = payments[x.order].version
             /\ UNCHANGED <<book, payments, history, refunds, gateway, sent>>
  <2>1. PICK x : x = [pc |-> "refund", order |-> o, seen |-> "CAPTURED",
                      version |-> payments[o].version, amount |-> amount]
    OBVIOUS
  <2>2. payments[o].state = "CAPTURED"
    BY <1>3 DEF InitiateRefund
  <2>3. payments[o] # NoPayment /\ payments[o] \in PaymentRows
    BY <2>2 DEF NoPayment
  <2>4. x \in SaveTasks
    BY <2>1, <2>3 DEF SaveTasks, PaymentRows, PaymentStates
  <2>5. /\ task[t] = Idle
        /\ task' = [task EXCEPT ![t] = x]
        /\ UNCHANGED <<book, payments, history, refunds, gateway, sent>>
    BY <1>3, <2>1 DEF InitiateRefund
  <2>6. /\ x.pc = "refund"
        /\ x.order = o
        /\ x.seen = "CAPTURED"
        /\ x.version = payments[o].version
    BY <2>1
  <2>7. x \in Tasks
    BY <2>4 DEF Tasks
  <2> QED
    BY <2>2, <2>3, <2>5, <2>6, <2>7
<1>4. CASE \E o \in OrderIds : InitiatePayment(t, o)
  BY <1>1, <1>4, TaskStep
<1>5. CASE \E event \in sent : ReceiveWebhook(t, event)
  BY <1>2, <1>5, TaskStep
<1>6. CASE \E o \in OrderIds, amount \in 1..Amount : InitiateRefund(t, o, amount)
  BY <1>3, <1>6, TaskStep
<1> QED
  BY <1>4, <1>5, <1>6

\* The insert of a payment that is not there.
LEMMA InsertStep ==
  ASSUME TypeOK, NEW o \in OrderIds,
         payments' = [payments EXCEPT ![o] = [state |-> "PENDING", version |-> 1]]
  PROVE  /\ payments' \in [OrderIds -> {NoPayment} \cup PaymentRows]
         /\ payments'[o] = [state |-> "PENDING", version |-> 1]
         /\ payments'[o] # NoPayment
         /\ \A p \in OrderIds \ {o} : payments'[p] = payments[p]
<1>1. PICK row : row = [state |-> "PENDING", version |-> 1]
  OBVIOUS
<1>2. row \in PaymentRows /\ row # NoPayment
  BY <1>1 DEF PaymentRows, PaymentStates, NoPayment
<1> QED
  BY <1>1, <1>2, TypeOKParts

LEMMA RefundStep ==
  ASSUME TypeOK, NEW o \in OrderIds, NEW r \in Refunds,
         refunds' = [refunds EXCEPT ![o] = @ \cup {r}]
  PROVE  refunds' \in [OrderIds -> SUBSET Refunds]
<1>1. PICK rows : rows = refunds[o] \cup {r}
  OBVIOUS
<1>2. rows \in SUBSET Refunds
  BY <1>1, TypeOKParts
<1>3. refunds' = [refunds EXCEPT ![o] = rows]
  BY <1>1
<1> QED
  BY <1>2, <1>3, TypeOKParts

LEMMA TypeOfInsertPayment ==
  ASSUME TypeOK, NEW t \in Calls, InsertPayment(t)
  PROVE  TypeOK'
<1>1. task[t] # Idle /\ task[t].order \in OrderIds
  BY TaskShapes, TypeOKParts DEF InsertPayment, Idle
<1>2. task' \in [Calls -> Tasks]
  BY <1>1, GotoStep, FinishStep DEF InsertPayment
<1>3. payments' \in [OrderIds -> {NoPayment} \cup PaymentRows]
  BY <1>1, InsertStep, TypeOKParts DEF InsertPayment
<1> QED
  BY <1>2, <1>3, TypeOKParts, Shapes DEF InsertPayment

LEMMA TypeOfOpenProviderOrder ==
  ASSUME TypeOK, NEW t \in Calls, OpenProviderOrder(t)
  PROVE  TypeOK'
<1>1. task[t] # Idle
  BY DEF OpenProviderOrder, Idle
<1>2. task' \in [Calls -> Tasks]
  BY <1>1, GotoStep DEF OpenProviderOrder
<1> QED
  BY <1>2, OpenStep, TypeOKParts, Shapes DEF OpenProviderOrder

LEMMA TypeOfSaveProcessing ==
  ASSUME TypeOK, NEW t \in Calls, SaveProcessing(t)
  PROVE  TypeOK'
<1>1. task[t] # Idle /\ task[t].order \in OrderIds
  BY TaskShapes, TypeOKParts DEF SaveProcessing, Idle
<1>2. task' \in [Calls -> Tasks]
  BY <1>1, GotoStep, FinishStep DEF SaveProcessing
<1>3. 1 \in Nat \ {0} /\ "PENDING" \in PaymentStates /\ "PROCESSING" \in PaymentStates
  BY DEF PaymentStates
<1>4. /\ payments' \in [OrderIds -> {NoPayment} \cup PaymentRows]
      /\ history' \in [OrderIds -> Seq(PaymentEpisodes)]
  BY <1>1, <1>3, SaveStep, TypeOKParts DEF SaveProcessing
<1> QED
  BY <1>2, <1>4, TypeOKParts, Shapes DEF SaveProcessing

LEMMA TypeOfSaveWebhook ==
  ASSUME TypeOK, NEW t \in Calls, SaveWebhook(t)
  PROVE  TypeOK'
<1>1. /\ task[t] # Idle /\ task[t].order \in OrderIds
      /\ task[t].seen \in PaymentStates
      /\ task[t].version \in Nat \ {0}
      /\ task[t].to \in PaymentStates
  BY TaskShapes, TypeOKParts DEF SaveWebhook, Idle, PaymentStates
<1>2. task' \in [Calls -> Tasks]
  BY <1>1, GotoStep, FinishStep DEF SaveWebhook
<1>3. /\ payments' \in [OrderIds -> {NoPayment} \cup PaymentRows]
      /\ history' \in [OrderIds -> Seq(PaymentEpisodes)]
  BY <1>1, SaveStep, TypeOKParts DEF SaveWebhook
<1>4. [amount |-> Amount, state |-> "REFUNDED", version |-> task[t].version + 1] \in Refunds
  BY <1>1, AmountAssumption DEF Refunds
<1>5. refunds' \in [OrderIds -> SUBSET Refunds]
  BY <1>1, <1>4, RefundStep, TypeOKParts DEF SaveWebhook
<1> QED
  BY <1>2, <1>3, <1>5, TypeOKParts, Shapes DEF SaveWebhook

LEMMA TypeOfSaveRefund ==
  ASSUME TypeOK, NEW t \in Calls, SaveRefund(t)
  PROVE  TypeOK'
<1>1. /\ task[t] # Idle /\ task[t].order \in OrderIds
      /\ task[t].seen \in PaymentStates
      /\ task[t].version \in Nat \ {0}
      /\ task[t].amount \in 1..Amount
  BY TaskShapes, TypeOKParts DEF SaveRefund, Idle
<1>2. task' \in [Calls -> Tasks]
  BY FinishStep DEF SaveRefund
<1>3. "REFUND_PENDING" \in PaymentStates
  BY DEF PaymentStates
<1>4. /\ payments' \in [OrderIds -> {NoPayment} \cup PaymentRows]
      /\ history' \in [OrderIds -> Seq(PaymentEpisodes)]
  BY <1>1, <1>3, SaveStep, TypeOKParts DEF SaveRefund
<1>5. [amount |-> task[t].amount, state |-> "PENDING",
       version |-> task[t].version + 1] \in Refunds
  BY <1>1 DEF Refunds
<1>6. refunds' \in [OrderIds -> SUBSET Refunds]
  BY <1>1, <1>5, RefundStep, TypeOKParts DEF SaveRefund
<1> QED
  BY <1>2, <1>4, <1>6, TypeOKParts, Shapes DEF SaveRefund

LEMMA TypeOfTelling ==
  ASSUME TypeOK, NEW t \in Calls, ConfirmOrder(t) \/ MarkOrderPaid(t)
  PROVE  TypeOK'
<1>1. task[t].order \in OrderIds
  BY TaskShapes, TypeOKParts DEF ConfirmOrder, MarkOrderPaid, Idle
<1>2. "CONFIRMED" \in OrderStates /\ "PAID" \in OrderStates
  BY DEF OrderStates
<1>3. book' \in [OrderIds -> {M08!NotPlaced} \cup OrderRows]
  BY <1>1, <1>2, SystemMoveStep DEF ConfirmOrder, MarkOrderPaid
<1>4. task' \in [Calls -> Tasks]
  BY FinishStep DEF ConfirmOrder, MarkOrderPaid
<1> QED
  BY <1>3, <1>4, TypeOKParts, Shapes DEF ConfirmOrder, MarkOrderPaid

LEMMA NextTypeOK ==
  ASSUME TypeOK, [Next]_vars
  PROVE  TypeOK'
<1>1. CASE UNCHANGED vars
  BY <1>1, TypeOKParts, Shapes DEF vars
<1>2. ASSUME NEW t \in Calls, ProviderRejects(t) \/ Drop(t)
      PROVE  TypeOK'
  BY <1>2, FinishStep, TypeOKParts, Shapes DEF ProviderRejects, Drop
<1>3. ASSUME NEW t \in Calls,
             \/ \E o \in OrderIds : InitiatePayment(t, o)
             \/ \E event \in sent : ReceiveWebhook(t, event)
             \/ \E o \in OrderIds, amount \in 1..Amount : InitiateRefund(t, o, amount)
      PROVE  TypeOK'
  BY <1>3, BeginStep, TypeOKParts, Shapes
<1>4. ASSUME NEW t \in Calls, Work(t)
      PROVE  TypeOK'
  BY <1>2, <1>4, TypeOfInsertPayment, TypeOfOpenProviderOrder, TypeOfSaveProcessing,
     TypeOfSaveWebhook, TypeOfSaveRefund, TypeOfTelling DEF Work
<1> QED
  BY <1>1, <1>2, <1>3, <1>4, TypeOfOrders DEF Next

-------------------------------------------------------------------------------
(* The payments and what calls know of them.                                  *)

\* A call that read a payment knows its state while the payment has the version
\* it read, and asks for a move that the lifecycle has.
Known(x) ==
  /\ x.pc \notin {"idle", "insert"} => payments[x.order] # NoPayment
  /\ x.pc \in {"webhook", "refund"} =>
       /\ x.version <= payments[x.order].version
       /\ x.version = payments[x.order].version => x.seen = payments[x.order].state
  /\ x.pc = "webhook" => PaymentEdge(x.seen, x.to)
  /\ x.pc = "refund" => x.seen = "CAPTURED"

KnownInv == \A t \in Calls : Known(task[t])

\* The path leads from PENDING to the row's state, one edge after the other, and
\* the row's version counts its steps.
Tells(path, row) ==
  /\ row.version = Len(path) + 1
  /\ row.state = IF Len(path) = 0 THEN "PENDING" ELSE path[Len(path)].to
  /\ \A i \in 1..Len(path) :
       /\ PaymentEdge(path[i].from, path[i].to)
       /\ path[i].from = IF i = 1 THEN "PENDING" ELSE path[i-1].to

Told ==
  \A o \in OrderIds :
    IF payments[o] = NoPayment THEN history[o] = <<>> ELSE Tells(history[o], payments[o])

Inserted(o) ==
  /\ payments[o] = NoPayment
  /\ payments' = [payments EXCEPT ![o] = [state |-> "PENDING", version |-> 1]]
  /\ UNCHANGED history

\* The save of a call that knew the payment's state.
Saved(o, from, to) ==
  /\ payments[o] # NoPayment
  /\ payments[o].state = from
  /\ PaymentEdge(from, to)
  /\ Save(o, payments[o].version, from, to)

LEMMA Edges ==
  /\ PaymentEdge("PENDING", "PROCESSING")
  /\ PaymentEdge("CAPTURED", "REFUND_PENDING")
  BY DEF PaymentEdge, PaymentTransitions, PaymentRule

LEMMA KnownSave ==
  ASSUME TypeOK, NEW o \in OrderIds, NEW v \in Nat \ {0}, NEW from \in PaymentStates,
         NEW to \in PaymentStates, PaymentEdge(from, to),
         payments[o] # NoPayment, v = payments[o].version => from = payments[o].state,
         Save(o, v, from, to)
  PROVE  Saved(o, from, to)
<1>1. v = payments[o].version
  BY DEF Save, Current
<1>2. Save(o, payments[o].version, from, to)
  BY <1>1 DEF Save, Current
<1> QED
  BY <1>1, <1>2 DEF Saved

LEMMA ProcessingIsSaved ==
  ASSUME TypeOK, KnownInv, Told, NEW t \in Calls, SaveProcessing(t),
         ~UNCHANGED <<payments, history>>
  PROVE  \E o \in OrderIds, from \in PaymentStates, to \in PaymentStates : Saved(o, from,
  to)
<1>1. PICK o \in OrderIds : o = task[t].order
  BY TaskShapes, TypeOKParts DEF SaveProcessing, Idle
<1>2. Save(o, 1, "PENDING", "PROCESSING") /\ payments[o] # NoPayment
  BY <1>1 DEF SaveProcessing, KnownInv, Known
<1>3. payments[o].version = 1
  BY <1>2 DEF Save, Current
<1>4. Tells(history[o], payments[o])
  BY <1>2 DEF Told
<1>5. Len(history[o]) \in Nat
  BY TypeOKParts
<1>6. payments[o].state = "PENDING"
  BY <1>3, <1>4, <1>5 DEF Tells
<1>7. "PENDING" \in PaymentStates /\ "PROCESSING" \in PaymentStates
  BY DEF PaymentStates
<1> QED
  BY <1>2, <1>6, <1>7, Edges, KnownSave

LEMMA WebhookIsSaved ==
  ASSUME TypeOK, KnownInv, NEW t \in Calls, SaveWebhook(t), ~UNCHANGED <<payments, history>>
  PROVE  \E o \in OrderIds, from \in PaymentStates, to \in PaymentStates : Saved(o, from,
  to)
<1>1. task[t] # Idle /\ task[t].pc = "webhook"
  BY DEF SaveWebhook, Idle
<1>2. PICK o \in OrderIds, v \in Nat \ {0}, from \in PaymentStates, to \in PaymentStates :
        o = task[t].order /\ v = task[t].version /\ from = task[t].seen /\ to = task[t].to
  BY <1>1, TaskShapes, TypeOKParts DEF PaymentStates
<1>3. Save(o, v, from, to)
  BY <1>2 DEF SaveWebhook
<1>4. /\ payments[o] # NoPayment
      /\ v = payments[o].version => from = payments[o].state
      /\ PaymentEdge(from, to)
  BY <1>1, <1>2 DEF KnownInv, Known
<1> QED
  BY <1>3, <1>4, KnownSave

LEMMA RefundIsSaved ==
  ASSUME TypeOK, KnownInv, NEW t \in Calls, SaveRefund(t), ~UNCHANGED <<payments, history>>
  PROVE  \E o \in OrderIds, from \in PaymentStates, to \in PaymentStates : Saved(o, from,
  to)
<1>1. task[t] # Idle /\ task[t].pc = "refund"
  BY DEF SaveRefund, Idle
<1>2. PICK o \in OrderIds, v \in Nat \ {0}, from \in PaymentStates :
        o = task[t].order /\ v = task[t].version /\ from = task[t].seen
  BY <1>1, TaskShapes, TypeOKParts
<1>3. Save(o, v, from, "REFUND_PENDING")
  BY <1>2 DEF SaveRefund
<1>4. /\ payments[o] # NoPayment
      /\ v = payments[o].version => from = payments[o].state
      /\ from = "CAPTURED"
  BY <1>1, <1>2 DEF KnownInv, Known
<1>5. "REFUND_PENDING" \in PaymentStates
  BY DEF PaymentStates
<1> QED
  BY <1>3, <1>4, <1>5, Edges, KnownSave

\* Every step leaves the payments alone, inserts one, or saves one as it was
\* read, along an edge of the lifecycle.
LEMMA PaymentSteps ==
  ASSUME TypeOK, KnownInv, Told, [Next]_vars
  PROVE  \/ UNCHANGED <<payments, history>>
         \/ \E o \in OrderIds : Inserted(o)
         \/ \E o \in OrderIds, from \in PaymentStates, to \in PaymentStates :
              Saved(o, from, to)
<1>1. ASSUME NEW t \in Calls, InsertPayment(t), ~UNCHANGED <<payments, history>>
      PROVE  \E o \in OrderIds : Inserted(o)
  <2>1. task[t].order \in OrderIds
    BY <1>1, TaskShapes, TypeOKParts DEF InsertPayment, Idle
  <2> QED
    BY <1>1, <2>1 DEF InsertPayment, Inserted
<1>2. \/ UNCHANGED <<payments, history>>
      \/ \E t \in Calls : InsertPayment(t) \/ SaveProcessing(t) \/ SaveWebhook(t) \/ SaveRefund(t)
  BY BeginStep DEF Next, vars, PlaceOrder, MoveOrder, Decline, Expire, Authorize,
     Capture, CreateRefund, Refund,
     Work, OpenProviderOrder, ProviderRejects, ConfirmOrder, MarkOrderPaid, Drop
<1> QED
  BY <1>1, <1>2, ProcessingIsSaved, WebhookIsSaved, RefundIsSaved

\* A payment never disappears, and changes only with its version.
Grows ==
  \A o \in OrderIds : payments[o] # NoPayment =>
    /\ payments'[o] # NoPayment
    /\ payments[o].version \in Nat
    /\ payments'[o].version \in Nat
    /\ payments[o].version <= payments'[o].version
    /\ payments[o].version = payments'[o].version => payments'[o] = payments[o]

LEMMA PaymentsGrow ==
  ASSUME TypeOK, KnownInv, Told, [Next]_vars
  PROVE  Grows
<1>1. \A o \in OrderIds : payments[o] # NoPayment => payments[o] \in PaymentRows
  BY TypeOKParts
<1>2. \A o \in OrderIds : payments[o] # NoPayment => payments[o].version \in Nat \ {0}
  BY <1>1 DEF PaymentRows
<1>3. CASE UNCHANGED <<payments, history>>
  BY <1>2, <1>3 DEF Grows
<1>4. ASSUME NEW o \in OrderIds, Inserted(o)
      PROVE  Grows
  BY <1>2, <1>4, InsertStep DEF Grows, Inserted
<1>5. ASSUME NEW o \in OrderIds, NEW from \in PaymentStates, NEW to \in PaymentStates,
             Saved(o, from, to)
      PROVE  Grows
  <2>1. PICK v \in Nat \ {0} : v = payments[o].version
    BY <1>2, <1>5 DEF Saved
  <2>2. Save(o, v, from, to)
    BY <1>5, <2>1 DEF Saved
  <2>3. /\ payments'[o] = [state |-> to, version |-> v + 1]
        /\ payments'[o] # NoPayment
        /\ \A p \in OrderIds \ {o} : payments'[p] = payments[p]
    BY <2>2, SavedPayment
  <2>4. payments'[o].version = v + 1
    BY <2>3
  <2> QED
    BY <1>2, <2>1, <2>3, <2>4 DEF Grows
<1> QED
  BY <1>3, <1>4, <1>5, PaymentSteps

LEMMA TellsOn ==
  ASSUME NEW path \in Seq(PaymentEpisodes), NEW row, NEW next, Tells(path, row),
         NEW to, PaymentEdge(row.state, to),
         next.state = to, next.version = row.version + 1
  PROVE  Tells(Append(path, [from |-> row.state, to |-> to]), next)
<1>1. PICK episode : episode = [from |-> row.state, to |-> to]
  OBVIOUS
<1>2. PICK n \in Nat : n = Len(path)
  OBVIOUS
<1>3. PICK longer : longer = Append(path, episode)
  OBVIOUS
<1>4. /\ Len(longer) = n + 1
      /\ longer[n + 1] = episode
      /\ \A i \in 1..n : longer[i] = path[i]
  BY <1>2, <1>3
<1>5. /\ row.version = n + 1
      /\ row.state = IF n = 0 THEN "PENDING" ELSE path[n].to
      /\ \A i \in 1..n :
           /\ PaymentEdge(path[i].from, path[i].to)
           /\ path[i].from = IF i = 1 THEN "PENDING" ELSE path[i-1].to
  BY <1>2 DEF Tells
<1>6. episode.from = row.state /\ episode.to = to
  BY <1>1
<1>7. ASSUME NEW i \in 1..(n + 1)
      PROVE  /\ PaymentEdge(longer[i].from, longer[i].to)
             /\ longer[i].from = IF i = 1 THEN "PENDING" ELSE longer[i-1].to
  <2>1. CASE i = n + 1
    <3>1. row.state = IF i = 1 THEN "PENDING" ELSE longer[i-1].to
      BY <1>4, <1>5, <2>1
    <3> QED
      BY <1>4, <1>6, <2>1, <3>1
  <2>2. CASE i # n + 1
    <3>1. i \in 1..n /\ longer[i] = path[i] /\ (i # 1 => longer[i-1] = path[i-1])
      BY <1>4, <2>2
    <3> QED
      BY <1>5, <3>1
  <2> QED
    BY <2>1, <2>2
<1>8. Len(longer) # 0 /\ next.version = Len(longer) + 1 /\ next.state = longer[Len(longer)].to
  BY <1>4, <1>5, <1>6
<1>9. Tells(longer, next)
  BY <1>4, <1>7, <1>8 DEF Tells
<1> QED
  BY <1>1, <1>3, <1>9

LEMMA ToldNext ==
  ASSUME TypeOK, KnownInv, Told, [Next]_vars
  PROVE  Told'
<1>1. CASE UNCHANGED <<payments, history>>
  BY <1>1 DEF Told
<1>2. ASSUME NEW o \in OrderIds, Inserted(o)
      PROVE  Told'
  <2>1. PICK row : row = [state |-> "PENDING", version |-> 1]
    OBVIOUS
  <2>2. row.version = 1 /\ row.state = "PENDING"
    BY <2>1
  <2>3. Tells(<<>>, row)
    BY <2>2 DEF Tells
  <2>4. /\ payments'[o] = row /\ payments'[o] # NoPayment
        /\ \A p \in OrderIds \ {o} : payments'[p] = payments[p]
    BY <1>2, <2>1, InsertStep DEF Inserted
  <2>5. history' = history /\ history[o] = <<>>
    BY <1>2 DEF Inserted, Told
  <2> QED
    BY <2>3, <2>4, <2>5 DEF Told
<1>3. ASSUME NEW o \in OrderIds, NEW from \in PaymentStates, NEW to \in PaymentStates,
             Saved(o, from, to)
      PROVE  Told'
  <2>1. PICK row, path : row = payments[o] /\ path = history[o]
    OBVIOUS
  <2>2. row \in PaymentRows /\ path \in Seq(PaymentEpisodes) /\ Tells(path, row)
    BY <1>3, <2>1, TypeOKParts DEF Saved, Told
  <2>3. row.version \in Nat \ {0} /\ row.state = from /\ PaymentEdge(row.state, to)
    BY <1>3, <2>1, <2>2 DEF Saved, PaymentRows
  <2>4. Save(o, row.version, from, to)
    BY <1>3, <2>1 DEF Saved
  <2>5. PICK next, longer : /\ next = [state |-> to, version |-> row.version + 1]
                            /\ longer = Append(path, [from |-> row.state, to |-> to])
    OBVIOUS
  <2>6. next.state = to /\ next.version = row.version + 1
    BY <2>5
  <2>7. Tells(longer, next)
    BY <2>2, <2>3, <2>5, <2>6, TellsOn
  <2>8. /\ payments'[o] = next /\ payments'[o] # NoPayment /\ history'[o] = longer
        /\ \A p \in OrderIds \ {o} : payments'[p] = payments[p] /\ history'[p] = history[p]
    BY <2>1, <2>3, <2>4, <2>5, SaveStep
  <2> QED
    BY <2>7, <2>8 DEF Told
<1> QED
  BY <1>1, <1>2, <1>3, PaymentSteps

\* What a call does next.
LEMMA CallSteps ==
  ASSUME TypeOK, NEW t \in Calls, Work(t) \/ Drop(t)
  PROVE  /\ task[t] # Idle
         /\ task[t].order \in OrderIds
         /\ task' \in [Calls -> Tasks]
         /\ \A u \in Calls \ {t} : task'[u] = task[u]
         /\ \/ task'[t] = Idle
            \/ /\ task'[t].order = task[t].order
               /\ \/ /\ task'[t].pc = "provider"
                     /\ Inserted(task[t].order)
                     /\ UNCHANGED <<gateway, sent>>
                  \/ task'[t].pc = "processing" /\ OpenProviderOrder(t)
                  \/ /\ task'[t].pc = "confirm" /\ task[t].pc = "processing"
                     /\ UNCHANGED gateway
                  \/ /\ task'[t].pc = "paid"
                     /\ task[t].pc = "webhook"
                     /\ task[t].to = "CAPTURED"
                     /\ Save(task[t].order, task[t].version, task[t].seen, "CAPTURED")
                     /\ UNCHANGED gateway
<1>1. task[t] # Idle
  BY DEF Work, InsertPayment, OpenProviderOrder, ProviderRejects, SaveProcessing,
     ConfirmOrder, SaveWebhook, MarkOrderPaid, SaveRefund, Drop, Idle
<1>2. task[t].order \in OrderIds
  BY <1>1, TaskShapes, TypeOKParts
<1>3. CASE Finish(t)
  BY <1>1, <1>2, <1>3, FinishStep
<1>4. CASE ~Finish(t)
  <2>1. \/ /\ Goto(t, "provider")
           /\ Inserted(task[t].order)
           /\ UNCHANGED <<gateway, sent>>
        \/ Goto(t, "processing") /\ OpenProviderOrder(t)
        \/ Goto(t, "confirm") /\ task[t].pc = "processing" /\ UNCHANGED gateway
        \/ /\ Goto(t, "paid")
           /\ task[t].pc = "webhook"
           /\ task[t].to = "CAPTURED"
           /\ Save(task[t].order, task[t].version, task[t].seen, "CAPTURED")
           /\ UNCHANGED gateway
    BY <1>4 DEF Work, InsertPayment, OpenProviderOrder, ProviderRejects, SaveProcessing,
       ConfirmOrder, SaveWebhook, MarkOrderPaid, SaveRefund, Drop, Inserted
  <2> QED
    BY <1>1, <1>2, <2>1, GotoStep
<1> QED
  BY <1>3, <1>4

LEMMA StillKnown ==
  ASSUME TypeOK, Grows, NEW x \in Tasks, Known(x)
  PROVE  Known(x)'
<1>1. CASE x.pc \in {"idle", "insert"}
  BY <1>1 DEF Known
<1>2. CASE x.pc \notin {"idle", "insert"}
  <2>1. x # Idle
    BY <1>2 DEF Idle
  <2>2. PICK o \in OrderIds : o = x.order
    BY <2>1, TaskShapes
  <2>3. payments[o] # NoPayment
    BY <1>2, <2>2 DEF Known
  <2>4. /\ payments'[o] # NoPayment
        /\ payments[o].version \in Nat
        /\ payments'[o].version \in Nat
        /\ payments[o].version <= payments'[o].version
        /\ payments[o].version = payments'[o].version => payments'[o] = payments[o]
    BY <2>3 DEF Grows
  <2>5. ASSUME x.pc \in {"webhook", "refund"}
        PROVE  /\ x.version <= payments'[o].version
               /\ x.version = payments'[o].version => x.seen = payments'[o].state
    <3>1. x.version \in Nat
      BY <2>5, TaskShapes
    <3>2. /\ x.version <= payments[o].version
          /\ x.version = payments[o].version => x.seen = payments[o].state
      BY <2>2, <2>5 DEF Known
    <3> QED
      BY <2>4, <3>1, <3>2
  <2> QED
    BY <2>2, <2>4, <2>5 DEF Known
<1> QED
  BY <1>1, <1>2

LEMMA KnownNext ==
  ASSUME TypeOK, KnownInv, Told, [Next]_vars
  PROVE  KnownInv'
<1>1. Grows
  BY PaymentsGrow
<1>2. ASSUME NEW u \in Calls, task'[u] = task[u]
      PROVE  Known(task[u])'
  <2>1. PICK x \in Tasks : x = task[u]
    BY TypeOKParts
  <2>2. Known(x)
    BY <2>1 DEF KnownInv
  <2>3. Known(x)'
    BY <1>1, <2>2, StillKnown
  <2> QED
    BY <1>2, <2>1, <2>3 DEF Known
<1>3. ASSUME NEW t \in Calls, task'[t] = Idle
      PROVE  Known(task[t])'
  BY <1>3 DEF Known, Idle
<1>4. ASSUME NEW t \in Calls,
             \/ \E o \in OrderIds : InitiatePayment(t, o)
             \/ \E event \in sent : ReceiveWebhook(t, event)
             \/ \E o \in OrderIds, amount \in 1..Amount : InitiateRefund(t, o, amount)
      PROVE  KnownInv'
  <2>1. PICK x \in Tasks : x = task'[t]
    BY <1>4, BeginStep
  <2>2. payments' = payments /\ x.pc \in {"insert", "webhook", "refund"}
    BY <1>4, <2>1, BeginStep
  <2>3. x.pc \in {"webhook", "refund"} =>
          /\ payments[x.order] # NoPayment
          /\ x.seen = payments[x.order].state
          /\ x.version = payments[x.order].version
          /\ x.version \in Nat
    BY <1>4, <2>1, BeginStep, TaskShapes
  <2>4. /\ x.pc = "webhook" => PaymentEdge(x.seen, x.to)
        /\ x.pc = "refund" => x.seen = "CAPTURED"
    BY <1>4, <2>1, BeginStep
  <2>5. Known(x)'
    BY <2>2, <2>3, <2>4 DEF Known
  <2>6. Known(task[t])'
    BY <2>1, <2>5 DEF Known
  <2> QED
    BY <1>2, <1>4, <2>6, BeginStep DEF KnownInv
<1>5. ASSUME NEW t \in Calls, Work(t) \/ Drop(t)
      PROVE  KnownInv'
  <2>1. CASE task'[t] = Idle
    BY <1>2, <1>3, <1>5, <2>1, CallSteps DEF KnownInv
  <2>2. CASE task'[t] # Idle
    <3>1. /\ task'[t].pc \in {"provider", "processing", "confirm", "paid"}
          /\ task'[t].order = task[t].order
      BY <1>5, <2>2, CallSteps
    <3>2. Inserted(task[t].order) \/ task[t].pc \in {"provider", "processing", "webhook"}
      BY <1>5, <2>2, CallSteps DEF OpenProviderOrder
    <3>3. payments'[task[t].order] # NoPayment
      <4>1. task[t].order \in OrderIds
        BY <1>5, CallSteps
      <4>2. CASE Inserted(task[t].order)
        BY <4>1, <4>2, InsertStep DEF Inserted
      <4>3. CASE task[t].pc \in {"provider", "processing", "webhook"}
        BY <1>1, <4>1, <4>3 DEF KnownInv, Known, Grows
      <4> QED
        BY <3>2, <4>2, <4>3
    <3>4. Known(task[t])'
      BY <3>1, <3>3 DEF Known
    <3> QED
      BY <1>2, <1>5, <3>4, CallSteps DEF KnownInv
  <2> QED
    BY <2>1, <2>2
<1>6. CASE UNCHANGED task
  BY <1>2, <1>6 DEF KnownInv
<1> QED
  BY <1>4, <1>5, <1>6
     DEF Next, vars, PlaceOrder, MoveOrder, Decline, Expire, Authorize, Capture,
        CreateRefund, Refund

-------------------------------------------------------------------------------
(* The provider's orders.                                                     *)

PaidStatus == {"authorized", "captured", "refunding", "refunded"}

\* A payment opens one order at the provider: before that there is none, and only
\* the call that inserted the payment may open it.
Opened ==
  /\ \A o \in OrderIds : payments[o] = NoPayment => gateway[o].opened = 0
  /\ \A o \in OrderIds :
       gateway[o].opened <= 1 /\ (gateway[o].opened = 0 => gateway[o].status = "none")
  /\ \A t \in Calls : task[t].pc = "provider" => gateway[task[t].order].opened = 0
  /\ \A t, u \in Calls :
       (/\ task[t].pc = "provider"
        /\ task[u].pc = "provider"
        /\ task[t].order = task[u].order) => t = u

\* The customer or the provider moves the status of an open order; what was paid
\* stays paid.
StatusMoved(o) ==
  /\ gateway[o].status # "none"
  /\ \E status \in PaidStatus \cup {"expired"} :
       /\ gateway[o].status \in PaidStatus => status \in PaidStatus
       /\ gateway' = [gateway EXCEPT ![o].status = status]
  /\ UNCHANGED <<payments, task>>

LEMMA GatewaySteps ==
  ASSUME TypeOK, [Next]_vars
  PROVE  \/ UNCHANGED gateway
         \/ \E t \in Calls : OpenProviderOrder(t)
         \/ \E o \in OrderIds : StatusMoved(o)
<1>1. ASSUME NEW o \in OrderIds,
             Expire(o) \/ Authorize(o) \/ Capture(o) \/ CreateRefund(o) \/ Refund(o)
      PROVE  StatusMoved(o)
  BY <1>1 DEF Expire, Authorize, Capture, CreateRefund, Refund, Payable, StatusMoved,
     PaidStatus
<1>2. \/ UNCHANGED gateway
      \/ \E t \in Calls : OpenProviderOrder(t)
      \/ \E o \in OrderIds :
           Expire(o) \/ Authorize(o) \/ Capture(o) \/ CreateRefund(o) \/ Refund(o)
  BY BeginStep DEF Next, vars, PlaceOrder, MoveOrder, Decline, Work, InsertPayment,
     ProviderRejects, SaveProcessing, ConfirmOrder, SaveWebhook, MarkOrderPaid, SaveRefund,
     Drop
<1> QED
  BY <1>1, <1>2

\* The call that talks to the provider did so before, or inserted the payment.
LEMMA ProviderCalls ==
  ASSUME TypeOK, [Next]_vars, NEW u \in Calls, task'[u].pc = "provider"
  PROVE  \/ task'[u] = task[u]
         \/ /\ task'[u].order \in OrderIds
            /\ Inserted(task'[u].order)
            /\ UNCHANGED gateway
            /\ \A w \in Calls \ {u} : task'[w] = task[w]
<1>1. CASE UNCHANGED task
  BY <1>1
<1>2. ASSUME NEW t \in Calls, Work(t) \/ Drop(t)
      PROVE  \/ task'[u] = task[u]
             \/ /\ task'[u].order \in OrderIds
                /\ Inserted(task'[u].order)
                /\ UNCHANGED gateway
                /\ \A w \in Calls \ {u} : task'[w] = task[w]
  <2>1. CASE u # t
    BY <1>2, <2>1, CallSteps
  <2>2. CASE u = t
    <3>1. task'[t] # Idle
      BY <2>2 DEF Idle
    <3> QED
      BY <1>2, <2>2, <3>1, CallSteps
  <2> QED
    BY <2>1, <2>2
<1>3. ASSUME NEW t \in Calls,
             \/ \E o \in OrderIds : InitiatePayment(t, o)
             \/ \E event \in sent : ReceiveWebhook(t, event)
             \/ \E o \in OrderIds, amount \in 1..Amount : InitiateRefund(t, o, amount)
      PROVE  task'[u] = task[u]
  BY <1>3, BeginStep
<1> QED
  BY <1>1, <1>2, <1>3
     DEF Next, vars, PlaceOrder, MoveOrder, Decline, Expire, Authorize, Capture,
        CreateRefund, Refund

LEMMA OpenedByOpening ==
  ASSUME TypeOK, KnownInv, Opened, NEW t \in Calls, OpenProviderOrder(t)
  PROVE  Opened'
<1>1. PICK o \in OrderIds : o = task[t].order
  BY OpenStep
<1>2. /\ task[t].pc = "provider" /\ task[t] # Idle
      /\ payments' = payments
      /\ Goto(t, "processing")
  BY DEF OpenProviderOrder, Idle
<1>3. gateway[o].opened = 0 /\ payments[o] # NoPayment
  BY <1>1, <1>2 DEF Opened, KnownInv, Known
<1>4. /\ gateway'[o].opened = 1
      /\ \A p \in OrderIds \ {o} : gateway'[p] = gateway[p]
  BY <1>1, <1>3, OpenStep
<1>5. task'[t].pc = "processing" /\ \A u \in Calls \ {t} : task'[u] = task[u]
  BY <1>2, GotoStep
<1>6. ASSUME NEW u \in Calls, task'[u].pc = "provider"
      PROVE  u # t /\ task'[u] = task[u] /\ task[u].order \in OrderIds \ {o}
  <2>1. u # t /\ task'[u] = task[u] /\ task[u].pc = "provider" /\ task[u] # Idle
    BY <1>5, <1>6 DEF Idle
  <2>2. task[u].order # o
    BY <1>1, <1>2, <2>1 DEF Opened
  <2> QED
    BY <2>1, <2>2, TaskShapes, TypeOKParts
<1>7. \A p \in OrderIds : payments'[p] = NoPayment => gateway'[p].opened = 0
  BY <1>2, <1>3, <1>4 DEF Opened
<1>8. \A p \in OrderIds :
        gateway'[p].opened <= 1 /\ (gateway'[p].opened = 0 => gateway'[p].status = "none")
  BY <1>4 DEF Opened
<1>9. \A u \in Calls : task'[u].pc = "provider" => gateway'[task'[u].order].opened = 0
  BY <1>4, <1>6 DEF Opened
<1>10. \A u, w \in Calls :
         (/\ task'[u].pc = "provider"
          /\ task'[w].pc = "provider"
          /\ task'[u].order = task'[w].order) => u = w
  BY <1>6 DEF Opened
<1> QED
  BY <1>7, <1>8, <1>9, <1>10 DEF Opened

LEMMA OpenedByStatus ==
  ASSUME TypeOK, Opened, NEW o \in OrderIds, StatusMoved(o)
  PROVE  Opened'
<1>1. /\ gateway'[o].opened = gateway[o].opened
      /\ \A p \in OrderIds \ {o} : gateway'[p] = gateway[p]
  BY StatusStep DEF StatusMoved, PaidStatus
<1>2. gateway[o].opened # 0
  BY DEF Opened, StatusMoved
<1>3. payments' = payments /\ task' = task
  BY DEF StatusMoved
<1>4. ASSUME NEW u \in Calls, task[u].pc = "provider"
      PROVE  task[u].order \in OrderIds
  BY <1>4, TaskShapes, TypeOKParts DEF Idle
<1> QED
  BY <1>1, <1>2, <1>3, <1>4 DEF Opened

LEMMA OpenedNext ==
  ASSUME TypeOK, KnownInv, Told, Opened, [Next]_vars
  PROVE  Opened'
<1>1. CASE UNCHANGED gateway
  <2>1. \A o \in OrderIds : payments'[o] = NoPayment => gateway'[o].opened = 0
    BY <1>1, PaymentsGrow DEF Opened, Grows
  <2>2. ASSUME NEW u \in Calls, task'[u].pc = "provider"
        PROVE  gateway'[task'[u].order].opened = 0
    BY <1>1, <2>2, ProviderCalls DEF Opened, Inserted
  <2>3. ASSUME NEW u \in Calls, NEW w \in Calls, u # w,
               task'[u].pc = "provider", task'[w].pc = "provider",
               task'[u].order = task'[w].order, task'[w] = task[w]
        PROVE  FALSE
    <3>1. payments[task'[u].order] # NoPayment
      BY <2>3 DEF KnownInv, Known
    <3>2. task'[u] = task[u]
      BY <2>3, <3>1, ProviderCalls DEF Inserted
    <3> QED
      BY <2>3, <3>2 DEF Opened
  <2>4. ASSUME NEW u \in Calls, NEW w \in Calls,
               task'[u].pc = "provider", task'[w].pc = "provider",
               task'[u].order = task'[w].order
        PROVE  u = w
    <3>1. u = w \/ task'[u] = task[u] \/ task'[w] = task[w]
      BY <2>4, ProviderCalls
    <3> QED
      BY <2>3, <2>4, <3>1
  <2> QED
    BY <1>1, <2>1, <2>2, <2>4 DEF Opened
<1> QED
  BY <1>1, GatewaySteps, OpenedByOpening, OpenedByStatus

-------------------------------------------------------------------------------
(* From the capture at the provider to the paid order.                        *)

PaidStates == {"PAID", "SHIPPED", "DELIVERED", "CLOSED"}

CaptureEvents == {"payment.authorized", "payment.captured"}

Authorized(o) == gateway[o].status \in PaidStatus

\* A webhook that asks for a capture, the call that brings it, and the call that
\* tells module 08 each follow from what the customer did at the provider.
Backed ==
  /\ \A event \in sent : event.type \in CaptureEvents => Authorized(event.order)
  /\ \A t \in Calls :
       task[t].pc = "webhook" /\ task[t].to = "CAPTURED" => Authorized(task[t].order)
  /\ \A t \in Calls :
       task[t].pc = "paid" => Authorized(task[t].order) /\ Reached(task[t].order, "CAPTURED")
  /\ \A o \in OrderIds :
       book[o].state \in PaidStates => Authorized(o) /\ Reached(o, "CAPTURED")

LEMMA StatusKept ==
  ASSUME TypeOK, Opened, [Next]_vars, NEW o \in OrderIds, Authorized(o)
  PROVE  Authorized(o)'
<1>1. CASE UNCHANGED gateway
  BY <1>1 DEF Authorized
<1>2. ASSUME NEW t \in Calls, OpenProviderOrder(t)
      PROVE  Authorized(o)'
  <2>1. task[t].pc = "provider"
    BY <1>2 DEF OpenProviderOrder
  <2>2. gateway[task[t].order].status = "none" /\ task[t].order \in OrderIds
    BY <1>2, <2>1, OpenStep DEF Opened
  <2>3. task[t].order # o
    BY <2>2 DEF Authorized, PaidStatus
  <2> QED
    BY <1>2, <2>3, OpenStep DEF Authorized
<1>3. ASSUME NEW p \in OrderIds, StatusMoved(p)
      PROVE  Authorized(o)'
  <2>1. PICK status \in PaidStatus \cup {"expired"} :
          /\ gateway[p].status \in PaidStatus => status \in PaidStatus
          /\ gateway' = [gateway EXCEPT ![p].status = status]
    BY <1>3 DEF StatusMoved
  <2>2. gateway'[p].status = status /\ \A q \in OrderIds \ {p} : gateway'[q] = gateway[q]
    BY <2>1, StatusStep DEF PaidStatus, GatewayStates
  <2> QED
    BY <2>1, <2>2 DEF Authorized
<1> QED
  BY <1>1, <1>2, <1>3, GatewaySteps

\* A save adds its state to those the payment went through, and loses none.
LEMMA SaveReaches ==
  ASSUME TypeOK, NEW o \in OrderIds, NEW v \in Nat \ {0}, NEW from \in PaymentStates,
         NEW to \in PaymentStates, Save(o, v, from, to)
  PROVE  /\ Reached(o, to)'
         /\ \A p \in OrderIds, state \in PaymentStates :
              Reached(p, state) => Reached(p, state)'
<1>1. PICK path, episode : path = history[o] /\ episode = [from |-> from, to |-> to]
  OBVIOUS
<1>2. path \in Seq(PaymentEpisodes) /\ episode.to = to
  BY <1>1, TypeOKParts
<1>3. PICK longer : longer = Append(path, episode)
  OBVIOUS
<1>4. /\ history'[o] = longer
      /\ \A p \in OrderIds \ {o} : history'[p] = history[p]
  <2>1. history' = [history EXCEPT ![o] = longer]
    BY <1>1, <1>3 DEF Save
  <2> QED
    BY <2>1, TypeOKParts
<1>5. /\ Len(path) + 1 \in DOMAIN longer
      /\ longer[Len(path) + 1] = episode
      /\ \A i \in DOMAIN path : i \in DOMAIN longer /\ longer[i] = path[i]
  BY <1>2, <1>3
<1>6. Reached(o, to)'
  BY <1>2, <1>4, <1>5 DEF Reached
<1>7. \A state \in PaymentStates : Reached(o, state) => Reached(o, state)'
  BY <1>1, <1>4, <1>5 DEF Reached
<1>8. \A p \in OrderIds \ {o}, state \in PaymentStates :
        Reached(p, state) => Reached(p, state)'
  BY <1>4 DEF Reached
<1> QED
  BY <1>6, <1>7, <1>8

LEMMA ReachedKept ==
  ASSUME TypeOK, KnownInv, Told, [Next]_vars, NEW o \in OrderIds,
  NEW state \in PaymentStates,
         Reached(o, state)
  PROVE  Reached(o, state)'
<1>1. CASE UNCHANGED history
  BY <1>1 DEF Reached
<1>2. ASSUME NEW p \in OrderIds, NEW from \in PaymentStates, NEW to \in PaymentStates,
             Saved(p, from, to)
      PROVE  Reached(o, state)'
  <2>1. PICK v \in Nat \ {0} : v = payments[p].version
    BY <1>2, TypeOKParts DEF Saved, PaymentRows
  <2>2. Save(p, v, from, to)
    BY <1>2, <2>1 DEF Saved
  <2> QED
    BY <2>2, SaveReaches
<1> QED
  BY <1>1, <1>2, PaymentSteps DEF Inserted

\* An order becomes PAID only by a call that tells module 08 so.
LEMMA OrdersPaid ==
  ASSUME TypeOK, [Next]_vars, NEW o \in OrderIds, book'[o].state \in PaidStates
  PROVE  \/ book[o].state \in PaidStates
         \/ \E t \in Calls : task[t].pc = "paid" /\ task[t].order = o
<1>1. CASE UNCHANGED book
  BY <1>1
<1>2. ASSUME NEW p \in OrderIds, NEW c \in Customers, PlaceOrder(p, c)
      PROVE  book[o].state \in PaidStates
  <2>1. PICK row : row = [customer |-> c, state |-> "PENDING"]
    OBVIOUS
  <2>2. row.state = "PENDING" /\ book' = [book EXCEPT ![p] = row]
    BY <1>2, <2>1 DEF PlaceOrder, M08!Place
  <2>3. book'[o] = row \/ book'[o] = book[o]
    BY <2>2, TypeOKParts
  <2> QED
    BY <2>2, <2>3 DEF PaidStates
<1>3. ASSUME NEW p \in OrderIds, NEW to \in OrderStates, NEW actor \in {"CUSTOMER", "ADMIN"},
             MoveOrder(p, to, actor)
      PROVE  book[o].state \in PaidStates
  <2>1. /\ book[p].state \in OrderStates
        /\ to # "PAID"
        /\ to \in {"SHIPPED", "DELIVERED", "CLOSED"} =>
             book[p].state \in {"PAID", "SHIPPED", "DELIVERED"}
        /\ M08!Move(p, to)
    BY <1>3, OrderMoves DEF MoveOrder
  <2>2. book'[p].state = to /\ \A q \in OrderIds \ {p} : book'[q] = book[q]
    BY <2>1, MoveStep
  <2> QED
    BY <2>1, <2>2 DEF PaidStates
<1>4. ASSUME NEW t \in Calls, ConfirmOrder(t)
      PROVE  book[o].state \in PaidStates
  <2>1. PICK p \in OrderIds : p = task[t].order
    BY <1>4, TaskShapes, TypeOKParts DEF ConfirmOrder, Idle
  <2>2. SystemMove(p, "CONFIRMED") /\ "CONFIRMED" \in OrderStates
    BY <1>4, <2>1 DEF ConfirmOrder, OrderStates
  <2>3. /\ book'[p] = book[p] \/ book'[p].state = "CONFIRMED"
        /\ \A q \in OrderIds \ {p} : book'[q] = book[q]
    BY <2>2, SystemMoveStep
  <2> QED
    BY <2>3 DEF PaidStates
<1>5. ASSUME NEW t \in Calls, MarkOrderPaid(t)
      PROVE  book[o].state \in PaidStates \/ (task[t].pc = "paid" /\ task[t].order = o)
  <2>1. PICK p \in OrderIds : p = task[t].order
    BY <1>5, TaskShapes, TypeOKParts DEF MarkOrderPaid, Idle
  <2>2. SystemMove(p, "PAID") /\ "PAID" \in OrderStates /\ task[t].pc = "paid"
    BY <1>5, <2>1 DEF MarkOrderPaid, OrderStates
  <2>3. \A q \in OrderIds \ {p} : book'[q] = book[q]
    BY <2>2, SystemMoveStep
  <2> QED
    BY <2>1, <2>2, <2>3
<1>6. \/ UNCHANGED book
      \/ \E p \in OrderIds :
           \/ \E c \in Customers : PlaceOrder(p, c)
           \/ \E to \in OrderStates, actor \in {"CUSTOMER", "ADMIN"} : MoveOrder(p, to, actor)
      \/ \E t \in Calls : ConfirmOrder(t) \/ MarkOrderPaid(t)
  BY BeginStep DEF Next, vars, Decline, Expire, Authorize, Capture, CreateRefund,
     Refund, Work, InsertPayment,
     OpenProviderOrder, ProviderRejects, SaveProcessing, SaveWebhook, SaveRefund, Drop
<1> QED
  BY <1>1, <1>2, <1>3, <1>4, <1>5, <1>6

LEMMA Announced ==
  ASSUME TypeOK, [Next]_vars, NEW event \in sent', event.type \in CaptureEvents
  PROVE  event \in sent \/ (event.order \in OrderIds /\ Authorized(event.order)')
<1>1. ASSUME NEW o \in OrderIds, NEW status \in PaidStatus,
             gateway' = [gateway EXCEPT ![o].status = status]
      PROVE  Authorized(o)'
  BY <1>1, StatusStep DEF Authorized, PaidStatus, GatewayStates
<1>2. ASSUME NEW o \in OrderIds, Decline(o) \/ Expire(o) \/ CreateRefund(o) \/ Refund(o)
      PROVE  event \in sent
  BY <1>2 DEF Decline, Expire, CreateRefund, Refund, Announce, CaptureEvents
<1>3. ASSUME NEW o \in OrderIds, Authorize(o) \/ Capture(o)
      PROVE  event \in sent \/ (event.order \in OrderIds /\ Authorized(event.order)')
  <2>1. Authorized(o)'
    BY <1>1, <1>3 DEF Authorize, Capture, PaidStatus
  <2>2. event \in sent \/ event.order = o
    BY <1>3 DEF Authorize, Capture, Announce
  <2> QED
    BY <2>1, <2>2 DEF Authorized
<1>4. \/ UNCHANGED sent
      \/ \E o \in OrderIds : \/ Decline(o) \/ Expire(o) \/ CreateRefund(o) \/ Refund(o)
                            \/ Authorize(o) \/ Capture(o)
  BY BeginStep DEF Next, vars, PlaceOrder, MoveOrder, Work, InsertPayment,
     OpenProviderOrder, ProviderRejects, SaveProcessing, ConfirmOrder, SaveWebhook,
     MarkOrderPaid, SaveRefund, Drop
<1> QED
  BY <1>2, <1>3, <1>4

LEMMA BackedNext ==
  ASSUME TypeOK, KnownInv, Told, Opened, Backed, [Next]_vars
  PROVE  Backed'
<1>1. ASSUME NEW event \in sent', event.type \in CaptureEvents
      PROVE  Authorized(event.order)'
  <2>1. CASE event \in sent
    <3>1. event.order \in OrderIds
      BY <2>1, TypeOKParts DEF Events
    <3> QED
      BY <1>1, <2>1, <3>1, StatusKept DEF Backed
  <2> QED
    BY <1>1, <2>1, Announced
<1>2. "CAPTURED" \in PaymentStates
  BY DEF PaymentStates
<1>3. ASSUME NEW t \in Calls, task'[t] = task[t]
      PROVE  /\ (task[t].pc = "webhook" /\ task[t].to = "CAPTURED" => Authorized(task[t].order))'
             /\ (task[t].pc = "paid" =>
                   Authorized(task[t].order) /\ Reached(task[t].order, "CAPTURED"))'
  <2>1. PICK x \in Tasks : x = task[t]
    BY TypeOKParts
  <2>2. ASSUME x.pc = "webhook" /\ x.to = "CAPTURED"
        PROVE  Authorized(x.order)'
    <3>1. x.order \in OrderIds
      BY <2>2, TaskShapes DEF Idle
    <3> QED
      BY <2>1, <2>2, <3>1, StatusKept DEF Backed
  <2>3. ASSUME x.pc = "paid"
        PROVE  Authorized(x.order)' /\ Reached(x.order, "CAPTURED")'
    <3>1. x.order \in OrderIds
      BY <2>3, TaskShapes DEF Idle
    <3>2. Authorized(x.order) /\ Reached(x.order, "CAPTURED")
      BY <2>1, <2>3 DEF Backed
    <3> QED
      BY <1>2, <3>1, <3>2, StatusKept, ReachedKept
  <2> QED
    BY <1>3, <2>1, <2>2, <2>3 DEF Authorized, Reached
<1>4. ASSUME NEW t \in Calls,
             \/ \E o \in OrderIds : InitiatePayment(t, o)
             \/ \E event \in sent : ReceiveWebhook(t, event)
             \/ \E o \in OrderIds, amount \in 1..Amount : InitiateRefund(t, o, amount)
      PROVE  /\ (task[t].pc = "webhook" /\ task[t].to = "CAPTURED" => Authorized(task[t].order))'
             /\ (task[t].pc = "paid" =>
                   Authorized(task[t].order) /\ Reached(task[t].order, "CAPTURED"))'
  <2>1. task'[t].pc # "paid" /\ UNCHANGED gateway
    BY <1>4, BeginStep
  <2>2. ASSUME task'[t].pc = "webhook", task'[t].to = "CAPTURED"
        PROVE  gateway[task'[t].order].status \in PaidStatus
    <3>1. PICK event \in sent : /\ task'[t].order = event.order
                                /\ task'[t].to = RequestedState[event.type]
      BY <1>4, <2>2, BeginStep
    <3>2. event.type \in CaptureEvents
      BY <2>2, <3>1, Requested, TypeOKParts DEF Events, CaptureEvents
    <3> QED
      BY <3>1, <3>2 DEF Backed, Authorized
  <2> QED
    BY <2>1, <2>2 DEF Authorized
<1>5. ASSUME NEW t \in Calls, Work(t) \/ Drop(t)
      PROVE  /\ (task[t].pc = "webhook" /\ task[t].to = "CAPTURED" => Authorized(task[t].order))'
             /\ (task[t].pc = "paid" =>
                   Authorized(task[t].order) /\ Reached(task[t].order, "CAPTURED"))'
  <2>1. task'[t].pc # "webhook"
    BY <1>5, CallSteps DEF Idle
  <2>2. ASSUME task'[t].pc = "paid"
        PROVE  /\ gateway'[task'[t].order].status \in PaidStatus
               /\ Reached(task[t].order, "CAPTURED")'
    <3>1. /\ task[t].pc = "webhook"
          /\ task[t].to = "CAPTURED"
          /\ task[t].order \in OrderIds
          /\ task'[t].order = task[t].order
          /\ Save(task[t].order, task[t].version, task[t].seen, "CAPTURED")
          /\ UNCHANGED gateway
      BY <1>5, <2>2, CallSteps DEF Idle
    <3>2. PICK o \in OrderIds, v \in Nat \ {0}, from \in PaymentStates :
            o = task[t].order /\ v = task[t].version /\ from = task[t].seen
      BY <3>1, TaskShapes, TypeOKParts
    <3>3. Save(o, v, from, "CAPTURED")
      BY <3>1, <3>2
    <3>4. Reached(o, "CAPTURED")'
      BY <1>2, <3>3, SaveReaches
    <3>5. Authorized(o)
      BY <3>1, <3>2 DEF Backed
    <3> QED
      BY <3>1, <3>2, <3>4, <3>5 DEF Authorized, Reached
  <2> QED
    BY <2>1, <2>2 DEF Authorized
<1>6. \A t \in Calls :
        /\ (task[t].pc = "webhook" /\ task[t].to = "CAPTURED" => Authorized(task[t].order))'
        /\ (task[t].pc = "paid" =>
              Authorized(task[t].order) /\ Reached(task[t].order, "CAPTURED"))'
  <2>1. \/ UNCHANGED task
        \/ \E t \in Calls :
             /\ \/ \E o \in OrderIds : InitiatePayment(t, o)
                \/ \E event \in sent : ReceiveWebhook(t, event)
                \/ \E o \in OrderIds, amount \in 1..Amount : InitiateRefund(t, o, amount)
                \/ Work(t) \/ Drop(t)
             /\ \A u \in Calls \ {t} : task'[u] = task[u]
    BY BeginStep, CallSteps
       DEF Next, vars, PlaceOrder, MoveOrder, Decline, Expire, Authorize,
          Capture, CreateRefund, Refund
  <2> QED
    BY <1>3, <1>4, <1>5, <2>1
<1>7. ASSUME NEW o \in OrderIds, book'[o].state \in PaidStates
      PROVE  Authorized(o)' /\ Reached(o, "CAPTURED")'
  <2>1. Authorized(o) /\ Reached(o, "CAPTURED")
    BY <1>7, OrdersPaid DEF Backed
  <2> QED
    BY <1>2, <2>1, StatusKept, ReachedKept
<1> QED
  BY <1>1, <1>6, <1>7 DEF Backed

-------------------------------------------------------------------------------
(* The refunds.                                                               *)

\* A payment is asked to be refunded at most once: not before it is captured, and
\* asking takes it from CAPTURED to REFUND_PENDING for good.  A refund is made at
\* most once: it takes a payment that was asked for to REFUNDED, its end.
AskedOnce ==
  \A o \in OrderIds :
    /\ Asked(o) = {} \/ \E r \in Refunds : Asked(o) = {r}
    /\ Asked(o) # {} <=> Reached(o, "REFUND_PENDING")
    /\ payments[o].state \in {"NONE", "PENDING", "PROCESSING", "CAPTURED"} => Asked(o) = {}
    /\ payments[o].state \in {"REFUND_PENDING", "REFUNDED"} => Asked(o) # {}
    /\ Made(o) = {} \/ (payments[o].state = "REFUNDED" /\ \E r \in Refunds : Made(o) = {r})

\* No edge leads back before REFUND_PENDING, and none out of REFUNDED.
LEMMA RefundEdges ==
  ASSUME NEW from, NEW to, PaymentEdge(from, to)
  PROVE  /\ to = "REFUND_PENDING" => from = "CAPTURED"
         /\ to \in {"NONE", "PENDING", "PROCESSING", "CAPTURED"} =>
              from \in {"NONE", "PENDING", "PROCESSING", "CAPTURED"}
         /\ to = "REFUNDED" => from = "REFUND_PENDING"
         /\ from # "REFUNDED"
  BY DEF PaymentEdge, PaymentTransitions, PaymentRule

\* A save adds its state to those the payment went through, and no other.
LEMMA SaveReachesOnly ==
  ASSUME TypeOK, NEW o \in OrderIds, NEW v \in Nat \ {0}, NEW from \in PaymentStates,
         NEW to \in PaymentStates, Save(o, v, from, to)
  PROVE  \A p \in OrderIds, state \in PaymentStates :
           Reached(p, state)' <=> Reached(p, state) \/ (p = o /\ state = to)
<1>1. PICK path, episode : path = history[o] /\ episode = [from |-> from, to |-> to]
  OBVIOUS
<1>2. path \in Seq(PaymentEpisodes) /\ episode.to = to
  BY <1>1, TypeOKParts
<1>3. PICK longer : longer = Append(path, episode)
  OBVIOUS
<1>4. /\ history'[o] = longer
      /\ \A p \in OrderIds \ {o} : history'[p] = history[p]
  <2>1. history' = [history EXCEPT ![o] = longer]
    BY <1>1, <1>3 DEF Save
  <2> QED
    BY <2>1, TypeOKParts
<1>5. \A i \in DOMAIN longer :
        IF i \in DOMAIN path THEN longer[i] = path[i] ELSE longer[i] = episode
  BY <1>2, <1>3
<1>6. \A state \in PaymentStates : Reached(o, state)' => Reached(o, state) \/ state = to
  BY <1>1, <1>2, <1>4, <1>5 DEF Reached
<1>7. \A p \in OrderIds \ {o}, state \in PaymentStates : Reached(p, state)' => Reached(p, state)
  BY <1>4 DEF Reached
<1> QED
  BY <1>6, <1>7, SaveReaches

\* What the saves of a payment do to what was asked of it and made.
LEMMA AskedBySave ==
  ASSUME TypeOK, AskedOnce, NEW o \in OrderIds, NEW from \in PaymentStates,
         NEW to \in PaymentStates, Saved(o, from, to),
         \A p \in OrderIds \ {o} : Asked(p)' = Asked(p) /\ Made(p)' = Made(p),
         IF to = "REFUND_PENDING"
           THEN \E r \in Refunds : Asked(o)' = Asked(o) \cup {r}
           ELSE Asked(o)' = Asked(o),
         \/ Made(o)' = Made(o)
         \/ to = "REFUNDED" /\ \E r \in Refunds : Made(o)' = Made(o) \cup {r}
  PROVE  AskedOnce'
<1>1. PICK v \in Nat \ {0} : v = payments[o].version
  BY TypeOKParts DEF Saved, PaymentRows
<1>2. Save(o, v, from, to)
  BY <1>1 DEF Saved
<1>3. /\ payments'[o] = [state |-> to, version |-> v + 1]
      /\ \A p \in OrderIds \ {o} : payments'[p] = payments[p]
  BY <1>2, SavedPayment
<1>4. payments'[o].state = to /\ "REFUND_PENDING" \in PaymentStates
  BY <1>3 DEF PaymentStates
<1>5. \A p \in OrderIds :
        Reached(p, "REFUND_PENDING")' <=>
          Reached(p, "REFUND_PENDING") \/ (p = o /\ to = "REFUND_PENDING")
  BY <1>2, <1>4, SaveReachesOnly
<1>6. payments[o].state = from /\ PaymentEdge(from, to)
  BY DEF Saved
<1>7. to = "REFUND_PENDING" => Asked(o) = {}
  BY <1>6, RefundEdges DEF AskedOnce
<1>8. /\ Asked(o)' = {} \/ \E r \in Refunds : Asked(o)' = {r}
      /\ Asked(o)' # {} <=> Reached(o, "REFUND_PENDING")'
      /\ to \in {"NONE", "PENDING", "PROCESSING", "CAPTURED"} => Asked(o)' = {}
      /\ to \in {"REFUND_PENDING", "REFUNDED"} => Asked(o)' # {}
  <2>1. CASE to = "REFUND_PENDING"
    <3>1. PICK r \in Refunds : Asked(o)' = {r}
      BY <1>7, <2>1
    <3> QED
      BY <1>5, <2>1, <3>1
  <2>2. CASE to # "REFUND_PENDING"
    BY <1>5, <1>6, <2>2, RefundEdges DEF AskedOnce
  <2> QED
    BY <2>1, <2>2
<1>9. Made(o) = {}
  BY <1>6, RefundEdges DEF AskedOnce
<1>10. Made(o)' = {} \/ (to = "REFUNDED" /\ \E r \in Refunds : Made(o)' = {r})
  BY <1>9
<1>11. \A p \in OrderIds \ {o} : /\ Made(p)' = Made(p) /\ Asked(p)' = Asked(p)
                                 /\ payments'[p] = payments[p]
  BY <1>3
<1>12. \A p \in OrderIds \ {o} :
         Made(p)' = {} \/ (payments'[p].state = "REFUNDED" /\ \E r \in Refunds : Made(p)' = {r})
  BY <1>11 DEF AskedOnce
<1> QED
  BY <1>4, <1>5, <1>8, <1>10, <1>11, <1>12 DEF AskedOnce

\* The refund rows after a new one of order o.
LEMMA AskedStep ==
  ASSUME TypeOK, NEW o \in OrderIds, NEW r \in Refunds,
         refunds' = [refunds EXCEPT ![o] = @ \cup {r}]
  PROVE  /\ Asked(o)' = IF r.state = "PENDING" THEN Asked(o) \cup {r} ELSE Asked(o)
         /\ Made(o)' = IF r.state = "REFUNDED" THEN Made(o) \cup {r} ELSE Made(o)
         /\ \A p \in OrderIds \ {o} : Asked(p)' = Asked(p) /\ Made(p)' = Made(p)
<1>1. refunds'[o] = refunds[o] \cup {r} /\ \A p \in OrderIds \ {o} : refunds'[p] = refunds[p]
  BY TypeOKParts
<1> QED
  BY <1>1 DEF Asked, Made

LEMMA AskedBySaveRefund ==
  ASSUME TypeOK, KnownInv, AskedOnce, NEW t \in Calls, SaveRefund(t)
  PROVE  AskedOnce'
<1>1. task[t] # Idle /\ task[t].pc = "refund"
  BY DEF SaveRefund, Idle
<1>2. PICK o \in OrderIds, v \in Nat \ {0}, from \in PaymentStates :
        o = task[t].order /\ v = task[t].version /\ from = task[t].seen
  BY <1>1, TaskShapes, TypeOKParts
<1>3. CASE UNCHANGED <<payments, history, refunds>>
  BY <1>3 DEF AskedOnce, Asked, Made, Reached
<1>4. CASE /\ Save(o, v, from, "REFUND_PENDING")
           /\ refunds' = [refunds EXCEPT ![o] =
                @ \cup {[amount |-> task[t].amount, state |-> "PENDING", version |-> v + 1]}]
  <2>1. PICK r : r = [amount |-> task[t].amount, state |-> "PENDING", version |-> v + 1]
    OBVIOUS
  <2>2. task[t].amount \in 1..Amount
    BY <1>1, TaskShapes, TypeOKParts
  <2>3. r \in Refunds /\ r.state = "PENDING"
    BY <2>1, <2>2 DEF Refunds
  <2>4. /\ Asked(o)' = Asked(o) \cup {r} /\ Made(o)' = Made(o)
        /\ \A p \in OrderIds \ {o} : Asked(p)' = Asked(p) /\ Made(p)' = Made(p)
    BY <1>4, <2>1, <2>3, AskedStep
  <2>5. /\ payments[o] # NoPayment
        /\ v = payments[o].version => from = payments[o].state
        /\ from = "CAPTURED"
    BY <1>1, <1>2 DEF KnownInv, Known
  <2>6. "REFUND_PENDING" \in PaymentStates
    BY DEF PaymentStates
  <2>7. Saved(o, from, "REFUND_PENDING")
    BY <1>4, <2>5, <2>6, Edges, KnownSave
  <2> QED
    BY <2>3, <2>4, <2>6, <2>7, AskedBySave
<1> QED
  BY <1>2, <1>3, <1>4 DEF SaveRefund

LEMMA AskedBySaveWebhook ==
  ASSUME TypeOK, KnownInv, AskedOnce, NEW t \in Calls, SaveWebhook(t)
  PROVE  AskedOnce'
<1>1. task[t] # Idle /\ task[t].pc = "webhook"
  BY DEF SaveWebhook, Idle
<1>2. PICK o \in OrderIds, v \in Nat \ {0}, from \in PaymentStates,
           to \in {"CAPTURED", "FAILED", "REFUNDED"} :
        o = task[t].order /\ v = task[t].version /\ from = task[t].seen /\ to = task[t].to
  BY <1>1, TaskShapes, TypeOKParts
<1>3. CASE UNCHANGED <<payments, history, refunds>>
  BY <1>3 DEF AskedOnce, Asked, Made, Reached
<1>4. CASE /\ Save(o, v, from, to)
           /\ \/ UNCHANGED refunds
              \/ /\ to = "REFUNDED"
                 /\ refunds' = [refunds EXCEPT ![o] =
                      @ \cup {[amount |-> Amount, state |-> "REFUNDED", version |-> v + 1]}]
  <2>1. PICK r : r = [amount |-> Amount, state |-> "REFUNDED", version |-> v + 1]
    OBVIOUS
  <2>2. r \in Refunds /\ r.state = "REFUNDED"
    BY <2>1, AmountAssumption DEF Refunds
  <2>3. /\ \A p \in OrderIds : Asked(p)' = Asked(p)
        /\ \A p \in OrderIds \ {o} : Made(p)' = Made(p)
        /\ Made(o)' = Made(o) \/ (to = "REFUNDED" /\ Made(o)' = Made(o) \cup {r})
    <3>1. CASE UNCHANGED refunds
      BY <3>1 DEF Asked, Made
    <3>2. CASE ~UNCHANGED refunds
      <4>1. to = "REFUNDED" /\ refunds' = [refunds EXCEPT ![o] = @ \cup {r}]
        BY <1>4, <2>1, <3>2
      <4> QED
        BY <2>2, <4>1, AskedStep
    <3> QED
      BY <3>1, <3>2
  <2>4. /\ payments[o] # NoPayment
        /\ v = payments[o].version => from = payments[o].state
        /\ PaymentEdge(from, to)
    BY <1>1, <1>2 DEF KnownInv, Known
  <2>5. to \in PaymentStates /\ to # "REFUND_PENDING"
    BY DEF PaymentStates
  <2>6. Saved(o, from, to)
    BY <1>4, <2>4, <2>5, KnownSave
  <2> QED
    BY <2>2, <2>3, <2>5, <2>6, AskedBySave
<1> QED
  BY <1>2, <1>3, <1>4 DEF SaveWebhook

LEMMA AskedBySaveProcessing ==
  ASSUME TypeOK, KnownInv, Told, AskedOnce, NEW t \in Calls, SaveProcessing(t),
         ~UNCHANGED <<payments, history>>
  PROVE  AskedOnce'
<1>1. PICK o \in OrderIds : o = task[t].order
  BY TaskShapes, TypeOKParts DEF SaveProcessing, Idle
<1>2. Save(o, 1, "PENDING", "PROCESSING") /\ payments[o] # NoPayment
  BY <1>1 DEF SaveProcessing, KnownInv, Known
<1>3. payments[o].version = 1
  BY <1>2 DEF Save, Current
<1>4. Tells(history[o], payments[o])
  BY <1>2 DEF Told
<1>5. Len(history[o]) \in Nat
  BY TypeOKParts
<1>6. payments[o].state = "PENDING"
  BY <1>3, <1>4, <1>5 DEF Tells
<1>7. "PENDING" \in PaymentStates /\ "PROCESSING" \in PaymentStates
  BY DEF PaymentStates
<1>8. Saved(o, "PENDING", "PROCESSING")
  BY <1>2, <1>6, <1>7, Edges, KnownSave
<1>9. \A p \in OrderIds : Asked(p)' = Asked(p) /\ Made(p)' = Made(p)
  BY DEF SaveProcessing, Asked, Made
<1> QED
  BY <1>7, <1>8, <1>9, AskedBySave

LEMMA AskedNext ==
  ASSUME TypeOK, KnownInv, Told, AskedOnce, [Next]_vars
  PROVE  AskedOnce'
<1>1. CASE UNCHANGED <<payments, history, refunds>>
  BY <1>1 DEF AskedOnce, Asked, Made, Reached
<1>2. ASSUME NEW t \in Calls, InsertPayment(t), ~UNCHANGED payments
      PROVE  AskedOnce'
  <2>1. PICK o \in OrderIds : o = task[t].order
    BY <1>2, TaskShapes, TypeOKParts DEF InsertPayment, Idle
  <2>2. payments[o].state = "NONE" /\ refunds' = refunds /\ history' = history
    BY <1>2, <2>1 DEF InsertPayment, NoPayment
  <2>3. /\ payments'[o] = [state |-> "PENDING", version |-> 1]
        /\ \A p \in OrderIds \ {o} : payments'[p] = payments[p]
    BY <1>2, <2>1, InsertStep DEF InsertPayment
  <2> QED
    BY <2>2, <2>3 DEF AskedOnce, Asked, Made, Reached
<1>3. \/ UNCHANGED <<payments, history, refunds>>
      \/ \E t \in Calls :
           \/ InsertPayment(t) /\ ~UNCHANGED payments
           \/ SaveProcessing(t) /\ ~UNCHANGED <<payments, history>>
           \/ SaveWebhook(t)
           \/ SaveRefund(t)
  BY BeginStep DEF Next, vars, PlaceOrder, MoveOrder, Decline, Expire, Authorize,
     Capture, CreateRefund, Refund,
     Work, OpenProviderOrder, ProviderRejects, ConfirmOrder, MarkOrderPaid, Drop,
     InsertPayment, SaveProcessing
<1> QED
  BY <1>1, <1>2, <1>3, AskedBySaveProcessing, AskedBySaveWebhook, AskedBySaveRefund

LEMMA RowsTellTheLife ==
  ASSUME AskedOnce
  PROVE  RefundRowsTellTheLife
<1>1. ASSUME NEW rows, rows = {} \/ \E r \in Refunds : rows = {r}
      PROVE  Cardinality(rows) <= 1
  <2>1. CASE rows = {}
    BY <2>1, FS_EmptySet
  <2>2. ASSUME NEW r, rows = {r}
        PROVE  Cardinality(rows) <= 1
    <3>1. Cardinality({r}) = 1
      BY FS_Singleton
    <3> QED
      BY <2>2, <3>1
  <2> QED
    BY <1>1, <2>1, <2>2
<1> QED
  BY <1>1 DEF AskedOnce, RefundRowsTellTheLife

-------------------------------------------------------------------------------

IInv == TypeOK /\ KnownInv /\ Told /\ Opened /\ Backed /\ AskedOnce

LEMMA InitIInv == Init => IInv
<1> SUFFICES ASSUME Init PROVE IInv
  OBVIOUS
<1>1. \A o \in OrderIds : /\ book[o].state = "NONE"
                          /\ payments[o] = NoPayment /\ history[o] = <<>>
                          /\ gateway[o].opened = 0 /\ gateway[o].status = "none"
  BY DEF Init, M08!Init, M08!NotPlaced
<1>2. sent = {} /\ \A t \in Calls : task[t].pc = "idle"
  BY DEF Init, Idle
<1>3. KnownInv
  BY <1>2 DEF KnownInv, Known
<1>4. Told
  BY <1>1 DEF Told
<1>5. Opened
  BY <1>1, <1>2 DEF Opened
<1>6. Backed
  BY <1>1, <1>2 DEF Backed, PaidStates
<1>7. AskedOnce
  BY <1>1 DEF Init, AskedOnce, Asked, Made, Reached, NoPayment
<1> QED
  BY <1>3, <1>4, <1>5, <1>6, <1>7, InitTypeOK DEF IInv

LEMMA NextIInv == IInv /\ [Next]_vars => IInv'
<1> SUFFICES ASSUME IInv, [Next]_vars PROVE IInv'
  OBVIOUS
<1> USE DEF IInv
<1> QED
  BY NextTypeOK, KnownNext, ToldNext, OpenedNext, BackedNext, AskedNext

\* Every reachable state satisfies the inductive invariant.
THEOREM SpecIInv == Spec => []IInv
  BY InitIInv, NextIInv, PTL DEF Spec

\* Orders, payments, refunds, the provider and what calls hold keep their shapes:
\* PaymentApplicationService stores nothing else.
THEOREM SpecTypeOK == Spec => []TypeOK
<1>1. IInv => TypeOK
  BY DEF IInv
<1> QED
  BY <1>1, SpecIInv, PTL

\* For any number of racing initiations, webhooks and refunds, the episodes of a
\* payment tell its whole life along the lifecycle and its version counts them.
THEOREM SpecPaymentHistoryMatches == Spec => []PaymentHistoryMatches
<1>1. IInv => PaymentHistoryMatches
  <2> SUFFICES ASSUME IInv, NEW o \in OrderIds, payments[o] # NoPayment
               PROVE  /\ payments[o].version = Len(history[o]) + 1
                      /\ payments[o].state =
                           IF Len(history[o]) = 0 THEN "PENDING" ELSE history[o][Len(history[o])].to
                      /\ \A i \in 1..Len(history[o]) :
                           /\ PaymentEdge(history[o][i].from, history[o][i].to)
                           /\ history[o][i].from =
                                IF i = 1 THEN "PENDING" ELSE history[o][i-1].to
    BY DEF PaymentHistoryMatches
  <2> QED
    BY DEF IInv, Told, Tells
<1> QED
  BY <1>1, SpecIInv, PTL

\* However many initiations of an order race or are retried, at most one order is
\* opened at the provider (initiatePayment and the unique order id of payments).
THEOREM SpecOneProviderOrder == Spec => []OneProviderOrder
<1>1. IInv => OneProviderOrder
  BY DEF IInv, Opened, OneProviderOrder
<1> QED
  BY <1>1, SpecIInv, PTL

\* In whatever order webhooks arrive and wherever calls die, an order is paid, or
\* shipped, only if its payment was recorded as CAPTURED and the customer
\* authorized it at the provider (processWebhook and module 08's transitionOrder).
THEOREM SpecPaidOrdersWereAuthorized == Spec => []PaidOrdersWereAuthorized
<1>1. IInv => PaidOrdersWereAuthorized
  BY DEF IInv, Backed, Authorized, PaidStates, PaidStatus, PaidOrdersWereAuthorized
<1> QED
  BY <1>1, SpecIInv, PTL

\* However many refunds administrators start at once and webhooks report, a
\* payment is asked for once and made once, the one as it goes to REFUND_PENDING
\* and the other as it ends REFUNDED (initiateRefund, processWebhook and the
\* version guard of save).
THEOREM SpecRefundRowsTellTheLife == Spec => []RefundRowsTellTheLife
<1>1. IInv => RefundRowsTellTheLife
  BY RowsTellTheLife DEF IInv
<1> QED
  BY <1>1, SpecIInv, PTL

\* Module 08 is used only as it promises to behave: seen through its orders
\* alone, checkout is the abstract OrderBook, which Orders implements.
THEOREM SpecUsesOrderBook == Spec => M08!Spec
<1>1. Init => M08!Init
  BY DEF Init
<1>2. ASSUME TypeOK, [Next]_vars
      PROVE  [M08!Next]_book
  <2>1. ASSUME NEW o \in OrderIds, NEW to \in OrderStates, M08!Move(o, to)
        PROVE  M08!Next
    BY <2>1 DEF M08!Next, M08!OrderStates, OrderStates
  <2>2. ASSUME NEW o \in OrderIds, NEW c \in Customers, PlaceOrder(o, c)
        PROVE  M08!Next
    BY <2>2 DEF PlaceOrder, M08!Next
  <2>3. ASSUME NEW o \in OrderIds, NEW to \in OrderStates, NEW actor, MoveOrder(o, to, actor)
        PROVE  M08!Next
    BY <2>1, <2>3 DEF MoveOrder
  <2>4. ASSUME NEW t \in Calls, ConfirmOrder(t) \/ MarkOrderPaid(t), ~UNCHANGED book
        PROVE  M08!Next
    <3>1. PICK o : o = task[t].order
      OBVIOUS
    <3>2. task[t] \in Tasks /\ task[t] # Idle
      BY <1>2, <2>4, TypeOKParts DEF ConfirmOrder, MarkOrderPaid, Idle
    <3>3. o \in OrderIds
      BY <3>1, <3>2, TaskShapes
    <3>4. M08!Move(o, "CONFIRMED") \/ M08!Move(o, "PAID")
      BY <2>4, <3>1 DEF ConfirmOrder, MarkOrderPaid, SystemMove
    <3>5. "CONFIRMED" \in OrderStates /\ "PAID" \in OrderStates
      BY DEF OrderStates
    <3>6. QED
      BY <2>1, <3>3, <3>4, <3>5
  <2>5. CASE UNCHANGED book
    BY <2>5
  <2>6. CASE ~UNCHANGED book
    <3>1. \/ \E o \in OrderIds, c \in Customers : PlaceOrder(o, c)
          \/ \E o \in OrderIds, to \in OrderStates, actor \in {"CUSTOMER", "ADMIN"} :
               MoveOrder(o, to, actor)
          \/ \E t \in Calls : ConfirmOrder(t) \/ MarkOrderPaid(t)
      BY <1>2, <2>6 DEF Next, Work, vars, Decline, Expire, Authorize, Capture,
         CreateRefund, Refund,
         InitiatePayment, ReceiveWebhook, InitiateRefund, Drop, InsertPayment,
         OpenProviderOrder, ProviderRejects, SaveProcessing, SaveWebhook, SaveRefund
    <3>2. QED
      BY <2>2, <2>3, <2>4, <2>6, <3>1
  <2>7. QED
    BY <2>5, <2>6
<1>3. QED
  BY <1>1, <1>2, SpecTypeOK, PTL DEF Spec, M08!Spec

===============================================================================
