-------------------------------- MODULE Orders --------------------------------
(***************************************************************************)
(* Module 08, OrderApplicationService over PrismaOrderRepository: orders    *)
(* placed from cart snapshots, cancelled by their customers, moved along    *)
(* the lifecycle by administrators and by the callbacks of other modules.   *)
(*                                                                          *)
(* A call is one HTTP request or callback, a step is what it does between   *)
(* two awaits, so calls interleave where the code lets them: between the    *)
(* reads that validate a request and the idempotency row, between the       *)
(* reservations of two lines, between the read of an order and its save.    *)
(* A request refused by its validation changes nothing and is not a step.   *)
(* Acquiring and completing the idempotency row are atomic here; they are   *)
(* taken apart in ApiIdempotency.                                           *)
(***************************************************************************)
EXTENDS Integers, Sequences, FiniteSets, OrderLifecycle, IdempotencyRecords

CONSTANTS
  Customers, OrderIds, Skus,
  Keys,        \* values of the Idempotency-Key header
  Correlations, NoCorrelation,   \* correlation ids clients supply, or none
  Calls,
  Snapshots,   \* cart snapshots module 07 handed over
  Buyer,       \* [Snapshots -> Customers]
  Lines        \* [Snapshots -> Seq([sku : Skus, quantity : Nat])]

ASSUME SnapshotAssumption ==
  /\ Buyer \in [Snapshots -> Customers]
  /\ \A s \in Snapshots :
       /\ Lines[s] \in Seq([sku : Skus, quantity : Nat \ {0}])
       /\ Lines[s] # <<>>
       /\ \A i, j \in DOMAIN Lines[s] : Lines[s][i].sku = Lines[s][j].sku => i = j
  /\ NoCorrelation \notin Correlations

VARIABLES
  orders,       \* [OrderIds -> order row]        table orders
  transitions,  \* [OrderIds -> Seq(episode)]     table order_state_transitions
  granted,      \* [Skus -> Nat]  units module 05 ever reserved for creations, or for
                \*               others under a correlation id (history)
  answers,      \* [Skus \X Correlations -> row]  reservations module 05 answered
  record,       \* [IdemKeys -> row]              api_idempotency_records
  task          \* [Calls -> what a call is doing]

vars == <<orders, transitions, granted, answers, record, task>>

IdemKeys == Customers \X {"order.create", "order.cancel"} \X Keys

-------------------------------------------------------------------------------
(* Rows.  The order row carries, beside the columns the properties need (its  *)
(* correlation id among them), the idempotency key it was created under (a    *)
(* history field).                                                            *)

NoOrder == [state |-> "NONE"]

Supplied == Correlations \cup {NoCorrelation}

OrderRows == [customer : Customers, snapshot : Snapshots, key : Keys,
              correlation : Supplied, state : OrderStates, version : Nat \ {0}]

Episodes == [from : OrderStates, to : OrderStates, version : Nat]

\* @@unique([customerProfileId, state]): no order of c is in this state.
SlotFree(c, state) ==
  \A o \in OrderIds : orders[o].state = state => orders[o].customer # c

\* What the request of a creation, and of a cancellation, hashes.
CreatePrints == [snapshot : Snapshots, correlation : Supplied]

CancelPrints == [order : OrderIds, version : Nat \ {0}]

Prints == CreatePrints \cup CancelPrints

Idle == [pc |-> "idle"]

\* A createOrder call: the next line to reserve is Lines[snapshot][line].
CreateTasks == [pc : {"acquire", "create", "abandon"}, id : IdemKeys,
                print : CreatePrints, line : Nat \ {0}]

\* A cancelOrder call: seen is the state the order was read in.
CancelTasks == [pc : {"acquire", "cancel", "abandon"}, id : IdemKeys,
                print : CancelPrints, seen : OrderStates]

\* Either, once its write is done and its result waits to be stored.
CompleteTasks == [pc : {"complete"}, id : IdemKeys, print : Prints,
                  result : OrderIds]

\* A transitionOrder call between its read and its save.
TransitionTasks == [pc : {"transition"}, order : OrderIds, seen : OrderStates,
                    version : Nat \ {0}, to : OrderStates]

TypeOK ==
  /\ orders \in [OrderIds -> {NoOrder} \cup OrderRows]
  /\ transitions \in [OrderIds -> Seq(Episodes)]
  /\ granted \in [Skus -> Nat]
  /\ answers \in [Skus \X Correlations -> Rows({}, Nat, {"RESERVED", "DENIED"})]
  /\ record \in [IdemKeys -> Rows(Calls, Prints, OrderIds)]
  /\ task \in [Calls -> {Idle} \cup CreateTasks \cup CancelTasks
                          \cup CompleteTasks \cup TransitionTasks]

Init ==
  /\ orders = [o \in OrderIds |-> NoOrder]
  /\ transitions = [o \in OrderIds |-> <<>>]
  /\ granted = [s \in Skus |-> 0]
  /\ answers = [i \in Skus \X Correlations |-> Absent]
  /\ record = [i \in IdemKeys |-> Absent]
  /\ task = [t \in Calls |-> Idle]

Goto(t, step) == task' = [task EXCEPT ![t].pc = step]

Finish(t) == task' = [task EXCEPT ![t] = Idle]

\* (faulty variant: the result stored is the order found before the write)
CompletingNothing(t, o) ==
  task' = [task EXCEPT ![t] = [pc |-> "complete", id |-> task[t].id,
                               print |-> task[t].print, result |-> NoOrder]]

Completing(t, o) ==
  task' = [task EXCEPT ![t] = [pc |-> "complete", id |-> task[t].id,
                               print |-> task[t].print, result |-> o]]

\* Whom module 05 reserves for: whoever carries the correlation id, and
\* without one the creation under this key.
Owner(customer, key, correlation) ==
  IF correlation \in Correlations THEN <<correlation>> ELSE <<customer, key>>

\* The units of a SKU that the first n lines of snapshot s ask for, each told
\* apart by whom it is for.
Units(owner, s, n, sku) ==
  UNION {{owner} \X (1..Lines[s][i].quantity) :
           i \in {j \in 1..n : Lines[s][j].sku = sku}}

-------------------------------------------------------------------------------
(* Faulty variants, each a bug the code could have.                           *)

\* save without the aggregateVersion guard: the last writer wins
SaveUnguarded(o, version, from, to) ==
  /\ orders[o] # NoOrder
  /\ SlotFree(orders[o].customer, to)
  /\ orders' = [orders EXCEPT ![o].state = to, ![o].version = version + 1]
  /\ transitions' = [transitions EXCEPT ![o] =
       Append(@, [from |-> from, to |-> to, version |-> version + 1])]

\* a repeated answer is taken for a confirmation, whatever it was
RepeatedWhatever(t, line) ==
  /\ task[t].print.correlation \in Correlations
  /\ answers[<<line.sku, task[t].print.correlation>>] \in
       {Completed(line.quantity, result) : result \in {"RESERVED", "DENIED"}}

\* insert trusts the check made before the idempotency row was acquired
InsertUnconstrained(t) ==
  /\ task[t].pc = "create"
  /\ task[t].line > Len(Lines[task[t].print.snapshot])
  /\ \E o \in OrderIds :
       /\ orders[o] = NoOrder
       /\ orders' = [orders EXCEPT ![o] =
            [customer |-> task[t].id[1], snapshot |-> task[t].print.snapshot,
             key |-> task[t].id[3], correlation |-> task[t].print.correlation,
             state |-> "PENDING", version |-> 1]]
       /\ Completing(t, o)
  /\ UNCHANGED <<transitions, granted, answers, record>>

\* a restart clears the keys that were in progress
DropFreesKey(t) ==
  /\ task[t].pc \notin {"idle", "transition"}
  /\ record' = [record EXCEPT ![task[t].id] =
       IF OwnProcessingRow(@, t) THEN Absent ELSE @]
  /\ Finish(t)
  /\ UNCHANGED <<orders, transitions, granted, answers>>

-------------------------------------------------------------------------------
(* createOrder                                                                *)

\* The checks made before the idempotency row is touched: the customer's own,
\* non-empty snapshot, and no pending order yet.
CreateAdmits(c, s) ==
  /\ Buyer[s] = c
  /\ SlotFree(c, "PENDING")

CreateOrder(t, c, s, k, correlation) ==
  /\ task[t] = Idle
  /\ CreateAdmits(c, s)
  /\ task' = [task EXCEPT ![t] =
       [pc |-> "acquire", id |-> <<c, "order.create", k>>,
        print |-> [snapshot |-> s, correlation |-> correlation], line |-> 1]]
  /\ UNCHANGED <<orders, transitions, granted, answers, record>>

\* The idempotency row of the call: inserted, or found with an outcome that
\* ends the call (a replayed result, a reused key, a key in progress).
Acquire(t) ==
  /\ task[t].pc = "acquire"
  /\ LET outcome == AcquireOutcome(record[task[t].id], task[t].print) IN
       \/ /\ outcome = "ACQUIRED"
          /\ record' = [record EXCEPT ![task[t].id] = Processing(t, task[t].print)]
          /\ Goto(t, IF task[t].id[2] = "order.create" THEN "create" ELSE "cancel")
       \/ /\ outcome # "ACQUIRED"
          /\ Finish(t)
          /\ UNCHANGED record
  /\ UNCHANGED <<orders, transitions, granted, answers>>

\* Module 05 answers a reservation that carries a correlation id once, and
\* repeats the answer to whoever carries the same id for the same quantity.
Answered(t, quantity, result) ==
  [i \in DOMAIN answers |->
     IF i = <<Lines[task[t].print.snapshot][task[t].line].sku, task[t].print.correlation>>
       THEN Completed(quantity, result) ELSE answers[i]]

FirstAsked(t, sku) ==
  task[t].print.correlation \in Correlations =>
    answers[<<sku, task[t].print.correlation>>] = Absent

Repeated(t, line) ==
  /\ task[t].print.correlation \in Correlations
  /\ answers[<<line.sku, task[t].print.correlation>>] = Completed(line.quantity, "RESERVED")

\* One line of the snapshot is still sold and module 05 confirms it.  Whether
\* stock is available is module 05's to say: carts, sellers and other orders
\* move its counters between any two steps of this module.
ReserveLine(t) ==
  LET todo == Lines[task[t].print.snapshot]
      line == todo[task[t].line]
  IN  /\ task[t].pc = "create"
      /\ task[t].line <= Len(todo)
      /\ \/ /\ FirstAsked(t, line.sku)
            /\ granted' = [granted EXCEPT ![line.sku] = @ + line.quantity]
            /\ answers' = Answered(t, line.quantity, "RESERVED")
         \/ /\ Repeated(t, line)
            /\ UNCHANGED <<granted, answers>>
      /\ task' = [task EXCEPT ![t].line = @ + 1]
      /\ UNCHANGED <<orders, transitions, record>>

\* One line is no longer sold, module 05 denies it (for the first time or as
\* before), or the correlation id was used for another quantity: the call
\* throws, and the lines it reserved before stay reserved.
RefuseLine(t) ==
  LET todo == Lines[task[t].print.snapshot]
      line == todo[task[t].line]
  IN  /\ task[t].pc = "create"
      /\ task[t].line <= Len(todo)
      /\ \/ UNCHANGED answers
         \/ /\ FirstAsked(t, line.sku)
            /\ answers' = Answered(t, line.quantity, "DENIED")
      /\ Goto(t, "abandon")
      /\ UNCHANGED <<orders, transitions, granted, record>>

\* repository.insert: the order with its lines, or the unique constraint.
InsertOrder(t) ==
  /\ task[t].pc = "create"
  /\ task[t].line > Len(Lines[task[t].print.snapshot])
  /\ LET c == task[t].id[1] IN
       \/ /\ SlotFree(c, "PENDING")
          /\ \E o \in OrderIds :
               /\ orders[o] = NoOrder
               /\ orders' = [orders EXCEPT ![o] =
                    [customer |-> c, snapshot |-> task[t].print.snapshot,
                     key |-> task[t].id[3], correlation |-> task[t].print.correlation,
                     state |-> "PENDING", version |-> 1]]
               /\ Completing(t, o)
       \/ /\ ~SlotFree(c, "PENDING")
          /\ Goto(t, "abandon")
          /\ UNCHANGED orders
  /\ UNCHANGED <<transitions, granted, answers, record>>

-------------------------------------------------------------------------------
(* transitionOrder and cancelOrder                                            *)

\* save accepts: nobody wrote since the read, and the customer has no other
\* order in the new state.
Savable(o, version, to) ==
  /\ orders[o].version = version
  /\ SlotFree(orders[o].customer, to)

\* repository.save: the version-guarded update and the episode, atomically.
Save(o, version, from, to) ==
  /\ Savable(o, version, to)
  /\ orders' = [orders EXCEPT ![o].state = to, ![o].version = version + 1]
  /\ transitions' = [transitions EXCEPT ![o] =
       Append(@, [from |-> from, to |-> to, version |-> version + 1])]

\* The order is read and the lifecycle accepts the move; an expectedVersion
\* that does not match the order read is refused with it.
TransitionOrder(t, o, to, actor, reasonGiven) ==
  /\ task[t] = Idle
  /\ orders[o] # NoOrder
  /\ OrderMovePermitted(orders[o].state, to, actor, reasonGiven)
  /\ task' = [task EXCEPT ![t] =
       [pc |-> "transition", order |-> o, seen |-> orders[o].state,
        version |-> orders[o].version, to |-> to]]
  /\ UNCHANGED <<orders, transitions, granted, answers, record>>

SaveTransition(t) ==
  /\ task[t].pc = "transition"
  /\ \/ Save(task[t].order, task[t].version, task[t].seen, task[t].to)
     \/ /\ ~Savable(task[t].order, task[t].version, task[t].to)
        /\ UNCHANGED <<orders, transitions>>
  /\ Finish(t)
  /\ UNCHANGED <<granted, answers, record>>

\* The order is read, belongs to the caller and has the version it expects.
CancelOrder(t, c, o, k) ==
  /\ task[t] = Idle
  /\ orders[o] # NoOrder
  /\ orders[o].customer = c
  /\ task' = [task EXCEPT ![t] =
       [pc |-> "acquire", id |-> <<c, "order.cancel", k>>,
        print |-> [order |-> o, version |-> orders[o].version],
        seen |-> orders[o].state]]
  /\ UNCHANGED <<orders, transitions, granted, answers, record>>

\* The lifecycle judges the order as it was read; save finds out if it moved.
SaveCancel(t) ==
  /\ task[t].pc = "cancel"
  /\ LET o == task[t].print.order
         v == task[t].print.version
         allowed == OrderMovePermitted(task[t].seen, "CANCELLED", "CUSTOMER", TRUE)
     IN  \/ /\ allowed
            /\ Save(o, v, task[t].seen, "CANCELLED")
            /\ Completing(t, o)
         \/ /\ ~(allowed /\ Savable(o, v, "CANCELLED"))
            /\ Goto(t, "abandon")
            /\ UNCHANGED <<orders, transitions>>
  /\ UNCHANGED <<granted, answers, record>>

-------------------------------------------------------------------------------
(* How a call ends                                                            *)

\* The operation threw: the call's own PROCESSING row is deleted.
Abandon(t) ==
  /\ task[t].pc = "abandon"
  /\ record' = [record EXCEPT ![task[t].id] =
       IF OwnProcessingRow(@, t) THEN Absent ELSE @]
  /\ Finish(t)
  /\ UNCHANGED <<orders, transitions, granted, answers>>

\* The operation returned: its result is stored and sent.
Complete(t) ==
  /\ task[t].pc = "complete"
  /\ OwnProcessingRow(record[task[t].id], t)
  /\ record' = [record EXCEPT ![task[t].id] =
       Completed(task[t].print, task[t].result)]
  /\ Finish(t)
  /\ UNCHANGED <<orders, transitions, granted, answers>>

\* The process serving the call dies between two steps, or the write that
\* should store the result (or delete the row) fails: nothing is undone.
Drop(t) ==
  /\ task[t] # Idle
  /\ Finish(t)
  /\ UNCHANGED <<orders, transitions, granted, answers, record>>

\* A cart reserves the units of such a line under a correlation id: the answer is
\* kept under the same key, and a creation that carries the id is given it again.
ReservedElsewhere(line, correlation) ==
  /\ answers[<<line.sku, correlation>>] = Absent
  /\ answers' = [answers EXCEPT ![<<line.sku, correlation>>] =
                   Completed(line.quantity, "RESERVED")]
  /\ granted' = [granted EXCEPT ![line.sku] = @ + line.quantity]
  /\ UNCHANGED <<orders, transitions, record, task>>

Next ==
  \/ \E s \in Snapshots, correlation \in Correlations :
       \E i \in DOMAIN Lines[s] : ReservedElsewhere(Lines[s][i], correlation)
  \/ \E t \in Calls :
       \/ \E c \in Customers, s \in Snapshots, k \in Keys,
             correlation \in Supplied :
            CreateOrder(t, c, s, k, correlation)
       \/ \E c \in Customers, o \in OrderIds, k \in Keys : CancelOrder(t, c, o, k)
       \/ \E o \in OrderIds, to \in OrderStates, actor \in {"SYSTEM", "ADMIN"},
             reasonGiven \in BOOLEAN : TransitionOrder(t, o, to, actor, reasonGiven)
       \/ Acquire(t)
       \/ ReserveLine(t)
       \/ RefuseLine(t)
       \/ InsertOrder(t)
       \/ SaveTransition(t)
       \/ SaveCancel(t)
       \/ Abandon(t)
       \/ Complete(t)
       \/ Drop(t)

Spec == Init /\ [][Next]_vars

-------------------------------------------------------------------------------

\* The episodes of an order tell its whole life: they start at PENDING, follow
\* the lifecycle's edges without a gap, end in the state the row shows, and
\* the row's version counts them.  Lost updates and double transitions of
\* concurrent calls would break it.
HistoryMatchesState ==
  \A o \in OrderIds : orders[o] # NoOrder =>
    LET path == transitions[o]
        n == Len(path)
    IN  /\ orders[o].version = n + 1
        /\ orders[o].state = IF n = 0 THEN "PENDING" ELSE path[n].to
        /\ \A i \in 1..n :
             /\ OrderEdge(path[i].from, path[i].to)
             /\ path[i].from = IF i = 1 THEN "PENDING" ELSE path[i-1].to
             /\ path[i].version = i + 1

\* However often a creation is retried under one key, and wherever earlier
\* attempts were interrupted, it places one order.
OneOrderPerKey ==
  \A o1, o2 \in OrderIds :
    /\ orders[o1] # NoOrder
    /\ orders[o2] # NoOrder
    /\ orders[o1].customer = orders[o2].customer
    /\ orders[o1].key = orders[o2].key
    => o1 = o2

LiveOrders == {o \in OrderIds : orders[o] # NoOrder /\ orders[o].state \in
                 {"PENDING", "CONFIRMED", "PAID"}}

\* The units of a SKU that the orders still to be shipped stand for.
Owed(sku) ==
  UNION {Units(Owner(orders[o].customer, orders[o].key, orders[o].correlation),
               orders[o].snapshot, Len(Lines[orders[o].snapshot]), sku) :
           o \in LiveOrders}

\* Decision D-04, "Any SKU insufficient -> deny order (fail closed)": every
\* unit of an order still to be shipped was reserved for it by module 05.
\* Through retries, crashes, denials of later lines and repeated answers, no
\* order counts on a reservation that another one used up, except that
\* requests under one correlation id share one: module 05 answers the second
\* with the reservation of the first.  What the carts, which lower the same
\* counter, leave of a reservation is not this module's to promise.
OrdersStandOnGrants ==
  \A sku \in Skus : Cardinality(Owed(sku)) <= granted[sku]

\* Read through customer and state alone, the orders table behaves like the
\* abstract order book, in which every transition is one atomic move.
Book == [o \in OrderIds |->
           IF orders[o] = NoOrder THEN NoOrder
           ELSE [customer |-> orders[o].customer, state |-> orders[o].state]]

Abstract == INSTANCE OrderBook WITH book <- Book

ImplementsOrderBook == Abstract!Spec
===============================================================================
