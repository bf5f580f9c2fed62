----------------------------- MODULE OrdersProofs -----------------------------
(***************************************************************************)
(* Proofs about Orders for any number of customers, orders, SKUs, calls    *)
(* and keys. Sound gives the shapes of the tables and says that a call     *)
(* which read an order knows its state while the order has the version it  *)
(* read; Told adds that the episodes of an order lead to its row; Keyed    *)
(* adds which call holds the row of a creation's key; Covered counts what  *)
(* orders are owed, what unfinished creations hold and what module 05      *)
(* would answer again, together, against the units it granted.             *)
(***************************************************************************)
EXTENDS Orders, FiniteSetTheorems, TLAPS

Tasks == {Idle} \cup CreateTasks \cup CancelTasks \cup CompleteTasks
           \cup TransitionTasks

\* What a call holds agrees with the operation it is.
Fits(x) ==
  \/ x = Idle
  \/ x \in CreateTasks /\ x.id[2] = "order.create"
  \/ x \in CancelTasks /\ x.id[2] = "order.cancel"
  \/ x \in CompleteTasks
  \/ x \in TransitionTasks /\ OrderEdge(x.seen, x.to)

\* In the table rows, order o exists, and as long as it has version v it is in
\* this state.
Recalls(rows, o, v, state) ==
  /\ rows[o] # NoOrder
  /\ v <= rows[o].version
  /\ v = rows[o].version => rows[o].state = state

\* A call that read an order recalls it rightly.
Knows(rows, x) ==
  /\ x \in CancelTasks => Recalls(rows, x.print.order, x.print.version, x.seen)
  /\ x \in TransitionTasks => Recalls(rows, x.order, x.version, x.seen)

Sound ==
  /\ TypeOK
  /\ \A t \in Calls : Fits(task[t]) /\ Knows(orders, task[t])

-------------------------------------------------------------------------------

LEMMA TaskShapes ==
  ASSUME NEW x, Fits(x)
  PROVE  /\ x = Idle <=> x.pc = "idle"
         /\ x.pc = "acquire" =>
              \/ x \in CreateTasks /\ x.id[2] = "order.create"
              \/ x \in CancelTasks /\ x.id[2] = "order.cancel"
         /\ x.pc = "abandon" => x \in CreateTasks \/ x \in CancelTasks
         /\ x.pc = "create" => x \in CreateTasks /\ x.id[2] = "order.create"
         /\ x.pc = "cancel" => x \in CancelTasks
         /\ x.pc = "complete" => x \in CompleteTasks
         /\ x.pc = "transition" => x \in TransitionTasks /\ OrderEdge(x.seen, x.to)
         /\ x \in CreateTasks \cup CancelTasks \cup CompleteTasks =>
              x.id \in IdemKeys /\ x.print \in Prints
  BY DEF Fits, Idle, CreateTasks, CancelTasks, CompleteTasks, TransitionTasks, Prints

\* A line of a snapshot is a SKU and a quantity.
LEMMA SnapshotLines ==
  ASSUME NEW s \in Snapshots, NEW i \in Nat \ {0}, i <= Len(Lines[s])
  PROVE  Lines[s][i].sku \in Skus /\ Lines[s][i].quantity \in Nat \ {0}
<1> DEFINE L == Lines[s]
           S == [sku : Skus, quantity : Nat \ {0}]
<1>1. L \in Seq(S)
  BY SnapshotAssumption
<1> HIDE DEF L
<1>2. i \in DOMAIN L
  BY <1>1 DEF L
<1> HIDE DEF S
<1>3. L[i] \in S
  BY <1>1, <1>2
<1>4. QED
  BY <1>3 DEF L, S

\* A move the lifecycle accepts is an edge of it, between two states.
LEMMA PermittedMoves ==
  ASSUME NEW from, NEW to, NEW actor, NEW reasonGiven,
         OrderMovePermitted(from, to, actor, reasonGiven)
  PROVE  OrderEdge(from, to) /\ from \in OrderStates /\ to \in OrderStates
  BY DEF OrderMovePermitted, OrderEdge, OrderTransitions, Rule, OrderStates

LEMMA TaskStep ==
  ASSUME Sound, NEW t \in Calls, NEW x, Fits(x), Knows(orders, x),
         task' = [task EXCEPT ![t] = x]
  PROVE  /\ task' \in [Calls -> Tasks]
         /\ \A u \in Calls : Fits(task'[u]) /\ Knows(orders, task'[u])
<1>1. task \in [Calls -> Tasks]
  BY DEF Sound, TypeOK, Tasks
<1>2. x \in Tasks
  BY DEF Fits, Tasks
<1>3. \A u \in Calls : task'[u] = IF u = t THEN x ELSE task[u]
  BY <1>1
<1>4. QED
  BY <1>1, <1>2, <1>3 DEF Sound

LEMMA FinishStep ==
  ASSUME Sound, NEW t \in Calls, Finish(t)
  PROVE  /\ task' \in [Calls -> Tasks]
         /\ \A u \in Calls : Fits(task'[u]) /\ Knows(orders, task'[u])
<1>1. Fits(Idle) /\ Knows(orders, Idle)
  BY DEF Fits, Knows, Idle, CancelTasks, TransitionTasks
<1>2. QED
  BY <1>1, TaskStep DEF Finish

LEMMA CompletingStep ==
  ASSUME Sound, NEW t \in Calls, NEW o \in OrderIds, Completing(t, o),
         task[t] \in CreateTasks \cup CancelTasks
  PROVE  /\ task' \in [Calls -> Tasks]
         /\ \A u \in Calls : Fits(task'[u]) /\ Knows(orders, task'[u])
<1> DEFINE x == [pc |-> "complete", id |-> task[t].id, print |-> task[t].print,
                 result |-> o]
<1>1. task[t].id \in IdemKeys /\ task[t].print \in Prints
  BY DEF CreateTasks, CancelTasks, Prints
<1>2. Fits(x)
  BY <1>1 DEF Fits, CompleteTasks
<1>3. Knows(orders, x)
  BY DEF Knows, CancelTasks, TransitionTasks
<1>4. task' = [task EXCEPT ![t] = x]
  BY DEF Completing
<1>5. QED
  BY <1>2, <1>3, <1>4, TaskStep

LEMMA GotoStep ==
  ASSUME Sound, NEW t \in Calls, NEW step, Goto(t, step),
         \/ /\ task[t] \in CreateTasks /\ task[t].id[2] = "order.create"
            /\ step \in {"create", "abandon"}
         \/ /\ task[t] \in CancelTasks /\ task[t].id[2] = "order.cancel"
            /\ step \in {"cancel", "abandon"}
  PROVE  /\ task' \in [Calls -> Tasks]
         /\ \A u \in Calls : Fits(task'[u]) /\ Knows(orders, task'[u])
<1> DEFINE x == [task[t] EXCEPT !.pc = step]
<1>1. Fits(x)
  BY DEF Fits, CreateTasks, CancelTasks
<1>2. Knows(orders, task[t])
  BY DEF Sound
<1>3. Knows(orders, x)
  <2>1. CASE task[t] \in CreateTasks
    BY <2>1 DEF Knows, CreateTasks, CancelTasks, TransitionTasks
  <2>2. CASE task[t] \in CancelTasks
    <3>1. x.print = task[t].print /\ x.seen = task[t].seen /\ x \notin TransitionTasks
      BY <2>2 DEF CancelTasks, TransitionTasks
    <3>2. QED
      BY <2>2, <3>1, <1>2 DEF Knows
  <2>3. QED
    BY <2>1, <2>2
<1>4. task' = [task EXCEPT ![t] = x]
  BY DEF Goto
<1>5. QED
  BY <1>1, <1>3, <1>4, TaskStep

LEMMA RowStep ==
  ASSUME Sound, NEW id \in IdemKeys, NEW row \in Rows(Calls, Prints, OrderIds),
         record' = [record EXCEPT ![id] = row]
  PROVE  record' \in [IdemKeys -> Rows(Calls, Prints, OrderIds)]
  BY DEF Sound, TypeOK

\* An answer of module 05 is kept under the SKU and the correlation id.
LEMMA AnswerStep ==
  ASSUME Sound, NEW t \in Calls, NEW quantity \in Nat,
         NEW result \in {"RESERVED", "DENIED"}, answers' = Answered(t, quantity, result)
  PROVE  answers' \in [Skus \X Correlations -> Rows({}, Nat, {"RESERVED", "DENIED"})]
<1>1. answers \in [Skus \X Correlations -> Rows({}, Nat, {"RESERVED", "DENIED"})]
  BY DEF Sound, TypeOK
<1>2. Completed(quantity, result) \in Rows({}, Nat, {"RESERVED", "DENIED"})
  BY DEF Completed, Rows
<1>3. QED
  BY <1>1, <1>2 DEF Answered

\* What a step may do to the orders: nothing, place one, or save one.
Grows ==
  \A o \in OrderIds :
    \/ orders'[o] = orders[o]
    \/ orders[o] = NoOrder /\ orders'[o] # NoOrder
    \/ orders'[o] # NoOrder /\ orders'[o].version = orders[o].version + 1

LEMMA StillKnown ==
  ASSUME Sound, Grows, NEW x, Fits(x), Knows(orders, x)
  PROVE  Knows(orders', x)
<1>1. ASSUME NEW o \in OrderIds, NEW v \in Nat, NEW state, Recalls(orders, o, v, state)
      PROVE  Recalls(orders', o, v, state)
  <2>1. orders[o] # NoOrder /\ orders[o].version \in Nat
    BY <1>1 DEF Recalls, Sound, TypeOK, OrderRows
  <2>2. QED
    BY <1>1, <2>1 DEF Recalls, Grows
<1>2. QED
  BY <1>1 DEF Knows, CancelTasks, CancelPrints, TransitionTasks

\* A row with another state and another version is a row.
LEMMA ChangedRow ==
  ASSUME NEW r \in OrderRows, NEW to \in OrderStates, NEW w \in Nat \ {0}
  PROVE  [r EXCEPT !.state = to, !.version = w] \in OrderRows
  BY DEF OrderRows

\* A save of an order that exists.
LEMMA SaveStep ==
  ASSUME Sound, NEW o \in OrderIds, orders[o] # NoOrder, NEW v \in Nat \ {0},
         NEW from \in OrderStates, NEW to \in OrderStates, Save(o, v, from, to)
  PROVE  /\ orders' \in [OrderIds -> {NoOrder} \cup OrderRows]
         /\ transitions' \in [OrderIds -> Seq(Episodes)]
         /\ Grows
         /\ orders'[o] # NoOrder
         /\ orders'[o].customer = orders[o].customer
         /\ orders'[o].key = orders[o].key
         /\ orders'[o].state = to
         /\ orders'[o].version = v + 1
         /\ \A p \in OrderIds \ {o} : orders'[p] = orders[p]
<1>1. /\ orders \in [OrderIds -> {NoOrder} \cup OrderRows]
      /\ transitions \in [OrderIds -> Seq(Episodes)]
  BY DEF Sound, TypeOK
<1>2. orders[o] \in OrderRows /\ orders[o].version = v
  BY <1>1 DEF Save, Savable
<1> DEFINE row == [orders[o] EXCEPT !.state = to, !.version = v + 1]
<1>3. /\ row \in OrderRows
      /\ row.state = to /\ row.version = v + 1
      /\ row.customer = orders[o].customer /\ row.key = orders[o].key
  <2>1. v + 1 \in Nat \ {0}
    OBVIOUS
  <2>2. row \in OrderRows
    BY <1>2, <2>1, ChangedRow
  <2>3. /\ row.state = to /\ row.version = v + 1
        /\ row.customer = orders[o].customer /\ row.key = orders[o].key
    BY <1>2 DEF OrderRows
  <2>4. QED
    BY <2>2, <2>3
<1>4. row # NoOrder
  BY <1>3 DEF NoOrder, OrderStates
<1>5. orders' = [orders EXCEPT ![o] = row]
  BY DEF Save
<1> HIDE DEF row
<1>6. /\ orders' \in [OrderIds -> {NoOrder} \cup OrderRows]
      /\ orders'[o] = row
      /\ \A p \in OrderIds \ {o} : orders'[p] = orders[p]
  BY <1>1, <1>3, <1>5
<1> DEFINE episode == [from |-> from, to |-> to, version |-> v + 1]
<1>7. episode \in Episodes
  BY DEF Episodes
<1>8. transitions' = [transitions EXCEPT ![o] = Append(transitions[o], episode)]
  BY DEF Save
<1> HIDE DEF episode
<1>9. transitions' \in [OrderIds -> Seq(Episodes)]
  <2>1. Append(transitions[o], episode) \in Seq(Episodes)
    BY <1>1, <1>7
  <2>2. QED
    BY <1>1, <1>8, <2>1
<1>10. Grows
  BY <1>2, <1>3, <1>4, <1>6 DEF Grows
<1>11. QED
  BY <1>3, <1>4, <1>6, <1>9, <1>10

-------------------------------------------------------------------------------
(* Sound is kept by every step.                                               *)

\* Every table keeps its shape and every call what it knew: Sound again.
LEMMA SoundKept ==
  ASSUME Sound, Grows,
         orders' \in [OrderIds -> {NoOrder} \cup OrderRows],
         transitions' \in [OrderIds -> Seq(Episodes)],
         granted' \in [Skus -> Nat],
         answers' \in [Skus \X Correlations -> Rows({}, Nat, {"RESERVED", "DENIED"})],
         record' \in [IdemKeys -> Rows(Calls, Prints, OrderIds)],
         task' \in [Calls -> Tasks],
         \A u \in Calls : Fits(task'[u]) /\ Knows(orders, task'[u])
  PROVE  Sound'
<1>1. ASSUME NEW u \in Calls PROVE Knows(orders', task'[u])
  <2>1. PICK x : x = task'[u]
    OBVIOUS
  <2>2. Fits(x) /\ Knows(orders, x)
    BY <2>1
  <2>3. Knows(orders', x)
    BY <2>2, StillKnown
  <2>4. QED
    BY <2>1, <2>3
<1>2. TypeOK'
  BY DEF TypeOK, Tasks
<1>3. QED
  BY <1>1, <1>2 DEF Sound

\* No order changes: nothing grows.
LEMMA SameOrders ==
  ASSUME UNCHANGED orders
  PROVE  Grows
  BY DEF Grows

LEMMA SoundInit ==
  ASSUME Init
  PROVE  Sound
<1>2. TypeOK
  <2>1. orders \in [OrderIds -> {NoOrder} \cup OrderRows]
    BY DEF Init
  <2>2. transitions \in [OrderIds -> Seq(Episodes)]
    <3>1. <<>> \in Seq(Episodes)
      OBVIOUS
    <3>2. QED
      BY <3>1 DEF Init
  <2>3. granted \in [Skus -> Nat]
    BY DEF Init
  <2>4. answers \in [Skus \X Correlations -> Rows({}, Nat, {"RESERVED", "DENIED"})]
    BY DEF Init, Rows
  <2>5. record \in [IdemKeys -> Rows(Calls, Prints, OrderIds)]
    BY DEF Init, Rows
  <2>6. task \in [Calls -> {Idle}]
    BY DEF Init
  <2>7. QED
    BY <2>1, <2>2, <2>3, <2>4, <2>5, <2>6 DEF TypeOK
<1>3. \A t \in Calls : Fits(task[t]) /\ Knows(orders, task[t])
  <2>1. \A t \in Calls : task[t] = Idle
    BY DEF Init
  <2>2. Fits(Idle) /\ Knows(orders, Idle)
    BY DEF Fits, Knows, Idle, CancelTasks, TransitionTasks
  <2>3. QED
    BY <2>1, <2>2
<1>4. QED
  BY <1>2, <1>3 DEF Sound

\* A step that changes only what a call does.
LEMMA OnlyTask ==
  ASSUME Sound, UNCHANGED <<orders, transitions, granted, answers, record>>,
         task' \in [Calls -> Tasks],
         \A u \in Calls : Fits(task'[u]) /\ Knows(orders, task'[u])
  PROVE  Sound'
  BY SoundKept, SameOrders DEF Sound, TypeOK

LEMMA SoundCreateOrder ==
  ASSUME Sound, NEW t \in Calls, NEW c \in Customers, NEW s \in Snapshots,
         NEW k \in Keys, NEW correlation \in Supplied,
         CreateOrder(t, c, s, k, correlation)
  PROVE  Sound'
<1> DEFINE x == [pc |-> "acquire", id |-> <<c, "order.create", k>>,
                 print |-> [snapshot |-> s, correlation |-> correlation], line |-> 1]
<1>1. x \in CreateTasks /\ x.id[2] = "order.create"
  BY DEF CreateTasks, CreatePrints, IdemKeys
<1>2. Fits(x) /\ Knows(orders, x)
  BY <1>1 DEF Fits, Knows, CancelTasks, TransitionTasks
<1>3. task' = [task EXCEPT ![t] = x]
  BY DEF CreateOrder
<1>4. QED
  BY <1>2, <1>3, TaskStep, OnlyTask DEF CreateOrder

LEMMA SoundCancelOrder ==
  ASSUME Sound, NEW t \in Calls, NEW c \in Customers, NEW o \in OrderIds,
         NEW k \in Keys, CancelOrder(t, c, o, k)
  PROVE  Sound'
<1> DEFINE x == [pc |-> "acquire", id |-> <<c, "order.cancel", k>>,
                 print |-> [order |-> o, version |-> orders[o].version],
                 seen |-> orders[o].state]
<1>1. orders[o] \in OrderRows
  BY DEF CancelOrder, Sound, TypeOK
<1>2. orders[o].version \in Nat \ {0} /\ orders[o].state \in OrderStates
  BY <1>1 DEF OrderRows
<1>3. x \in CancelTasks /\ x.id[2] = "order.cancel"
  BY <1>2 DEF CancelTasks, CancelPrints, IdemKeys
<1>4. Fits(x)
  BY <1>3 DEF Fits
<1>5. Recalls(orders, o, orders[o].version, orders[o].state)
  BY <1>2 DEF Recalls, CancelOrder
<1>6. Knows(orders, x)
  BY <1>5 DEF Knows, TransitionTasks
<1>7. task' = [task EXCEPT ![t] = x]
  BY DEF CancelOrder
<1>8. QED
  BY <1>4, <1>6, <1>7, TaskStep, OnlyTask DEF CancelOrder

LEMMA SoundTransitionOrder ==
  ASSUME Sound, NEW t \in Calls, NEW o \in OrderIds, NEW to \in OrderStates,
         NEW actor, NEW reasonGiven,
         TransitionOrder(t, o, to, actor, reasonGiven)
  PROVE  Sound'
<1> DEFINE x == [pc |-> "transition", order |-> o, seen |-> orders[o].state,
                 version |-> orders[o].version, to |-> to]
<1>1. orders[o] \in OrderRows
  BY DEF TransitionOrder, Sound, TypeOK
<1>2. orders[o].version \in Nat \ {0} /\ orders[o].state \in OrderStates
  BY <1>1 DEF OrderRows
<1>3. OrderEdge(orders[o].state, to)
  BY PermittedMoves DEF TransitionOrder
<1>4. x \in TransitionTasks /\ OrderEdge(x.seen, x.to)
  BY <1>2, <1>3 DEF TransitionTasks
<1>5. Fits(x)
  BY <1>4 DEF Fits
<1>6. Recalls(orders, o, orders[o].version, orders[o].state)
  BY <1>2 DEF Recalls, TransitionOrder
<1>7. Knows(orders, x)
  BY <1>6 DEF Knows, CancelTasks
<1>8. task' = [task EXCEPT ![t] = x]
  BY DEF TransitionOrder
<1>9. QED
  BY <1>5, <1>7, <1>8, TaskStep, OnlyTask DEF TransitionOrder

LEMMA SoundAcquire ==
  ASSUME Sound, NEW t \in Calls, Acquire(t)
  PROVE  Sound'
<1>1. \/ task[t] \in CreateTasks /\ task[t].id[2] = "order.create"
      \/ task[t] \in CancelTasks /\ task[t].id[2] = "order.cancel"
  <2>1. Fits(task[t]) /\ task[t].pc = "acquire"
    BY DEF Acquire, Sound
  <2>2. QED
    BY <2>1, TaskShapes
<1>2. task[t].id \in IdemKeys /\ task[t].print \in Prints
  BY <1>1 DEF CreateTasks, CancelTasks, Prints
<1>3. CASE /\ record' = [record EXCEPT ![task[t].id] = Processing(t, task[t].print)]
           /\ Goto(t, IF task[t].id[2] = "order.create" THEN "create" ELSE "cancel")
  <2>1. /\ task' \in [Calls -> Tasks]
        /\ \A u \in Calls : Fits(task'[u]) /\ Knows(orders, task'[u])
    <3>1. CASE task[t] \in CreateTasks /\ task[t].id[2] = "order.create"
      <4>1. Goto(t, "create")
        BY <1>3, <3>1
      <4>2. QED
        BY <3>1, <4>1, GotoStep
    <3>2. CASE task[t] \in CancelTasks /\ task[t].id[2] = "order.cancel"
      <4>1. Goto(t, "cancel")
        BY <1>3, <3>2
      <4>2. QED
        BY <3>2, <4>1, GotoStep
    <3>3. QED
      BY <1>1, <3>1, <3>2
  <2>2. Processing(t, task[t].print) \in Rows(Calls, Prints, OrderIds)
    BY <1>2 DEF Processing, Rows
  <2>3. record' \in [IdemKeys -> Rows(Calls, Prints, OrderIds)]
    BY <1>2, <1>3, <2>2 DEF Sound, TypeOK
  <2>4. QED
    BY <2>1, <2>3, SoundKept, SameOrders DEF Acquire, Sound, TypeOK
<1>4. CASE Finish(t) /\ UNCHANGED record
  BY <1>4, FinishStep, OnlyTask DEF Acquire
<1>5. QED
  BY <1>3, <1>4 DEF Acquire

LEMMA SoundReserveLine ==
  ASSUME Sound, NEW t \in Calls, ReserveLine(t)
  PROVE  Sound'
<1>1. Fits(task[t]) /\ task[t].pc = "create"
  BY DEF ReserveLine, Sound
<1>2. task[t] \in CreateTasks /\ task[t].id[2] = "order.create"
  BY <1>1, TaskShapes
<1>3. task[t].print.snapshot \in Snapshots /\ task[t].line \in Nat \ {0}
  BY <1>2 DEF CreateTasks, CreatePrints
<1>4. PICK line : line = Lines[task[t].print.snapshot][task[t].line]
  OBVIOUS
<1>5. line.sku \in Skus /\ line.quantity \in Nat \ {0}
  <2>1. task[t].line <= Len(Lines[task[t].print.snapshot])
    BY ZenonT(60) DEF ReserveLine
  <2>2. QED
    BY <1>3, <1>4, <2>1, SnapshotLines
<1>6. /\ granted' \in [Skus -> Nat]
      /\ answers' \in [Skus \X Correlations -> Rows({}, Nat, {"RESERVED", "DENIED"})]
  <2>1. CASE /\ granted' = [granted EXCEPT ![line.sku] = @ + line.quantity]
             /\ answers' = Answered(t, line.quantity, "RESERVED")
    <3>1. granted' \in [Skus -> Nat]
      BY <1>5, <2>1 DEF Sound, TypeOK
    <3>2. answers' \in [Skus \X Correlations -> Rows({}, Nat, {"RESERVED", "DENIED"})]
      BY <1>5, <2>1, AnswerStep
    <3>3. QED
      BY <3>1, <3>2
  <2>2. CASE UNCHANGED <<granted, answers>>
    BY <2>2 DEF Sound, TypeOK
  <2>3. QED
    BY <1>4, <2>1, <2>2 DEF ReserveLine
<1>7. /\ task' \in [Calls -> Tasks]
      /\ \A u \in Calls : Fits(task'[u]) /\ Knows(orders, task'[u])
  <2>1. PICK n : n = task[t].line + 1
    OBVIOUS
  <2>2. n \in Nat \ {0}
    BY <1>3, <2>1
  <2> DEFINE x == [task[t] EXCEPT !.line = n]
  <2>3. x \in CreateTasks /\ x.id[2] = "order.create"
    BY <1>2, <2>2 DEF CreateTasks
  <2>4. Fits(x) /\ Knows(orders, x)
    BY <2>3 DEF Fits, Knows, CreateTasks, CancelTasks, TransitionTasks
  <2>5. task' = [task EXCEPT ![t] = x]
    BY <2>1 DEF ReserveLine
  <2>6. QED
    BY <2>4, <2>5, TaskStep
<1>8. QED
  BY <1>6, <1>7, SoundKept, SameOrders, ZenonT(60) DEF ReserveLine, Sound, TypeOK

LEMMA SoundRefuseLine ==
  ASSUME Sound, NEW t \in Calls, RefuseLine(t)
  PROVE  Sound'
<1>1. Fits(task[t]) /\ task[t].pc = "create"
  BY DEF RefuseLine, Sound
<1>2. task[t] \in CreateTasks /\ task[t].id[2] = "order.create"
  BY <1>1, TaskShapes
<1>3. task[t].print.snapshot \in Snapshots /\ task[t].line \in Nat \ {0}
  BY <1>2 DEF CreateTasks, CreatePrints
<1>4. PICK line : line = Lines[task[t].print.snapshot][task[t].line]
  OBVIOUS
<1>5. line.quantity \in Nat
  <2>1. task[t].line <= Len(Lines[task[t].print.snapshot])
    BY DEF RefuseLine
  <2>2. QED
    BY <1>3, <1>4, <2>1, SnapshotLines
<1>6. answers' \in [Skus \X Correlations -> Rows({}, Nat, {"RESERVED", "DENIED"})]
  <2>1. CASE UNCHANGED answers
    BY <2>1 DEF Sound, TypeOK
  <2>2. CASE answers' = Answered(t, line.quantity, "DENIED")
    BY <1>5, <2>2, AnswerStep
  <2>3. QED
    BY <1>4, <2>1, <2>2 DEF RefuseLine
<1>7. /\ task' \in [Calls -> Tasks]
      /\ \A u \in Calls : Fits(task'[u]) /\ Knows(orders, task'[u])
  BY <1>2, GotoStep DEF RefuseLine
<1>8. QED
  BY <1>6, <1>7, SoundKept, SameOrders DEF RefuseLine, Sound, TypeOK

\* The row a creation inserts.
PlacedRow(x) ==
  [customer |-> x.id[1], snapshot |-> x.print.snapshot, key |-> x.id[3],
   correlation |-> x.print.correlation, state |-> "PENDING", version |-> 1]

LEMMA PlacedRowType ==
  ASSUME NEW x \in CreateTasks
  PROVE  PlacedRow(x) \in OrderRows /\ PlacedRow(x) # NoOrder
<1>1. /\ x.id[1] \in Customers /\ x.id[3] \in Keys
      /\ x.print.snapshot \in Snapshots /\ x.print.correlation \in Supplied
  BY DEF CreateTasks, CreatePrints, IdemKeys
<1>2. PlacedRow(x) \in OrderRows
  BY <1>1 DEF PlacedRow, OrderRows, OrderStates
<1>3. PlacedRow(x).state # NoOrder.state
  BY DEF PlacedRow, NoOrder
<1>4. QED
  BY <1>2, <1>3

LEMMA SoundInsertOrder ==
  ASSUME Sound, NEW t \in Calls, InsertOrder(t)
  PROVE  Sound'
<1>1. Fits(task[t]) /\ task[t].pc = "create"
  BY DEF InsertOrder, Sound
<1>2. task[t] \in CreateTasks /\ task[t].id[2] = "order.create"
  BY <1>1, TaskShapes
<1>3. CASE Goto(t, "abandon") /\ UNCHANGED orders
  <2>1. /\ task' \in [Calls -> Tasks]
        /\ \A u \in Calls : Fits(task'[u]) /\ Knows(orders, task'[u])
    BY <1>2, <1>3, GotoStep
  <2>2. QED
    BY <1>3, <2>1, OnlyTask DEF InsertOrder
<1>4. ASSUME NEW o \in OrderIds, orders[o] = NoOrder,
             orders' = [orders EXCEPT ![o] = PlacedRow(task[t])],
             Completing(t, o)
      PROVE  Sound'
  <2>1. PlacedRow(task[t]) \in OrderRows /\ PlacedRow(task[t]) # NoOrder
    BY <1>2, PlacedRowType
  <2>2. orders' \in [OrderIds -> {NoOrder} \cup OrderRows]
    BY <1>4, <2>1 DEF Sound, TypeOK
  <2>3. Grows
    BY <1>4, <2>1 DEF Grows, Sound, TypeOK
  <2>4. /\ task' \in [Calls -> Tasks]
        /\ \A u \in Calls : Fits(task'[u]) /\ Knows(orders, task'[u])
    BY <1>2, <1>4, CompletingStep
  <2>5. QED
    BY <2>2, <2>3, <2>4, SoundKept DEF InsertOrder, Sound, TypeOK
<1>5. QED
  BY <1>3, <1>4 DEF InsertOrder, PlacedRow

LEMMA SoundSaveTransition ==
  ASSUME Sound, NEW t \in Calls, SaveTransition(t)
  PROVE  Sound'
<1>1. Fits(task[t]) /\ Knows(orders, task[t]) /\ task[t].pc = "transition"
  BY DEF SaveTransition, Sound
<1>2. task[t] \in TransitionTasks
  BY <1>1, TaskShapes
<1>3. /\ task' \in [Calls -> Tasks]
      /\ \A u \in Calls : Fits(task'[u]) /\ Knows(orders, task'[u])
  BY FinishStep DEF SaveTransition
<1>4. CASE UNCHANGED <<orders, transitions>>
  BY <1>3, <1>4, OnlyTask DEF SaveTransition
<1>5. CASE Save(task[t].order, task[t].version, task[t].seen, task[t].to)
  <2>1. PICK o \in OrderIds, v \in Nat \ {0}, from \in OrderStates, to \in OrderStates :
          /\ o = task[t].order /\ v = task[t].version
          /\ from = task[t].seen /\ to = task[t].to
    BY <1>2 DEF TransitionTasks
  <2>2. orders[o] # NoOrder
    BY <1>1, <1>2, <2>1 DEF Knows, Recalls
  <2>3. Save(o, v, from, to)
    BY <1>5, <2>1
  <2>4. /\ orders' \in [OrderIds -> {NoOrder} \cup OrderRows]
        /\ transitions' \in [OrderIds -> Seq(Episodes)]
        /\ Grows
    BY <2>2, <2>3, SaveStep
  <2>5. QED
    BY <1>3, <2>4, SoundKept DEF SaveTransition, Sound, TypeOK
<1>6. QED
  BY <1>4, <1>5 DEF SaveTransition

LEMMA SoundSaveCancel ==
  ASSUME Sound, NEW t \in Calls, SaveCancel(t)
  PROVE  Sound'
<1>1. Fits(task[t]) /\ Knows(orders, task[t]) /\ task[t].pc = "cancel"
  BY DEF SaveCancel, Sound
<1>2. task[t] \in CancelTasks
  BY <1>1, TaskShapes
<1>3. CASE Goto(t, "abandon") /\ UNCHANGED <<orders, transitions>>
  <2>1. task[t].id[2] = "order.cancel"
    BY <1>1, <1>2 DEF Fits, Idle, CreateTasks, CancelTasks, CompleteTasks, TransitionTasks
  <2>2. /\ task' \in [Calls -> Tasks]
        /\ \A u \in Calls : Fits(task'[u]) /\ Knows(orders, task'[u])
    BY <1>2, <1>3, <2>1, GotoStep
  <2>3. QED
    BY <1>3, <2>2, OnlyTask DEF SaveCancel
<1>4. CASE /\ Save(task[t].print.order, task[t].print.version, task[t].seen, "CANCELLED")
           /\ Completing(t, task[t].print.order)
  <2>1. PICK o \in OrderIds, v \in Nat \ {0}, from \in OrderStates :
          /\ o = task[t].print.order /\ v = task[t].print.version
          /\ from = task[t].seen
    BY <1>2 DEF CancelTasks, CancelPrints
  <2>2. orders[o] # NoOrder
    BY <1>1, <1>2, <2>1 DEF Knows, Recalls
  <2>3. Save(o, v, from, "CANCELLED") /\ Completing(t, o)
    BY <1>4, <2>1
  <2>4. "CANCELLED" \in OrderStates
    BY DEF OrderStates
  <2>5. /\ orders' \in [OrderIds -> {NoOrder} \cup OrderRows]
        /\ transitions' \in [OrderIds -> Seq(Episodes)]
        /\ Grows
    BY <2>2, <2>3, <2>4, SaveStep
  <2>6. /\ task' \in [Calls -> Tasks]
        /\ \A u \in Calls : Fits(task'[u]) /\ Knows(orders, task'[u])
    BY <1>2, <2>3, CompletingStep
  <2>7. QED
    BY <2>5, <2>6, SoundKept DEF SaveCancel, Sound, TypeOK
<1>5. QED
  BY <1>3, <1>4 DEF SaveCancel

LEMMA SoundEnd ==
  ASSUME Sound, NEW t \in Calls, Abandon(t) \/ Complete(t) \/ Drop(t)
  PROVE  Sound'
<1>1. /\ task' \in [Calls -> Tasks]
      /\ \A u \in Calls : Fits(task'[u]) /\ Knows(orders, task'[u])
  BY FinishStep DEF Abandon, Complete, Drop
<1>2. record' \in [IdemKeys -> Rows(Calls, Prints, OrderIds)]
  <2>1. CASE Abandon(t)
    BY <2>1 DEF Abandon, Sound, TypeOK, Rows
  <2>2. CASE Complete(t)
    <3>1. Fits(task[t]) /\ task[t].pc = "complete"
      BY <2>2 DEF Complete, Sound
    <3>2. task[t] \in CompleteTasks
      BY <3>1, TaskShapes
    <3>3. Completed(task[t].print, task[t].result) \in Rows(Calls, Prints, OrderIds)
      BY <3>2 DEF CompleteTasks, Completed, Rows
    <3>4. QED
      BY <2>2, <3>3 DEF Complete, Sound, TypeOK
  <2>3. CASE Drop(t)
    BY <2>3 DEF Drop, Sound, TypeOK
  <2>4. QED
    BY <2>1, <2>2, <2>3
<1>3. UNCHANGED <<orders, transitions, granted, answers>>
  BY DEF Abandon, Complete, Drop
<1>4. QED
  BY <1>1, <1>2, <1>3, SoundKept, SameOrders DEF Sound, TypeOK

\* A reservation for another caller.
Elsewhere ==
  \E s \in Snapshots, correlation \in Correlations :
    \E i \in DOMAIN Lines[s] : ReservedElsewhere(Lines[s][i], correlation)

\* It grants some units under a correlation id, and touches nothing else.
LEMMA ElsewhereSteps ==
  ASSUME Elsewhere
  PROVE  \E bought \in Skus, r \in Correlations, q \in Nat :
           /\ answers' = [answers EXCEPT ![<<bought, r>>] = Completed(q, "RESERVED")]
           /\ granted' = [granted EXCEPT ![bought] = granted[bought] + q]
           /\ UNCHANGED <<orders, transitions, record, task>>
<1>1. PICK s \in Snapshots, r \in Correlations :
        \E i \in DOMAIN Lines[s] : ReservedElsewhere(Lines[s][i], r)
  BY DEF Elsewhere
<1>2. PICK i \in DOMAIN Lines[s] : ReservedElsewhere(Lines[s][i], r)
  BY <1>1
<1>3. i \in Nat \ {0} /\ i <= Len(Lines[s])
  <2>1. Lines[s] \in Seq([sku : Skus, quantity : Nat \ {0}])
    BY SnapshotAssumption
  <2>2. PICK L : L = Lines[s] /\ L \in Seq([sku : Skus, quantity : Nat \ {0}])
    BY <2>1
  <2>3. QED
    BY <1>2, <2>2
<1>4. PICK bought \in Skus, q \in Nat : bought = Lines[s][i].sku /\ q = Lines[s][i].quantity
  BY <1>3, SnapshotLines
<1>5. QED
  BY <1>2, <1>4 DEF ReservedElsewhere

LEMMA SoundElsewhere ==
  ASSUME Sound, Elsewhere
  PROVE  Sound'
<1>1. PICK bought \in Skus, r \in Correlations, q \in Nat :
        /\ answers' = [answers EXCEPT ![<<bought, r>>] = Completed(q, "RESERVED")]
        /\ granted' = [granted EXCEPT ![bought] = granted[bought] + q]
        /\ UNCHANGED <<orders, transitions, record, task>>
  BY ElsewhereSteps
<1>2. Completed(q, "RESERVED") \in Rows({}, Nat, {"RESERVED", "DENIED"})
  BY DEF Completed, Rows
<1>3. /\ answers' \in [Skus \X Correlations -> Rows({}, Nat, {"RESERVED", "DENIED"})]
      /\ granted' \in [Skus -> Nat]
  BY <1>1, <1>2 DEF Sound, TypeOK
<1>4. QED
  BY <1>1, <1>3, SoundKept, SameOrders DEF Sound, TypeOK, Tasks

LEMMA SoundNext ==
  ASSUME Sound, [Next]_vars
  PROVE  Sound'
<1>1. CASE UNCHANGED vars
  <2>1. Grows
    BY <1>1, SameOrders DEF vars
  <2>2. QED
    BY <1>1, <2>1, SoundKept DEF Sound, TypeOK, Tasks, vars
<1>2. CASE Next
  <2> SUFFICES ASSUME ~Elsewhere PROVE Sound'
    BY SoundElsewhere
  <2>1. PICK t \in Calls :
          \/ \E c \in Customers, s \in Snapshots, k \in Keys,
                correlation \in Supplied :
               CreateOrder(t, c, s, k, correlation)
          \/ \E c \in Customers, o \in OrderIds, k \in Keys : CancelOrder(t, c, o, k)
          \/ \E o \in OrderIds, to \in OrderStates, actor \in {"SYSTEM", "ADMIN"},
                reasonGiven \in BOOLEAN : TransitionOrder(t, o, to, actor, reasonGiven)
          \/ Acquire(t) \/ ReserveLine(t) \/ RefuseLine(t) \/ InsertOrder(t)
          \/ SaveTransition(t) \/ SaveCancel(t)
          \/ (Abandon(t) \/ Complete(t) \/ Drop(t))
    BY <1>2 DEF Next, Elsewhere
  <2>2. QED
    BY <2>1, SoundCreateOrder, SoundCancelOrder, SoundTransitionOrder, SoundAcquire,
       SoundReserveLine, SoundRefuseLine, SoundInsertOrder, SoundSaveTransition,
       SoundSaveCancel, SoundEnd
<1>3. QED
  BY <1>1, <1>2

\* Every table and every call keeps its shape in every behaviour: TypeOK.
THEOREM TypeCorrect == Spec => []TypeOK
<1>1. Init => Sound
  BY SoundInit
<1>2. Sound /\ [Next]_vars => Sound'
  BY SoundNext
<1>3. Sound => TypeOK
  BY DEF Sound
<1>4. QED
  BY <1>1, <1>2, <1>3, PTL DEF Spec

-------------------------------------------------------------------------------
(* What a step does to the orders.                                            *)

Placed(t, o) ==
  /\ task[t] \in CreateTasks
  /\ task[t].pc = "create"
  /\ SlotFree(task[t].id[1], "PENDING")
  /\ orders[o] = NoOrder
  /\ orders' = [orders EXCEPT ![o] = PlacedRow(task[t])]
  /\ Completing(t, o)
  /\ UNCHANGED <<transitions, record>>

\* The save of a call that recalled the order's state and checked the move.
Saved(o, from, to) ==
  /\ orders[o] # NoOrder
  /\ orders[o].state = from
  /\ OrderEdge(from, to)
  /\ Save(o, orders[o].version, from, to)

LEMMA SavedByTransition ==
  ASSUME Sound, NEW t \in Calls, SaveTransition(t), ~UNCHANGED <<orders, transitions>>
  PROVE  \E o \in OrderIds, from \in OrderStates, to \in OrderStates : Saved(o, from, to)
<1>1. Fits(task[t]) /\ Knows(orders, task[t]) /\ task[t].pc = "transition"
  BY DEF SaveTransition, Sound
<1>2. task[t] \in TransitionTasks /\ OrderEdge(task[t].seen, task[t].to)
  BY <1>1, TaskShapes
<1>3. Save(task[t].order, task[t].version, task[t].seen, task[t].to)
  BY DEF SaveTransition
<1>4. PICK o \in OrderIds, v \in Nat \ {0}, from \in OrderStates, to \in OrderStates :
        /\ o = task[t].order /\ v = task[t].version
        /\ from = task[t].seen /\ to = task[t].to
  BY <1>2 DEF TransitionTasks
<1>5. Save(o, v, from, to) /\ OrderEdge(from, to)
  BY <1>2, <1>3, <1>4
<1>6. Recalls(orders, o, v, from)
  BY <1>1, <1>2, <1>4 DEF Knows
<1>7. orders[o] # NoOrder /\ orders[o].state = from /\ v = orders[o].version
  BY <1>5, <1>6 DEF Recalls, Save, Savable
<1>8. Save(o, orders[o].version, from, to)
  BY <1>5, <1>7 DEF Save, Savable
<1>9. QED
  BY <1>5, <1>7, <1>8 DEF Saved

LEMMA SavedByCancel ==
  ASSUME Sound, NEW t \in Calls, SaveCancel(t), ~UNCHANGED <<orders, transitions>>
  PROVE  \E o \in OrderIds, from \in OrderStates, to \in OrderStates : Saved(o, from, to)
<1>1. Fits(task[t]) /\ Knows(orders, task[t]) /\ task[t].pc = "cancel"
  BY DEF SaveCancel, Sound
<1>2. task[t] \in CancelTasks
  BY <1>1, TaskShapes
<1>3. /\ OrderMovePermitted(task[t].seen, "CANCELLED", "CUSTOMER", TRUE)
      /\ Save(task[t].print.order, task[t].print.version, task[t].seen, "CANCELLED")
  BY DEF SaveCancel
<1>4. PICK o \in OrderIds, v \in Nat \ {0}, from \in OrderStates :
        /\ o = task[t].print.order /\ v = task[t].print.version
        /\ from = task[t].seen
  BY <1>2 DEF CancelTasks, CancelPrints
<1>5. Save(o, v, from, "CANCELLED") /\ OrderEdge(from, "CANCELLED")
  BY <1>3, <1>4, PermittedMoves
<1>6. Recalls(orders, o, v, from)
  BY <1>1, <1>2, <1>4 DEF Knows
<1>7. orders[o] # NoOrder /\ orders[o].state = from /\ v = orders[o].version
  BY <1>5, <1>6 DEF Recalls, Save, Savable
<1>8. Save(o, orders[o].version, from, "CANCELLED")
  BY <1>5, <1>7 DEF Save, Savable
<1>9. Saved(o, from, "CANCELLED")
  BY <1>5, <1>7, <1>8 DEF Saved
<1>10. QED
  BY <1>9 DEF OrderStates

\* Every step leaves the orders alone, places one, or saves one as read.
LEMMA OrderSteps ==
  ASSUME Sound, [Next]_vars
  PROVE  \/ UNCHANGED <<orders, transitions>>
         \/ \E t \in Calls, o \in OrderIds : Placed(t, o)
         \/ \E o \in OrderIds, from \in OrderStates, to \in OrderStates : Saved(o, from, to)
<1>1. CASE UNCHANGED vars
  BY <1>1 DEF vars
<1>2. ASSUME NEW t \in Calls, InsertOrder(t), ~UNCHANGED <<orders, transitions>>
      PROVE  \E o \in OrderIds : Placed(t, o)
  <2>1. Fits(task[t]) /\ task[t].pc = "create"
    BY <1>2 DEF InsertOrder, Sound
  <2>2. task[t] \in CreateTasks
    BY <2>1, TaskShapes
  <2>3. SlotFree(task[t].id[1], "PENDING")
    BY <1>2 DEF InsertOrder
  <2>4. QED
    BY <1>2, <2>1, <2>2, <2>3 DEF InsertOrder, Placed, PlacedRow
<1>3. ASSUME NEW t \in Calls, SaveTransition(t) \/ SaveCancel(t),
             ~UNCHANGED <<orders, transitions>>
      PROVE  \E o \in OrderIds, from \in OrderStates, to \in OrderStates : Saved(o, from,
      to)
  BY <1>3, SavedByTransition, SavedByCancel
<1>4. CASE Next
  <2> SUFFICES ASSUME ~Elsewhere
               PROVE  \/ UNCHANGED <<orders, transitions>>
                      \/ \E t \in Calls, o \in OrderIds : Placed(t, o)
                      \/ \E o \in OrderIds, from \in OrderStates, to \in OrderStates :
                           Saved(o, from, to)
    BY ElsewhereSteps
  <2>1. PICK t \in Calls :
          \/ InsertOrder(t) \/ SaveTransition(t) \/ SaveCancel(t)
          \/ UNCHANGED <<orders, transitions>>
    BY <1>4 DEF Next, Elsewhere, CreateOrder, CancelOrder, TransitionOrder, Acquire,
                ReserveLine, RefuseLine, Abandon, Complete, Drop
  <2>2. QED
    BY <2>1, <1>2, <1>3
<1>5. QED
  BY <1>1, <1>4

-------------------------------------------------------------------------------
(* The episodes of an order.                                                  *)

\* The path leads from PENDING to the row's state, one edge after the other,
\* and the row's version counts its steps.
Tells(path, row) ==
  /\ row.version = Len(path) + 1
  /\ row.state = IF Len(path) = 0 THEN "PENDING" ELSE path[Len(path)].to
  /\ \A i \in 1..Len(path) :
       /\ OrderEdge(path[i].from, path[i].to)
       /\ path[i].from = IF i = 1 THEN "PENDING" ELSE path[i-1].to
       /\ path[i].version = i + 1

Told ==
  \A o \in OrderIds :
    IF orders[o] = NoOrder THEN transitions[o] = <<>>
    ELSE Tells(transitions[o], orders[o])

LEMMA TellsOn ==
  ASSUME NEW path \in Seq(Episodes), NEW row, NEW next, Tells(path, row),
         NEW to, OrderEdge(row.state, to),
         next.state = to, next.version = row.version + 1
  PROVE  Tells(Append(path, [from |-> row.state, to |-> to, version |-> row.version + 1]),
               next)
<1> DEFINE episode == [from |-> row.state, to |-> to, version |-> row.version + 1]
           n == Len(path)
           longer == Append(path, episode)
<1>1. /\ n \in Nat
      /\ Len(longer) = n + 1
      /\ longer[n + 1] = episode
      /\ \A i \in 1..n : longer[i] = path[i]
  OBVIOUS
<1>2. /\ episode.from = row.state /\ episode.to = to
      /\ episode.version = row.version + 1
  OBVIOUS
<1>3. row.version = n + 1
  BY DEF Tells
<1> HIDE DEF episode, longer, n
<1>4. next.version = Len(longer) + 1 /\ next.state = longer[Len(longer)].to
  BY <1>1, <1>2, <1>3
<1>5. ASSUME NEW i \in 1..Len(longer)
      PROVE  /\ OrderEdge(longer[i].from, longer[i].to)
             /\ longer[i].from = IF i = 1 THEN "PENDING" ELSE longer[i-1].to
             /\ longer[i].version = i + 1
  <2>1. CASE i = n + 1
    <3>1. longer[i].from = row.state /\ longer[i].to = to /\ longer[i].version = i + 1
      BY <1>1, <1>2, <1>3, <2>1
    <3>2. row.state = IF i = 1 THEN "PENDING" ELSE longer[i-1].to
      <4>1. row.state = IF n = 0 THEN "PENDING" ELSE path[n].to
        BY DEF Tells, n
      <4>2. i = 1 <=> n = 0
        BY <1>1, <2>1
      <4>3. n # 0 => longer[i-1] = path[n]
        BY <1>1, <2>1
      <4>4. QED
        BY <4>1, <4>2, <4>3
    <3>3. QED
      BY <3>1, <3>2
  <2>2. CASE i # n + 1
    <3>1. i \in 1..n
      BY <1>1, <2>2
    <3>2. /\ OrderEdge(path[i].from, path[i].to)
          /\ path[i].from = IF i = 1 THEN "PENDING" ELSE path[i-1].to
          /\ path[i].version = i + 1
      BY <3>1 DEF Tells, n
    <3>3. longer[i] = path[i] /\ (i # 1 => longer[i-1] = path[i-1])
      BY <1>1, <3>1
    <3>4. QED
      BY <3>2, <3>3
  <2>3. QED
    BY <2>1, <2>2
<1>6. Len(longer) # 0
  BY <1>1
<1>7. QED
  BY <1>4, <1>5, <1>6 DEF Tells, longer, episode

LEMMA ToldNext ==
  ASSUME Sound, Told, [Next]_vars
  PROVE  Told'
<1>1. CASE UNCHANGED <<orders, transitions>>
  BY <1>1 DEF Told
<1>2. ASSUME NEW t \in Calls, NEW o \in OrderIds, Placed(t, o)
      PROVE  Told'
  <2>1. orders' = [orders EXCEPT ![o] = PlacedRow(task[t])] /\ transitions' = transitions
    BY <1>2 DEF Placed
  <2>2. PICK row : row = PlacedRow(task[t])
    OBVIOUS
  <2>3. row # NoOrder
    BY <1>2, <2>2, PlacedRowType DEF Placed
  <2>4. row.version = 1 /\ row.state = "PENDING"
    BY <2>2 DEF PlacedRow
  <2>5. Tells(<<>>, row)
    BY <2>4 DEF Tells
  <2>6. transitions[o] = <<>>
    BY <1>2 DEF Told, Placed
  <2>7. orders \in [OrderIds -> {NoOrder} \cup OrderRows]
    BY DEF Sound, TypeOK
  <2>8. orders'[o] = row /\ \A p \in OrderIds \ {o} : orders'[p] = orders[p]
    BY <2>1, <2>2, <2>7
  <2>9. QED
    BY <2>1, <2>3, <2>5, <2>6, <2>8 DEF Told
<1>3. ASSUME NEW o \in OrderIds, NEW from \in OrderStates, NEW to \in OrderStates,
             Saved(o, from, to)
      PROVE  Told'
  <2>1. PICK row, path : row = orders[o] /\ path = transitions[o]
    OBVIOUS
  <2>2. /\ row \in OrderRows /\ row # NoOrder
        /\ path \in Seq(Episodes)
        /\ Tells(path, row)
    BY <1>3, <2>1 DEF Saved, Sound, TypeOK, Told
  <2>3. row.version \in Nat \ {0} /\ row.state = from /\ OrderEdge(row.state, to)
    BY <1>3, <2>1, <2>2 DEF Saved, OrderRows
  <2>4. Save(o, row.version, from, to) /\ orders[o] # NoOrder
    BY <1>3, <2>1 DEF Saved
  <2>5. PICK next : next = orders'[o]
    OBVIOUS
  <2>6. /\ next # NoOrder /\ next.state = to /\ next.version = row.version + 1
        /\ \A p \in OrderIds \ {o} : orders'[p] = orders[p]
    BY <2>3, <2>4, <2>5, SaveStep
  <2>7. PICK longer : longer = Append(path, [from |-> row.state, to |-> to,
                                              version |-> row.version + 1])
    OBVIOUS
  <2>8. Tells(longer, next)
    BY <2>2, <2>3, <2>6, <2>7, TellsOn
  <2>9. /\ transitions'[o] = longer
        /\ \A p \in OrderIds \ {o} : transitions'[p] = transitions[p]
    BY <2>1, <2>3, <2>4, <2>7 DEF Save, Sound, TypeOK
  <2>10. QED
    BY <2>5, <2>6, <2>8, <2>9 DEF Told
<1>4. QED
  BY <1>1, <1>2, <1>3, OrderSteps

\* For any number of concurrent creations, cancellations and transitions, with
\* calls dropped anywhere, the episodes of an order tell its whole life and its
\* version counts them: no update is lost and none is applied twice.
THEOREM HistoryIsComplete == Spec => []HistoryMatchesState
<1>1. Init => Sound /\ Told
  BY SoundInit DEF Init, Told
<1>2. (Sound /\ Told) /\ [Next]_vars => (Sound /\ Told)'
  BY SoundNext, ToldNext
<1>3. Told => HistoryMatchesState
  BY DEF Told, Tells, HistoryMatchesState
<1>4. QED
  BY <1>1, <1>2, <1>3, PTL DEF Spec

-------------------------------------------------------------------------------
(* The orders table implements the order book.                                *)

LEMMA AlwaysSound == Spec => []Sound
  BY SoundInit, SoundNext, PTL DEF Spec

\* An order seen through its customer and its state.
Seen(row) ==
  IF row = NoOrder THEN NoOrder ELSE [customer |-> row.customer, state |-> row.state]

LEMMA SeenRows ==
  ASSUME NEW row \in OrderRows, row # NoOrder
  PROVE  /\ Seen(row) = [customer |-> row.customer, state |-> row.state]
         /\ Seen(row).customer = row.customer /\ Seen(row).state = row.state
  BY DEF Seen

\* A slot free in the table is free in the book.
LEMMA VacantInBook ==
  ASSUME Sound, NEW c, NEW state \in OrderStates, SlotFree(c, state)
  PROVE  Abstract!Vacant(c, state)
<1> SUFFICES ASSUME NEW o \in OrderIds, Book[o].state = state
             PROVE  Book[o].customer # c
  BY DEF Abstract!Vacant
<1>1. orders[o] # NoOrder
  BY DEF Book, NoOrder, OrderStates
<1>2. Book[o] = [customer |-> orders[o].customer, state |-> orders[o].state]
  BY <1>1 DEF Book
<1>3. orders[o].state = state
  BY <1>2
<1>4. QED
  BY <1>2, <1>3 DEF SlotFree

LEMMA BookSteps ==
  ASSUME Sound, [Next]_vars
  PROVE  [Abstract!Next]_Book
<1>1. CASE UNCHANGED <<orders, transitions>>
  BY <1>1 DEF Book
<1>2. ASSUME NEW t \in Calls, NEW o \in OrderIds, Placed(t, o)
      PROVE  Abstract!Next
  <2>1. PICK row, c : row = PlacedRow(task[t]) /\ c = task[t].id[1]
    OBVIOUS
  <2>2. row \in OrderRows /\ row # NoOrder
    BY <1>2, <2>1, PlacedRowType DEF Placed
  <2>3. row.customer = c /\ row.state = "PENDING"
    BY <2>1 DEF PlacedRow
  <2>4. c \in Customers
    BY <2>2, <2>3 DEF OrderRows
  <2>5. Abstract!Vacant(c, "PENDING")
    BY <1>2, <2>1, VacantInBook DEF Placed, OrderStates
  <2>6. Book[o] = Abstract!NotPlaced
    BY <1>2 DEF Placed, Book, NoOrder, Abstract!NotPlaced
  <2>7. orders'[o] = row /\ \A p \in OrderIds \ {o} : orders'[p] = orders[p]
    BY <1>2, <2>1 DEF Placed, Sound, TypeOK
  <2>8. Book' = [Book EXCEPT ![o] = [customer |-> c, state |-> "PENDING"]]
    BY <2>2, <2>3, <2>7 DEF Book
  <2>9. Abstract!Place(o, c)
    BY <2>5, <2>6, <2>8 DEF Abstract!Place
  <2>10. QED
    BY <2>4, <2>9 DEF Abstract!Next
<1>3. ASSUME NEW o \in OrderIds, NEW from \in OrderStates, NEW to \in OrderStates,
             Saved(o, from, to)
      PROVE  Abstract!Next
  <2>1. PICK row, next : row = orders[o] /\ next = orders'[o]
    OBVIOUS
  <2>2. row \in OrderRows /\ row # NoOrder
    BY <1>3, <2>1 DEF Saved, Sound, TypeOK
  <2>3. row.version \in Nat \ {0} /\ row.state = from /\ OrderEdge(row.state, to)
    BY <1>3, <2>1, <2>2 DEF Saved, OrderRows
  <2>4. Save(o, row.version, from, to) /\ orders[o] # NoOrder
    BY <1>3, <2>1 DEF Saved
  <2>5. /\ next # NoOrder /\ next.state = to /\ next.customer = row.customer
        /\ \A p \in OrderIds \ {o} : orders'[p] = orders[p]
    BY <2>1, <2>3, <2>4, SaveStep
  <2>6. Book[o] = [customer |-> row.customer, state |-> row.state]
    BY <2>1, <2>2 DEF Book
  <2>7. SlotFree(row.customer, to)
    BY <2>1, <2>4 DEF Save, Savable
  <2>8. Abstract!Vacant(Book[o].customer, to)
    BY <2>6, <2>7, VacantInBook
  <2>9. Book' = [Book EXCEPT ![o] = [customer |-> row.customer, state |-> to]]
    BY <2>1, <2>5 DEF Book
  <2>10. Book' = [Book EXCEPT ![o].state = to]
    <3>1. PICK c : c = row.customer
      OBVIOUS
    <3>2. [Book[o] EXCEPT !.state = to] = [customer |-> c, state |-> to]
      BY <2>6, <3>1
    <3>3. Book' = [Book EXCEPT ![o] = [Book[o] EXCEPT !.state = to]]
      BY <2>9, <3>1, <3>2
    <3>4. QED
      BY <3>3
  <2>11. Abstract!OrderEdge(Book[o].state, to)
    BY <2>3, <2>6 DEF OrderEdge, OrderTransitions, Rule, Abstract!OrderEdge,
                      Abstract!OrderTransitions, Abstract!Rule
  <2>12. Abstract!Move(o, to)
    BY <2>8, <2>10, <2>11 DEF Abstract!Move
  <2>13. QED
    BY <2>12 DEF Abstract!Next, OrderStates, Abstract!OrderStates
<1>4. QED
  BY <1>1, <1>2, <1>3, OrderSteps

\* Reads, idempotency rows, reservations and version-guarded writes together
\* implement the order book, where each order moves atomically along the
\* lifecycle and no customer has two orders in one state.
THEOREM OrderBookImplemented == Spec => ImplementsOrderBook
<1>1. Init => Abstract!Init
  BY DEF Init, Abstract!Init, Book, NoOrder, Abstract!NotPlaced
<1>2. Sound /\ [Next]_vars => [Abstract!Next]_Book
  BY BookSteps
<1>3. QED
  BY <1>1, <1>2, AlwaysSound, PTL DEF Spec, ImplementsOrderBook, Abstract!Spec

-------------------------------------------------------------------------------
(* One order per key.                                                         *)

CreationOf(c, k) == <<c, "order.create", k>>

\* The order was created by the call whose row is id.
MadeUnder(row, id) ==
  row # NoOrder /\ row.customer = id[1] /\ row.key = id[3]

\* A creation that has acquired its row and not yet inserted its order.
Creates(x) == x.pc \in {"create", "abandon"} /\ x.id[2] = "order.create"

\* The row of a creation outlives its order, and a creation still to insert
\* holds its row and has no order yet.
Keyed ==
  /\ OneOrderPerKey
  /\ \A o \in OrderIds : orders[o] # NoOrder =>
       record[CreationOf(orders[o].customer, orders[o].key)] # Absent
  /\ \A t \in Calls : Creates(task[t]) =>
       /\ OwnProcessingRow(record[task[t].id], t)
       /\ \A o \in OrderIds : ~MadeUnder(orders[o], task[t].id)

LEMMA CreationKey ==
  ASSUME NEW id \in IdemKeys, id[2] = "order.create"
  PROVE  /\ id[1] \in Customers /\ id[3] \in Keys
         /\ id = CreationOf(id[1], id[3])
  BY DEF IdemKeys, CreationOf

\* What a creation that holds its row is.
LEMMA CreatesShape ==
  ASSUME NEW x, Fits(x), Creates(x)
  PROVE  /\ x.id \in IdemKeys
         /\ x.id[1] \in Customers /\ x.id[3] \in Keys
         /\ x.id = CreationOf(x.id[1], x.id[3])
<1>1. x.id \in IdemKeys
  BY TaskShapes DEF Creates
<1>2. QED
  BY <1>1, CreationKey DEF Creates

\* The step leaves the rows, the owners of rows and the orders' keys alone.
KeysStay ==
  /\ UNCHANGED record
  /\ \A o \in OrderIds :
       /\ orders'[o] # NoOrder <=> orders[o] # NoOrder
       /\ orders[o] # NoOrder => /\ orders'[o].customer = orders[o].customer
                                 /\ orders'[o].key = orders[o].key
  /\ \A u \in Calls : Creates(task'[u]) =>
       Creates(task[u]) /\ task'[u].id = task[u].id

LEMMA KeyedStays ==
  ASSUME Keyed, KeysStay
  PROVE  Keyed'
<1>1. OneOrderPerKey'
  BY DEF Keyed, KeysStay, OneOrderPerKey
<1>2. (\A o \in OrderIds : orders[o] # NoOrder =>
         record[CreationOf(orders[o].customer, orders[o].key)] # Absent)'
  BY DEF Keyed, KeysStay
<1>3. ASSUME NEW t \in Calls, Creates(task'[t])
      PROVE  /\ OwnProcessingRow(record'[task'[t].id], t)
             /\ \A o \in OrderIds : ~MadeUnder(orders'[o], task'[t].id)
  <2>1. Creates(task[t]) /\ task'[t].id = task[t].id /\ record' = record
    BY <1>3 DEF KeysStay
  <2>2. /\ OwnProcessingRow(record[task[t].id], t)
        /\ \A o \in OrderIds : ~MadeUnder(orders[o], task[t].id)
    BY <2>1 DEF Keyed
  <2>3. OwnProcessingRow(record'[task'[t].id], t)
    BY <2>1, <2>2
  <2>4. \A o \in OrderIds : ~MadeUnder(orders'[o], task'[t].id)
    BY <2>1, <2>2 DEF MadeUnder, KeysStay
  <2>5. QED
    BY <2>3, <2>4
<1>4. QED
  BY <1>1, <1>2, <1>3 DEF Keyed

\* A call does something else now and holds no creation it did not hold.
LEMMA OtherTask ==
  ASSUME Sound, NEW t \in Calls, NEW x, task' = [task EXCEPT ![t] = x],
         Creates(x) => Creates(task[t]) /\ x.id = task[t].id
  PROVE  \A u \in Calls : Creates(task'[u]) =>
           Creates(task[u]) /\ task'[u].id = task[u].id
<1>1. \A u \in Calls : task'[u] = IF u = t THEN x ELSE task[u]
  BY DEF Sound, TypeOK
<1>2. QED
  BY <1>1

LEMMA Finished ==
  ASSUME Sound, NEW t \in Calls, Finish(t)
  PROVE  \A u \in Calls :
           /\ Creates(task'[u]) => u # t
           /\ Creates(task'[u]) => Creates(task[u]) /\ task'[u].id = task[u].id
<1>1. \A u \in Calls : task'[u] = IF u = t THEN Idle ELSE task[u]
  BY DEF Finish, Sound, TypeOK
<1>2. ~Creates(Idle)
  BY DEF Creates, Idle
<1>3. QED
  BY <1>1, <1>2

LEMMA StaysWithOrders ==
  ASSUME UNCHANGED <<orders, record>>,
         \A u \in Calls : Creates(task'[u]) =>
           Creates(task[u]) /\ task'[u].id = task[u].id
  PROVE  KeysStay
  BY DEF KeysStay

LEMMA StaysWhenSaved ==
  ASSUME Sound, NEW o \in OrderIds, NEW from \in OrderStates, NEW to \in OrderStates,
         Saved(o, from, to), UNCHANGED record,
         \A u \in Calls : Creates(task'[u]) =>
           Creates(task[u]) /\ task'[u].id = task[u].id
  PROVE  KeysStay
<1>1. PICK v : v = orders[o].version
  OBVIOUS
<1>2. v \in Nat \ {0} /\ orders[o] # NoOrder
  BY <1>1 DEF Saved, Sound, TypeOK, OrderRows
<1>3. Save(o, v, from, to)
  BY <1>1 DEF Saved
<1>4. /\ orders'[o] # NoOrder
      /\ orders'[o].customer = orders[o].customer
      /\ orders'[o].key = orders[o].key
      /\ \A p \in OrderIds \ {o} : orders'[p] = orders[p]
  BY <1>2, <1>3, SaveStep
<1>5. QED
  BY <1>2, <1>4 DEF KeysStay

\* Completing holds no creation any more.
LEMMA CompletingHoldsNone ==
  ASSUME Sound, NEW t \in Calls, NEW o \in OrderIds, Completing(t, o)
  PROVE  \A u \in Calls :
           /\ Creates(task'[u]) => u # t
           /\ Creates(task'[u]) => Creates(task[u]) /\ task'[u].id = task[u].id
<1> DEFINE x == [pc |-> "complete", id |-> task[t].id, print |-> task[t].print,
                 result |-> o]
<1>1. ~Creates(x)
  BY DEF Creates
<1>2. \A u \in Calls : task'[u] = IF u = t THEN x ELSE task[u]
  BY DEF Completing, Sound, TypeOK
<1> HIDE DEF x
<1>3. QED
  BY <1>1, <1>2

\* Giving up keeps what the call holds.
LEMMA AbandoningHoldsSame ==
  ASSUME Sound, NEW t \in Calls, Goto(t, "abandon"),
         Creates(task[t]) \/ task[t].id[2] # "order.create",
         task[t] \in CreateTasks \cup CancelTasks
  PROVE  \A u \in Calls : Creates(task'[u]) =>
           Creates(task[u]) /\ task'[u].id = task[u].id
<1> DEFINE x == [task[t] EXCEPT !.pc = "abandon"]
<1>1. x.id = task[t].id
  BY DEF CreateTasks, CancelTasks
<1>2. task' = [task EXCEPT ![t] = x]
  BY DEF Goto
<1> HIDE DEF x
<1>3. Creates(x) => Creates(task[t]) /\ x.id = task[t].id
  BY <1>1 DEF Creates
<1>4. QED
  BY <1>2, <1>3, OtherTask

\* The steps that begin a call.
LEMMA KeyedBegin ==
  ASSUME Sound, Keyed, NEW t \in Calls, NEW x, ~Creates(x),
         task' = [task EXCEPT ![t] = x], UNCHANGED <<orders, record>>
  PROVE  Keyed'
<1>1. \A u \in Calls : Creates(task'[u]) =>
        Creates(task[u]) /\ task'[u].id = task[u].id
  BY OtherTask
<1>2. QED
  BY <1>1, StaysWithOrders, KeyedStays

LEMMA KeyedAcquire ==
  ASSUME Sound, Keyed, NEW t \in Calls, Acquire(t)
  PROVE  Keyed'
<1>1. \/ task[t] \in CreateTasks /\ task[t].id[2] = "order.create"
      \/ task[t] \in CancelTasks /\ task[t].id[2] = "order.cancel"
  <2>1. Fits(task[t]) /\ task[t].pc = "acquire"
    BY DEF Acquire, Sound
  <2>2. QED
    BY <2>1, TaskShapes
<1>2. task[t].id \in IdemKeys
  BY <1>1 DEF CreateTasks, CancelTasks
<1>3. CASE Finish(t) /\ UNCHANGED record
  BY <1>3, Finished, StaysWithOrders, KeyedStays DEF Acquire
<1>4. ASSUME record[task[t].id] = Absent,
             record' = [record EXCEPT ![task[t].id] = Processing(t, task[t].print)],
             Goto(t, IF task[t].id[2] = "order.create" THEN "create" ELSE "cancel")
      PROVE  Keyed'
  <2>1. PICK id, row : id = task[t].id /\ row = Processing(t, task[t].print)
    OBVIOUS
  <2>2. row # Absent /\ OwnProcessingRow(row, t)
    BY <2>1 DEF Processing, Absent, OwnProcessingRow
  <2>3. /\ record'[id] = row
        /\ \A i \in IdemKeys \ {id} : record'[i] = record[i]
    BY <1>2, <1>4, <2>1 DEF Sound, TypeOK
  <2>4. UNCHANGED orders
    BY DEF Acquire
  <2>5. OneOrderPerKey'
    BY <2>4 DEF Keyed, OneOrderPerKey
  <2>6. ASSUME NEW o \in OrderIds, orders[o] # NoOrder
        PROVE  record'[CreationOf(orders[o].customer, orders[o].key)] # Absent
    <3>1. CreationOf(orders[o].customer, orders[o].key) \in IdemKeys
      BY <2>6 DEF Sound, TypeOK, OrderRows, CreationOf, IdemKeys
    <3>2. QED
      BY <2>2, <2>3, <2>6, <3>1 DEF Keyed
  <2>7. ASSUME NEW u \in Calls, Creates(task'[u])
        PROVE  /\ OwnProcessingRow(record'[task'[u].id], u)
               /\ \A o \in OrderIds : ~MadeUnder(orders[o], task'[u].id)
    <3>1. CASE u = t
      <4>1. task'[t].id = id
        BY <1>1, <1>4, <2>1 DEF Goto, Sound, TypeOK, CreateTasks, CancelTasks
      <4>2. id = CreationOf(id[1], id[3])
        BY <1>2, <2>1, <2>7, <3>1, <4>1, CreationKey DEF Creates
      <4>3. ASSUME NEW o \in OrderIds, MadeUnder(orders[o], id)
            PROVE  FALSE
        <5>1. record[id] # Absent
          BY <4>2, <4>3 DEF Keyed, MadeUnder
        <5>2. QED
          BY <1>4, <2>1, <5>1
      <4>4. QED
        BY <2>2, <2>3, <3>1, <4>1, <4>3
    <3>2. CASE u # t
      <4>1. task'[u] = task[u]
        BY <1>4, <3>2 DEF Goto, Sound, TypeOK
      <4>2. /\ OwnProcessingRow(record[task[u].id], u)
            /\ \A o \in OrderIds : ~MadeUnder(orders[o], task[u].id)
        BY <2>7, <4>1 DEF Keyed
      <4>3. task[u].id \in IdemKeys
        BY <2>7, <4>1, CreatesShape DEF Sound
      <4>4. task[u].id # id
        BY <1>4, <2>1, <4>2 DEF OwnProcessingRow, Absent
      <4>5. QED
        BY <2>3, <4>1, <4>2, <4>3, <4>4
    <3>3. QED
      BY <3>1, <3>2
  <2>8. QED
    BY <2>4, <2>5, <2>6, <2>7 DEF Keyed
<1>5. QED
  BY <1>3, <1>4 DEF Acquire, AcquireOutcome

\* Two creations never hold one row.
LEMMA RowsHaveOneHolder ==
  ASSUME Sound, Keyed, NEW t \in Calls, NEW u \in Calls,
         Creates(task[t]), Creates(task[u]), task[t].id = task[u].id
  PROVE  t = u
  BY DEF Keyed, OwnProcessingRow

LEMMA KeyedInsert ==
  ASSUME Sound, Keyed, NEW t \in Calls, NEW o \in OrderIds, Placed(t, o)
  PROVE  Keyed'
<1>1. Fits(task[t]) /\ task[t].pc = "create"
  BY DEF Placed, Sound
<1>2. task[t] \in CreateTasks /\ task[t].id[2] = "order.create" /\ Creates(task[t])
  <2>1. task[t] \in CreateTasks /\ task[t].id[2] = "order.create"
    BY <1>1, TaskShapes
  <2>2. QED
    BY <1>1, <2>1 DEF Creates
<1>3. PICK id, row : id = task[t].id /\ row = PlacedRow(task[t])
  OBVIOUS
<1>4. row # NoOrder /\ row.customer = id[1] /\ row.key = id[3]
  BY <1>2, <1>3, PlacedRowType DEF PlacedRow
<1>5. id \in IdemKeys /\ id = CreationOf(id[1], id[3])
  BY <1>1, <1>2, <1>3, CreatesShape
<1>6. /\ orders'[o] = row
      /\ \A p \in OrderIds \ {o} : orders'[p] = orders[p]
      /\ UNCHANGED record
  BY <1>3 DEF Placed, Sound, TypeOK
<1>7. /\ OwnProcessingRow(record[id], t)
      /\ \A p \in OrderIds : ~MadeUnder(orders[p], id)
  BY <1>2, <1>3 DEF Keyed
<1>8. OneOrderPerKey'
  <2>1. SUFFICES ASSUME NEW p \in OrderIds, NEW q \in OrderIds,
                        orders'[p] # NoOrder, orders'[q] # NoOrder,
                        orders'[p].customer = orders'[q].customer,
                        orders'[p].key = orders'[q].key
                 PROVE  p = q
    BY DEF OneOrderPerKey
  <2>2. CASE p = o /\ q # o
    BY <1>4, <1>6, <1>7, <2>1, <2>2 DEF MadeUnder
  <2>3. CASE p # o /\ q = o
    BY <1>4, <1>6, <1>7, <2>1, <2>3 DEF MadeUnder
  <2>4. CASE p # o /\ q # o
    BY <1>6, <2>1, <2>4 DEF Keyed, OneOrderPerKey
  <2>5. QED
    BY <2>2, <2>3, <2>4
<1>9. ASSUME NEW p \in OrderIds, orders'[p] # NoOrder
      PROVE  record'[CreationOf(orders'[p].customer, orders'[p].key)] # Absent
  <2>1. CASE p = o
    <3>1. record[id] # Absent
      BY <1>7 DEF OwnProcessingRow, Absent
    <3>2. QED
      BY <1>4, <1>5, <1>6, <2>1, <3>1
  <2>2. CASE p # o
    BY <1>6, <1>9, <2>2 DEF Keyed
  <2>3. QED
    BY <2>1, <2>2
<1>10. ASSUME NEW u \in Calls, Creates(task'[u])
       PROVE  /\ OwnProcessingRow(record'[task'[u].id], u)
              /\ \A p \in OrderIds : ~MadeUnder(orders'[p], task'[u].id)
  <2>1. u # t /\ Creates(task[u]) /\ task'[u].id = task[u].id
    BY <1>10, CompletingHoldsNone DEF Placed
  <2>2. PICK other : other = task[u].id
    OBVIOUS
  <2>3. other # id
    BY <1>2, <1>3, <2>1, <2>2, RowsHaveOneHolder
  <2>4. other = CreationOf(other[1], other[3])
    BY <2>1, <2>2, CreatesShape DEF Sound
  <2>5. /\ OwnProcessingRow(record[other], u)
        /\ \A p \in OrderIds : ~MadeUnder(orders[p], other)
    BY <2>1, <2>2 DEF Keyed
  <2>6. ~MadeUnder(row, other)
    <3>1. ~(other[1] = id[1] /\ other[3] = id[3])
      BY <1>5, <2>3, <2>4
    <3>2. QED
      BY <1>4, <3>1 DEF MadeUnder
  <2>7. \A p \in OrderIds : ~MadeUnder(orders'[p], other)
    BY <1>6, <2>5, <2>6
  <2>8. QED
    BY <1>6, <2>1, <2>2, <2>5, <2>7
<1>11. QED
  BY <1>8, <1>9, <1>10 DEF Keyed

LEMMA KeyedInsertOrder ==
  ASSUME Sound, Keyed, NEW t \in Calls, InsertOrder(t)
  PROVE  Keyed'
<1>1. Fits(task[t]) /\ task[t].pc = "create"
  BY DEF InsertOrder, Sound
<1>2. task[t] \in CreateTasks /\ task[t].id[2] = "order.create"
  BY <1>1, TaskShapes
<1>3. CASE Goto(t, "abandon") /\ UNCHANGED orders
  <2>1. Creates(task[t])
    BY <1>1, <1>2 DEF Creates
  <2>2. QED
    BY <1>2, <1>3, <2>1, AbandoningHoldsSame, StaysWithOrders, KeyedStays DEF InsertOrder
<1>4. CASE ~(Goto(t, "abandon") /\ UNCHANGED orders)
  <2>1. SlotFree(task[t].id[1], "PENDING")
    BY <1>4 DEF InsertOrder
  <2>2. \E o \in OrderIds : Placed(t, o)
    BY <1>1, <1>2, <1>4, <2>1 DEF InsertOrder, Placed, PlacedRow
  <2>3. QED
    BY <2>2, KeyedInsert
<1>5. QED
  BY <1>3, <1>4

LEMMA KeyedReserve ==
  ASSUME Sound, Keyed, NEW t \in Calls, ReserveLine(t) \/ RefuseLine(t)
  PROVE  Keyed'
<1>1. Fits(task[t]) /\ task[t].pc = "create"
  BY DEF ReserveLine, RefuseLine, Sound
<1>2. task[t] \in CreateTasks /\ task[t].id[2] = "order.create"
  BY <1>1, TaskShapes
<1>3. Creates(task[t])
  BY <1>1, <1>2 DEF Creates
<1>4. CASE RefuseLine(t)
  BY <1>2, <1>3, <1>4, AbandoningHoldsSame, StaysWithOrders, KeyedStays DEF RefuseLine
<1>5. CASE ReserveLine(t)
  <2>1. PICK n : n = task[t].line + 1
    OBVIOUS
  <2> DEFINE x == [task[t] EXCEPT !.line = n]
  <2>2. x.id = task[t].id
    BY <1>2 DEF CreateTasks
  <2>3. task' = [task EXCEPT ![t] = x]
    BY <1>5, <2>1 DEF ReserveLine
  <2> HIDE DEF x
  <2>4. QED
    BY <1>3, <1>5, <2>2, <2>3, OtherTask, StaysWithOrders, KeyedStays DEF ReserveLine
<1>6. QED
  BY <1>4, <1>5

LEMMA KeyedSave ==
  ASSUME Sound, Keyed, NEW t \in Calls, SaveTransition(t) \/ SaveCancel(t)
  PROVE  Keyed'
<1>1. \A u \in Calls : Creates(task'[u]) =>
        Creates(task[u]) /\ task'[u].id = task[u].id
  <2>1. CASE SaveTransition(t)
    BY <2>1, Finished DEF SaveTransition
  <2>2. CASE SaveCancel(t)
    <3>1. Fits(task[t]) /\ task[t].pc = "cancel"
      BY <2>2 DEF SaveCancel, Sound
    <3>2. task[t] \in CancelTasks /\ task[t].id[2] = "order.cancel"
      BY <3>1 DEF Fits, Idle, CreateTasks, CancelTasks, CompleteTasks, TransitionTasks
    <3>3. CASE Goto(t, "abandon")
      BY <3>2, <3>3, AbandoningHoldsSame
    <3>4. CASE Completing(t, task[t].print.order)
      <4>1. PICK o \in OrderIds : o = task[t].print.order
        BY <3>2 DEF CancelTasks, CancelPrints
      <4>2. Completing(t, o)
        BY <3>4, <4>1
      <4>3. QED
        BY <4>2, CompletingHoldsNone
    <3>5. QED
      BY <2>2, <3>3, <3>4 DEF SaveCancel
  <2>3. QED
    BY <2>1, <2>2
<1>2. UNCHANGED record
  BY DEF SaveTransition, SaveCancel
<1>3. CASE UNCHANGED <<orders, transitions>>
  BY <1>1, <1>2, <1>3, StaysWithOrders, KeyedStays
<1>4. CASE ~UNCHANGED <<orders, transitions>>
  <2>1. PICK o \in OrderIds, from \in OrderStates, to \in OrderStates : Saved(o, from, to)
    BY <1>4, SavedByTransition, SavedByCancel
  <2>2. QED
    BY <1>1, <1>2, <2>1, StaysWhenSaved, KeyedStays
<1>5. QED
  BY <1>3, <1>4

\* The end of a call: only its own row changes, and only a creation without an
\* order deletes the row of a creation.
LEMMA KeyedEnd ==
  ASSUME Sound, Keyed, NEW t \in Calls, Abandon(t) \/ Complete(t)
  PROVE  Keyed'
<1>1. Fits(task[t])
  BY DEF Sound
<1>2. PICK id : id = task[t].id
  OBVIOUS
<1>3. id \in IdemKeys
  BY <1>1, <1>2, TaskShapes DEF Abandon, Complete
<1>4. CASE UNCHANGED record
  BY <1>4, Finished, StaysWithOrders, KeyedStays DEF Abandon, Complete
<1>5. CASE ~UNCHANGED record
  <2>1. OwnProcessingRow(record[id], t)
    BY <1>2, <1>5 DEF Abandon, Complete, Sound, TypeOK
  <2>2. \A i \in IdemKeys \ {id} : record'[i] = record[i]
    BY <1>2, <1>3 DEF Abandon, Complete, Sound, TypeOK
  <2>3. UNCHANGED orders
    BY DEF Abandon, Complete
  <2>4. OneOrderPerKey'
    BY <2>3 DEF Keyed, OneOrderPerKey
  <2>5. ASSUME NEW o \in OrderIds, orders[o] # NoOrder
        PROVE  record'[CreationOf(orders[o].customer, orders[o].key)] # Absent
    <3>1. PICK i \in IdemKeys : i = CreationOf(orders[o].customer, orders[o].key)
      BY <2>5 DEF Sound, TypeOK, OrderRows, CreationOf, IdemKeys
    <3>2. record[i] # Absent
      BY <2>5, <3>1 DEF Keyed
    <3>3. CASE i # id
      BY <2>2, <3>1, <3>2, <3>3
    <3>4. CASE i = id /\ Complete(t)
      <4>1. record'[id] = Completed(task[t].print, task[t].result)
        BY <1>2, <1>3, <3>4 DEF Complete, Sound, TypeOK
      <4>2. Completed(task[t].print, task[t].result).state # Absent.state
        BY DEF Completed, Absent
      <4>3. QED
        BY <3>1, <3>4, <4>1, <4>2
    <3>5. CASE i = id /\ Abandon(t)
      <4>1. MadeUnder(orders[o], id)
        BY <2>5, <3>1, <3>5 DEF MadeUnder, CreationOf
      <4>2. id[2] = "order.create"
        BY <3>1, <3>5 DEF CreationOf
      <4>3. Creates(task[t])
        BY <1>2, <3>5, <4>2 DEF Abandon, Creates
      <4>4. QED
        BY <1>2, <4>1, <4>3 DEF Keyed
    <3>6. QED
      BY <3>3, <3>4, <3>5
  <2>6. ASSUME NEW u \in Calls, Creates(task'[u])
        PROVE  /\ OwnProcessingRow(record'[task'[u].id], u)
               /\ \A o \in OrderIds : ~MadeUnder(orders[o], task'[u].id)
    <3>1. u # t /\ Creates(task[u]) /\ task'[u].id = task[u].id
      BY <2>6, Finished DEF Abandon, Complete
    <3>2. PICK other : other = task[u].id
      OBVIOUS
    <3>3. /\ OwnProcessingRow(record[other], u)
          /\ \A o \in OrderIds : ~MadeUnder(orders[o], other)
      BY <3>1, <3>2 DEF Keyed
    <3>4. other # id
      BY <2>1, <3>1, <3>3 DEF OwnProcessingRow
    <3>5. other \in IdemKeys
      BY <3>1, <3>2, CreatesShape DEF Sound
    <3>6. QED
      BY <2>2, <3>1, <3>2, <3>3, <3>4, <3>5
  <2>7. QED
    BY <2>3, <2>4, <2>5, <2>6 DEF Keyed
<1>6. QED
  BY <1>4, <1>5

LEMMA KeyedNext ==
  ASSUME Sound, Keyed, [Next]_vars
  PROVE  Keyed'
<1>1. CASE UNCHANGED vars
  BY <1>1, StaysWithOrders, KeyedStays DEF vars
<1>2. ASSUME NEW t \in Calls, NEW c \in Customers, NEW s \in Snapshots, NEW k \in Keys,
             NEW correlation, CreateOrder(t, c, s, k, correlation)
      PROVE  Keyed'
  <2>1. PICK x : x = [pc |-> "acquire", id |-> <<c, "order.create", k>>,
                  print |-> [snapshot |-> s, correlation |-> correlation], line |-> 1]
    OBVIOUS
  <2>2. ~Creates(x)
    BY <2>1 DEF Creates
  <2>3. task' = [task EXCEPT ![t] = x] /\ UNCHANGED <<orders, record>>
    BY <1>2, <2>1 DEF CreateOrder
  <2>4. QED
    BY <2>2, <2>3, KeyedBegin
<1>3. ASSUME NEW t \in Calls, NEW c \in Customers, NEW o \in OrderIds, NEW k \in Keys,
             CancelOrder(t, c, o, k)
      PROVE  Keyed'
  <2>1. PICK x : x = [pc |-> "acquire", id |-> <<c, "order.cancel", k>>,
                  print |-> [order |-> o, version |-> orders[o].version],
                  seen |-> orders[o].state]
    OBVIOUS
  <2>2. ~Creates(x)
    BY <2>1 DEF Creates
  <2>3. task' = [task EXCEPT ![t] = x] /\ UNCHANGED <<orders, record>>
    BY <1>3, <2>1 DEF CancelOrder
  <2>4. QED
    BY <2>2, <2>3, KeyedBegin
<1>4. ASSUME NEW t \in Calls, NEW o \in OrderIds, NEW to, NEW actor, NEW reasonGiven,
             TransitionOrder(t, o, to, actor, reasonGiven)
      PROVE  Keyed'
  <2>1. PICK x : x = [pc |-> "transition", order |-> o, seen |-> orders[o].state,
                  version |-> orders[o].version, to |-> to]
    OBVIOUS
  <2>2. ~Creates(x)
    BY <2>1 DEF Creates
  <2>3. task' = [task EXCEPT ![t] = x] /\ UNCHANGED <<orders, record>>
    BY <1>4, <2>1 DEF TransitionOrder
  <2>4. QED
    BY <2>2, <2>3, KeyedBegin
<1>5. ASSUME NEW t \in Calls, Drop(t)
      PROVE  Keyed'
  BY <1>5, Finished, StaysWithOrders, KeyedStays DEF Drop
<1>6. CASE Elsewhere
  BY <1>6, ElsewhereSteps, StaysWithOrders, KeyedStays
<1>7. CASE Next /\ ~Elsewhere
  BY <1>7, <1>2, <1>3, <1>4, <1>5, KeyedAcquire, KeyedReserve, KeyedInsertOrder,
     KeyedSave, KeyedEnd DEF Next, Elsewhere
<1>8. QED
  BY <1>1, <1>6, <1>7

\* For any number of calls under one Idempotency-Key, interrupted anywhere and
\* retried any number of times, a creation places at most one order.
THEOREM KeysPlaceOneOrder == Spec => []OneOrderPerKey
<1>1. Init => Sound /\ Keyed
  <2>1. ASSUME Init PROVE Keyed
    <3>1. /\ \A o \in OrderIds : orders[o] = NoOrder
          /\ \A t \in Calls : task[t] = Idle
      BY <2>1 DEF Init
    <3>2. ~Creates(Idle)
      BY DEF Creates, Idle
    <3>3. QED
      BY <3>1, <3>2 DEF Keyed, OneOrderPerKey
  <2>2. QED
    BY <2>1, SoundInit
<1>2. (Sound /\ Keyed) /\ [Next]_vars => (Sound /\ Keyed)'
  BY SoundNext, KeyedNext
<1>3. Keyed => OneOrderPerKey
  BY DEF Keyed
<1>4. QED
  BY <1>1, <1>2, <1>3, PTL DEF Spec

-------------------------------------------------------------------------------
(* Orders stand on what module 05 granted.  Claimed gathers, per SKU, the      *)
(* units orders are owed, those that unfinished creations hold for the order   *)
(* they have yet to insert, and those a repeated answer would hand out again.  *)

Holder(x) == Owner(x.id[1], x.id[3], x.print.correlation)

\* The units of a SKU that unfinished creations hold.
Held(sku) ==
  UNION {Units(Holder(task[t]), task[t].print.snapshot, task[t].line - 1, sku) :
           t \in {u \in Calls : task[u].pc = "create"}}

\* Module 05 answered q units of the SKU under r.
Promised(sku, r, q) == answers[<<sku, r>>] = Completed(q, "RESERVED")

Shared(sku) ==
  UNION {{<<r>>} \X (1..answers[<<sku, r>>].fingerprint) :
           r \in {c \in Correlations : \E q \in Nat : Promised(sku, c, q)}}

Claimed(sku) == Owed(sku) \cup Held(sku) \cup Shared(sku)

\* A creation reserves its lines in their order, from the first to the last.
Counts(x) ==
  /\ x.pc = "acquire" /\ x.id[2] = "order.create" => x.line = 1
  /\ x.pc = "create" => x.line <= Len(Lines[x.print.snapshot]) + 1

Covered ==
  /\ \A t \in Calls : Counts(task[t])
  /\ \A sku \in Skus :
       IsFiniteSet(Claimed(sku)) /\ Cardinality(Claimed(sku)) <= granted[sku]

\* One owner's units of one line: as many as its quantity.
LEMMA LineUnitsCount ==
  ASSUME NEW a, NEW q \in Nat
  PROVE  IsFiniteSet({a} \X (1..q)) /\ Cardinality({a} \X (1..q)) = q
<1>1. IsFiniteSet(1..q) /\ Cardinality(1..q) = q
  <2>1. IsFiniteSet(1..q) /\ Cardinality(1..q) = IF 1 > q THEN 0 ELSE q - 1 + 1
    BY FS_Interval
  <2>2. QED
    BY <2>1
<1>2. IsFiniteSet({a}) /\ Cardinality({a}) = 1
  BY FS_Singleton
<1>3. /\ IsFiniteSet({a} \X (1..q))
      /\ Cardinality({a} \X (1..q)) = Cardinality({a}) * Cardinality(1..q)
  BY <1>1, <1>2, FS_Product
<1>4. Cardinality({a} \X (1..q)) = 1 * q
  BY <1>1, <1>2, <1>3, Zenon
<1>5. PICK k : k = Cardinality({a} \X (1..q))
  OBVIOUS
<1>6. k = 1 * q
  BY <1>4, <1>5, Zenon
<1>7. k = q
  BY <1>6
<1>8. QED
  BY <1>3, <1>5, <1>7, Zenon

\* Counting what two finite sets cover between them.
LEMMA CountWithin ==
  ASSUME NEW A, NEW B, NEW C, IsFiniteSet(A), IsFiniteSet(B), C \subseteq A \cup B
  PROVE  /\ IsFiniteSet(C)
         /\ Cardinality(A) \in Nat /\ Cardinality(B) \in Nat /\ Cardinality(C) \in Nat
         /\ Cardinality(C) <= Cardinality(A) + Cardinality(B)
<1>1. PICK D : D = A \cup B
  OBVIOUS
<1>2. PICK E : E = A \cap B
  OBVIOUS
<1>3. IsFiniteSet(D) /\ Cardinality(D) = Cardinality(A) + Cardinality(B) - Cardinality(E)
  BY <1>1, <1>2, FS_Union
<1>4. IsFiniteSet(E)
  BY <1>2, FS_Intersection
<1>5. IsFiniteSet(C) /\ Cardinality(C) <= Cardinality(D)
  BY <1>1, <1>3, FS_Subset
<1>6. /\ Cardinality(A) \in Nat /\ Cardinality(B) \in Nat /\ Cardinality(C) \in Nat
      /\ Cardinality(D) \in Nat /\ Cardinality(E) \in Nat
  BY <1>3, <1>4, <1>5, FS_CardinalityType
<1>7. QED
  BY <1>3, <1>5, <1>6

\* A step that claims nothing new leaves the claims covered.
LEMMA CoveredStays ==
  ASSUME TypeOK, Covered, UNCHANGED granted,
         \A t \in Calls : Counts(task'[t]),
         \A sku \in Skus : Claimed(sku)' \subseteq Claimed(sku)
  PROVE  Covered'
<1>1. ASSUME NEW sku \in Skus
      PROVE  IsFiniteSet(Claimed(sku)') /\ Cardinality(Claimed(sku)') <= granted[sku]
  <2>1. PICK A, C : A = Claimed(sku) /\ C = Claimed(sku)'
    OBVIOUS
  <2>2. IsFiniteSet(A) /\ Cardinality(A) <= granted[sku] /\ C \subseteq A
    BY <2>1 DEF Covered
  <2>3. IsFiniteSet(C) /\ Cardinality(C) <= Cardinality(A)
    BY <2>2, FS_Subset
  <2>4. Cardinality(A) \in Nat /\ Cardinality(C) \in Nat /\ granted[sku] \in Nat
    BY <2>2, <2>3, FS_CardinalityType DEF TypeOK
  <2>5. Cardinality(C) <= granted[sku]
    BY <2>2, <2>3, <2>4
  <2>6. QED
    BY <2>1, <2>3, <2>5
<1>2. QED
  BY <1>1 DEF Covered

\* A call that is not, or no longer, between two reservations.
LEMMA HeldStays ==
  ASSUME TypeOK, Covered, NEW t \in Calls, NEW x, Counts(x),
         task' = [task EXCEPT ![t] = x],
         x.pc = "create" => x.line = 1
  PROVE  /\ \A u \in Calls : Counts(task'[u])
         /\ \A sku \in Skus : Held(sku)' \subseteq Held(sku)
<1>1. \A u \in Calls : task'[u] = IF u = t THEN x ELSE task[u]
  BY DEF TypeOK
<1>2. \A u \in Calls : Counts(task'[u])
  BY <1>1 DEF Covered
<1>3. ASSUME NEW sku \in Skus, NEW unit \in Held(sku)'
      PROVE  unit \in Held(sku)
  <2>1. PICK u \in Calls :
          /\ task'[u].pc = "create"
          /\ unit \in Units(Holder(task'[u]), task'[u].print.snapshot,
                            task'[u].line - 1, sku)
    BY <1>3 DEF Held, Holder, Owner
  <2>2. u # t
    <3>1. SUFFICES ASSUME u = t PROVE FALSE
      OBVIOUS
    <3>2. task'[u].line - 1 = 0
      BY <1>1, <2>1, <3>1
    <3>3. Units(Holder(task'[u]), task'[u].print.snapshot, 0, sku) = {}
      BY DEF Units
    <3>4. QED
      BY <2>1, <3>2, <3>3
  <2>3. task'[u] = task[u]
    BY <1>1, <2>2
  <2>4. QED
    BY <2>1, <2>3 DEF Held
<1>4. QED
  BY <1>2, <1>3

LEMMA OwedStays ==
  ASSUME UNCHANGED orders
  PROVE  \A sku \in Skus : Owed(sku)' = Owed(sku)
  BY DEF Owed, LiveOrders, Owner

LEMMA SharedStays ==
  ASSUME UNCHANGED answers
  PROVE  \A sku \in Skus : Shared(sku)' = Shared(sku)
  BY DEF Shared, Promised

\* The edges of the lifecycle do not bring an ended order back.
LEMMA LiveEdges ==
  ASSUME NEW from, NEW to, OrderEdge(from, to), to \in {"PENDING", "CONFIRMED", "PAID"}
  PROVE  from \in {"PENDING", "CONFIRMED", "PAID"}
  BY DEF OrderEdge, OrderTransitions, Rule

\* What an order row stands for.
Stands(row, sku) ==
  Units(Owner(row.customer, row.key, row.correlation), row.snapshot,
        Len(Lines[row.snapshot]), sku)

\* A saved order asks for what it asked for, or for nothing any more.
LEMMA OwedWhenSaved ==
  ASSUME Sound, NEW o \in OrderIds, NEW from \in OrderStates, NEW to \in OrderStates,
         Saved(o, from, to)
  PROVE  \A sku \in Skus : Owed(sku)' \subseteq Owed(sku)
<1>1. orders \in [OrderIds -> {NoOrder} \cup OrderRows]
  BY DEF Sound, TypeOK
<1>2. orders[o] \in OrderRows /\ orders[o].state = from /\ OrderEdge(from, to)
  BY <1>1 DEF Saved
<1>3. orders' = [orders EXCEPT ![o].state = to, ![o].version = orders[o].version + 1]
  BY DEF Saved, Save
<1>4. PICK row : row = [orders[o] EXCEPT !.state = to, !.version = orders[o].version + 1]
  OBVIOUS
<1>5. /\ row.snapshot = orders[o].snapshot /\ row.state = to
      /\ row.customer = orders[o].customer /\ row.key = orders[o].key
      /\ row.correlation = orders[o].correlation
  BY <1>2, <1>4 DEF OrderRows
<1>6. orders' = [orders EXCEPT ![o] = row]
  BY <1>3, <1>4
<1>7. \A p \in OrderIds : orders'[p] = IF p = o THEN row ELSE orders[p]
  BY <1>1, <1>6
<1>8. ASSUME NEW p \in OrderIds, p \in LiveOrders', NEW sku
      PROVE  p \in LiveOrders /\ Stands(orders'[p], sku) = Stands(orders[p], sku)
  <2>1. CASE p = o
    <3>1. p \in LiveOrders
      BY <1>2, <1>5, <1>7, <1>8, <2>1, LiveEdges DEF LiveOrders, Saved
    <3>2. orders'[p] = row
      BY <1>7, <2>1
    <3>3. Stands(row, sku) = Stands(orders[o], sku)
      BY <1>5 DEF Stands
    <3>4. QED
      BY <2>1, <3>1, <3>2, <3>3
  <2>2. CASE p # o
    BY <1>7, <1>8, <2>2 DEF LiveOrders
  <2>3. QED
    BY <2>1, <2>2
<1>9. ASSUME NEW sku \in Skus, NEW unit \in Owed(sku)'
      PROVE  unit \in Owed(sku)
  <2>1. PICK p \in OrderIds : p \in LiveOrders' /\ unit \in Stands(orders'[p], sku)
    BY <1>9 DEF Owed, LiveOrders, Stands, Owner
  <2>2. p \in LiveOrders /\ unit \in Stands(orders[p], sku)
    BY <1>8, <2>1
  <2>3. QED
    BY <2>2 DEF Owed, Stands
<1>10. QED
  BY <1>9

\* A denial promises nothing.
LEMMA SharedWhenDenied ==
  ASSUME Sound, NEW t \in Calls, NEW q \in Nat, answers' = Answered(t, q, "DENIED")
  PROVE  \A sku \in Skus : Shared(sku)' \subseteq Shared(sku)
<1>1. ASSUME NEW sku \in Skus, NEW r \in Correlations, NEW k \in Nat,
             answers'[<<sku, r>>] = Completed(k, "RESERVED")
      PROVE  answers'[<<sku, r>>] = answers[<<sku, r>>]
  <2>1. <<sku, r>> \in DOMAIN answers
    BY DEF Sound, TypeOK
  <2>2. Completed(q, "DENIED") # Completed(k, "RESERVED")
    BY DEF Completed
  <2>3. QED
    BY <1>1, <2>1, <2>2 DEF Answered
<1>2. ASSUME NEW sku \in Skus, NEW unit \in Shared(sku)'
      PROVE  unit \in Shared(sku)
  <2>1. PICK r \in Correlations :
          /\ \E k \in Nat : answers'[<<sku, r>>] = Completed(k, "RESERVED")
          /\ unit \in {<<r>>} \X (1..answers'[<<sku, r>>].fingerprint)
    BY <1>2 DEF Shared, Promised
  <2>2. answers'[<<sku, r>>] = answers[<<sku, r>>]
    BY <1>1, <2>1
  <2>3. QED
    BY <2>1, <2>2 DEF Shared, Promised
<1>3. QED
  BY <1>2

\* What the call holds after its line: the same, and this line's units.
LEMMA HeldWhenReserved ==
  ASSUME Sound, Covered, NEW t \in Calls, ReserveLine(t),
         NEW s \in Snapshots, NEW l \in Nat \ {0}, NEW bought \in Skus, NEW q \in Nat,
         s = task[t].print.snapshot, l = task[t].line,
         bought = Lines[s][l].sku, q = Lines[s][l].quantity
  PROVE  /\ \A u \in Calls : Counts(task'[u])
         /\ \A sku \in Skus : \A unit \in Held(sku)' :
              \/ unit \in Held(sku)
              \/ sku = bought /\ unit \in {Holder(task[t])} \X (1..q)
<1>1. /\ task[t].pc = "create" /\ task[t] \in CreateTasks
      /\ task \in [Calls -> Tasks]
  BY TaskShapes DEF ReserveLine, Sound, TypeOK, Tasks
<1>2. Len(Lines[s]) \in Nat /\ l <= Len(Lines[s])
  <2>1. Len(Lines[s]) \in Nat
    BY SnapshotAssumption
  <2>2. task[t].line <= Len(Lines[task[t].print.snapshot])
    BY DEF ReserveLine
  <2>3. QED
    BY <2>1, <2>2
<1>3. PICK x : x = [task[t] EXCEPT !.line = l + 1]
  OBVIOUS
<1>4. /\ x.pc = "create" /\ x.line = l + 1 /\ x.print.snapshot = s
      /\ x.id = task[t].id /\ x.print = task[t].print
  BY <1>1, <1>3 DEF CreateTasks
<1>5. task' = [task EXCEPT ![t] = x]
  BY <1>3 DEF ReserveLine
<1>6. \A u \in Calls : task'[u] = IF u = t THEN x ELSE task[u]
  BY <1>1, <1>5
<1>7. \A u \in Calls : Counts(task'[u])
  <2>1. Counts(x)
    BY <1>2, <1>4 DEF Counts
  <2>2. QED
    BY <1>6, <2>1 DEF Covered
<1>8. ASSUME NEW sku \in Skus, NEW unit \in Held(sku)'
      PROVE  \/ unit \in Held(sku)
             \/ sku = bought /\ unit \in {Holder(task[t])} \X (1..q)
  <2>1. PICK u \in Calls :
          /\ task'[u].pc = "create"
          /\ unit \in Units(Holder(task'[u]), task'[u].print.snapshot,
                            task'[u].line - 1, sku)
    BY <1>8 DEF Held, Holder, Owner
  <2>2. CASE u # t
    BY <1>6, <2>1, <2>2 DEF Held
  <2>3. CASE u = t
    <3>1. PICK a : a = Holder(task[t])
      OBVIOUS
    <3>2. Holder(x) = a
      BY <1>4, <3>1 DEF Holder
    <3>3. unit \in Units(a, s, l, sku)
      BY <1>4, <1>6, <2>1, <2>3, <3>2
    <3>4. PICK i \in 1..l : /\ Lines[s][i].sku = sku
                            /\ unit \in {a} \X (1..Lines[s][i].quantity)
      BY <3>3 DEF Units
    <3>5. CASE i = l
      BY <3>1, <3>4, <3>5
    <3>6. CASE i # l
      <4>1. i \in 1..(l - 1)
        BY <3>4, <3>6
      <4>2. unit \in Units(a, s, l - 1, sku)
        BY <3>4, <4>1 DEF Units
      <4>3. QED
        BY <1>1, <3>1, <4>2 DEF Held
    <3>7. QED
      BY <3>5, <3>6
  <2>4. QED
    BY <2>2, <2>3
<1>9. QED
  BY <1>7, <1>8

\* What a first reservation promises to whoever repeats its correlation id.
LEMMA SharedWhenReserved ==
  ASSUME Sound, NEW t \in Calls, task[t] \in CreateTasks,
         NEW bought \in Skus, NEW q \in Nat,
         bought = Lines[task[t].print.snapshot][task[t].line].sku,
         answers' = Answered(t, q, "RESERVED")
  PROVE  \A sku \in Skus : \A unit \in Shared(sku)' :
           \/ unit \in Shared(sku)
           \/ sku = bought /\ unit \in {Holder(task[t])} \X (1..q)
<1>1. SUFFICES ASSUME NEW sku \in Skus, NEW unit \in Shared(sku)'
               PROVE  \/ unit \in Shared(sku)
                      \/ sku = bought /\ unit \in {Holder(task[t])} \X (1..q)
  OBVIOUS
<1>2. PICK r \in Correlations :
        /\ \E k \in Nat : answers'[<<sku, r>>] = Completed(k, "RESERVED")
        /\ unit \in {<<r>>} \X (1..answers'[<<sku, r>>].fingerprint)
  BY <1>1 DEF Shared, Promised
<1>3. <<sku, r>> \in DOMAIN answers
  BY DEF Sound, TypeOK
<1>4. CASE sku = bought /\ r = task[t].print.correlation
  <2>1. answers'[<<sku, r>>] = Completed(q, "RESERVED")
    BY <1>3, <1>4 DEF Answered
  <2>2. answers'[<<sku, r>>].fingerprint = q
    BY <2>1 DEF Completed
  <2>3. Holder(task[t]) = <<r>>
    BY <1>4 DEF Holder, Owner
  <2>4. QED
    BY <1>2, <1>4, <2>2, <2>3
<1>5. CASE ~(sku = bought /\ r = task[t].print.correlation)
  <2>1. answers'[<<sku, r>>] = answers[<<sku, r>>]
    BY <1>3, <1>5 DEF Answered
  <2>2. QED
    BY <1>2, <2>1 DEF Shared, Promised
<1>6. QED
  BY <1>4, <1>5

\* A step that claims no more than it is granted leaves the claims covered.
LEMMA CoveredGrows ==
  ASSUME Sound, Covered, NEW bought \in Skus, NEW q \in Nat, NEW a,
         granted' = [granted EXCEPT ![bought] = granted[bought] + q],
         \A t \in Calls : Counts(task'[t]),
         \A sku \in Skus : \A unit \in Claimed(sku)' :
           \/ unit \in Claimed(sku)
           \/ sku = bought /\ unit \in {a} \X (1..q)
  PROVE  Covered'
<1>1. ASSUME NEW sku \in Skus
      PROVE  IsFiniteSet(Claimed(sku)') /\ Cardinality(Claimed(sku)') <= granted'[sku]
  <2>1. PICK A, C, N : /\ A = Claimed(sku) /\ C = Claimed(sku)'
                       /\ N = IF sku = bought THEN {a} \X (1..q) ELSE {}
    OBVIOUS
  <2>2. IsFiniteSet(N) /\ Cardinality(N) = IF sku = bought THEN q ELSE 0
    <3>1. CASE sku = bought
      <4>1. N = {a} \X (1..q)
        BY <2>1, <3>1
      <4>2. IsFiniteSet({a} \X (1..q)) /\ Cardinality({a} \X (1..q)) = q
        BY LineUnitsCount, Zenon
      <4>3. QED
        BY <3>1, <4>1, <4>2
    <3>2. CASE sku # bought
      BY <2>1, <3>2, FS_EmptySet
    <3>3. QED
      BY <3>1, <3>2
  <2>3. C \subseteq A \cup N
    BY <2>1
  <2>4. IsFiniteSet(A) /\ Cardinality(A) <= granted[sku]
    BY <2>1 DEF Covered
  <2>5. /\ IsFiniteSet(C)
        /\ Cardinality(A) \in Nat /\ Cardinality(N) \in Nat /\ Cardinality(C) \in Nat
        /\ Cardinality(C) <= Cardinality(A) + Cardinality(N)
    BY <2>2, <2>3, <2>4, CountWithin
  <2>6. /\ granted[sku] \in Nat
        /\ granted'[sku] = IF sku = bought THEN granted[sku] + q ELSE granted[sku]
    BY DEF Sound, TypeOK
  <2>7. Cardinality(C) <= granted'[sku]
    BY <2>2, <2>4, <2>5, <2>6
  <2>8. QED
    BY <2>1, <2>5, <2>7
<1>2. QED
  BY <1>1 DEF Covered

\* What another caller reserved under a correlation id is promised to whoever
\* repeats the id.
LEMMA CoveredElsewhere ==
  ASSUME Sound, Covered, Elsewhere
  PROVE  Covered'
<1>1. PICK bought \in Skus, r \in Correlations, q \in Nat :
        /\ answers' = [answers EXCEPT ![<<bought, r>>] = Completed(q, "RESERVED")]
        /\ granted' = [granted EXCEPT ![bought] = granted[bought] + q]
        /\ UNCHANGED <<orders, transitions, record, task>>
  BY ElsewhereSteps
<1>2. \A sku \in Skus : Owed(sku)' = Owed(sku)
  BY <1>1, OwedStays
<1>3. \A sku \in Skus : Held(sku)' = Held(sku)
  BY <1>1 DEF Held, Holder, Owner
<1>4. ASSUME NEW sku \in Skus, NEW unit \in Shared(sku)'
      PROVE  unit \in Shared(sku) \/ (sku = bought /\ unit \in {<<r>>} \X (1..q))
  <2>1. PICK c \in Correlations :
          /\ \E k \in Nat : answers'[<<sku, c>>] = Completed(k, "RESERVED")
          /\ unit \in {<<c>>} \X (1..answers'[<<sku, c>>].fingerprint)
    BY <1>4 DEF Shared, Promised
  <2>2. <<sku, c>> \in DOMAIN answers
    BY DEF Sound, TypeOK
  <2>3. CASE sku = bought /\ c = r
    <3>1. answers'[<<sku, c>>] = Completed(q, "RESERVED")
      BY <1>1, <2>2, <2>3
    <3>2. answers'[<<sku, c>>].fingerprint = q
      BY <3>1 DEF Completed
    <3>3. QED
      BY <2>1, <2>3, <3>2
  <2>4. CASE ~(sku = bought /\ c = r)
    <3>1. <<sku, c>> # <<bought, r>>
      BY <2>4
    <3>2. answers'[<<sku, c>>] = answers[<<sku, c>>]
      BY <1>1, <2>2, <3>1
    <3>3. /\ \E k \in Nat : Promised(sku, c, k)
          /\ unit \in {<<c>>} \X (1..answers[<<sku, c>>].fingerprint)
      BY <2>1, <3>2 DEF Promised
    <3>4. unit \in Shared(sku)
      BY <3>3 DEF Shared
    <3>5. QED
      BY <3>4
  <2>5. QED
    BY <2>3, <2>4
<1>5. \A sku \in Skus : \A unit \in Claimed(sku)' :
        unit \in Claimed(sku) \/ (sku = bought /\ unit \in {<<r>>} \X (1..q))
  <2>1. ASSUME NEW sku \in Skus, NEW unit \in Claimed(sku)'
        PROVE  unit \in Claimed(sku) \/ (sku = bought /\ unit \in {<<r>>} \X (1..q))
    <3>1. CASE unit \in Shared(sku)'
      BY <1>4, <3>1 DEF Claimed
    <3>2. CASE unit \in Owed(sku)' \/ unit \in Held(sku)'
      BY <1>2, <1>3, <3>2 DEF Claimed
    <3>3. QED
      BY <2>1, <3>1, <3>2 DEF Claimed
  <2>2. QED
    BY <2>1
<1>6. \A t \in Calls : Counts(task'[t])
  BY <1>1 DEF Covered
<1>7. QED
  BY <1>1, <1>5, <1>6, CoveredGrows

\* A line reserved for the first time is claimed and granted; one answered
\* again was claimed already.
LEMMA CoveredReserve ==
  ASSUME Sound, Covered, NEW t \in Calls, ReserveLine(t)
  PROVE  Covered'
<1>1. task[t].pc = "create" /\ task[t] \in CreateTasks
  BY TaskShapes DEF ReserveLine, Sound
<1>2. PICK s \in Snapshots, l \in Nat \ {0} : s = task[t].print.snapshot /\ l = task[t].line
  BY <1>1 DEF CreateTasks, CreatePrints
<1>3. l <= Len(Lines[s])
  BY <1>2 DEF ReserveLine
<1>4. PICK bought \in Skus, q \in Nat : bought = Lines[s][l].sku /\ q = Lines[s][l].quantity
  BY <1>3, SnapshotLines
<1>5. /\ \A u \in Calls : Counts(task'[u])
      /\ \A sku \in Skus : \A unit \in Held(sku)' :
           \/ unit \in Held(sku)
           \/ sku = bought /\ unit \in {Holder(task[t])} \X (1..q)
  BY <1>2, <1>4, HeldWhenReserved
<1>6. \A sku \in Skus : Owed(sku)' = Owed(sku)
  BY OwedStays DEF ReserveLine
<1>7. CASE UNCHANGED <<granted, answers>> /\ Repeated(t, Lines[s][l])
  <2>1. PICK r \in Correlations : r = task[t].print.correlation
    BY <1>7 DEF Repeated
  <2>2. answers[<<bought, r>>] = Completed(q, "RESERVED")
    BY <1>4, <1>7, <2>1 DEF Repeated
  <2>3. answers[<<bought, r>>].fingerprint = q /\ Holder(task[t]) = <<r>>
    BY <2>1, <2>2 DEF Completed, Holder, Owner
  <2>4. {Holder(task[t])} \X (1..q) \subseteq Shared(bought)
    BY <2>2, <2>3 DEF Shared, Promised
  <2>5. \A sku \in Skus : Shared(sku)' = Shared(sku)
    BY <1>7, SharedStays
  <2>6. \A sku \in Skus : Claimed(sku)' \subseteq Claimed(sku)
    BY <1>5, <1>6, <2>4, <2>5 DEF Claimed
  <2>7. QED
    BY <1>5, <1>7, <2>6, CoveredStays DEF Sound
<1>8. CASE /\ granted' = [granted EXCEPT ![bought] = granted[bought] + q]
           /\ answers' = Answered(t, q, "RESERVED")
  <2>1. \A sku \in Skus : \A unit \in Shared(sku)' :
          \/ unit \in Shared(sku)
          \/ sku = bought /\ unit \in {Holder(task[t])} \X (1..q)
    <3>1. bought = Lines[task[t].print.snapshot][task[t].line].sku
      BY <1>2, <1>4
    <3>2. QED
      BY <1>1, <1>8, <3>1, SharedWhenReserved
  <2>2. \A sku \in Skus : \A unit \in Claimed(sku)' :
          \/ unit \in Claimed(sku)
          \/ sku = bought /\ unit \in {Holder(task[t])} \X (1..q)
    BY <1>5, <1>6, <2>1 DEF Claimed
  <2>3. QED
    BY <1>5, <1>8, <2>2, CoveredGrows
<1>9. QED
  BY <1>2, <1>4, <1>7, <1>8, ZenonT(60) DEF ReserveLine

\* An inserted order is owed what its call held.
LEMMA CoveredInsert ==
  ASSUME Sound, Covered, NEW t \in Calls, NEW o \in OrderIds, Placed(t, o),
         task[t].line > Len(Lines[task[t].print.snapshot]), UNCHANGED <<granted, answers>>
  PROVE  Covered'
<1>1. /\ task[t].pc = "create" /\ task[t] \in CreateTasks
      /\ task \in [Calls -> Tasks]
      /\ orders \in [OrderIds -> {NoOrder} \cup OrderRows]
      /\ Counts(task[t])
  BY DEF Placed, Sound, TypeOK, Tasks, Covered
<1>2. PICK s \in Snapshots, l \in Nat \ {0} : s = task[t].print.snapshot /\ l = task[t].line
  BY <1>1 DEF CreateTasks, CreatePrints
<1>3. PICK n \in Nat : n = Len(Lines[s])
  BY SnapshotAssumption
<1>4. l - 1 = n
  BY <1>1, <1>2, <1>3 DEF Counts
<1>5. PICK row : row = PlacedRow(task[t])
  OBVIOUS
<1>6. \A sku : Stands(row, sku) = Units(Holder(task[t]), s, l - 1, sku)
  BY <1>2, <1>3, <1>4, <1>5 DEF PlacedRow, Stands, Holder
<1>7. \A p \in OrderIds : orders'[p] = IF p = o THEN row ELSE orders[p]
  BY <1>1, <1>5 DEF Placed
<1>8. PICK x : x = [pc |-> "complete", id |-> task[t].id, print |-> task[t].print,
                    result |-> o]
  OBVIOUS
<1>9. task' = [task EXCEPT ![t] = x] /\ Counts(x) /\ x.pc # "create"
  BY <1>8 DEF Placed, Completing, Counts
<1>10. /\ \A u \in Calls : Counts(task'[u])
       /\ \A sku \in Skus : Held(sku)' \subseteq Held(sku)
  BY <1>9, HeldStays DEF Sound
<1>11. ASSUME NEW sku \in Skus, NEW unit \in Owed(sku)'
       PROVE  unit \in Owed(sku) \cup Held(sku)
  <2>1. PICK p \in OrderIds : p \in LiveOrders' /\ unit \in Stands(orders'[p], sku)
    BY <1>11 DEF Owed, LiveOrders, Stands, Owner
  <2>2. CASE p = o
    <3>1. unit \in Units(Holder(task[t]), s, l - 1, sku)
      BY <1>6, <1>7, <2>1, <2>2
    <3>2. QED
      BY <1>1, <1>2, <3>1 DEF Held
  <2>3. CASE p # o
    <3>1. orders'[p] = orders[p] /\ p \in LiveOrders
      BY <1>7, <2>1, <2>3 DEF LiveOrders
    <3>2. QED
      BY <2>1, <3>1 DEF Owed, Stands
  <2>4. QED
    BY <2>2, <2>3
<1>12. \A sku \in Skus : Shared(sku)' = Shared(sku)
  BY SharedStays
<1>13. \A sku \in Skus : Claimed(sku)' \subseteq Claimed(sku)
  BY <1>10, <1>11, <1>12 DEF Claimed
<1>14. QED
  BY <1>10, <1>13, CoveredStays DEF Sound

\* A call does something else, and no order or answer brings a new claim.
LEMMA CoveredBegin ==
  ASSUME Sound, Covered, NEW t \in Calls, NEW x, Counts(x), x.pc = "create" => x.line = 1,
         task' = [task EXCEPT ![t] = x], UNCHANGED granted,
         \A sku \in Skus : Owed(sku)' \subseteq Owed(sku),
         \A sku \in Skus : Shared(sku)' \subseteq Shared(sku)
  PROVE  Covered'
<1>1. /\ \A u \in Calls : Counts(task'[u])
      /\ \A sku \in Skus : Held(sku)' \subseteq Held(sku)
  BY HeldStays DEF Sound
<1>2. \A sku \in Skus : Claimed(sku)' \subseteq Claimed(sku)
  BY <1>1 DEF Claimed
<1>3. QED
  BY <1>1, <1>2, CoveredStays DEF Sound

\* The call ends, or goes on to its end.
LEMMA CoveredLeave ==
  ASSUME Sound, Covered, NEW t \in Calls,
         \/ Finish(t)
         \/ \E step \in {"abandon", "cancel"} : Goto(t, step)
         \/ \E o : Completing(t, o),
         UNCHANGED granted,
         \A sku \in Skus : Owed(sku)' \subseteq Owed(sku),
         \A sku \in Skus : Shared(sku)' \subseteq Shared(sku)
  PROVE  Covered'
<1>1. Fits(task[t])
  BY DEF Sound
<1>2. CASE Finish(t)
  <2>1. Counts(Idle) /\ Idle.pc # "create"
    BY DEF Counts, Idle
  <2>2. QED
    BY <1>2, <2>1, CoveredBegin DEF Finish
<1>3. ASSUME NEW step \in {"abandon", "cancel"}, Goto(t, step)
      PROVE  Covered'
  <2>1. PICK x : x = [task[t] EXCEPT !.pc = step]
    OBVIOUS
  <2>2. x.pc = step
    BY <1>1, <2>1 DEF Fits, Idle, CreateTasks, CancelTasks, CompleteTasks, TransitionTasks
  <2>3. Counts(x) /\ x.pc # "create"
    BY <2>2 DEF Counts
  <2>4. task' = [task EXCEPT ![t] = x]
    BY <1>3, <2>1 DEF Goto
  <2>5. QED
    BY <2>3, <2>4, CoveredBegin
<1>4. ASSUME NEW o, Completing(t, o)
      PROVE  Covered'
  <2>1. PICK x : x = [pc |-> "complete", id |-> task[t].id, print |-> task[t].print,
                      result |-> o]
    OBVIOUS
  <2>2. Counts(x) /\ x.pc # "create"
    BY <2>1 DEF Counts
  <2>3. task' = [task EXCEPT ![t] = x]
    BY <1>4, <2>1 DEF Completing
  <2>4. QED
    BY <2>2, <2>3, CoveredBegin
<1>5. QED
  BY <1>2, <1>3, <1>4

LEMMA CoveredAcquire ==
  ASSUME Sound, Covered, NEW t \in Calls, Acquire(t)
  PROVE  Covered'
<1>1. \A sku \in Skus : Owed(sku)' \subseteq Owed(sku) /\ Shared(sku)' \subseteq Shared(sku)
  BY OwedStays, SharedStays DEF Acquire
<1>2. CASE Finish(t)
  BY <1>1, <1>2, CoveredLeave DEF Acquire
<1>3. CASE ~Finish(t)
  <2>1. \/ task[t] \in CreateTasks /\ task[t].id[2] = "order.create"
        \/ task[t] \in CancelTasks /\ task[t].id[2] = "order.cancel"
    BY TaskShapes DEF Acquire, Sound
  <2>2. Goto(t, IF task[t].id[2] = "order.create" THEN "create" ELSE "cancel")
    BY <1>3 DEF Acquire
  <2>3. CASE task[t].id[2] = "order.cancel"
    <3>1. Goto(t, "cancel")
      BY <2>2, <2>3
    <3>2. QED
      BY <1>1, <3>1, CoveredLeave DEF Acquire
  <2>4. CASE task[t] \in CreateTasks /\ task[t].id[2] = "order.create"
    <3>1. PICK x : x = [task[t] EXCEPT !.pc = "create"]
      OBVIOUS
    <3>2. x.pc = "create" /\ x.line = task[t].line /\ x.print.snapshot \in Snapshots
      BY <2>4, <3>1 DEF CreateTasks, CreatePrints
    <3>3. task[t].line = 1
      BY <2>4 DEF Covered, Counts, Acquire
    <3>4. Len(Lines[x.print.snapshot]) \in Nat
      BY <3>2, SnapshotAssumption
    <3>5. Counts(x)
      BY <3>2, <3>3, <3>4 DEF Counts
    <3>6. task' = [task EXCEPT ![t] = x]
      BY <2>2, <2>4, <3>1 DEF Goto
    <3>7. QED
      BY <1>1, <3>2, <3>3, <3>5, <3>6, CoveredBegin DEF Acquire
  <2>5. QED
    BY <2>1, <2>3, <2>4
<1>4. QED
  BY <1>2, <1>3

\* The call throws: with a denial stored under its correlation id, or without.
LEMMA CoveredRefuse ==
  ASSUME Sound, Covered, NEW t \in Calls, RefuseLine(t)
  PROVE  Covered'
<1>1. task[t] \in CreateTasks /\ task[t].pc = "create"
  BY TaskShapes DEF RefuseLine, Sound
<1>2. PICK s \in Snapshots, l \in Nat \ {0} : s = task[t].print.snapshot /\ l = task[t].line
  BY <1>1 DEF CreateTasks, CreatePrints
<1>3. Lines[s][l].quantity \in Nat
  BY <1>2, SnapshotLines DEF RefuseLine
<1>4. \A sku \in Skus : Shared(sku)' \subseteq Shared(sku)
  <2>1. CASE UNCHANGED answers
    BY <2>1, SharedStays
  <2>2. CASE answers' = Answered(t, Lines[s][l].quantity, "DENIED")
    BY <1>3, <2>2, SharedWhenDenied
  <2>3. QED
    BY <1>2, <2>1, <2>2 DEF RefuseLine
<1>5. QED
  BY <1>4, OwedStays, CoveredLeave DEF RefuseLine

LEMMA CoveredInsertOrder ==
  ASSUME Sound, Covered, NEW t \in Calls, InsertOrder(t)
  PROVE  Covered'
<1>1. task[t] \in CreateTasks /\ task[t].pc = "create"
  BY TaskShapes DEF InsertOrder, Sound
<1>2. CASE \E o \in OrderIds : Placed(t, o)
  BY <1>2, CoveredInsert DEF InsertOrder
<1>3. CASE Goto(t, "abandon") /\ UNCHANGED orders
  BY <1>3, CoveredLeave, OwedStays, SharedStays DEF InsertOrder
<1>4. QED
  BY <1>1, <1>2, <1>3 DEF InsertOrder, Placed, PlacedRow

LEMMA CoveredSave ==
  ASSUME Sound, Covered, NEW t \in Calls, SaveTransition(t) \/ SaveCancel(t)
  PROVE  Covered'
<1>1. \A sku \in Skus : Owed(sku)' \subseteq Owed(sku)
  <2>1. CASE UNCHANGED <<orders, transitions>>
    BY <2>1, OwedStays
  <2>2. CASE ~UNCHANGED <<orders, transitions>>
    <3>1. PICK o \in OrderIds, from \in OrderStates, to \in OrderStates : Saved(o, from, to)
      BY <2>2, SavedByTransition, SavedByCancel
    <3>2. QED
      BY <3>1, OwedWhenSaved
  <2>3. QED
    BY <2>1, <2>2
<1>2. UNCHANGED <<granted, answers>>
  BY DEF SaveTransition, SaveCancel
<1>3. Finish(t) \/ Goto(t, "abandon") \/ \E o : Completing(t, o)
  BY DEF SaveTransition, SaveCancel
<1>4. QED
  BY <1>1, <1>2, <1>3, SharedStays, CoveredLeave

LEMMA CoveredNext ==
  ASSUME Sound, Covered, [Next]_vars
  PROVE  Covered'
<1>1. CASE UNCHANGED vars
  <2>1. /\ \A sku \in Skus : Owed(sku)' = Owed(sku) /\ Shared(sku)' = Shared(sku)
        /\ UNCHANGED <<task, granted>>
    BY <1>1, OwedStays, SharedStays DEF vars
  <2>2. \A sku \in Skus : Held(sku)' = Held(sku)
    BY <2>1 DEF Held, Holder, Owner
  <2>3. \A sku \in Skus : Claimed(sku)' \subseteq Claimed(sku)
    BY <2>1, <2>2 DEF Claimed
  <2>4. QED
    BY <2>1, <2>3, CoveredStays DEF Sound, Covered
<1>2. ASSUME NEW t \in Calls, NEW c \in Customers, NEW s \in Snapshots, NEW k \in Keys,
             NEW correlation, CreateOrder(t, c, s, k, correlation)
      PROVE  Covered'
  <2>1. PICK x : x = [pc |-> "acquire", id |-> <<c, "order.create", k>>,
                  print |-> [snapshot |-> s, correlation |-> correlation], line |-> 1]
    OBVIOUS
  <2>2. Counts(x) /\ x.pc # "create"
    BY <2>1 DEF Counts
  <2>3. task' = [task EXCEPT ![t] = x] /\ UNCHANGED <<orders, granted, answers>>
    BY <1>2, <2>1 DEF CreateOrder
  <2>4. QED
    BY <2>2, <2>3, OwedStays, SharedStays, CoveredBegin
<1>3. ASSUME NEW t \in Calls, NEW c \in Customers, NEW o \in OrderIds, NEW k \in Keys,
             CancelOrder(t, c, o, k)
      PROVE  Covered'
  <2>1. PICK x : x = [pc |-> "acquire", id |-> <<c, "order.cancel", k>>,
                  print |-> [order |-> o, version |-> orders[o].version],
                  seen |-> orders[o].state]
    OBVIOUS
  <2>2. Counts(x) /\ x.pc # "create"
    BY <2>1 DEF Counts
  <2>3. task' = [task EXCEPT ![t] = x] /\ UNCHANGED <<orders, granted, answers>>
    BY <1>3, <2>1 DEF CancelOrder
  <2>4. QED
    BY <2>2, <2>3, OwedStays, SharedStays, CoveredBegin
<1>4. ASSUME NEW t \in Calls, NEW o \in OrderIds, NEW to, NEW actor, NEW reasonGiven,
             TransitionOrder(t, o, to, actor, reasonGiven)
      PROVE  Covered'
  <2>1. PICK x : x = [pc |-> "transition", order |-> o, seen |-> orders[o].state,
                  version |-> orders[o].version, to |-> to]
    OBVIOUS
  <2>2. Counts(x) /\ x.pc # "create"
    BY <2>1 DEF Counts
  <2>3. task' = [task EXCEPT ![t] = x] /\ UNCHANGED <<orders, granted, answers>>
    BY <1>4, <2>1 DEF TransitionOrder
  <2>4. QED
    BY <2>2, <2>3, OwedStays, SharedStays, CoveredBegin
<1>5. ASSUME NEW t \in Calls, Abandon(t) \/ Complete(t) \/ Drop(t)
      PROVE  Covered'
  BY <1>5, OwedStays, SharedStays, CoveredLeave DEF Abandon, Complete, Drop
<1>6. CASE Elsewhere
  BY <1>6, CoveredElsewhere
<1>7. CASE Next /\ ~Elsewhere
  BY <1>7, <1>2, <1>3, <1>4, <1>5, CoveredAcquire, CoveredReserve, CoveredRefuse,
     CoveredInsertOrder, CoveredSave DEF Next, Elsewhere
<1>8. QED
  BY <1>1, <1>6, <1>7

LEMMA CoveredInit ==
  ASSUME Init
  PROVE  Covered
<1>1. LiveOrders = {} /\ \A t \in Calls : task[t] = Idle
  BY DEF Init, LiveOrders
<1>2. Counts(Idle) /\ Idle.pc # "create"
  BY DEF Counts, Idle
<1>3. \A sku \in Skus, r \in Correlations, q \in Nat : ~Promised(sku, r, q)
  BY DEF Init, Promised, Absent, Completed
<1>4. \A sku \in Skus : Claimed(sku) = {}
  BY <1>1, <1>2, <1>3 DEF Claimed, Owed, Held, Shared
<1>5. IsFiniteSet({}) /\ Cardinality({}) = 0
  BY FS_EmptySet
<1>6. \A sku \in Skus : granted[sku] = 0
  BY DEF Init
<1>7. QED
  BY <1>1, <1>2, <1>4, <1>5, <1>6 DEF Covered

\* Whatever the number of orders, lines and calls, whatever correlation ids
\* clients send, and however module 05 answers and calls fail: the orders
\* still to be shipped ask for no more units than module 05 granted, counted
\* once for the requests that shared a correlation id.
THEOREM OrdersAreGranted == Spec => []OrdersStandOnGrants
<1>1. Init => Sound /\ Covered
  BY SoundInit, CoveredInit
<1>2. (Sound /\ Covered) /\ [Next]_vars => (Sound /\ Covered)'
  BY SoundNext, CoveredNext
<1>3. Sound /\ Covered => OrdersStandOnGrants
  <2>1. ASSUME Sound, Covered, NEW sku \in Skus
        PROVE  Cardinality(Owed(sku)) <= granted[sku]
    <3>1. PICK A, C : A = Claimed(sku) /\ C = Owed(sku)
      OBVIOUS
    <3>2. C \subseteq A /\ IsFiniteSet(A) /\ Cardinality(A) <= granted[sku]
      BY <2>1, <3>1 DEF Covered, Claimed
    <3>3. IsFiniteSet(C) /\ Cardinality(C) <= Cardinality(A)
      BY <3>2, FS_Subset
    <3>4. /\ Cardinality(A) \in Nat /\ Cardinality(C) \in Nat
          /\ granted[sku] \in Nat
      BY <2>1, <3>2, <3>3, FS_CardinalityType DEF Sound, TypeOK
    <3>5. QED
      BY <3>1, <3>2, <3>3, <3>4
  <2>2. QED
    BY <2>1 DEF OrdersStandOnGrants
<1>4. QED
  BY <1>1, <1>2, <1>3, PTL DEF Spec

===============================================================================
