--------------------------------- MODULE Cart ---------------------------------
(***************************************************************************)
(* Module 07, CartApplicationService over PrismaCartRepository, and the     *)
(* reservations it makes in module 05.                                      *)
(*                                                                          *)
(* Every operation has the same course, one step per await that matters:    *)
(* the cart is read and its version checked, its lines are read, module 05  *)
(* is asked to reserve or release line by line, and the change set is saved *)
(* under the version read first.  Nothing spans module 05 and the save, and *)
(* the process may die in between.                                          *)
(*                                                                          *)
(* Stock is the abstract stock that StockPool is shown to implement.  The   *)
(* requests carry the correlation id of the client, if it supplies one, and *)
(* module 05 answers a reservation it has answered under that id as before, *)
(* without reserving.  The idempotency rows of addItem, clearCart and       *)
(* checkoutHandoff are left out: they can only end a call before its first  *)
(* effect, as Drop does.                                                    *)
(***************************************************************************)
EXTENDS Integers, FiniteSets, IdempotencyRecords

CONSTANTS
  Customers, Skus, Calls,
  Correlations, NoCorrelation,   \* correlation ids clients supply, or none
  MaxQuantity,   \* DEFAULT_MAX_QUANTITY: items on one line
  MaxLines,      \* DEFAULT_MAX_LINES
  MaxItems,      \* DEFAULT_MAX_TOTAL_ITEMS
  MaxUnits       \* what a quantity column of module 05 holds

ASSUME CatalogAssumption == IsFiniteSet(Skus)

ASSUME LimitsAssumption == {MaxQuantity, MaxLines, MaxItems, MaxUnits} \subseteq Nat

ASSUME CorrelationAssumption == NoCorrelation \notin Correlations

VARIABLES
  carts,      \* [Customers -> cart row]          carts, one per customer
  lines,      \* [Customers -> [Skus -> Nat]]     cart_lines: 0 is no line
  snapshots,  \* [Customers -> SUBSET contents]   CartSnapshots handed over
  onHand,     \* [Skus -> Nat]                    module 05
  reserved,   \* [Skus -> Nat]                    module 05
  answers,    \* [Skus \X Correlations -> row]   reservations module 05 answered
  confirmed,  \* [Customers -> [Skus -> Nat]]     units module 05 ever told the
              \*                                  customer's calls RESERVED (history)
  task        \* [Calls -> what a call is doing]

cartVars == <<carts, lines, snapshots, onHand, reserved, answers, confirmed, task>>

\* Module 05 as module 07 sees it.
M05 == INSTANCE Stock

Contents == [Skus -> 0..MaxQuantity]

NoLines == [s \in Skus |-> 0]

NoCart == [state |-> "NONE", totalLines |-> 0, totalItems |-> 0, version |-> 0]

CartRows == [state : {"ACTIVE", "CHECKED_OUT", "AUTO_EXPIRED"},
             totalLines : Nat, totalItems : Nat, version : Nat \ {0}]

\* A row planned from a cart and lines that do not belong together may have a
\* total no cart can have; it is never saved.
PlannedRows == [state : {"ACTIVE", "CHECKED_OUT", "AUTO_EXPIRED"},
                totalLines : Nat, totalItems : Int, version : Nat \ {0}]

Supplied == Correlations \cup {NoCorrelation}

\* The operations a call may be, with the correlation id of those that reserve;
\* what module 05 answers to a release is not looked at.
Operations ==
  [name : {"addItem", "updateItemQuantity"}, sku : Skus, quantity : 1..MaxQuantity,
   correlation : Supplied]
  \cup [name : {"removeItem"}, sku : Skus]
  \cup [name : {"clearCart", "checkoutHandoff", "expireCart"}]

\* What module 05 keeps of a reservation: the units and the outcome.
Answers == Rows({}, Nat, {"RESERVED", "DENIED"})

Idle == [pc |-> "idle"]

\* A call that has read the cart row seen.
ReadTasks == [pc : {"lines"}, customer : Customers, operation : Operations,
              seen : {NoCart} \cup CartRows]

\* A call that knows what to save, and what to ask of module 05 before: so many
\* units of a SKU to reserve, or if negative to release.
SaveTasks == [pc : {"stock"}, customer : Customers, version : Nat,
              correlation : Supplied, asks : [Skus -> Int],
              row : PlannedRows, contents : Contents]

CartTypeOK ==
  /\ carts \in [Customers -> {NoCart} \cup CartRows]
  /\ lines \in [Customers -> Contents]
  /\ snapshots \in [Customers -> SUBSET Contents]
  /\ onHand \in [Skus -> 0..MaxUnits]
  /\ reserved \in [Skus -> 0..MaxUnits]
  /\ answers \in [Skus \X Correlations -> Answers]
  /\ confirmed \in [Customers -> [Skus -> Nat]]
  /\ task \in [Calls -> {Idle} \cup ReadTasks \cup SaveTasks]

CartInit ==
  /\ carts = [c \in Customers |-> NoCart]
  /\ lines = [c \in Customers |-> NoLines]
  /\ snapshots = [c \in Customers |-> {}]
  /\ M05!Init
  /\ answers = [i \in Skus \X Correlations |-> Absent]
  /\ confirmed = [c \in Customers |-> NoLines]
  /\ task = [t \in Calls |-> Idle]

Finish(t) == task' = [task EXCEPT ![t] = Idle]

\* The items on a line and in a cart, told apart to be counted, and its lines.
LineItems(s, quantity) == {s} \X (1..quantity)

Items(contents) == UNION {LineItems(s, contents[s]) : s \in Skus}

ItemsIn(contents) == Cardinality(Items(contents))

LinesIn(contents) == {s \in Skus : contents[s] > 0}

-------------------------------------------------------------------------------
(* Faulty variants, each a bug the code could have.                           *)

\* the version is not part of the WHERE clause
SavableAlways(t) == TRUE

\* an aggregated line leaves the cart's total as it was
TotalsOfNewLinesOnly(seen, delta, count) ==
  [seen EXCEPT !.totalItems = IF count = seen.totalLines THEN @ ELSE @ + delta,
               !.totalLines = count, !.version = @ + 1]

\* a denied reservation is skipped
DenialSkipped(t, s) ==
  /\ task[t].pc = "stock"
  /\ task[t].asks[s] > 0
  /\ task' = [task EXCEPT ![t].asks[s] = 0]
  /\ UNCHANGED <<carts, lines, snapshots, onHand, reserved, answers, confirmed>>

\* a cart can be changed in any state
MutableAlways(row) == row # NoCart

-------------------------------------------------------------------------------
(* The four operations a customer works on the cart with, the handoff to      *)
(* module 08, and the expiry an administrator or the system asks for.         *)

\* assertMutable; expireCart asks the same of the state.
Mutable(row) == row.state = "ACTIVE"

\* The cart is read; only addItem can do without one.
ReadCart(t, c, operation) ==
  /\ task[t] = Idle
  /\ \/ Mutable(carts[c])
     \/ carts[c] = NoCart /\ operation.name = "addItem"
  /\ operation.name = "checkoutHandoff" => carts[c].totalLines # 0
  /\ task' = [task EXCEPT ![t] =
       [pc |-> "lines", customer |-> c, operation |-> operation, seen |-> carts[c]]]
  /\ UNCHANGED <<carts, lines, snapshots, onHand, reserved, answers, confirmed>>

\* advanceCart: the totals are carried along, not counted again.
Advanced(seen, delta, count) ==
  [seen EXCEPT !.totalItems = @ + delta, !.totalLines = count, !.version = @ + 1]

\* The cart row addItem creates.
Created(quantity) ==
  [state |-> "ACTIVE", totalLines |-> 1, totalItems |-> quantity, version |-> 1]

\* A call plans to save row and contents after asking module 05 for asks.
Plan(t, row, contents, asks, correlation) ==
  task' = [task EXCEPT ![t] =
    [pc |-> "stock", customer |-> task[t].customer, version |-> task[t].seen.version,
     correlation |-> correlation, asks |-> asks, row |-> row, contents |-> contents]]

\* Who read no cart reads no lines either.
LinesRead(t) ==
  IF task[t].seen = NoCart THEN NoLines ELSE lines[task[t].customer]

\* One line changes by delta to quantity.  The lines are only counted if there
\* is one more or one less.
PlanLine(t, s, quantity, delta, correlation) ==
  LET seen == task[t].seen
      now == LinesRead(t)
      contents == [now EXCEPT ![s] = quantity]
      count == IF now[s] = 0 \/ quantity = 0 THEN Cardinality(LinesIn(contents))
               ELSE seen.totalLines
  IN  Plan(t,
        IF seen = NoCart THEN Created(quantity) ELSE Advanced(seen, delta, count),
        contents, [NoLines EXCEPT ![s] = delta], correlation)

\* (faulty variant: an aggregated quantity is not validated again)
AddItemUnbounded(t) ==
  LET now == LinesRead(t)
      s == task[t].operation.sku
  IN  /\ task[t].operation.name = "addItem"
      /\ PlanLine(t, s, now[s] + task[t].operation.quantity, task[t].operation.quantity,
                  task[t].operation.correlation)

\* A new line must fit the cart; one that grows is only bounded by itself.
AddItem(t) ==
  LET now == LinesRead(t)
      s == task[t].operation.sku
      quantity == task[t].operation.quantity
  IN  /\ task[t].operation.name = "addItem"
      /\ now[s] + quantity <= MaxQuantity
      /\ (task[t].seen # NoCart /\ now[s] = 0) =>
           /\ Cardinality(LinesIn(now)) < MaxLines
           /\ task[t].seen.totalItems + quantity <= MaxItems
      /\ PlanLine(t, s, now[s] + quantity, quantity, task[t].operation.correlation)

UpdateItemQuantity(t) ==
  LET now == LinesRead(t)
      s == task[t].operation.sku
      quantity == task[t].operation.quantity
  IN  /\ task[t].operation.name = "updateItemQuantity"
      /\ now[s] \notin {0, quantity}
      /\ PlanLine(t, s, quantity, quantity - now[s], task[t].operation.correlation)

RemoveItem(t) ==
  LET now == LinesRead(t)
      s == task[t].operation.sku
  IN  /\ task[t].operation.name = "removeItem"
      /\ now[s] # 0
      /\ PlanLine(t, s, 0, -now[s], NoCorrelation)

\* Every line is released; the cart is emptied, or leaves the ACTIVE state with
\* its lines kept.
ReleaseAll(t) ==
  LET now == LinesRead(t)
      seen == task[t].seen
      release == [s \in Skus |-> -now[s]]
      ended(state) == [seen EXCEPT !.state = state, !.version = @ + 1]
  IN  \/ /\ task[t].operation.name = "clearCart"
         /\ now # NoLines
         /\ Plan(t, [seen EXCEPT !.totalLines = 0, !.totalItems = 0, !.version = @ + 1],
                 NoLines, release, NoCorrelation)
      \/ /\ task[t].operation.name = "checkoutHandoff"
         /\ now # NoLines
         /\ Plan(t, ended("CHECKED_OUT"), now, release, NoCorrelation)
      \/ /\ task[t].operation.name = "expireCart"
         /\ Plan(t, ended("AUTO_EXPIRED"), now, release, NoCorrelation)

\* The lines are read and the operation is judged by them.
ReadLines(t) ==
  /\ task[t].pc = "lines"
  /\ AddItem(t) \/ UpdateItemQuantity(t) \/ RemoveItem(t) \/ ReleaseAll(t)
  /\ UNCHANGED <<carts, lines, snapshots, onHand, reserved, answers, confirmed>>

\* Module 05 answers a reservation of a SKU under a correlation id once, and then
\* repeats the answer to whoever asks for as much under it.
FirstAsked(s, correlation) ==
  correlation \in Correlations => answers[<<s, correlation>>] = Absent

KeepAnswer(s, correlation, units, result) ==
  answers' = [i \in DOMAIN answers |->
    IF i = <<s, correlation>> THEN Completed(units, result) ELSE answers[i]]

Repeats(s, correlation, units) ==
  /\ correlation \in Correlations
  /\ answers[<<s, correlation>>] = Completed(units, "RESERVED")

\* Module 05 answers RESERVED, and reserves what is asked for unless it did under
\* this correlation id before.
Reserve(t, s) ==
  LET correlation == task[t].correlation
      units == task[t].asks[s]
  IN  /\ task[t].pc = "stock"
      /\ units > 0
      /\ \/ /\ FirstAsked(s, correlation)
            /\ M05!Reserve(s, units)
            /\ KeepAnswer(s, correlation, units, "RESERVED")
         \/ /\ Repeats(s, correlation, units)
            /\ UNCHANGED <<onHand, reserved, answers>>
      /\ confirmed' = [confirmed EXCEPT ![task[t].customer][s] = @ + units]
      /\ task' = [task EXCEPT ![t].asks[s] = 0]
      /\ UNCHANGED <<carts, lines, snapshots>>

\* Module 05 answers DENIED or FAILED, for the first time or as before, or the
\* correlation id was used for another quantity: the call throws.
ReserveDenied(t, s) ==
  LET correlation == task[t].correlation IN
  /\ task[t].pc = "stock"
  /\ task[t].asks[s] > 0
  /\ \/ UNCHANGED answers
     \/ /\ FirstAsked(s, correlation)
        /\ KeepAnswer(s, correlation, task[t].asks[s], "DENIED")
  /\ Finish(t)
  /\ UNCHANGED <<carts, lines, snapshots, onHand, reserved, confirmed>>

\* Module 05 releases, or answers anything else, a repeated answer among it:
\* nobody looks at the answer.
Release(t, s) ==
  /\ task[t].pc = "stock"
  /\ task[t].asks[s] < 0
  /\ M05!Release(s, -task[t].asks[s]) \/ UNCHANGED <<onHand, reserved>>
  /\ task' = [task EXCEPT ![t].asks[s] = 0]
  /\ UNCHANGED <<carts, lines, snapshots, answers, confirmed>>

\* The row read first is still there (insert: there is none yet).
Savable(t) == carts[task[t].customer].version = task[t].version

\* repository.save or insert: row and lines in one transaction, or nothing.  A
\* handoff returns the snapshot taken when the lines were read.
Save(t) ==
  LET c == task[t].customer IN
  /\ task[t].pc = "stock"
  /\ task[t].asks = NoLines
  /\ \/ /\ Savable(t)
        /\ carts' = [carts EXCEPT ![c] = task[t].row]
        /\ lines' = [lines EXCEPT ![c] = task[t].contents]
        /\ snapshots' = IF task[t].row.state = "CHECKED_OUT"
             THEN [snapshots EXCEPT ![c] = @ \cup {task[t].contents}]
             ELSE snapshots
     \/ ~Savable(t) /\ UNCHANGED <<carts, lines, snapshots>>
  /\ Finish(t)
  /\ UNCHANGED <<onHand, reserved, answers, confirmed>>

-------------------------------------------------------------------------------

\* Sellers and administrators move the stock meanwhile.
MoveStock(s, units) ==
  /\ M05!Move(s, units)
  /\ UNCHANGED <<carts, lines, snapshots, answers, confirmed, task>>

\* Module 08, or another client, reserves stock, maybe under the same id.
ReservedElsewhere(s, correlation, units) ==
  /\ FirstAsked(s, correlation)
  /\ M05!Reserve(s, units)
  /\ KeepAnswer(s, correlation, units, "RESERVED")
  /\ UNCHANGED <<carts, lines, snapshots, confirmed, task>>

\* The operation is refused by the lines it read, or the process serving the
\* call dies: nothing is undone.
Drop(t) ==
  /\ task[t] # Idle
  /\ Finish(t)
  /\ UNCHANGED <<carts, lines, snapshots, onHand, reserved, answers, confirmed>>

CartNext ==
  \/ \E s \in Skus, units \in 0..MaxUnits :
       \/ MoveStock(s, units)
       \/ \E correlation \in Supplied : units > 0 /\ ReservedElsewhere(s, correlation, units)
  \/ \E t \in Calls :
       \/ \E c \in Customers, operation \in Operations : ReadCart(t, c, operation)
       \/ ReadLines(t)
       \/ \E s \in Skus : Reserve(t, s) \/ ReserveDenied(t, s) \/ Release(t, s)
       \/ Save(t)
       \/ Drop(t)

CartSpec == CartInit /\ [][CartNext]_cartVars

-------------------------------------------------------------------------------

\* The totals a cart carries along are those of its lines, whatever concurrent
\* calls read before they saved.
TotalsMatchLines ==
  \A c \in Customers :
    /\ carts[c].totalLines = Cardinality(LinesIn(lines[c]))
    /\ carts[c].totalItems = ItemsIn(lines[c])

\* The snapshot handed to module 08 is what the cart holds, from the handoff on
\* and for ever: no call that read the cart before it can change the cart after
\* it, or hand it over again.
SnapshotIsTheCart ==
  \A c \in Customers :
    snapshots[c] = IF carts[c].state = "CHECKED_OUT" THEN {lines[c]} ELSE {}

\* A cart that left the ACTIVE state keeps its row and its lines.
EndedCartsStay ==
  [][\A c \in Customers :
       carts[c].state \in {"CHECKED_OUT", "AUTO_EXPIRED"} =>
         carts'[c] = carts[c] /\ lines'[c] = lines[c]]_cartVars

\* Nothing is in a cart that module 05 did not answer RESERVED for to a call of its
\* customer: no denial, failure, lost race or crash lets a unit through.  The
\* answers need not be reservations of their own: under one correlation id
\* module 05 answers RESERVED again without reserving, so lines may rest on a
\* reservation that was counted, released or made by another client before.
LinesWereConfirmed ==
  \A c \in Customers, s \in Skus : lines[c][s] <= confirmed[c][s]
===============================================================================
