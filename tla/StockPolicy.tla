----------------------------- MODULE StockPolicy -----------------------------
(***************************************************************************)
(* InventoryStockPolicy of module 05: what a movement, a reservation and a  *)
(* release make of a stock pool, and when they are denied.  A pool is a     *)
(* record with the fields onHand, reserved and version.                     *)
(***************************************************************************)
EXTENDS Integers

CONSTANTS
  MaxUnits,          \* what a quantity column holds
  MaxMutationUnits   \* MAX_MUTATION_UNITS: the bound on one movement

ASSUME UnitsAssumption ==
  /\ MaxUnits \in Nat
  /\ MaxMutationUnits \in Nat \ {0}

Deltas == 1..MaxMutationUnits

Units == 0..MaxUnits

\* What a caller asks for: an amount to add (STOCK_IN, or an ADJUSTMENT that
\* increases) or to take (STOCK_OUT, or an ADJUSTMENT that decreases), or the
\* count a COUNT_CORRECTION found.
Movements ==
  [type : {"IN", "OUT"}, amount : Deltas] \cup
  [type : {"COUNT_CORRECTION"}, amount : Units]

\* The on-hand quantity after the movement.
Resulting(onHand, movement) ==
  CASE movement.type = "IN"               -> onHand + movement.amount
    [] movement.type = "OUT"              -> onHand - movement.amount
    [] movement.type = "COUNT_CORRECTION" -> movement.amount

Distance(a, b) == IF a >= b THEN a - b ELSE b - a

\* The delta the ledger records, always a magnitude.
RecordedDelta(onHand, movement) == Distance(Resulting(onHand, movement), onHand)

Available(pool) == pool.onHand - pool.reserved

-------------------------------------------------------------------------------
(* Faulty variants, each a bug the code could have.                           *)

\* a movement only has to leave the on-hand quantity non-negative
MovementIgnoresReserved(pool, movement) ==
  /\ RecordedDelta(pool.onHand, movement) \in Deltas
  /\ Resulting(pool.onHand, movement) \in Units

\* a release is never denied
ReleaseUnchecked(pool, quantity) == TRUE

\* a reservation is measured against the stock, not against what is available
ReserveFromOnHand(pool, quantity) == quantity <= pool.onHand

\* a reservation is no change of the aggregate
RaisedSameVersion(pool, quantity) ==
  [pool EXCEPT !.reserved = @ + quantity]

-------------------------------------------------------------------------------

\* applyMovement accepts: it moves something, within the bound of one movement,
\* and leaves neither the stock nor what is available negative.
MovementPermitted(pool, movement) ==
  /\ RecordedDelta(pool.onHand, movement) \in Deltas
  /\ Resulting(pool.onHand, movement) \in Units
  /\ pool.reserved <= Resulting(pool.onHand, movement)

Moved(pool, movement) ==
  [pool EXCEPT !.onHand = Resulting(@, movement), !.version = @ + 1]

ReservePermitted(pool, quantity) == quantity <= Available(pool)

Raised(pool, quantity) ==
  [pool EXCEPT !.reserved = @ + quantity, !.version = @ + 1]

ReleasePermitted(pool, quantity) == quantity <= pool.reserved

Lowered(pool, quantity) ==
  [pool EXCEPT !.reserved = @ - quantity, !.version = @ + 1]
===============================================================================
