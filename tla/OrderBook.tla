------------------------------- MODULE OrderBook -------------------------------
(***************************************************************************)
(* What module 08 promises about orders, without calls, versions or tables  *)
(* of keys: an order is placed PENDING, moves along the lifecycle one edge  *)
(* at a time, and no customer ever has two orders in the same state.        *)
(***************************************************************************)
EXTENDS OrderLifecycle

CONSTANTS Customers, OrderIds

VARIABLE book   \* [OrderIds -> NotPlaced or [customer, state]]

NotPlaced == [state |-> "NONE"]

Vacant(c, state) ==
  \A o \in OrderIds : book[o].state = state => book[o].customer # c

Init == book = [o \in OrderIds |-> NotPlaced]

Place(o, c) ==
  /\ book[o] = NotPlaced
  /\ Vacant(c, "PENDING")
  /\ book' = [book EXCEPT ![o] = [customer |-> c, state |-> "PENDING"]]

Move(o, to) ==
  /\ OrderEdge(book[o].state, to)
  /\ Vacant(book[o].customer, to)
  /\ book' = [book EXCEPT ![o].state = to]

Next ==
  \E o \in OrderIds :
    \/ \E c \in Customers : Place(o, c)
    \/ \E to \in OrderStates : Move(o, to)

Spec == Init /\ [][Next]_book
===============================================================================
