------------------------------- MODULE MCOrders -------------------------------
EXTENDS Orders, TLC

CONSTANTS ada, mug, tea, basket, k1, k2

\* One customer and one snapshot of two lines.
MCBuyer == [s \in Snapshots |-> ada]

Line(sku, quantity) == [sku |-> sku, quantity |-> quantity]

MCLines == basket :> <<Line(mug, 1), Line(tea, 1)>>

\* Bounds of the exploration: module 05 grants each line at most MaxGranted
\* times, orders are followed to PAID and CANCELLED, creations under k2 carry
\* the correlation id (those under k1 may), and cancellations use one key.
MaxGranted == 2

UncorrelatedSecond(x) ==
  /\ x.pc \notin {"idle", "transition"}
  /\ x.id = <<ada, "order.create", k2>>
  /\ x.print.correlation = NoCorrelation

Bounds ==
  /\ \A sku \in Skus : granted[sku] <= MaxGranted
  /\ \A o \in OrderIds : orders[o].state # "SHIPPED"
  /\ \A t \in Calls : ~UncorrelatedSecond(task[t])
  /\ record[<<ada, "order.cancel", k2>>] = Absent

Interchangeable ==
  Permutations(Calls) \cup Permutations(OrderIds)
===============================================================================
