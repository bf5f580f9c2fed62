-------------------------------- MODULE MCCart --------------------------------
EXTENDS Cart, TLC

CONSTANTS MaxVersion, MaxConfirmed

\* Bounds of the exploration, for two SKUs: the saves a cart goes through; the
\* units ever confirmed to a customer; what is kept of module 05's answers, one reservation
\* of one unit; the units reserved at once; and a stock that is full once carts
\* are worked on, so that only reservations use it up.
Bounds ==
  /\ \A c \in Customers :
       /\ carts[c].version <= MaxVersion
       /\ \A s, u \in Skus : s # u => confirmed[c][s] + confirmed[c][u] <= MaxConfirmed
  /\ Cardinality({i \in DOMAIN answers : answers[i] # Absent}) <= 1
  /\ \A i \in DOMAIN answers : answers[i] \in {Absent, Completed(1, "RESERVED")}
  /\ \A s, u \in Skus : s # u => reserved[s] + reserved[u] <= MaxUnits
  /\ \A s \in Skus :
       \/ onHand[s] = MaxUnits
       \/ onHand[s] = 0 /\ \A t \in Calls : task[t] = Idle

Interchangeable == Permutations(Calls) \cup Permutations(Skus)
===============================================================================
