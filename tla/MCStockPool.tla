------------------------------ MODULE MCStockPool ------------------------------
EXTENDS StockPool, FiniteSets, TLC

CONSTANT MaxVersion

\* Bounds of the exploration: the changes a pool goes through, and the
\* idempotency rows that are ever inserted.
Bounds ==
  /\ \A s \in Skus : pool[s].version <= MaxVersion
  /\ Cardinality({i \in IdemKeys : record[i] # Absent}) <= 2

Interchangeable == Permutations(Calls)
===============================================================================
