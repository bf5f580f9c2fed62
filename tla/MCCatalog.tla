------------------------------- MODULE MCCatalog -------------------------------
(* Model values, bounds and symmetry for TLC.                                  *)
EXTENDS Catalog, TLC

CONSTANT MaxVersion   \* of a product

Bounds == \A p \in Products : products[p] # NoProduct => products[p].version <= MaxVersion

\* One of the administrators is the owner, so they are not interchangeable.
Interchangeable == Permutations(Skus) \cup Permutations(Calls)
===============================================================================
