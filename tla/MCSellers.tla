------------------------------- MODULE MCSellers -------------------------------
EXTENDS Sellers, TLC

CONSTANT MaxVersion

\* Bound of the exploration: the versions a profile goes through.
Bounds == \A s \in Sellers : profiles[s].version <= MaxVersion

Interchangeable == Permutations(Identities) \cup Permutations(Calls)
===============================================================================
