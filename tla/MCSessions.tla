------------------------------ MODULE MCSessions -------------------------------
EXTENDS Sessions, TLC

CONSTANT MaxVersion

\* Bound of the exploration: the versions the identity goes through.
Bounds == identity.version <= MaxVersion

Interchangeable == Permutations(SessionIds) \cup Permutations(Tokens)
                   \cup Permutations(Challenges) \cup Permutations(Calls)
===============================================================================
