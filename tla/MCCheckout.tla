------------------------------ MODULE MCCheckout ------------------------------
EXTENDS Checkout, TLC

Interchangeable == Permutations(Calls) \cup Permutations(OrderIds)
===============================================================================
