--------------------------- MODULE MCJobDelivery ---------------------------
EXTENDS JobDelivery, TLC
Symmetry == Permutations(Deliveries) \union Permutations(Requests)
=============================================================================
