------------------------------- MODULE MCChat -------------------------------
EXTENDS ChatDelivery, TLC

Symmetry == Permutations(Users) \cup Permutations(Conns)
=============================================================================
