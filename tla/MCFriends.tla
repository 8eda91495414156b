------------------------------ MODULE MCFriends ------------------------------
EXTENDS Friends, TLC

Symmetry == Permutations(Users) \cup Permutations(Pages) \cup Permutations(Conns)
=============================================================================
