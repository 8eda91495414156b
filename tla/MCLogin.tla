------------------------------- MODULE MCLogin -------------------------------
EXTENDS LoginService, TLC

Symmetry == Permutations(Pages) \cup Permutations(Sessions) \cup Permutations(Users)
=============================================================================
