------------------------------ MODULE MCAccounts ------------------------------
\* Two pages, ids of two digits, and an int of eight bits: 267 and -245 wrap to 11.
EXTENDS Accounts

MCDigits == {1, 2}
MCTyped == {11, 12, 267, -245, NaN}

\* The hypothesis of AccountsProofs!ShownIdLogsIn.
ASSUME IdsSurvive

Symmetry ==
  Permutations(Pages) \cup Permutations(Salts) \cup Permutations(Passwords \ {Blank})
=============================================================================
