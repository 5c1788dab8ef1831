----------------------------- MODULE MCFrontend -----------------------------
EXTENDS Frontend, TLC

CONSTANTS alice, bob, c1, c2, c3

\* Slots are told apart by nothing. Users are: one is an administrator.
Symmetry == Permutations(Slots)
=============================================================================
