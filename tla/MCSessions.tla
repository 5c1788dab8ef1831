---------------------------- MODULE MCSessions -----------------------------
(* Sessions on small instances.                                            *)
EXTENDS Sessions, TLC

CONSTANTS alice, bob

MCMigrated == <<alice>>
MCNobody == << >>
MCSeeded == <<bob>>

\* Tokens and request slots are interchangeable.
Symmetry == Permutations(Jtis) \cup Permutations(Rids) \cup Permutations(Requests)
=============================================================================
