----------------------------- MODULE MCSecrets -----------------------------
(* Secrets on a small instance, with liveness and therefore no symmetry.   *)
EXTENDS Secrets

CONSTANTS jwt, data, p1, p2, s1, s2
=============================================================================
