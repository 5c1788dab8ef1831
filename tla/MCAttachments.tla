---------------------------- MODULE MCAttachments ---------------------------
(* Attachments on small instances.                                         *)
EXTENDS Attachments, TLC

CONSTANTS d1, d2, alice, bob

\* Alice owns both documents; bob edits when he is allowed to.
MCOwner == (d1 :> alice) @@ (d2 :> alice)

Symmetry == Permutations(Names) \cup Permutations(Workers) \cup Permutations(Docs)
=============================================================================
