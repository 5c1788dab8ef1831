----------------------------- MODULE MCDocuments ----------------------------
(* Documents on small instances.                                           *)
EXTENDS Documents, TLC

Symmetry == Permutations(Users) \cup Permutations(Requests)

\* Bound: the second document is there for the quota; requests meet over one.
RequestsMeetOverOne == lastId > 1 => \A r \in Requests : req[r] = Idle

\* Bound: a text is rewritten where there are no comments. The visibility
\* changes at any time.
TextsBeforeComments ==
  commented > 0 => \A d \in Ids : docs[d] # None => docs[d].body = 0
=============================================================================
