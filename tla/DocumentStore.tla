---------------------------- MODULE DocumentStore ---------------------------
(***************************************************************************)
(* What SecureDocs promises about documents, shares and comments, without  *)
(* statements: a request about a document takes effect at one moment, at   *)
(* which its user has the right to it, or not at all; and nothing is       *)
(* answered about a document that its user could not read at some moment   *)
(* of the request.  Documents implements it (Documents!Store).             *)
(***************************************************************************)
EXTENDS Naturals, FiniteSets

CONSTANTS Users, Requests,
          None,         \* no document, no share, nobody
          MaxId,        \* there are at most as many documents
          MaxDocuments, \* of one user
          MaxComments   \* on one document

VARIABLES docs,     \* the documents there are
          spent,    \* the ids documents have had
          shares,   \* who was given what
          comments,
          asking,   \* for each request whose it is, about what, and whether
                    \* its user has had access since it began
          answered  \* whom the last event told about which documents

tables == <<docs, spent, shares, comments>>
vars == <<tables, asking, answered>>

Ids == 1 .. MaxId
Free == [user |-> None, doc |-> 0, had |-> FALSE]

Init ==
  /\ docs = [d \in Ids |-> None]
  /\ spent = {}
  /\ shares = [s \in Ids \X Users |-> None]
  /\ comments = {}
  /\ asking = [r \in Requests |-> Free]
  /\ answered = {}

\* With these documents and shares u can read d.
Reads(ds, ss, d, u) ==
  ds[d] # None /\ (ds[d].visibility = "public" \/ ds[d].owner = u \/ ss[<<d, u>>] # None)

CanAccess(d, u) == Reads(docs, shares, d, u)
IsOwner(d, u) == docs[d] # None /\ docs[d].owner = u
CanEdit(d, u) == docs[d] # None /\ (docs[d].owner = u \/ shares[<<d, u>>] = "edit")

OwnedBy(u) == {d \in Ids : docs[d] # None /\ docs[d].owner = u}
CommentsOn(d) == {c \in comments : c.doc = d}

\* The requests in done are over; the others go on, and have had access if
\* they have it now.
GoOn(done) ==
  asking' = [r \in Requests |->
               IF r \in done \/ asking[r] = Free THEN Free
               ELSE [user |-> asking[r].user, doc |-> asking[r].doc,
                     had |-> asking[r].had \/ Reads(docs', shares', asking[r].doc, asking[r].user)]]

\* Request r is over, and answered.
Ends(r) ==
  /\ GoOn({r})
  /\ answered' = {[doc |-> asking[r].doc, user |-> asking[r].user]}

\* u is answered at once about d.
AtOnce(d, u) == GoOn({}) /\ answered' = {[doc |-> d, user |-> u]}

\* An id is never used again.
Create(u) ==
  /\ UNCHANGED <<shares, comments>>
  /\ Cardinality(OwnedBy(u)) < MaxDocuments
  /\ \E d \in Ids \ spent, v \in {"private", "public"} :
       /\ docs' = [docs EXCEPT ![d] = [owner |-> u, visibility |-> v, body |-> 0]]
       /\ spent' = spent \cup {d}
       /\ AtOnce(d, u)

\* A new text, by whoever may edit; another visibility, by the owner.
Edit(u, d) ==
  /\ UNCHANGED <<spent, shares, comments>>
  /\ CanEdit(d, u)
  /\ \E text \in {0, 1}, v \in {"private", "public"} :
       /\ v = docs[d].visibility \/ docs[d].owner = u
       /\ docs' = [docs EXCEPT ![d] = [owner |-> docs[d].owner, visibility |-> v,
                                       body |-> docs[d].body + text]]
  /\ AtOnce(d, u)

\* Request r asks about d, and may end without effect, be answered, or write.
Ask(r, u, d) ==
  /\ UNCHANGED tables
  /\ answered' = {}
  /\ asking[r] = Free
  /\ asking' = [asking EXCEPT ![r] = [user |-> u, doc |-> d, had |-> CanAccess(d, u)]]

Withdraw(r) ==
  /\ UNCHANGED tables
  /\ answered' = {}
  /\ asking[r] # Free
  /\ GoOn({r})

Respond(r) ==
  /\ UNCHANGED tables
  /\ asking[r].had
  /\ Ends(r)

Comment(r) ==
  LET d == asking[r].doc
      u == asking[r].user
  IN /\ UNCHANGED <<docs, spent, shares>>
     /\ asking[r] # Free /\ CanAccess(d, u)
     /\ Cardinality(CommentsOn(d)) < MaxComments
     /\ \E c \in comments' :
          /\ c \notin comments /\ c.doc = d /\ c.author = u
          /\ comments' = comments \cup {c}
     /\ Ends(r)

\* The document goes with its shares and comments, at the owner's request.
Delete(r) ==
  LET d == asking[r].doc
  IN /\ UNCHANGED spent
     /\ asking[r] # Free /\ IsOwner(d, asking[r].user)
     /\ docs' = [docs EXCEPT ![d] = None]
     /\ shares' = [s \in Ids \X Users |-> IF s[1] = d THEN None ELSE shares[s]]
     /\ comments' = comments \ CommentsOn(d)
     /\ Ends(r)

\* So are shares given and taken.
SetShare(r) ==
  LET d == asking[r].doc
  IN /\ UNCHANGED <<docs, spent, comments>>
     /\ asking[r] # Free /\ IsOwner(d, asking[r].user)
     /\ \E u \in Users, level \in {"view", "edit", None} :
          shares' = [shares EXCEPT ![<<d, u>>] = level]
     /\ Ends(r)

\* A list of all that u can read.
List(u) ==
  /\ UNCHANGED <<tables, asking>>
  /\ answered' = {[doc |-> d, user |-> u] : d \in {e \in Ids : CanAccess(e, u)}}

Silence == UNCHANGED <<tables, asking>> /\ answered' = {}

Next ==
  \/ Silence
  \/ \E r \in Requests :
       \/ \E u \in Users, d \in Ids : Ask(r, u, d)
       \/ Withdraw(r) \/ Respond(r) \/ Comment(r) \/ Delete(r) \/ SetShare(r)
  \/ \E u \in Users : Create(u) \/ List(u) \/ \E d \in Ids : Edit(u, d)

Spec == Init /\ [][Next]_vars
=============================================================================
