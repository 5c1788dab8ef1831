----------------------------- MODULE Documents ------------------------------
(***************************************************************************)
(* Documents, shares and comments of SecureDocs: who may read, change,     *)
(* publish and comment what (app/documents.py, app/sharing.py,             *)
(* app/comments.py, app/quotas.py, export and import of app/tools.py).     *)
(*                                                                         *)
(* A transaction() block is one step.  Everything else is a statement at a *)
(* time: a reader fetches the row first and asks can_access afterwards,    *)
(* which itself reads the document and then the share; a commenter, an     *)
(* owner who shares, revokes or deletes is checked in one step and writes  *)
(* in a later one.                                                         *)
(***************************************************************************)
EXTENDS Naturals, FiniteSets

CONSTANTS Users,
          Requests,     \* slots of requests in flight
          None,
          MaxId,        \* bound: document ids 1..MaxId
          MaxVersions,  \* bound: bodies a document ever has
          MaxDocuments, \* MAX_DOCUMENTS_PER_USER
          MaxComments,  \* MAX_COMMENTS_PER_DOCUMENT
          MaxCommented  \* bound: comments ever inserted

Ids == 1 .. MaxId
Visibility == {"private", "public"}

\* body is the serial number of the text the document has had.
Document == [owner : Users, visibility : Visibility, body : Nat]

\* A row of shares: can_edit 0 or 1.
Share == {"view", "edit"}

Comment == [id : Nat, doc : Ids, author : Users]

ASSUME DocumentsAssumption ==
  /\ MaxId \in Nat /\ MaxVersions \in Nat /\ MaxDocuments \in Nat
  /\ MaxComments \in Nat /\ MaxCommented \in Nat
  /\ None \notin Document /\ None \notin Share /\ None \notin Users /\ None \notin Nat

VARIABLES docs,      \* table documents
          lastId,    \* its AUTOINCREMENT counter
          shares,    \* table shares, unique on document and user
          comments,  \* table comments
          commented, \* comments ever inserted
          req,       \* the requests in flight
          could,     \* history: the texts the user of a request could read since it began
          served     \* history: what the last step answered, errors left out

vars == <<docs, lastId, shares, comments, commented, req, could, served>>
tables == <<docs, lastId, shares, comments, commented>>

\* What a handler keeps between two statements: the text it read, where a yes
\* of can_access leads (next), the target and the level of a share.
Request == [pc : {"idle", "access", "access_share", "answer", "convert", "comment_commit",
                  "delete_commit", "share_commit", "revoke_commit"},
            user : Users \cup {None}, doc : Ids \cup {0}, text : Nat \cup {None},
            next : {"idle", "answer", "convert", "comment_commit"},
            target : Users \cup {None}, level : Share \cup {None}]

Idle == [pc |-> "idle", user |-> None, doc |-> 0, text |-> None,
         next |-> "idle", target |-> None, level |-> None]

\* text is None for an answer about a document that is not its text.
Answer == [doc : Ids, user : Users, text : Nat \cup {None}, could : SUBSET Nat]

TypeOK ==
  /\ docs \in [Ids -> Document \cup {None}]
  /\ lastId \in 0 .. MaxId
  /\ shares \in [Ids \X Users -> Share \cup {None}]
  /\ comments \subseteq Comment
  /\ commented \in Nat
  /\ req \in [Requests -> Request]
  /\ could \in [Requests -> SUBSET Nat]
  /\ served \subseteq Answer

Init ==
  /\ docs = [d \in Ids |-> None]
  /\ lastId = 0
  /\ shares = [s \in Ids \X Users |-> None]
  /\ comments = {} /\ commented = 0
  /\ req = [r \in Requests |-> Idle]
  /\ could = [r \in Requests |-> {}]
  /\ served = {}

-----------------------------------------------------------------------------
(* The permissions of sharing.py, each at one moment.                      *)

\* can_access.
CanAccess(d, u) ==
  /\ docs[d] # None
  /\ docs[d].visibility = "public" \/ docs[d].owner = u \/ shares[<<d, u>>] # None

\* can_edit.
CanEdit(d, u) ==
  docs[d] # None /\ (docs[d].owner = u \/ shares[<<d, u>>] = "edit")

\* is_owner.
IsOwner(d, u) == docs[d] # None /\ docs[d].owner = u

\* The WHERE clause of list_documents and search_documents.
Listed(u) ==
  LET shared == {d \in Ids : shares[<<d, u>>] # None}
  IN {d \in Ids : /\ docs[d] # None
                  /\ \/ docs[d].owner = u
                     \/ docs[d].visibility = "public"
                     \/ d \in shared}

OwnedBy(u) == {d \in Ids : docs[d] # None /\ docs[d].owner = u}

CommentsOn(d) == {c \in comments : c.doc = d}

\* History.
ReadableBy(d, u) == IF CanAccess(d, u) THEN {docs[d].body} ELSE {}
Remember ==
  could' = [r \in Requests |-> IF req'[r] = Idle THEN {}
                               ELSE could[r] \cup ReadableBy(req[r].doc, req[r].user)']
Silent == served' = {} /\ Remember

\* Request r is answered, with what it read.
Answers(r) ==
  /\ served' = {[doc |-> req[r].doc, user |-> req[r].user, text |-> req[r].text,
                 could |-> could[r]]}
  /\ Remember

\* A request that is one transaction is answered.
AnswersAtOnce(d, u, readable) ==
  /\ served' = {[doc |-> d, user |-> u, text |-> None, could |-> readable]}
  /\ Remember

-----------------------------------------------------------------------------
(* Handlers.  r is the request, u the user load_identity found.            *)

Begin(r, u, d, pc, text, next, target, level) ==
  /\ req[r] = Idle
  /\ req' = [req EXCEPT ![r] = [pc |-> pc, user |-> u, doc |-> d, text |-> text,
                                next |-> next, target |-> target, level |-> level]]

Goto(r, pc) ==
  req' = [req EXCEPT ![r] = [pc |-> pc, user |-> req[r].user, doc |-> req[r].doc,
                             text |-> req[r].text, next |-> req[r].next,
                             target |-> req[r].target, level |-> req[r].level]]

Finish(r) == req' = [req EXCEPT ![r] = Idle]

\* A refusal, an error that changes nothing, a killed worker.
Abort(r) ==
  /\ req[r] # Idle
  /\ Finish(r)
  /\ UNCHANGED tables
  /\ Silent

\* insert_document, in the transaction of its caller.
InsertDocument(u, visibility) ==
  /\ Cardinality(OwnedBy(u)) < MaxDocuments
  /\ lastId < MaxId
  /\ lastId' = lastId + 1
  /\ docs' = [docs EXCEPT ![lastId + 1] = [owner |-> u, visibility |-> visibility, body |-> 0]]
  /\ UNCHANGED <<shares, comments, commented, req>>
  /\ AnswersAtOnce(lastId + 1, u, {0})

\* create_document, which refuses any other visibility.
CreateDocument(u, visibility) == visibility \in Visibility /\ InsertDocument(u, visibility)

\* import_backup, which takes any other for private.
ImportBackup(u, visibility) ==
  InsertDocument(u, IF visibility \in Visibility THEN visibility ELSE "private")

\* Mutant: an editor publishes what is not his.
UpdateDocumentByEditor(u, d, text, visibility) ==
  /\ CanEdit(d, u)
  /\ docs[d].body + text <= MaxVersions
  /\ docs' = [docs EXCEPT ![d] = [owner |-> docs[d].owner, visibility |-> visibility,
                                  body |-> docs[d].body + text]]
  /\ UNCHANGED <<lastId, shares, comments, commented, req>>
  /\ AnswersAtOnce(d, u, ReadableBy(d, u))

\* update_document: one transaction.  Whoever may edit changes the text; only
\* the owner changes the visibility, and both go in one UPDATE.
UpdateDocument(u, d, text, visibility) ==
  /\ CanEdit(d, u)
  /\ visibility # docs[d].visibility => docs[d].owner = u
  /\ docs[d].body + text <= MaxVersions
  /\ docs' = [docs EXCEPT ![d] = [owner |-> docs[d].owner, visibility |-> visibility,
                                  body |-> docs[d].body + text]]
  /\ UNCHANGED <<lastId, shares, comments, commented, req>>
  /\ AnswersAtOnce(d, u, ReadableBy(d, u))

\* list_documents, search_documents: one statement, and the answer.
ListDocuments(r, u) ==
  /\ req[r] = Idle
  /\ served' = {[doc |-> d, user |-> u, text |-> docs[d].body, could |-> ReadableBy(d, u)] :
                d \in Listed(u)}
  /\ UNCHANGED <<tables, req>>
  /\ Remember

\* get_document, render_document: the row is read before can_access is asked.
ReadDocument(r, u, d) ==
  /\ docs[d] # None
  /\ Begin(r, u, d, "access", docs[d].body, "answer", None, None)
  /\ UNCHANGED tables
  /\ Silent

\* export_document: likewise.
ExportDocument(r, u, d) ==
  /\ docs[d] # None
  /\ Begin(r, u, d, "access", docs[d].body, "convert", None, None)
  /\ UNCHANGED tables
  /\ Silent

\* list_comments and add_comment ask can_access first.
ListComments(r, u, d) ==
  /\ Begin(r, u, d, "access", None, "answer", None, None)
  /\ UNCHANGED tables
  /\ Silent

AddComment(r, u, d) ==
  /\ Begin(r, u, d, "access", None, "comment_commit", None, None)
  /\ UNCHANGED tables
  /\ Silent

\* Mutant: can_access forgets to look for the share.
AccessShareUnread(r) ==
  /\ req[r].pc = "access_share"
  /\ Goto(r, req[r].next)
  /\ UNCHANGED tables
  /\ Silent

\* can_access, its second SELECT: the share.
AccessShare(r) ==
  /\ req[r].pc = "access_share"
  /\ shares[<<req[r].doc, req[r].user>>] # None
  /\ Goto(r, req[r].next)
  /\ UNCHANGED tables
  /\ Silent

\* can_access, its first SELECT: the document, which may be gone.
Access(r) ==
  /\ req[r].pc = "access"
  /\ LET d == req[r].doc
     IN /\ docs[d] # None
        /\ IF docs[d].visibility = "public" \/ docs[d].owner = req[r].user
           THEN Goto(r, req[r].next)
           ELSE Goto(r, "access_share")
  /\ UNCHANGED tables
  /\ Silent

\* The answer, with the row of the beginning: after the SELECT of attachments,
\* comments or shares, or the rendering.
Respond(r) ==
  /\ req[r].pc = "answer"
  /\ Finish(r)
  /\ UNCHANGED tables
  /\ Answers(r)

\* The converter has made the PDF; its failures (502, 503, 504) are Abort.
Converted(r) ==
  /\ req[r].pc = "convert"
  /\ Finish(r)
  /\ UNCHANGED tables
  /\ Answers(r)

InsertComment(r) ==
  /\ commented < MaxCommented
  /\ commented' = commented + 1
  /\ comments' = comments \cup
       {[id |-> commented + 1, doc |-> req[r].doc, author |-> req[r].user]}
  /\ Finish(r)
  /\ UNCHANGED <<docs, lastId, shares>>
  /\ Answers(r)

\* Mutant: the transaction does not ask can_access again.
CommentCommitUnchecked(r) ==
  /\ req[r].pc = "comment_commit"
  /\ docs[req[r].doc] # None
  /\ Cardinality(CommentsOn(req[r].doc)) < MaxComments
  /\ InsertComment(r)

\* Mutant: the comments are counted in a transaction before that of the INSERT.
CommentCommitCountedBefore(r) ==
  /\ req[r].pc = "comment_commit"
  /\ CanAccess(req[r].doc, req[r].user)
  /\ \/ /\ req[r].next = "comment_commit"
        /\ Cardinality(CommentsOn(req[r].doc)) < MaxComments
        /\ req' = [req EXCEPT ![r].next = "answer"]
        /\ UNCHANGED tables
        /\ Silent
     \/ req[r].next = "answer" /\ InsertComment(r)

\* add_comment: the transaction asks again, and counts.
CommentCommit(r) ==
  /\ req[r].pc = "comment_commit"
  /\ CanAccess(req[r].doc, req[r].user)
  /\ Cardinality(CommentsOn(req[r].doc)) < MaxComments
  /\ InsertComment(r)

\* The handlers of an owner check is_owner, and write later without a lock
\* between.
OwnerCheck(r, u, d, pc, target, level) ==
  /\ IsOwner(d, u)
  /\ Begin(r, u, d, pc, None, "idle", target, level)
  /\ UNCHANGED tables
  /\ Silent

DeleteDocument(r, u, d) == OwnerCheck(r, u, d, "delete_commit", None, None)

\* Mutant: ids without AUTOINCREMENT, which fall back after a deletion.
DeleteCommitIdReused(r) ==
  /\ req[r].pc = "delete_commit"
  /\ LET d == req[r].doc
     IN /\ comments' = comments \ CommentsOn(d)
        /\ shares' = [s \in Ids \X Users |-> IF s[1] = d THEN None ELSE shares[s]]
        /\ docs' = [docs EXCEPT ![d] = None]
        /\ lastId' = IF d = lastId THEN lastId - 1 ELSE lastId
  /\ Finish(r)
  /\ UNCHANGED commented
  /\ Answers(r)

\* delete_document: the transaction (the attachments are in Attachments).
DeleteCommit(r) ==
  /\ req[r].pc = "delete_commit"
  /\ LET d == req[r].doc
     IN /\ comments' = comments \ CommentsOn(d)
        /\ shares' = [s \in Ids \X Users |-> IF s[1] = d THEN None ELSE shares[s]]
        /\ docs' = [docs EXCEPT ![d] = None]
  /\ Finish(r)
  /\ UNCHANGED <<lastId, commented>>
  /\ Answers(r)

ShareDocument(r, u, d, target, level) == OwnerCheck(r, u, d, "share_commit", target, level)

\* Mutant: a connection without PRAGMA foreign_keys = ON.
ShareCommitNoForeignKey(r) ==
  /\ req[r].pc = "share_commit"
  /\ shares' = [shares EXCEPT ![<<req[r].doc, req[r].target>>] = req[r].level]
  /\ Finish(r)
  /\ UNCHANGED <<docs, lastId, comments, commented>>
  /\ Answers(r)

\* share_document: the upsert.  The foreign key refuses a document that has
\* been deleted since the check.
ShareCommit(r) ==
  /\ req[r].pc = "share_commit"
  /\ docs[req[r].doc] # None
  /\ shares' = [shares EXCEPT ![<<req[r].doc, req[r].target>>] = req[r].level]
  /\ Finish(r)
  /\ UNCHANGED <<docs, lastId, comments, commented>>
  /\ Answers(r)

RevokeShare(r, u, d, target) == OwnerCheck(r, u, d, "revoke_commit", target, None)

\* revoke_share.
RevokeCommit(r) ==
  /\ req[r].pc = "revoke_commit"
  /\ shares' = [shares EXCEPT ![<<req[r].doc, req[r].target>>] = None]
  /\ Finish(r)
  /\ UNCHANGED <<docs, lastId, comments, commented>>
  /\ Answers(r)

ListShares(r, u, d) == OwnerCheck(r, u, d, "answer", None, None)

\* A request begins.
Receive(r, u) ==
  \/ ListDocuments(r, u)
  \/ \E d \in Ids :
       \/ ReadDocument(r, u, d)
       \/ ExportDocument(r, u, d)
       \/ ListComments(r, u, d)
       \/ AddComment(r, u, d)
       \/ DeleteDocument(r, u, d)
       \/ ListShares(r, u, d)
       \/ \E target \in Users :
            \/ \E level \in Share : ShareDocument(r, u, d, target, level)
            \/ RevokeShare(r, u, d, target)

\* A request goes on.
Continue(r) ==
  \/ Abort(r)
  \/ Access(r)
  \/ AccessShare(r)
  \/ Respond(r)
  \/ Converted(r)
  \/ CommentCommit(r)
  \/ DeleteCommit(r)
  \/ ShareCommit(r)
  \/ RevokeCommit(r)

Next ==
  \/ \E u \in Users, visibility \in Visibility \cup {"other"} :
       CreateDocument(u, visibility) \/ ImportBackup(u, visibility)
  \/ \E u \in Users, d \in Ids, text \in {0, 1}, visibility \in Visibility :
       UpdateDocument(u, d, text, visibility)
  \/ \E r \in Requests : Continue(r) \/ \E u \in Users : Receive(r, u)

Spec == Init /\ [][Next]_vars

-----------------------------------------------------------------------------
(* Properties.                                                             *)

\* A comment or a share belongs to a document that exists: a share or a
\* comment that was checked before the document was deleted leaves none.
NoOrphans ==
  /\ \A c \in comments : docs[c.doc] # None
  /\ \A d \in Ids, u \in Users : shares[<<d, u>>] # None => docs[d] # None

\* Parallel requests do not take a user or a document over its limit.
QuotasHold ==
  /\ \A u \in Users : Cardinality(OwnedBy(u)) <= MaxDocuments
  /\ \A d \in Ids : Cardinality(CommentsOn(d)) <= MaxComments

\* Whoever is answered anything about a document had access to it at some
\* moment of that request, in whatever order the two SELECTs of can_access,
\* the SELECTs before and after it and the converter meet the owner's changes.
ServedOnlyWithAccess == \A a \in served : a.could # {}

\* A comment is added by a user who has access at that very moment, whatever
\* was revoked, made private or deleted since the request was admitted.
CommentsAuthorised ==
  [][\A c \in comments' \ comments : CanAccess(c.doc, c.author)]_vars

\* A document disappears, and its shares change, only at the request of the
\* user who owns it at that moment: between is_owner and the write nothing
\* can make the same id somebody else's document.
OwnersDecide ==
  [][\A d \in Ids :
       /\ docs[d] # None
       /\ docs'[d] = None \/ \E u \in Users : shares'[<<d, u>>] # shares[<<d, u>>]
       => \E r \in Requests : /\ req'[r] = Idle /\ req[r].doc = d
                              /\ req[r].user = docs[d].owner]_vars

\* The text a user is answered is one he had access to (README, the row of GET
\* /documents/<id>: requires the permission to read the document).
ServedWhatWasReadable == \A a \in served : a.text # None => a.text \in a.could

-----------------------------------------------------------------------------
(* The inductive invariant.                                                *)

\* A request in flight is about a document and from a user, and has what the
\* rest of its handler needs.
RequestFits(x) ==
  x # Idle => /\ x.doc \in Ids /\ x.user \in Users
              /\ x.pc \in {"access", "access_share"} => x.next # "idle"
              /\ x.pc \in {"share_commit", "revoke_commit"} => x.target \in Users
              /\ x.pc = "share_commit" => x.level \in Share
RequestsFit == \A r \in Requests : RequestFits(req[r])

\* Rows have ids that their counters have passed.
IdsAreCounted ==
  /\ \A d \in Ids : docs[d] # None => d <= lastId
  /\ \A c \in comments : c.id <= commented

\* What is_owner has found stays true as long as the document is there.
OwnerFits(x) ==
  x.pc \in {"delete_commit", "share_commit", "revoke_commit"} =>
    /\ x.doc <= lastId
    /\ docs[x.doc] # None => docs[x.doc].owner = x.user
OwnersFit == \A r \in Requests : OwnerFits(req[r])

\* The history holds what can be read now, and is not empty after a yes.
CouldIsCurrent ==
  \A r \in Requests : IF req[r] = Idle THEN could[r] = {}
                      ELSE ReadableBy(req[r].doc, req[r].user) \subseteq could[r]
Admitted(x) == x.pc \notin {"idle", "access", "access_share"}
AdmittedCould == \A r \in Requests : Admitted(req[r]) => could[r] # {}

IInv ==
  /\ TypeOK /\ RequestsFit /\ NoOrphans /\ IdsAreCounted /\ IsFiniteSet(comments)
  /\ OwnersFit /\ CouldIsCurrent /\ AdmittedCould /\ ServedOnlyWithAccess

-----------------------------------------------------------------------------
(* The refinement of DocumentStore.                                        *)

\* A request without its handler's progress and what it has read.
Asking == [r \in Requests |-> [user |-> req[r].user, doc |-> req[r].doc, had |-> could[r] # {}]]
Answered == {[doc |-> a.doc, user |-> a.user] : a \in served}

Store == INSTANCE DocumentStore WITH
  spent <- 1 .. lastId, asking <- Asking, answered <- Answered

\* DocumentStore says: what a request changes it changes at one moment, and its
\* user has the right to it at that moment, though the right was looked at
\* statements before; an answer is about a document its user could read
\* meanwhile; ids do not come back; limits hold.
ImplementsStore == Store!Spec
=============================================================================
