-------------------------- MODULE DocumentsProofs ---------------------------
(***************************************************************************)
(* What Documents promises, for any number of users, requests, documents,  *)
(* comments and versions.                                                  *)
(*                                                                         *)
(* Two facts carry it. What is_owner found stays true until the write      *)
(* (OwnersFit), because ids are never used again and owners never change.  *)
(* And whoever passes can_access can read the document at the moment of    *)
(* its yes (CouldIsCurrent): the share its second SELECT finds belongs to  *)
(* a document that exists (NoOrphans).                                     *)
(*                                                                         *)
(* With these every step is one of DocumentStore, or not seen there: the   *)
(* last part.                                                              *)
(***************************************************************************)
EXTENDS Documents, FiniteSetTheorems, TLAPS

-----------------------------------------------------------------------------
(* How requests move.                                                      *)

\* Only request r moves.
OnlyMoves(r) ==
  /\ req' \in [Requests -> Request]
  /\ \A s \in Requests : s # r => req'[s] = req[s]

LEMMA IdleFacts == Idle \in Request /\ Idle.pc = "idle"
  BY DEF Idle, Request

\* A request that is set to a record is that record, and no other has moved.
LEMMA SetRequest ==
  ASSUME req \in [Requests -> Request], NEW r \in Requests, NEW x \in Request,
         req' = [req EXCEPT ![r] = x]
  PROVE  OnlyMoves(r) /\ req'[r] = x
  BY DEF OnlyMoves

LEMMA FinishFacts ==
  ASSUME req \in [Requests -> Request], NEW r \in Requests, Finish(r)
  PROVE  OnlyMoves(r) /\ req'[r] = Idle
  BY IdleFacts, SetRequest DEF Finish

\* The fields of a request.
LEMMA RequestFields ==
  ASSUME NEW x \in Request
  PROVE  /\ x.user \in Users \cup {None} /\ x.doc \in Ids \cup {0} /\ x.text \in Nat \cup {None}
         /\ x.next \in {"idle", "answer", "convert", "comment_commit"}
         /\ x.target \in Users \cup {None} /\ x.level \in Share \cup {None}
  BY DEF Request

Pcs == {"idle", "access", "access_share", "answer", "convert", "comment_commit",
        "delete_commit", "share_commit", "revoke_commit"}

LEMMA GotoFacts ==
  ASSUME req \in [Requests -> Request], NEW r \in Requests, NEW pc \in Pcs, Goto(r, pc)
  PROVE  /\ OnlyMoves(r)
         /\ req'[r].pc = pc /\ req'[r].user = req[r].user /\ req'[r].doc = req[r].doc
         /\ req'[r].next = req[r].next
<1> DEFINE x == [pc |-> pc, user |-> req[r].user, doc |-> req[r].doc,
                 text |-> req[r].text, next |-> req[r].next,
                 target |-> req[r].target, level |-> req[r].level]
<1>1. x \in Request
  BY RequestFields DEF Request, Pcs
<1>2. OnlyMoves(r) /\ req'[r] = x
  BY <1>1, SetRequest DEF Goto
<1>3. QED
  BY <1>2

-----------------------------------------------------------------------------
(* Documents, and what can be read.                                        *)

LEMMA DocumentFields ==
  ASSUME docs \in [Ids -> Document \cup {None}], NEW d \in Ids, docs[d] # None
  PROVE  docs[d].owner \in Users /\ docs[d].visibility \in Visibility /\ docs[d].body \in Nat
  BY DEF Document

LEMMA ReadableType ==
  ASSUME docs \in [Ids -> Document \cup {None}], NEW d \in Ids, NEW u
  PROVE  ReadableBy(d, u) \subseteq Nat
  BY DocumentFields DEF ReadableBy, CanAccess

LEMMA AccessReads ==
  ASSUME NEW d, NEW u
  PROVE  CanAccess(d, u) <=> ReadableBy(d, u) # {}
  BY DEF ReadableBy

\* Whoever may edit may read.
LEMMA EditorsRead ==
  ASSUME NEW d, NEW u, CanEdit(d, u) PROVE CanAccess(d, u)
<1>1. None # "edit"
  BY DocumentsAssumption DEF Share
<1>2. QED
  BY <1>1 DEF CanEdit, CanAccess

\* What every step does to the history, once the requests fit afterwards: a
\* request is past its permission only if it was before, or if its user can
\* read the document now, before or after the step.
LEMMA HistoryStep ==
  ASSUME IInv, Remember, req' \in [Requests -> Request], RequestsFit',
         docs' \in [Ids -> Document \cup {None}],
         \A r \in Requests :
           Admitted(req'[r]) =>
             \/ Admitted(req[r])
             \/ req[r] # Idle /\ CanAccess(req[r].doc, req[r].user)
             \/ CanAccess(req[r].doc, req[r].user)'
  PROVE  could' \in [Requests -> SUBSET Nat] /\ CouldIsCurrent' /\ AdmittedCould'
<1>0. could \in [Requests -> SUBSET Nat]
  BY DEF IInv, TypeOK
<1>1. \A r \in Requests : req'[r] # Idle => ReadableBy(req[r].doc, req[r].user)' \subseteq Nat
  <2>1. SUFFICES ASSUME NEW r \in Requests, req'[r] # Idle
                 PROVE  ReadableBy(req[r].doc, req[r].user)' \subseteq Nat
    OBVIOUS
  <2>2. req'[r].doc \in Ids
    BY <2>1 DEF RequestsFit, RequestFits
  <2>3. CanAccess(req[r].doc, req[r].user)' => docs'[req'[r].doc] \in Document
    BY <2>2 DEF CanAccess
  <2>4. QED
    BY <2>3 DEF ReadableBy, Document
<1>2. could' \in [Requests -> SUBSET Nat]
  <2>1. \A r \in Requests :
          (IF req'[r] = Idle THEN {} ELSE could[r] \cup ReadableBy(req[r].doc, req[r].user)') \subseteq Nat
    BY <1>0, <1>1
  <2>2. QED
    BY <2>1 DEF Remember
<1>3. \A r \in Requests : req'[r] # Idle =>
        could'[r] = could[r] \cup ReadableBy(req[r].doc, req[r].user)'
  BY DEF Remember
<1>4. CouldIsCurrent'
  <2>1. \A r \in Requests : req'[r] = Idle => could'[r] = {}
    BY DEF Remember
  <2>2. \A r \in Requests : req'[r] # Idle =>
          ReadableBy(req[r].doc, req[r].user)' \subseteq could'[r]
    BY <1>3
  <2>3. QED
    BY <2>1, <2>2 DEF CouldIsCurrent
<1>5. AdmittedCould'
  <2>1. SUFFICES ASSUME NEW r \in Requests,
                        Admitted(req'[r])
                 PROVE  could'[r] # {}
    BY DEF AdmittedCould, Admitted
  <2>2. req'[r] # Idle
    BY <2>1, IdleFacts DEF Admitted
  <2>3. CASE Admitted(req[r])
    BY <2>2, <2>3, <1>3 DEF IInv, AdmittedCould
  <2>4. CASE req[r] # Idle /\ CanAccess(req[r].doc, req[r].user)
    <3>1. ReadableBy(req[r].doc, req[r].user) # {}
      BY <2>4, AccessReads
    <3>2. ReadableBy(req[r].doc, req[r].user) \subseteq could[r]
      BY <2>4 DEF IInv, CouldIsCurrent
    <3>3. QED
      BY <3>1, <3>2, <2>2, <1>3
  <2>5. CASE CanAccess(req[r].doc, req[r].user)'
    <3>1. ReadableBy(req[r].doc, req[r].user)' # {}
      BY <2>5 DEF ReadableBy
    <3>2. QED
      BY <3>1, <2>2, <1>3
  <2>6. QED
    BY <2>1, <2>3, <2>4, <2>5
<1>6. QED
  BY <1>2, <1>4, <1>5

-----------------------------------------------------------------------------
(* Steps that leave the tables alone.                                      *)

LEMMA RequestStep ==
  ASSUME IInv, UNCHANGED tables, Remember, ServedOnlyWithAccess', served' \subseteq Answer,
         NEW r \in Requests, OnlyMoves(r),
         RequestFits(req'[r]), OwnerFits(req'[r]),
         Admitted(req'[r]) =>
           \/ req[r] # Idle /\ CanAccess(req[r].doc, req[r].user)
           \/ CanAccess(req'[r].doc, req'[r].user)
  PROVE  IInv'
<1>1. UNCHANGED <<docs, lastId, shares, comments, commented>>
  BY DEF tables
<1>2. req' \in [Requests -> Request]
  BY DEF OnlyMoves
<1>3. RequestsFit'
  <2>1. \A s \in Requests : RequestFits(req'[s])
    BY DEF IInv, RequestsFit, OnlyMoves
  <2>2. QED
    BY <2>1 DEF RequestsFit, RequestFits
<1>4. OwnersFit'
  <2>1. \A s \in Requests : OwnerFits(req'[s])
    BY DEF IInv, OwnersFit, OnlyMoves
  <2>2. QED
    BY <2>1, <1>1 DEF OwnersFit, OwnerFits
<1>5. docs' \in [Ids -> Document \cup {None}]
  BY <1>1 DEF IInv, TypeOK
<1>6. \A s \in Requests :
        Admitted(req'[s]) =>
          \/ Admitted(req[s])
          \/ req[s] # Idle /\ CanAccess(req[s].doc, req[s].user)
          \/ CanAccess(req[s].doc, req[s].user)'
  <2>1. SUFFICES ASSUME NEW s \in Requests,
                        Admitted(req'[s])
                 PROVE  \/ Admitted(req[s])
                        \/ req[s] # Idle /\ CanAccess(req[s].doc, req[s].user)
                        \/ CanAccess(req[s].doc, req[s].user)'
    OBVIOUS
  <2>2. CASE s = r
    BY <2>1, <2>2, <1>1 DEF CanAccess
  <2>3. CASE s # r
    BY <2>1, <2>3 DEF OnlyMoves
  <2>4. QED
    BY <2>2, <2>3
<1>7. could' \in [Requests -> SUBSET Nat] /\ CouldIsCurrent' /\ AdmittedCould'
  BY <1>2, <1>3, <1>5, <1>6, HistoryStep
<1>8. NoOrphans' /\ IdsAreCounted' /\ IsFiniteSet(comments)'
  BY <1>1 DEF IInv, NoOrphans, IdsAreCounted
<1>9. TypeOK'
  BY <1>1, <1>2, <1>7 DEF IInv, TypeOK
<1>10. QED
  BY <1>3, <1>4, <1>7, <1>8, <1>9 DEF IInv

\* No answer is no answer too many.
LEMMA SilentServes ==
  ASSUME Silent
  PROVE  ServedOnlyWithAccess' /\ served' \subseteq Answer /\ Remember
  BY DEF Silent, ServedOnlyWithAccess

\* A request that ends.
LEMMA EndedFits ==
  ASSUME NEW x, x = Idle
  PROVE  RequestFits(x) /\ OwnerFits(x) /\ ~Admitted(x)
  BY IdleFacts DEF RequestFits, OwnerFits, Admitted

LEMMA InvAbort ==
  ASSUME IInv, NEW r \in Requests, Abort(r) PROVE IInv'
<1>1. OnlyMoves(r) /\ req'[r] = Idle
  BY FinishFacts DEF Abort, IInv, TypeOK
<1>2. UNCHANGED tables /\ Silent
  BY DEF Abort
<1>3. QED
  BY <1>1, <1>2, EndedFits, SilentServes, RequestStep

\* A request that can_access sees first.
LEMMA InvAsk ==
  ASSUME IInv, NEW r \in Requests, NEW u \in Users, NEW d \in Ids,
         NEW text \in Nat \cup {None}, NEW next \in {"answer", "convert", "comment_commit"},
         Begin(r, u, d, "access", text, next, None, None), UNCHANGED tables, Silent
  PROVE  IInv'
<1>1. /\ OnlyMoves(r)
      /\ req'[r].pc = "access" /\ req'[r].user = u /\ req'[r].doc = d /\ req'[r].next = next
  <2> DEFINE x == [pc |-> "access", user |-> u, doc |-> d, text |-> text,
                   next |-> next, target |-> None, level |-> None]
  <2>1. x \in Request
    BY DEF Request
  <2>2. OnlyMoves(r) /\ req'[r] = x
    BY <2>1, SetRequest DEF Begin, IInv, TypeOK
  <2>3. QED
    BY <2>2
<1>2. RequestFits(req'[r]) /\ OwnerFits(req'[r]) /\ ~Admitted(req'[r])
  BY <1>1 DEF RequestFits, OwnerFits, Admitted
<1>3. QED
  BY <1>1, <1>2, SilentServes, RequestStep

LEMMA InvReceiveAsk ==
  ASSUME IInv, NEW r \in Requests, NEW u \in Users, NEW d \in Ids,
         ReadDocument(r, u, d) \/ ExportDocument(r, u, d) \/ ListComments(r, u, d)
           \/ AddComment(r, u, d)
  PROVE  IInv'
<1>1. docs[d] # None => docs[d].body \in Nat
  BY DocumentFields DEF IInv, TypeOK
<1>2. CASE ReadDocument(r, u, d)
  BY <1>1, <1>2, InvAsk DEF ReadDocument
<1>3. CASE ExportDocument(r, u, d)
  BY <1>1, <1>3, InvAsk DEF ExportDocument
<1>4. CASE ListComments(r, u, d)
  BY <1>4, InvAsk DEF ListComments
<1>5. CASE AddComment(r, u, d)
  BY <1>5, InvAsk DEF AddComment
<1>6. QED
  BY <1>2, <1>3, <1>4, <1>5

\* A request that is_owner sees first.
LEMMA InvOwnerCheck ==
  ASSUME IInv, NEW r \in Requests, NEW u \in Users, NEW d \in Ids,
         NEW pc \in {"delete_commit", "share_commit", "revoke_commit", "answer"},
         NEW target \in Users \cup {None}, NEW level \in Share \cup {None},
         pc \in {"share_commit", "revoke_commit"} => target \in Users,
         pc = "share_commit" => level \in Share,
         OwnerCheck(r, u, d, pc, target, level)
  PROVE  IInv'
<1>1. /\ OnlyMoves(r)
      /\ req'[r].pc = pc /\ req'[r].user = u /\ req'[r].doc = d
      /\ req'[r].target = target /\ req'[r].level = level
  <2> DEFINE x == [pc |-> pc, user |-> u, doc |-> d, text |-> None,
                   next |-> "idle", target |-> target, level |-> level]
  <2>1. x \in Request
    BY DEF Request
  <2>2. OnlyMoves(r) /\ req'[r] = x
    BY <2>1, SetRequest DEF OwnerCheck, Begin, IInv, TypeOK
  <2>3. QED
    BY <2>2
<1>2. docs[d] # None /\ docs[d].owner = u /\ d <= lastId
  BY DEF OwnerCheck, IsOwner, IInv, IdsAreCounted
<1>3. RequestFits(req'[r]) /\ OwnerFits(req'[r])
  BY <1>1, <1>2 DEF RequestFits, OwnerFits
<1>4. CanAccess(req'[r].doc, req'[r].user)
  BY <1>1, <1>2 DEF CanAccess
<1>5. UNCHANGED tables /\ Silent
  BY DEF OwnerCheck
<1>6. QED
  BY <1>1, <1>3, <1>4, <1>5, SilentServes, RequestStep

LEMMA InvReceiveOwner ==
  ASSUME IInv, NEW r \in Requests, NEW u \in Users, NEW d \in Ids,
         \/ DeleteDocument(r, u, d) \/ ListShares(r, u, d)
         \/ \E target \in Users : \/ \E level \in Share : ShareDocument(r, u, d, target, level)
                                  \/ RevokeShare(r, u, d, target)
  PROVE  IInv'
<1>1. CASE DeleteDocument(r, u, d)
  BY <1>1, InvOwnerCheck DEF DeleteDocument
<1>2. CASE ListShares(r, u, d)
  BY <1>2, InvOwnerCheck DEF ListShares
<1>3. ASSUME NEW target \in Users, NEW level \in Share, ShareDocument(r, u, d, target, level)
      PROVE  IInv'
  BY <1>3, InvOwnerCheck DEF ShareDocument
<1>4. ASSUME NEW target \in Users, RevokeShare(r, u, d, target) PROVE IInv'
  BY <1>4, InvOwnerCheck DEF RevokeShare
<1>5. QED
  BY <1>1, <1>2, <1>3, <1>4

\* can_access says yes: its user can read the document at this moment.
LEMMA InvGranted ==
  ASSUME IInv, NEW r \in Requests, req[r].pc \in {"access", "access_share"},
         CanAccess(req[r].doc, req[r].user), Goto(r, req[r].next), UNCHANGED tables, Silent
  PROVE  IInv'
<1>1. req[r] # Idle /\ req \in [Requests -> Request] /\ RequestFits(req[r])
  BY IdleFacts DEF IInv, TypeOK, RequestsFit
<1>2. req[r].next \in {"answer", "convert", "comment_commit"}
  BY <1>1, RequestFields DEF RequestFits
<1>3. /\ OnlyMoves(r)
      /\ req'[r].pc = req[r].next /\ req'[r].user = req[r].user /\ req'[r].doc = req[r].doc
  BY <1>1, <1>2, GotoFacts DEF Pcs
<1>4. RequestFits(req'[r]) /\ OwnerFits(req'[r])
  BY <1>1, <1>2, <1>3 DEF RequestFits, OwnerFits
<1>5. QED
  BY <1>1, <1>3, <1>4, SilentServes, RequestStep

LEMMA InvAccess ==
  ASSUME IInv, NEW r \in Requests, Access(r) PROVE IInv'
<1>1. /\ req[r].pc = "access" /\ docs[req[r].doc] # None /\ UNCHANGED tables /\ Silent
      /\ IF docs[req[r].doc].visibility = "public" \/ docs[req[r].doc].owner = req[r].user
         THEN Goto(r, req[r].next) ELSE Goto(r, "access_share")
  BY DEF Access
<1>2. CASE docs[req[r].doc].visibility = "public" \/ docs[req[r].doc].owner = req[r].user
  BY <1>1, <1>2, InvGranted DEF CanAccess
<1>3. CASE ~(docs[req[r].doc].visibility = "public" \/ docs[req[r].doc].owner = req[r].user)
  <2>1. req[r] # Idle /\ req \in [Requests -> Request] /\ RequestFits(req[r])
    BY <1>1, IdleFacts DEF IInv, TypeOK, RequestsFit
  <2>2. Goto(r, "access_share")
    BY <1>1, <1>3
  <2>3. /\ OnlyMoves(r)
        /\ req'[r].pc = "access_share" /\ req'[r].user = req[r].user
        /\ req'[r].doc = req[r].doc /\ req'[r].next = req[r].next
    BY <2>1, <2>2, GotoFacts DEF Pcs
  <2>4. RequestFits(req'[r]) /\ OwnerFits(req'[r]) /\ ~Admitted(req'[r])
    BY <2>1, <2>3, <1>1 DEF RequestFits, OwnerFits, Admitted
  <2>5. QED
    BY <2>3, <2>4, <1>1, SilentServes, RequestStep
<1>4. QED
  BY <1>2, <1>3

LEMMA InvAccessShare ==
  ASSUME IInv, NEW r \in Requests, AccessShare(r) PROVE IInv'
<1>1. /\ req[r].pc = "access_share" /\ shares[<<req[r].doc, req[r].user>>] # None
      /\ Goto(r, req[r].next) /\ UNCHANGED tables /\ Silent
  BY DEF AccessShare
<1>2. req[r].doc \in Ids /\ req[r].user \in Users
  BY <1>1, IdleFacts DEF IInv, RequestsFit, RequestFits
<1>3. CanAccess(req[r].doc, req[r].user)
  BY <1>1, <1>2 DEF CanAccess, IInv, NoOrphans
<1>4. QED
  BY <1>1, <1>3, InvGranted

\* An answer goes to whom the history has let in.
LEMMA AnswersServe ==
  ASSUME IInv, NEW r \in Requests, Admitted(req[r]), Answers(r)
  PROVE  ServedOnlyWithAccess' /\ served' \subseteq Answer /\ Remember
<1> DEFINE a == [doc |-> req[r].doc, user |-> req[r].user, text |-> req[r].text,
                 could |-> could[r]]
<1>1. served' = {a} /\ Remember
  BY DEF Answers
<1>2. could[r] # {}
  BY DEF IInv, AdmittedCould
<1>3. a \in Answer
  <2>1. req[r].doc \in Ids /\ req[r].user \in Users
    BY IdleFacts DEF IInv, RequestsFit, RequestFits, Admitted
  <2>2. req[r].text \in Nat \cup {None} /\ could[r] \subseteq Nat
    BY RequestFields DEF IInv, TypeOK
  <2>3. QED
    BY <2>1, <2>2 DEF Answer
<1>4. ServedOnlyWithAccess'
  BY <1>1, <1>2 DEF ServedOnlyWithAccess
<1>5. QED
  BY <1>1, <1>3, <1>4

LEMMA AnswersAtOnceServe ==
  ASSUME NEW d \in Ids, NEW u \in Users, NEW readable \in SUBSET Nat, readable # {},
         AnswersAtOnce(d, u, readable)
  PROVE  ServedOnlyWithAccess' /\ served' \subseteq Answer /\ Remember
<1> DEFINE a == [doc |-> d, user |-> u, text |-> None, could |-> readable]
<1>1. served' = {a} /\ Remember
  BY DEF AnswersAtOnce
<1>2. a \in Answer
  BY DEF Answer
<1>3. ServedOnlyWithAccess'
  BY <1>1 DEF ServedOnlyWithAccess
<1>4. QED
  BY <1>1, <1>2, <1>3

LEMMA InvAnswer ==
  ASSUME IInv, NEW r \in Requests, Respond(r) \/ Converted(r) PROVE IInv'
<1>1. req[r].pc \in {"answer", "convert"} /\ Finish(r) /\ UNCHANGED tables /\ Answers(r)
  BY DEF Respond, Converted
<1>2. OnlyMoves(r) /\ req'[r] = Idle
  BY <1>1, FinishFacts DEF IInv, TypeOK
<1>3. Admitted(req[r])
  BY <1>1 DEF Admitted
<1>4. QED
  BY <1>1, <1>2, <1>3, EndedFits, AnswersServe, RequestStep

\* The list answers with what can be read at that moment.
LEMMA InvListDocuments ==
  ASSUME IInv, NEW r \in Requests, NEW u \in Users, ListDocuments(r, u) PROVE IInv'
<1> DEFINE a(d) == [doc |-> d, user |-> u, text |-> docs[d].body, could |-> ReadableBy(d, u)]
<1>1. /\ req[r] = Idle /\ UNCHANGED <<tables, req>> /\ Remember
      /\ served' = {a(d) : d \in Listed(u)}
  BY DEF ListDocuments
<1>2. \A d \in Listed(u) : d \in Ids /\ docs[d] # None /\ CanAccess(d, u)
  BY DEF Listed, CanAccess
<1>3. \A d \in Listed(u) : a(d) \in Answer /\ a(d).could # {}
  <2>1. SUFFICES ASSUME NEW d \in Listed(u) PROVE a(d) \in Answer /\ a(d).could # {}
    OBVIOUS
  <2>2. d \in Ids /\ docs[d].body \in Nat
    BY <1>2, DocumentFields DEF IInv, TypeOK
  <2>3. ReadableBy(d, u) = {docs[d].body}
    BY <1>2 DEF ReadableBy
  <2>4. QED
    BY <2>2, <2>3 DEF Answer
<1>4. served' \subseteq Answer /\ ServedOnlyWithAccess'
  BY <1>1, <1>3 DEF ServedOnlyWithAccess
<1>5. OnlyMoves(r) /\ req'[r] = Idle
  BY <1>1 DEF OnlyMoves, IInv, TypeOK
<1>6. QED
  BY <1>1, <1>4, <1>5, EndedFits, RequestStep

-----------------------------------------------------------------------------
(* Steps that change the tables.                                           *)

\* Where requests only end and documents keep their owners, it is left to show
\* what the tables say of each other.
LEMMA TablesStep ==
  ASSUME IInv, Remember, served' \subseteq Answer, ServedOnlyWithAccess',
         docs' \in [Ids -> Document \cup {None}], lastId' \in 0 .. MaxId,
         shares' \in [Ids \X Users -> Share \cup {None}],
         comments' \subseteq Comment, commented' \in Nat,
         NoOrphans', IdsAreCounted', IsFiniteSet(comments'), lastId <= lastId',
         \A d \in Ids : d <= lastId /\ docs'[d] # None =>
                          docs[d] # None /\ docs'[d].owner = docs[d].owner,
         req' \in [Requests -> Request],
         \A r \in Requests : req'[r] = req[r] \/ req'[r] = Idle
  PROVE  IInv'
<1>1. RequestsFit'
  <2>1. \A r \in Requests : RequestFits(req'[r])
    BY EndedFits DEF IInv, RequestsFit
  <2>2. QED
    BY <2>1 DEF RequestsFit, RequestFits
<1>2. OwnersFit'
  <2>1. SUFFICES ASSUME NEW r \in Requests,
                        req'[r].pc \in {"delete_commit", "share_commit", "revoke_commit"}
                 PROVE  /\ req'[r].doc <= lastId'
                        /\ docs'[req'[r].doc] # None => docs'[req'[r].doc].owner = req'[r].user
    BY DEF OwnersFit, OwnerFits
  <2>2. req'[r] = req[r] /\ req[r] # Idle
    BY <2>1, IdleFacts
  <2>3. req[r].doc \in Ids /\ OwnerFits(req[r])
    BY <2>2 DEF IInv, RequestsFit, RequestFits, OwnersFit
  <2>4. /\ req[r].doc <= lastId
        /\ docs[req[r].doc] # None => docs[req[r].doc].owner = req[r].user
    BY <2>1, <2>2, <2>3 DEF OwnerFits
  <2>5. req[r].doc \in Nat /\ lastId \in Nat /\ lastId' \in Nat
    BY <2>3, DocumentsAssumption DEF Ids, IInv, TypeOK
  <2>6. QED
    BY <2>2, <2>3, <2>4, <2>5
<1>3. \A r \in Requests : Admitted(req'[r]) => Admitted(req[r])
  BY EndedFits
<1>4. could' \in [Requests -> SUBSET Nat] /\ CouldIsCurrent' /\ AdmittedCould'
  BY <1>1, <1>3, HistoryStep
<1>5. TypeOK'
  BY <1>4 DEF TypeOK
<1>6. QED
  BY <1>1, <1>2, <1>4, <1>5 DEF IInv

LEMMA InvInsertDocument ==
  ASSUME IInv, NEW u \in Users, NEW visibility \in Visibility, InsertDocument(u, visibility)
  PROVE  IInv'
<1> DEFINE x == [owner |-> u, visibility |-> visibility, body |-> 0]
<1>0. PICK n \in Nat : n = lastId + 1
  BY DocumentsAssumption DEF IInv, TypeOK
<1>1. /\ lastId < MaxId /\ lastId' = n /\ docs' = [docs EXCEPT ![n] = x]
      /\ UNCHANGED <<shares, comments, commented, req>> /\ AnswersAtOnce(n, u, {0})
  BY <1>0 DEF InsertDocument
<1>2. n \in Ids /\ x \in Document /\ lastId' \in 0 .. MaxId /\ lastId <= lastId' /\ lastId < n
  BY <1>0, <1>1, DocumentsAssumption DEF IInv, TypeOK, Ids, Document
<1>3. /\ docs' \in [Ids -> Document \cup {None}] /\ docs'[n] = x
      /\ \A d \in Ids : d # n => docs'[d] = docs[d]
  BY <1>1, <1>2 DEF IInv, TypeOK
<1>4. x # None
  BY <1>2, DocumentsAssumption
<1>5. \A d \in Ids : docs[d] # None => docs'[d] # None
  BY <1>3, <1>4
<1>6. NoOrphans'
  BY <1>1, <1>5 DEF IInv, NoOrphans, TypeOK, Comment
<1>7. IdsAreCounted'
  <2>1. SUFFICES ASSUME NEW d \in Ids, docs'[d] # None PROVE d <= lastId'
    BY <1>1 DEF IInv, IdsAreCounted
  <2>2. d \in Nat /\ lastId \in Nat
    BY DocumentsAssumption DEF Ids, IInv, TypeOK
  <2>3. CASE d = n
    BY <2>3, <1>1, <1>0
  <2>4. CASE d # n
    BY <2>1, <2>2, <2>4, <1>0, <1>1, <1>3 DEF IInv, IdsAreCounted
  <2>5. QED
    BY <2>3, <2>4
<1>8. \A d \in Ids : d <= lastId /\ docs'[d] # None =>
                       docs[d] # None /\ docs'[d].owner = docs[d].owner
  BY <1>2, <1>3, <1>0 DEF IInv, TypeOK, Ids
<1>9. ServedOnlyWithAccess' /\ served' \subseteq Answer /\ Remember
  BY <1>1, <1>2, AnswersAtOnceServe
<1>10. QED
  BY <1>1, <1>2, <1>3, <1>6, <1>7, <1>8, <1>9, TablesStep DEF IInv, TypeOK

LEMMA InvUpdateDocument ==
  ASSUME IInv, NEW u \in Users, NEW d \in Ids, NEW text \in {0, 1},
         NEW visibility \in Visibility, UpdateDocument(u, d, text, visibility)
  PROVE  IInv'
<1> DEFINE x == [owner |-> docs[d].owner, visibility |-> visibility, body |-> docs[d].body + text]
<1>1. /\ docs[d] # None /\ docs' = [docs EXCEPT ![d] = x]
      /\ UNCHANGED <<lastId, shares, comments, commented, req>>
      /\ AnswersAtOnce(d, u, ReadableBy(d, u)) /\ CanEdit(d, u)
  BY DEF UpdateDocument, CanEdit
<1>2. x \in Document
  BY <1>1, DocumentFields DEF IInv, TypeOK, Document
<1>3. x # None
  BY <1>2, DocumentsAssumption
<1>4. /\ docs' \in [Ids -> Document \cup {None}] /\ docs'[d] = x
      /\ \A e \in Ids : e # d => docs'[e] = docs[e]
  BY <1>1, <1>2 DEF IInv, TypeOK
<1>5. \A e \in Ids : /\ docs'[e] # None <=> docs[e] # None
                     /\ docs[e] # None => docs'[e].owner = docs[e].owner
  BY <1>1, <1>3, <1>4
<1>6. NoOrphans' /\ IdsAreCounted'
  BY <1>1, <1>5 DEF IInv, NoOrphans, IdsAreCounted, TypeOK, Comment
<1>7. lastId <= lastId'
  BY <1>1, DocumentsAssumption DEF IInv, TypeOK
<1>8. ServedOnlyWithAccess' /\ served' \subseteq Answer /\ Remember
  <2>1. ReadableBy(d, u) # {}
    BY <1>1, EditorsRead, AccessReads
  <2>2. ReadableBy(d, u) \in SUBSET Nat
    BY ReadableType DEF IInv, TypeOK
  <2>3. QED
    BY <1>1, <2>1, <2>2, AnswersAtOnceServe
<1>9. QED
  BY <1>1, <1>4, <1>5, <1>6, <1>7, <1>8, TablesStep DEF IInv, TypeOK

\* A request that commits has ended, and all others are where they were.
LEMMA Committed ==
  ASSUME IInv, NEW r \in Requests, Finish(r)
  PROVE  /\ req' \in [Requests -> Request]
         /\ \A s \in Requests : req'[s] = req[s] \/ req'[s] = Idle
  BY FinishFacts DEF IInv, TypeOK, OnlyMoves

LEMMA InvCommentCommit ==
  ASSUME IInv, NEW r \in Requests, CommentCommit(r) PROVE IInv'
<1> DEFINE c == [id |-> commented + 1, doc |-> req[r].doc, author |-> req[r].user]
<1>1. /\ req[r].pc = "comment_commit" /\ docs[req[r].doc] # None
      /\ commented' = commented + 1 /\ comments' = comments \cup {c}
      /\ Finish(r) /\ UNCHANGED <<docs, lastId, shares>> /\ Answers(r)
  BY DEF CommentCommit, InsertComment, CanAccess
<1>2. req[r].doc \in Ids /\ req[r].user \in Users
  BY <1>1, IdleFacts DEF IInv, RequestsFit, RequestFits
<1>3. c \in Comment /\ commented' \in Nat
  BY <1>1, <1>2 DEF IInv, TypeOK, Comment
<1>4. IsFiniteSet(comments')
  BY <1>1, FS_AddElement DEF IInv
<1>5. NoOrphans' /\ IdsAreCounted'
  <2>1. NoOrphans'
    BY <1>1 DEF IInv, NoOrphans
  <2>2. \A x \in comments : x.id \in Nat /\ x.id <= commented /\ commented \in Nat
    BY DEF IInv, IdsAreCounted, TypeOK, Comment
  <2>3. \A x \in comments' : x.id <= commented'
    BY <1>1, <1>3, <2>2 DEF IInv, TypeOK
  <2>4. QED
    BY <1>1, <2>1, <2>3 DEF IInv, IdsAreCounted
<1>6. lastId <= lastId'
  BY <1>1, DocumentsAssumption DEF IInv, TypeOK
<1>7. comments' \subseteq Comment
  BY <1>1, <1>3 DEF IInv, TypeOK
<1>8. ServedOnlyWithAccess' /\ served' \subseteq Answer /\ Remember
  BY <1>1, AnswersServe DEF Admitted
<1>9. QED
  BY <1>1, <1>3, <1>4, <1>5, <1>6, <1>7, <1>8, Committed, TablesStep DEF IInv, TypeOK

LEMMA DeleteFacts ==
  ASSUME IInv, NEW r \in Requests, DeleteCommit(r)
  PROVE  /\ req[r].doc \in Ids
         /\ docs' \in [Ids -> Document \cup {None}] /\ docs'[req[r].doc] = None
         /\ \A e \in Ids : e # req[r].doc => docs'[e] = docs[e]
         /\ shares' \in [Ids \X Users -> Share \cup {None}]
         /\ \A e \in Ids, v \in Users :
              shares'[<<e, v>>] = IF e = req[r].doc THEN None ELSE shares[<<e, v>>]
         /\ comments' = {c \in comments : c.doc # req[r].doc}
<1>1. /\ req[r].pc = "delete_commit" /\ docs' = [docs EXCEPT ![req[r].doc] = None]
      /\ shares' = [s \in Ids \X Users |-> IF s[1] = req[r].doc THEN None ELSE shares[s]]
      /\ comments' = comments \ CommentsOn(req[r].doc)
  BY DEF DeleteCommit
<1>2. req[r].doc \in Ids
  BY <1>1, IdleFacts DEF IInv, RequestsFit, RequestFits
<1>3. /\ docs' \in [Ids -> Document \cup {None}] /\ docs'[req[r].doc] = None
      /\ \A e \in Ids : e # req[r].doc => docs'[e] = docs[e]
  BY <1>1, <1>2 DEF IInv, TypeOK
<1>4. shares' \in [Ids \X Users -> Share \cup {None}]
  BY <1>1 DEF IInv, TypeOK
<1>5. \A e \in Ids, v \in Users :
        shares'[<<e, v>>] = IF e = req[r].doc THEN None ELSE shares[<<e, v>>]
  BY <1>1
<1>6. comments' = {c \in comments : c.doc # req[r].doc}
  BY <1>1 DEF CommentsOn
<1>7. QED
  BY <1>2, <1>3, <1>4, <1>5, <1>6

LEMMA InvDeleteCommit ==
  ASSUME IInv, NEW r \in Requests, DeleteCommit(r) PROVE IInv'
<1>1. /\ req[r].pc = "delete_commit" /\ Finish(r) /\ UNCHANGED <<lastId, commented>>
      /\ Answers(r)
  BY DEF DeleteCommit
<1>2. comments' \subseteq comments /\ IsFiniteSet(comments')
  BY DeleteFacts, FS_Subset DEF IInv
<1>3. NoOrphans'
  <2>1. \A c \in comments' : docs'[c.doc] # None
    BY DeleteFacts DEF IInv, NoOrphans, TypeOK, Comment
  <2>2. \A e \in Ids, v \in Users : shares'[<<e, v>>] # None => docs'[e] # None
    BY DeleteFacts DEF IInv, NoOrphans
  <2>3. QED
    BY <2>1, <2>2 DEF NoOrphans
<1>4. IdsAreCounted'
  BY <1>1, DeleteFacts DEF IInv, IdsAreCounted
<1>5. lastId <= lastId'
  BY <1>1, DocumentsAssumption DEF IInv, TypeOK
<1>6. \A e \in Ids : docs'[e] # None => docs[e] # None /\ docs'[e].owner = docs[e].owner
  BY DeleteFacts
<1>7. ServedOnlyWithAccess' /\ served' \subseteq Answer /\ Remember
  BY <1>1, AnswersServe DEF Admitted
<1>8. QED
  BY <1>1, <1>2, <1>3, <1>4, <1>5, <1>6, <1>7, DeleteFacts, Committed, TablesStep
     DEF IInv, TypeOK

\* The upsert, or the DELETE, of one row of shares.
LEMMA ShareFacts ==
  ASSUME IInv, NEW r \in Requests, NEW x \in Share \cup {None},
         req[r].pc \in {"share_commit", "revoke_commit"},
         shares' = [shares EXCEPT ![<<req[r].doc, req[r].target>>] = x]
  PROVE  /\ shares' \in [Ids \X Users -> Share \cup {None}]
         /\ \A e \in Ids, v \in Users :
              \/ e = req[r].doc /\ shares'[<<e, v>>] = x
              \/ shares'[<<e, v>>] = shares[<<e, v>>]
<1>1. <<req[r].doc, req[r].target>> \in Ids \X Users
  BY IdleFacts DEF IInv, RequestsFit, RequestFits
<1>2. QED
  BY <1>1 DEF IInv, TypeOK

LEMMA InvShares ==
  ASSUME IInv, NEW r \in Requests, ShareCommit(r) \/ RevokeCommit(r) PROVE IInv'
<1>1. /\ Finish(r) /\ UNCHANGED <<docs, lastId, comments, commented>> /\ Answers(r)
      /\ req[r].pc \in {"share_commit", "revoke_commit"}
  BY DEF ShareCommit, RevokeCommit
<1>2. PICK x \in Share \cup {None} :
        /\ shares' = [shares EXCEPT ![<<req[r].doc, req[r].target>>] = x]
        /\ x # None => docs[req[r].doc] # None
  <2>1. CASE ShareCommit(r)
    <3>1. req[r].level \in Share
      BY <2>1, IdleFacts DEF ShareCommit, IInv, RequestsFit, RequestFits
    <3>2. QED
      BY <2>1, <3>1 DEF ShareCommit
  <2>2. CASE RevokeCommit(r)
    BY <2>2 DEF RevokeCommit
  <2>3. QED
    BY <2>1, <2>2
<1>3. /\ shares' \in [Ids \X Users -> Share \cup {None}]
      /\ \A e \in Ids, v \in Users :
           \/ e = req[r].doc /\ shares'[<<e, v>>] = x
           \/ shares'[<<e, v>>] = shares[<<e, v>>]
  BY <1>1, <1>2, ShareFacts
<1>4. NoOrphans' /\ IdsAreCounted'
  BY <1>1, <1>2, <1>3 DEF IInv, NoOrphans, IdsAreCounted
<1>5. lastId <= lastId'
  BY <1>1, DocumentsAssumption DEF IInv, TypeOK
<1>6. ServedOnlyWithAccess' /\ served' \subseteq Answer /\ Remember
  BY <1>1, AnswersServe DEF Admitted
<1>7. QED
  BY <1>1, <1>3, <1>4, <1>5, <1>6, Committed, TablesStep DEF IInv, TypeOK

-----------------------------------------------------------------------------
(* The inductive invariant.                                                *)

LEMMA InitInv == Init => IInv
<1> SUFFICES ASSUME Init PROVE IInv
  OBVIOUS
<1>1. TypeOK
  BY IdleFacts, DocumentsAssumption DEF Init, TypeOK
<1>2. \A r \in Requests : req[r] = Idle /\ could[r] = {}
  BY DEF Init
<1>3. RequestsFit /\ OwnersFit /\ CouldIsCurrent /\ AdmittedCould
  BY <1>2, EndedFits DEF RequestsFit, OwnersFit, CouldIsCurrent, AdmittedCould
<1>4. NoOrphans /\ IdsAreCounted /\ ServedOnlyWithAccess
  BY DEF Init, NoOrphans, IdsAreCounted, ServedOnlyWithAccess
<1>5. IsFiniteSet(comments)
  BY FS_EmptySet DEF Init
<1>6. QED
  BY <1>1, <1>3, <1>4, <1>5 DEF IInv

LEMMA InvReceive ==
  ASSUME IInv, NEW r \in Requests, NEW u \in Users, Receive(r, u) PROVE IInv'
<1>1. CASE ListDocuments(r, u)
  BY <1>1, InvListDocuments
<1>2. ASSUME NEW d \in Ids,
             ReadDocument(r, u, d) \/ ExportDocument(r, u, d) \/ ListComments(r, u, d)
               \/ AddComment(r, u, d)
      PROVE  IInv'
  BY <1>2, InvReceiveAsk
<1>3. ASSUME NEW d \in Ids,
             \/ DeleteDocument(r, u, d) \/ ListShares(r, u, d)
             \/ \E target \in Users : \/ \E level \in Share : ShareDocument(r, u, d, target, level)
                                      \/ RevokeShare(r, u, d, target)
      PROVE  IInv'
  BY <1>3, InvReceiveOwner
<1>4. QED
  BY <1>1, <1>2, <1>3 DEF Receive

LEMMA InvContinue ==
  ASSUME IInv, NEW r \in Requests, Continue(r) PROVE IInv'
  BY InvAbort, InvAccess, InvAccessShare, InvAnswer, InvCommentCommit, InvDeleteCommit,
     InvShares DEF Continue

\* Which documents are inserted: with one of the two visibilities, whatever
\* was asked for.
LEMMA Inserts ==
  ASSUME NEW u \in Users, NEW visibility,
         CreateDocument(u, visibility) \/ ImportBackup(u, visibility)
  PROVE  \E v \in Visibility : InsertDocument(u, v)
<1>1. "private" \in Visibility
  BY DEF Visibility
<1>2. CASE CreateDocument(u, visibility)
  BY <1>2 DEF CreateDocument
<1>3. CASE ImportBackup(u, visibility)
  <2>1. (IF visibility \in Visibility THEN visibility ELSE "private") \in Visibility
    BY <1>1
  <2>2. QED
    BY <2>1, <1>3 DEF ImportBackup
<1>4. QED
  BY <1>2, <1>3

LEMMA InvStutter == IInv /\ UNCHANGED vars => IInv'
<1> SUFFICES ASSUME IInv, UNCHANGED vars PROVE IInv'
  OBVIOUS
<1>1. UNCHANGED <<docs, lastId, shares, comments, commented, req, could, served>>
  BY DEF vars
<1>2. TypeOK' /\ NoOrphans' /\ IdsAreCounted' /\ IsFiniteSet(comments)'
  BY <1>1 DEF IInv, TypeOK, NoOrphans, IdsAreCounted
<1>3. RequestsFit' /\ OwnersFit'
  BY <1>1 DEF IInv, RequestsFit, RequestFits, OwnersFit, OwnerFits
<1>4. CouldIsCurrent' /\ AdmittedCould' /\ ServedOnlyWithAccess'
  BY <1>1 DEF IInv, CouldIsCurrent, AdmittedCould, Admitted, ServedOnlyWithAccess, ReadableBy,
     CanAccess
<1>5. QED
  BY <1>2, <1>3, <1>4 DEF IInv

LEMMA NextInv == IInv /\ [Next]_vars => IInv'
<1> SUFFICES ASSUME IInv, [Next]_vars PROVE IInv'
  OBVIOUS
<1>1. ASSUME NEW u \in Users, NEW visibility \in Visibility \cup {"other"},
             CreateDocument(u, visibility) \/ ImportBackup(u, visibility)
      PROVE  IInv'
  BY <1>1, Inserts, InvInsertDocument
<1>2. ASSUME NEW u \in Users, NEW d \in Ids, NEW text \in {0, 1}, NEW visibility \in Visibility,
             UpdateDocument(u, d, text, visibility)
      PROVE  IInv'
  BY <1>2, InvUpdateDocument
<1>3. ASSUME NEW r \in Requests, Continue(r) \/ \E u \in Users : Receive(r, u) PROVE IInv'
  BY <1>3, InvContinue, InvReceive
<1>4. CASE UNCHANGED vars
  BY <1>4, InvStutter
<1>5. QED
  BY <1>1, <1>2, <1>3, <1>4 DEF Next

\* The inductive invariant of documents, shares, comments and requests.
THEOREM Invariance == Spec => []IInv
<1>1. QED
  BY InitInv, NextInv, PTL DEF Spec

\* Every variable has its type; in particular no document ever has a
\* visibility that can_access does not know, not even an imported one.
THEOREM TypeCorrect == Spec => []TypeOK
<1>1. IInv => TypeOK
  BY DEF IInv
<1>2. QED
  BY <1>1, Invariance, PTL

\* No share and no comment outlives its document or is written after it.
THEOREM NoOrphansEver == Spec => []NoOrphans
<1>1. IInv => NoOrphans
  BY DEF IInv
<1>2. QED
  BY <1>1, Invariance, PTL

\* Nothing about a document is answered to a user who had no access to it
\* during the request.
THEOREM ServesOnlyWithAccess == Spec => []ServedOnlyWithAccess
<1>1. IInv => ServedOnlyWithAccess
  BY DEF IInv
<1>2. QED
  BY <1>1, Invariance, PTL

-----------------------------------------------------------------------------
(* What a step may never do.                                               *)

\* All steps but add_comment's transaction add no comment.
LEMMA OthersAddNoComment ==
  ASSUME [Next]_vars, \A r \in Requests : ~CommentCommit(r)
  PROVE  comments' \subseteq comments
<1>1. ASSUME NEW u \in Users, NEW visibility,
             CreateDocument(u, visibility) \/ ImportBackup(u, visibility)
      PROVE  UNCHANGED comments
  BY <1>1, Inserts DEF InsertDocument
<1>2. ASSUME NEW u, NEW d, NEW text, NEW visibility, UpdateDocument(u, d, text, visibility)
      PROVE  UNCHANGED comments
  BY <1>2 DEF UpdateDocument
<1>3. ASSUME NEW r \in Requests, Continue(r) PROVE comments' \subseteq comments
  BY <1>3 DEF Continue, Abort, Access, AccessShare, Respond, Converted, DeleteCommit, ShareCommit,
     RevokeCommit, tables
<1>4. ASSUME NEW r \in Requests, NEW u \in Users, Receive(r, u) PROVE UNCHANGED comments
  BY <1>4 DEF Receive, ListDocuments, ReadDocument, ExportDocument, ListComments, AddComment,
     DeleteDocument, ListShares, ShareDocument, RevokeShare, OwnerCheck, tables
<1>5. CASE UNCHANGED vars
  BY <1>5 DEF vars
<1>6. QED
  BY <1>1, <1>2, <1>3, <1>4, <1>5 DEF Next

\* A comment is added by a user who has access at that very moment: the
\* transaction asks can_access again.
THEOREM CommentsAreAuthorised == Spec => CommentsAuthorised
<1>1. [Next]_vars => [\A c \in comments' \ comments : CanAccess(c.doc, c.author)]_vars
  <2> SUFFICES ASSUME [Next]_vars, NEW c \in comments' \ comments
               PROVE  CanAccess(c.doc, c.author)
    OBVIOUS
  <2>1. PICK r \in Requests : CommentCommit(r)
    BY OthersAddNoComment
  <2>2. c = [id |-> commented + 1, doc |-> req[r].doc, author |-> req[r].user]
    BY <2>1 DEF CommentCommit, InsertComment
  <2>3. c.doc = req[r].doc /\ c.author = req[r].user
    BY <2>2
  <2>4. QED
    BY <2>1, <2>3 DEF CommentCommit
<1>2. QED
  BY <1>1, PTL DEF Spec, CommentsAuthorised

\* All steps but three commits keep what documents there are, and the shares.
LEMMA OthersKeep ==
  ASSUME IInv, [Next]_vars,
         \A r \in Requests : ~(DeleteCommit(r) \/ ShareCommit(r) \/ RevokeCommit(r))
  PROVE  UNCHANGED shares /\ \A d \in Ids : docs[d] # None => docs'[d] # None
<1>0. docs \in [Ids -> Document \cup {None}]
  BY DEF IInv, TypeOK
<1>1. ASSUME NEW u \in Users, NEW visibility,
             CreateDocument(u, visibility) \/ ImportBackup(u, visibility)
      PROVE  UNCHANGED shares /\ \A d \in Ids : docs[d] # None => docs'[d] # None
  <2>1. PICK v \in Visibility : InsertDocument(u, v)
    BY <1>1, Inserts
  <2> DEFINE x == [owner |-> u, visibility |-> v, body |-> 0]
  <2>2. x # None
    BY DocumentsAssumption DEF Document
  <2>3. docs' = [docs EXCEPT ![lastId + 1] = x] /\ UNCHANGED shares
    BY <2>1 DEF InsertDocument
  <2>4. QED
    BY <2>2, <2>3, <1>0
<1>2. ASSUME NEW u \in Users, NEW d \in Ids, NEW text \in {0, 1}, NEW visibility \in Visibility,
             UpdateDocument(u, d, text, visibility)
      PROVE  UNCHANGED shares /\ \A e \in Ids : docs[e] # None => docs'[e] # None
  <2> DEFINE x == [owner |-> docs[d].owner, visibility |-> visibility,
                   body |-> docs[d].body + text]
  <2>1. docs[d] # None /\ docs' = [docs EXCEPT ![d] = x] /\ UNCHANGED shares
    BY <1>2 DEF UpdateDocument, CanEdit
  <2>2. x \in Document
    BY <2>1, <1>0, DocumentFields DEF Document
  <2>3. QED
    BY <2>1, <2>2, <1>0, DocumentsAssumption
<1>3. ASSUME NEW r \in Requests, Continue(r) PROVE UNCHANGED <<shares, docs>>
  BY <1>3 DEF Continue, Abort, Access, AccessShare, Respond, Converted, CommentCommit,
     InsertComment, tables
<1>4. ASSUME NEW r \in Requests, NEW u \in Users, Receive(r, u) PROVE UNCHANGED <<shares, docs>>
  BY <1>4 DEF Receive, ListDocuments, ReadDocument, ExportDocument, ListComments, AddComment,
     DeleteDocument, ListShares, ShareDocument, RevokeShare, OwnerCheck, tables
<1>5. CASE UNCHANGED vars
  BY <1>5 DEF vars
<1>6. QED
  BY <1>1, <1>2, <1>3, <1>4, <1>5 DEF Next

\* What a commit changes is the document its request is about, and that
\* belongs to the user of the request.
LEMMA CommitByOwner ==
  ASSUME IInv, NEW r \in Requests, DeleteCommit(r) \/ ShareCommit(r) \/ RevokeCommit(r),
         NEW d \in Ids, docs[d] # None,
         docs'[d] = None \/ \E u \in Users : shares'[<<d, u>>] # shares[<<d, u>>]
  PROVE  req'[r] = Idle /\ req[r].doc = d /\ req[r].user = docs[d].owner
<1>1. /\ req[r].pc \in {"delete_commit", "share_commit", "revoke_commit"} /\ Finish(r)
  BY DEF DeleteCommit, ShareCommit, RevokeCommit
<1>2. req'[r] = Idle
  BY <1>1, FinishFacts DEF IInv, TypeOK
<1>3. req[r].doc = d
  <2>1. CASE DeleteCommit(r)
    BY <2>1, DeleteFacts
  <2>2. CASE ShareCommit(r)
    <3>1. /\ req[r].pc = "share_commit" /\ UNCHANGED docs /\ req[r].level \in Share
          /\ shares' = [shares EXCEPT ![<<req[r].doc, req[r].target>>] = req[r].level]
      BY <2>2, IdleFacts DEF ShareCommit, IInv, RequestsFit, RequestFits
    <3>2. QED
      BY <3>1, ShareFacts
  <2>3. CASE RevokeCommit(r)
    <3>1. /\ req[r].pc = "revoke_commit" /\ UNCHANGED docs
          /\ shares' = [shares EXCEPT ![<<req[r].doc, req[r].target>>] = None]
      BY <2>3 DEF RevokeCommit
    <3>2. QED
      BY <3>1, ShareFacts
  <2>4. QED
    BY <2>1, <2>2, <2>3
<1>4. OwnerFits(req[r])
  BY DEF IInv, OwnersFit
<1>5. QED
  BY <1>1, <1>2, <1>3, <1>4 DEF OwnerFits

\* A document disappears, and its shares change, only at the request of its
\* owner at that moment: OwnersFit.
THEOREM OwnersDecideAlways == Spec => OwnersDecide
<1>1. IInv /\ [Next]_vars =>
        [\A d \in Ids :
           /\ docs[d] # None
           /\ docs'[d] = None \/ \E u \in Users : shares'[<<d, u>>] # shares[<<d, u>>]
           => \E r \in Requests : /\ req'[r] = Idle /\ req[r].doc = d
                                  /\ req[r].user = docs[d].owner]_vars
  <2> SUFFICES ASSUME IInv, [Next]_vars, NEW d \in Ids, docs[d] # None,
                      docs'[d] = None \/ \E u \in Users : shares'[<<d, u>>] # shares[<<d, u>>]
               PROVE  \E r \in Requests : /\ req'[r] = Idle /\ req[r].doc = d
                                          /\ req[r].user = docs[d].owner
    OBVIOUS
  <2>1. PICK r \in Requests : DeleteCommit(r) \/ ShareCommit(r) \/ RevokeCommit(r)
    BY OthersKeep
  <2>2. QED
    BY <2>1, CommitByOwner
<1>2. QED
  BY <1>1, Invariance, PTL DEF Spec, OwnersDecide

-----------------------------------------------------------------------------
(* Quotas.                                                                 *)

LEMMA OwnedIsFinite ==
  ASSUME NEW u PROVE IsFiniteSet(OwnedBy(u))
<1>1. IsFiniteSet(Ids)
  BY FS_Interval, DocumentsAssumption DEF Ids
<1>2. QED
  BY <1>1, FS_Subset DEF OwnedBy

\* What has at most one member more than a set below its limit is within it.
LEMMA OneMore ==
  ASSUME NEW S, IsFiniteSet(S), NEW T, NEW x, T \subseteq S \cup {x}, NEW limit \in Nat,
         Cardinality(S) < limit
  PROVE  Cardinality(T) <= limit
<1>1. /\ IsFiniteSet(S \cup {x}) /\ Cardinality(S \cup {x}) \in Nat /\ Cardinality(S) \in Nat
      /\ Cardinality(S \cup {x}) <= Cardinality(S) + 1
  BY FS_AddElement, FS_CardinalityType
<1>2. IsFiniteSet(T) /\ Cardinality(T) <= Cardinality(S \cup {x})
  BY <1>1, FS_Subset
<1>3. Cardinality(T) \in Nat
  BY <1>2, FS_CardinalityType
<1>4. QED
  BY <1>1, <1>2, <1>3

LEMMA NoMore ==
  ASSUME NEW S, IsFiniteSet(S), NEW T, T \subseteq S, NEW limit \in Nat, Cardinality(S) <= limit
  PROVE  Cardinality(T) <= limit
<1>1. IsFiniteSet(T) /\ Cardinality(T) <= Cardinality(S)
  BY FS_Subset
<1>2. Cardinality(T) \in Nat /\ Cardinality(S) \in Nat
  BY <1>1, FS_CardinalityType
<1>3. QED
  BY <1>1, <1>2

LEMMA CommentsAreFinite ==
  ASSUME IInv, NEW d PROVE IsFiniteSet(CommentsOn(d))
<1>1. CommentsOn(d) \subseteq comments
  BY DEF CommentsOn
<1>2. QED
  BY <1>1, FS_Subset DEF IInv

\* A step that adds a document, or a comment, only below the limit.
LEMMA QuotaStep ==
  ASSUME IInv, QuotasHold,
         \A u \in Users :
           \/ OwnedBy(u)' \subseteq OwnedBy(u)
           \/ /\ Cardinality(OwnedBy(u)) < MaxDocuments
              /\ \E n \in Ids : OwnedBy(u)' \subseteq OwnedBy(u) \cup {n},
         \A d \in Ids :
           \/ CommentsOn(d)' \subseteq CommentsOn(d)
           \/ /\ Cardinality(CommentsOn(d)) < MaxComments
              /\ \E c : CommentsOn(d)' \subseteq CommentsOn(d) \cup {c}
  PROVE  QuotasHold'
<1>1. ASSUME NEW u \in Users PROVE Cardinality(OwnedBy(u)') <= MaxDocuments
  <2>1. CASE OwnedBy(u)' \subseteq OwnedBy(u)
    BY <2>1, OwnedIsFinite, NoMore, DocumentsAssumption DEF QuotasHold
  <2>2. CASE Cardinality(OwnedBy(u)) < MaxDocuments
             /\ \E n \in Ids : OwnedBy(u)' \subseteq OwnedBy(u) \cup {n}
    BY <2>2, OwnedIsFinite, OneMore, DocumentsAssumption
  <2>3. QED
    BY <2>1, <2>2
<1>2. ASSUME NEW d \in Ids PROVE Cardinality(CommentsOn(d)') <= MaxComments
  <2>1. CASE CommentsOn(d)' \subseteq CommentsOn(d)
    BY <2>1, CommentsAreFinite, NoMore, DocumentsAssumption DEF QuotasHold
  <2>2. CASE Cardinality(CommentsOn(d)) < MaxComments
             /\ \E c : CommentsOn(d)' \subseteq CommentsOn(d) \cup {c}
    BY <2>2, CommentsAreFinite, OneMore, DocumentsAssumption
  <2>3. QED
    BY <2>1, <2>2
<1>3. QED
  BY <1>1, <1>2 DEF QuotasHold

\* Where documents keep their owners, and no comment is added.
LEMMA QuotasKept ==
  ASSUME IInv, QuotasHold,
         \A d \in Ids : docs'[d] # None => docs[d] # None /\ docs'[d].owner = docs[d].owner,
         comments' \subseteq comments
  PROVE  QuotasHold'
<1>1. \A u \in Users : OwnedBy(u)' \subseteq OwnedBy(u)
  BY DEF OwnedBy
<1>2. \A d \in Ids : CommentsOn(d)' \subseteq CommentsOn(d)
  BY DEF CommentsOn
<1>3. QED
  BY <1>1, <1>2, QuotaStep

\* The id of a new document is nobody's: IdsAreCounted.
LEMMA QuotaInsertDocument ==
  ASSUME IInv, QuotasHold, NEW u \in Users, NEW visibility \in Visibility,
         InsertDocument(u, visibility)
  PROVE  QuotasHold'
<1> DEFINE x == [owner |-> u, visibility |-> visibility, body |-> 0]
<1>0. PICK n \in Nat : n = lastId + 1
  BY DocumentsAssumption DEF IInv, TypeOK
<1>1. /\ lastId < MaxId /\ docs' = [docs EXCEPT ![n] = x] /\ UNCHANGED comments
      /\ Cardinality(OwnedBy(u)) < MaxDocuments
  BY <1>0 DEF InsertDocument
<1>2. n \in Ids
  BY <1>0, <1>1, DocumentsAssumption DEF IInv, TypeOK, Ids
<1>3. docs'[n] = x /\ \A d \in Ids : d # n => docs'[d] = docs[d]
  BY <1>1, <1>2 DEF IInv, TypeOK
<1>4. OwnedBy(u)' \subseteq OwnedBy(u) \cup {n}
  BY <1>3 DEF OwnedBy
<1>5. \A v \in Users : v # u => OwnedBy(v)' \subseteq OwnedBy(v)
  BY <1>3 DEF OwnedBy
<1>6. \A d \in Ids : CommentsOn(d)' \subseteq CommentsOn(d)
  BY <1>1 DEF CommentsOn
<1>7. QED
  BY <1>1, <1>2, <1>4, <1>5, <1>6, QuotaStep

LEMMA QuotaCommentCommit ==
  ASSUME IInv, QuotasHold, NEW r \in Requests, CommentCommit(r)
  PROVE  QuotasHold'
<1>0. PICK n : n = commented + 1
  OBVIOUS
<1>1. /\ UNCHANGED docs
      /\ comments' = comments \cup {[id |-> n, doc |-> req[r].doc, author |-> req[r].user]}
      /\ Cardinality(CommentsOn(req[r].doc)) < MaxComments
  BY <1>0 DEF CommentCommit, InsertComment
<1>2. PICK y : y = [id |-> n, doc |-> req[r].doc, author |-> req[r].user]
  OBVIOUS
<1>3. comments' = comments \cup {y} /\ y.doc = req[r].doc
  BY <1>1, <1>2
<1>4. \A d \in Ids : d # req[r].doc => CommentsOn(d)' \subseteq CommentsOn(d)
  BY <1>3 DEF CommentsOn
<1>5. \A d \in Ids : CommentsOn(d)' \subseteq CommentsOn(d) \cup {y}
  BY <1>3 DEF CommentsOn
<1>6. \A u \in Users : OwnedBy(u)' \subseteq OwnedBy(u)
  BY <1>1 DEF OwnedBy
<1>7. QED
  BY <1>1, <1>4, <1>5, <1>6, QuotaStep

LEMMA QuotaNext == IInv /\ QuotasHold /\ [Next]_vars => QuotasHold'
<1> SUFFICES ASSUME IInv, QuotasHold, [Next]_vars PROVE QuotasHold'
  OBVIOUS
<1>1. ASSUME NEW u \in Users, NEW visibility \in Visibility \cup {"other"},
             CreateDocument(u, visibility) \/ ImportBackup(u, visibility)
      PROVE  QuotasHold'
  BY <1>1, Inserts, QuotaInsertDocument
<1>2. ASSUME NEW u \in Users, NEW d \in Ids, NEW text \in {0, 1}, NEW visibility \in Visibility,
             UpdateDocument(u, d, text, visibility)
      PROVE  QuotasHold'
  <2> DEFINE x == [owner |-> docs[d].owner, visibility |-> visibility,
                   body |-> docs[d].body + text]
  <2>1. docs[d] # None /\ docs' = [docs EXCEPT ![d] = x] /\ UNCHANGED comments
    BY <1>2 DEF UpdateDocument, CanEdit
  <2>2. \A e \in Ids : docs'[e] # None => docs[e] # None /\ docs'[e].owner = docs[e].owner
    BY <2>1 DEF IInv, TypeOK
  <2>3. QED
    BY <2>1, <2>2, QuotasKept
<1>3. ASSUME NEW r \in Requests, DeleteCommit(r) PROVE QuotasHold'
  <2>1. \A e \in Ids : docs'[e] # None => docs[e] # None /\ docs'[e].owner = docs[e].owner
    BY <1>3, DeleteFacts
  <2>2. comments' \subseteq comments
    BY <1>3, DeleteFacts
  <2>3. QED
    BY <2>1, <2>2, QuotasKept
<1>4. ASSUME NEW r \in Requests, Continue(r), ~CommentCommit(r), ~DeleteCommit(r)
      PROVE  UNCHANGED <<docs, comments>>
  BY <1>4 DEF Continue, Abort, Access, AccessShare, Respond, Converted, ShareCommit,
     RevokeCommit, tables
<1>5. ASSUME NEW r \in Requests, NEW u \in Users, Receive(r, u) PROVE UNCHANGED <<docs, comments>>
  BY <1>5 DEF Receive, ListDocuments, ReadDocument, ExportDocument, ListComments, AddComment,
     DeleteDocument, ListShares, ShareDocument, RevokeShare, OwnerCheck, tables
<1>6. CASE UNCHANGED <<docs, comments>>
  BY <1>6, QuotasKept
<1>7. CASE UNCHANGED vars
  BY <1>6, <1>7 DEF vars
<1>8. ASSUME NEW r \in Requests, Continue(r) PROVE QuotasHold'
  BY <1>3, <1>4, <1>6, <1>8, QuotaCommentCommit
<1>9. QED
  BY <1>1, <1>2, <1>5, <1>6, <1>7, <1>8 DEF Next

\* No interleaving takes a user, or a document, over its limit: the count and
\* the INSERT are one transaction, and nothing else adds.
THEOREM QuotasHoldAlways == Spec => []QuotasHold
<1>1. Init => QuotasHold
  <2>1. ASSUME Init PROVE (\A u : OwnedBy(u) = {}) /\ (\A d : CommentsOn(d) = {})
    BY <2>1 DEF Init, OwnedBy, CommentsOn
  <2>2. QED
    BY <2>1, FS_EmptySet, DocumentsAssumption DEF QuotasHold
<1>2. QED
  BY <1>1, Invariance, QuotaNext, PTL DEF Spec

-----------------------------------------------------------------------------
(* The refinement of DocumentStore.                                        *)

LEMMA SameIds == Store!Ids = Ids
  BY DEF Store!Ids, Ids

LEMMA SameRights ==
  ASSUME NEW d, NEW u
  PROVE  /\ Store!CanAccess(d, u) <=> CanAccess(d, u)
         /\ Store!Reads(docs, shares, d, u) <=> CanAccess(d, u)
         /\ Store!Reads(docs', shares', d, u) <=> CanAccess(d, u)'
         /\ Store!CanEdit(d, u) <=> CanEdit(d, u)
         /\ Store!IsOwner(d, u) <=> IsOwner(d, u)
  BY DEF Store!CanAccess, Store!Reads, CanAccess, Store!CanEdit, CanEdit, Store!IsOwner, IsOwner

LEMMA SameCounts ==
  ASSUME NEW d, NEW u
  PROVE  /\ Store!Cardinality(Store!OwnedBy(u)) = Cardinality(OwnedBy(u))
         /\ Store!CommentsOn(d) = CommentsOn(d)
         /\ Store!Cardinality(Store!CommentsOn(d)) = Cardinality(CommentsOn(d))
<1>1. Store!OwnedBy(u) = OwnedBy(u) /\ Store!CommentsOn(d) = CommentsOn(d)
  BY SameIds DEF Store!OwnedBy, OwnedBy, Store!CommentsOn, CommentsOn
<1>2. ASSUME NEW S PROVE Store!Cardinality(S) = Cardinality(S)
  BY Zenon DEF Cardinality, Store!Cardinality
<1>3. QED
  BY <1>1, <1>2

\* What a request asks for, of any state.
LEMMA AskingFields ==
  ASSUME NEW r \in Requests
  PROVE  /\ Asking[r] = [user |-> req[r].user, doc |-> req[r].doc, had |-> could[r] # {}]
         /\ Asking[r].user = req[r].user /\ Asking[r].doc = req[r].doc
         /\ Asking[r].had <=> could[r] # {}
  BY DEF Asking

LEMMA AskingFieldsNext ==
  ASSUME NEW r \in Requests
  PROVE  Asking'[r] = [user |-> req'[r].user, doc |-> req'[r].doc, had |-> could'[r] # {}]
  BY DEF Asking

\* A request is free in the abstract when it is idle.
LEMMA FreeIsIdle ==
  ASSUME IInv, NEW r \in Requests
  PROVE  Asking[r] = Store!Free <=> req[r] = Idle
<1>1. CASE req[r] = Idle
  <2>1. req[r].user = None /\ req[r].doc = 0
    BY <1>1 DEF Idle
  <2>2. could[r] = {}
    BY <1>1 DEF IInv, CouldIsCurrent
  <2>3. QED
    BY <1>1, <2>1, <2>2, AskingFields DEF Store!Free
<1>2. CASE req[r] # Idle
  <2>1. req[r].user \in Users
    BY <1>2 DEF IInv, RequestsFit, RequestFits
  <2>2. Asking[r].user # None
    BY <2>1, AskingFields, DocumentsAssumption
  <2>3. QED
    BY <1>2, <2>2 DEF Store!Free
<1>3. QED
  BY <1>1, <1>2

\* Some requests end; the others are about the same as before.
Ends(done) ==
  \A s \in Requests :
    IF s \in done THEN req'[s] = Idle
    ELSE /\ req'[s].user = req[s].user /\ req'[s].doc = req[s].doc
         /\ req'[s] = Idle <=> req[s] = Idle

LEMMA EndsGoOn ==
  ASSUME IInv, Remember, NEW done, Ends(done)
  PROVE  Store!GoOn(done)
<1> DEFINE f(s) == IF s \in done \/ Asking[s] = Store!Free THEN Store!Free
                   ELSE [user |-> Asking[s].user, doc |-> Asking[s].doc,
                         had |-> Asking[s].had
                                   \/ Store!Reads(docs', shares', Asking[s].doc, Asking[s].user)]
<1>1. ASSUME NEW s \in Requests
      PROVE  [user |-> req'[s].user, doc |-> req'[s].doc, had |-> could'[s] # {}] = f(s)
  <2>1. CASE s \in done \/ req[s] = Idle
    <3>1. req'[s] = Idle /\ could'[s] = {}
      BY <2>1 DEF Ends, Remember
    <3>2. req'[s].user = None /\ req'[s].doc = 0
      BY <3>1 DEF Idle
    <3>3. f(s) = Store!Free
      BY <2>1, FreeIsIdle
    <3>4. QED
      BY <3>1, <3>2, <3>3 DEF Store!Free
  <2>2. CASE s \notin done /\ req[s] # Idle
    <3>1. /\ req'[s] # Idle /\ req'[s].user = req[s].user /\ req'[s].doc = req[s].doc
      BY <2>2 DEF Ends
    <3>2. could'[s] = could[s] \cup ReadableBy(req[s].doc, req[s].user)'
      BY <3>1 DEF Remember
    <3>3. ReadableBy(req[s].doc, req[s].user)' # {} <=> CanAccess(req[s].doc, req[s].user)'
      BY DEF ReadableBy
    <3>4. CanAccess(req[s].doc, req[s].user)' <=> Store!Reads(docs', shares', req[s].doc, req[s].user)
      BY <3>1 DEF CanAccess, Store!Reads
    <3>5. could'[s] # {} <=> could[s] # {} \/ Store!Reads(docs', shares', req[s].doc, req[s].user)
      BY <3>2, <3>3, <3>4
    <3>6. f(s) = [user |-> req[s].user, doc |-> req[s].doc,
                  had |-> could[s] # {} \/ Store!Reads(docs', shares', req[s].doc, req[s].user)]
      BY <2>2, FreeIsIdle, AskingFields
    <3>7. QED
      BY <3>1, <3>5, <3>6
  <2>3. QED
    BY <2>1, <2>2
<1>2. Asking' = [s \in Requests |-> f(s)]
  BY <1>1 DEF Asking
<1>3. QED
  BY <1>2 DEF Store!GoOn

\* Where no table changes, a request that goes on has what it had.
LEMMA AskingStays ==
  ASSUME IInv, Remember, UNCHANGED tables, NEW s \in Requests,
         req'[s].user = req[s].user, req'[s].doc = req[s].doc, req'[s] = Idle <=> req[s] = Idle
  PROVE  Asking'[s] = Asking[s]
<1>1. could'[s] = could[s]
  <2>1. CASE req[s] = Idle
    BY <2>1 DEF Remember, IInv, CouldIsCurrent
  <2>2. CASE req[s] # Idle
    <3>1. could'[s] = could[s] \cup ReadableBy(req[s].doc, req[s].user)'
      BY <2>2 DEF Remember
    <3>2. ReadableBy(req[s].doc, req[s].user)' = ReadableBy(req[s].doc, req[s].user)
      BY DEF ReadableBy, CanAccess, tables
    <3>3. ReadableBy(req[s].doc, req[s].user) \subseteq could[s]
      BY <2>2 DEF IInv, CouldIsCurrent
    <3>4. QED
      BY <3>1, <3>2, <3>3
  <2>3. QED
    BY <2>1, <2>2
<1>2. QED
  BY <1>1, AskingFields, AskingFieldsNext

LEMMA SameTables ==
  ASSUME UNCHANGED tables PROVE UNCHANGED Store!tables
  BY DEF tables, Store!tables

LEMMA SilentAnswers ==
  ASSUME Silent PROVE Answered' = {} /\ Remember
  BY DEF Silent, Answered

LEMMA AskingIsFunction ==
  /\ Asking = [s \in Requests |-> Asking[s]]
  /\ Asking' = [s \in Requests |-> Asking'[s]]
  BY DEF Asking

\* It asks.
LEMMA StoreAsk ==
  ASSUME IInv, NEW r \in Requests, NEW u \in Users, NEW d \in Ids,
         NEW pc \in Pcs, pc # "idle", NEW text \in Nat \cup {None},
         NEW next \in {"idle", "answer", "convert", "comment_commit"},
         NEW target \in Users \cup {None}, NEW level \in Share \cup {None},
         Begin(r, u, d, pc, text, next, target, level), UNCHANGED tables, Silent
  PROVE  Store!Ask(r, u, d)
<1>1. OnlyMoves(r) /\ req[r] = Idle
      /\ req'[r].pc = pc /\ req'[r].user = u /\ req'[r].doc = d
  <2> DEFINE x == [pc |-> pc, user |-> u, doc |-> d, text |-> text,
                   next |-> next, target |-> target, level |-> level]
  <2>1. x \in Request
    BY DEF Request, Pcs
  <2>2. OnlyMoves(r) /\ req'[r] = x
    BY <2>1, SetRequest DEF Begin, IInv, TypeOK
  <2>3. QED
    BY <2>2 DEF Begin
<1>2. req'[r] # Idle
  BY <1>1, IdleFacts
<1>3. could'[r] # {} <=> CanAccess(d, u)
  <2>1. could[r] = {}
    BY <1>1 DEF IInv, CouldIsCurrent
  <2>2. could'[r] = could[r] \cup ReadableBy(req[r].doc, req[r].user)'
    BY <1>2 DEF Silent, Remember
  <2>3. ReadableBy(req[r].doc, req[r].user)' # {} <=> CanAccess(req[r].doc, req[r].user)'
    BY DEF ReadableBy
  <2>4. CanAccess(req[r].doc, req[r].user)' <=> CanAccess(d, u)
    BY <1>1 DEF CanAccess, tables
  <2>5. QED
    BY <2>1, <2>2, <2>3, <2>4
<1>4. Asking'[r] = [user |-> u, doc |-> d, had |-> Store!CanAccess(d, u)]
  <2>1. could'[r] # {} <=> Store!CanAccess(d, u)
    BY <1>3, SameRights
  <2>2. QED
    BY <1>1, <2>1, AskingFieldsNext DEF Store!CanAccess, Store!Reads
<1>5. \A s \in Requests : s # r => Asking'[s] = Asking[s]
  BY <1>1, AskingStays DEF OnlyMoves, Silent
<1>6. Asking' = [Asking EXCEPT ![r] = [user |-> u, doc |-> d, had |-> Store!CanAccess(d, u)]]
  BY <1>4, <1>5, AskingIsFunction
<1>7. QED
  BY <1>1, <1>6, FreeIsIdle, SilentAnswers, SameTables DEF Store!Ask

LEMMA StoreReceiveAsk ==
  ASSUME IInv, NEW r \in Requests, NEW u \in Users, NEW d \in Ids,
         \/ ReadDocument(r, u, d) \/ ExportDocument(r, u, d) \/ ListComments(r, u, d)
         \/ AddComment(r, u, d) \/ DeleteDocument(r, u, d) \/ ListShares(r, u, d)
         \/ \E target \in Users : \/ \E level \in Share : ShareDocument(r, u, d, target, level)
                                  \/ RevokeShare(r, u, d, target)
  PROVE  Store!Ask(r, u, d)
<1>1. docs[d] # None => docs[d].body \in Nat
  BY DocumentFields DEF IInv, TypeOK
<1>2. CASE ReadDocument(r, u, d)
  BY <1>1, <1>2, StoreAsk DEF ReadDocument, Pcs
<1>3. CASE ExportDocument(r, u, d)
  BY <1>1, <1>3, StoreAsk DEF ExportDocument, Pcs
<1>4. CASE ListComments(r, u, d)
  BY <1>4, StoreAsk DEF ListComments, Pcs
<1>5. CASE AddComment(r, u, d)
  BY <1>5, StoreAsk DEF AddComment, Pcs
<1>6. CASE DeleteDocument(r, u, d)
  BY <1>6, StoreAsk DEF DeleteDocument, OwnerCheck, Pcs
<1>7. CASE ListShares(r, u, d)
  BY <1>7, StoreAsk DEF ListShares, OwnerCheck, Pcs
<1>8. ASSUME NEW target \in Users, NEW level \in Share, ShareDocument(r, u, d, target, level)
      PROVE  Store!Ask(r, u, d)
  BY <1>8, StoreAsk DEF ShareDocument, OwnerCheck, Pcs
<1>9. ASSUME NEW target \in Users, RevokeShare(r, u, d, target) PROVE Store!Ask(r, u, d)
  BY <1>9, StoreAsk DEF RevokeShare, OwnerCheck, Pcs
<1>10. QED
  BY <1>2, <1>3, <1>4, <1>5, <1>6, <1>7, <1>8, <1>9

\* A list is one answer.
LEMMA StoreList ==
  ASSUME IInv, NEW r \in Requests, NEW u \in Users, ListDocuments(r, u)
  PROVE  Store!List(u)
<1>1. Listed(u) = {d \in Store!Ids : Store!CanAccess(d, u)}
  BY SameIds, SameRights DEF Listed, CanAccess
<1>2. Answered' = {[doc |-> d, user |-> u] : d \in Listed(u)}
  <2>1. served' = {[doc |-> d, user |-> u, text |-> docs[d].body, could |-> ReadableBy(d, u)] :
                   d \in Listed(u)}
    BY DEF ListDocuments
  <2> DEFINE a(d) == [doc |-> d, user |-> u, text |-> docs[d].body, could |-> ReadableBy(d, u)]
  <2>2. Answered' = {[doc |-> x.doc, user |-> x.user] : x \in served'}
    BY DEF Answered
  <2>3. \A d : a(d).doc = d /\ a(d).user = u
    OBVIOUS
  <2>4. served' = {a(d) : d \in Listed(u)}
    BY <2>1
  <2> HIDE DEF a
  <2>5. QED
    BY <2>2, <2>3, <2>4
<1>3. UNCHANGED Asking
  BY AskingStays, AskingIsFunction DEF ListDocuments
<1>4. UNCHANGED Store!tables
  BY SameTables DEF ListDocuments
<1>5. QED
  BY <1>1, <1>2, <1>3, <1>4 DEF Store!List

\* The statements of can_access are not seen.
LEMMA StoreSilence ==
  ASSUME IInv, NEW r \in Requests, Access(r) \/ AccessShare(r)
  PROVE  Store!Silence
<1>1. /\ req[r].pc \in {"access", "access_share"} /\ UNCHANGED tables /\ Silent
      /\ Goto(r, req[r].next) \/ Goto(r, "access_share")
  BY DEF Access, AccessShare
<1>2. /\ req[r] # Idle /\ req \in [Requests -> Request]
      /\ req[r].next \in {"answer", "convert", "comment_commit"}
  BY <1>1, IdleFacts, RequestFields DEF IInv, TypeOK, RequestsFit, RequestFits
<1>3. /\ OnlyMoves(r) /\ req'[r].pc # "idle"
      /\ req'[r].user = req[r].user /\ req'[r].doc = req[r].doc
  <2>1. CASE Goto(r, req[r].next)
    BY <2>1, <1>2, GotoFacts DEF Pcs
  <2>2. CASE Goto(r, "access_share")
    BY <2>2, <1>2, GotoFacts DEF Pcs
  <2>3. QED
    BY <1>1, <2>1, <2>2
<1>4. req'[r] # Idle
  BY <1>3, IdleFacts
<1>5. \A s \in Requests : Asking'[s] = Asking[s]
  <2>1. SUFFICES ASSUME NEW s \in Requests PROVE Asking'[s] = Asking[s]
    OBVIOUS
  <2>2. req'[s].user = req[s].user /\ req'[s].doc = req[s].doc /\ (req'[s] = Idle <=> req[s] = Idle)
    BY <1>2, <1>3, <1>4 DEF OnlyMoves
  <2>3. QED
    BY <2>2, <1>1, AskingStays DEF Silent
<1>6. UNCHANGED Asking
  BY <1>5, AskingIsFunction
<1>7. QED
  BY <1>1, <1>6, SilentAnswers, SameTables DEF Store!Silence

LEMMA FinishEnds ==
  ASSUME IInv, NEW r \in Requests, Finish(r)
  PROVE  Ends({r})
<1>1. OnlyMoves(r) /\ req'[r] = Idle
  BY FinishFacts DEF IInv, TypeOK
<1>2. QED
  BY <1>1 DEF Ends, OnlyMoves

LEMMA StoreWithdraw ==
  ASSUME IInv, NEW r \in Requests, req[r] # Idle, Finish(r), UNCHANGED Store!tables, Silent
  PROVE  Store!Withdraw(r)
  BY FinishEnds, EndsGoOn, FreeIsIdle, SilentAnswers DEF Store!Withdraw

\* It ends with its answer.
LEMMA StoreEnds ==
  ASSUME IInv, NEW r \in Requests, Finish(r), Answers(r)
  PROVE  Store!Ends(r)
<1>1. Answered' = {[doc |-> req[r].doc, user |-> req[r].user]}
  BY DEF Answers, Answered
<1>2. Store!GoOn({r})
  BY FinishEnds, EndsGoOn DEF Answers
<1>3. QED
  BY <1>1, <1>2, AskingFields DEF Store!Ends

\* Whoever has had access may be answered where nothing changes.
LEMMA StoreAnswer ==
  ASSUME IInv, NEW r \in Requests, Admitted(req[r]), Finish(r), UNCHANGED Store!tables,
         Answers(r)
  PROVE  Store!Respond(r)
<1>1. Asking[r].had
  BY AskingFields DEF IInv, AdmittedCould
<1>2. QED
  BY <1>1, StoreEnds DEF Store!Respond

LEMMA StoreRespond ==
  ASSUME IInv, NEW r \in Requests, Respond(r) \/ Converted(r)
  PROVE  Store!Respond(r)
<1>1. Admitted(req[r]) /\ Finish(r) /\ UNCHANGED tables /\ Answers(r)
  BY DEF Respond, Converted, Admitted
<1>2. QED
  BY <1>1, StoreAnswer, SameTables

\* Where no request moves, none ends.
LEMMA NobodyEnds ==
  ASSUME UNCHANGED req PROVE Ends({})
  BY DEF Ends

LEMMA StoreAtOnce ==
  ASSUME IInv, NEW d, NEW u, NEW readable, UNCHANGED req, AnswersAtOnce(d, u, readable)
  PROVE  Store!AtOnce(d, u)
<1>1. Answered' = {[doc |-> d, user |-> u]}
  BY DEF AnswersAtOnce, Answered
<1>2. Store!GoOn({})
  BY NobodyEnds, EndsGoOn DEF AnswersAtOnce
<1>3. QED
  BY <1>1, <1>2 DEF Store!AtOnce

\* A document gets the id after the last.
LEMMA StoreCreate ==
  ASSUME IInv, NEW u \in Users, NEW visibility \in Visibility, InsertDocument(u, visibility)
  PROVE  Store!Create(u)
<1>0. PICK n \in Nat : n = lastId + 1
  BY DocumentsAssumption DEF IInv, TypeOK
<1>1. /\ lastId < MaxId /\ lastId' = n
      /\ docs' = [docs EXCEPT ![n] = [owner |-> u, visibility |-> visibility, body |-> 0]]
      /\ Cardinality(OwnedBy(u)) < MaxDocuments
      /\ UNCHANGED <<shares, comments, req>> /\ AnswersAtOnce(n, u, {0})
  BY <1>0 DEF InsertDocument
<1>2. lastId \in Nat /\ lastId < n /\ n <= MaxId
  BY <1>0, <1>1, DocumentsAssumption DEF IInv, TypeOK
<1>3. n \in Store!Ids \ 1 .. lastId /\ 1 .. lastId' = 1 .. lastId \cup {n}
  BY <1>0, <1>1, <1>2, DocumentsAssumption DEF Store!Ids
<1>4. visibility \in {"private", "public"}
  BY DEF Visibility
<1>5. Store!AtOnce(n, u)
  BY <1>1, StoreAtOnce
<1>6. QED
  BY <1>1, <1>3, <1>4, <1>5, SameCounts DEF Store!Create

LEMMA StoreEdit ==
  ASSUME IInv, NEW u \in Users, NEW d \in Ids, NEW text \in {0, 1}, NEW visibility \in Visibility,
         UpdateDocument(u, d, text, visibility)
  PROVE  Store!Edit(u, d)
<1>1. Store!CanEdit(d, u)
  BY SameRights DEF UpdateDocument
<1>2. /\ visibility \in {"private", "public"}
      /\ visibility = docs[d].visibility \/ docs[d].owner = u
      /\ docs' = [docs EXCEPT ![d] = [owner |-> docs[d].owner, visibility |-> visibility,
                                      body |-> docs[d].body + text]]
      /\ UNCHANGED <<lastId, shares, comments, req>> /\ AnswersAtOnce(d, u, ReadableBy(d, u))
  BY DEF UpdateDocument, Visibility
<1>3. Store!AtOnce(d, u)
  BY <1>2, StoreAtOnce
<1>4. QED
  BY <1>1, <1>2, <1>3 DEF Store!Edit

\* A new comment has a number none has had.
LEMMA StoreComment ==
  ASSUME IInv, NEW r \in Requests, CommentCommit(r)
  PROVE  Store!Comment(r)
<1> DEFINE c == [id |-> commented + 1, doc |-> req[r].doc, author |-> req[r].user]
<1>1. /\ req[r].pc = "comment_commit" /\ CanAccess(req[r].doc, req[r].user)
      /\ Cardinality(CommentsOn(req[r].doc)) < MaxComments
      /\ comments' = comments \cup {c}
      /\ Finish(r) /\ UNCHANGED <<docs, lastId, shares>> /\ Answers(r)
  BY DEF CommentCommit, InsertComment
<1>2. req[r] # Idle
  BY <1>1, IdleFacts
<1>3. c \notin comments
  <2>1. commented \in Nat /\ \A x \in comments : x.id \in Nat /\ x.id <= commented
    BY DEF IInv, TypeOK, IdsAreCounted, Comment
  <2>2. c.id = commented + 1
    OBVIOUS
  <2> HIDE DEF c
  <2>3. QED
    BY <2>1, <2>2
<1>4. \E x \in comments' : /\ x \notin comments /\ x.doc = req[r].doc /\ x.author = req[r].user
                           /\ comments' = comments \cup {x}
  <2>1. c \in comments' /\ c.doc = req[r].doc /\ c.author = req[r].user
    BY <1>1
  <2> HIDE DEF c
  <2>2. QED
    BY <1>1, <1>3, <2>1
<1>5. Store!Ends(r)
  BY <1>1, StoreEnds
<1>6. Asking[r] # Store!Free /\ Asking[r].doc = req[r].doc /\ Asking[r].user = req[r].user
  BY <1>2, FreeIsIdle, AskingFields
<1>7. Store!CanAccess(req[r].doc, req[r].user)
  BY <1>1, SameRights
<1>8. Store!Cardinality(Store!CommentsOn(req[r].doc)) < MaxComments
  BY <1>1, SameCounts
<1>9. QED
  BY <1>1, <1>4, <1>5, <1>6, <1>7, <1>8 DEF Store!Comment

\* Who commits as an owner is the owner still, or the document is gone.
LEMMA CommitterOwns ==
  ASSUME IInv, NEW r \in Requests,
         req[r].pc \in {"delete_commit", "share_commit", "revoke_commit"}
  PROVE  /\ req[r] # Idle /\ req[r].doc \in Ids
         /\ Asking[r] # Store!Free /\ Asking[r].doc = req[r].doc
         /\ docs[req[r].doc] # None => Store!IsOwner(Asking[r].doc, Asking[r].user)
<1>1. req[r] # Idle
  BY IdleFacts
<1>2. req[r].doc \in Ids /\ OwnerFits(req[r])
  BY <1>1 DEF IInv, RequestsFit, RequestFits, OwnersFit
<1>3. docs[req[r].doc] # None => docs[req[r].doc].owner = req[r].user
  BY <1>2 DEF OwnerFits
<1>4. QED
  BY <1>1, <1>2, <1>3, FreeIsIdle, AskingFields DEF Store!IsOwner

\* Deleting a document that is gone changes nothing: NoOrphans.
LEMMA StoreDelete ==
  ASSUME IInv, NEW r \in Requests, DeleteCommit(r)
  PROVE  Store!Delete(r) \/ Store!Respond(r)
<1> DEFINE d == req[r].doc
<1>1. /\ req[r].pc = "delete_commit" /\ docs' = [docs EXCEPT ![d] = None]
      /\ shares' = [s \in Ids \X Users |-> IF s[1] = d THEN None ELSE shares[s]]
      /\ comments' = comments \ CommentsOn(d)
      /\ Finish(r) /\ UNCHANGED lastId /\ Answers(r)
  BY DEF DeleteCommit
<1>2. /\ req[r] # Idle /\ d \in Ids
      /\ Asking[r] # Store!Free /\ Asking[r].doc = d
      /\ docs[d] # None => Store!IsOwner(Asking[r].doc, Asking[r].user)
  BY <1>1, CommitterOwns
<1>3. CASE docs[d] # None
  <2>1. Store!Ends(r)
    BY <1>1, StoreEnds
  <2>2. shares' = [s \in Store!Ids \X Users |-> IF s[1] = d THEN None ELSE shares[s]]
    BY <1>1, SameIds
  <2>3. comments' = comments \ Store!CommentsOn(d)
    BY <1>1, SameCounts
  <2> HIDE DEF d
  <2>4. QED
    BY <1>1, <1>2, <1>3, <2>1, <2>2, <2>3 DEF Store!Delete
<1>4. CASE docs[d] = None
  <2>1. docs' = docs
    BY <1>1, <1>2, <1>4 DEF IInv, TypeOK
  <2>2. shares' = shares
    <3>1. shares \in [Ids \X Users -> Share \cup {None}]
      BY DEF IInv, TypeOK
    <3>2. \A e \in Ids, v \in Users : shares[<<e, v>>] = IF e = d THEN None ELSE shares[<<e, v>>]
      BY <1>4 DEF IInv, NoOrphans
    <3>3. \A s \in Ids \X Users : (IF s[1] = d THEN None ELSE shares[s]) = shares[s]
      BY <3>2
    <3>4. QED
      BY <1>1, <3>1, <3>3
  <2>3. comments' = comments
    <3>1. CommentsOn(d) = {}
      BY <1>4 DEF IInv, NoOrphans, CommentsOn
    <3>2. QED
      BY <1>1, <3>1
  <2>4. UNCHANGED Store!tables
    BY <1>1, <2>1, <2>2, <2>3 DEF Store!tables
  <2>5. QED
    BY <1>1, <1>2, <2>4, StoreAnswer DEF Admitted
<1>5. QED
  BY <1>3, <1>4

\* Taking a share of a document that is gone, too.
LEMMA StoreSetShare ==
  ASSUME IInv, NEW r \in Requests, ShareCommit(r) \/ RevokeCommit(r)
  PROVE  Store!SetShare(r) \/ Store!Respond(r)
<1> DEFINE d == req[r].doc
<1>1. /\ Finish(r) /\ UNCHANGED <<docs, lastId, comments>> /\ Answers(r)
      /\ req[r].pc \in {"share_commit", "revoke_commit"}
  BY DEF ShareCommit, RevokeCommit
<1>2. /\ req[r] # Idle /\ d \in Ids
      /\ Asking[r] # Store!Free /\ Asking[r].doc = d
      /\ docs[d] # None => Store!IsOwner(Asking[r].doc, Asking[r].user)
  BY <1>1, CommitterOwns
<1>3. PICK x \in {"view", "edit", None} :
        /\ shares' = [shares EXCEPT ![<<d, req[r].target>>] = x]
        /\ x # None => docs[d] # None
  <2>1. CASE ShareCommit(r)
    <3>1. req[r].level \in Share
      BY <2>1, IdleFacts DEF ShareCommit, IInv, RequestsFit, RequestFits
    <3>2. QED
      BY <2>1, <3>1 DEF ShareCommit, Share
  <2>2. CASE RevokeCommit(r)
    BY <2>2 DEF RevokeCommit
  <2>3. QED
    BY <2>1, <2>2
<1>4. req[r].target \in Users
  BY <1>1, <1>2 DEF IInv, RequestsFit, RequestFits
<1>5. CASE docs[d] # None
  <2>1. Store!Ends(r)
    BY <1>1, StoreEnds
  <2> HIDE DEF d
  <2>2. QED
    BY <1>1, <1>2, <1>3, <1>4, <1>5, <2>1 DEF Store!SetShare
<1>6. CASE docs[d] = None
  <2>1. shares[<<d, req[r].target>>] = None /\ x = None
    BY <1>2, <1>3, <1>4, <1>6 DEF IInv, NoOrphans
  <2>2. shares' = shares
    BY <1>3, <2>1, <1>2, <1>4 DEF IInv, TypeOK
  <2>3. UNCHANGED Store!tables
    BY <1>1, <2>2 DEF Store!tables
  <2>4. QED
    BY <1>1, <1>2, <2>3, StoreAnswer DEF Admitted
<1>7. QED
  BY <1>5, <1>6

LEMMA StoreInit ==
  ASSUME Init PROVE Store!Init
<1>1. docs = [d \in Store!Ids |-> None] /\ shares = [s \in Store!Ids \X Users |-> None]
  BY SameIds DEF Init
<1>2. 1 .. lastId = {} /\ comments = {}
  BY DEF Init
<1>3. Answered = {}
  BY DEF Init, Answered
<1>4. Asking = [r \in Requests |-> Store!Free]
  <2>1. \A r \in Requests : Asking[r] = Store!Free
    BY InitInv, FreeIsIdle DEF Init
  <2>2. QED
    BY <2>1, AskingIsFunction
<1>5. QED
  BY <1>1, <1>2, <1>3, <1>4 DEF Store!Init

LEMMA StoreNext == IInv /\ [Next]_vars => [Store!Next]_Store!vars
<1> SUFFICES ASSUME IInv, [Next]_vars PROVE Store!Next \/ UNCHANGED Store!vars
  BY DEF Store!vars
<1>1. ASSUME NEW u \in Users, NEW visibility \in Visibility \cup {"other"},
             CreateDocument(u, visibility) \/ ImportBackup(u, visibility)
      PROVE  Store!Next
  BY <1>1, Inserts, StoreCreate DEF Store!Next
<1>2. ASSUME NEW u \in Users, NEW d \in Ids, NEW text \in {0, 1}, NEW visibility \in Visibility,
             UpdateDocument(u, d, text, visibility)
      PROVE  Store!Next
  BY <1>2, SameIds, StoreEdit DEF Store!Next
<1>3. ASSUME NEW r \in Requests, Continue(r) PROVE Store!Next
  <2>1. CASE Abort(r)
    BY <2>1, SameTables, StoreWithdraw DEF Abort, Store!Next
  <2>2. CASE Access(r) \/ AccessShare(r)
    BY <2>2, StoreSilence DEF Store!Next
  <2>3. CASE Respond(r) \/ Converted(r)
    BY <2>3, StoreRespond DEF Store!Next
  <2>4. CASE CommentCommit(r)
    BY <2>4, StoreComment DEF Store!Next
  <2>5. CASE DeleteCommit(r)
    BY <2>5, StoreDelete DEF Store!Next
  <2>6. CASE ShareCommit(r) \/ RevokeCommit(r)
    BY <2>6, StoreSetShare DEF Store!Next
  <2>7. QED
    BY <1>3, <2>1, <2>2, <2>3, <2>4, <2>5, <2>6 DEF Continue
<1>4. ASSUME NEW r \in Requests, NEW u \in Users, Receive(r, u) PROVE Store!Next
  <2>1. CASE ListDocuments(r, u)
    BY <2>1, StoreList DEF Store!Next
  <2>2. CASE \E d \in Ids : Store!Ask(r, u, d)
    BY <2>2, SameIds DEF Store!Next
  <2>3. QED
    BY <1>4, <2>1, <2>2, StoreReceiveAsk DEF Receive
<1>5. CASE UNCHANGED vars
  BY <1>5 DEF vars, Store!vars, Store!tables, Asking, Answered
<1>6. QED
  BY <1>1, <1>2, <1>3, <1>4, <1>5 DEF Next

\* Documents implements DocumentStore.  What takes two statements looks like
\* one moment: the commit, by OwnersFit and by the transaction that asks again,
\* or the answer, by AdmittedCould.
THEOREM StoreRefinement == Spec => ImplementsStore
<1>1. IInv /\ [Next]_vars => [Store!Next]_Store!vars
  BY StoreNext
<1>2. Init => Store!Init
  BY StoreInit
<1>3. QED
  BY <1>1, <1>2, Invariance, PTL DEF Spec, Store!Spec, ImplementsStore
=============================================================================
