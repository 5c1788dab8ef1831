--------------------------- MODULE SessionsProofs ---------------------------
(***************************************************************************)
(* Proofs about Sessions, for any number of accounts, tokens and requests  *)
(* in flight.                                                              *)
(***************************************************************************)
EXTENDS Sessions, TLAPS

-----------------------------------------------------------------------------
(* Types.                                                                  *)

\* The claims of a token made from a row are well typed.
LEMMA ClaimsType ==
  ASSUME NEW i \in Ids, NEW row \in User, NEW parent \in Jtis \cup {None},
         clock \in Nat
  PROVE  Claims(i, row, parent) \in Jwt
BY SessionsAssumption DEF Claims, Jwt, User

\* A row is never the absent value.
LEMMA NoneIsNoRow == None \notin User /\ None \notin Jwt /\ None \notin Reset
                     /\ None \notin Jtis /\ None \notin Rids
BY SessionsAssumption

LEMMA InitType == Init => TypeOK
<1> SUFFICES ASSUME Init PROVE TypeOK
  OBVIOUS
<1>1. users \in [Ids -> User \cup {None}]
  <2>1. ASSUME NEW i \in Ids, i <= Len(Migrated)
        PROVE  Migrated[i] \in Names
    BY <2>1, SessionsAssumption DEF Ids
  <2> QED
    BY <2>1 DEF Init, User, Epoch
<1>2. req \in [Requests -> Request]
  BY DEF Init, Request, Idle, Steps
<1> QED
  BY <1>1, <1>2 DEF Init, TypeOK

\* What SetPassword does, type-correctly.
LEMMA SetPasswordType ==
  ASSUME TypeOK, NEW i \in Ids, users[i] # None, SetPassword(i)
  PROVE  /\ users' \in [Ids -> User \cup {None}]
         /\ resets' \in [Rids -> Reset \cup {None}]
         /\ passwords' \in Nat
         /\ users'[i] \in User
<1>1. users[i] \in User
  BY DEF TypeOK
<1>2. WithNewPassword(users[i]) \in User
  BY <1>1 DEF User, Epoch, TypeOK, WithNewPassword
<1>3. \A t \in Rids : resets[t] # None => [resets[t] EXCEPT !.used = TRUE] \in Reset
  BY DEF TypeOK, Reset
<1> QED
  BY <1>1, <1>2, <1>3 DEF SetPassword, TypeOK

\* A step that hands out a token keeps the type of jwts.
LEMMA IssueType ==
  ASSUME TypeOK, NEW i \in Ids, NEW row \in User,
         NEW parent \in Jtis \cup {None}, Issue(i, row, parent)
  PROVE  jwts' \in [Jtis -> Jwt \cup {None}]
BY ClaimsType DEF TypeOK, Issue, HandOut

\* A request that moves on, or starts, keeps the type of req.
LEMMA RequestType ==
  ASSUME TypeOK, NEW r \in Requests, NEW x \in Request,
         req' = [req EXCEPT ![r] = x]
  PROVE  req' \in [Requests -> Request]
BY DEF TypeOK

LEMMA IdleType == Idle \in Request
BY DEF Idle, Request, Steps

LEMMA FinishType ==
  ASSUME TypeOK, NEW r \in Requests, Finish(r)
  PROVE  req' \in [Requests -> Request]
BY IdleType DEF TypeOK, Finish

LEMMA ContinueType ==
  ASSUME TypeOK, NEW r \in Requests, NEW step \in Steps, Continue(r, step)
  PROVE  req' \in [Requests -> Request]
BY DEF TypeOK, Continue, Request

LEMMA DecodeType ==
  ASSUME TypeOK, NEW r \in Requests, NEW j \in Jtis, Decode(r, j)
  PROVE  TypeOK'
<1>1. jwts[j] \in Jwt
  BY DEF Decode, Decodes, TypeOK
<1>2. [Idle EXCEPT !.pc = "identify", !.sub = jwts[j].sub, !.jti = j] \in Request
  BY <1>1 DEF Idle, Request, Jwt, Steps
<1> QED
  BY <1>2, RequestType DEF Decode, TypeOK

LEMMA IdentifyType ==
  ASSUME TypeOK, NEW r \in Requests, NEW step \in Steps, Identify(r, step)
  PROVE  TypeOK'
BY ContinueType DEF Identify, TypeOK

\* What RequestsWellFormed says of a request by the step it is at.
LEMMA RequestFacts ==
  ASSUME IInv, NEW r \in Requests
  PROVE  /\ req[r] \in Request
         /\ req[r].pc \notin {"idle", "identify", "reset_commit"} =>
              /\ req[r].sub \in Ids
              /\ users[req[r].sub] \in User
         /\ req[r].pc \in {"login_upgrade", "login_issue", "change_commit"} =>
              /\ req[r].row \in User
              /\ Behind(req[r].sub, req[r].row)
         /\ req[r].pc \in {"identify", "logout_purge", "logout_insert",
                           "refresh_commit", "change_verify"} =>
              /\ req[r].jti \in Jtis
              /\ jwts[req[r].jti] \in Jwt
              /\ jwts[req[r].jti].sub = req[r].sub
         /\ req[r].pc = "reset_commit" =>
              /\ req[r].rid \in Rids
              /\ resets[req[r].rid] \in Reset
<1>1. req[r] \in Request
  BY DEF IInv, TypeOK
<1>2. req[r].sub \in Ids \cup {0} /\ req[r].row \in User \cup {None}
      /\ req[r].jti \in Jtis \cup {None} /\ req[r].rid \in Rids \cup {None}
  BY <1>1 DEF Request
<1> QED
  BY <1>1, <1>2 DEF IInv, TypeOK, RequestsWellFormed

THEOREM TypeStep == IInv /\ [Next]_vars => TypeOK'
<1> SUFFICES ASSUME IInv, [Next]_vars PROVE TypeOK'
  OBVIOUS
<1>0. TypeOK
  BY DEF IInv
<1>1. CASE Tick
  BY <1>0, <1>1 DEF Tick, TypeOK
<1>2. CASE Reseed
  <2>1. \A i \in Ids : i <= Len(Seeded) => Seeded[i] \in Names
    BY SessionsAssumption DEF Ids
  <2> QED
    BY <1>0, <1>2, <2>1 DEF Reseed, TypeOK, User, Epoch
<1>3. ASSUME NEW i \in Ids, ResetRequest(i)
      PROVE  TypeOK'
  <2>1. users[i] \in User
    BY <1>0, <1>3 DEF ResetRequest, TypeOK
  <2>2. [sub |-> i, exp |-> clock + ResetLife, used |-> FALSE,
         pw |-> users[i].pw] \in Reset
    BY <1>0, <2>1, SessionsAssumption DEF Reset, User, TypeOK
  <2> QED
    BY <1>0, <1>3, <2>2 DEF ResetRequest, TypeOK
<1>4. ASSUME NEW r \in Requests, Abort(r)
      PROVE  TypeOK'
  BY <1>0, <1>4, FinishType DEF Abort, TypeOK
<1>5. ASSUME NEW r \in Requests, NEW n \in Names, RegisterInsert(r, n)
      PROVE  TypeOK'
  <2>1. PICK i \in Ids :
          /\ users' = [users EXCEPT ![i] =
                         [name |-> n, pw |-> passwords + 1, outdated |-> FALSE,
                          ver |-> [gen |-> draws + 1, n |-> 0]]]
          /\ req' = [req EXCEPT ![r] =
                       [Idle EXCEPT !.pc = "register_respond", !.sub = i]]
    BY <1>5 DEF RegisterInsert
  <2>2. [Idle EXCEPT !.pc = "register_respond", !.sub = i] \in Request
    BY DEF Idle, Request, Steps
  <2>3. [name |-> n, pw |-> passwords + 1, outdated |-> FALSE,
         ver |-> [gen |-> draws + 1, n |-> 0]] \in User
    BY <1>0 DEF User, Epoch, TypeOK
  <2> QED
    BY <1>0, <1>5, <2>1, <2>2, <2>3 DEF RegisterInsert, TypeOK
<1>6. ASSUME NEW r \in Requests, RegisterRespond(r)
      PROVE  TypeOK'
  BY <1>0, <1>6, RequestFacts, IssueType, FinishType DEF RegisterRespond, TypeOK
<1>7. ASSUME NEW r \in Requests, NEW i \in Ids, LoginSelect(r, i)
      PROVE  TypeOK'
  <2>1. users[i] \in User
    BY <1>0, <1>7 DEF LoginSelect, TypeOK
  <2>2. \A step \in {"login_upgrade", "login_issue"} :
          [Idle EXCEPT !.pc = step, !.sub = i, !.row = users[i]] \in Request
    BY <2>1 DEF Idle, Request, Steps
  <2> QED
    BY <1>0, <1>7, <2>2, RequestType DEF LoginSelect, TypeOK
<1>8. ASSUME NEW r \in Requests, LoginUpgrade(r)
      PROVE  TypeOK'
  <2> DEFINE i == req[r].sub
  <2>1. i \in Ids /\ users[i] \in User /\ req[r].row \in User
    BY <1>8, RequestFacts DEF LoginUpgrade
  <2>2. Rehashed(users[i], req[r].row.pw) \in User
    BY <2>1 DEF User, Rehashed
  <2>3. req' \in [Requests -> Request]
    BY <1>0, <1>8, ContinueType DEF LoginUpgrade, Steps
  <2> QED
    BY <1>0, <1>8, <2>1, <2>2, <2>3 DEF LoginUpgrade, TypeOK
<1>9. ASSUME NEW r \in Requests, LoginIssue(r)
      PROVE  TypeOK'
  BY <1>0, <1>9, RequestFacts, IssueType, FinishType DEF LoginIssue, TypeOK
<1>10. ASSUME NEW r \in Requests,
              (\E j \in Jtis : Decode(r, j))
              \/ LogoutIdentity(r) \/ RefreshIdentity(r) \/ ChangeIdentity(r)
       PROVE  TypeOK'
  BY <1>0, <1>10, DecodeType, IdentifyType
     DEF LogoutIdentity, RefreshIdentity, ChangeIdentity, Steps
<1>11. ASSUME NEW r \in Requests, LogoutPurge(r)
       PROVE  TypeOK'
  BY <1>0, <1>11, ContinueType DEF LogoutPurge, Unexpired, TypeOK, Steps
<1>12. ASSUME NEW r \in Requests, LogoutInsert(r)
       PROVE  TypeOK'
  BY <1>0, <1>12, RequestFacts, FinishType DEF LogoutInsert, TypeOK
<1>13. ASSUME NEW r \in Requests, RefreshCommit(r)
       PROVE  TypeOK'
  BY <1>0, <1>13, RequestFacts, IssueType, FinishType
     DEF RefreshCommit, Unexpired, TypeOK
<1>14. ASSUME NEW r \in Requests, ChangeVerify(r)
       PROVE  TypeOK'
  <2>1. users[req[r].sub] \in User /\ req[r] \in Request
    BY <1>14, RequestFacts DEF ChangeVerify
  <2>2. [req[r] EXCEPT !.pc = "change_commit", !.row = users[req[r].sub]] \in Request
    BY <2>1 DEF Request, Steps
  <2> QED
    BY <1>0, <1>14, <2>2 DEF ChangeVerify, TypeOK
<1>15. ASSUME NEW r \in Requests, ChangeCommit(r)
       PROVE  TypeOK'
  <2> DEFINE i == req[r].sub
  <2>1. i \in Ids /\ users[i] \in User /\ SetPassword(i)
    BY <1>15, RequestFacts DEF ChangeCommit
  <2>2. /\ users' \in [Ids -> User \cup {None}]
        /\ resets' \in [Rids -> Reset \cup {None}]
        /\ passwords' \in Nat
        /\ users'[i] \in User
    BY <1>0, <2>1, NoneIsNoRow, SetPasswordType
  <2>3. Issue(i, users'[i], None)
    BY <1>15 DEF ChangeCommit
  <2>4. jwts' \in [Jtis -> Jwt \cup {None}]
    BY <1>0, <2>1, <2>2, <2>3, IssueType
  <2> QED
    BY <1>0, <1>15, <2>2, <2>4, FinishType DEF ChangeCommit, TypeOK
<1>16. ASSUME NEW r \in Requests, NEW t \in Rids, ResetCheck(r, t)
       PROVE  TypeOK'
  <2>1. [Idle EXCEPT !.pc = "reset_commit", !.rid = t] \in Request
    BY DEF Idle, Request, Steps
  <2> QED
    BY <1>0, <1>16, <2>1 DEF ResetCheck, TypeOK
<1>17. ASSUME NEW r \in Requests, ResetCommit(r)
       PROVE  TypeOK'
  <2> DEFINE i == resets[req[r].rid].sub
  <2>1. i \in Ids /\ users[i] # None /\ SetPassword(i)
    BY <1>17, RequestFacts, NoneIsNoRow
       DEF ResetCommit, IInv, ResetTokensDieWithPassword, Reset
  <2> QED
    BY <1>0, <1>17, <2>1, SetPasswordType, FinishType DEF ResetCommit, TypeOK
<1>18. CASE UNCHANGED vars
  BY <1>0, <1>18 DEF vars, TypeOK
<1> QED
  BY <1>1, <1>2, <1>3, <1>4, <1>5, <1>6, <1>7, <1>8, <1>9, <1>10, <1>11, <1>12,
     <1>13, <1>14, <1>15, <1>16, <1>17, <1>18 DEF Next, Handle

-----------------------------------------------------------------------------
(* Accounts.                                                               *)

\* All that a step can do to account i: drop it, keep it, keep its name and
\* draw while the epoch grows or the password stays, or give it a new draw.
MovesOn(i) ==
  \/ users'[i] = None
  \/ users'[i] = users[i]
  \/ /\ users[i] # None
     /\ users'[i].name = users[i].name
     /\ users'[i].ver.gen = users[i].ver.gen
     /\ \/ users'[i].ver.n > users[i].ver.n
        \/ users'[i].ver.n = users[i].ver.n /\ users'[i].pw = users[i].pw
  \/ users'[i].ver.gen > draws

\* _set_password moves one account on and leaves the others alone.
LEMMA SetPasswordMovesOn ==
  ASSUME TypeOK, NEW k \in Ids, users[k] # None, SetPassword(k)
  PROVE  \A i \in Ids : MovesOn(i)
<1> SUFFICES ASSUME NEW i \in Ids PROVE MovesOn(i)
  OBVIOUS
<1>1. CASE i = k
  <2>1. users[k] \in User
    BY DEF TypeOK
  <2> QED
    BY <1>1, <2>1 DEF SetPassword, WithNewPassword, MovesOn, TypeOK, User, Epoch
<1>2. CASE i # k
  BY <1>2 DEF SetPassword, MovesOn, TypeOK
<1> QED
  BY <1>1, <1>2

LEMMA AccountsMoveOn ==
  ASSUME IInv, [Next]_vars
  PROVE  /\ \A i \in Ids : MovesOn(i)
         /\ draws' \in Nat /\ draws <= draws'
         /\ EpochsWereDrawn'
<1>0. TypeOK /\ TypeOK' /\ EpochsWereDrawn
  BY TypeStep DEF IInv
<1> DEFINE Goal == /\ \A i \in Ids : MovesOn(i)
                   /\ draws' \in Nat /\ draws <= draws'
                   /\ EpochsWereDrawn'
<1>1. CASE users' = users /\ draws' = draws
  BY <1>0, <1>1 DEF MovesOn, EpochsWereDrawn, TypeOK
<1>2. CASE Reseed
  BY <1>0, <1>2 DEF Reseed, MovesOn, EpochsWereDrawn, TypeOK
<1>3. ASSUME NEW r \in Requests, NEW n \in Names, RegisterInsert(r, n)
      PROVE  Goal
  <2>1. PICK k \in Ids :
          users' = [users EXCEPT ![k] =
                      [name |-> n, pw |-> passwords + 1, outdated |-> FALSE,
                       ver |-> [gen |-> draws + 1, n |-> 0]]]
    BY <1>3 DEF RegisterInsert
  <2>2. draws' = draws + 1
    BY <1>3 DEF RegisterInsert
  <2>3. ASSUME NEW i \in Ids
        PROVE  MovesOn(i) /\ (users'[i] # None => users'[i].ver.gen <= draws')
    <3>1. CASE i = k
      BY <1>0, <2>1, <2>2, <3>1 DEF MovesOn, TypeOK
    <3>2. CASE i # k
      <4>1. users'[i] = users[i]
        BY <1>0, <2>1, <3>2 DEF TypeOK
      <4>2. users[i] # None => users[i].ver.gen \in Nat
        BY <1>0 DEF TypeOK, User, Epoch
      <4> QED
        BY <1>0, <2>2, <4>1, <4>2 DEF MovesOn, EpochsWereDrawn, TypeOK
    <3> QED
      BY <3>1, <3>2
  <2> QED
    BY <1>0, <2>2, <2>3 DEF EpochsWereDrawn, TypeOK
<1>4. ASSUME NEW r \in Requests, LoginUpgrade(r)
      PROVE  Goal
  <2> DEFINE k == req[r].sub
  <2>1. k \in Ids /\ users[k] \in User /\ req[r].row \in User
    BY <1>4, RequestFacts DEF LoginUpgrade
  <2>2. \/ users' = users
        \/ /\ users[k].pw = req[r].row.pw
           /\ users' = [users EXCEPT ![k] =
                          Rehashed(users[k], req[r].row.pw)]
    BY <1>4 DEF LoginUpgrade
  <2>3. ASSUME NEW i \in Ids, users' # users
        PROVE  /\ MovesOn(i)
               /\ users'[i] # None => users'[i].ver.gen <= draws
    <3>1. CASE i = k
      <4>1. users'[k] = Rehashed(users[k], users[k].pw)
        BY <1>0, <2>1, <2>2, <2>3 DEF TypeOK
      <4>2. /\ users'[k].name = users[k].name /\ users'[k].ver = users[k].ver
            /\ users'[k].pw = users[k].pw
        BY <4>1 DEF Rehashed
      <4>3. users[k] # None /\ users[k].ver.gen <= draws
        BY <1>0, <2>1, NoneIsNoRow DEF EpochsWereDrawn
      <4> QED
        BY <3>1, <4>2, <4>3 DEF MovesOn
    <3>2. CASE i # k
      BY <1>0, <2>2, <2>3, <3>2 DEF MovesOn, TypeOK, EpochsWereDrawn
    <3> QED
      BY <3>1, <3>2
  <2>4. draws' = draws
    BY <1>4 DEF LoginUpgrade
  <2> QED
    BY <1>0, <1>1, <2>3, <2>4 DEF EpochsWereDrawn, TypeOK
<1>5. ASSUME NEW k \in Ids, users[k] # None, SetPassword(k), draws' = draws
      PROVE  Goal
  <2>1. \A i \in Ids : MovesOn(i)
    BY <1>0, <1>5, SetPasswordMovesOn
  <2>2. ASSUME NEW i \in Ids, users'[i] # None
        PROVE  users'[i].ver.gen <= draws
    <3>1. CASE i = k
      BY <1>0, <1>5, <3>1 DEF SetPassword, WithNewPassword, TypeOK, EpochsWereDrawn
    <3>2. CASE i # k
      BY <1>0, <1>5, <2>2, <3>2 DEF SetPassword, TypeOK, EpochsWereDrawn
    <3> QED
      BY <3>1, <3>2
  <2> QED
    BY <1>0, <1>5, <2>1, <2>2 DEF EpochsWereDrawn, TypeOK
<1>6. ASSUME NEW r \in Requests, ChangeCommit(r)
      PROVE  Goal
  BY <1>5, <1>6, RequestFacts, NoneIsNoRow DEF ChangeCommit
<1>7. ASSUME NEW r \in Requests, ResetCommit(r)
      PROVE  Goal
  <2> DEFINE k == resets[req[r].rid].sub
  <2>1. k \in Ids /\ users[k] # None
    BY <1>7, RequestFacts, NoneIsNoRow DEF ResetCommit, IInv, ResetTokensDieWithPassword, Reset
  <2> QED
    BY <1>5, <1>7, <2>1 DEF ResetCommit
<1> QED
  BY <1>1, <1>2, <1>3, <1>4, <1>6, <1>7
     DEF Next, Handle, vars, Tick, ResetRequest, Abort, RegisterRespond, LoginSelect,
         LoginIssue, Decode, LogoutIdentity, LogoutPurge, LogoutInsert, RefreshIdentity,
         RefreshCommit, ChangeIdentity, Identify, ChangeVerify, ResetCheck

\* Behind(i, c) after the step, for a c evaluated before it.
BehindNext(i, c) ==
  /\ c.ver.gen <= draws'
  /\ users'[i] # None /\ users'[i].ver.gen = c.ver.gen =>
       /\ c.ver.n <= users'[i].ver.n
       /\ c.ver.n = users'[i].ver.n =>
            c.pw = users'[i].pw /\ c.name = users'[i].name

\* Rows and claims that were behind their account stay behind it.
LEMMA BehindStays ==
  ASSUME IInv, [Next]_vars, NEW i \in Ids, NEW c, c.ver \in Epoch, Behind(i, c)
  PROVE  BehindNext(i, c)
<1>1. MovesOn(i) /\ draws' \in Nat /\ draws <= draws' /\ draws \in Nat
  BY AccountsMoveOn DEF IInv, TypeOK
<1>2. /\ users[i] # None => users[i].ver \in Epoch
      /\ users'[i] # None => users'[i].ver \in Epoch
  BY TypeStep DEF IInv, TypeOK, User
<1>3. c.ver.gen \in Nat /\ c.ver.n \in Nat
  BY DEF Epoch
<1> QED
  BY <1>1, <1>2, <1>3 DEF Behind, BehindNext, MovesOn, Epoch

-----------------------------------------------------------------------------
(* Tokens.                                                                 *)

\* Whatever a step does, it hands out at most one token, made from a row that
\* is behind its account after the step; every other token stays as it is.
LEMMA OneTokenAtATime ==
  ASSUME IInv, [Next]_vars
  PROVE  \/ jwts' = jwts
         \/ \E j \in Jtis, i \in Ids, row \in User, parent \in Jtis \cup {None} :
              HandOut(j, i, row, parent) /\ BehindNext(i, row)
<1>0. TypeOK /\ TypeOK' /\ EpochsWereDrawn /\ EpochsWereDrawn'
  BY TypeStep, AccountsMoveOn DEF IInv
<1>1. ASSUME NEW i \in Ids, users'[i] \in User
      PROVE  BehindNext(i, users'[i])
  <2>1. users'[i] # None /\ users'[i].ver \in Epoch
    BY <1>1, NoneIsNoRow DEF User
  <2> QED
    BY <1>0, <1>1, <2>1 DEF BehindNext, EpochsWereDrawn, Epoch
<1>2. ASSUME NEW r \in Requests, RegisterRespond(r) \/ RefreshCommit(r)
      PROVE  \E j \in Jtis, i \in Ids, row \in User, parent \in Jtis \cup {None} :
               HandOut(j, i, row, parent) /\ BehindNext(i, row)
  <2>1. req[r].sub \in Ids /\ users'[req[r].sub] \in User
    BY <1>2, RequestFacts DEF RegisterRespond, RefreshCommit
  <2>2. PICK parent \in Jtis \cup {None} : Issue(req[r].sub, users'[req[r].sub], parent)
    BY <1>2, RequestFacts DEF RegisterRespond, RefreshCommit
  <2> QED
    BY <1>1, <2>1, <2>2 DEF Issue
<1>3. ASSUME NEW r \in Requests, LoginIssue(r)
      PROVE  \E j \in Jtis, i \in Ids, row \in User, parent \in Jtis \cup {None} :
               HandOut(j, i, row, parent) /\ BehindNext(i, row)
  <2>1. /\ req[r].sub \in Ids /\ req[r].row \in User
        /\ Behind(req[r].sub, req[r].row)
    BY <1>3, RequestFacts DEF LoginIssue
  <2>2. BehindNext(req[r].sub, req[r].row)
    BY <2>1, BehindStays DEF User
  <2> QED
    BY <1>3, <2>1, <2>2 DEF LoginIssue, Issue
<1>4. ASSUME NEW r \in Requests, ChangeCommit(r)
      PROVE  \E j \in Jtis, i \in Ids, row \in User, parent \in Jtis \cup {None} :
               HandOut(j, i, row, parent) /\ BehindNext(i, row)
  <2>1. req[r].sub \in Ids /\ users[req[r].sub] # None /\ SetPassword(req[r].sub)
    BY <1>4, RequestFacts, NoneIsNoRow DEF ChangeCommit
  <2>2. users'[req[r].sub] \in User
    BY <1>0, <2>1, SetPasswordType
  <2> QED
    BY <1>1, <1>4, <2>1, <2>2 DEF ChangeCommit, Issue
<1> QED
  BY <1>2, <1>3, <1>4
     DEF Next, Handle, vars, Tick, Reseed, ResetRequest, Abort, RegisterInsert, LoginSelect,
         LoginUpgrade, Decode, LogoutIdentity, LogoutPurge, LogoutInsert, RefreshIdentity,
         ChangeIdentity, Identify, ChangeVerify, ResetCheck, ResetCommit

LEMMA TokensStep ==
  ASSUME IInv, [Next]_vars
  PROVE  /\ \A j \in Jtis : jwts[j] # None => jwts'[j] = jwts[j]
         /\ TokensBehind'
<1>0. TypeOK /\ TypeOK' /\ TokensBehind
  BY TypeStep DEF IInv
<1>1. \A j \in Jtis : jwts[j] # None => jwts'[j] = jwts[j]
  BY <1>0, OneTokenAtATime DEF TypeOK, HandOut
<1>2. ASSUME NEW j \in Jtis, jwts'[j] # None, jwts[j] # None
      PROVE  BehindNext(jwts'[j].sub, jwts'[j])
  <2>1. jwts'[j] = jwts[j] /\ jwts[j].sub \in Ids /\ jwts[j].ver \in Epoch
    BY <1>0, <1>1, <1>2 DEF TypeOK, Jwt
  <2>2. Behind(jwts[j].sub, jwts[j])
    BY <1>0, <1>2 DEF TokensBehind
  <2> QED
    BY <2>1, <2>2, BehindStays
<1>3. ASSUME NEW j \in Jtis, jwts'[j] # None, jwts[j] = None
      PROVE  BehindNext(jwts'[j].sub, jwts'[j])
  <2>1. PICK i \in Ids, row \in User, parent \in Jtis \cup {None} :
          jwts'[j] = Claims(i, row, parent) /\ BehindNext(i, row)
    BY <1>0, <1>3, OneTokenAtATime DEF TypeOK, HandOut
  <2> QED
    BY <2>1 DEF BehindNext, Claims
<1> QED
  BY <1>1, <1>2, <1>3 DEF TokensBehind, Behind, BehindNext

-----------------------------------------------------------------------------
(* Reset tokens and requests.                                              *)

\* The rows that requests in flight rely on are not deleted under them, and
\* the unused reset tokens remain of the present password.
LEMMA TablesStep ==
  ASSUME IInv, [Next]_vars
  PROVE  /\ ~Reseed => /\ \A i \in Ids : users[i] # None => users'[i] # None
                       /\ \A t \in Rids : resets[t] # None => resets'[t] # None
         /\ ResetTokensDieWithPassword'
<1>0. TypeOK /\ TypeOK' /\ ResetTokensDieWithPassword
  BY TypeStep DEF IInv
<1> DEFINE Goal == /\ \A i \in Ids : users[i] # None => users'[i] # None
                   /\ \A t \in Rids : resets[t] # None => resets'[t] # None
                   /\ ResetTokensDieWithPassword'
<1>1. CASE users' = users /\ resets' = resets
  BY <1>0, <1>1 DEF ResetTokensDieWithPassword
<1>2. CASE Reseed
  BY <1>0, <1>2 DEF Reseed, ResetTokensDieWithPassword
<1>3. ASSUME NEW i \in Ids, ResetRequest(i)
      PROVE  Goal
  <2>1. PICK t \in Rids :
          /\ resets[t] = None
          /\ resets' = [resets EXCEPT ![t] =
                          [sub |-> i, exp |-> clock + ResetLife, used |-> FALSE,
                           pw |-> users[i].pw]]
    BY <1>3 DEF ResetRequest
  <2>2. users' = users /\ users[i] # None
    BY <1>3 DEF ResetRequest
  <2>3. resets'[t] = [sub |-> i, exp |-> clock + ResetLife, used |-> FALSE,
                      pw |-> users[i].pw]
    BY <1>0, <2>1 DEF TypeOK
  <2>4. \A s \in Rids : s # t => resets'[s] = resets[s]
    BY <1>0, <2>1 DEF TypeOK
  <2>5. resets'[t] # None
    <3>1. users[i] \in User
      BY <1>0, <2>2 DEF TypeOK
    <3>2. resets'[t] \in Reset
      BY <1>0, <2>3, <3>1, SessionsAssumption DEF TypeOK, Reset, User
    <3> QED
      BY <3>2, NoneIsNoRow
  <2> QED
    BY <1>0, <2>1, <2>2, <2>3, <2>4, <2>5 DEF ResetTokensDieWithPassword
<1>4. ASSUME NEW r \in Requests, NEW n \in Names, RegisterInsert(r, n)
      PROVE  Goal
  <2>1. PICK k \in Ids :
          /\ users[k] = None
          /\ users' = [users EXCEPT ![k] =
                         [name |-> n, pw |-> passwords + 1, outdated |-> FALSE,
                          ver |-> [gen |-> draws + 1, n |-> 0]]]
    BY <1>4 DEF RegisterInsert, NextId
  <2>2. \A i \in Ids : users[i] # None => users'[i] = users[i]
    BY <1>0, <2>1 DEF TypeOK
  <2>3. \A t \in Rids : resets[t] # None => resets[t].sub \in Ids
    BY <1>0 DEF TypeOK, Reset
  <2>4. resets' = resets
    BY <1>4 DEF RegisterInsert
  <2> QED
    BY <1>0, <2>2, <2>3, <2>4 DEF ResetTokensDieWithPassword
<1>5. ASSUME NEW r \in Requests, LoginUpgrade(r)
      PROVE  Goal
  <2> DEFINE k == req[r].sub
  <2>1. k \in Ids /\ users[k] \in User /\ req[r].row \in User
    BY <1>5, RequestFacts DEF LoginUpgrade
  <2>2. \/ users' = users
        \/ users' = [users EXCEPT ![k] = Rehashed(users[k], users[k].pw)]
    BY <1>5 DEF LoginUpgrade
  <2>3. Rehashed(users[k], users[k].pw) \in User
    BY <2>1 DEF Rehashed, User
  <2>4. \A i \in Ids : users[i] # None =>
          users'[i] # None /\ users'[i].pw = users[i].pw
    <3>1. \A i \in Ids : i # k => users'[i] = users[i]
      BY <1>0, <2>2 DEF TypeOK
    <3>2. users'[k] = users[k] \/ users'[k] = Rehashed(users[k], users[k].pw)
      BY <1>0, <2>1, <2>2 DEF TypeOK
    <3>3. users'[k] # None /\ users'[k].pw = users[k].pw
      BY <2>1, <2>3, <3>2, NoneIsNoRow DEF Rehashed
    <3> QED
      BY <3>1, <3>3
  <2>5. \A t \in Rids : resets[t] # None => resets[t].sub \in Ids
    BY <1>0 DEF TypeOK, Reset
  <2>6. resets' = resets
    BY <1>5 DEF LoginUpgrade
  <2> QED
    BY <1>0, <2>4, <2>5, <2>6 DEF ResetTokensDieWithPassword
<1>6. ASSUME NEW k \in Ids, users[k] # None, SetPassword(k)
      PROVE  Goal
  <2>1. users'[k] \in User
    BY <1>0, <1>6, SetPasswordType
  <2>2. \A i \in Ids : i # k => users'[i] = users[i]
    BY <1>0, <1>6 DEF SetPassword, TypeOK
  <2>3. \A i \in Ids : users[i] # None => users'[i] # None
    BY <2>1, <2>2, NoneIsNoRow
  <2>4. ASSUME NEW t \in Rids, resets[t] # None, resets[t].sub = k
        PROVE  resets'[t] # None /\ resets'[t].sub = k /\ resets'[t].used
    <3>1. resets[t] \in Reset
      BY <1>0, <2>4 DEF TypeOK
    <3>2. resets'[t] = [resets[t] EXCEPT !.used = TRUE]
      BY <1>6, <2>4 DEF SetPassword
    <3>3. [resets[t] EXCEPT !.used = TRUE] \in Reset
      BY <3>1 DEF Reset
    <3> QED
      BY <2>4, <3>1, <3>2, <3>3, NoneIsNoRow DEF Reset
  <2>5. \A t \in Rids : resets[t] = None \/ resets[t].sub # k => resets'[t] = resets[t]
    BY <1>6 DEF SetPassword
  <2>6. \A t \in Rids : resets[t] # None => resets[t].sub \in Ids
    BY <1>0 DEF TypeOK, Reset
  <2> QED
    BY <1>0, <2>1, <2>2, <2>3, <2>4, <2>5, <2>6, NoneIsNoRow
       DEF ResetTokensDieWithPassword
<1>7. ASSUME NEW r \in Requests, ChangeCommit(r)
      PROVE  Goal
  BY <1>6, <1>7, RequestFacts, NoneIsNoRow DEF ChangeCommit
<1>8. ASSUME NEW r \in Requests, ResetCommit(r)
      PROVE  Goal
  BY <1>0, <1>6, <1>8, RequestFacts, NoneIsNoRow
     DEF ResetCommit, ResetTokensDieWithPassword, Reset
<1> QED
  BY <1>1, <1>2, <1>3, <1>4, <1>5, <1>7, <1>8
     DEF Next, Handle, vars, Tick, Abort, RegisterRespond, LoginSelect, LoginIssue,
         Decode, LogoutIdentity, LogoutPurge, LogoutInsert, RefreshIdentity,
         RefreshCommit, ChangeIdentity, Identify, ChangeVerify, ResetCheck

\* A request that stands still over a step.
LEMMA RequestWaits ==
  ASSUME IInv, [Next]_vars, RequestsWellFormed,
         NEW r \in Requests, req'[r] = req[r]
  PROVE  /\ req[r].row # None => req[r].sub \in Ids /\ BehindNext(req[r].sub, req[r].row)
         /\ req[r].pc \notin {"idle", "identify", "reset_commit"} =>
              req[r].sub \in Ids /\ users'[req[r].sub] # None
         /\ req[r].pc \in {"identify", "logout_purge", "logout_insert",
                           "refresh_commit", "change_verify"} =>
              /\ req[r].jti # None /\ jwts'[req[r].jti] # None
              /\ jwts'[req[r].jti].sub = req[r].sub
         /\ req[r].pc = "reset_commit" =>
              req[r].rid # None /\ resets'[req[r].rid] # None
<1>1. req[r].row # None => req[r].row \in User
  BY RequestFacts DEF Request
<1>2. req[r].row # None => req[r].sub \in Ids /\ BehindNext(req[r].sub, req[r].row)
  BY <1>1, BehindStays DEF RequestsWellFormed, User
<1>3. CASE Reseed
  BY <1>2, <1>3 DEF Reseed, Idle
<1>4. CASE ~Reseed
  <2>1. req[r].jti # None => req[r].jti \in Jtis
    BY RequestFacts DEF Request
  <2>2. req[r].rid # None => req[r].rid \in Rids
    BY RequestFacts DEF Request
  <2> QED
    BY <1>2, <1>4, <2>1, <2>2, TablesStep, TokensStep DEF RequestsWellFormed
<1> QED
  BY <1>3, <1>4

\* What RequestsWellFormed asks of one request, at the state after the step.
WellFormedNext(r) ==
  /\ req'[r].row # None =>
       req'[r].sub \in Ids /\ BehindNext(req'[r].sub, req'[r].row)
  /\ req'[r].pc \notin {"idle", "identify", "reset_commit"} =>
       req'[r].sub \in Ids /\ users'[req'[r].sub] # None
  /\ req'[r].pc \in {"login_upgrade", "login_issue", "change_commit"} =>
       req'[r].row # None
  /\ req'[r].pc \in {"identify", "logout_purge", "logout_insert",
                     "refresh_commit", "change_verify"} =>
       /\ req'[r].jti # None /\ jwts'[req'[r].jti] # None
       /\ jwts'[req'[r].jti].sub = req'[r].sub
  /\ req'[r].pc = "reset_commit" => req'[r].rid # None /\ resets'[req'[r].rid] # None
  /\ req'[r].pc = "idle" => req'[r] = Idle

LEMMA FinishWellFormed ==
  ASSUME TypeOK, NEW r \in Requests, Finish(r)
  PROVE  WellFormedNext(r)
BY DEF Finish, WellFormedNext, Idle, TypeOK

LEMMA DecodeWellFormed ==
  ASSUME IInv, NEW r \in Requests, NEW j \in Jtis, Decode(r, j)
  PROVE  WellFormedNext(r)
<1>1. req'[r] = [Idle EXCEPT !.pc = "identify", !.sub = jwts[j].sub, !.jti = j]
  BY DEF Decode, IInv, TypeOK
<1>2. /\ req'[r].pc = "identify" /\ req'[r].sub = jwts[j].sub /\ req'[r].jti = j
      /\ req'[r].row = None
  BY <1>1 DEF Idle
<1>3. jwts' = jwts /\ jwts[j] # None
  BY DEF Decode, Decodes
<1> QED
  BY <1>2, <1>3, NoneIsNoRow DEF WellFormedNext

\* The account of an accepted token exists: its epoch is the token's.
LEMMA IdentifyWellFormed ==
  ASSUME IInv, NEW r \in Requests,
         NEW step \in {"logout_purge", "refresh_commit", "change_verify"},
         Identify(r, step)
  PROVE  WellFormedNext(r)
<1>1. /\ req[r] \in Request /\ req[r].jti \in Jtis
      /\ jwts[req[r].jti] \in Jwt /\ jwts[req[r].jti].sub = req[r].sub
      /\ users[req[r].sub] # None
  BY RequestFacts DEF Identify, IsTokenActive
<1>2. req' = [req EXCEPT ![r].pc = step] /\ users' = users
      /\ jwts' = jwts /\ draws' = draws
  BY DEF Identify, Continue
<1>3. /\ req'[r].pc = step /\ req'[r].sub = req[r].sub
      /\ req'[r].jti = req[r].jti /\ req'[r].row = req[r].row
  BY <1>1, <1>2 DEF IInv, TypeOK, Request
<1>4. req[r].row # None => req[r].sub \in Ids /\ BehindNext(req[r].sub, req[r].row)
  BY <1>2 DEF IInv, RequestsWellFormed, Behind, BehindNext
<1> QED
  BY <1>1, <1>2, <1>3, <1>4, NoneIsNoRow DEF WellFormedNext, Jwt

\* A step of one request leaves the others where they are.
LEMMA OneRequestMoves ==
  ASSUME TypeOK, NEW q \in Requests, Handle(q), NEW r \in Requests, r # q
  PROVE  req'[r] = req[r]
<1>1. PICK x : req' = [req EXCEPT ![q] = x]
  <2>1. CASE \E n \in Names : RegisterInsert(q, n)
    BY <2>1 DEF RegisterInsert
  <2>2. CASE ChangeVerify(q)
    <3>1. req' = [req EXCEPT ![q] = [req[q] EXCEPT !.pc = "change_commit",
                                                   !.row = users[req[q].sub]]]
      BY <2>2 DEF ChangeVerify, TypeOK, Request
    <3> QED
      BY <3>1
  <2>3. CASE \/ LoginUpgrade(q) \/ LogoutPurge(q) \/ LogoutIdentity(q)
             \/ RefreshIdentity(q) \/ ChangeIdentity(q)
    BY <2>3 DEF LoginUpgrade, LogoutPurge, LogoutIdentity, RefreshIdentity,
                ChangeIdentity, Identify, Continue
  <2> QED
    BY <2>1, <2>2, <2>3
       DEF Handle, Abort, Finish, RegisterRespond, LoginSelect, LoginIssue,
           Decode, LogoutInsert, RefreshCommit, ChangeCommit, ResetCheck,
           ResetCommit
<1> QED
  BY <1>1 DEF TypeOK

\* Every request that takes the step ends up with what its next step needs.
LEMMA RequestMoves ==
  ASSUME IInv, Next, NEW r \in Requests, req'[r] # req[r]
  PROVE  WellFormedNext(r)
<1>0. TypeOK /\ TypeOK' /\ RequestsWellFormed
  BY TypeStep DEF IInv
<1>1. CASE Abort(r) \/ RegisterRespond(r) \/ LoginIssue(r) \/ LogoutInsert(r)
           \/ RefreshCommit(r) \/ ChangeCommit(r) \/ ResetCommit(r)
  BY <1>0, <1>1, FinishWellFormed
     DEF Abort, RegisterRespond, LoginIssue, LogoutInsert, RefreshCommit,
         ChangeCommit, ResetCommit
<1>2. ASSUME NEW n \in Names, RegisterInsert(r, n)
      PROVE  WellFormedNext(r)
  <2>1. PICK i \in Ids :
          /\ users' = [users EXCEPT ![i] =
                         [name |-> n, pw |-> passwords + 1, outdated |-> FALSE,
                          ver |-> [gen |-> draws + 1, n |-> 0]]]
          /\ req' = [req EXCEPT ![r] =
                       [Idle EXCEPT !.pc = "register_respond", !.sub = i]]
    BY <1>2 DEF RegisterInsert
  <2>2. [name |-> n, pw |-> passwords + 1, outdated |-> FALSE,
         ver |-> [gen |-> draws + 1, n |-> 0]] \in User
    BY <1>0 DEF User, Epoch, TypeOK
  <2>3. users'[i] # None
    BY <1>0, <2>1, <2>2, NoneIsNoRow DEF TypeOK
  <2>4. /\ req'[r].pc = "register_respond" /\ req'[r].sub = i
        /\ req'[r].row = None
    BY <1>0, <2>1 DEF TypeOK, Idle
  <2> QED
    BY <2>3, <2>4 DEF WellFormedNext
<1>3. ASSUME NEW i \in Ids, LoginSelect(r, i)
      PROVE  WellFormedNext(r)
  <2>1. /\ req'[r].pc \in {"login_upgrade", "login_issue"}
        /\ req'[r].sub = i /\ req'[r].row = users[i]
    BY <1>0, <1>3 DEF LoginSelect, TypeOK, Idle
  <2>2. users' = users /\ draws' = draws /\ users[i] # None /\ users[i] \in User
    BY <1>0, <1>3 DEF LoginSelect, TypeOK
  <2>3. BehindNext(i, users[i])
    BY <1>0, <2>2 DEF BehindNext, IInv, EpochsWereDrawn, User, Epoch
  <2> QED
    BY <2>1, <2>2, <2>3 DEF WellFormedNext
<1>4. CASE LoginUpgrade(r)
  <2>1. /\ req[r] \in Request /\ req[r].sub \in Ids /\ users[req[r].sub] # None
        /\ req[r].row \in User /\ Behind(req[r].sub, req[r].row)
    BY <1>4, RequestFacts, NoneIsNoRow DEF LoginUpgrade
  <2>2. /\ req'[r].pc = "login_issue" /\ req'[r].sub = req[r].sub
        /\ req'[r].row = req[r].row
    BY <1>0, <1>4, <2>1 DEF LoginUpgrade, Continue, TypeOK, Request
  <2>3. BehindNext(req[r].sub, req[r].row)
    BY <2>1, BehindStays DEF User
  <2>4. ~Reseed
    BY <1>4, <2>1 DEF LoginUpgrade, Reseed, Idle
  <2>5. users'[req[r].sub] # None
    BY <2>1, <2>4, TablesStep
  <2> QED
    BY <2>1, <2>2, <2>3, <2>5, NoneIsNoRow DEF WellFormedNext
<1>5. CASE \/ \E j \in Jtis : Decode(r, j)
           \/ LogoutIdentity(r) \/ RefreshIdentity(r) \/ ChangeIdentity(r)
  BY <1>5, DecodeWellFormed, IdentifyWellFormed
     DEF LogoutIdentity, RefreshIdentity, ChangeIdentity
<1>6. CASE LogoutPurge(r)
  <2>1. /\ req[r] \in Request /\ req[r].sub \in Ids /\ users[req[r].sub] # None
        /\ req[r].jti \in Jtis /\ jwts[req[r].jti] \in Jwt
        /\ jwts[req[r].jti].sub = req[r].sub
    BY <1>6, RequestFacts, NoneIsNoRow DEF LogoutPurge
  <2>2. req' = [req EXCEPT ![r].pc = "logout_insert"] /\ users' = users
        /\ jwts' = jwts /\ draws' = draws
    BY <1>6 DEF LogoutPurge, Continue
  <2>3. /\ req'[r].pc = "logout_insert" /\ req'[r].sub = req[r].sub
        /\ req'[r].jti = req[r].jti /\ req'[r].row = req[r].row
    BY <1>0, <2>1, <2>2 DEF TypeOK, Request
  <2>4. req[r].row # None => BehindNext(req[r].sub, req[r].row)
    BY <1>0, <2>2 DEF RequestsWellFormed, Behind, BehindNext
  <2> QED
    BY <2>1, <2>2, <2>3, <2>4, NoneIsNoRow DEF WellFormedNext
<1>7. CASE ChangeVerify(r)
  <2>1. req[r] \in Request /\ req[r].sub \in Ids /\ users[req[r].sub] \in User
    BY <1>7, RequestFacts DEF ChangeVerify
  <2>2. users' = users /\ draws' = draws
    BY <1>7 DEF ChangeVerify
  <2>3. /\ req'[r].pc = "change_commit" /\ req'[r].sub = req[r].sub
        /\ req'[r].row = users[req[r].sub]
    BY <1>0, <1>7, <2>1 DEF ChangeVerify, TypeOK, Request
  <2>4. users[req[r].sub] # None
    BY <2>1, NoneIsNoRow
  <2>5. BehindNext(req[r].sub, users[req[r].sub])
    BY <1>0, <2>1, <2>2, <2>4 DEF BehindNext, IInv, EpochsWereDrawn, User, Epoch
  <2> QED
    BY <2>1, <2>2, <2>3, <2>4, <2>5 DEF WellFormedNext
<1>8. ASSUME NEW t \in Rids, ResetCheck(r, t)
      PROVE  WellFormedNext(r)
  <2>1. /\ req'[r].pc = "reset_commit" /\ req'[r].rid = t /\ req'[r].row = None
    BY <1>0, <1>8 DEF ResetCheck, TypeOK, Idle
  <2>2. resets' = resets /\ resets[t] # None
    BY <1>8 DEF ResetCheck, Usable
  <2> QED
    BY <2>1, <2>2, NoneIsNoRow DEF WellFormedNext
<1>9. ASSUME NEW q \in Requests, Handle(q), q # r
      PROVE  FALSE
  BY <1>0, <1>9, OneRequestMoves
<1> QED
  BY <1>0, <1>1, <1>2, <1>3, <1>4, <1>5, <1>6, <1>7, <1>8, <1>9
     DEF Next, Handle, Tick, Reseed, ResetRequest

LEMMA RequestsStep == ASSUME IInv, [Next]_vars PROVE RequestsWellFormed'
<1>1. ASSUME NEW r \in Requests PROVE WellFormedNext(r)
  <2>1. CASE req'[r] = req[r]
    BY <2>1, RequestWaits, RequestFacts DEF WellFormedNext, IInv, RequestsWellFormed
  <2>2. CASE req'[r] # req[r]
    BY <2>2, RequestMoves DEF vars
  <2> QED
    BY <2>1, <2>2
<1> QED
  BY <1>1 DEF RequestsWellFormed, WellFormedNext, Behind, BehindNext

-----------------------------------------------------------------------------
(* The theorems.                                                           *)

LEMMA InitInductive == Init => IInv
<1> SUFFICES ASSUME Init PROVE IInv
  OBVIOUS
<1>1. TypeOK
  BY InitType
<1>2. EpochsWereDrawn
  BY DEF Init, EpochsWereDrawn
<1>3. TokensBehind /\ ResetTokensDieWithPassword
  BY DEF Init, TokensBehind, ResetTokensDieWithPassword
<1>4. RequestsWellFormed /\ RevokedWereIssued
  BY DEF Init, RequestsWellFormed, RevokedWereIssued, Idle
<1>5. ExchangedAreSpent /\ RefreshOnceWhileUnexpired
  BY DEF Init, ExchangedAreSpent, RefreshOnceWhileUnexpired
<1> QED
  BY <1>1, <1>2, <1>3, <1>4, <1>5 DEF IInv

\* Only tokens that were handed out are ever revoked.
LEMMA RevokedStep == ASSUME IInv, [Next]_vars PROVE RevokedWereIssued'
<1>1. revoked' \subseteq revoked
      \/ \E r \in Requests : /\ req[r].pc \in {"logout_insert", "refresh_commit"}
                             /\ revoked' \subseteq revoked \cup {req[r].jti}
  <2>1. \A r \in Requests, n \in Names : RegisterInsert(r, n) => revoked' = revoked
    BY DEF RegisterInsert
  <2> QED
    BY <2>1 DEF Next, Handle, vars, Tick, Reseed, ResetRequest, Abort,
           RegisterRespond, LoginSelect, LoginUpgrade, LoginIssue, Decode, LogoutIdentity,
           LogoutPurge, LogoutInsert, RefreshIdentity, RefreshCommit,
           ChangeIdentity, Identify, ChangeVerify, ChangeCommit, ResetCheck,
           ResetCommit, Unexpired
<1>2. \A r \in Requests : req[r].pc \in {"logout_insert", "refresh_commit"} =>
        req[r].jti \in Jtis /\ jwts[req[r].jti] # None
  BY RequestFacts, NoneIsNoRow
<1>3. \A j \in Jtis : jwts[j] # None => jwts'[j] # None
  BY TokensStep
<1> QED
  BY <1>1, <1>2, <1>3 DEF IInv, TypeOK, RevokedWereIssued

\* Time does not go back, and a row leaves revoked_tokens only by expiry, or
\* when the tables are dropped.
LEMMA RevocationsLast ==
  ASSUME IInv, [Next]_vars
  PROVE  /\ clock \in Nat /\ clock' \in Nat /\ clock <= clock'
         /\ ~Reseed => \A j \in revoked : jwts[j] # None =>
                         j \in revoked' \/ jwts[j].exp < clock
<1>1. clock \in Nat
  BY DEF IInv, TypeOK
<1>2. \A r \in Requests, n \in Names :
        RegisterInsert(r, n) => clock' = clock /\ revoked' = revoked
  BY DEF RegisterInsert
<1>3. clock' = clock \/ Tick
  BY <1>2 DEF Next, Handle, vars, Reseed, ResetRequest, Abort,
         RegisterRespond, LoginSelect, LoginUpgrade, LoginIssue, Decode, LogoutIdentity,
         LogoutPurge, LogoutInsert, RefreshIdentity, RefreshCommit,
         ChangeIdentity, Identify, ChangeVerify, ChangeCommit, ResetCheck,
         ResetCommit
<1>4. revoked \subseteq revoked' \/ Unexpired(revoked) \subseteq revoked' \/ Reseed
  BY <1>2 DEF Next, Handle, vars, Tick, ResetRequest, Abort,
         RegisterRespond, LoginSelect, LoginUpgrade, LoginIssue, Decode, LogoutIdentity,
         LogoutPurge, LogoutInsert, RefreshIdentity, RefreshCommit,
         ChangeIdentity, Identify, ChangeVerify, ChangeCommit, ResetCheck,
         ResetCommit
<1>5. ASSUME NEW j \in revoked, jwts[j] # None
      PROVE  j \in Unexpired(revoked) \/ jwts[j].exp < clock
  BY <1>1, <1>5 DEF IInv, TypeOK, Unexpired, Jwt
<1> QED
  BY <1>1, <1>3, <1>4, <1>5 DEF Tick

\* The checks inside a transaction refuse a token for ever once they refuse it,
\* but for a revocation that is dropped after the token has expired.
LEMMA RefusalLasts ==
  ASSUME IInv, [Next]_vars, NEW j \in Jtis, jwts[j] # None, ~IsTokenActive(j)
  PROVE  \/ ~IsTokenActive(j)'
         \/ /\ jwts[j].exp < clock
            /\ users[jwts[j].sub] # None
            /\ users[jwts[j].sub].ver = jwts[j].ver
<1>1. /\ jwts[j] \in Jwt /\ jwts'[j] = jwts[j]
      /\ Behind(jwts[j].sub, jwts[j])
  BY TokensStep DEF IInv, TypeOK, TokensBehind
<1> DEFINE i == jwts[j].sub
<1>2. i \in Ids /\ jwts[j].ver.gen \in Nat /\ jwts[j].ver.n \in Nat
      /\ jwts[j].exp \in Nat /\ jwts[j].ver \in Epoch
  BY <1>1 DEF Jwt, Epoch
<1>3. MovesOn(i) /\ draws \in Nat
  BY <1>2, AccountsMoveOn DEF IInv, TypeOK
<1>4. /\ users[i] # None => users[i].ver \in Epoch
      /\ users'[i] # None => users'[i].ver \in Epoch
  BY <1>2, TypeStep DEF IInv, TypeOK, User
<1>5. CASE users[i] = None \/ users[i].ver # jwts[j].ver
  <2>1. users'[i] = None \/ users'[i].ver # jwts[j].ver \/ users[i] = None
    BY <1>1, <1>2, <1>3, <1>4, <1>5 DEF MovesOn, Behind, Epoch
  <2>2. users[i] = None => users'[i] = None \/ users'[i].ver # jwts[j].ver
    BY <1>1, <1>2, <1>3 DEF MovesOn, Behind
  <2> QED
    BY <1>1, <2>1, <2>2 DEF IsTokenActive
<1>6. CASE /\ users[i] # None /\ users[i].ver = jwts[j].ver
           /\ j \in revoked /\ ~Reseed
  BY <1>1, <1>6, RevocationsLast DEF IsTokenActive
<1>7. CASE Reseed
  <2>1. users'[i] # None => users'[i].ver.gen > draws
    BY <1>2, <1>3, <1>7, SessionsAssumption DEF Reseed
  <2> QED
    BY <1>1, <1>2, <1>3, <2>1 DEF IsTokenActive, Behind
<1> QED
  BY <1>5, <1>6, <1>7 DEF IsTokenActive

\* A token with a parent comes from the transaction of refresh, which found
\* the parent active and leaves it revoked.
LEMMA Exchange ==
  ASSUME IInv, [Next]_vars, NEW j \in Jtis, NEW p \in Jtis,
         jwts[j] = None, jwts'[j] # None, jwts'[j].parent = p
  PROVE  /\ jwts[p] # None /\ IsTokenActive(p) /\ ~IsTokenActive(p)'
         /\ jwts'[j].exp = clock + JwtLife
<1>0. TypeOK
  BY DEF IInv
<1>1. ASSUME NEW i, NEW row, Issue(i, row, None)
      PROVE  FALSE
  BY <1>0, <1>1, NoneIsNoRow DEF Issue, HandOut, Claims, TypeOK
<1>2. PICK r \in Requests : RefreshCommit(r)
  <2>1. jwts' # jwts
    OBVIOUS
  <2>2. \A r \in Requests, n \in Names : RegisterInsert(r, n) => jwts' = jwts
    BY DEF RegisterInsert
  <2> QED
    BY <1>1, <2>1, <2>2
       DEF Next, Handle, vars, Tick, Reseed, ResetRequest, Abort, RegisterRespond,
           LoginSelect, LoginUpgrade, LoginIssue, Decode, LogoutIdentity, LogoutPurge,
           LogoutInsert, RefreshIdentity, ChangeIdentity, Identify, ChangeVerify,
           ChangeCommit, ResetCheck, ResetCommit
<1>3. req[r].jti \in Jtis /\ jwts[req[r].jti] \in Jwt
  BY <1>2, RequestFacts DEF RefreshCommit
<1>4. jwts'[j] = Claims(req[r].sub, users[req[r].sub], req[r].jti)
  BY <1>0, <1>2 DEF RefreshCommit, Issue, HandOut, TypeOK
<1>5. p = req[r].jti /\ jwts'[j].exp = clock + JwtLife
  BY <1>4 DEF Claims
<1> QED
  BY <1>2, <1>3, <1>5, NoneIsNoRow DEF RefreshCommit, IsTokenActive

LEMMA SpentStep == ASSUME IInv, [Next]_vars PROVE ExchangedAreSpent'
<1> SUFFICES ASSUME NEW j \in Jtis, NEW p \in Jtis,
                    jwts'[j] # None, jwts'[j].parent = p
             PROVE  /\ jwts'[p] # None
                    /\ ~IsTokenActive(p)' \/ jwts'[p].exp < clock'
  BY DEF ExchangedAreSpent
<1>1. CASE jwts[j] # None
  <2>1. jwts[p] # None /\ (~IsTokenActive(p) \/ jwts[p].exp < clock)
    BY <1>1, TokensStep DEF IInv, ExchangedAreSpent
  <2>2. jwts'[p] = jwts[p] /\ jwts[p].exp \in Nat
    BY <2>1, TokensStep DEF IInv, TypeOK, Jwt
  <2>3. clock \in Nat /\ clock' \in Nat /\ clock <= clock'
    BY RevocationsLast
  <2> QED
    BY <2>1, <2>2, <2>3, RefusalLasts
<1>2. CASE jwts[j] = None
  BY <1>2, Exchange, TokensStep
<1> QED
  BY <1>1, <1>2

\* The second of two tokens made for one parent is made after its expiry.
LEMMA RefreshStep == ASSUME IInv, [Next]_vars PROVE RefreshOnceWhileUnexpired'
<1>0. JwtLife \in Nat /\ clock \in Nat
      /\ \A j \in Jtis : jwts[j] # None => jwts[j].exp \in Nat
  BY SessionsAssumption DEF IInv, TypeOK, Jwt
<1>1. ASSUME NEW j \in Jtis, NEW k \in Jtis, NEW p \in Jtis,
             jwts[j] # None, jwts[j].parent = p,
             jwts[k] = None, jwts'[k] # None, jwts'[k].parent = p
      PROVE  jwts'[k].exp - JwtLife >= jwts'[p].exp
  <2>1. jwts[p] # None /\ IsTokenActive(p) /\ jwts'[k].exp = clock + JwtLife
    BY <1>1, Exchange
  <2>2. jwts[p].exp < clock
    BY <1>1, <2>1 DEF IInv, ExchangedAreSpent
  <2>3. jwts'[p] = jwts[p]
    BY <2>1, TokensStep
  <2> QED
    BY <1>0, <2>1, <2>2, <2>3
<1> SUFFICES ASSUME NEW j \in Jtis, NEW k \in Jtis, j # k,
                    jwts'[j] # None, jwts'[k] # None,
                    jwts'[j].parent # None, jwts'[j].parent = jwts'[k].parent
             PROVE  \/ jwts'[j].exp - JwtLife >= jwts'[jwts'[j].parent].exp
                    \/ jwts'[k].exp - JwtLife >= jwts'[jwts'[j].parent].exp
  BY DEF RefreshOnceWhileUnexpired
<1>2. PICK p \in Jtis : jwts'[j].parent = p
  BY TypeStep DEF TypeOK, Jwt
<1>3. CASE jwts[j] # None /\ jwts[k] # None
  <2>1. jwts'[j] = jwts[j] /\ jwts'[k] = jwts[k]
    BY <1>3, TokensStep
  <2>2. jwts[p] # None
    BY <1>2, <1>3, <2>1 DEF IInv, ExchangedAreSpent
  <2>3. jwts'[p] = jwts[p]
    BY <2>2, TokensStep
  <2>4. \/ jwts[j].exp - JwtLife >= jwts[p].exp
        \/ jwts[k].exp - JwtLife >= jwts[p].exp
    BY <1>2, <1>3, <2>1 DEF IInv, RefreshOnceWhileUnexpired
  <2> QED
    BY <1>2, <2>1, <2>3, <2>4
<1>4. CASE jwts[j] # None /\ jwts[k] = None
  BY <1>1, <1>2, <1>4, TokensStep
<1>5. CASE jwts[j] = None /\ jwts[k] # None
  BY <1>1, <1>2, <1>5, TokensStep
<1>6. jwts[j] # None \/ jwts[k] # None
  BY OneTokenAtATime DEF HandOut, IInv, TypeOK
<1> QED
  BY <1>3, <1>4, <1>5, <1>6

LEMMA StepInductive == IInv /\ [Next]_vars => IInv'
BY TypeStep, AccountsMoveOn, TokensStep, RequestsStep, TablesStep, RevokedStep,
   SpentStep, RefreshStep DEF IInv

\* The inductive invariant holds in every state of every behaviour.
THEOREM Invariance == Spec => []IInv
<1>1. Init => IInv
  BY InitInductive
<1>2. IInv /\ [Next]_vars => IInv'
  BY StepInductive
<1> QED
  BY <1>1, <1>2, PTL DEF Spec

\* Type correctness: tables, tokens and the requests in flight.
THEOREM TypeCorrect == Spec => []TypeOK
<1>1. IInv => TypeOK
  BY DEF IInv
<1> QED
  BY <1>1, Invariance, PTL

\* An accepted token was made from the account row as its password now stands
\* (session_response, _is_token_active, _set_password, seed).
THEOREM SessionsRest == Spec => []SessionRestsOnCurrentPassword
<1>1. IInv => SessionRestsOnCurrentPassword
  <2> SUFFICES ASSUME IInv, NEW j \in Jtis, jwts[j] # None, IsTokenActive(j)
               PROVE  /\ users[jwts[j].sub].pw = jwts[j].pw
                      /\ users[jwts[j].sub].name = jwts[j].name
    BY DEF SessionRestsOnCurrentPassword, Admissible
  <2> QED
    BY DEF IInv, TokensBehind, Behind, IsTokenActive
<1> QED
  BY <1>1, Invariance, PTL

\* An unused reset token was requested under the present password
\* (_set_password spends all of the account's).
THEOREM ResetTokensDie == Spec => []ResetTokensDieWithPassword
<1>1. IInv => ResetTokensDieWithPassword
  BY DEF IInv
<1> QED
  BY <1>1, Invariance, PTL

\* Two refreshes of one token succeed only if the second is after its expiry
\* (load_identity checks exp, the transaction of refresh does not;
\* revoke_token's purge).
THEOREM RefreshedOnce == Spec => []RefreshOnceWhileUnexpired
<1>1. IInv => RefreshOnceWhileUnexpired
  BY DEF IInv
<1> QED
  BY <1>1, Invariance, PTL

\* One step never makes a dead session live again.
LEMMA DeadStep ==
  ASSUME IInv, [Next]_vars, NEW j \in Jtis, jwts[j] # None, ~Active(j)
  PROVE  ~Active(j)'
<1>1. jwts'[j] = jwts[j] /\ jwts[j].exp \in Nat
  BY TokensStep DEF IInv, TypeOK, Jwt
<1>2. clock \in Nat /\ clock' \in Nat /\ clock <= clock'
  BY RevocationsLast
<1>3. CASE IsTokenActive(j)
  BY <1>1, <1>2, <1>3 DEF Active, Decodes
<1>4. CASE ~IsTokenActive(j)
  BY <1>1, <1>2, <1>4, RefusalLasts DEF Active, Decodes
<1> QED
  BY <1>3, <1>4

\* A request comes to wait for its identity only with a token that decodes.
LEMMA WaitersDecoded ==
  ASSUME IInv, [Next]_vars, NEW r \in Requests,
         req'[r].pc = "identify", req'[r] # req[r]
  PROVE  \E j \in Jtis : Decodes(j) /\ req'[r].jti = j
<1>0. TypeOK
  BY DEF IInv
<1>1. Handle(r)
  <2>1. PICK q \in Requests : Handle(q)
    BY DEF Next, vars, Tick, Reseed, ResetRequest
  <2> QED
    BY <1>0, <2>1, OneRequestMoves
<1>2. ASSUME Finish(r)
      PROVE  FALSE
  BY <1>0, <1>2 DEF Finish, Idle, TypeOK
<1>3. ASSUME NEW step \in Steps \ {"identify"}, Continue(r, step)
      PROVE  FALSE
  BY <1>0, <1>3 DEF Continue, TypeOK, Request
<1>4. ASSUME NEW n \in Names, RegisterInsert(r, n)
      PROVE  FALSE
  BY <1>0, <1>4 DEF RegisterInsert, Idle, TypeOK
<1>5. ASSUME NEW i \in Ids, LoginSelect(r, i)
      PROVE  FALSE
  BY <1>0, <1>5 DEF LoginSelect, Idle, TypeOK
<1>6. ASSUME ChangeVerify(r)
      PROVE  FALSE
  BY <1>0, <1>6 DEF ChangeVerify, TypeOK, Request
<1>7. ASSUME NEW t \in Rids, ResetCheck(r, t)
      PROVE  FALSE
  BY <1>0, <1>7 DEF ResetCheck, Idle, TypeOK
<1>8. ASSUME NEW j \in Jtis, Decode(r, j)
      PROVE  Decodes(j) /\ req'[r].jti = j
  BY <1>0, <1>8 DEF Decode, Idle, TypeOK
<1>9. ~LoginUpgrade(r) /\ ~LogoutPurge(r) /\ ~LogoutIdentity(r)
      /\ ~RefreshIdentity(r) /\ ~ChangeIdentity(r)
  BY <1>3 DEF LoginUpgrade, LogoutPurge, LogoutIdentity, RefreshIdentity,
              ChangeIdentity, Identify, Steps
<1>10. /\ ~Abort(r) /\ ~RegisterRespond(r) /\ ~LoginIssue(r) /\ ~LogoutInsert(r)
       /\ ~RefreshCommit(r) /\ ~ChangeCommit(r) /\ ~ResetCommit(r)
  BY <1>2 DEF Abort, RegisterRespond, LoginIssue, LogoutInsert, RefreshCommit,
              ChangeCommit, ResetCommit
<1> QED
  BY <1>1, <1>4, <1>5, <1>6, <1>7, <1>8, <1>9, <1>10 DEF Handle

\* One step makes a refused token acceptable only by the purge of its
\* revocation, after its expiry and while its epoch is the account's.
LEMMA RefusedStep ==
  ASSUME IInv, [Next]_vars, NEW j \in Jtis, jwts[j] # None,
         ~Admissible(j), Admissible(j)'
  PROVE  /\ jwts[j].exp < clock
         /\ users[jwts[j].sub] # None
         /\ users[jwts[j].sub].ver = jwts[j].ver
<1>1. jwts'[j] = jwts[j] /\ jwts[j].exp \in Nat
  BY TokensStep DEF IInv, TypeOK, Jwt
<1>2. clock \in Nat /\ clock' \in Nat /\ clock <= clock'
  BY RevocationsLast
<1>3. IsTokenActive(j)'
  BY DEF Admissible
<1>4. ~IsTokenActive(j)
  <2> SUFFICES ASSUME IsTokenActive(j) PROVE FALSE
    OBVIOUS
  <2>1. ~Decodes(j) /\ \A r \in Requests : req[r].pc = "identify" => req[r].jti # j
    BY DEF Admissible
  <2>2. ~Decodes(j)'
    BY <1>1, <1>2, <2>1 DEF Decodes
  <2>3. PICK r \in Requests : req'[r].pc = "identify" /\ req'[r].jti = j
    BY <2>2 DEF Admissible
  <2>4. req'[r] # req[r]
    BY <2>1, <2>3
  <2> QED
    BY <2>1, <2>3, <2>4, WaitersDecoded
<1> QED
  BY <1>3, <1>4, RefusalLasts

\* A token once refused stays refused, but for the purge of its revocation after
\* its expiry, met by a request that was decoded before: never again after a
\* change of the password, a reset, or a reseed (revoke_token, load_identity,
\* the epoch of _set_password, the new epochs of register and seed).
THEOREM DeadStayDead == Spec => DeadTokensStayDead
<1>1. IInv /\ [Next]_vars =>
        \A j \in Jtis :
          jwts[j] # None /\ ~Admissible(j) /\ Admissible(j)' =>
            /\ jwts[j].exp < clock
            /\ users[jwts[j].sub] # None
            /\ users[jwts[j].sub].ver = jwts[j].ver
  BY RefusedStep
<1> QED
  BY <1>1, Invariance, PTL DEF Spec, DeadTokensStayDead

\* The steps that leave every password alone, and those that do not.
LEMMA PasswordStep ==
  ASSUME IInv, [Next]_vars, NEW i \in Ids, users[i] # None, users'[i] # None,
         users'[i].pw # users[i].pw
  PROVE  \/ \E r \in Requests : /\ req[r].pc = "change_commit"
                                /\ req[r].sub = i
                                /\ req[r].row.pw = users[i].pw
                                /\ req'[r] = Idle
         \/ \E t \in Rids : /\ Usable(t) /\ resets[t].sub = i
                            /\ resets[t].pw = users[i].pw
                            /\ resets'[t] = [resets[t] EXCEPT !.used = TRUE]
         \/ users'[i].ver.gen # users[i].ver.gen
<1>0. TypeOK
  BY DEF IInv
<1>1. CASE Reseed
  <2>1. users'[i].ver.gen = draws + 1
    BY <1>1 DEF Reseed
  <2>2. users[i].ver.gen <= draws /\ draws \in Nat /\ users[i].ver.gen \in Nat
    BY <1>0 DEF IInv, EpochsWereDrawn, TypeOK, User, Epoch
  <2> QED
    BY <2>1, <2>2
<1>2. ASSUME NEW r \in Requests, NEW n \in Names, RegisterInsert(r, n)
      PROVE  FALSE
  <2>1. PICK k \in Ids :
          /\ users[k] = None
          /\ users' = [users EXCEPT ![k] =
                         [name |-> n, pw |-> passwords + 1, outdated |-> FALSE,
                          ver |-> [gen |-> draws + 1, n |-> 0]]]
    BY <1>2 DEF RegisterInsert, NextId
  <2> QED
    BY <1>0, <2>1 DEF TypeOK
<1>3. ASSUME NEW r \in Requests, LoginUpgrade(r)
      PROVE  FALSE
  <2>1. req[r].sub \in Ids
    BY <1>3, RequestFacts DEF LoginUpgrade
  <2>2. \/ users' = users
        \/ users' = [users EXCEPT ![req[r].sub] =
                       Rehashed(users[req[r].sub], users[req[r].sub].pw)]
    BY <1>3 DEF LoginUpgrade
  <2> QED
    BY <1>0, <2>1, <2>2 DEF TypeOK, Rehashed
<1>4. ASSUME NEW k \in Ids, SetPassword(k)
      PROVE  k = i
  BY <1>0, <1>4 DEF SetPassword, TypeOK
<1>5. ASSUME NEW r \in Requests, ChangeCommit(r)
      PROVE  /\ req[r].pc = "change_commit" /\ req[r].sub = i
             /\ req[r].row.pw = users[i].pw
             /\ req'[r] = Idle
  <2>1. /\ req[r].sub \in Ids /\ req[r].row \in User
        /\ Behind(req[r].sub, req[r].row)
    BY <1>5, RequestFacts DEF ChangeCommit
  <2>2. req[r].sub = i
    BY <1>4, <1>5, <2>1 DEF ChangeCommit
  <2> QED
    BY <1>0, <1>5, <2>1, <2>2 DEF ChangeCommit, Behind, Finish, TypeOK
<1>6. ASSUME NEW r \in Requests, ResetCommit(r)
      PROVE  \E t \in Rids : /\ Usable(t) /\ resets[t].sub = i
                             /\ resets[t].pw = users[i].pw
                             /\ resets'[t] = [resets[t] EXCEPT !.used = TRUE]
  <2> DEFINE t == req[r].rid
  <2>1. t \in Rids /\ resets[t] \in Reset /\ Usable(t) /\ SetPassword(resets[t].sub)
    BY <1>6, RequestFacts DEF ResetCommit
  <2>2. resets[t].sub = i
    BY <1>4, <2>1 DEF Reset
  <2>3. resets[t].pw = users[i].pw
    BY <2>1, <2>2 DEF IInv, ResetTokensDieWithPassword, Usable
  <2>4. resets'[t] = [resets[t] EXCEPT !.used = TRUE]
    BY <2>1, NoneIsNoRow DEF SetPassword
  <2> QED
    BY <2>1, <2>2, <2>3, <2>4
<1> QED
  BY <1>1, <1>2, <1>3, <1>5, <1>6
     DEF Next, Handle, vars, Tick, ResetRequest, Abort, RegisterRespond, LoginSelect,
         LoginIssue, Decode, LogoutIdentity, LogoutPurge, LogoutInsert, RefreshIdentity,
         RefreshCommit, ChangeIdentity, Identify, ChangeVerify, ResetCheck

\* A password changes only on the strength of the one it replaces, or of an
\* unused reset token requested under it (change_password, reset_confirm).
THEOREM PasswordChanges == Spec => PasswordChangeAuthorised
<1>1. IInv /\ [Next]_vars =>
        \A i \in Ids :
          /\ users[i] # None /\ users'[i] # None
          /\ users'[i].pw # users[i].pw
          => \/ \E r \in Requests : /\ req[r].pc = "change_commit"
                                    /\ req[r].sub = i
                                    /\ req[r].row.pw = users[i].pw
                                    /\ req'[r] = Idle
             \/ \E t \in Rids : /\ Usable(t) /\ resets[t].sub = i
                                /\ resets[t].pw = users[i].pw
                                /\ resets'[t] = [resets[t] EXCEPT !.used = TRUE]
             \/ users'[i].ver.gen # users[i].ver.gen
  BY PasswordStep
<1> QED
  BY <1>1, Invariance, PTL DEF Spec, PasswordChangeAuthorised
=============================================================================
