------------------------ MODULE SessionsPolicyProofs ------------------------
(***************************************************************************)
(* Proof that Sessions implements SessionPolicy: every step is a step of   *)
(* the policy on the live sessions, or changes nothing the policy sees.    *)
(***************************************************************************)
EXTENDS SessionsProofs

\* The state of a token, before and after a step.
LEMMA LiveNext ==
  ASSUME TypeOK'
  PROVE  /\ LiveSessions' = {j \in Jtis : jwts'[j] # None /\ Active(j)'}
         /\ \A j \in Jtis : Active(j)' <=>
              /\ jwts'[j] # None /\ clock' < jwts'[j].exp
              /\ j \notin revoked' /\ users'[jwts'[j].sub] # None
              /\ users'[jwts'[j].sub].ver = jwts'[j].ver
BY DEF LiveSessions, Active, Decodes, IsTokenActive

LEMMA LiveNow ==
  \A j : j \in LiveSessions <=>
           /\ j \in Jtis /\ jwts[j] # None /\ clock < jwts[j].exp
           /\ j \notin revoked /\ users[jwts[j].sub] # None
           /\ users[jwts[j].sub].ver = jwts[j].ver
BY DEF LiveSessions, Active, Decodes, IsTokenActive

\* Sessions that are not live do not come back, those without a token neither.
LEMMA LiveShrinks ==
  ASSUME IInv, [Next]_vars, NEW j \in LiveSessions', jwts[j] # None
  PROVE  j \in LiveSessions
BY DeadStep DEF LiveSessions

\* Handing out one token appends one session to the table of all sessions.
LEMMA NewSession ==
  ASSUME IInv, [Next]_vars, NEW j \in Jtis, NEW i \in Ids, NEW row \in User,
         NEW parent \in Jtis \cup {None}, HandOut(j, i, row, parent),
         clock' = clock
  PROVE  /\ jwts[j] = None
         /\ Policy!New(j, i)
         /\ jwts[j] = None /\ jwts'[j] = Claims(i, row, parent) /\ jwts'[j] # None
         /\ j \notin revoked /\ j \notin LiveSessions
         /\ clock < jwts'[j].exp
         /\ \A k \in Jtis : k # j => jwts'[k] = jwts[k]
<1>0. TypeOK /\ TypeOK'
  BY TypeStep DEF IInv
<1>1. Claims(i, row, parent) \in Jwt
  BY <1>0, ClaimsType DEF TypeOK
<1>2. jwts'[j] = Claims(i, row, parent) /\ jwts'[j] # None
  BY <1>0, <1>1, NoneIsNoRow DEF TypeOK, HandOut
<1>3. jwts[j] = None /\ \A k \in Jtis : k # j => jwts'[k] = jwts[k]
  BY <1>0 DEF TypeOK, HandOut
<1>4. AllSessions' = [AllSessions EXCEPT ![j] = [acct |-> i, exp |-> clock + JwtLife]]
  <2>1. AllSessions' = [k \in Jtis |-> IF jwts'[k] = None THEN None
                                       ELSE [acct |-> jwts'[k].sub, exp |-> jwts'[k].exp]]
    BY DEF AllSessions
  <2>2. \A k \in Jtis :
          (IF jwts'[k] = None THEN None
           ELSE [acct |-> jwts'[k].sub, exp |-> jwts'[k].exp])
          = IF k = j THEN [acct |-> i, exp |-> clock + JwtLife] ELSE AllSessions[k]
    BY <1>2, <1>3 DEF AllSessions, Claims
  <2> QED
    BY <2>1, <2>2 DEF AllSessions
<1>5. AllSessions[j] = None
  BY <1>3 DEF AllSessions
<1>6. j \notin revoked /\ j \notin LiveSessions
  BY <1>3 DEF IInv, RevokedWereIssued, LiveSessions
<1>7. clock < jwts'[j].exp
  BY <1>0, <1>2, SessionsAssumption DEF Claims, TypeOK
<1> QED
  BY <1>2, <1>3, <1>4, <1>5, <1>6, <1>7 DEF Policy!New

\* A step that touches neither accounts nor tokens nor time is not seen.
LEMMA Unseen ==
  ASSUME UNCHANGED <<clock, users, revoked, jwts>>
  PROVE  UNCHANGED Policy!vars
BY DEF Policy!vars, AllSessions, LiveSessions, Active, Decodes, IsTokenActive

LEMMA TickStep == ASSUME IInv, Tick PROVE Policy!Pass
<1>1. UNCHANGED <<users, revoked, jwts>> /\ clock' = clock + 1 /\ clock \in Nat
  BY DEF Tick, IInv, TypeOK
<1>2. \A j \in Jtis : jwts[j] # None => jwts[j].exp \in Nat
  BY DEF IInv, TypeOK, Jwt
<1>3. \A j \in LiveSessions : AllSessions[j].exp = jwts[j].exp
  BY DEF LiveSessions, AllSessions
<1>4. LiveSessions' = {j \in LiveSessions : clock' < AllSessions[j].exp}
  BY <1>1, <1>2, <1>3 DEF LiveSessions, Active, Decodes, IsTokenActive
<1>5. AllSessions' = AllSessions
  BY <1>1 DEF AllSessions
<1> QED
  BY <1>1, <1>4, <1>5 DEF Policy!Pass

LEMMA ReseedStep == ASSUME IInv, Reseed PROVE Policy!StartOver
<1>1. AllSessions' = AllSessions /\ clock' = clock /\ jwts' = jwts
  BY DEF Reseed, AllSessions
<1>2. ASSUME NEW j \in Jtis, jwts'[j] # None, Active(j)' PROVE FALSE
  <2>1. jwts[j] \in Jwt /\ jwts[j].ver.gen <= draws /\ draws \in Nat
    BY <1>1, <1>2 DEF IInv, TypeOK, TokensBehind, Behind
  <2>2. jwts[j].sub \in Ids /\ jwts[j].ver.gen \in Nat
    BY <2>1 DEF Jwt, Epoch
  <2>3. users'[jwts[j].sub] # None => users'[jwts[j].sub].ver.gen = draws + 1
    BY <2>2 DEF Reseed
  <2> QED
    BY <1>1, <1>2, <2>1, <2>2, <2>3 DEF Active, IsTokenActive
<1>3. LiveSessions' = {}
  BY <1>2 DEF LiveSessions
<1> QED
  BY <1>1, <1>3 DEF Policy!StartOver

\* A new account has a new epoch: no token there is in the world is of it.
LEMMA RegisterInsertStep ==
  ASSUME IInv, NEW r \in Requests, NEW n \in Names, RegisterInsert(r, n)
  PROVE  UNCHANGED Policy!vars
<1>1. PICK k \in Ids :
        /\ users[k] = None
        /\ users' = [users EXCEPT ![k] =
                       [name |-> n, pw |-> passwords + 1, outdated |-> FALSE,
                        ver |-> [gen |-> draws + 1, n |-> 0]]]
  BY DEF RegisterInsert, NextId
<1>2. clock' = clock /\ revoked' = revoked /\ jwts' = jwts
  BY DEF RegisterInsert
<1>3. ASSUME NEW j \in Jtis, jwts[j] # None
      PROVE  Active(j)' <=> Active(j)
  <2>1. jwts[j] \in Jwt /\ jwts[j].ver.gen <= draws /\ draws \in Nat
    BY <1>3 DEF IInv, TypeOK, TokensBehind, Behind
  <2>2. jwts[j].sub \in Ids /\ jwts[j].ver.gen \in Nat
    BY <2>1 DEF Jwt, Epoch
  <2>3. CASE jwts[j].sub = k
    <3>1. users'[k].ver.gen = draws + 1
      BY <1>1 DEF IInv, TypeOK
    <3>2. users'[k].ver # jwts[j].ver
      BY <2>1, <2>2, <3>1
    <3> QED
      BY <1>1, <1>2, <2>3, <3>2 DEF Active, IsTokenActive
  <2>4. CASE jwts[j].sub # k
    <3>1. users'[jwts[j].sub] = users[jwts[j].sub]
      BY <1>1, <2>2, <2>4 DEF IInv, TypeOK
    <3> QED
      BY <1>2, <3>1 DEF Active, Decodes, IsTokenActive
  <2> QED
    BY <2>3, <2>4
<1>4. LiveSessions' = LiveSessions
  BY <1>2, <1>3 DEF LiveSessions
<1>5. AllSessions' = AllSessions
  BY <1>2 DEF AllSessions
<1> QED
  BY <1>2, <1>4, <1>5 DEF Policy!vars

\* A rehash keeps the epoch, and with it the sessions.
LEMMA LoginUpgradeStep ==
  ASSUME IInv, NEW r \in Requests, LoginUpgrade(r)
  PROVE  UNCHANGED Policy!vars
<1> DEFINE k == req[r].sub
<1>1. k \in Ids /\ users[k] \in User /\ req[r].row \in User
  BY RequestFacts DEF LoginUpgrade
<1>2. users' = users \/ users' = [users EXCEPT ![k] = Rehashed(users[k], users[k].pw)]
  BY DEF LoginUpgrade
<1>3. Rehashed(users[k], users[k].pw) \in User
  BY <1>1 DEF Rehashed, User
<1>4. \A i \in Ids : /\ users[i] = None <=> users'[i] = None
                     /\ users[i] # None => users'[i].ver = users[i].ver
  BY <1>1, <1>2, <1>3, NoneIsNoRow DEF IInv, TypeOK, Rehashed
<1>5. clock' = clock /\ revoked' = revoked /\ jwts' = jwts
  BY DEF LoginUpgrade
<1>6. \A j \in Jtis : jwts[j] # None => jwts[j].sub \in Ids
  BY DEF IInv, TypeOK, Jwt
<1>7. LiveSessions' = LiveSessions
  BY <1>4, <1>5, <1>6 DEF LiveSessions, Active, Decodes, IsTokenActive
<1>8. AllSessions' = AllSessions
  BY <1>5 DEF AllSessions
<1> QED
  BY <1>5, <1>7, <1>8 DEF Policy!vars

LEMMA LogoutPurgeStep ==
  ASSUME IInv, NEW r \in Requests, LogoutPurge(r)
  PROVE  UNCHANGED Policy!vars
<1>1. UNCHANGED <<clock, users, jwts>> /\ revoked' = Unexpired(revoked)
  BY DEF LogoutPurge
<1>2. \A j \in Jtis : jwts[j] # None => jwts[j].exp \in Nat
  BY DEF IInv, TypeOK, Jwt
<1>3. \A j \in Jtis : jwts[j] # None /\ clock < jwts[j].exp =>
                        (j \in revoked' <=> j \in revoked)
  BY <1>1, <1>2 DEF Unexpired, IInv, TypeOK
<1>4. LiveSessions' = LiveSessions
  BY <1>1, <1>3 DEF LiveSessions, Active, Decodes, IsTokenActive
<1>5. AllSessions' = AllSessions
  BY <1>1 DEF AllSessions
<1> QED
  BY <1>1, <1>4, <1>5 DEF Policy!vars

LEMMA LogoutInsertStep ==
  ASSUME IInv, NEW r \in Requests, LogoutInsert(r)
  PROVE  \E j \in Jtis : Policy!Close(j)
<1>1. req[r].jti \in Jtis
  BY RequestFacts DEF LogoutInsert
<1>2. UNCHANGED <<clock, users, jwts>> /\ revoked' = revoked \cup {req[r].jti}
  BY DEF LogoutInsert
<1>3. LiveSessions' = LiveSessions \ {req[r].jti}
  BY <1>2 DEF LiveSessions, Active, Decodes, IsTokenActive
<1>4. AllSessions' = AllSessions
  BY <1>2 DEF AllSessions
<1> QED
  BY <1>1, <1>2, <1>3, <1>4 DEF Policy!Close

\* The account of a token is an id, its expiry a time.
LEMMA TokenFacts ==
  ASSUME IInv, NEW j \in Jtis, jwts[j] # None
  PROVE  /\ jwts[j] \in Jwt /\ jwts[j].sub \in Ids /\ jwts[j].exp \in Nat
         /\ AllSessions[j].acct = jwts[j].sub /\ AllSessions[j].exp = jwts[j].exp
         /\ AllSessions[j] # None
<1>1. jwts[j] \in Jwt /\ jwts[j].sub \in Ids /\ jwts[j].exp \in Nat
  BY DEF IInv, TypeOK, Jwt
<1>2. AllSessions[j] = [acct |-> jwts[j].sub, exp |-> jwts[j].exp]
  BY DEF AllSessions
<1>3. AllSessions[j] \in [acct : Ids, exp : Nat]
  BY <1>1, <1>2
<1>4. AllSessions[j] # None
  BY <1>3, SessionsAssumption
<1>5. AllSessions[j].acct = jwts[j].sub /\ AllSessions[j].exp = jwts[j].exp
  BY <1>2
<1> QED
  BY <1>1, <1>4, <1>5

\* A token made of the row in the table, accounts and revocations unchanged:
\* one more live session.
LEMMA RegisterRespondStep ==
  ASSUME IInv, [Next]_vars, NEW r \in Requests, RegisterRespond(r)
  PROVE  \E i \in Ids : Policy!Open(i)
<1> DEFINE i == req[r].sub
<1>1. i \in Ids /\ users[i] \in User /\ users[i] # None
  BY RequestFacts, NoneIsNoRow DEF RegisterRespond
<1>2. UNCHANGED <<clock, users, revoked>>
  BY DEF RegisterRespond
<1>3. PICK j \in Jtis : HandOut(j, i, users[i], None)
  BY DEF RegisterRespond, Issue
<1>4. /\ Policy!New(j, i)
      /\ jwts[j] = None /\ jwts'[j] = Claims(i, users[i], None) /\ jwts'[j] # None
      /\ j \notin revoked /\ clock < jwts'[j].exp
      /\ \A k \in Jtis : k # j => jwts'[k] = jwts[k]
  BY <1>1, <1>2, <1>3, NewSession
<1>5. jwts'[j].sub = i /\ jwts'[j].ver = users[i].ver
  BY <1>4 DEF Claims
<1>6. LiveSessions' = LiveSessions \cup {j}
  BY <1>1, <1>2, <1>3, <1>4, <1>5 DEF LiveSessions, Active, Decodes, IsTokenActive
<1> QED
  BY <1>1, <1>2, <1>4, <1>6 DEF Policy!Open

\* The same of the row a login verified: live if the epoch has not moved.
LEMMA LoginIssueStep ==
  ASSUME IInv, [Next]_vars, NEW r \in Requests, LoginIssue(r)
  PROVE  \E i \in Ids : Policy!Open(i) \/ Policy!Stillborn(i)
<1> DEFINE i == req[r].sub
<1>1. i \in Ids /\ users[i] # None /\ req[r].row \in User
  BY RequestFacts, NoneIsNoRow DEF LoginIssue
<1>2. UNCHANGED <<clock, users, revoked>>
  BY DEF LoginIssue
<1>3. PICK j \in Jtis : HandOut(j, i, req[r].row, None)
  BY DEF LoginIssue, Issue
<1>4. /\ Policy!New(j, i)
      /\ jwts[j] = None /\ jwts'[j] = Claims(i, req[r].row, None) /\ jwts'[j] # None
      /\ j \notin revoked /\ clock < jwts'[j].exp
      /\ \A k \in Jtis : k # j => jwts'[k] = jwts[k]
  BY <1>1, <1>2, <1>3, NewSession
<1>5. jwts'[j].sub = i /\ jwts'[j].ver = req[r].row.ver
  BY <1>4 DEF Claims
<1>6. CASE users[i].ver = req[r].row.ver
  <2>1. LiveSessions' = LiveSessions \cup {j}
    BY <1>1, <1>2, <1>3, <1>4, <1>5, <1>6 DEF LiveSessions, Active, Decodes, IsTokenActive
  <2> QED
    BY <1>1, <1>2, <1>4, <2>1 DEF Policy!Open
<1>7. CASE users[i].ver # req[r].row.ver
  <2>1. LiveSessions' = LiveSessions
    BY <1>1, <1>2, <1>3, <1>4, <1>5, <1>7 DEF LiveSessions, Active, Decodes, IsTokenActive
  <2> QED
    BY <1>1, <1>2, <1>4, <2>1 DEF Policy!Stillborn
<1> QED
  BY <1>6, <1>7

\* A refresh: the token it revokes was live, or had expired since.
LEMMA RefreshCommitStep ==
  ASSUME IInv, [Next]_vars, NEW r \in Requests, RefreshCommit(r)
  PROVE  \E j \in Jtis : Policy!Exchange(j)
<1> DEFINE i == req[r].sub
           old == req[r].jti
<1>1. /\ i \in Ids /\ users[i] \in User /\ users[i] # None
      /\ old \in Jtis /\ jwts[old] # None /\ jwts[old].sub = i
  BY RequestFacts, NoneIsNoRow DEF RefreshCommit
<1>2. UNCHANGED <<clock, users>> /\ revoked' = Unexpired(revoked) \cup {old}
      /\ IsTokenActive(old)
  BY DEF RefreshCommit
<1>3. PICK j \in Jtis : HandOut(j, i, users[i], old)
  BY DEF RefreshCommit, Issue
<1>4. /\ Policy!New(j, i)
      /\ jwts[j] = None /\ jwts'[j] = Claims(i, users[i], old) /\ jwts'[j] # None
      /\ j \notin revoked /\ clock < jwts'[j].exp
      /\ \A k \in Jtis : k # j => jwts'[k] = jwts[k]
  BY <1>1, <1>2, <1>3, NewSession
<1>5. jwts'[j].sub = i /\ jwts'[j].ver = users[i].ver
  BY <1>4 DEF Claims
<1>6. j # old
  BY <1>1, <1>4
<1>7. \A k \in Jtis : jwts[k] # None /\ clock < jwts[k].exp =>
                        (k \in revoked' <=> k \in revoked \/ k = old)
  <2>1. clock \in Nat /\ revoked \subseteq Jtis
    BY DEF IInv, TypeOK
  <2>2. \A k \in Jtis : jwts[k] # None => jwts[k].exp \in Nat
    BY TokenFacts
  <2> QED
    BY <1>2, <2>1, <2>2 DEF Unexpired
<1>8. j \notin revoked'
  BY <1>2, <1>4, <1>6 DEF Unexpired
<1>9. LiveSessions' = (LiveSessions \ {old}) \cup {j}
  BY <1>1, <1>2, <1>3, <1>4, <1>5, <1>6, <1>7, <1>8
     DEF LiveSessions, Active, Decodes, IsTokenActive
<1>10. old \in LiveSessions \/ AllSessions[old].exp <= clock
  <2>1. jwts[old].exp \in Nat /\ AllSessions[old].exp = jwts[old].exp
    BY <1>1, TokenFacts
  <2>0. clock \in Nat
    BY DEF IInv, TypeOK
  <2> QED
    BY <1>1, <1>2, <2>0, <2>1 DEF LiveSessions, Active, Decodes
<1>11. AllSessions[old] # None /\ AllSessions[old].acct = i
  BY <1>1, TokenFacts
<1> QED
  BY <1>1, <1>2, <1>4, <1>9, <1>10, <1>11 DEF Policy!Exchange

\* A new password ends the sessions of the account: their epoch is now past.
LEMMA SetPasswordEnds ==
  ASSUME IInv, [Next]_vars, NEW i \in Ids, users[i] # None, SetPassword(i),
         UNCHANGED <<clock, revoked>>,
         NEW j \in Jtis, jwts[j] # None
  PROVE  (jwts'[j] # None /\ Active(j)') <=>
           j \in LiveSessions /\ AllSessions[j].acct # i
<1>1. /\ jwts[j] \in Jwt /\ jwts'[j] = jwts[j] /\ jwts[j].sub \in Ids
      /\ AllSessions[j].acct = jwts[j].sub
  <2>1. jwts'[j] = jwts[j]
    BY TokensStep
  <2> QED
    BY <2>1, TokenFacts
<1>2. CASE jwts[j].sub = i
  <2>1. users'[i].ver.n = users[i].ver.n + 1 /\ users[i].ver.n \in Nat
    BY DEF SetPassword, WithNewPassword, IInv, TypeOK, User, Epoch
  <2>2. Behind(i, jwts[j]) /\ jwts[j].ver.n \in Nat
    BY <1>1, <1>2 DEF IInv, TokensBehind, Jwt, Epoch
  <2>3. users'[i].ver.gen = users[i].ver.gen
    BY DEF SetPassword, WithNewPassword, IInv, TypeOK
  <2>4. users'[i].ver # jwts[j].ver
    BY <2>1, <2>2, <2>3 DEF Behind
  <2> QED
    BY <1>1, <1>2, <2>4 DEF Active, IsTokenActive
<1>3. CASE jwts[j].sub # i
  <2>1. users'[jwts[j].sub] = users[jwts[j].sub]
    BY <1>1, <1>3 DEF SetPassword, IInv, TypeOK
  <2> QED
    BY <1>1, <1>3, <2>1 DEF LiveSessions, Active, Decodes, IsTokenActive
<1> QED
  BY <1>2, <1>3

LEMMA ChangeCommitStep ==
  ASSUME IInv, [Next]_vars, NEW r \in Requests, ChangeCommit(r)
  PROVE  \E i \in Ids : Policy!NewPassword(i)
<1> DEFINE i == req[r].sub
<1>1. i \in Ids /\ users[i] # None /\ SetPassword(i)
  BY RequestFacts, NoneIsNoRow DEF ChangeCommit
<1>2. UNCHANGED <<clock, revoked>>
  BY DEF ChangeCommit
<1>3. users'[i] \in User /\ users'[i] # None
  BY <1>1, SetPasswordType, NoneIsNoRow DEF IInv
<1>4. PICK j \in Jtis : HandOut(j, i, users'[i], None)
  BY DEF ChangeCommit, Issue
<1>5. /\ Policy!New(j, i)
      /\ jwts[j] = None /\ jwts'[j] = Claims(i, users'[i], None) /\ jwts'[j] # None
      /\ j \notin revoked /\ j \notin LiveSessions /\ clock < jwts'[j].exp
      /\ \A k \in Jtis : k # j => jwts'[k] = jwts[k]
  BY <1>1, <1>2, <1>3, <1>4, NewSession
<1>6. jwts'[j].sub = i /\ jwts'[j].ver = users'[i].ver
  BY <1>5 DEF Claims
<1>7. Active(j)'
  BY <1>2, <1>3, <1>5, <1>6 DEF Active, Decodes, IsTokenActive
<1>8. \A k \in Jtis : jwts[k] = None /\ k # j => jwts'[k] = None
  BY <1>5
<1>9. LiveSessions' = {k \in LiveSessions : AllSessions[k].acct # i} \cup {j}
  <2>1. \A k \in Jtis : jwts[k] # None =>
          (k \in LiveSessions' <=> k \in LiveSessions /\ AllSessions[k].acct # i)
    BY <1>1, <1>2, SetPasswordEnds DEF LiveSessions
  <2>2. j \in LiveSessions'
    BY <1>5, <1>7 DEF LiveSessions
  <2>3. \A k \in Jtis : jwts[k] = None /\ k # j =>
          k \notin LiveSessions' /\ k \notin LiveSessions
    BY <1>8 DEF LiveSessions
  <2>4. LiveSessions \subseteq Jtis /\ LiveSessions' \subseteq Jtis
    BY DEF LiveSessions
  <2> QED
    BY <1>5, <2>1, <2>2, <2>3, <2>4
<1> QED
  BY <1>1, <1>2, <1>5, <1>9 DEF Policy!NewPassword

LEMMA ResetCommitStep ==
  ASSUME IInv, [Next]_vars, NEW r \in Requests, ResetCommit(r)
  PROVE  \E i \in Ids : Policy!NewPassword(i)
<1> DEFINE i == resets[req[r].rid].sub
<1>1. i \in Ids /\ users[i] # None /\ SetPassword(i)
  BY RequestFacts, NoneIsNoRow
     DEF ResetCommit, IInv, ResetTokensDieWithPassword, Reset
<1>2. UNCHANGED <<clock, revoked, jwts>>
  BY DEF ResetCommit
<1>3. LiveSessions' = {k \in LiveSessions : AllSessions[k].acct # i}
  <2>1. \A k \in Jtis : jwts[k] # None =>
          (k \in LiveSessions' <=> k \in LiveSessions /\ AllSessions[k].acct # i)
    BY <1>1, <1>2, SetPasswordEnds DEF LiveSessions
  <2>2. \A k \in Jtis : jwts[k] = None => k \notin LiveSessions' /\ k \notin LiveSessions
    BY <1>2 DEF LiveSessions
  <2>3. LiveSessions \subseteq Jtis /\ LiveSessions' \subseteq Jtis
    BY DEF LiveSessions
  <2> QED
    BY <2>1, <2>2, <2>3
<1>4. AllSessions' = AllSessions
  BY <1>2 DEF AllSessions
<1> QED
  BY <1>1, <1>2, <1>3, <1>4 DEF Policy!NewPassword

-----------------------------------------------------------------------------

LEMMA PolicyStep == IInv /\ [Next]_vars => [Policy!Next]_(Policy!vars)
<1> SUFFICES ASSUME IInv, [Next]_vars PROVE [Policy!Next]_(Policy!vars)
  OBVIOUS
<1>1. CASE Tick
  BY <1>1, TickStep DEF Policy!Next
<1>2. CASE Reseed
  BY <1>2, ReseedStep DEF Policy!Next
<1>3. CASE UNCHANGED <<clock, users, revoked, jwts>>
  BY <1>3, Unseen
<1>4. ASSUME NEW r \in Requests, NEW n \in Names, RegisterInsert(r, n)
      PROVE  UNCHANGED Policy!vars
  BY <1>4, RegisterInsertStep
<1>5. ASSUME NEW r \in Requests, RegisterRespond(r)
      PROVE  Policy!Next
  BY <1>5, RegisterRespondStep DEF Policy!Next
<1>6. ASSUME NEW r \in Requests, LoginUpgrade(r)
      PROVE  UNCHANGED Policy!vars
  BY <1>6, LoginUpgradeStep
<1>7. ASSUME NEW r \in Requests, LoginIssue(r)
      PROVE  Policy!Next
  BY <1>7, LoginIssueStep DEF Policy!Next
<1>8. ASSUME NEW r \in Requests, LogoutPurge(r)
      PROVE  UNCHANGED Policy!vars
  BY <1>8, LogoutPurgeStep
<1>9. ASSUME NEW r \in Requests, LogoutInsert(r)
      PROVE  Policy!Next
  BY <1>9, LogoutInsertStep DEF Policy!Next
<1>10. ASSUME NEW r \in Requests, RefreshCommit(r)
       PROVE  Policy!Next
  BY <1>10, RefreshCommitStep DEF Policy!Next
<1>11. ASSUME NEW r \in Requests, ChangeCommit(r)
       PROVE  Policy!Next
  BY <1>11, ChangeCommitStep DEF Policy!Next
<1>12. ASSUME NEW r \in Requests, ResetCommit(r)
       PROVE  Policy!Next
  BY <1>12, ResetCommitStep DEF Policy!Next
<1> QED
  BY <1>1, <1>2, <1>3, <1>4, <1>5, <1>6, <1>7, <1>8, <1>9, <1>10, <1>11, <1>12
     DEF Next, Handle, vars, ResetRequest, Abort, LoginSelect, Decode, LogoutIdentity,
         RefreshIdentity, ChangeIdentity, Identify, ChangeVerify, ResetCheck

LEMMA PolicyInit == Init => Policy!Init
<1> SUFFICES ASSUME Init PROVE Policy!Init
  OBVIOUS
<1>1. \A j \in Jtis : jwts[j] = None
  BY DEF Init
<1>2. AllSessions = [j \in Jtis |-> None] /\ LiveSessions = {}
  BY <1>1 DEF AllSessions, LiveSessions
<1> QED
  BY <1>2 DEF Init, Policy!Init

\* The service grants and ends sessions only as SessionPolicy allows, whatever
\* requests overlap (auth.py, profile.py, seed.py).
THEOREM Refinement == Spec => ImplementsPolicy
<1>1. Init => Policy!Init
  BY PolicyInit
<1>2. IInv /\ [Next]_vars => [Policy!Next]_(Policy!vars)
  BY PolicyStep
<1> QED
  BY <1>1, <1>2, Invariance, PTL DEF Spec, ImplementsPolicy, Policy!Spec
=============================================================================
