------------------------------ MODULE Sessions ------------------------------
(***************************************************************************)
(* Accounts, JWT sessions, passwords and reset tokens of SecureDocs        *)
(* (app/auth.py, app/profile.py, the JWT half of app/utils.py and          *)
(* app/seed.py).                                                           *)
(*                                                                         *)
(* A request is a sequence of steps on the shared SQLite file.  Outside    *)
(* transaction() every SELECT and every autocommitted statement is a step  *)
(* of its own, and other requests run between them.  A transaction()       *)
(* block holds SQLite's write lock from BEGIN IMMEDIATE to its commit, so  *)
(* its statements are one step.  A request may be killed between any two   *)
(* steps, or its response lost (Abort).                                    *)
(*                                                                         *)
(* Passwords are serial numbers: every INSERT of an account and every      *)
(* _set_password assigns the next one, so two assignments are never        *)
(* confused, whatever text they were given.  users.token_epoch is a pair:  *)
(* the number of the random draw it started from (secrets.randbits(62) + 1 *)
(* is taken never to repeat; draw 0 is the column default of a migrated    *)
(* database) and the increments since.                                     *)
(***************************************************************************)
EXTENDS Naturals, Sequences

CONSTANTS Names,         \* usernames
          Jtis,          \* jti values, random in the code: each is issued once
          Rids,          \* reset tokens
          Requests,      \* slots of requests in flight
          None,          \* an absent row, an absent field
          MaxUsers,      \* bound: user ids 1..MaxUsers
          Migrated,      \* usernames of the accounts of a migrated database
          Seeded,        \* usernames of the accounts app/seed.py inserts
          JwtLife,       \* JWT_EXP_MINUTES, in clock ticks
          ResetLife,     \* RESET_TOKEN_TTL_MIN, in clock ticks
          MaxClock,      \* bound: ticks of the clock
          MaxPasswords,  \* bound: password assignments
          MaxDraws       \* bound: random draws of an epoch

Ids == 1 .. MaxUsers

Epoch == [gen : Nat, n : Nat]

User == [name : Names, pw : Nat, outdated : BOOLEAN, ver : Epoch]

\* pw and parent are history: the password the row held when the token was
\* made from it, and the token a refresh exchanged for this one.
Jwt == [sub : Ids, name : Names, ver : Epoch, exp : Nat,
        pw : Nat, parent : Jtis \cup {None}]

\* pw is history: the account's password when the token was requested.
Reset == [sub : Ids, exp : Nat, used : BOOLEAN, pw : Nat]

ASSUME SessionsAssumption ==
  /\ MaxUsers \in Nat /\ JwtLife \in Nat \ {0} /\ ResetLife \in Nat
  /\ MaxClock \in Nat /\ MaxPasswords \in Nat /\ MaxDraws \in Nat
  /\ Migrated \in Seq(Names) /\ Len(Migrated) <= MaxUsers
  /\ Seeded \in Seq(Names) /\ Len(Seeded) <= MaxUsers
  /\ None \notin User \cup Jwt \cup Reset \cup Jtis \cup Rids
                    \cup [acct : Ids, exp : Nat]

VARIABLES clock,      \* the time of day
          users,      \* table users
          revoked,    \* table revoked_tokens: the jti column
          resets,     \* table reset_tokens
          jwts,       \* the tokens handed out, held by clients
          req,        \* the requests in flight
          passwords,  \* passwords assigned so far
          draws       \* epochs drawn so far

vars == <<clock, users, revoked, resets, jwts, req, passwords, draws>>

Steps == {"idle", "identify", "register_respond", "login_upgrade", "login_issue",
          "logout_purge", "logout_insert", "refresh_commit",
          "change_verify", "change_commit", "reset_commit"}

\* What a handler keeps in its local variables between two statements: the
\* account id, the row it read, the presented JWT, the presented reset token.
Request == [pc : Steps, sub : Ids \cup {0}, row : User \cup {None},
            jti : Jtis \cup {None}, rid : Rids \cup {None}]

Idle == [pc |-> "idle", sub |-> 0, row |-> None, jti |-> None, rid |-> None]

TypeOK ==
  /\ clock \in Nat
  /\ users \in [Ids -> User \cup {None}]
  /\ revoked \subseteq Jtis
  /\ resets \in [Rids -> Reset \cup {None}]
  /\ jwts \in [Jtis -> Jwt \cup {None}]
  /\ req \in [Requests -> Request]
  /\ passwords \in Nat
  /\ draws \in Nat

-----------------------------------------------------------------------------
(* Helpers of auth.py and utils.py.                                        *)

\* A database of an earlier version: its accounts have SHA-256 hashes and the
\* default epoch of the added column.
Init ==
  /\ clock = 0
  /\ users = [i \in Ids |->
                IF i <= Len(Migrated)
                THEN [name |-> Migrated[i], pw |-> 1, outdated |-> TRUE,
                      ver |-> [gen |-> 0, n |-> 0]]
                ELSE None]
  /\ revoked = {}
  /\ resets = [t \in Rids |-> None]
  /\ jwts = [j \in Jtis |-> None]
  /\ req = [r \in Requests |-> Idle]
  /\ passwords = 1
  /\ draws = 0

\* decode_jwt: PyJWT rejects a token from the instant exp on.
Decodes(j) == jwts[j] # None /\ clock < jwts[j].exp

\* _is_token_active: no row in revoked_tokens, and ver is the account's epoch.
IsTokenActive(j) ==
  /\ j \notin revoked
  /\ users[jwts[j].sub] # None
  /\ users[jwts[j].sub].ver = jwts[j].ver

\* A request that comes now with the token is authenticated, if its checks
\* meet with no delay.
Active(j) == Decodes(j) /\ IsTokenActive(j)

\* Mutant: the purge takes what expires with the next tick, too.
UnexpiredEarly(js) == {j \in js : clock + 1 < jwts[j].exp}

\* The DELETE of revoke_token.
Unexpired(js) == {j \in js : clock <= jwts[j].exp}

\* issue_jwt: the claims come from the row the caller passes.
Claims(i, row, parent) ==
  [sub |-> i, name |-> row.name, ver |-> row.ver, exp |-> clock + JwtLife,
   pw |-> row.pw, parent |-> parent]

\* session_response: hand out a token with a jti never used before.
HandOut(j, i, row, parent) ==
  /\ jwts[j] = None
  /\ jwts' = [jwts EXCEPT ![j] = Claims(i, row, parent)]

Issue(i, row, parent) == \E j \in Jtis : HandOut(j, i, row, parent)

Finish(r) == req' = [req EXCEPT ![r] = Idle]

Continue(r, step) == req' = [req EXCEPT ![r].pc = step]

-----------------------------------------------------------------------------
(* Handlers.  r is the request; a 4xx answer that changes nothing is the   *)
(* step of Abort(r), which also stands for a killed worker.                *)

Tick ==
  /\ clock < MaxClock
  /\ clock' = clock + 1
  /\ UNCHANGED <<users, revoked, resets, jwts, req, passwords, draws>>

Abort(r) ==
  /\ req[r] # Idle
  /\ Finish(r)
  /\ UNCHANGED <<clock, users, revoked, resets, jwts, passwords, draws>>

\* AUTOINCREMENT: the id after the last one, from 1 again once the seed has
\* dropped the table.
NextId(i) == users[i] = None /\ \A k \in Ids : k < i => users[k] # None

\* register: the INSERT (a username that exists is answered 409) ...
RegisterInsert(r, n) ==
  /\ req[r] = Idle
  /\ passwords < MaxPasswords /\ draws < MaxDraws
  /\ \A i \in Ids : users[i] # None => users[i].name # n
  /\ \E i \in Ids :
       /\ NextId(i)
       /\ users' = [users EXCEPT ![i] =
                      [name |-> n, pw |-> passwords + 1, outdated |-> FALSE,
                       ver |-> [gen |-> draws + 1, n |-> 0]]]
       /\ req' = [req EXCEPT ![r] =
                    [Idle EXCEPT !.pc = "register_respond", !.sub = i]]
  /\ passwords' = passwords + 1
  /\ draws' = draws + 1
  /\ UNCHANGED <<clock, revoked, resets, jwts>>

\* ... and the session of the row read back by its id.
RegisterRespond(r) ==
  /\ req[r].pc = "register_respond"
  /\ Issue(req[r].sub, users[req[r].sub], None)
  /\ Finish(r)
  /\ UNCHANGED <<clock, users, revoked, resets, passwords, draws>>

\* login: read the row and verify the password against it ...
LoginSelect(r, i) ==
  /\ req[r] = Idle
  /\ users[i] # None
  /\ req' = [req EXCEPT ![r] =
               [Idle EXCEPT !.pc = IF users[i].outdated THEN "login_upgrade"
                                                        ELSE "login_issue",
                            !.sub = i, !.row = users[i]]]
  /\ UNCHANGED <<clock, users, revoked, resets, jwts, passwords, draws>>

\* The UPDATE of the upgrade: a hash of the password that was verified.
Rehashed(user, pw) ==
  [name |-> user.name, pw |-> pw, outdated |-> FALSE, ver |-> user.ver]

\* Mutant: the rehash without "AND password_hash = ?".
LoginUpgradeBlind(r) ==
  /\ req[r].pc = "login_upgrade"
  /\ LET i == req[r].sub
     IN users' = [users EXCEPT ![i] =
                    Rehashed(users[i], req[r].row.pw)]
  /\ Continue(r, "login_issue")
  /\ UNCHANGED <<clock, revoked, resets, jwts, passwords, draws>>

\* ... replace an outdated hash, if it is still the one that was read ...
LoginUpgrade(r) ==
  /\ req[r].pc = "login_upgrade"
  /\ LET i == req[r].sub
         same == users[i].pw = req[r].row.pw
                 /\ users[i].outdated = req[r].row.outdated
     IN users' = IF same
                 THEN [users EXCEPT ![i] =
                         Rehashed(users[i], req[r].row.pw)]
                 ELSE users
  /\ Continue(r, "login_issue")
  /\ UNCHANGED <<clock, revoked, resets, jwts, passwords, draws>>

\* Mutant: the epoch is read again when the token is made.
LoginIssueFreshEpoch(r) ==
  /\ req[r].pc = "login_issue"
  /\ Issue(req[r].sub, [req[r].row EXCEPT !.ver = users[req[r].sub].ver], None)
  /\ Finish(r)
  /\ UNCHANGED <<clock, users, revoked, resets, passwords, draws>>

\* ... and make the token from the row that was verified.
LoginIssue(r) ==
  /\ req[r].pc = "login_issue"
  /\ Issue(req[r].sub, req[r].row, None)
  /\ Finish(r)
  /\ UNCHANGED <<clock, users, revoked, resets, passwords, draws>>

\* load_identity, which runs before every handler: the token is decoded, and
\* its expiry is looked at for the only time ...
Decode(r, j) ==
  /\ req[r] = Idle
  /\ Decodes(j)
  /\ req' = [req EXCEPT ![r] =
               [Idle EXCEPT !.pc = "identify", !.sub = jwts[j].sub, !.jti = j]]
  /\ UNCHANGED <<clock, users, revoked, resets, jwts, passwords, draws>>

\* ... and then, when the database answers, the revocation and the epoch.  The
\* two SELECTs are one step: an epoch equal at the second was equal at the
\* first, since an account never returns to an earlier epoch.  A handler that
\* changes nothing here ends as Abort.
Identify(r, step) ==
  /\ req[r].pc = "identify"
  /\ IsTokenActive(req[r].jti)
  /\ Continue(r, step)
  /\ UNCHANGED <<clock, users, revoked, resets, jwts, passwords, draws>>

LogoutIdentity(r) == Identify(r, "logout_purge")

\* logout calls revoke_token outside a transaction: two autocommits.
LogoutPurge(r) ==
  /\ req[r].pc = "logout_purge"
  /\ revoked' = Unexpired(revoked)
  /\ Continue(r, "logout_insert")
  /\ UNCHANGED <<clock, users, resets, jwts, passwords, draws>>

LogoutInsert(r) ==
  /\ req[r].pc = "logout_insert"
  /\ revoked' = revoked \cup {req[r].jti}
  /\ Finish(r)
  /\ UNCHANGED <<clock, users, resets, jwts, passwords, draws>>

RefreshIdentity(r) == Identify(r, "refresh_commit")

\* Mutant: no second _is_token_active inside the transaction.
RefreshCommitUnchecked(r) ==
  /\ req[r].pc = "refresh_commit"
  /\ revoked' = Unexpired(revoked) \cup {req[r].jti}
  /\ Issue(req[r].sub, users[req[r].sub], req[r].jti)
  /\ Finish(r)
  /\ UNCHANGED <<clock, users, resets, passwords, draws>>

\* refresh: the transaction.  The signature and exp were checked by
\* load_identity and are not checked again.
RefreshCommit(r) ==
  /\ req[r].pc = "refresh_commit"
  /\ IsTokenActive(req[r].jti)
  /\ revoked' = Unexpired(revoked) \cup {req[r].jti}
  /\ Issue(req[r].sub, users[req[r].sub], req[r].jti)
  /\ Finish(r)
  /\ UNCHANGED <<clock, users, resets, passwords, draws>>

\* The UPDATE of _set_password: password_hash, token_epoch = token_epoch + 1.
WithNewPassword(user) ==
  [name |-> user.name, pw |-> passwords + 1, outdated |-> FALSE,
   ver |-> [gen |-> user.ver.gen, n |-> user.ver.n + 1]]

\* Mutant: the reset tokens of the account are left usable.
SetPasswordOnly(i) ==
  /\ passwords < MaxPasswords
  /\ passwords' = passwords + 1
  /\ users' = [users EXCEPT ![i] = WithNewPassword(users[i])]
  /\ UNCHANGED resets

\* Mutant: the UPDATE of users without its WHERE clause.
SetPasswordEverywhere(i) ==
  /\ passwords < MaxPasswords
  /\ passwords' = passwords + 1
  /\ users' = [k \in Ids |->
                 IF users[k] = None THEN None
                 ELSE WithNewPassword(users[k])]
  /\ resets' = [t \in Rids |->
                  IF resets[t] # None /\ resets[t].sub = i
                  THEN [resets[t] EXCEPT !.used = TRUE]
                  ELSE resets[t]]

\* _set_password, inside the caller's transaction.
SetPassword(i) ==
  /\ passwords < MaxPasswords
  /\ passwords' = passwords + 1
  /\ users' = [users EXCEPT ![i] = WithNewPassword(users[i])]
  /\ resets' = [t \in Rids |->
                  IF resets[t] # None /\ resets[t].sub = i
                  THEN [resets[t] EXCEPT !.used = TRUE]
                  ELSE resets[t]]

ChangeIdentity(r) == Identify(r, "change_verify")

\* change_password: the row current_user reads, some time after the identity
\* was checked, is the one the current password is verified against.
ChangeVerify(r) ==
  /\ req[r].pc = "change_verify"
  /\ req' = [req EXCEPT ![r].pc = "change_commit", ![r].row = users[req[r].sub]]
  /\ UNCHANGED <<clock, users, revoked, resets, jwts, passwords, draws>>

\* The transaction.  The token of the request is not checked again: only the
\* epoch of the verified row, which answers 409 when it has moved.
ChangeCommit(r) ==
  /\ req[r].pc = "change_commit"
  /\ users[req[r].sub].ver = req[r].row.ver
  /\ SetPassword(req[r].sub)
  /\ Issue(req[r].sub, users'[req[r].sub], None)
  /\ Finish(r)
  /\ UNCHANGED <<clock, revoked, draws>>

\* reset_request for a username that exists.  The SELECT before the INSERT
\* reads only the id, which does not change.
ResetRequest(i) ==
  /\ users[i] # None
  /\ \E t \in Rids :
       /\ resets[t] = None
       /\ resets' = [resets EXCEPT ![t] =
                       [sub |-> i, exp |-> clock + ResetLife, used |-> FALSE,
                        pw |-> users[i].pw]]
  /\ UNCHANGED <<clock, users, revoked, jwts, req, passwords, draws>>

\* The WHERE clause of both queries of reset_confirm.
Usable(t) == resets[t] # None /\ ~resets[t].used /\ clock < resets[t].exp

\* reset_confirm: the check before the costly hash ...
ResetCheck(r, t) ==
  /\ req[r] = Idle
  /\ Usable(t)
  /\ req' = [req EXCEPT ![r] = [Idle EXCEPT !.pc = "reset_commit", !.rid = t]]
  /\ UNCHANGED <<clock, users, revoked, resets, jwts, passwords, draws>>

\* ... and the transaction, which checks again.
ResetCommit(r) ==
  /\ req[r].pc = "reset_commit"
  /\ Usable(req[r].rid)
  /\ SetPassword(resets[req[r].rid].sub)
  /\ Finish(r)
  /\ UNCHANGED <<clock, revoked, jwts, draws>>

\* Mutant: the seeded accounts get the default epoch.
ReseedDefaultEpoch ==
  /\ \A r \in Requests : req[r] = Idle
  /\ passwords < MaxPasswords /\ draws < MaxDraws
  /\ users' = [i \in Ids |->
                 IF i <= Len(Seeded)
                 THEN [name |-> Seeded[i], pw |-> passwords + 1,
                       outdated |-> FALSE, ver |-> [gen |-> 0, n |-> 0]]
                 ELSE None]
  /\ revoked' = {}
  /\ resets' = [t \in Rids |-> None]
  /\ passwords' = passwords + 1
  /\ draws' = draws + 1
  /\ UNCHANGED <<clock, jwts, req>>

\* app/seed.py, run while the service is stopped (scripts/seed.sh keeps it
\* stopped when the seed fails): drop the tables and insert the accounts, ids
\* from 1 again, all with one new epoch.  Old JWTs stay with their holders.
Reseed ==
  /\ \A r \in Requests : req[r] = Idle
  /\ passwords < MaxPasswords /\ draws < MaxDraws
  /\ users' = [i \in Ids |->
                 IF i <= Len(Seeded)
                 THEN [name |-> Seeded[i], pw |-> passwords + 1,
                       outdated |-> FALSE, ver |-> [gen |-> draws + 1, n |-> 0]]
                 ELSE None]
  /\ revoked' = {}
  /\ resets' = [t \in Rids |-> None]
  /\ passwords' = passwords + 1
  /\ draws' = draws + 1
  /\ UNCHANGED <<clock, jwts, req>>

\* A step of request r.
Handle(r) ==
  \/ Abort(r)
  \/ \E n \in Names : RegisterInsert(r, n)
  \/ RegisterRespond(r)
  \/ \E i \in Ids : LoginSelect(r, i)
  \/ LoginUpgrade(r)
  \/ LoginIssue(r)
  \/ \E j \in Jtis : Decode(r, j)
  \/ LogoutIdentity(r)
  \/ LogoutPurge(r)
  \/ LogoutInsert(r)
  \/ RefreshIdentity(r)
  \/ RefreshCommit(r)
  \/ ChangeIdentity(r)
  \/ ChangeVerify(r)
  \/ ChangeCommit(r)
  \/ \E t \in Rids : ResetCheck(r, t)
  \/ ResetCommit(r)

Next ==
  \/ Tick
  \/ Reseed
  \/ \E i \in Ids : ResetRequest(i)
  \/ \E r \in Requests : Handle(r)

Spec == Init /\ [][Next]_vars

-----------------------------------------------------------------------------
(* Properties.                                                             *)

\* The service may still accept the token: a request with it that comes now, or
\* one that was decoded in time and waits for its other checks.
Admissible(j) ==
  /\ jwts[j] # None /\ IsTokenActive(j)
  /\ Decodes(j) \/ \E r \in Requests : req[r].pc = "identify" /\ req[r].jti = j

\* A token the service accepts was made from the account row as its password
\* stands now, and from the account that has that id now: neither a login
\* that overlaps a password change, nor a reset, nor a reseed that gives the
\* id to someone else leaves a working session behind.
SessionRestsOnCurrentPassword ==
  \A j \in Jtis :
    Admissible(j) =>
       /\ users[jwts[j].sub].pw = jwts[j].pw
       /\ users[jwts[j].sub].name = jwts[j].name

\* A reset token that is still unused was requested under the present
\* password: every change of the password, by whatever path, spends them all.
ResetTokensDieWithPassword ==
  \A t \in Rids :
    resets[t] # None =>
       /\ users[resets[t].sub] # None
       /\ ~resets[t].used => users[resets[t].sub].pw = resets[t].pw

\* Two refreshes of one token do not both succeed while it is unexpired:
\* of two tokens exchanged for it, one was made after it had expired.
RefreshOnceWhileUnexpired ==
  \A j, k \in Jtis :
    /\ jwts[j] # None /\ jwts[k] # None /\ j # k
    /\ jwts[j].parent # None /\ jwts[j].parent = jwts[k].parent
    => LET expiry == jwts[jwts[j].parent].exp
       IN \/ jwts[j].exp - JwtLife >= expiry
          \/ jwts[k].exp - JwtLife >= expiry

\* A token is exchanged at most once (README, the refresh row of the API
\* table: a new token is issued and the previous one revoked; 02, "the core of
\* atomic state changes": of parallel uses exactly one succeeds, refresh too).
RefreshOnce ==
  \A j, k \in Jtis :
    /\ jwts[j] # None /\ jwts[k] # None
    /\ jwts[j].parent # None /\ jwts[j].parent = jwts[k].parent
    => j = k

\* A token that has once been refused (logged out, exchanged, expired, or its
\* epoch passed) is refused for ever: a reseed that empties the tables, an id
\* that is used again, and time never revive it.  The purge of revoked_tokens
\* does so only after the token has expired, for a request that was decoded
\* before, and never when the password or the account has changed.
DeadTokensStayDead ==
  [][\A j \in Jtis :
       jwts[j] # None /\ ~Admissible(j) /\ Admissible(j)' =>
         /\ jwts[j].exp < clock
         /\ users[jwts[j].sub] # None
         /\ users[jwts[j].sub].ver = jwts[j].ver]_vars

\* The password of an account that stays changes only in a request that
\* verified the password it replaces, or by an unused unexpired reset token
\* requested under it, which is spent: never by a rehash, never twice on the
\* strength of one verification.
PasswordChangeAuthorised ==
  [][\A i \in Ids :
       /\ users[i] # None /\ users'[i] # None
       /\ users'[i].pw # users[i].pw
       => \/ \E r \in Requests : /\ req[r].pc = "change_commit"
                                 /\ req[r].sub = i
                                 /\ req[r].row.pw = users[i].pw
                                 /\ req'[r] = Idle
          \/ \E t \in Rids : /\ Usable(t) /\ resets[t].sub = i
                             /\ resets[t].pw = users[i].pw
                             /\ resets'[t] = [resets[t] EXCEPT !.used = TRUE]
          \/ users'[i].ver.gen # users[i].ver.gen]_vars

-----------------------------------------------------------------------------
(* The inductive invariant that the proofs of SessionsProofs rest on.      *)

\* c is a row once read of account i, or claims made from one.  If its epoch
\* is of the draw the account has now, the epoch has only been incremented
\* since; and if it is the account's epoch, password and name are still those.
Behind(i, c) ==
  /\ c.ver.gen <= draws
  /\ users[i] # None /\ users[i].ver.gen = c.ver.gen =>
       /\ c.ver.n <= users[i].ver.n
       /\ c.ver.n = users[i].ver.n =>
            c.pw = users[i].pw /\ c.name = users[i].name

EpochsWereDrawn == \A i \in Ids : users[i] # None => users[i].ver.gen <= draws

TokensBehind == \A j \in Jtis : jwts[j] # None => Behind(jwts[j].sub, jwts[j])

\* A request in flight works on an account that exists, with the row, the
\* token or the reset token that its step needs.
RequestsWellFormed ==
  \A r \in Requests :
    /\ req[r].row # None => req[r].sub \in Ids /\ Behind(req[r].sub, req[r].row)
    /\ req[r].pc \notin {"idle", "identify", "reset_commit"} =>
         req[r].sub \in Ids /\ users[req[r].sub] # None
    /\ req[r].pc \in {"login_upgrade", "login_issue", "change_commit"} =>
         req[r].row # None
    /\ req[r].pc \in {"identify", "logout_purge", "logout_insert",
                      "refresh_commit", "change_verify"} =>
         /\ req[r].jti # None /\ jwts[req[r].jti] # None
         /\ jwts[req[r].jti].sub = req[r].sub
    /\ req[r].pc = "reset_commit" => req[r].rid # None /\ resets[req[r].rid] # None
    /\ req[r].pc = "idle" => req[r] = Idle

RevokedWereIssued == \A j \in revoked : jwts[j] # None

\* A token that was exchanged is refused by the transaction of refresh, too:
\* revoked, or of a former epoch, unless the purge of expired revocations may
\* have dropped its row.
ExchangedAreSpent ==
  \A j, p \in Jtis :
    jwts[j] # None /\ jwts[j].parent = p =>
      /\ jwts[p] # None
      /\ ~IsTokenActive(p) \/ jwts[p].exp < clock

IInv ==
  /\ TypeOK
  /\ RevokedWereIssued
  /\ ExchangedAreSpent
  /\ RefreshOnceWhileUnexpired
  /\ EpochsWereDrawn
  /\ TokensBehind
  /\ RequestsWellFormed
  /\ ResetTokensDieWithPassword

-----------------------------------------------------------------------------
(* The refinement of SessionPolicy.                                        *)

LiveSessions == {j \in Jtis : jwts[j] # None /\ Active(j)}

AllSessions ==
  [j \in Jtis |-> IF jwts[j] = None THEN None
                  ELSE [acct |-> jwts[j].sub, exp |-> jwts[j].exp]]

Policy == INSTANCE SessionPolicy WITH
            Life <- JwtLife, now <- clock, sessions <- AllSessions,
            live <- LiveSessions

\* Seen from outside, the service grants and ends sessions only as
\* SessionPolicy says: whatever overlaps, a logout ends one session, a refresh
\* replaces one, a new password ends those of its account and of no other.
ImplementsPolicy == Policy!Spec
=============================================================================
