# SecureDocs in TLA+

SecureDocs is a Flask application on SQLite for sharing documents: accounts
with JWT sessions, documents with shares and comments, file attachments, and
a few operations scripts. Most of its functions are short. What is hard in it is
what happens *between* their statements: several requests (threads of the
development server, or several workers) share one database file, a worker may be
killed anywhere, files and rows cannot be written together, and tokens stay with
their holders whatever happens to the database. This directory models those
parts, checks them with TLC on small instances, and proves the central ones with
TLAPS for every instance.

## 1. The system

| Part | Source | State | Operations | Hard behaviour |
|---|---|---|---|---|
| Sessions | `app/auth.py`, JWT half of `app/utils.py` | `users` (with `token_epoch`), `revoked_tokens`, tokens held by clients | register, login, logout, refresh, `load_identity` | overlapping requests of one account, expiry between two statements, purge of revocations |
| Passwords, reset tokens | `app/profile.py` | `users`, `reset_tokens` | change_password, reset_request, reset_confirm | verification against a row that is stale by the time of the write; one-time tokens used in parallel |
| Seed | `app/seed.py`, `scripts/seed.sh` | all tables, the deletion queue | drop and refill | ids are used again while old tokens and files still exist; stopped halfway |
| Attachments, deletion queue | `app/files.py`, `delete_document`, `scripts/cleanup.sh` | `attachments`, `pending_file_deletions`, the upload folder | upload, download, delete, cleanup (request, start of a worker, command) | file and row are not atomic; cleanups overlap; unlink fails |
| Documents | `app/documents.py`, `app/quotas.py` | `documents` | create, list, search, get, render, update, delete | the row is read before the permission is checked |
| Sharing, permissions | `app/sharing.py` | `shares`, `users.role` | can_access, can_edit, is_owner, share, revoke, roles | two-statement checks, check and write in different transactions |
| Comments | `app/comments.py` | `comments` | add, list | access revoked between check and insert, limits under parallel requests |
| Tools | `app/tools.py` | none of its own | export, import, preview | export reads like get_document; conversion and preview are outside I/O |
| Database layer | `app/db.py`, `app/schema.sql` | the schema; connection of a request | query, execute, transaction, ensure_schema | what is atomic and what is not; the schema of an old version completed by several processes at once, each of which may be killed |
| Key store | `app/config.py`, `scripts/gen-secrets.sh` | `instance/secret.key` and its lock, `.env` | load or create; generate `.env` | processes starting together, killed halfway; a damaged store; two scripts |
| Front end | `static/app.js` | current user, session generation, the page; the cookie, which tabs share | session recovery, login, logout, the loaders and forms | late answers, rival logins, other tabs |
| Factory, validation, errors, flags, scripts | rest of `app/`, `scripts/` | - | - | sequential |

The parts meet in the database: there is no message passing and no shared
memory. `load_identity` runs before every handler; `transaction()` takes
SQLite's write lock (`BEGIN IMMEDIATE`) until commit or rollback; a statement
outside it commits by itself.

### What makes each part correct

* Sessions: a session rests on the password and the account as they are now;
  what was once refused stays refused, or at most until it has expired; one token
  is exchanged once while it lasts; only the
  events the API names begin or end sessions, and only those they name.
* Passwords: changed only by someone who knows the one being replaced, or holds
  a reset token requested under it; all reset tokens of the account die with it.
* Attachments: a listed attachment has its file; a file is listed, queued for
  deletion, being uploaded, or explained by a failure; the queue empties; quotas
  and permissions hold at the moment of the commit.
* Documents, shares, comments: nobody is answered what he had no access to;
  nothing hangs on a document that is gone; a check that is old at the time of
  the write still holds then; limits hold.
* Schema: the service serves on a whole schema only, with the permissions the
  owners asked for last; starts that fail or are killed leave nothing that stands in
  the way of a later one.
* Key store: processes with one environment have one set of keys; a store that
  exists is never replaced by the service, nor found half-written.
* Front end: what one session asked for never shows on the page of another;
  what shows belongs to the user the page names; logout leaves no cookie.

### How a request is cut into steps

A step is what no other request can come between: one statement outside a
transaction, or a whole `transaction()` block. A handler's local variables
between two steps are the record of its request (`req[r]`, `proc[p]`), its `pc`
names the statement it stands before. Everything a handler computes between two
statements (hashing, parsing, formatting) belongs to one of them. A refusal (4xx)
that changes nothing is `Abort(r)`, which is also the death of the worker
between two steps; a lost answer is the state after a commit.

Why other requests run in between: the Docker image starts one synchronous
gunicorn worker, but `run.py` serves with threads, README.md provides for
several workers, the tests run requests in threads, and `scripts/cleanup.sh`
runs a second process beside the service.

`Secrets` and `Frontend` cut otherwise. A start of the service is cut into the
system calls another process can come between, and a step of the page is what
JavaScript runs without an `await`.

## 2. Modules

| Module | What it is |
|---|---|
| `Sessions` | accounts, tokens, reset tokens, the seed's effect on them; one action per step of a handler |
| `SessionPolicy` | what is promised about sessions, without epochs, revocations or requests: `Open`, `Stillborn`, `Close`, `Exchange`, `NewPassword`, `Pass`, `StartOver` |
| `SessionsProofs` | the inductive invariant of `Sessions` and the theorems that follow |
| `SessionsPolicyProofs` | the proof that `Sessions` implements `SessionPolicy` |
| `Attachments` | uploads, deletions, the deletion queue, the disk, the seed's steps |
| `AttachmentStore` | what is promised about attachments, without rows, files, queue, locks or processes: which can be downloaded, and `Attach`, `Delete`, `Close`, `Reopen` |
| `AttachmentsProofs` | the part of the inductive invariant of `Attachments` that is about files, and the theorems that follow |
| `AttachmentStoreProofs` | the rest of the invariant, the limits, and the proof that `Attachments` implements `AttachmentStore` |
| `Documents` | documents, shares, comments, export and import, and their permission checks |
| `DocumentStore` | what is promised about documents, shares and comments, without statements: `Ask`, and then one of `Respond`, `Comment`, `Delete`, `SetShare`, `Withdraw`; `Create`, `Edit` and `List` at once |
| `DocumentsProofs` | the inductive invariant of `Documents`, the theorems that follow, and the proof that it implements `DocumentStore` |
| `Startup` | the schema: `ensure_schema` run by the service, cleanup commands and the seed, in one file |
| `StartupProofs` | the inductive invariant of `Startup` and the theorems that follow |
| `Secrets` | the keys: several starting processes, the store and its lock, `gen-secrets.sh` |
| `SecretsProofs` | the inductive invariant of `Secrets` and the theorems that follow |
| `Frontend` | one tab: calls in flight, the session generation, the elements of the page, the cookie and the server's sessions |
| `FrontendProofs` | the inductive invariant of `Frontend` and the theorems that follow |
| `MCSessions`, `MCAttachments`, `MCDocuments`, `MCStartup`, `MCSecrets`, `MCFrontend` | constants and symmetry for TLC |

Definitions whose comment begins with *Mutant* are variants of the definition
that follows them, each the way a plausible mistake would write it; no
specification uses them. They show that a property can fail: put in place of the
real definition, TLC finds the property violated (PROJECT.json, `mutants`).

### Sessions

| Action | Code |
|---|---|
| `RegisterInsert`, `RegisterRespond` | `register`: the INSERT (a name that exists is a 409); the SELECT of the new row and the token |
| `LoginSelect`, `LoginUpgrade`, `LoginIssue` | `login`: the row and its verification; the rehash of an outdated hash, `AND password_hash = ?`; the token, from the row of the first step |
| `Decode` | the first half of `load_identity`: the token is decoded, its expiry looked at |
| `Identify` | the second half, when the database answers: revocation and epoch |
| `LogoutIdentity`, `LogoutPurge`, `LogoutInsert` | `Identify`, then the two statements of `revoke_token`, outside a transaction |
| `RefreshIdentity`, `RefreshCommit` | `Identify`; the transaction of `refresh` |
| `ChangeIdentity`, `ChangeVerify`, `ChangeCommit` | `Identify`; the row that `current_user` reads and the password is verified against; the transaction |
| `ResetRequest` | `reset_request` |
| `ResetCheck`, `ResetCommit` | `reset_confirm`: the check before the hash; the transaction |
| `Reseed` | `app/seed.py` as `scripts/seed.sh` runs it: service stopped before, restarted on success only |
| `Tick`, `Abort` | time; refusals and killed workers |

Abstractions. A password is a serial number, one per assignment (`passwords`):
two assignments of the same text are different hashes, because hashes are salted;
verifying the right password against a row is reading the row. `token_epoch` is a
pair of the random draw it came from and the increments since: drawn epochs
(62 random bits) are taken never to coincide, as are `jti`s and reset tokens.
`jwts[j].pw`, `jwts[j].parent` and `resets[t].pw` are history. `role`, profile
fields and `api_token` are left out. Three merges of two statements into one
step are explained at their definitions: the two SELECTs of `_is_token_active`
(`Identify`), the SELECT before the INSERT of `reset_request`, the seed. The
decoding of a token is not merged with them: between the two a token may be
revoked, expire, and lose its revocation to the purge.

### Attachments

`Upload*` follow the statements of `upload`. The transaction is not one step
here: a file is written inside it, and a process may die while holding the lock,
so `lock` says who holds it and every other writer waits (`Unlocked`). The
branches of a failure: `UploadFail` (short write, INSERT or commit fails:
rollback), `UploadEnqueue` (the except branch queues the name),
`UploadEnqueueFail` (that fails as well). `DeleteCheck`/`DeleteCommit` are
`delete_document`; `CleanupList`, `CleanupUnlink`, `CleanupUnlinkFail`,
`CleanupForget`, `CleanupEnd` are `cleanup_deleted_files`, which any process
runs: a request after it deleted something, a starting worker or the cleanup
command (`CleanupRun`). `SeedStart` .. `SeedFill` are the seed with its own
cleanup between `SeedDrop` and `SeedFill`; while `seeding`, requests do not run,
and after a seed that was stopped only another one follows (`scripts/seed.sh`
leaves the service stopped). `Stop(p)` ends a process between two steps. Stored
names are drawn once (`drawn`). Shares are reduced to who may edit
(`SetEditors`); their handlers are in `Documents`.

`AttachmentStore` sees of all this what a download finds (`Downloadable`: a row and
its file, while the service runs), which documents there are and who may edit them.
An upload is `Attach` at its commit, a deletion `Delete` at its own; a seed
that stops the service is `Close`, its end `Reopen`. Writing, failing, queueing and cleaning up
are not seen.

### Documents

| Action | Code |
|---|---|
| `CreateDocument`, `ImportBackup` | their transactions, both through `InsertDocument` (`insert_document`, which counts) |
| `UpdateDocument` | `update_document`: one transaction, one UPDATE |
| `ListDocuments` | `list_documents`, `search_documents`: one statement with a permission check of its own (`Listed`) |
| `ReadDocument`, `ExportDocument` | the SELECT of the row in `get_document`, `render_document`, `export_document` |
| `ListComments`, `AddComment` | the handlers up to their first statement, which is `can_access` |
| `Access`, `AccessShare` | the two SELECTs of `can_access`; the record's `next` says where a yes leads |
| `Respond`, `Converted` | the answer, with the row of the first step; after a conversion that may take long |
| `CommentCommit` | the transaction of `add_comment`: `can_access` again, the limit, the INSERT |
| `DeleteDocument`, `ShareDocument`, `RevokeShare`, `ListShares` | `is_owner` (`OwnerCheck`) |
| `DeleteCommit`, `ShareCommit`, `RevokeCommit` | the write, in a later transaction |
| `Abort` | refusals, failures of the converter, killed workers |

A document has an owner, a visibility and the serial number of its text.
`could[r]` is history: the texts of the document that the user of request `r` could
read at some moment since `r` began. `served` holds the answers of the last step,
errors left out, with what their users could read: those of a read carry the text,
those of a write only say that it was done. The queue of files that
`delete_document` fills is in `Attachments`.

`DocumentStore` sees a request as its user, its document and whether that user has had
access since it began (`Asking`), and an answer as whom it tells about what
(`Answered`). The statements of `can_access` are not seen. A commit is one step of the
store, in which the user has the right to it at that moment; deleting, or taking
a share of, what is gone meanwhile is an answer that changes nothing.

### Startup

| Action | Code |
|---|---|
| `CreateTable` | one CREATE TABLE IF NOT EXISTS of schema.sql (db.py:79) |
| `Look`, `Alter` | PRAGMA table_info; the ALTER TABLE, decided on what it found (db.py:81-83) |
| `BeginData`, `Commit` | the DELETE, with which Python's `sqlite3` begins a transaction; the index, the sizes and the commit (db.py:85-96) |
| `Fail` | a statement raises: a column somebody else has added since the look, a table the seed has dropped, a lock that was held too long; the process ends |
| `Drop` | one DROP of app/seed.py, after which the seed runs `ensure_schema` a second time |
| `BeginService`, `BeginSeed`, `BeginCommand` | `start.sh`, `seed.sh` (which stops the service first), `cleanup.sh` |
| `Kill` | a process dies; an open transaction is rolled back |
| `Share`, `Revoke` | what the service does with `shares` once it serves |

`Init` is any database an old version can have left: any of the tables, without
some of the columns, several rows of `shares` for one document and user,
attachments without a size. Of the eight tables those four stand here whose
columns or rows `ensure_schema` changes. `latest` is history: what the owner asked
for last. That the service is not started by hand while the seed runs is an
assumption about the operator, which `seed.sh` makes as well.

### Secrets

| Action | Code |
|---|---|
| `Start` | config.py:43-48: the environment; complete, it is used as it is |
| `Lock` | `flock(LOCK_EX)`, waits for the holder |
| `OpenMissing`, `Write`, `WriteFail`, `Replace`, `Finish` | no store: keys and temporary file; dump and fsync; either fails; `os.replace`; merge with the environment, validation, unlock |
| `OpenExisting` | a store: its mode and contents refused, or merged, validated, unlock |
| `ScriptStart`, `ScriptPublish` | gen-secrets.sh: draw and look for `.env`; `mv -f` or `ln` |
| `Kill` | a process dies at any point and its lock with it; also the end of a running one |
| `Corrupt`, `Expose`, `Restore` | what happens to the store from outside |

A key is a serial number: 0 is one that `_validate_keys` refuses, 1 one chosen by
hand, the others are generated, each draw taken to differ from all before. The
environment of a process is the `.env` of the moment it starts. A missing `.env`
and one without any of the names give the same environment (`Environment`), but
only the first lets `gen-secrets.sh` go on. The store has whole contents
or is `Broken`; what a killed process leaves in the directory under a temporary
name is looked at by nobody. `used` and `original` are history.

### Frontend

A call of `api` is a record in `calls` with the generation and the cookie of the
moment it was made. `Answer*` and `Refuse` are the answer reaching the browser,
which changes the cookie at once; `Resume*` are the continuations in the order the
network happens to give; `Lose` is a `fetch` that rejects. The page is a function
from elements to what they hold: of which user the data are, which generation
asked for them, and who was on the page then (the last is history, as `crossed`).
A continuation that calls `api` again does so in its own step (`GoOn`). The
server is a sequence of sessions, live or revoked, whose meaning is that of
`SessionPolicy`; roles do not change. The two `await`s of `api` are one, and an
answer whose body is cut off (`res.json().catch`) is not modelled. Single
documents are not told apart.

## 3. What the runs check

| Run | Instance | Checks | Shows |
|---|---|---|---|
| `sessions` | 1 account with an outdated hash, 3 tokens, 1 reset token, 2 requests, 3 ticks of time, 3 passwords, 1 reseed | `IInv`, `SessionRestsOnCurrentPassword`, `ResetTokensDieWithPassword`, `RefreshOnceWhileUnexpired`, `PasswordChangeAuthorised` | every pair of handlers of one account in every interleaving, with expiry in between. Three tokens are one and its two rivals; two changes of the password after the first let a stale verification be overtaken and overtake |
| `sessions_accounts` | 2 accounts, 3 tokens of 1 tick, 2 requests, registration, 3 epochs, 3 ticks of time | `DeadTokensStayDead`, `ImplementsPolicy` | ids reused after a reseed, by the seed and by registration; purges that remove revocations while a request waits between its two checks; the refinement |
| `sessions_refresh` | as `sessions` | `RefreshOnce` | **violated**, see 5 |
| `attachments` | 2 documents, 2 users, 2 files of two sizes, 2 workers and the cleanup process, 1 seed, 1 fault, 1 stop | `IInv`, `OrphansAreExplained`, `QuotaHolds`, `UploadsAuthorised`, `ImplementsStore` | uploads against deletions, revocations, failures, overlapping cleanups and a seed; the refinement of `AttachmentStore` |
| `attachments_queue` | 2 documents, 2 users, 1 worker and the cleanup process, 1 seed, 2 faults, 1 stop | `AttachmentsHaveFiles`, `QueueDrains` | a seed stopped at each statement, failed uploads queued or not, ids used again; liveness of the queue under `FairSpec` |
| `attachments_orphans` | as `attachments`, 2 faults, no seed | `FailedUploadsAreCleanedUp` | **violated**, see 5 |
| `documents` | 2 users, 2 requests, 2 document ids (see below), 2 texts, limits of 1, 2 comments | `IInv`, `NoOrphans`, `QuotasHold`, `ServedOnlyWithAccess`, `CommentsAuthorised`, `OwnersDecide`, `ImplementsStore` | reads, exports, lists, comments, shares and revocations against updates and deletion; both limits reached, passed through deletions, reached again; the refinement of `DocumentStore` |
| `documents_reads` | as `documents`, 1 document id | `ServedWhatWasReadable` | **violated**, see 5 |
| `secrets` | 2 processes, 2 scripts, 2 names of keys, 6 draws, 2 kills, 1 fault | `IInv`, `OneKeySet`, `StoreIsWhole`, `StoreIsKept`, `EnvFileIsKept`, `StartsEnd` | a rival at every point of a creation, itself killed or refused; both scripts past their look for `.env`; damage and restoration; liveness of the lock under `FairSpec` |
| `startup` | the service, 1 cleanup command, 1 seed, 1 kill; 1 document and user with up to 2 old shares, 2 old attachments, one without its file | `IInv`, `ServesOnWholeSchema`, `PermissionsAreTheLatest`, `UndisturbedStartServes` | every database an old version leaves, completed by two processes at once, one of which fails on the other's column or is killed anywhere; a start left alone serves, under `FairSpec` |
| `frontend` | 2 users (1 administrator), 2 calls in flight, 2 sessions, 1 step of another tab, 4 buttons | `IInv`, `NothingOfEarlierSessions`, `PageIsCurrentUsers`, `LogoutLeavesNoCookie` | two sessions of different users in one tab, with calls of the first answered during the second; rival logins; logouts that fail |
| `frontend_late` | as `frontend`, no other tab | `LateAnswersAreDiscarded` | **violated**, see 5 |

The bounds are the constants named `Max...` of each module, guards on counters
that have no bound in the code. Two requests suffice for every race the
properties are about: each is between one request that has checked something and
one that changes it (updates, ticks and reset requests need no slot). In `Documents` the second id is there for the limit on
documents: under `RequestsMeetOverOne` (MCDocuments) it is taken while no request is
in flight, and no request goes on after that. Requests meet over one document,
deleted or not, because no statement but the count relates two; that a deleted
document's id could come back is what the counter shows. Under `TextsBeforeComments`
a text is rewritten only where there are no comments, which no definition relates;
the visibility changes at any time. In `Startup` two
processes at once are enough, since service and seed exclude each other and every
further command is one more rival of the same kind. In `Frontend` two calls are one and a late rival of it, and the four buttons show one
loader of each form of continuation (`docs` comes by itself after a login);
`profile`, `save` and `search` differ from them in the name of the element. In
`Secrets` the draws suffice for every process and script the instance can have.
Symmetry is used for tokens, reset tokens, request and call slots, names of files,
workers, in `Documents` users and in `Attachments` documents, none of which a
definition tells apart (both documents of `attachments` have one owner); the
runs with a liveness property use none.

Fairness. `Sessions`, `Documents` and `Frontend` have safety properties only. `Startup` has
`FairSpec`: a process that is running goes on. Nothing is assumed about who starts
one: docker-compose.yml has no restart policy, and `seed.sh` leaves the service
stopped after a failed seed, so a service that failed to start stays down until
the operator starts it; `UndisturbedStartServes` says what that start can rely on. `Attachments`
has `FairSpec`: a process that is running goes on (`WF` of its next step, which
waits for the lock at most as long as the holder does), the cleanup command is
run again and again (docs/운영문서.md has it in cron, README.md asks for it), a
seed goes on; failures of `unlink` and stops are finitely many (`MaxFaults`,
`MaxStops`). `Secrets` has `FairSpec`: a process that is running goes on (`WF`), and
who waits in `flock` is served in the end (`SF`, since the lock comes and goes;
the kernel queues its waiters); kills and faults are finitely many. No fairness
is assumed of users.

## 4. What is proved

Assumptions: `SessionsAssumption` (types of the constants, a positive lifetime,
`None` not a row), `FrontendAssumption` and `NoneAssumption` (the same for users,
calls and what elements hold), `SecretsAssumption` (`None` and `Broken` are no key sets, `None` no environment,
the names in a hand-written `.env` are among those of the keys),
`AttachmentsAssumption`, `DocumentsAssumption` and `StartupAssumption` (types, `None`
not a row, a name or a process; service, seed and commands are different processes). The bounds `Max...` are arbitrary naturals.

The inductive invariant `IInv` of `Sessions` is needed because
`SessionRestsOnCurrentPassword` speaks only of tokens that are accepted, whereas
a step may turn a row some request has read into a token. Its heart is
`Behind(i, c)`: for everything that was once read or made from account `i` (a row
in a request's hands, a token), either the account has started from another draw
since, or its epoch has only been incremented, and if it is still the same then
so are the password and the name. `TokensBehind` and the first conjunct of
`RequestsWellFormed` say it of tokens and rows; `EpochsWereDrawn` says that a new
draw is new to all of them, which keeps `Behind` through `Reseed` and
`RegisterInsert`. `RefreshOnceWhileUnexpired` needs to know that a token which was
exchanged is still refused when the second refresh commits: `ExchangedAreSpent`
says so until the purge may drop its revocation, after it has expired, and
`RefusalLasts` shows that neither a purge nor a new epoch nor a reseed undoes it
sooner. `DeadTokensStayDead` rests on the same lemma. It speaks of tokens that the
service may still accept (`Admissible`): those that would pass now, and those a
request has decoded in time and not yet asked the database about. A refused token
becomes admissible again in one way only, the purge of its revocation after its
expiry (`RefusedStep`), for a request comes to wait only with a token that decodes
(`WaitersDecoded`).

| Theorem | Module | Says |
|---|---|---|
| `TypeCorrect` | `SessionsProofs` | `Spec => []TypeOK` |
| `Invariance` | `SessionsProofs` | `Spec => []IInv` |
| `SessionsRest` | `SessionsProofs` | `Spec => []SessionRestsOnCurrentPassword` |
| `ResetTokensDie` | `SessionsProofs` | `Spec => []ResetTokensDieWithPassword` |
| `RefreshedOnce` | `SessionsProofs` | `Spec => []RefreshOnceWhileUnexpired` |
| `DeadStayDead` | `SessionsProofs` | `Spec => DeadTokensStayDead` |
| `PasswordChanges` | `SessionsProofs` | `Spec => PasswordChangeAuthorised` |
| `Refinement` | `SessionsPolicyProofs` | `Spec => ImplementsPolicy` |
| `TypeCorrect` | `SecretsProofs` | `Spec => []TypeOK` |
| `Invariance` | `SecretsProofs` | `Spec => []IInv` |
| `KeysAgree` | `SecretsProofs` | `Spec => []OneKeySet` |
| `StoresAreWhole` | `SecretsProofs` | `Spec => []StoreIsWhole` |
| `StoresAreKept` | `SecretsProofs` | `Spec => StoreIsKept` |
| `EnvFileStays` | `SecretsProofs` | `Spec => EnvFileIsKept` |
| `TypeCorrect` | `DocumentsProofs` | `Spec => []TypeOK` |
| `Invariance` | `DocumentsProofs` | `Spec => []IInv` |
| `NoOrphansEver` | `DocumentsProofs` | `Spec => []NoOrphans` |
| `ServesOnlyWithAccess` | `DocumentsProofs` | `Spec => []ServedOnlyWithAccess` |
| `CommentsAreAuthorised` | `DocumentsProofs` | `Spec => CommentsAuthorised` |
| `OwnersDecideAlways` | `DocumentsProofs` | `Spec => OwnersDecide` |
| `QuotasHoldAlways` | `DocumentsProofs` | `Spec => []QuotasHold` |
| `StoreRefinement` | `DocumentsProofs` | `Spec => ImplementsStore` |
| `TypeCorrect` | `AttachmentsProofs` | `Spec => []TypeOK` |
| `FilesInvariance` | `AttachmentsProofs` | `Spec => []FilesInv` |
| `FilesAreThere` | `AttachmentsProofs` | `Spec => []AttachmentsHaveFiles` |
| `UploadsOfEditors` | `AttachmentsProofs` | `Spec => UploadsAuthorised` |
| `OrphansExplained` | `AttachmentsProofs` | `Spec => []OrphansAreExplained` |
| `Invariance` | `AttachmentStoreProofs` | `Spec => []IInv` |
| `NobodyExceedsLimits` | `AttachmentStoreProofs` | `Spec => []QuotaHolds` |
| `StoreRefinement` | `AttachmentStoreProofs` | `Spec => ImplementsStore` |
| `TypeCorrect` | `FrontendProofs` | `Spec => []TypeOK` |
| `Invariance` | `FrontendProofs` | `Spec => []IInv` |
| `EarlierSessionsStayHidden` | `FrontendProofs` | `Spec => []NothingOfEarlierSessions` |
| `PageIsOfItsUser` | `FrontendProofs` | `Spec => []PageIsCurrentUsers` |
| `LogoutIsComplete` | `FrontendProofs` | `Spec => []LogoutLeavesNoCookie` |
| `TypeCorrect` | `StartupProofs` | `Spec => []TypeOK` |
| `Invariance` | `StartupProofs` | `Spec => []IInv` |
| `ServesWhole` | `StartupProofs` | `Spec => []ServesOnWholeSchema` |
| `PermissionsLatest` | `StartupProofs` | `Spec => []PermissionsAreTheLatest` |

Each step of `Sessions` has a lemma of its own that says which step of
`SessionPolicy` it is: a commit of a refresh is `Exchange`, a login overtaken by
a new password is `Stillborn`, a purge is not seen at all.

`OneKeySet` compares processes that started at different times, so the invariant of
`Secrets` relates each to one thing that never changes: `UsedAreOriginal` (keys in
use are the environment's and the rest from `original`). What keeps `original` the
only store there ever was is `MakersAreAlone`: whoever is between finding no store
and publishing one holds the lock (`LockIsHeld`), and there is still none. From the
same two follows that `Replace` never hits an existing store, `StoreIsKept`.

`ServedOnlyWithAccess` needs more than the two SELECTs of `can_access`: that a
document is public or the user's, or that a share is there, are facts of different
moments. `CouldIsCurrent` says that `could[r]` has whatever the user can read now;
with `NoOrphans`, a share found by the second SELECT belongs to a document that
exists, so the user can read it at that very moment, and `AdmittedCould` keeps
that until the answer. `OwnersDecide` rests on `OwnersFit`: what `is_owner` found
stays true until the write, because owners never change and ids are counted
(`IdsAreCounted`) and never used again. `QuotasHold` comes from the same counter:
an INSERT adds one id nobody owned, after the count in its transaction; the
cardinalities are those of `FiniteSetTheorems`.

That `Documents` implements `DocumentStore` uses all of the invariant. `CouldIsCurrent`
makes the abstract request the same before and after every step that changes no
table, so that the statements of `can_access` disappear; `AdmittedCould` allows the
answer; `OwnersFit` gives the commit of a deletion or of a share its owner at that
moment, and `NoOrphans` makes it change nothing once the document is gone; by
`IdsAreCounted` a new document or comment has an id that none has had. The right to
edit, and the owner's alone to publish, need no invariant: `update_document` is one
transaction.

`NothingOfEarlierSessions` needs only `CallFits`: a call of the present generation
was made by who is on the page. `PageIsCurrentUsers` and `LogoutLeavesNoCookie` are
about the cookie, which the page never looks at. `UncrossedIsExpected` says whom
cookie, calls and page are of while nothing is crossed: the user on the page, and
before a login's continuation has run, the user it will bring (`Expected`). All
steps within a session of the page go through one lemma, `SessionStep`; only
`ResumeEnter` and `ResumeLogout` change the session. The recovery of the session is
the delicate case: a login may overtake it, and must then be found in flight.

`AttachmentsHaveFiles` is about cleanups that work from a list of names read long
ago. It needs that a name only ever moves one way: drawn once (`NamesAreDrawn`), it
belongs to one upload (`UploadsAreApart`), goes from there to a row or to the queue,
from the row to the queue, and from the queue off the disk; what is queued, listed or
about to be forgotten is never attached again (`QueuedIsDetached`).
`UploadsAuthorised` rests on the lock (`ProcessFits`): the permission looked at
under it still holds at the INSERT, since shares and documents change under it too.
For `OrphansAreExplained` each step is shown to lose no file but the one its process
carries, and that only when it stops or cannot queue it; that a cleanup forgets a
name only after its file is gone (`ProcessFits`), and that the seed has queued what
it drops (`SeedFits`), is what the other steps need.

`QuotaHolds` of `Attachments` speaks of a sum of sizes, which is a fold over a set.
Three facts about such sums are all that is needed: the empty sum, a sum with one
row more, and that fewer rows are no more bytes. They are proved from the definition
of the fold by looking at a smallest set for which they would fail, since the
library's induction is out of reach. The limits then follow from `InsertsFit`: what
was counted under the lock fits the row that is going to be inserted, and no other
row comes in between. For the refinement of `AttachmentStore` three more things are
needed: the limits, that a row belongs to a document that is there
(`RowsHaveDocuments`, so that a deletion takes exactly the attachments of its
document), and that a seed has emptied the tables before it opens the service
again (`SeedEmptied`).

`ServesOnWholeSchema` holds although commands interfere with every step, because
nobody takes anything away while the service starts: `PlacesFit` says that the
seed, which alone drops, and the service exclude each other, and
`ServiceGetsFurther` that what the service has come past is still there.
`NewestIsLatest` says that the newest row of a document and user is what the owner
asked for last, before the migration and after it, and with the index it is the
only row.

Only model-checked: liveness (`QueueDrains`, `StartsEnd`, `UndisturbedStartServes`), which is
beyond the provers, and the four properties that are violated. `EnvFileIsKept`
needs of the invariant only the types: `ln` looks for `.env` and writes it in one step.

## 5. Where the code and its documents differ

* **A token refreshed twice** (`sessions_refresh`). `refresh` checks the expiry
  of its token in `load_identity` only. Two refreshes of one token are admitted;
  one commits and revokes it; the token expires; any logout or refresh purges
  expired revocations (auth.py:127); the other refresh then finds no revocation
  and an unchanged epoch (auth.py:225) and makes a second session.
  docs/02-개선내역.md:881 has exactly one of parallel uses succeed, refresh
  included. `RefreshOnceWhileUnexpired` holds, and is proved: this is the only way.
  The purge opens the same door at `load_identity`, which looks at the expiry when
  it decodes a token (auth.py:83) and asks the database later (auth.py:91): a request
  whose token is revoked, expires and loses its revocation to a purge in between is
  let in, although README.md:30 says a logout revokes the token at once. This is the
  case `DeadTokensStayDead` excepts. It is proved to be the only one, to open only
  after the token has expired, and never after a new password or a reseed.
* **A failed upload that is not cleaned up** (`attachments_orphans`). The except
  branch of `upload` registers the file for deletion by writing to the database
  that has just failed (files.py:112). If that fails too, the file stays without
  a trace, though docs/02-개선내역.md:885 says failed uploads are cleaned up.
  `OrphansAreExplained` bounds the damage: one file per such failure or per
  process stopped in the middle of an upload (which docs/03-결과보고서.md:98
  concedes).
* **A private text answered after publication** (`documents_reads`). The row is
  read before the permission is checked (documents.py:71-72). When the owner
  replaces the text and publishes the document in one PUT between the two, the
  reader gets the old text, which was never readable for him (README.md:230).
  `ServedOnlyWithAccess` holds: a user who never had access to the document gets
  nothing of it.
* **An error message for an answer that should be discarded** (`frontend_late`).
  `api` turns an answer of an earlier session into one with `ok: false`, and
  viewDoc (app.js:143) and loadAdmin (app.js:203) write "cannot be opened" or "no
  permission" for it into the page, after a logout or in the next session.
  docs/02-개선내역.md:865 and :845 say late answers are discarded. No data of the
  earlier session get there: `NothingOfEarlierSessions`.

## 6. Not modelled

* Profile fields and the API token: single UPDATEs of the user's own row by which
  nothing else is decided.
* Roles and the administrator's pages: `require_admin` and one statement. An
  administrator who is demoted between the two still has his way once, and two
  who demote each other leave none; no document promises otherwise, and what is
  left to state would repeat the guard.
* What a list of comments or shares contains. `ServedOnlyWithAccess` says that it goes
  to someone who had access since the request began; the rows are read after the
  check (comments.py:24), and may have been written after access was lost.
* Whose the cookie is once two logins of one tab overlapped, or another tab logged in
  or out: `PageIsCurrentUsers` and `LogoutLeavesNoCookie` except that (`crossed`),
  since the page never asks and nothing is promised.
* A refusal may be wrong at every single moment: when a public document is shared
  and made private between the two SELECTs of `can_access`, or the reverse, its
  "no" (or a 404) need not be true of any of them. Only answers are constrained.
* The first start of a container seeds the database if there is none; a seed that
  dies there leaves tables that the next start takes for a database in use, without
  accounts. `Startup` shows that its schema is whole, not that it has rows.
* What touches no state of the program: parsing of uploads, the URL preview, rate
  limits, CSRF and response headers, pagination, validation, formatting, logging,
  the training pages.
* Docker commands beyond who runs beside whom; backup and restore, a manual
  procedure.
* SQLite's own locking beyond the write lock, and the durability of files and of
  the database across a power failure (config.py:62 does not sync the directory
  after `os.replace`), are taken as given.

## 7. Plan

1. The composition of `DocumentStore` and `AttachmentStore` for downloads, in which
   the permission is that of the document and the file that of the attachment.
2. Documents told apart in `Frontend`, for comments that arrive under another
   document (app.js:162).
