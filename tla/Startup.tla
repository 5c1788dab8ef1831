------------------------------ MODULE Startup -------------------------------
(***************************************************************************)
(* How the database gets its schema: ensure_schema of app/db.py, which     *)
(* every process runs before it does anything else (create_app) and the    *)
(* seed runs once more after it has dropped the tables.                    *)
(*                                                                         *)
(* The service, the cleanup command that cron starts beside it, and the    *)
(* seed, for which scripts/seed.sh stops the service, meet in one file.    *)
(* Each CREATE TABLE, ALTER TABLE and DROP TABLE commits by itself. From   *)
(* the DELETE on, the rest of ensure_schema is one transaction: Python's   *)
(* sqlite3 begins it before the first change of rows.                      *)
(*                                                                         *)
(* Of the tables, those stand here whose contents or columns ensure_schema *)
(* changes.                                                                *)
(***************************************************************************)
EXTENDS Naturals, Sequences

CONSTANTS
  Service, Seed, \* the processes: the web service, python -m app.seed,
  Commands,      \* and runs of flask files cleanup
  Pairs,         \* a document and a user it is shared with
  Attachments,   \* rows of attachments an old version has left
  Lost,          \* those among them whose file is gone
  None,
  MaxShares,     \* bound: ids of shares
  MaxOld,        \* bound: rows of shares an old version has left
  MaxStarts,     \* bound: starts of commands
  MaxSeeds,      \* bound: runs of the seed
  MaxKills       \* bound: processes killed

Procs == {Service, Seed} \cup Commands
Ids == 1 .. MaxShares
Levels == {"view", "edit"}
ShareRow == [pair : Pairs, level : Levels]

ASSUME StartupAssumption ==
  /\ Service # Seed /\ Service \notin Commands /\ Seed \notin Commands
  /\ None \notin Procs /\ None \notin ShareRow /\ None \notin Levels
  /\ MaxShares \in Nat /\ MaxOld \in 0 .. MaxShares
  /\ MaxStarts \in Nat /\ MaxSeeds \in Nat /\ MaxKills \in Nat

\* schema.sql, in its order, and the order in which the seed drops them.
Script == <<"users", "shares", "attachments", "reset_tokens">>
Dropped == <<"shares", "attachments", "reset_tokens", "users">>
Tables == {Script[i] : i \in 1 .. 4}

\* _ADDED_COLUMNS, and the table of each.
Added == <<"token_epoch", "expires_at", "used", "size_bytes">>
Columns == {Added[i] : i \in 1 .. 4}
TableOf(c) == CASE c = "token_epoch" -> "users"
                [] c \in {"expires_at", "used"} -> "reset_tokens"
                [] c = "size_bytes" -> "attachments"
ColumnsOf(t) == {c \in Columns : TableOf(c) = t}

\* Of them the script itself creates all but the last with their tables.
Shipped == Columns \ {"size_bytes"}

VARIABLES
  tables, columns, \* the schema,
  indexed,         \* and whether shares are unique on document and user
  shares,          \* table shares by id, None where there is no row
  lastShare,       \* its AUTOINCREMENT counter
  uncounted,       \* rows of attachments whose size_bytes is 0
  lock,            \* who is in the transaction at the end of ensure_schema
  proc,            \* the processes, and how far they are
  latest,          \* history: what the owner asked for last
  starts, seeds, kills

vars == <<tables, columns, indexed, shares, lastShare, uncounted, lock, proc,
          latest, starts, seeds, kills>>
schemaVars == <<tables, columns, indexed>>
rowVars == <<shares, lastShare, uncounted, latest>>
counters == <<starts, seeds, kills>>

\* at: the number of the table or column that is next; second: the seed has
\* dropped the tables.
Idle == [pc |-> "idle", at |-> 1, second |-> FALSE]
Place == [pc : {"idle", "tables", "look", "alter", "data", "commit", "drop", "up"},
          at : 1 .. 4, second : BOOLEAN]

TypeOK ==
  /\ tables \in SUBSET Tables /\ columns \in SUBSET Columns
  /\ indexed \in BOOLEAN
  /\ shares \in [Ids -> ShareRow \cup {None}]
  /\ lastShare \in 0 .. MaxShares
  /\ uncounted \in SUBSET Attachments
  /\ lock \in Procs \cup {None}
  /\ proc \in [Procs -> Place]
  /\ latest \in [Pairs -> Levels \cup {None}]
  /\ starts \in 0 .. MaxStarts /\ seeds \in 0 .. MaxSeeds /\ kills \in 0 .. MaxKills

IsRow(i) == shares[i] # None

\* Row i is the last one of its document and user.
Newest(i) ==
  IsRow(i) /\ \A j \in Ids : j > i /\ IsRow(j) => shares[j].pair # shares[i].pair

\* No file yet, or what some version has left: without some of the tables, the
\* columns or the index, several rows for one document and user, and
\* attachments that were never counted.
Init ==
  /\ tables \in SUBSET Tables
  /\ columns \in SUBSET {c \in Columns : TableOf(c) \in tables}
  /\ lastShare \in 0 .. MaxOld
  /\ shares \in [Ids -> ShareRow \cup {None}]
  /\ \A i \in Ids : IsRow(i) => i <= lastShare
  /\ "shares" \notin tables => lastShare = 0
  /\ indexed \in {FALSE, "shares" \in tables /\ \A i \in Ids : IsRow(i) => Newest(i)}
  /\ uncounted \in SUBSET Attachments
  /\ "attachments" \notin tables => uncounted = {}
  /\ latest \in [Pairs -> Levels \cup {None}]
  /\ \A i \in Ids : Newest(i) => latest[shares[i].pair] = shares[i].level
  /\ \A q \in Pairs : latest[q] # None => \E i \in Ids : Newest(i) /\ shares[i].pair = q
  /\ lock = None
  /\ proc = [p \in Procs |-> Idle]
  /\ starts = 0 /\ seeds = 0 /\ kills = 0

-----------------------------------------------------------------------------
(* ensure_schema.  p is the process.                                       *)

Go(p, pc, at) == proc' = [proc EXCEPT ![p] = [pc |-> pc, at |-> at, second |-> proc[p].second]]

\* The loop at pc goes on, or after its fourth round to next.
Onward(p, pc, next) == IF proc[p].at < 4 THEN Go(p, pc, proc[p].at + 1) ELSE Go(p, next, 1)

Leave(p) == proc' = [proc EXCEPT ![p] = Idle]

\* The write lock is free.
Unlocked == lock = None

\* CREATE TABLE IF NOT EXISTS.
CreateTable(p) ==
  /\ proc[p].pc = "tables"
  /\ LET t == Script[proc[p].at]
     IN IF t \in tables
        THEN UNCHANGED <<tables, columns>>
        ELSE /\ Unlocked
             /\ tables' = tables \cup {t}
             /\ columns' = columns \cup (ColumnsOf(t) \cap Shipped)
  /\ Onward(p, "tables", "look")
  /\ UNCHANGED <<indexed, lock, rowVars, counters>>

\* Mutant: the look is forgotten.
LookNever(p) ==
  /\ proc[p].pc = "look"
  /\ Go(p, "alter", proc[p].at)
  /\ UNCHANGED <<schemaVars, lock, rowVars, counters>>

\* Mutant: the tables of this version are taken to have all columns.
LookAtTable(p) ==
  /\ proc[p].pc = "look"
  /\ IF TableOf(Added[proc[p].at]) \in tables
     THEN Onward(p, "look", "data")
     ELSE Go(p, "alter", proc[p].at)
  /\ UNCHANGED <<schemaVars, lock, rowVars, counters>>

\* PRAGMA table_info.
Look(p) ==
  /\ proc[p].pc = "look"
  /\ IF Added[proc[p].at] \in columns
     THEN Onward(p, "look", "data")
     ELSE Go(p, "alter", proc[p].at)
  /\ UNCHANGED <<schemaVars, lock, rowVars, counters>>

\* ALTER TABLE, for which the look may be too old (Fail).
Alter(p) ==
  /\ proc[p].pc = "alter" /\ Unlocked
  /\ LET c == Added[proc[p].at]
     IN /\ TableOf(c) \in tables /\ c \notin columns
        /\ columns' = columns \cup {c}
  /\ Onward(p, "look", "data")
  /\ UNCHANGED <<tables, indexed, lock, rowVars, counters>>

\* The DELETE takes the write lock.
BeginData(p) ==
  /\ proc[p].pc = "data" /\ Unlocked
  /\ lock' = p
  /\ Go(p, "commit", 1)
  /\ UNCHANGED <<schemaVars, rowVars, counters>>

\* The tables and the column its statements name.
Migratable == {"shares", "attachments", "reset_tokens"} \subseteq tables /\ "size_bytes" \in columns

\* After create_app the service serves, a command is soon done, the seed goes
\* on with the DROPs; after the seed's own ensure_schema it fills the tables.
Started(p) ==
  \/ p = Service /\ Go(p, "up", 1)
  \/ p = Seed /\ ~proc[p].second /\ Go(p, "drop", 1)
  \/ p = Seed /\ proc[p].second /\ Leave(p)
  \/ p \in Commands /\ Leave(p)

\* Mutant: the oldest of the requests is kept.
CommitOldest(p) ==
  /\ proc[p].pc = "commit" /\ Migratable
  /\ shares' = [i \in Ids |-> IF \E j \in Ids : j < i /\ IsRow(i) /\ IsRow(j) /\ shares[j].pair = shares[i].pair
                              THEN None ELSE shares[i]]
  /\ indexed' = TRUE
  /\ uncounted' = uncounted \cap Lost
  /\ lock' = None
  /\ Started(p)
  /\ UNCHANGED <<tables, columns, lastShare, latest, counters>>

\* Only the last row of a document and user is kept; the index; the sizes.
Commit(p) ==
  /\ proc[p].pc = "commit" /\ Migratable
  /\ shares' = [i \in Ids |-> IF Newest(i) THEN shares[i] ELSE None]
  /\ indexed' = TRUE
  /\ uncounted' = uncounted \cap Lost
  /\ lock' = None
  /\ Started(p)
  /\ UNCHANGED <<tables, columns, lastShare, latest, counters>>

\* One DROP TABLE IF EXISTS of the seed, which takes rows, columns and index
\* with it.
Drop(p) ==
  /\ proc[p].pc = "drop" /\ Unlocked
  /\ LET t == Dropped[proc[p].at]
     IN /\ tables' = tables \ {t}
        /\ columns' = columns \ ColumnsOf(t)
        /\ IF t = "shares"
           THEN /\ indexed' = FALSE /\ lastShare' = 0
                /\ shares' = [i \in Ids |-> None] /\ latest' = [q \in Pairs |-> None]
           ELSE UNCHANGED <<indexed, shares, lastShare, latest>>
        /\ uncounted' = IF t = "attachments" THEN {} ELSE uncounted
  /\ proc' = [proc EXCEPT ![p] =
       IF proc[p].at < 4 THEN [pc |-> "drop", at |-> proc[p].at + 1, second |-> FALSE]
                         ELSE [pc |-> "tables", at |-> 1, second |-> TRUE]]
  /\ UNCHANGED <<lock, counters>>

\* A statement raises, and the process ends: a column that another start has
\* added meanwhile, a table the seed has dropped meanwhile, or five seconds of
\* waiting for the lock.
Fail(p) ==
  /\ \/ /\ proc[p].pc = "alter"
        /\ Added[proc[p].at] \in columns \/ TableOf(Added[proc[p].at]) \notin tables
     \/ proc[p].pc = "commit" /\ ~Migratable
     \/ proc[p].pc = "tables" /\ Script[proc[p].at] \notin tables /\ ~Unlocked
     \/ proc[p].pc \in {"alter", "data", "drop"} /\ ~Unlocked
  /\ lock' = IF lock = p THEN None ELSE lock
  /\ Leave(p)
  /\ UNCHANGED <<schemaVars, rowVars, counters>>

-----------------------------------------------------------------------------
(* Processes start and die; the service is used.                           *)

\* An operator runs scripts/start.sh, or scripts/seed.sh starts the service
\* again after a seed that succeeded; nothing starts it by itself.  Not while the
\* seed is running.
BeginService ==
  /\ proc[Service] = Idle /\ proc[Seed] = Idle
  /\ Go(Service, "tables", 1)
  /\ UNCHANGED <<schemaVars, lock, rowVars, counters>>

\* scripts/cleanup.sh, at any time.
BeginCommand(p) ==
  /\ p \in Commands /\ proc[p] = Idle
  /\ starts < MaxStarts /\ starts' = starts + 1
  /\ Go(p, "tables", 1)
  /\ UNCHANGED <<schemaVars, lock, rowVars, seeds, kills>>

\* Mutant: the seed runs beside the service.
BeginSeedBeside ==
  /\ proc[Seed] = Idle
  /\ seeds < MaxSeeds /\ seeds' = seeds + 1
  /\ proc' = [proc EXCEPT ![Seed] = [pc |-> "tables", at |-> 1, second |-> FALSE]]
  /\ UNCHANGED <<schemaVars, lock, rowVars, starts, kills>>

\* scripts/seed.sh stops the service, wherever it is. Also the seed of the
\* container's first start, which comes before the service.
BeginSeed ==
  /\ proc[Seed] = Idle
  /\ seeds < MaxSeeds /\ seeds' = seeds + 1
  /\ proc' = [proc EXCEPT ![Service] = Idle,
                          ![Seed] = [pc |-> "tables", at |-> 1, second |-> FALSE]]
  /\ lock' = IF lock = Service THEN None ELSE lock
  /\ UNCHANGED <<schemaVars, rowVars, starts, kills>>

\* A process dies between two statements; its transaction is rolled back.
Kill(p) ==
  /\ proc[p] # Idle
  /\ kills < MaxKills /\ kills' = kills + 1
  /\ lock' = IF lock = p THEN None ELSE lock
  /\ Leave(p)
  /\ UNCHANGED <<schemaVars, rowVars, starts, seeds>>

Up == proc[Service].pc = "up"

RowsOf(q) == {i \in Ids : IsRow(i) /\ shares[i].pair = q}

\* share_document: the upsert, which raises without the index it names.
Share(q, level) ==
  /\ Up /\ Unlocked /\ indexed
  /\ \/ /\ RowsOf(q) # {}
        /\ shares' = [i \in Ids |-> IF i \in RowsOf(q) THEN [pair |-> q, level |-> level]
                                                      ELSE shares[i]]
        /\ UNCHANGED lastShare
     \/ /\ RowsOf(q) = {} /\ lastShare < MaxShares
        /\ lastShare' = lastShare + 1
        /\ shares' = [shares EXCEPT ![lastShare + 1] = [pair |-> q, level |-> level]]
  /\ latest' = [latest EXCEPT ![q] = level]
  /\ UNCHANGED <<schemaVars, uncounted, lock, proc, counters>>

\* revoke_share.
Revoke(q) ==
  /\ Up /\ Unlocked
  /\ shares' = [i \in Ids |-> IF i \in RowsOf(q) THEN None ELSE shares[i]]
  /\ latest' = [latest EXCEPT ![q] = None]
  /\ UNCHANGED <<schemaVars, lastShare, uncounted, lock, proc, counters>>

Step(p) == CreateTable(p) \/ Look(p) \/ Alter(p) \/ BeginData(p) \/ Commit(p) \/ Drop(p) \/ Fail(p)

Next ==
  \/ BeginService
  \/ BeginSeed
  \/ \E p \in Procs : BeginCommand(p) \/ Step(p) \/ Kill(p)
  \/ \E q \in Pairs : Revoke(q) \/ \E level \in Levels : Share(q, level)

Spec == Init /\ [][Next]_vars

\* A process that has been started goes on.  Whether one is started is up to
\* the operator and to cron: docker-compose.yml has no restart policy.
Fairness == \A p \in Procs : WF_vars(Step(p))

FairSpec == Spec /\ Fairness

-----------------------------------------------------------------------------
(* The inductive invariant.                                                *)

\* Only the seed drops, only the service serves, and never while a seed runs.
PlacesFit ==
  /\ proc[Service] # Idle => proc[Seed] = Idle
  /\ \A p \in Procs : /\ proc[p].pc = "drop" \/ proc[p].second => p = Seed
                      /\ proc[p].pc = "up" => p = Service

LockIsHeld == \A p \in Procs : (proc[p].pc = "commit") = (lock = p)

\* What the service has come past stays, for nobody drops it.
ServiceGetsFurther ==
  LET pc == proc[Service].pc
      at == proc[Service].at
  IN /\ pc = "tables" => \A i \in 1 .. 4 : i < at => Script[i] \in tables
     /\ pc \in {"look", "alter", "data", "commit", "up"} => tables = Tables
     /\ pc \in {"look", "alter"} => \A i \in 1 .. 4 : i < at => Added[i] \in columns
     /\ pc \in {"data", "commit", "up"} => columns = Columns
     /\ pc = "up" => indexed /\ uncounted \subseteq Lost

\* The newest row of each document and user is what the owner asked for last.
NewestIsLatest ==
  /\ \A i \in Ids : IsRow(i) => i <= lastShare
  /\ indexed => \A i \in Ids : IsRow(i) => Newest(i)
  /\ \A i \in Ids : Newest(i) => latest[shares[i].pair] = shares[i].level
  /\ \A q \in Pairs : latest[q] # None => \E i \in Ids : Newest(i) /\ shares[i].pair = q

IInv == TypeOK /\ PlacesFit /\ LockIsHeld /\ ServiceGetsFurther /\ NewestIsLatest

-----------------------------------------------------------------------------
(* Properties.                                                             *)

\* The service never serves on a schema that lacks a table, a column or the
\* index its upsert of shares needs, nor with attachments that quotas do not
\* count, whatever commands start, fail or die beside it.
ServesOnWholeSchema ==
  Up => /\ tables = Tables /\ columns = Columns /\ indexed
        /\ uncounted \subseteq Lost

\* What can_access and can_edit find in shares is what the owner asked for
\* last (docs/02, S-04: an older row must not outlive a demotion).
PermissionsAreTheLatest ==
  Up => \A q \in Pairs :
          /\ (RowsOf(q) # {}) = (latest[q] # None)
          /\ (\E i \in RowsOf(q) : shares[i].level = "edit") = (latest[q] = "edit")

\* The service is the only process there is.
Alone == \A p \in Procs \ {Service} : proc[p] = Idle

\* Starts that get in each other's way fail, or die halfway, but none of them
\* leaves a database that stands in the way of the next: a start of the service
\* that nobody disturbs, by another process or a kill, comes up.
UndisturbedStartServes ==
  \A k \in 0 .. MaxKills :
    (proc[Service] = [Idle EXCEPT !.pc = "tables"] /\ Alone /\ kills = k)
      ~> (Up \/ ~Alone \/ kills # k)
=============================================================================
