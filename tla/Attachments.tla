---------------------------- MODULE Attachments -----------------------------
(***************************************************************************)
(* Attachments of SecureDocs: rows in SQLite, files on disk, and the       *)
(* persistent queue pending_file_deletions between them (app/files.py,     *)
(* delete_document of app/documents.py, the first half of app/seed.py).    *)
(*                                                                         *)
(* A database transaction cannot cover a file.  An upload writes the file  *)
(* before the row that names it, a deletion queues the name before the     *)
(* file goes, and every process that runs the queue (a request that        *)
(* deleted something, a worker at start, the cleanup command beside the    *)
(* service) may be stopped at any point, fail to unlink, or meet another   *)
(* doing the same.                                                         *)
(***************************************************************************)
EXTENDS Naturals, FiniteSets, FiniteSetsExt

CONSTANTS Names,           \* stored names: token_hex(16), never drawn twice
          Docs,            \* document ids
          Users,
          Workers,         \* requests in flight
          Cron,            \* the process of scripts/cleanup.sh and seed.sh
          None,
          Owner,           \* Owner[d]: owner_id, which no handler changes
          SeedDocs,        \* the ids of the documents the seed inserts
          Sizes,           \* sizes of uploaded files
          MaxAttachments,  \* MAX_ATTACHMENTS_PER_USER
          MaxBytes,        \* MAX_STORAGE_BYTES_PER_USER
          MaxStops,        \* bound: processes stopped between two steps
          MaxFaults,       \* bound: failed writes and unlinks
          MaxSeeds         \* bound: runs of the seed

Procs == Workers \cup {Cron}

Attachment == [doc : Docs, by : Users, size : Sizes]

ASSUME AttachmentsAssumption ==
  /\ Owner \in [Docs -> Users] /\ SeedDocs \subseteq Docs
  /\ Sizes \subseteq Nat \ {0}
  /\ MaxAttachments \in Nat /\ MaxBytes \in Nat
  /\ MaxStops \in Nat /\ MaxFaults \in Nat /\ MaxSeeds \in Nat
  /\ Cron \notin Workers
  /\ None \notin Attachment \cup Procs \cup Names \cup Docs

VARIABLES docs,     \* table documents: "new", "live" or "deleted" ids
          editors,  \* table shares: who has can_edit = 1
          attached, \* table attachments, by stored_name
          queue,    \* table pending_file_deletions
          disk,     \* the files of UPLOAD_FOLDER
          drawn,    \* stored names drawn so far (history)
          lock,     \* holder of SQLite's write lock over several steps
          proc,     \* the processes
          seeding,  \* the service is stopped: the seed runs, or has failed
          stops, faults, lockouts, seeds

counters == <<stops, faults, lockouts, seeds>>
vars == <<docs, editors, attached, queue, disk, drawn, lock, proc, seeding, counters>>

\* What a process keeps between two steps: the upload it carries (att under
\* name), the document to delete, the queue rows it read and has not done.
Process == [pc : {"idle", "upload", "insert", "enqueue", "delete", "list",
                  "unlink", "forget", "seed_queue", "seed_drop", "seed_fill"},
            att : Attachment \cup {None}, doc : Docs \cup {None},
            name : Names \cup {None}, todo : SUBSET Names, seed : BOOLEAN]

Idle == [pc |-> "idle", att |-> None, doc |-> None, name |-> None,
         todo |-> {}, seed |-> FALSE]

TypeOK ==
  /\ docs \in [Docs -> {"new", "live", "deleted"}]
  /\ editors \in [Docs -> SUBSET Users]
  /\ attached \in [Names -> Attachment \cup {None}]
  /\ queue \subseteq Names
  /\ disk \subseteq Names
  /\ drawn \subseteq Names
  /\ lock \in Procs \cup {None}
  /\ proc \in [Procs -> Process]
  /\ seeding \in BOOLEAN
  /\ stops \in Nat /\ faults \in Nat /\ lockouts \in Nat /\ seeds \in Nat

Init ==
  /\ docs = [d \in Docs |-> IF d \in SeedDocs THEN "live" ELSE "new"]
  /\ editors = [d \in Docs |-> {}]
  /\ attached = [n \in Names |-> None]
  /\ queue = {} /\ disk = {} /\ drawn = {}
  /\ lock = None
  /\ proc = [p \in Procs |-> Idle]
  /\ seeding = FALSE
  /\ stops = 0 /\ faults = 0 /\ lockouts = 0 /\ seeds = 0

-----------------------------------------------------------------------------
(* Helpers.                                                                *)

\* can_edit of sharing.py.
CanEdit(d, u) == docs[d] = "live" /\ (Owner[d] = u \/ u \in editors[d])

NamesOf(u) == {n \in Names : attached[n] # None /\ attached[n].by = u}

Bytes(table, names) == MapThenSumSet(LAMBDA n : table[n].size, names)
BytesOf(u) == Bytes(attached, NamesOf(u))

\* The usage check of upload.
WithinQuota(att) ==
  /\ Cardinality(NamesOf(att.by)) < MaxAttachments
  /\ BytesOf(att.by) + att.size <= MaxBytes

GoTo(p, step) == proc' = [proc EXCEPT ![p].pc = step]
Finish(p) == proc' = [proc EXCEPT ![p] = Idle]

\* A write that other writers wait for waits for them: nobody holds the lock.
Unlocked == lock = None

-----------------------------------------------------------------------------
(* Documents and shares, as far as attachments depend on them.             *)

CreateDocument(d) ==
  /\ ~seeding /\ Unlocked
  /\ docs[d] = "new"
  /\ docs' = [docs EXCEPT ![d] = "live"]
  /\ UNCHANGED <<editors, attached, queue, disk, lock, proc, seeding, drawn, counters>>

\* share_document and revoke_share; the foreign key refuses a deleted document.
SetEditors(d) ==
  /\ ~seeding /\ Unlocked
  /\ docs[d] = "live"
  /\ \E us \in SUBSET (Users \ {Owner[d]}) : editors' = [editors EXCEPT ![d] = us]
  /\ UNCHANGED <<docs, attached, queue, disk, lock, proc, seeding, drawn, counters>>

-----------------------------------------------------------------------------
(* upload.                                                                 *)

\* The permission is checked, then the content is read and parsed.
UploadCheck(p, u, d) ==
  /\ p # Cron /\ ~seeding /\ proc[p] = Idle
  /\ CanEdit(d, u)
  /\ \E s \in Sizes, n \in Names \ drawn :
       /\ drawn' = drawn \cup {n}
       /\ proc' = [proc EXCEPT ![p] =
                     [Idle EXCEPT !.pc = "upload", !.name = n,
                                  !.att = [doc |-> d, by |-> u, size |-> s]]]
  /\ UNCHANGED <<docs, editors, attached, queue, disk, lock, seeding, counters>>

\* Mutant: the quota is not looked at under the lock.
UploadStoreOverQuota(p) ==
  /\ proc[p].pc = "upload" /\ Unlocked
  /\ CanEdit(proc[p].att.doc, proc[p].att.by)
  /\ lock' = p
  /\ disk' = disk \cup {proc[p].name}
  /\ GoTo(p, "insert")
  /\ UNCHANGED <<docs, editors, attached, queue, seeding, drawn, counters>>

\* Mutant: the permission is not looked at again under the lock.
UploadStoreUnchecked(p) ==
  /\ proc[p].pc = "upload" /\ Unlocked
  /\ WithinQuota(proc[p].att)
  /\ lock' = p
  /\ disk' = disk \cup {proc[p].name}
  /\ GoTo(p, "insert")
  /\ UNCHANGED <<docs, editors, attached, queue, seeding, drawn, counters>>

\* BEGIN IMMEDIATE; permission and usage again; the file is written.  The lock
\* stays with the request.
UploadStore(p) ==
  /\ proc[p].pc = "upload" /\ Unlocked
  /\ CanEdit(proc[p].att.doc, proc[p].att.by)
  /\ WithinQuota(proc[p].att)
  /\ lock' = p
  /\ disk' = disk \cup {proc[p].name}
  /\ GoTo(p, "insert")
  /\ UNCHANGED <<docs, editors, attached, queue, seeding, drawn, counters>>

UploadRefused(p) ==
  /\ proc[p].pc = "upload" /\ Unlocked
  /\ ~(CanEdit(proc[p].att.doc, proc[p].att.by) /\ WithinQuota(proc[p].att))
  /\ Finish(p)
  /\ UNCHANGED <<docs, editors, attached, queue, disk, lock, seeding, drawn, counters>>

\* The row is inserted, if the foreign key finds the document, and the
\* transaction commits.
UploadInsert(p) ==
  /\ proc[p].pc = "insert"
  /\ docs[proc[p].att.doc] = "live"
  /\ attached' = [attached EXCEPT ![proc[p].name] = proc[p].att]
  /\ lock' = None
  /\ Finish(p)
  /\ UNCHANGED <<docs, editors, queue, disk, seeding, drawn, counters>>

\* Mutant: the transaction is committed, although the request has failed.
UploadFailCommitted(p) ==
  /\ proc[p].pc = "insert"
  /\ faults < MaxFaults /\ docs[proc[p].att.doc] = "live"
  /\ faults' = faults + 1
  /\ attached' = [attached EXCEPT ![proc[p].name] = proc[p].att]
  /\ lock' = None
  /\ GoTo(p, "enqueue")
  /\ UNCHANGED <<docs, editors, queue, disk, seeding, drawn, stops, lockouts, seeds>>

\* The file is cut short, or the INSERT or the commit fails: rollback.
UploadFail(p) ==
  /\ proc[p].pc = "insert"
  /\ faults < MaxFaults \/ docs[proc[p].att.doc] # "live"
  /\ faults' = IF docs[proc[p].att.doc] = "live" THEN faults + 1 ELSE faults
  /\ lock' = None
  /\ GoTo(p, "enqueue")
  /\ UNCHANGED <<docs, editors, attached, queue, disk, seeding, drawn, stops, lockouts, seeds>>

\* The except branch queues the file, and runs the queue.
UploadEnqueue(p) ==
  /\ proc[p].pc = "enqueue" /\ Unlocked
  /\ queue' = queue \cup {proc[p].name}
  /\ proc' = [proc EXCEPT ![p] = [Idle EXCEPT !.pc = "list"]]
  /\ UNCHANGED <<docs, editors, attached, disk, lock, seeding, drawn, counters>>

\* That INSERT fails too (the disk is full, or the lock is not to be had).
UploadEnqueueFail(p) ==
  /\ proc[p].pc = "enqueue"
  /\ faults < MaxFaults
  /\ faults' = faults + 1
  /\ lockouts' = lockouts + 1
  /\ Finish(p)
  /\ UNCHANGED <<docs, editors, attached, queue, disk, lock, seeding, drawn, stops, seeds>>

-----------------------------------------------------------------------------
(* delete_document.                                                        *)

DeleteCheck(p, d) ==
  /\ p # Cron /\ ~seeding /\ proc[p] = Idle
  /\ docs[d] = "live"
  /\ proc' = [proc EXCEPT ![p] = [Idle EXCEPT !.pc = "delete", !.doc = d]]
  /\ UNCHANGED <<docs, editors, attached, queue, disk, lock, seeding, drawn, counters>>

AttachedTo(d) == {n \in Names : attached[n] # None /\ attached[n].doc = d}

\* Mutant: the names are those of the other documents' attachments too.
DeleteCommitAllNames(p) ==
  /\ proc[p].pc = "delete" /\ Unlocked
  /\ LET d == proc[p].doc
     IN /\ queue' = queue \cup {n \in Names : attached[n] # None}
        /\ attached' = [n \in Names |-> IF n \in AttachedTo(d) THEN None ELSE attached[n]]
        /\ editors' = [editors EXCEPT ![d] = {}]
        /\ docs' = [docs EXCEPT ![d] = "deleted"]
  /\ GoTo(p, "list")
  /\ UNCHANGED <<disk, lock, seeding, drawn, counters>>

\* Mutant: the rows go, the files are not queued.
DeleteCommitUnqueued(p) ==
  /\ proc[p].pc = "delete" /\ Unlocked
  /\ LET d == proc[p].doc
     IN /\ attached' = [n \in Names |-> IF n \in AttachedTo(d) THEN None ELSE attached[n]]
        /\ editors' = [editors EXCEPT ![d] = {}]
        /\ docs' = [docs EXCEPT ![d] = "deleted"]
  /\ GoTo(p, "list")
  /\ UNCHANGED <<queue, disk, lock, seeding, drawn, counters>>

\* One transaction queues the files and removes every row of the document,
\* those an upload committed since the check included.
DeleteCommit(p) ==
  /\ proc[p].pc = "delete" /\ Unlocked
  /\ LET d == proc[p].doc
     IN /\ queue' = queue \cup AttachedTo(d)
        /\ attached' = [n \in Names |-> IF n \in AttachedTo(d) THEN None ELSE attached[n]]
        /\ editors' = [editors EXCEPT ![d] = {}]
        /\ docs' = [docs EXCEPT ![d] = "deleted"]
  /\ GoTo(p, "list")
  /\ UNCHANGED <<disk, lock, seeding, drawn, counters>>

-----------------------------------------------------------------------------
(* cleanup_deleted_files.                                                  *)

\* The cleanup command, or a worker at start (create_app).
CleanupRun(p) ==
  /\ proc[p] = Idle
  /\ proc' = [proc EXCEPT ![p] = [Idle EXCEPT !.pc = "list"]]
  /\ UNCHANGED <<docs, editors, attached, queue, disk, lock, seeding, drawn, counters>>

\* The rows are fetched once, at the beginning.
CleanupList(p) ==
  /\ proc[p].pc = "list"
  /\ proc' = [proc EXCEPT ![p].pc = "unlink", ![p].todo = queue]
  /\ UNCHANGED <<docs, editors, attached, queue, disk, lock, seeding, drawn, counters>>

\* Mutant: the row goes although the unlink failed.
CleanupUnlinkFailDropped(p, n) ==
  /\ proc[p].pc = "unlink" /\ n \in proc[p].todo \cap disk
  /\ faults < MaxFaults
  /\ faults' = faults + 1
  /\ queue' = queue \ {n}
  /\ proc' = [proc EXCEPT ![p].todo = proc[p].todo \ {n}]
  /\ UNCHANGED <<docs, editors, attached, disk, lock, seeding, drawn, stops, lockouts, seeds>>

\* A file that is not there any more counts as deleted.
CleanupUnlink(p, n) ==
  /\ proc[p].pc = "unlink" /\ n \in proc[p].todo
  /\ disk' = disk \ {n}
  /\ proc' = [proc EXCEPT ![p].pc = "forget", ![p].name = n]
  /\ UNCHANGED <<docs, editors, attached, queue, lock, seeding, drawn, counters>>

\* Any other OSError: a warning, and the row stays.
CleanupUnlinkFail(p, n) ==
  /\ proc[p].pc = "unlink" /\ n \in proc[p].todo \cap disk
  /\ faults < MaxFaults
  /\ faults' = faults + 1
  /\ proc' = [proc EXCEPT ![p].todo = proc[p].todo \ {n}]
  /\ UNCHANGED <<docs, editors, attached, queue, disk, lock, seeding, drawn, stops, lockouts, seeds>>

CleanupForget(p) ==
  /\ proc[p].pc = "forget" /\ Unlocked
  /\ queue' = queue \ {proc[p].name}
  /\ proc' = [proc EXCEPT ![p].pc = "unlink", ![p].name = None,
                          ![p].todo = proc[p].todo \ {proc[p].name}]
  /\ UNCHANGED <<docs, editors, attached, disk, lock, seeding, drawn, counters>>

\* The seed goes on where the others are done.
CleanupEnd(p) ==
  /\ proc[p].pc = "unlink" /\ proc[p].todo = {}
  /\ IF proc[p].seed THEN GoTo(p, "seed_fill") ELSE Finish(p)
  /\ UNCHANGED <<docs, editors, attached, queue, disk, lock, seeding, drawn, counters>>

-----------------------------------------------------------------------------
(* The seed, and the end of a process before its time.                     *)

\* scripts/seed.sh stops the service first; a cleanup may still be running.
\* After a seed that failed only another seed follows.
SeedStart ==
  /\ seeds < MaxSeeds
  /\ \A p \in Procs : proc[p].pc \in {"idle", "list", "unlink", "forget"}
                      /\ ~proc[p].seed
  /\ proc[Cron] = Idle
  /\ seeds' = seeds + 1
  /\ seeding' = TRUE
  /\ proc' = [proc EXCEPT ![Cron] = [Idle EXCEPT !.pc = "seed_queue", !.seed = TRUE]]
  /\ UNCHANGED <<docs, editors, attached, queue, disk, lock, drawn, stops, faults, lockouts>>

SeedQueue ==
  /\ proc[Cron].pc = "seed_queue"
  /\ queue' = queue \cup {n \in Names : attached[n] # None}
  /\ GoTo(Cron, "seed_drop")
  /\ UNCHANGED <<docs, editors, attached, disk, lock, seeding, drawn, counters>>

\* Mutant: attachments is not among the tables that are dropped.
SeedDropSparing ==
  /\ proc[Cron].pc = "seed_drop"
  /\ docs' = [d \in Docs |-> "new"]
  /\ editors' = [d \in Docs |-> {}]
  /\ GoTo(Cron, "list")
  /\ UNCHANGED <<attached, queue, disk, lock, seeding, drawn, counters>>

\* The tables are dropped, the queue is not; document ids start from 1 again.
SeedDrop ==
  /\ proc[Cron].pc = "seed_drop"
  /\ docs' = [d \in Docs |-> "new"]
  /\ editors' = [d \in Docs |-> {}]
  /\ attached' = [n \in Names |-> None]
  /\ GoTo(Cron, "list")
  /\ UNCHANGED <<queue, disk, lock, seeding, drawn, counters>>

SeedFill ==
  /\ proc[Cron].pc = "seed_fill"
  /\ docs' = [d \in Docs |-> IF d \in SeedDocs THEN "live" ELSE "new"]
  /\ seeding' = FALSE
  /\ Finish(Cron)
  /\ UNCHANGED <<editors, attached, queue, disk, lock, drawn, counters>>

\* A process is killed, or leaves by an error nobody handles; SQLite rolls
\* its transaction back.
Stop(p) ==
  /\ proc[p] # Idle
  /\ stops < MaxStops
  /\ stops' = stops + 1
  /\ lock' = IF lock = p THEN None ELSE lock
  /\ Finish(p)
  /\ UNCHANGED <<docs, editors, attached, queue, disk, seeding, drawn, faults, lockouts, seeds>>

\* The steps by which a process that is left alone comes to its end.
Progress(p) ==
  \/ UploadStore(p) \/ UploadRefused(p) \/ UploadInsert(p)
  \/ UploadEnqueue(p)
  \/ DeleteCommit(p)
  \/ CleanupList(p)
  \/ \E n \in Names : CleanupUnlink(p, n)
  \/ CleanupForget(p) \/ CleanupEnd(p)

Fault(p) ==
  \/ UploadFail(p) \/ UploadEnqueueFail(p)
  \/ \E n \in Names : CleanupUnlinkFail(p, n)
  \/ Stop(p)

SeedStep == SeedStart \/ SeedQueue \/ SeedDrop \/ SeedFill

Next ==
  \/ \E d \in Docs : CreateDocument(d) \/ SetEditors(d)
  \/ \E p \in Procs :
       \/ \E d \in Docs : DeleteCheck(p, d) \/ \E u \in Users : UploadCheck(p, u, d)
       \/ CleanupRun(p)
       \/ Progress(p)
       \/ Fault(p)
  \/ SeedStep

Spec == Init /\ [][Next]_vars

\* A process that runs goes on; the cleanup command is run again and again
\* (the operations manual has it in cron).  Faults and stops are finitely many.
Fairness ==
  /\ \A p \in Procs : WF_vars(Progress(p))
  /\ WF_vars(CleanupRun(Cron))
  /\ WF_vars(SeedQueue \/ SeedDrop \/ SeedFill)

FairSpec == Spec /\ Fairness

-----------------------------------------------------------------------------
(* Properties.                                                             *)

\* The files no row, no queue entry and no running upload knows of.
InFlight == {proc[p].name : p \in {q \in Procs : proc[q].pc \in {"insert", "enqueue"}}}
Orphans == (disk \ queue) \ (InFlight \cup {n \in Names : attached[n] # None})

\* While the service runs, every attachment a document lists has its file:
\* neither a deletion of another document, nor a failed upload, nor a cleanup
\* that works from an old list of names takes it away.
AttachmentsHaveFiles ==
  ~seeding => \A n \in Names : attached[n] # None => n \in disk

\* A file escapes the books only when a process is stopped in the middle of an
\* upload or when the queueing of a failed upload fails, one file each time.
OrphansAreExplained == Cardinality(Orphans) <= stops + lockouts

\* No interleaving of uploads takes a user over the limits.
QuotaHolds ==
  \A u \in Users : /\ Cardinality(NamesOf(u)) <= MaxAttachments
                   /\ BytesOf(u) <= MaxBytes

\* An attachment is added by a user who may edit the document at that very
\* moment, whatever was revoked or deleted while the content was parsed.
UploadsAuthorised ==
  [][\A n \in Names : attached[n] = None /\ attached'[n] # None =>
       CanEdit(attached'[n].doc, attached'[n].by)]_vars

\* A file that was queued for deletion does go, and its queue entry too,
\* through failed unlinks, stopped cleanups and cleanups that overlap.
QueueDrains == \A n \in Names : (n \in queue) ~> (n \notin queue \cup disk)

\* A file whose upload failed in the database is cleaned up: it is on the books
\* until it is gone (02, "the boundary of file and database": the failure of
\* the database in an upload cleans the file up too).
FailedUploadsAreCleanedUp == stops = 0 => Orphans = {}

-----------------------------------------------------------------------------
(* The inductive invariant.                                                *)

Uploading == {"upload", "insert", "enqueue"}

\* An upload holds the lock from the file to the row, may edit as long as it
\* does, and nobody else knows its name yet. A name that is about to be
\* forgotten has no file any more.
ProcessFits(p, x) ==
  /\ lock = p <=> x.pc = "insert"
  /\ x.name \in drawn \cup {None} /\ x.todo \subseteq drawn
  /\ x.pc \in Uploading => /\ x.name # None /\ x.att # None /\ x.todo = {}
                           /\ attached[x.name] = None /\ x.name \notin queue
                           /\ x.pc # "upload" => x.name \in disk
                           /\ x.pc = "insert" => CanEdit(x.att.doc, x.att.by)
  /\ x.pc = "delete" => x.doc # None
  /\ x.pc = "forget" => x.name # None /\ x.name \notin disk
ProcessesFit == \A p \in Procs : ProcessFits(p, proc[p])

\* A name that an upload carries is its own.
UploadsAreApart ==
  \A p, q \in Procs :
    proc[p].pc \in Uploading => /\ q # p => proc[q].name # proc[p].name
                                /\ proc[p].name \notin proc[q].todo

\* A seed under way stops the service; what it is about to drop it has queued.
SeedFits(p, x) ==
  /\ x.seed => p = Cron /\ seeding
  /\ x.pc \in {"seed_queue", "seed_drop", "seed_fill"} => x.seed
  /\ seeding => x.pc \notin Uploading \cup {"delete"}
  /\ x.pc = "seed_drop" => \A n \in disk : attached[n] # None => n \in queue
  /\ x.seed /\ x.pc \notin {"seed_queue", "seed_drop"} => \A n \in Names : attached[n] = None
SeedIsAlone == \A p \in Procs : SeedFits(p, proc[p])

\* Once queued, never attached again: a cleanup with an old list of names
\* cannot hit a file in use.
QueuedIsDetached ==
  ~seeding => \A n \in Names : attached[n] # None =>
    /\ n \notin queue
    /\ \A p \in Procs : n \notin proc[p].todo /\ (proc[p].pc = "forget" => proc[p].name # n)

NamesAreDrawn == queue \subseteq drawn /\ \A n \in Names : attached[n] # None => n \in drawn

\* Of names, files and the queue.
FilesInv ==
  /\ TypeOK /\ IsFiniteSet(disk)
  /\ NamesAreDrawn /\ ProcessesFit /\ UploadsAreApart /\ SeedIsAlone
  /\ QueuedIsDetached /\ AttachmentsHaveFiles

\* What was counted under the lock is still so when the row is inserted.
InsertsFit == \A p \in Procs : proc[p].pc = "insert" => WithinQuota(proc[p].att)

RowsAreFinite == IsFiniteSet({n \in Names : attached[n] # None})

\* The foreign keys: what hangs on a document goes with it.  A deletion under
\* way is of a document that was there.
RowsHaveDocuments ==
  ~seeding => /\ \A n \in Names : attached[n] # None => docs[attached[n].doc] = "live"
              /\ \A d \in Docs : docs[d] # "live" => editors[d] = {}
              /\ \A p \in Procs : proc[p].pc = "delete" => docs[proc[p].doc] # "new"
SeedEmptied ==
  \A p \in Procs : proc[p].seed /\ proc[p].pc \notin {"seed_queue", "seed_drop"} =>
    \A d \in Docs : editors[d] = {}

\* Of rows, limits and documents.
RowsInv == QuotaHolds /\ InsertsFit /\ RowsAreFinite /\ RowsHaveDocuments /\ SeedEmptied

IInv == FilesInv /\ RowsInv

-----------------------------------------------------------------------------
(* The refinement of AttachmentStore.                                      *)

\* What a download finds: a row and its file, while the service runs.
Downloadable(n) == ~seeding /\ attached[n] # None /\ n \in disk

VisibleDocs == IF seeding THEN [d \in Docs |-> "new"] ELSE docs
VisibleEditors == IF seeding THEN [d \in Docs |-> {}] ELSE editors
VisibleFiles == [n \in Names |-> IF Downloadable(n) THEN attached[n] ELSE None]

Store == INSTANCE AttachmentStore WITH
  open <- ~seeding, docs <- VisibleDocs, editors <- VisibleEditors, files <- VisibleFiles

\* AttachmentStore says: an attachment appears whole, by a user who may edit
\* its document then and stays within his limits, and it goes with its document
\* only, at one stroke with all the others, whatever uploads, deletions,
\* cleanups, failures and seeds overlap.
ImplementsStore == Store!Spec
=============================================================================
