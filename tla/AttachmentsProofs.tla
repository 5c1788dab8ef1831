------------------------- MODULE AttachmentsProofs --------------------------
(***************************************************************************)
(* What Attachments promises, for any number of documents, users, names,   *)
(* processes, faults, stops and seeds.                                     *)
(*                                                                         *)
(* A name is drawn once (NamesAreDrawn, UploadsAreApart), and from then on *)
(* only moves: from an upload to its row or to the queue, from the row to  *)
(* the queue, and from there off the disk (QueuedIsDetached).  That is why *)
(* a cleanup may work from a list of names that is old.                    *)
(***************************************************************************)
EXTENDS Attachments, FiniteSetTheorems, TLAPS

-----------------------------------------------------------------------------
(* How processes move.                                                     *)

LEMMA IdleFacts ==
  /\ Idle \in Process /\ Idle.pc = "idle" /\ Idle.name = None /\ Idle.todo = {}
  /\ Idle.seed = FALSE
  BY DEF Idle, Process

LEMMA ProcessFields ==
  ASSUME NEW x \in Process
  PROVE  /\ x.att \in Attachment \cup {None} /\ x.doc \in Docs \cup {None}
         /\ x.name \in Names \cup {None} /\ x.todo \subseteq Names /\ x.seed \in BOOLEAN
  BY DEF Process

\* Process p goes to pc and keeps what it has.
LEMMA GoToFacts ==
  ASSUME FilesInv, NEW p \in Procs,
         NEW pc \in {"insert", "enqueue", "list", "seed_drop", "seed_fill"}, GoTo(p, pc)
  PROVE  \E x \in Process :
           /\ proc' = [proc EXCEPT ![p] = x]
           /\ x.pc = pc /\ x.att = proc[p].att /\ x.name = proc[p].name
           /\ x.todo = proc[p].todo /\ x.seed = proc[p].seed
<1> DEFINE x == [proc[p] EXCEPT !.pc = pc]
<1>1. proc[p] \in Process
  BY DEF FilesInv, TypeOK
<1>2. /\ x \in Process /\ x.pc = pc /\ x.att = proc[p].att /\ x.name = proc[p].name
      /\ x.todo = proc[p].todo /\ x.seed = proc[p].seed
  BY <1>1 DEF Process
<1>3. proc' = [proc EXCEPT ![p] = x]
  BY DEF GoTo
<1>4. QED
  BY <1>2, <1>3

\* A step of process p that leaves seeding as it is: what is to be shown of p
\* alone, and of the tables.
LEMMA ProcessStep ==
  ASSUME FilesInv, NEW p \in Procs, NEW x \in Process, proc' = [proc EXCEPT ![p] = x],
         UNCHANGED seeding,
         \* the tables
         docs' \in [Docs -> {"new", "live", "deleted"}], editors' \in [Docs -> SUBSET Users],
         attached' \in [Names -> Attachment \cup {None}],
         queue' \subseteq Names, disk' \subseteq Names, IsFiniteSet(disk'),
         drawn' \subseteq Names, drawn \subseteq drawn', lock' \in Procs \cup {None},
         stops' \in Nat, faults' \in Nat, lockouts' \in Nat, seeds' \in Nat,
         NamesAreDrawn', AttachmentsHaveFiles',
         ~seeding => \A n \in Names : attached'[n] # None => n \notin queue',
         \* what others rely on
         lock = None \/ UNCHANGED <<docs, editors>>,
         \A q \in Procs : q # p => (lock' = q <=> lock = q),
         \A n \in Names : attached'[n] # None =>
                            attached[n] # None \/ (proc[p].pc = "insert" /\ n = proc[p].name),
         \A n \in queue' : \/ n \in queue \/ attached[n] # None
                           \/ proc[p].pc = "enqueue" /\ n = proc[p].name,
         \A n \in queue : n \in queue' \/ n \notin disk',
         \A n \in disk : n \in disk' \/ n \in proc[p].todo,
         \A n \in disk' : n \in disk \/ (proc[p].pc = "upload" /\ n = proc[p].name),
         \* where p is now
         ProcessFits(p, x)', SeedFits(p, x)',
         x.todo \subseteq proc[p].todo \cup queue,
         x.name \in {None, proc[p].name} \cup proc[p].todo \cup (Names \ drawn),
         x.pc \in Uploading => /\ x.todo = {}
                               /\ \/ proc[p].pc \in Uploading /\ x.name = proc[p].name
                                  \/ x.name \in Names \ drawn,
         x.pc = "forget" => x.name \in proc[p].todo,
         proc[p].pc = "insert" => x.todo = {}
  PROVE  FilesInv'
<1>1. proc' \in [Procs -> Process] /\ proc'[p] = x /\ \A q \in Procs : q # p => proc'[q] = proc[q]
  BY DEF FilesInv, TypeOK
<1>2. TypeOK'
  BY <1>1 DEF FilesInv, TypeOK
<1>3. ProcessesFit'
  <2>1. SUFFICES ASSUME NEW q \in Procs, q # p PROVE ProcessFits(q, proc[q])'
    BY <1>1 DEF ProcessesFit, ProcessFits
  <2>2. ProcessFits(q, proc[q]) /\ ProcessFits(p, proc[p])
    BY DEF FilesInv, ProcessesFit
  <2>3. proc'[q] = proc[q] /\ proc[q] \in Process /\ proc[p] \in Process
    BY <1>1, <2>1 DEF FilesInv, TypeOK
  <2>4. proc[q].pc \in Uploading =>
          /\ proc[q].name \in Names
          /\ attached'[proc[q].name] = None /\ proc[q].name \notin queue'
          /\ proc[q].name \in disk => proc[q].name \in disk'
    BY <2>1, <2>2, <2>3, ProcessFields DEF ProcessFits, FilesInv, UploadsAreApart
  <2>5. proc[q].pc = "insert" => CanEdit(proc[q].att.doc, proc[q].att.by)'
    BY <2>2, <2>3, AttachmentsAssumption DEF ProcessFits, CanEdit, Uploading
  <2>6. proc[q].pc = "forget" => proc[q].name \notin disk'
    BY <2>1, <2>2 DEF ProcessFits, FilesInv, UploadsAreApart, Uploading
  <2>7. lock' = q <=> proc[q].pc = "insert"
    BY <2>1, <2>2 DEF ProcessFits
  <2>8. QED
    BY <2>2, <2>3, <2>4, <2>5, <2>6, <2>7 DEF ProcessFits
<1>4. UploadsAreApart'
  <2>1. SUFFICES ASSUME NEW q \in Procs, NEW r \in Procs, proc'[q].pc \in Uploading
                 PROVE  /\ r # q => proc'[r].name # proc'[q].name
                        /\ proc'[q].name \notin proc'[r].todo
    BY DEF UploadsAreApart
  <2>2. /\ \A s \in Procs : ProcessFits(s, proc[s]) /\ proc[s] \in Process
        /\ queue \subseteq drawn
    BY DEF FilesInv, ProcessesFit, NamesAreDrawn, TypeOK
  <2>3. CASE q = p /\ proc[p].pc \in Uploading /\ x.name = proc[p].name
    BY <1>1, <2>1, <2>2, <2>3 DEF FilesInv, UploadsAreApart, ProcessFits
  <2>4. CASE q = p /\ x.name \in Names \ drawn
    BY <1>1, <2>1, <2>2, <2>4 DEF ProcessFits, FilesInv, TypeOK
  <2>5. CASE q # p /\ r = p
    <3>1. proc[q].pc \in Uploading /\ proc'[q] = proc[q] /\ proc'[r] = x
      BY <1>1, <2>1, <2>5
    <3>2. /\ proc[q].name # None /\ proc[q].name \in drawn /\ proc[q].name \notin queue
          /\ proc[q].name # proc[p].name /\ proc[q].name \notin proc[p].todo
      BY <2>2, <2>5, <3>1 DEF ProcessFits, FilesInv, UploadsAreApart
    <3>3. QED
      BY <3>1, <3>2
  <2>6. CASE q # p /\ r # p
    BY <1>1, <2>1, <2>6 DEF FilesInv, UploadsAreApart
  <2>7. QED
    BY <1>1, <2>1, <2>3, <2>4, <2>5, <2>6
<1>5. SeedIsAlone'
  <2>1. SUFFICES ASSUME NEW q \in Procs, q # p PROVE SeedFits(q, proc[q])'
    BY <1>1 DEF SeedIsAlone, SeedFits
  <2>2. SeedFits(q, proc[q]) /\ SeedFits(p, proc[p])
    BY DEF FilesInv, SeedIsAlone
  <2>3. proc'[q] = proc[q]
    BY <1>1, <2>1
  <2>4. seeding => \A n \in Names : attached'[n] # None => attached[n] # None
    BY <2>2 DEF SeedFits, Uploading
  <2>5. seeding => disk' \subseteq disk
    BY <2>2 DEF SeedFits, Uploading
  <2>6. proc[q].pc = "seed_drop" => seeding
    BY <2>2 DEF SeedFits
  <2>7. QED
    BY <2>2, <2>3, <2>4, <2>5, <2>6 DEF SeedFits
<1>6. QueuedIsDetached'
  <2>1. SUFFICES ASSUME ~seeding, NEW n \in Names, attached'[n] # None, NEW q \in Procs
                 PROVE  n \notin proc'[q].todo /\ (proc'[q].pc = "forget" => proc'[q].name # n)
    BY DEF QueuedIsDetached
  <2>2. CASE attached[n] # None
    <3>1. /\ n \notin queue
          /\ \A r \in Procs : n \notin proc[r].todo /\ (proc[r].pc = "forget" => proc[r].name # n)
      BY <2>1, <2>2 DEF FilesInv, QueuedIsDetached
    <3>2. QED
      BY <1>1, <3>1
  <2>3. CASE proc[p].pc = "insert" /\ n = proc[p].name
    <3>1. \A r \in Procs : n \notin proc[r].todo /\ (r # p => proc[r].name # n)
      BY <2>3 DEF FilesInv, UploadsAreApart, Uploading
    <3>2. QED
      BY <1>1, <2>3, <3>1
  <2>4. QED
    BY <2>1, <2>2, <2>3
<1>7. QED
  BY <1>2, <1>3, <1>4, <1>5, <1>6 DEF FilesInv

Counted == stops \in Nat /\ faults \in Nat /\ lockouts \in Nat /\ seeds \in Nat

\* A step of process p that touches no table and leaves p without an upload.
LEMMA MoveStep ==
  ASSUME FilesInv, NEW p \in Procs, NEW x \in Process, proc' = [proc EXCEPT ![p] = x],
         UNCHANGED <<docs, editors, attached, queue, disk, seeding, drawn>>, Counted',
         lock' = (IF lock = p THEN None ELSE lock),
         SeedFits(p, x)',
         x.pc \in {"idle", "delete", "list", "unlink", "seed_fill"}, x.pc = "delete" => x.doc # None,
         x.todo \subseteq proc[p].todo \cup queue, x.name \in {None, proc[p].name},
         proc[p].pc = "insert" => x.todo = {}
  PROVE  FilesInv'
<1>1. NamesAreDrawn' /\ AttachmentsHaveFiles'
  BY DEF FilesInv, NamesAreDrawn, AttachmentsHaveFiles
<1>2. ~seeding => \A n \in Names : attached'[n] # None => n \notin queue'
  BY DEF FilesInv, QueuedIsDetached
<1>3. x.todo \subseteq drawn /\ x.name \in drawn \cup {None}
  BY DEF FilesInv, NamesAreDrawn, ProcessesFit, ProcessFits
<1>4. lock' \in Procs \cup {None} /\ lock' # p /\ \A q \in Procs : q # p => (lock' = q <=> lock = q)
  BY AttachmentsAssumption DEF FilesInv, TypeOK
<1>5. ProcessFits(p, x)'
  BY <1>3, <1>4 DEF ProcessFits, Uploading
<1>6. QED
  BY <1>1, <1>2, <1>4, <1>5, ProcessStep DEF FilesInv, TypeOK, Counted, Uploading

\* What the counters are after a step.
LEMMA Counts ==
  ASSUME FilesInv,
         /\ stops' = stops \/ stops' = stops + 1
         /\ faults' = faults \/ faults' = faults + 1
         /\ lockouts' = lockouts \/ lockouts' = lockouts + 1
         /\ seeds' = seeds \/ seeds' = seeds + 1
  PROVE  Counted'
  BY DEF FilesInv, TypeOK, Counted

\* Process p ends, with or without the lock.
LEMMA EndStep ==
  ASSUME FilesInv, NEW p \in Procs, Finish(p), Counted',
         UNCHANGED <<docs, editors, attached, queue, disk, seeding, drawn>>,
         lock' = (IF lock = p THEN None ELSE lock)
  PROVE  FilesInv'
<1>1. PICK x \in Process : x = Idle
  BY IdleFacts
<1>2. proc' = [proc EXCEPT ![p] = x]
  BY <1>1 DEF Finish
<1>3. SeedFits(p, x)'
  BY <1>1, IdleFacts DEF SeedFits, Uploading
<1>4. QED
  BY <1>1, <1>2, <1>3, IdleFacts, MoveStep

\* Process p starts something, with Idle but for pc and perhaps doc.
LEMMA BeginStep ==
  ASSUME FilesInv, NEW p \in Procs, proc[p] = Idle, NEW x \in Process, proc' = [proc EXCEPT ![p] = x],
         x.pc \in {"list", "delete"}, x.pc = "delete" => x.doc # None /\ ~seeding,
         x.todo = {}, x.name = None, x.seed = FALSE,
         UNCHANGED <<docs, editors, attached, queue, disk, lock, seeding, drawn, counters>>
  PROVE  FilesInv'
<1>1. Counted'
  BY DEF counters, FilesInv, TypeOK, Counted
<1>2. SeedFits(p, x)'
  BY DEF SeedFits, Uploading
<1>3. lock # p
  BY IdleFacts DEF FilesInv, ProcessesFit, ProcessFits
<1>4. QED
  BY <1>1, <1>2, <1>3, MoveStep

-----------------------------------------------------------------------------
(* The steps.                                                              *)

LEMMA InvDeleteCheck ==
  ASSUME FilesInv, NEW p \in Procs, NEW d \in Docs, DeleteCheck(p, d) PROVE FilesInv'
<1>1. [Idle EXCEPT !.pc = "delete", !.doc = d] \in Process
  BY DEF Idle, Process
<1>2. PICK x \in Process : x = [Idle EXCEPT !.pc = "delete", !.doc = d]
  BY <1>1
<1>3. x.pc = "delete" /\ x.doc = d /\ x.todo = {} /\ x.name = None /\ x.seed = FALSE
  BY <1>2 DEF Idle
<1>4. QED
  BY <1>2, <1>3, BeginStep, AttachmentsAssumption DEF DeleteCheck

LEMMA InvCleanupRun ==
  ASSUME FilesInv, NEW p \in Procs, CleanupRun(p) PROVE FilesInv'
<1>1. [Idle EXCEPT !.pc = "list"] \in Process
  BY DEF Idle, Process
<1>2. PICK x \in Process : x = [Idle EXCEPT !.pc = "list"]
  BY <1>1
<1>3. x.pc = "list" /\ x.todo = {} /\ x.name = None /\ x.seed = FALSE
  BY <1>2 DEF Idle
<1>4. QED
  BY <1>2, <1>3, BeginStep DEF CleanupRun

LEMMA InvCleanupList ==
  ASSUME FilesInv, NEW p \in Procs, CleanupList(p) PROVE FilesInv'
<1>1. proc[p] \in Process /\ queue \subseteq Names
  BY DEF FilesInv, TypeOK
<1>2. [proc[p] EXCEPT !.pc = "unlink", !.todo = queue] \in Process
  BY <1>1 DEF Process
<1>3. PICK x \in Process : x = [proc[p] EXCEPT !.pc = "unlink", !.todo = queue]
  BY <1>2
<1>4. x.pc = "unlink" /\ x.todo = queue /\ x.name = proc[p].name /\ x.seed = proc[p].seed
  BY <1>1, <1>3 DEF Process
<1>5. proc' = [proc EXCEPT ![p] = x] /\ Counted'
  BY <1>1, <1>3 DEF CleanupList, counters, FilesInv, TypeOK, Counted
<1>6. SeedFits(p, x)'
  BY <1>4 DEF CleanupList, SeedFits, Uploading, FilesInv, SeedIsAlone
<1>7. lock # p
  BY DEF CleanupList, FilesInv, ProcessesFit, ProcessFits
<1>8. QED
  BY <1>4, <1>5, <1>6, <1>7, MoveStep DEF CleanupList

LEMMA InvCleanupUnlinkFail ==
  ASSUME FilesInv, NEW p \in Procs, NEW n \in Names, CleanupUnlinkFail(p, n) PROVE FilesInv'
<1>1. proc[p] \in Process
  BY DEF FilesInv, TypeOK
<1>2. [proc[p] EXCEPT !.todo = proc[p].todo \ {n}] \in Process
  BY <1>1 DEF Process
<1>3. PICK x \in Process : x = [proc[p] EXCEPT !.todo = proc[p].todo \ {n}]
  BY <1>2
<1>4. /\ x.pc = "unlink" /\ x.todo = proc[p].todo \ {n} /\ x.name = proc[p].name
      /\ x.seed = proc[p].seed
  BY <1>1, <1>3 DEF Process, CleanupUnlinkFail
<1>5. proc' = [proc EXCEPT ![p] = x] /\ Counted'
  BY <1>1, <1>3, Counts DEF CleanupUnlinkFail
<1>6. SeedFits(p, x)'
  BY <1>4 DEF CleanupUnlinkFail, SeedFits, Uploading, FilesInv, SeedIsAlone
<1>7. lock # p
  BY DEF CleanupUnlinkFail, FilesInv, ProcessesFit, ProcessFits
<1>8. QED
  BY <1>4, <1>5, <1>6, <1>7, MoveStep DEF CleanupUnlinkFail

LEMMA InvCleanupEnd ==
  ASSUME FilesInv, NEW p \in Procs, CleanupEnd(p) PROVE FilesInv'
<1>1. lock # p /\ Counted'
  BY DEF CleanupEnd, FilesInv, ProcessesFit, ProcessFits, TypeOK, counters, Counted
<1>2. CASE proc[p].seed
  <2>1. PICK x \in Process :
          /\ proc' = [proc EXCEPT ![p] = x]
          /\ x.pc = "seed_fill" /\ x.att = proc[p].att /\ x.name = proc[p].name
          /\ x.todo = proc[p].todo /\ x.seed = proc[p].seed
    BY <1>2, GoToFacts DEF CleanupEnd
  <2>2. SeedFits(p, x)'
    BY <1>2, <2>1 DEF CleanupEnd, SeedFits, Uploading, FilesInv, SeedIsAlone
  <2>3. QED
    BY <1>1, <2>1, <2>2, MoveStep DEF CleanupEnd
<1>3. CASE ~proc[p].seed
  BY <1>1, <1>3, EndStep DEF CleanupEnd
<1>4. QED
  BY <1>2, <1>3

LEMMA InvUploadRefused ==
  ASSUME FilesInv, NEW p \in Procs, UploadRefused(p) PROVE FilesInv'
<1>1. lock # p /\ Counted'
  BY DEF UploadRefused, FilesInv, ProcessesFit, ProcessFits, TypeOK, counters, Counted
<1>2. QED
  BY <1>1, EndStep DEF UploadRefused

LEMMA InvUploadEnqueueFail ==
  ASSUME FilesInv, NEW p \in Procs, UploadEnqueueFail(p) PROVE FilesInv'
<1>1. lock # p /\ Counted'
  BY Counts DEF UploadEnqueueFail, FilesInv, ProcessesFit, ProcessFits
<1>2. QED
  BY <1>1, EndStep DEF UploadEnqueueFail

LEMMA InvStop ==
  ASSUME FilesInv, NEW p \in Procs, Stop(p) PROVE FilesInv'
  BY Counts, EndStep DEF Stop

LEMMA InvUploadCheck ==
  ASSUME FilesInv, NEW p \in Procs, NEW u \in Users, NEW d \in Docs, UploadCheck(p, u, d)
  PROVE  FilesInv'
<1>1. PICK size \in Sizes, n \in Names \ drawn :
        /\ drawn' = drawn \cup {n}
        /\ proc' = [proc EXCEPT ![p] = [Idle EXCEPT !.pc = "upload", !.name = n,
                                                   !.att = [doc |-> d, by |-> u, size |-> size]]]
  BY DEF UploadCheck
<1>2. PICK a \in Attachment : a = [doc |-> d, by |-> u, size |-> size]
  BY DEF Attachment
<1>3. [Idle EXCEPT !.pc = "upload", !.name = n, !.att = a] \in Process
  BY <1>1, <1>2 DEF Idle, Process
<1>4. PICK x \in Process : x = [Idle EXCEPT !.pc = "upload", !.name = n, !.att = a]
  BY <1>3
<1>5. /\ x.pc = "upload" /\ x.name = n /\ x.att = a /\ x.todo = {} /\ x.seed = FALSE
      /\ n # None /\ a # None
  BY <1>4, AttachmentsAssumption DEF Idle
<1>6. /\ proc' = [proc EXCEPT ![p] = x] /\ proc[p] = Idle /\ ~seeding
      /\ UNCHANGED <<docs, editors, attached, queue, disk, lock, seeding, counters>>
  BY <1>1, <1>2, <1>4 DEF UploadCheck
<1>7. drawn' \subseteq Names /\ drawn \subseteq drawn' /\ n \in drawn' /\ n \notin drawn
  BY <1>1 DEF FilesInv, TypeOK
<1>8. NamesAreDrawn' /\ AttachmentsHaveFiles'
  BY <1>6, <1>7 DEF FilesInv, NamesAreDrawn, AttachmentsHaveFiles
<1>9. ~seeding => \A m \in Names : attached'[m] # None => m \notin queue'
  BY <1>6 DEF FilesInv, QueuedIsDetached
<1>10. attached'[n] = None /\ n \notin queue'
  BY <1>6, <1>7, <1>1 DEF FilesInv, NamesAreDrawn
<1>11. lock # p
  BY <1>6, IdleFacts DEF FilesInv, ProcessesFit, ProcessFits
<1>12. ProcessFits(p, x)'
  BY <1>5, <1>6, <1>7, <1>10, <1>11 DEF ProcessFits
<1>13. SeedFits(p, x)'
  BY <1>5, <1>6 DEF SeedFits
<1>14. stops' \in Nat /\ faults' \in Nat /\ lockouts' \in Nat /\ seeds' \in Nat
  BY <1>6 DEF counters, FilesInv, TypeOK
<1>15. QED
  BY <1>1, <1>5, <1>6, <1>7, <1>8, <1>9, <1>12, <1>13, <1>14, IdleFacts, ProcessStep
  DEF FilesInv, TypeOK

LEMMA InvUploadStore ==
  ASSUME FilesInv, NEW p \in Procs, UploadStore(p) PROVE FilesInv'
<1>1. /\ proc[p].pc = "upload" /\ lock = None /\ CanEdit(proc[p].att.doc, proc[p].att.by)
      /\ lock' = p /\ disk' = disk \cup {proc[p].name} /\ GoTo(p, "insert")
      /\ UNCHANGED <<docs, editors, attached, queue, seeding, drawn, counters>>
  BY DEF UploadStore, Unlocked
<1>2. PICK x \in Process :
        /\ proc' = [proc EXCEPT ![p] = x]
        /\ x.pc = "insert" /\ x.att = proc[p].att /\ x.name = proc[p].name
        /\ x.todo = proc[p].todo /\ x.seed = proc[p].seed
  BY <1>1, GoToFacts
<1>3. ProcessFits(p, proc[p]) /\ SeedFits(p, proc[p]) /\ proc[p] \in Process
  BY DEF FilesInv, ProcessesFit, SeedIsAlone, TypeOK
<1>4. x.name \in Names
  BY <1>1, <1>2, <1>3, ProcessFields DEF ProcessFits, Uploading
<1>5. disk' \subseteq Names /\ IsFiniteSet(disk')
  BY <1>1, <1>2, <1>4, FS_AddElement DEF FilesInv, TypeOK
<1>6. NamesAreDrawn' /\ AttachmentsHaveFiles'
  BY <1>1 DEF FilesInv, NamesAreDrawn, AttachmentsHaveFiles
<1>7. ~seeding => \A m \in Names : attached'[m] # None => m \notin queue'
  BY <1>1 DEF FilesInv, QueuedIsDetached
<1>8. CanEdit(x.att.doc, x.att.by)'
  BY <1>1, <1>2 DEF CanEdit
<1>9. ProcessFits(p, x)'
  BY <1>1, <1>2, <1>3, <1>8 DEF ProcessFits, Uploading
<1>10. SeedFits(p, x)'
  BY <1>1, <1>2, <1>3 DEF SeedFits, Uploading
<1>11. proc[p].todo = {} /\ proc[p].pc \in Uploading /\ proc[p].pc # "insert"
  BY <1>1, <1>3 DEF Uploading, ProcessFits
<1>12. stops' \in Nat /\ faults' \in Nat /\ lockouts' \in Nat /\ seeds' \in Nat
  BY <1>1 DEF counters, FilesInv, TypeOK
<1>13. /\ \A q \in Procs : q # p => (lock' = q <=> lock = q)
       /\ \A n \in disk : n \in disk'
       /\ \A n \in disk' : n \in disk \/ n = proc[p].name
  BY <1>1, AttachmentsAssumption
<1>14. QED
  BY <1>1, <1>2, <1>5, <1>6, <1>7, <1>9, <1>10, <1>11, <1>12, <1>13, ProcessStep
  DEF FilesInv, TypeOK

\* Who holds the lock inserts, and nobody else does.
LEMMA InsertFacts ==
  ASSUME FilesInv, NEW p \in Procs, proc[p].pc = "insert"
  PROVE  /\ lock = p /\ ~seeding /\ p # None
         /\ proc[p].name \in Names /\ proc[p].name \in drawn /\ proc[p].name \in disk
         /\ proc[p].name \notin queue /\ attached[proc[p].name] = None
         /\ proc[p].att \in Attachment /\ proc[p].att # None /\ proc[p].todo = {}
         /\ CanEdit(proc[p].att.doc, proc[p].att.by)
<1>1. ProcessFits(p, proc[p]) /\ SeedFits(p, proc[p]) /\ proc[p] \in Process
  BY DEF FilesInv, ProcessesFit, SeedIsAlone, TypeOK
<1>2. QED
  BY <1>1, ProcessFields, AttachmentsAssumption DEF ProcessFits, SeedFits, Uploading

LEMMA InvUploadInsert ==
  ASSUME FilesInv, NEW p \in Procs, UploadInsert(p) PROVE FilesInv'
<1>1. /\ proc[p].pc = "insert" /\ attached' = [attached EXCEPT ![proc[p].name] = proc[p].att]
      /\ lock' = None /\ Finish(p)
      /\ UNCHANGED <<docs, editors, queue, disk, seeding, drawn, counters>>
  BY DEF UploadInsert
<1>2. PICK x \in Process : x = Idle
  BY IdleFacts
<1>3. proc' = [proc EXCEPT ![p] = x]
  BY <1>1, <1>2 DEF Finish
<1>4. /\ attached' \in [Names -> Attachment \cup {None}]
      /\ \A n \in Names : n # proc[p].name => attached'[n] = attached[n]
  BY <1>1, InsertFacts DEF FilesInv, TypeOK
<1>5. NamesAreDrawn'
  BY <1>1, <1>4, InsertFacts DEF FilesInv, NamesAreDrawn
<1>6. AttachmentsHaveFiles'
  BY <1>1, <1>4, InsertFacts DEF FilesInv, AttachmentsHaveFiles
<1>7. ~seeding => \A n \in Names : attached'[n] # None => n \notin queue'
  BY <1>1, <1>4, InsertFacts DEF FilesInv, QueuedIsDetached
<1>8. ProcessFits(p, x)' /\ SeedFits(p, x)'
  BY <1>1, <1>2, IdleFacts, InsertFacts DEF ProcessFits, SeedFits, Uploading
<1>9. stops' \in Nat /\ faults' \in Nat /\ lockouts' \in Nat /\ seeds' \in Nat
  BY <1>1 DEF counters, FilesInv, TypeOK
<1>10. /\ \A q \in Procs : q # p => (lock' = q <=> lock = q)
       /\ \A n \in Names : attached'[n] # None => attached[n] # None \/ n = proc[p].name
  BY <1>1, <1>4, InsertFacts, AttachmentsAssumption
<1>11. QED
  BY <1>1, <1>2, <1>3, <1>4, <1>5, <1>6, <1>7, <1>8, <1>9, <1>10, IdleFacts, ProcessStep
  DEF FilesInv, TypeOK, Uploading

LEMMA InvUploadFail ==
  ASSUME FilesInv, NEW p \in Procs, UploadFail(p) PROVE FilesInv'
<1>1. /\ proc[p].pc = "insert" /\ lock' = None /\ GoTo(p, "enqueue")
      /\ UNCHANGED <<docs, editors, attached, queue, disk, seeding, drawn, stops, lockouts, seeds>>
      /\ faults' = faults + 1 \/ faults' = faults
  BY DEF UploadFail
<1>2. PICK x \in Process :
        /\ proc' = [proc EXCEPT ![p] = x]
        /\ x.pc = "enqueue" /\ x.att = proc[p].att /\ x.name = proc[p].name
        /\ x.todo = proc[p].todo /\ x.seed = proc[p].seed
  BY <1>1, GoToFacts
<1>3. NamesAreDrawn' /\ AttachmentsHaveFiles'
  BY <1>1 DEF FilesInv, NamesAreDrawn, AttachmentsHaveFiles
<1>4. ~seeding => \A n \in Names : attached'[n] # None => n \notin queue'
  BY <1>1 DEF FilesInv, QueuedIsDetached
<1>5. ProcessFits(p, x)'
  BY <1>1, <1>2, InsertFacts, AttachmentsAssumption DEF ProcessFits, Uploading
<1>6. SeedFits(p, x)'
  BY <1>1, <1>2, InsertFacts DEF SeedFits, FilesInv, SeedIsAlone
<1>7. Counted'
  BY <1>1, Counts
<1>8. \A q \in Procs : q # p => (lock' = q <=> lock = q)
  BY <1>1, InsertFacts, AttachmentsAssumption
<1>9. QED
  BY <1>1, <1>2, <1>3, <1>4, <1>5, <1>6, <1>7, <1>8, InsertFacts, ProcessStep
  DEF FilesInv, TypeOK, Counted, Uploading

LEMMA InvUploadEnqueue ==
  ASSUME FilesInv, NEW p \in Procs, UploadEnqueue(p) PROVE FilesInv'
<1>1. /\ proc[p].pc = "enqueue" /\ lock = None /\ queue' = queue \cup {proc[p].name}
      /\ proc' = [proc EXCEPT ![p] = [Idle EXCEPT !.pc = "list"]]
      /\ UNCHANGED <<docs, editors, attached, disk, lock, seeding, drawn, counters>>
  BY DEF UploadEnqueue, Unlocked
<1>2. [Idle EXCEPT !.pc = "list"] \in Process
  BY DEF Idle, Process
<1>3. PICK x \in Process : x = [Idle EXCEPT !.pc = "list"]
  BY <1>2
<1>4. x.pc = "list" /\ x.todo = {} /\ x.name = None /\ x.seed = FALSE
  BY <1>3 DEF Idle
<1>5. ProcessFits(p, proc[p]) /\ SeedFits(p, proc[p]) /\ proc[p] \in Process
  BY DEF FilesInv, ProcessesFit, SeedIsAlone, TypeOK
<1>6. /\ proc[p].name \in Names /\ proc[p].name \in drawn /\ attached[proc[p].name] = None
      /\ ~seeding
  BY <1>1, <1>5, ProcessFields DEF ProcessFits, SeedFits, Uploading
<1>7. NamesAreDrawn' /\ AttachmentsHaveFiles' /\ queue' \subseteq Names
  BY <1>1, <1>6 DEF FilesInv, NamesAreDrawn, AttachmentsHaveFiles, TypeOK
<1>8. ~seeding => \A n \in Names : attached'[n] # None => n \notin queue'
  BY <1>1, <1>6 DEF FilesInv, QueuedIsDetached
<1>9. ProcessFits(p, x)' /\ SeedFits(p, x)'
  BY <1>1, <1>4, AttachmentsAssumption DEF ProcessFits, SeedFits, Uploading
<1>10. stops' \in Nat /\ faults' \in Nat /\ lockouts' \in Nat /\ seeds' \in Nat
  BY <1>1 DEF counters, FilesInv, TypeOK
<1>11. QED
  BY <1>1, <1>3, <1>4, <1>7, <1>8, <1>9, <1>10, ProcessStep DEF FilesInv, TypeOK, Uploading

LEMMA InvDeleteCommit ==
  ASSUME FilesInv, NEW p \in Procs, DeleteCommit(p) PROVE FilesInv'
<1>1. PICK d : d = proc[p].doc
  OBVIOUS
<1>2. /\ proc[p].pc = "delete" /\ lock = None /\ GoTo(p, "list")
      /\ queue' = queue \cup AttachedTo(d)
      /\ attached' = [n \in Names |-> IF n \in AttachedTo(d) THEN None ELSE attached[n]]
      /\ editors' = [editors EXCEPT ![d] = {}] /\ docs' = [docs EXCEPT ![d] = "deleted"]
      /\ UNCHANGED <<disk, lock, seeding, drawn, counters>>
  BY <1>1 DEF DeleteCommit, Unlocked
<1>3. PICK x \in Process :
        /\ proc' = [proc EXCEPT ![p] = x]
        /\ x.pc = "list" /\ x.att = proc[p].att /\ x.name = proc[p].name
        /\ x.todo = proc[p].todo /\ x.seed = proc[p].seed
  BY <1>2, GoToFacts
<1>4. ProcessFits(p, proc[p]) /\ SeedFits(p, proc[p])
  BY DEF FilesInv, ProcessesFit, SeedIsAlone
<1>5. ~seeding
  BY <1>2, <1>4 DEF SeedFits
<1>6. /\ attached' \in [Names -> Attachment \cup {None}]
      /\ \A n \in Names : attached'[n] # None => attached[n] # None /\ n \notin AttachedTo(d)
      /\ \A n \in AttachedTo(d) : n \in Names /\ attached[n] # None
  BY <1>2 DEF FilesInv, TypeOK, AttachedTo
<1>7. NamesAreDrawn' /\ AttachmentsHaveFiles' /\ queue' \subseteq Names
  BY <1>2, <1>5, <1>6 DEF FilesInv, NamesAreDrawn, AttachmentsHaveFiles, TypeOK
<1>8. ~seeding => \A n \in Names : attached'[n] # None => n \notin queue'
  BY <1>2, <1>6 DEF FilesInv, QueuedIsDetached
<1>9. ProcessFits(p, x)'
  BY <1>2, <1>3, <1>4 DEF ProcessFits, Uploading
<1>10. SeedFits(p, x)'
  BY <1>2, <1>3, <1>4, <1>5 DEF SeedFits, Uploading
<1>11. docs' \in [Docs -> {"new", "live", "deleted"}] /\ editors' \in [Docs -> SUBSET Users]
  BY <1>2 DEF FilesInv, TypeOK
<1>12. stops' \in Nat /\ faults' \in Nat /\ lockouts' \in Nat /\ seeds' \in Nat
  BY <1>2 DEF counters, FilesInv, TypeOK
<1>13. QED
  BY <1>2, <1>3, <1>6, <1>7, <1>8, <1>9, <1>10, <1>11, <1>12, ProcessStep DEF FilesInv, TypeOK, Uploading

LEMMA InvCleanupUnlink ==
  ASSUME FilesInv, NEW p \in Procs, NEW n \in Names, CleanupUnlink(p, n) PROVE FilesInv'
<1>1. /\ proc[p].pc = "unlink" /\ n \in proc[p].todo /\ disk' = disk \ {n}
      /\ proc' = [proc EXCEPT ![p].pc = "forget", ![p].name = n]
      /\ UNCHANGED <<docs, editors, attached, queue, lock, seeding, drawn, counters>>
  BY DEF CleanupUnlink
<1>2. proc[p] \in Process /\ ProcessFits(p, proc[p]) /\ SeedFits(p, proc[p])
  BY DEF FilesInv, TypeOK, ProcessesFit, SeedIsAlone
<1>3. [proc[p] EXCEPT !.pc = "forget", !.name = n] \in Process
  BY <1>2 DEF Process
<1>4. PICK x \in Process : x = [proc[p] EXCEPT !.pc = "forget", !.name = n]
  BY <1>3
<1>5. /\ x.pc = "forget" /\ x.name = n /\ x.todo = proc[p].todo /\ x.seed = proc[p].seed
      /\ x.doc = proc[p].doc
  BY <1>2, <1>4 DEF Process
<1>6. proc' = [proc EXCEPT ![p] = x]
  BY <1>1, <1>2, <1>4
<1>7. NamesAreDrawn'
  BY <1>1 DEF FilesInv, NamesAreDrawn
<1>8. AttachmentsHaveFiles'
  BY <1>1 DEF FilesInv, AttachmentsHaveFiles, QueuedIsDetached
<1>9. ~seeding => \A m \in Names : attached'[m] # None => m \notin queue'
  BY <1>1 DEF FilesInv, QueuedIsDetached
<1>10. n # None /\ n \in drawn
  BY <1>1, <1>2, AttachmentsAssumption DEF ProcessFits
<1>11. ProcessFits(p, x)'
  BY <1>1, <1>2, <1>5, <1>10 DEF ProcessFits, Uploading
<1>12. SeedFits(p, x)'
  BY <1>1, <1>2, <1>5 DEF SeedFits, Uploading
<1>13. IsFiniteSet(disk')
  BY <1>1, FS_RemoveElement DEF FilesInv
<1>14. stops' \in Nat /\ faults' \in Nat /\ lockouts' \in Nat /\ seeds' \in Nat
  BY <1>1 DEF counters, FilesInv, TypeOK
<1>15. QED
  BY <1>1, <1>5, <1>6, <1>7, <1>8, <1>9, <1>11, <1>12, <1>13, <1>14, ProcessStep
  DEF FilesInv, TypeOK, Uploading

LEMMA InvCleanupForget ==
  ASSUME FilesInv, NEW p \in Procs, CleanupForget(p) PROVE FilesInv'
<1>1. /\ proc[p].pc = "forget" /\ lock = None /\ queue' = queue \ {proc[p].name}
      /\ proc' = [proc EXCEPT ![p].pc = "unlink", ![p].name = None,
                              ![p].todo = proc[p].todo \ {proc[p].name}]
      /\ UNCHANGED <<docs, editors, attached, disk, lock, seeding, drawn, counters>>
  BY DEF CleanupForget, Unlocked
<1>2. proc[p] \in Process /\ ProcessFits(p, proc[p]) /\ SeedFits(p, proc[p])
  BY DEF FilesInv, TypeOK, ProcessesFit, SeedIsAlone
<1>3. [proc[p] EXCEPT !.pc = "unlink", !.name = None, !.todo = proc[p].todo \ {proc[p].name}]
        \in Process
  BY <1>2 DEF Process
<1>4. PICK x \in Process :
        x = [proc[p] EXCEPT !.pc = "unlink", !.name = None, !.todo = proc[p].todo \ {proc[p].name}]
  BY <1>3
<1>5. /\ x.pc = "unlink" /\ x.name = None /\ x.todo = proc[p].todo \ {proc[p].name}
      /\ x.seed = proc[p].seed
  BY <1>2, <1>4 DEF Process
<1>6. proc' = [proc EXCEPT ![p] = x]
  BY <1>1, <1>2, <1>4
<1>7. NamesAreDrawn' /\ AttachmentsHaveFiles' /\ queue' \subseteq Names
  BY <1>1 DEF FilesInv, NamesAreDrawn, AttachmentsHaveFiles, TypeOK
<1>8. ~seeding => \A m \in Names : attached'[m] # None => m \notin queue'
  BY <1>1 DEF FilesInv, QueuedIsDetached
<1>9. ProcessFits(p, x)'
  BY <1>1, <1>2, <1>5, AttachmentsAssumption DEF ProcessFits, Uploading
<1>10. SeedFits(p, x)'
  BY <1>1, <1>2, <1>5 DEF SeedFits, Uploading
<1>11. stops' \in Nat /\ faults' \in Nat /\ lockouts' \in Nat /\ seeds' \in Nat
  BY <1>1 DEF counters, FilesInv, TypeOK
<1>12. \A n \in queue : n \in queue' \/ n \notin disk'
  BY <1>1, <1>2 DEF ProcessFits
<1>13. QED
  BY <1>1, <1>5, <1>6, <1>7, <1>8, <1>9, <1>10, <1>11, <1>12, ProcessStep
  DEF FilesInv, TypeOK, Uploading

LEMMA InvSeedQueue ==
  ASSUME FilesInv, SeedQueue PROVE FilesInv'
<1>1. /\ proc[Cron].pc = "seed_queue" /\ GoTo(Cron, "seed_drop")
      /\ queue' = queue \cup {n \in Names : attached[n] # None}
      /\ UNCHANGED <<docs, editors, attached, disk, lock, seeding, drawn, counters>>
  BY DEF SeedQueue
<1>2. PICK x \in Process :
        /\ proc' = [proc EXCEPT ![Cron] = x]
        /\ x.pc = "seed_drop" /\ x.att = proc[Cron].att /\ x.name = proc[Cron].name
        /\ x.todo = proc[Cron].todo /\ x.seed = proc[Cron].seed
  BY <1>1, GoToFacts DEF Procs
<1>3. Cron \in Procs /\ ProcessFits(Cron, proc[Cron]) /\ SeedFits(Cron, proc[Cron])
  BY DEF Procs, FilesInv, ProcessesFit, SeedIsAlone
<1>4. seeding /\ proc[Cron].seed
  BY <1>1, <1>3 DEF SeedFits
<1>5. NamesAreDrawn' /\ AttachmentsHaveFiles' /\ queue' \subseteq Names
  BY <1>1, <1>4 DEF FilesInv, NamesAreDrawn, AttachmentsHaveFiles, TypeOK
<1>6. ProcessFits(Cron, x)'
  BY <1>1, <1>2, <1>3 DEF ProcessFits, Uploading
<1>7. SeedFits(Cron, x)'
  BY <1>1, <1>2, <1>3 DEF SeedFits, Uploading, FilesInv, TypeOK
<1>8. stops' \in Nat /\ faults' \in Nat /\ lockouts' \in Nat /\ seeds' \in Nat
  BY <1>1 DEF counters, FilesInv, TypeOK
<1>9. QED
  BY <1>1, <1>2, <1>3, <1>4, <1>5, <1>6, <1>7, <1>8, ProcessStep DEF FilesInv, TypeOK, Uploading

LEMMA InvSeedDrop ==
  ASSUME FilesInv, SeedDrop PROVE FilesInv'
<1>1. /\ proc[Cron].pc = "seed_drop" /\ GoTo(Cron, "list")
      /\ docs' = [d \in Docs |-> "new"] /\ editors' = [d \in Docs |-> {}]
      /\ attached' = [n \in Names |-> None]
      /\ UNCHANGED <<queue, disk, lock, seeding, drawn, counters>>
  BY DEF SeedDrop
<1>2. PICK x \in Process :
        /\ proc' = [proc EXCEPT ![Cron] = x]
        /\ x.pc = "list" /\ x.att = proc[Cron].att /\ x.name = proc[Cron].name
        /\ x.todo = proc[Cron].todo /\ x.seed = proc[Cron].seed
  BY <1>1, GoToFacts DEF Procs
<1>3. Cron \in Procs /\ ProcessFits(Cron, proc[Cron]) /\ SeedFits(Cron, proc[Cron])
  BY DEF Procs, FilesInv, ProcessesFit, SeedIsAlone
<1>4. seeding /\ proc[Cron].seed
  BY <1>1, <1>3 DEF SeedFits
<1>5. lock = None
  <2>1. \A p \in Procs : lock # p
    BY <1>4 DEF FilesInv, ProcessesFit, ProcessFits, SeedIsAlone, SeedFits, Uploading
  <2>2. QED
    BY <2>1 DEF FilesInv, TypeOK
<1>6. NamesAreDrawn' /\ AttachmentsHaveFiles'
  BY <1>1, <1>4 DEF FilesInv, NamesAreDrawn, AttachmentsHaveFiles
<1>7. ProcessFits(Cron, x)'
  BY <1>1, <1>2, <1>3 DEF ProcessFits, Uploading
<1>8. SeedFits(Cron, x)'
  BY <1>1, <1>2, <1>3 DEF SeedFits, Uploading
<1>9. /\ docs' \in [Docs -> {"new", "live", "deleted"}] /\ editors' \in [Docs -> SUBSET Users]
      /\ attached' \in [Names -> Attachment \cup {None}]
  BY <1>1
<1>10. stops' \in Nat /\ faults' \in Nat /\ lockouts' \in Nat /\ seeds' \in Nat
  BY <1>1 DEF counters, FilesInv, TypeOK
<1>11. QED
  BY <1>1, <1>2, <1>3, <1>4, <1>5, <1>6, <1>7, <1>8, <1>9, <1>10, ProcessStep
  DEF FilesInv, TypeOK, Uploading

\* The seed takes the place of the service, where no upload is under way.
LEMMA InvSeedStart ==
  ASSUME FilesInv, SeedStart PROVE FilesInv'
<1>1. /\ \A p \in Procs : proc[p].pc \in {"idle", "list", "unlink", "forget"} /\ ~proc[p].seed
      /\ seeding' = TRUE /\ seeds' = seeds + 1
      /\ proc' = [proc EXCEPT ![Cron] = [Idle EXCEPT !.pc = "seed_queue", !.seed = TRUE]]
      /\ UNCHANGED <<docs, editors, attached, queue, disk, lock, drawn, stops, faults, lockouts>>
  BY DEF SeedStart
<1>2. [Idle EXCEPT !.pc = "seed_queue", !.seed = TRUE] \in Process
  BY DEF Idle, Process
<1>3. PICK x \in Process : x = [Idle EXCEPT !.pc = "seed_queue", !.seed = TRUE]
  BY <1>2
<1>4. x.pc = "seed_queue" /\ x.todo = {} /\ x.name = None /\ x.seed = TRUE
  BY <1>3 DEF Idle
<1>5. /\ proc' \in [Procs -> Process] /\ Cron \in Procs /\ proc'[Cron] = x
      /\ \A q \in Procs : q # Cron => proc'[q] = proc[q]
  BY <1>1, <1>3 DEF FilesInv, TypeOK, Procs
<1>6. \A p \in Procs : /\ proc'[p].pc \notin Uploading \cup {"delete", "insert", "seed_drop"}
                       /\ proc'[p].seed <=> p = Cron
  BY <1>1, <1>4, <1>5 DEF Uploading
<1>7. TypeOK' /\ IsFiniteSet(disk')
  BY <1>1, <1>5 DEF FilesInv, TypeOK
<1>8. NamesAreDrawn' /\ AttachmentsHaveFiles' /\ QueuedIsDetached'
  BY <1>1 DEF FilesInv, NamesAreDrawn, AttachmentsHaveFiles, QueuedIsDetached
<1>9. ProcessesFit'
  <2>1. SUFFICES ASSUME NEW p \in Procs PROVE ProcessFits(p, proc[p])'
    BY DEF ProcessesFit
  <2>2. ProcessFits(p, proc[p]) /\ proc[p].pc # "insert"
    BY <1>1 DEF FilesInv, ProcessesFit
  <2>3. CASE p = Cron
    BY <1>1, <1>4, <1>5, <2>2, <2>3 DEF ProcessFits, Uploading
  <2>4. CASE p # Cron
    BY <1>1, <1>5, <1>6, <2>2, <2>4 DEF ProcessFits
  <2>5. QED
    BY <2>3, <2>4
<1>10. UploadsAreApart'
  BY <1>6 DEF UploadsAreApart
<1>11. SeedIsAlone'
  <2>1. SUFFICES ASSUME NEW p \in Procs PROVE SeedFits(p, proc[p])'
    BY DEF SeedIsAlone
  <2>2. p = Cron => proc'[p].pc = "seed_queue"
    BY <1>4, <1>5
  <2>3. p # Cron => proc'[p].pc \in {"idle", "list", "unlink", "forget"}
    BY <1>1, <1>5
  <2>4. QED
    BY <1>1, <1>6, <2>2, <2>3 DEF SeedFits, Uploading
<1>12. QED
  BY <1>7, <1>8, <1>9, <1>10, <1>11 DEF FilesInv

\* The service is back, where nothing is attached.
LEMMA InvSeedFill ==
  ASSUME FilesInv, SeedFill PROVE FilesInv'
<1>1. /\ proc[Cron].pc = "seed_fill" /\ Finish(Cron) /\ seeding' = FALSE
      /\ docs' = [d \in Docs |-> IF d \in SeedDocs THEN "live" ELSE "new"]
      /\ UNCHANGED <<editors, attached, queue, disk, lock, drawn, counters>>
  BY DEF SeedFill
<1>2. /\ proc' \in [Procs -> Process] /\ Cron \in Procs /\ proc'[Cron] = Idle
      /\ \A q \in Procs : q # Cron => proc'[q] = proc[q]
  BY <1>1, IdleFacts DEF FilesInv, TypeOK, Procs, Finish
<1>3. \A p \in Procs : ProcessFits(p, proc[p]) /\ SeedFits(p, proc[p])
  BY DEF FilesInv, ProcessesFit, SeedIsAlone
<1>4. seeding /\ \A n \in Names : attached[n] = None
  BY <1>1, <1>2, <1>3 DEF SeedFits
<1>5. \A p \in Procs : /\ proc[p].pc \notin Uploading \cup {"delete"}
                       /\ p # Cron => ~proc[p].seed
  BY <1>3, <1>4 DEF SeedFits
<1>6. \A p \in Procs : /\ proc'[p].pc \notin Uploading \cup {"delete"}
                       /\ proc'[p].seed = FALSE
  BY <1>2, <1>5, IdleFacts, ProcessFields DEF Uploading, FilesInv, TypeOK
<1>7. TypeOK' /\ IsFiniteSet(disk')
  BY <1>1, <1>2 DEF FilesInv, TypeOK, counters
<1>8. NamesAreDrawn' /\ AttachmentsHaveFiles' /\ QueuedIsDetached'
  BY <1>1, <1>4 DEF FilesInv, NamesAreDrawn, AttachmentsHaveFiles, QueuedIsDetached
<1>9. ProcessesFit'
  <2>1. SUFFICES ASSUME NEW p \in Procs PROVE ProcessFits(p, proc[p])'
    BY DEF ProcessesFit
  <2>2. CASE p = Cron
    BY <1>1, <1>2, <1>3, <2>2, IdleFacts DEF ProcessFits, Uploading
  <2>3. CASE p # Cron
    BY <1>1, <1>2, <1>3, <1>6, <2>3 DEF ProcessFits
  <2>4. QED
    BY <2>2, <2>3
<1>10. UploadsAreApart'
  BY <1>6 DEF UploadsAreApart
<1>11. SeedIsAlone'
  <2>1. SUFFICES ASSUME NEW p \in Procs PROVE SeedFits(p, proc[p])'
    BY DEF SeedIsAlone
  <2>2. proc'[p].pc \notin {"seed_queue", "seed_drop", "seed_fill"}
    BY <1>2, <1>3, <1>5, IdleFacts DEF SeedFits
  <2>3. QED
    BY <1>1, <1>6, <2>2 DEF SeedFits
<1>12. QED
  BY <1>7, <1>8, <1>9, <1>10, <1>11 DEF FilesInv

\* Documents and shares change while nobody holds the lock.
LEMMA InvDocuments ==
  ASSUME FilesInv, lock = None,
         docs' \in [Docs -> {"new", "live", "deleted"}], editors' \in [Docs -> SUBSET Users],
         UNCHANGED <<attached, queue, disk, lock, proc, seeding, drawn, counters>>
  PROVE  FilesInv'
<1>1. TypeOK' /\ IsFiniteSet(disk')
  BY DEF FilesInv, TypeOK, counters
<1>2. /\ NamesAreDrawn' /\ AttachmentsHaveFiles' /\ QueuedIsDetached' /\ UploadsAreApart'
      /\ SeedIsAlone'
  BY DEF FilesInv, NamesAreDrawn, AttachmentsHaveFiles, QueuedIsDetached, UploadsAreApart,
     SeedIsAlone, SeedFits
<1>3. ProcessesFit'
  <2>1. SUFFICES ASSUME NEW p \in Procs PROVE ProcessFits(p, proc[p])'
    BY DEF ProcessesFit
  <2>2. ProcessFits(p, proc[p])
    BY DEF FilesInv, ProcessesFit
  <2>3. QED
    BY <2>2, AttachmentsAssumption DEF ProcessFits
<1>4. QED
  BY <1>1, <1>2, <1>3 DEF FilesInv

LEMMA InvCreateDocument ==
  ASSUME FilesInv, NEW d \in Docs, CreateDocument(d) PROVE FilesInv'
<1>1. docs' \in [Docs -> {"new", "live", "deleted"}] /\ editors' \in [Docs -> SUBSET Users]
  BY DEF CreateDocument, FilesInv, TypeOK
<1>2. QED
  BY <1>1, InvDocuments DEF CreateDocument, Unlocked

LEMMA InvSetEditors ==
  ASSUME FilesInv, NEW d \in Docs, SetEditors(d) PROVE FilesInv'
<1>1. docs' \in [Docs -> {"new", "live", "deleted"}] /\ editors' \in [Docs -> SUBSET Users]
  BY DEF SetEditors, FilesInv, TypeOK
<1>2. QED
  BY <1>1, InvDocuments DEF SetEditors, Unlocked

LEMMA InvStutter ==
  ASSUME FilesInv, UNCHANGED vars PROVE FilesInv'
<1>1. UNCHANGED <<docs, editors, attached, queue, disk, drawn, lock, proc, seeding, counters>>
  BY DEF vars
<1>2. TypeOK' /\ IsFiniteSet(disk')
  BY <1>1 DEF FilesInv, TypeOK, counters
<1>3. NamesAreDrawn' /\ AttachmentsHaveFiles' /\ QueuedIsDetached' /\ UploadsAreApart'
  BY <1>1 DEF FilesInv, NamesAreDrawn, AttachmentsHaveFiles, QueuedIsDetached, UploadsAreApart
<1>4. ProcessesFit' /\ SeedIsAlone'
  BY <1>1 DEF FilesInv, ProcessesFit, ProcessFits, CanEdit, SeedIsAlone, SeedFits
<1>5. QED
  BY <1>2, <1>3, <1>4 DEF FilesInv

LEMMA InitInv == Init => FilesInv
<1> SUFFICES ASSUME Init PROVE FilesInv
  OBVIOUS
<1>1. TypeOK /\ IsFiniteSet(disk)
  BY IdleFacts, FS_EmptySet, AttachmentsAssumption DEF Init, TypeOK
<1>2. \A p \in Procs : proc[p] = Idle
  BY DEF Init
<1>3. ProcessesFit /\ SeedIsAlone /\ UploadsAreApart
  BY <1>2, IdleFacts, AttachmentsAssumption
  DEF Init, ProcessesFit, ProcessFits, SeedIsAlone, SeedFits, UploadsAreApart, Uploading
<1>4. NamesAreDrawn /\ QueuedIsDetached /\ AttachmentsHaveFiles
  BY DEF Init, NamesAreDrawn, QueuedIsDetached, AttachmentsHaveFiles
<1>5. QED
  BY <1>1, <1>3, <1>4 DEF FilesInv

LEMMA InvProgress ==
  ASSUME FilesInv, NEW p \in Procs, Progress(p) \/ Fault(p) PROVE FilesInv'
  BY InvUploadStore, InvUploadRefused, InvUploadInsert, InvUploadEnqueue, InvDeleteCommit,
     InvCleanupList, InvCleanupUnlink, InvCleanupForget, InvCleanupEnd, InvUploadFail,
     InvUploadEnqueueFail, InvCleanupUnlinkFail, InvStop DEF Progress, Fault

LEMMA NextInv == FilesInv /\ [Next]_vars => FilesInv'
<1> SUFFICES ASSUME FilesInv, [Next]_vars PROVE FilesInv'
  OBVIOUS
<1>1. ASSUME NEW d \in Docs, CreateDocument(d) \/ SetEditors(d) PROVE FilesInv'
  BY <1>1, InvCreateDocument, InvSetEditors
<1>2. ASSUME NEW p \in Procs, NEW d \in Docs,
             DeleteCheck(p, d) \/ \E u \in Users : UploadCheck(p, u, d)
      PROVE  FilesInv'
  BY <1>2, InvDeleteCheck, InvUploadCheck
<1>3. ASSUME NEW p \in Procs, CleanupRun(p) PROVE FilesInv'
  BY <1>3, InvCleanupRun
<1>4. CASE SeedStep
  BY <1>4, InvSeedStart, InvSeedQueue, InvSeedDrop, InvSeedFill DEF SeedStep
<1>5. CASE UNCHANGED vars
  BY <1>5, InvStutter
<1>6. QED
  BY <1>1, <1>2, <1>3, <1>4, <1>5, InvProgress DEF Next

\* The inductive invariant of rows, files, the queue, processes and the seed.
THEOREM FilesInvariance == Spec => []FilesInv
<1>1. QED
  BY InitInv, NextInv, PTL DEF Spec

\* The tables, the disk, the processes and the counters keep their types.
THEOREM TypeCorrect == Spec => []TypeOK
<1>1. FilesInv => TypeOK
  BY DEF FilesInv
<1>2. QED
  BY <1>1, FilesInvariance, PTL

\* While the service runs, every attachment has its file, however cleanups,
\* deletions, failures and seeds overlap.
THEOREM FilesAreThere == Spec => []AttachmentsHaveFiles
<1>1. FilesInv => AttachmentsHaveFiles
  BY DEF FilesInv
<1>2. QED
  BY <1>1, FilesInvariance, PTL

-----------------------------------------------------------------------------
(* Uploads are authorised.                                                 *)

Authorised == \A n \in Names : attached[n] = None /\ attached'[n] # None =>
                                 CanEdit(attached'[n].doc, attached'[n].by)

\* Only the INSERT of an upload adds an attachment, under the lock under which
\* the permission was looked at again.
LEMMA StepAuthorised == ASSUME FilesInv, [Next]_vars PROVE Authorised
<1>1. ASSUME NEW p \in Procs, UploadInsert(p) PROVE Authorised
  <2>1. /\ proc[p].pc = "insert"
        /\ attached' = [attached EXCEPT ![proc[p].name] = proc[p].att]
    BY <1>1 DEF UploadInsert
  <2>2. CanEdit(proc[p].att.doc, proc[p].att.by) /\ proc[p].name \in Names
    BY <2>1, InsertFacts
  <2>3. /\ attached'[proc[p].name] = proc[p].att
        /\ \A n \in Names : n # proc[p].name => attached'[n] = attached[n]
    BY <2>1, <2>2 DEF FilesInv, TypeOK
  <2>4. QED
    BY <2>2, <2>3 DEF Authorised
<1>2. ASSUME \A n \in Names : attached[n] = None => attached'[n] = None PROVE Authorised
  BY <1>2 DEF Authorised
<1>3. ASSUME NEW p \in Procs, Progress(p), ~UploadInsert(p) PROVE Authorised
  <2>1. \/ UNCHANGED attached
        \/ attached' = [n \in Names |-> IF n \in AttachedTo(proc[p].doc) THEN None ELSE attached[n]]
    BY <1>3 DEF Progress, UploadStore, UploadRefused, UploadEnqueue, DeleteCommit, CleanupList,
       CleanupUnlink, CleanupForget, CleanupEnd
  <2>2. QED
    BY <1>2, <2>1
<1>4. ASSUME NEW p \in Procs, Fault(p) PROVE UNCHANGED attached
  BY <1>4 DEF Fault, UploadFail, UploadEnqueueFail, CleanupUnlinkFail, Stop
<1>5. ASSUME NEW p \in Procs,
             \/ CleanupRun(p)
             \/ \E d \in Docs : DeleteCheck(p, d) \/ \E u \in Users : UploadCheck(p, u, d)
      PROVE  UNCHANGED attached
  BY <1>5 DEF CleanupRun, DeleteCheck, UploadCheck
<1>6. ASSUME SeedStep PROVE Authorised
  <2>1. UNCHANGED attached \/ attached' = [n \in Names |-> None]
    BY <1>6 DEF SeedStep, SeedStart, SeedQueue, SeedDrop, SeedFill
  <2>2. QED
    BY <1>2, <2>1
<1>7. ASSUME NEW d \in Docs, CreateDocument(d) \/ SetEditors(d) PROVE UNCHANGED attached
  BY <1>7 DEF CreateDocument, SetEditors
<1>8. CASE UNCHANGED vars
  BY <1>2, <1>8 DEF vars
<1>9. QED
  BY <1>1, <1>2, <1>3, <1>4, <1>5, <1>6, <1>7, <1>8 DEF Next

\* An attachment is only added by a user who may edit the document then.
THEOREM UploadsOfEditors == Spec => UploadsAuthorised
<1>1. FilesInv /\ [Next]_vars => [\A n \in Names : attached[n] = None /\ attached'[n] # None =>
                                CanEdit(attached'[n].doc, attached'[n].by)]_vars
  BY StepAuthorised DEF Authorised
<1>2. QED
  BY <1>1, FilesInvariance, PTL DEF Spec, UploadsAuthorised

-----------------------------------------------------------------------------
(* Orphans.                                                                *)

\* Process p carries the file n, which is on the disk, on to a row or the queue.
Carries(p, n) == proc[p].pc \in {"insert", "enqueue"} /\ proc[p].name = n
Accounted(n) == n \in queue \/ attached[n] # None \/ \E p \in Procs : Carries(p, n)

LEMMA OrphanFacts ==
  ASSUME disk \subseteq Names PROVE \A n : n \in Orphans <=> n \in disk /\ ~Accounted(n)
  BY DEF Orphans, InFlight, Accounted, Carries

LEMMA OrphanFactsNext ==
  ASSUME disk' \subseteq Names PROVE \A n : n \in Orphans' <=> n \in disk' /\ ~Accounted(n)'
  BY DEF Orphans, InFlight, Accounted, Carries

\* A step of process p alone that may lose what p carries.
LEMMA LosingStep ==
  ASSUME FilesInv, FilesInv', NEW p \in Procs, \A q \in Procs : q # p => proc'[q] = proc[q],
         \A n \in disk' : n \in disk \/ Carries(p, n)',
         \A n \in disk' : n \in queue => n \in queue',
         \A n \in disk' : attached[n] # None => attached'[n] # None \/ n \in queue'
  PROVE  /\ Orphans' \subseteq Orphans \cup {proc[p].name}
         /\ (\A n \in disk' : Carries(p, n) => Accounted(n)') => Orphans' \subseteq Orphans
<1>1. disk \subseteq Names /\ disk' \subseteq Names
  BY DEF FilesInv, TypeOK
<1>2. SUFFICES ASSUME NEW n, n \in Orphans'
               PROVE  /\ n \in Orphans \/ Carries(p, n)
                      /\ (\A m \in disk' : Carries(p, m) => Accounted(m)') => n \in Orphans
  BY DEF Carries
<1>3. n \in disk' /\ ~Accounted(n)'
  BY <1>1, <1>2, OrphanFactsNext
<1>4. n \in disk /\ n \notin queue /\ attached[n] = None
  BY <1>3 DEF Accounted
<1>5. ~Carries(p, n) => ~Accounted(n)
  BY <1>3, <1>4 DEF Accounted, Carries
<1>6. QED
  BY <1>1, <1>3, <1>4, <1>5, OrphanFacts

\* Where the disk, the rows and the queue stay, and p carries nothing.
LEMMA QuietStep ==
  ASSUME FilesInv, FilesInv', NEW p \in Procs, \A q \in Procs : q # p => proc'[q] = proc[q],
         UNCHANGED <<attached, queue, disk>>, proc[p].pc \notin {"insert", "enqueue"}
  PROVE  Orphans' \subseteq Orphans
  BY LosingStep DEF Carries

LEMMA Others ==
  ASSUME FilesInv, NEW p \in Procs, NEW x, proc' = [proc EXCEPT ![p] = x]
  PROVE  proc'[p] = x /\ \A q \in Procs : q # p => proc'[q] = proc[q]
  BY DEF FilesInv, TypeOK

NoNewOrphans == /\ UNCHANGED <<stops, lockouts>>
                /\ Orphans' \subseteq Orphans

LEMMA OrphansUpload ==
  ASSUME FilesInv, FilesInv', NEW p \in Procs,
         UploadStore(p) \/ UploadRefused(p) \/ UploadInsert(p) \/ UploadEnqueue(p) \/ UploadFail(p)
  PROVE  NoNewOrphans
<1>1. proc[p] \in Process /\ proc \in [Procs -> Process]
  BY DEF FilesInv, TypeOK
<1>2. CASE UploadStore(p)
  <2>1. PICK x \in Process : /\ proc' = [proc EXCEPT ![p] = x]
                             /\ x.pc = "insert" /\ x.name = proc[p].name
    BY <1>2, GoToFacts DEF UploadStore
  <2>2. Carries(p, proc[p].name)'
    BY <2>1, Others DEF Carries
  <2>3. QED
    BY <1>2, <2>1, <2>2, Others, LosingStep DEF UploadStore, NoNewOrphans, Carries, counters
<1>3. CASE UploadRefused(p)
  BY <1>3, Others, QuietStep DEF UploadRefused, Finish, NoNewOrphans, counters
<1>4. CASE UploadInsert(p)
  <2>1. /\ proc[p].pc = "insert" /\ attached' = [attached EXCEPT ![proc[p].name] = proc[p].att]
        /\ UNCHANGED <<queue, disk, stops, lockouts>> /\ proc' = [proc EXCEPT ![p] = Idle]
    BY <1>4 DEF UploadInsert, Finish, counters
  <2>2. /\ attached'[proc[p].name] # None
        /\ \A n \in Names : n # proc[p].name => attached'[n] = attached[n]
    BY <2>1, InsertFacts DEF FilesInv, TypeOK
  <2>3. \A n \in disk' : attached[n] # None => attached'[n] # None
    BY <2>1, <2>2 DEF FilesInv, TypeOK
  <2>4. \A n \in disk' : Carries(p, n) => Accounted(n)'
    BY <2>2 DEF Carries, Accounted
  <2>5. QED
    BY <2>1, <2>3, <2>4, Others, LosingStep DEF NoNewOrphans
<1>5. CASE UploadEnqueue(p)
  <2>1. /\ queue' = queue \cup {proc[p].name}
        /\ UNCHANGED <<attached, disk, stops, lockouts>>
        /\ proc' = [proc EXCEPT ![p] = [Idle EXCEPT !.pc = "list"]]
    BY <1>5 DEF UploadEnqueue, counters
  <2>2. \A n \in disk' : Carries(p, n) => Accounted(n)'
    BY <2>1 DEF Carries, Accounted
  <2>3. QED
    BY <2>1, <2>2, Others, LosingStep DEF NoNewOrphans
<1>6. CASE UploadFail(p)
  <2>1. PICK x \in Process : /\ proc' = [proc EXCEPT ![p] = x]
                             /\ x.pc = "enqueue" /\ x.name = proc[p].name
    BY <1>6, GoToFacts DEF UploadFail
  <2>2. \A n \in disk' : Carries(p, n) => Accounted(n)'
    BY <2>1, Others DEF Carries, Accounted
  <2>3. QED
    BY <1>6, <2>1, <2>2, Others, LosingStep DEF UploadFail, NoNewOrphans
<1>7. QED
  BY <1>2, <1>3, <1>4, <1>5, <1>6

LEMMA OrphansCleanup ==
  ASSUME FilesInv, FilesInv', NEW p \in Procs,
         \/ CleanupRun(p) \/ CleanupList(p) \/ CleanupForget(p) \/ CleanupEnd(p)
         \/ \E n \in Names : CleanupUnlink(p, n) \/ CleanupUnlinkFail(p, n)
  PROVE  NoNewOrphans
<1>1. proc \in [Procs -> Process] /\ \A q \in Procs : ProcessFits(q, proc[q])
  BY DEF FilesInv, TypeOK, ProcessesFit
<1>2. /\ proc[p].pc \in {"idle", "list", "unlink", "forget"}
      /\ \A q \in Procs : q # p => proc'[q] = proc[q]
      /\ UNCHANGED <<attached, stops, lockouts>>
  BY <1>1, IdleFacts DEF CleanupRun, CleanupList, CleanupForget, CleanupEnd, CleanupUnlink,
     CleanupUnlinkFail, GoTo, Finish, counters
<1>3. CASE CleanupForget(p)
  <2>1. queue' = queue \ {proc[p].name} /\ UNCHANGED disk /\ proc[p].name \notin disk
    BY <1>1, <1>3 DEF CleanupForget, ProcessFits
  <2>2. QED
    BY <1>2, <2>1, LosingStep DEF NoNewOrphans, Carries
<1>4. CASE ~CleanupForget(p)
  <2>1. UNCHANGED queue /\ disk' \subseteq disk
    BY <1>4 DEF CleanupRun, CleanupList, CleanupEnd, CleanupUnlink, CleanupUnlinkFail
  <2>2. QED
    BY <1>2, <2>1, LosingStep DEF NoNewOrphans, Carries
<1>5. QED
  BY <1>3, <1>4

LEMMA OrphansDelete ==
  ASSUME FilesInv, FilesInv', NEW p \in Procs, DeleteCommit(p) PROVE NoNewOrphans
<1>1. /\ proc[p].pc = "delete" /\ queue' = queue \cup AttachedTo(proc[p].doc)
      /\ attached' = [n \in Names |-> IF n \in AttachedTo(proc[p].doc) THEN None ELSE attached[n]]
      /\ GoTo(p, "list") /\ UNCHANGED <<disk, stops, lockouts>>
  BY DEF DeleteCommit, counters
<1>2. \A q \in Procs : q # p => proc'[q] = proc[q]
  BY <1>1 DEF GoTo, FilesInv, TypeOK
<1>3. \A n \in disk' : attached[n] # None => attached'[n] # None \/ n \in queue'
  BY <1>1 DEF FilesInv, TypeOK
<1>4. QED
  BY <1>1, <1>2, <1>3, LosingStep DEF NoNewOrphans, Carries

LEMMA OrphansSeed ==
  ASSUME FilesInv, FilesInv', SeedStep PROVE NoNewOrphans
<1>1. /\ proc \in [Procs -> Process] /\ Cron \in Procs
      /\ SeedFits(Cron, proc[Cron]) /\ disk \subseteq Names
  BY DEF FilesInv, TypeOK, SeedIsAlone, Procs
<1>2. /\ \A q \in Procs : q # Cron => proc'[q] = proc[q]
      /\ UNCHANGED <<disk, stops, lockouts>> /\ queue \subseteq queue'
  BY <1>1 DEF SeedStep, SeedStart, SeedQueue, SeedDrop, SeedFill, GoTo, Finish, counters
<1>3. proc[Cron].pc \notin {"insert", "enqueue"}
  BY <1>1, IdleFacts DEF SeedStep, SeedStart, SeedQueue, SeedDrop, SeedFill
<1>4. \A n \in disk' : attached[n] # None => attached'[n] # None \/ n \in queue'
  BY <1>1, <1>2 DEF SeedStep, SeedStart, SeedQueue, SeedDrop, SeedFill, SeedFits
<1>5. QED
  BY <1>1, <1>2, <1>3, <1>4, LosingStep DEF NoNewOrphans, Carries

\* A process that stops, or cannot queue its file, loses the one it carries.
LEMMA OrphansLost ==
  ASSUME FilesInv, FilesInv', NEW p \in Procs, Stop(p) \/ UploadEnqueueFail(p)
  PROVE  /\ \/ stops' = stops + 1 /\ lockouts' = lockouts
            \/ stops' = stops /\ lockouts' = lockouts + 1
         /\ Orphans' \subseteq Orphans \cup {proc[p].name}
<1>1. /\ UNCHANGED <<attached, queue, disk>> /\ Finish(p)
      /\ \/ stops' = stops + 1 /\ lockouts' = lockouts
         \/ stops' = stops /\ lockouts' = lockouts + 1
  BY DEF Stop, UploadEnqueueFail
<1>2. \A q \in Procs : q # p => proc'[q] = proc[q]
  BY <1>1 DEF Finish, FilesInv, TypeOK
<1>3. QED
  BY <1>1, <1>2, LosingStep

LEMMA OrphansOther ==
  ASSUME FilesInv, FilesInv',
         \/ UNCHANGED vars
         \/ \E d \in Docs : CreateDocument(d) \/ SetEditors(d)
         \/ \E p \in Procs, d \in Docs : DeleteCheck(p, d) \/ \E u \in Users : UploadCheck(p, u, d)
  PROVE  NoNewOrphans
<1>1. CASE UNCHANGED vars \/ \E d \in Docs : CreateDocument(d) \/ SetEditors(d)
  BY <1>1 DEF vars, counters, CreateDocument, SetEditors, NoNewOrphans, Orphans, InFlight
<1>2. ASSUME NEW p \in Procs, NEW d \in Docs,
             DeleteCheck(p, d) \/ \E u \in Users : UploadCheck(p, u, d)
      PROVE  NoNewOrphans
  <2>1. /\ UNCHANGED <<attached, queue, disk, stops, lockouts>> /\ proc[p] = Idle
        /\ \A q \in Procs : q # p => proc'[q] = proc[q]
    BY <1>2 DEF DeleteCheck, UploadCheck, counters, FilesInv, TypeOK
  <2>2. QED
    BY <2>1, IdleFacts, QuietStep DEF NoNewOrphans
<1>3. QED
  BY <1>1, <1>2

LEMMA StepOrphans ==
  ASSUME FilesInv, FilesInv', [Next]_vars
  PROVE  \/ NoNewOrphans
         \/ \E p \in Procs : Stop(p) \/ UploadEnqueueFail(p)
<1>1. ASSUME NEW p \in Procs, Progress(p) \/ Fault(p), ~Stop(p), ~UploadEnqueueFail(p)
      PROVE  NoNewOrphans
  BY <1>1, OrphansUpload, OrphansCleanup, OrphansDelete DEF Progress, Fault
<1>2. ASSUME NEW p \in Procs, CleanupRun(p) PROVE NoNewOrphans
  BY <1>2, OrphansCleanup
<1>3. CASE SeedStep
  BY <1>3, OrphansSeed
<1>4. CASE \/ UNCHANGED vars
           \/ \E d \in Docs : CreateDocument(d) \/ SetEditors(d)
           \/ \E p \in Procs, d \in Docs : DeleteCheck(p, d) \/ \E u \in Users : UploadCheck(p, u, d)
  BY <1>4, OrphansOther
<1>5. QED
  BY <1>1, <1>2, <1>3, <1>4 DEF Next

LEMMA OneMore ==
  ASSUME NEW S, IsFiniteSet(S), NEW x
  PROVE  /\ IsFiniteSet(S \cup {x}) /\ Cardinality(S \cup {x}) \in Nat
         /\ Cardinality(S \cup {x}) <= Cardinality(S) + 1
<1>1. /\ IsFiniteSet(S \cup {x})
      /\ Cardinality(S \cup {x}) = Cardinality(S) \/ Cardinality(S \cup {x}) = Cardinality(S) + 1
  BY FS_AddElement
<1>2. Cardinality(S) \in Nat
  BY FS_CardinalityType
<1>3. QED
  BY <1>1, <1>2

LEMMA OrphansStayExplained ==
  ASSUME FilesInv, FilesInv', OrphansAreExplained, [Next]_vars PROVE OrphansAreExplained'
<1>1. /\ IsFiniteSet(Orphans) /\ Cardinality(Orphans) \in Nat
      /\ stops \in Nat /\ lockouts \in Nat
  <2>1. IsFiniteSet(disk) /\ Orphans \subseteq disk
    BY DEF FilesInv, Orphans
  <2>2. QED
    BY <2>1, FS_Subset, FS_CardinalityType DEF FilesInv, TypeOK
<1>2. CASE NoNewOrphans
  <2>1. Orphans' \subseteq Orphans /\ stops' = stops /\ lockouts' = lockouts
    BY <1>2 DEF NoNewOrphans
  <2>2. IsFiniteSet(Orphans') /\ Cardinality(Orphans') <= Cardinality(Orphans)
    BY <1>1, <2>1, FS_Subset
  <2>3. Cardinality(Orphans') \in Nat
    BY <2>2, FS_CardinalityType
  <2>4. QED
    BY <1>1, <2>1, <2>2, <2>3 DEF OrphansAreExplained
<1>3. ASSUME NEW p \in Procs, Stop(p) \/ UploadEnqueueFail(p) PROVE OrphansAreExplained'
  <2>1. PICK S : S = Orphans \cup {proc[p].name}
    OBVIOUS
  <2>2. Orphans' \subseteq S /\ stops' + lockouts' = stops + lockouts + 1
    BY <1>1, <1>3, <2>1, OrphansLost
  <2>3. /\ IsFiniteSet(S) /\ Cardinality(S) \in Nat
        /\ Cardinality(S) <= Cardinality(Orphans) + 1
    BY <1>1, <2>1, OneMore
  <2>4. IsFiniteSet(Orphans') /\ Cardinality(Orphans') <= Cardinality(S)
    BY <2>2, <2>3, FS_Subset
  <2>5. Cardinality(Orphans') \in Nat
    BY <2>4, FS_CardinalityType
  <2>6. Cardinality(Orphans) <= stops + lockouts
    BY DEF OrphansAreExplained
  <2>7. Cardinality(Orphans') <= stops' + lockouts'
    BY <1>1, <2>2, <2>3, <2>4, <2>5, <2>6
  <2>8. QED
    BY <2>7 DEF OrphansAreExplained
<1>4. QED
  BY <1>2, <1>3, StepOrphans

\* Every file nobody knows of is paid for by a stop or by a failed queueing.
THEOREM OrphansExplained == Spec => []OrphansAreExplained
<1>1. Init => OrphansAreExplained
  <2>1. Init => Orphans = {} /\ stops = 0 /\ lockouts = 0
    BY DEF Init, Orphans
  <2>2. QED
    BY <2>1, FS_EmptySet DEF OrphansAreExplained
<1>2. FilesInv /\ FilesInv' /\ OrphansAreExplained /\ [Next]_vars => OrphansAreExplained'
  BY OrphansStayExplained
<1>3. QED
  BY <1>1, <1>2, FilesInvariance, PTL DEF Spec
=============================================================================
