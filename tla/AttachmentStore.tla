--------------------------- MODULE AttachmentStore --------------------------
(***************************************************************************)
(* What SecureDocs promises about attachments, without rows, files, names  *)
(* to be deleted, locks or processes: which attachments can be downloaded, *)
(* and the only events by which one appears or goes.  Attachments          *)
(* implements it (Attachments!Store).                                      *)
(***************************************************************************)
EXTENDS Naturals, FiniteSets, FiniteSetsExt

CONSTANTS Names, Docs, Users,
          Sizes,           \* how large an attachment may be
          None,            \* no attachment
          Owner,           \* whose document it is
          SeedDocs,        \* the documents there are at the beginning
          MaxAttachments, MaxBytes \* of one user

VARIABLES open,    \* the service is there
          docs,    \* documents: "new", "live" or "deleted"
          editors, \* who may edit a document beside its owner
          files    \* the attachments that can be downloaded

vars == <<open, docs, editors, files>>

Attachment == [doc : Docs, by : Users, size : Sizes]

AtFirst == [d \in Docs |-> IF d \in SeedDocs THEN "live" ELSE "new"]
Nothing == [n \in Names |-> None]

Init ==
  /\ open = TRUE
  /\ docs = AtFirst
  /\ editors = [d \in Docs |-> {}]
  /\ files = Nothing

FilesOf(u) == {n \in Names : files[n] # None /\ files[n].by = u}
FilesIn(d) == {n \in Names : files[n] # None /\ files[n].doc = d}

Bytes(table, names) == MapThenSumSet(LAMBDA n : table[n].size, names)

WithinLimits(u) ==
  /\ Cardinality(FilesOf(u)) <= MaxAttachments
  /\ Bytes(files, FilesOf(u)) <= MaxBytes

Create(d) ==
  /\ open /\ docs[d] = "new"
  /\ docs' = [docs EXCEPT ![d] = "live"]
  /\ UNCHANGED <<open, editors, files>>

SetEditors(d) ==
  /\ open /\ docs[d] = "live"
  /\ \E us \in SUBSET Users : editors' = [editors EXCEPT ![d] = us]
  /\ UNCHANGED <<open, docs, files>>

\* An attachment comes whole, to a document that is there, from a user who may
\* edit it at that moment, and leaves him within his limits.
Attach(n, a) ==
  /\ open /\ files[n] = None
  /\ docs[a.doc] = "live"
  /\ a.by = Owner[a.doc] \/ a.by \in editors[a.doc]
  /\ files' = [files EXCEPT ![n] = a]
  /\ WithinLimits(a.by)'
  /\ UNCHANGED <<open, docs, editors>>

\* A document goes with its attachments, with all of them and no others.
Delete(d) ==
  /\ open /\ docs[d] = "live"
  /\ docs' = [docs EXCEPT ![d] = "deleted"]
  /\ editors' = [editors EXCEPT ![d] = {}]
  /\ files' = [n \in Names |-> IF n \in FilesIn(d) THEN None ELSE files[n]]
  /\ UNCHANGED open

\* The service is stopped to be filled anew: what there was is gone.
Close ==
  /\ open' = FALSE
  /\ docs' = [d \in Docs |-> "new"]
  /\ editors' = [d \in Docs |-> {}]
  /\ files' = Nothing

Reopen ==
  /\ ~open /\ open' = TRUE
  /\ docs' = AtFirst
  /\ UNCHANGED <<editors, files>>

Next ==
  \/ \E d \in Docs : Create(d) \/ SetEditors(d) \/ Delete(d)
  \/ \E n \in Names, a \in Attachment : Attach(n, a)
  \/ Close
  \/ Reopen

Spec == Init /\ [][Next]_vars
=============================================================================
