------------------------ MODULE AttachmentStoreProofs ------------------------
(***************************************************************************)
(* Proof that no user ever exceeds his limits, and that Attachments        *)
(* implements AttachmentStore, for any number of documents, users, names,  *)
(* processes, faults, stops and seeds.                                     *)
(*                                                                         *)
(* The usage of a user is a sum over his rows.  The first part proves what *)
(* is needed of such sums; a property of all finite sets is shown of a     *)
(* smallest set that would not have it.                                    *)
(***************************************************************************)
EXTENDS AttachmentsProofs, WellFoundedInduction

-----------------------------------------------------------------------------
(* Sums of sizes.                                                          *)

\* The row a sum takes first, and what makes h the sums of sizes in the table a
\* over the subsets of S.
Pick(s) == CHOOSE x \in s : TRUE
IsSum(h, a, S) ==
  h = [s \in SUBSET S |-> IF s = {} THEN 0 ELSE a[Pick(s)].size + h[s \ {Pick(s)}]]

LEMMA PickIn == ASSUME NEW s, s # {} PROVE Pick(s) \in s
  BY DEF Pick

LEMMA BytesDef == ASSUME NEW a, NEW S PROVE Bytes(a, S) = (CHOOSE h : IsSum(h, a, S))[S]
  BY Zenon DEF Bytes, MapThenSumSet, MapThenFoldSet, IsSum, Pick

LEMMA LeastNat == ASSUME NEW T \in SUBSET Nat, T # {} PROVE \E x \in T : \A y \in T : x <= y
<1>1. IsWellFoundedOn({ss \in Nat \X Nat : ss[1] < ss[2]}, Nat)
  BY NatLessThanWellFounded DEF OpToRel
<1>2. PICK x \in T : \A y \in T : ~(<<y, x>> \in {ss \in Nat \X Nat : ss[1] < ss[2]})
  BY <1>1, WFMin, Zenon
<1>3. ASSUME NEW y \in T PROVE x <= y
  <2>1. <<y, x>> \in Nat \X Nat /\ <<y, x>>[1] = y /\ <<y, x>>[2] = x
    OBVIOUS
  <2>2. ~(y < x)
    BY <1>2, <1>3, <2>1
  <2>3. QED
    BY <2>2
<1>4. QED
  BY <1>3

\* A set of subsets of a finite set has an element none of whose proper subsets
\* is in it.
LEMMA Minimal ==
  ASSUME NEW S, IsFiniteSet(S), NEW C \in SUBSET SUBSET S, C # {}
  PROVE  \E s \in C : IsFiniteSet(s) /\ \A t \in SUBSET s : t # s => t \notin C
<1>1. PICK T : T = {Cardinality(s) : s \in C}
  OBVIOUS
<1>2. \A s \in C : IsFiniteSet(s) /\ Cardinality(s) \in Nat
  BY FS_Subset, FS_CardinalityType
<1>3. T \in SUBSET Nat /\ T # {}
  BY <1>1, <1>2
<1>4. PICK k \in T : \A y \in T : k <= y
  BY <1>3, LeastNat
<1>5. PICK s \in C : Cardinality(s) = k
  BY <1>1, <1>4
<1>6. ASSUME NEW t \in SUBSET s, t \in C PROVE t = s
  <2>1. /\ IsFiniteSet(s) /\ IsFiniteSet(t) /\ Cardinality(s) \in Nat /\ Cardinality(t) \in Nat
        /\ Cardinality(s) <= Cardinality(t)
    BY <1>1, <1>2, <1>4, <1>5, <1>6
  <2>2. Cardinality(t) <= Cardinality(s) /\ (Cardinality(s) = Cardinality(t) => s = t)
    BY <2>1, FS_Subset
  <2>3. QED
    BY <2>1, <2>2
<1>7. QED
  BY <1>2, <1>6

\* What a sum is at a subset, and that it only depends on the sizes there.
LEMMA SumAt ==
  ASSUME NEW a, NEW S, NEW h, IsSum(h, a, S), NEW s \in SUBSET S
  PROVE  h[s] = IF s = {} THEN 0 ELSE a[Pick(s)].size + h[s \ {Pick(s)}]
  BY DEF IsSum

LEMMA SumsAgree ==
  ASSUME NEW a, NEW b, NEW S, NEW R, NEW g, NEW h, IsSum(g, a, S), IsSum(h, b, R),
         NEW T, T \subseteq S, T \subseteq R, IsFiniteSet(T),
         \A x \in T : a[x].size = b[x].size
  PROVE  g[T] = h[T]
<1>1. PICK C \in SUBSET SUBSET T : C = {s \in SUBSET T : g[s] # h[s]}
  OBVIOUS
<1>2. ASSUME C # {} PROVE FALSE
  <2>1. PICK s \in C : \A t \in SUBSET s : t # s => t \notin C
    BY <1>2, Minimal
  <2>2. s \subseteq T /\ g[s] # h[s]
    BY <1>1, <2>1
  <2>3. /\ g[s] = IF s = {} THEN 0 ELSE a[Pick(s)].size + g[s \ {Pick(s)}]
        /\ h[s] = IF s = {} THEN 0 ELSE b[Pick(s)].size + h[s \ {Pick(s)}]
    <3>1. s \in SUBSET S /\ s \in SUBSET R
      BY <2>2
    <3>2. QED
      BY <3>1, SumAt
  <2>4. s # {}
    BY <2>2, <2>3
  <2>5. Pick(s) \in s
    BY <2>4, PickIn
  <2>6. g[s \ {Pick(s)}] = h[s \ {Pick(s)}] /\ a[Pick(s)].size = b[Pick(s)].size
    BY <1>1, <2>1, <2>2, <2>5
  <2>7. QED
    BY <2>2, <2>3, <2>4, <2>6
<1>3. QED
  BY <1>1, <1>2

TheSum(a, S) == CHOOSE h : IsSum(h, a, S)

LEMMA SumExists ==
  ASSUME NEW a, NEW S, IsFiniteSet(S) PROVE IsSum(TheSum(a, S), a, S)
<1>1. PICK C \in SUBSET SUBSET S : C = {s \in SUBSET S : ~\E h : IsSum(h, a, s)}
  OBVIOUS
<1>2. ASSUME C # {} PROVE FALSE
  <2>1. PICK s \in C : IsFiniteSet(s) /\ \A t \in SUBSET s : t # s => t \notin C
    BY <1>2, Minimal
  <2>2. \A t \in SUBSET s : t # s => IsSum(TheSum(a, t), a, t)
    BY <1>1, <2>1, Zenon DEF TheSum
  <2> DEFINE V(t) == TheSum(a, t)[t]
             h == [t \in SUBSET s |-> IF t = {} THEN 0 ELSE a[Pick(t)].size + V(t \ {Pick(t)})]
  <2>3. ASSUME NEW t \in SUBSET s, t # s
        PROVE  h[t] = V(t)
    <3>1. IsSum(TheSum(a, t), a, t) /\ t \in SUBSET t
      BY <2>2, <2>3
    <3>2. V(t) = IF t = {} THEN 0 ELSE a[Pick(t)].size + TheSum(a, t)[t \ {Pick(t)}]
      BY <3>1, SumAt
    <3>3. CASE t = {}
      BY <3>2, <3>3
    <3>4. CASE t # {}
      <4>1. Pick(t) \in t
        BY <3>4, PickIn
      <4>2. PICK r : r = t \ {Pick(t)}
        OBVIOUS
      <4>3. r \in SUBSET s /\ r # s /\ r \subseteq t
        BY <4>1, <4>2
      <4>4. IsSum(TheSum(a, r), a, r) /\ IsFiniteSet(r)
        BY <2>1, <2>2, <4>3, FS_Subset
      <4>5. TheSum(a, t)[r] = TheSum(a, r)[r]
        BY <3>1, <4>3, <4>4, SumsAgree
      <4>6. QED
        BY <3>2, <3>4, <4>2, <4>5
    <3>5. QED
      BY <3>3, <3>4
  <2>4. ASSUME NEW t \in SUBSET s, t # {}
        PROVE  h[t \ {Pick(t)}] = V(t \ {Pick(t)})
    <3>1. t \ {Pick(t)} \in SUBSET s /\ t \ {Pick(t)} # s
      BY <2>4, PickIn
    <3>2. QED
      BY <2>3, <3>1
  <2>5. IsSum(h, a, s)
    BY <2>4 DEF IsSum
  <2>6. QED
    BY <1>1, <2>1, <2>5
<1>3. \E h : IsSum(h, a, S)
  BY <1>1, <1>2
<1>4. QED
  BY <1>3 DEF TheSum

\* The sum over no rows is 0; over others it is the size of one more than
\* the sum over the rest; and only the sizes of the rows count.
LEMMA BytesNone == ASSUME NEW a PROVE Bytes(a, {}) = 0
  BY SumExists, FS_EmptySet, SumAt, BytesDef DEF TheSum

LEMMA BytesSame ==
  ASSUME NEW a, NEW b, NEW S, IsFiniteSet(S), \A x \in S : a[x].size = b[x].size
  PROVE  Bytes(a, S) = Bytes(b, S)
  BY SumExists, SumsAgree, BytesDef DEF TheSum

LEMMA BytesPick ==
  ASSUME NEW a, NEW S, IsFiniteSet(S), S # {}
  PROVE  Bytes(a, S) = a[Pick(S)].size + Bytes(a, S \ {Pick(S)})
<1>1. PICK R : R = S \ {Pick(S)}
  OBVIOUS
<1>2. R \subseteq S /\ IsFiniteSet(R)
  BY <1>1, FS_Subset
<1>3. IsSum(TheSum(a, S), a, S) /\ IsSum(TheSum(a, R), a, R)
  BY <1>2, SumExists
<1>4. TheSum(a, S)[R] = TheSum(a, R)[R]
  BY <1>2, <1>3, SumsAgree
<1>5. TheSum(a, S)[S] = a[Pick(S)].size + TheSum(a, S)[R]
  BY <1>1, <1>3, SumAt
<1>6. QED
  BY <1>1, <1>4, <1>5, BytesDef DEF TheSum

Sized(a, S) == IsFiniteSet(S) /\ \A x \in S : a[x].size \in Nat

LEMMA BytesType == ASSUME NEW a, NEW S, Sized(a, S) PROVE Bytes(a, S) \in Nat
<1>1. PICK C \in SUBSET SUBSET S : C = {s \in SUBSET S : Bytes(a, s) \notin Nat}
  OBVIOUS
<1>2. ASSUME C # {} PROVE FALSE
  <2>1. PICK s \in C : IsFiniteSet(s) /\ \A t \in SUBSET s : t # s => t \notin C
    BY <1>2, Minimal DEF Sized
  <2>2. s # {}
    <3>1. Bytes(a, s) \notin Nat
      BY <1>1
    <3>2. s = {} => Bytes(a, s) = 0
      BY BytesNone, Zenon
    <3>3. QED
      BY <3>1, <3>2
  <2>3. Pick(s) \in s
    BY <2>2, PickIn
  <2>4. s \subseteq S /\ Bytes(a, s \ {Pick(s)}) \in Nat
    BY <1>1, <2>1, <2>3
  <2>5. a[Pick(s)].size \in Nat
    BY <2>3, <2>4 DEF Sized
  <2>6. Bytes(a, s) \in Nat
    BY <2>1, <2>2, <2>4, <2>5, BytesPick
  <2>7. QED
    BY <1>1, <2>1, <2>6
<1>3. QED
  BY <1>1, <1>2

\* Whichever row is taken first, the sum is the same.
LEMMA BytesTake ==
  ASSUME NEW a, NEW S, Sized(a, S), NEW x \in S
  PROVE  Bytes(a, S) = a[x].size + Bytes(a, S \ {x})
<1>1. PICK C \in SUBSET SUBSET S : C = {s \in SUBSET S : \E z \in s : Bytes(a, s) # a[z].size + Bytes(a, s \ {z})}
  OBVIOUS
<1>2. ASSUME C # {} PROVE FALSE
  <2>1. PICK s \in C : IsFiniteSet(s) /\ \A t \in SUBSET s : t # s => t \notin C
    BY <1>2, Minimal DEF Sized
  <2>2. PICK z \in s : Bytes(a, s) # a[z].size + Bytes(a, s \ {z})
    BY <1>1, <2>1
  <2>3. PICK y : y = Pick(s)
    OBVIOUS
  <2>4. y \in s /\ Bytes(a, s) = a[y].size + Bytes(a, s \ {y})
    BY <2>1, <2>2, <2>3, PickIn, BytesPick
  <2>5. y # z
    BY <2>2, <2>4
  <2>6. PICK r : r = s \ {z, y}
    OBVIOUS
  <2>7. s \subseteq S
    BY <1>1
  <2>8. Bytes(a, s \ {y}) = a[z].size + Bytes(a, r)
    <3>1. s \ {y} \in SUBSET s /\ s \ {y} # s /\ z \in s \ {y} /\ (s \ {y}) \ {z} = r
      BY <2>2, <2>4, <2>5, <2>6
    <3>2. QED
      BY <1>1, <2>1, <2>7, <3>1
  <2>9. Bytes(a, s \ {z}) = a[y].size + Bytes(a, r)
    <3>1. s \ {z} \in SUBSET s /\ s \ {z} # s /\ y \in s \ {z} /\ (s \ {z}) \ {y} = r
      BY <2>2, <2>4, <2>5, <2>6
    <3>2. QED
      BY <1>1, <2>1, <2>7, <3>1
  <2>10. Sized(a, r)
    BY <2>1, <2>6, <2>7, FS_Subset DEF Sized
  <2>11. a[y].size \in Nat /\ a[z].size \in Nat /\ Bytes(a, r) \in Nat
    BY <2>4, <2>7, <2>10, BytesType DEF Sized
  <2>12. QED
    BY <2>2, <2>4, <2>8, <2>9, <2>11
<1>3. QED
  BY <1>1, <1>2

\* Fewer rows are not more bytes.
LEMMA BytesFewer ==
  ASSUME NEW a, NEW S, Sized(a, S), NEW T \in SUBSET S
  PROVE  Bytes(a, T) <= Bytes(a, S)
<1>1. PICK C \in SUBSET SUBSET S : C = {s \in SUBSET S : T \subseteq s /\ ~(Bytes(a, T) <= Bytes(a, s))}
  OBVIOUS
<1>2. ASSUME C # {} PROVE FALSE
  <2>1. PICK s \in C : IsFiniteSet(s) /\ \A t \in SUBSET s : t # s => t \notin C
    BY <1>2, Minimal DEF Sized
  <2>2. s \subseteq S /\ T \subseteq s /\ ~(Bytes(a, T) <= Bytes(a, s))
    BY <1>1, <2>1
  <2>3. Sized(a, s) /\ Sized(a, T)
    BY <2>1, <2>2, FS_Subset DEF Sized
  <2>4. Bytes(a, T) \in Nat /\ Bytes(a, s) \in Nat
    BY <2>3, BytesType
  <2>5. PICK x \in s : x \notin T
    <3>1. T = s => Bytes(a, T) = Bytes(a, s)
      BY Zenon
    <3>2. T # s
      BY <2>2, <2>4, <3>1
    <3>3. QED
      BY <2>2, <3>2
  <2>6. PICK r : r = s \ {x}
    OBVIOUS
  <2>7. r \in SUBSET s /\ r # s /\ T \subseteq r /\ Sized(a, r)
    BY <2>2, <2>3, <2>5, <2>6, FS_Subset DEF Sized
  <2>8. Bytes(a, T) <= Bytes(a, r) /\ Bytes(a, r) \in Nat
    BY <1>1, <2>1, <2>2, <2>7, BytesType
  <2>9. Bytes(a, s) = a[x].size + Bytes(a, r) /\ a[x].size \in Nat
    BY <2>3, <2>6, BytesTake DEF Sized
  <2>10. QED
    BY <2>2, <2>4, <2>8, <2>9
<1>3. QED
  BY <1>1, <1>2

-----------------------------------------------------------------------------
(* How a step changes the rows.                                            *)

\* No row changes; who stands before an INSERT stood there already, with the
\* same upload, or has just counted.
RowsStay ==
  /\ UNCHANGED attached
  /\ \A p \in Procs : proc'[p].pc = "insert" =>
       proc'[p].att = proc[p].att /\ (proc[p].pc = "insert" \/ WithinQuota(proc[p].att))

NobodyInserts == \A p \in Procs : proc'[p].pc # "insert"

RowInserted(p) ==
  /\ proc[p].pc = "insert"
  /\ attached' = [attached EXCEPT ![proc[p].name] = proc[p].att]
  /\ NobodyInserts

RowsGo ==
  /\ \A n \in Names : attached'[n] # None => attached'[n] = attached[n]
  /\ NobodyInserts

LEMMA HolderInserts ==
  ASSUME FilesInv, NEW p \in Procs, lock = None \/ lock = p, NEW q \in Procs, q # p
  PROVE  proc[q].pc # "insert"
  BY AttachmentsAssumption DEF FilesInv, ProcessesFit, ProcessFits

\* A step of process p that is no INSERT and leaves the rows.
LEMMA OwnStep ==
  ASSUME FilesInv, UNCHANGED attached, NEW p \in Procs,
         \A q \in Procs : q # p => proc'[q] = proc[q], proc'[p].pc # "insert"
  PROVE  RowsStay
  BY DEF RowsStay

LEMMA RowsOfProcess ==
  ASSUME FilesInv, NEW p \in Procs, Progress(p) \/ Fault(p)
  PROVE  RowsStay \/ RowInserted(p) \/ RowsGo
<1>1. proc \in [Procs -> Process] /\ proc[p] \in Process
  BY DEF FilesInv, TypeOK
<1>2. CASE UploadStore(p)
  <2>1. PICK x \in Process : /\ proc' = [proc EXCEPT ![p] = x]
                             /\ x.att = proc[p].att
    BY <1>2, GoToFacts DEF UploadStore
  <2>2. UNCHANGED attached /\ WithinQuota(proc[p].att)
    BY <1>2 DEF UploadStore
  <2>3. QED
    BY <2>1, <2>2, Others DEF RowsStay
<1>3. CASE UploadInsert(p)
  <2>1. /\ proc[p].pc = "insert" /\ proc' = [proc EXCEPT ![p] = Idle]
        /\ attached' = [attached EXCEPT ![proc[p].name] = proc[p].att]
    BY <1>3 DEF UploadInsert, Finish
  <2>2. lock = p
    BY <2>1, InsertFacts
  <2>3. NobodyInserts
    BY <2>1, <2>2, Others, HolderInserts, IdleFacts DEF NobodyInserts
  <2>4. QED
    BY <2>1, <2>3 DEF RowInserted
<1>4. CASE DeleteCommit(p)
  <2>1. /\ attached' = [n \in Names |-> IF n \in AttachedTo(proc[p].doc) THEN None ELSE attached[n]]
        /\ lock = None /\ GoTo(p, "list")
    BY <1>4 DEF DeleteCommit, Unlocked
  <2>2. PICK x \in Process : proc' = [proc EXCEPT ![p] = x] /\ x.pc = "list"
    BY <2>1, GoToFacts
  <2>3. NobodyInserts
    BY <2>1, <2>2, Others, HolderInserts DEF NobodyInserts
  <2>4. QED
    BY <2>1, <2>3 DEF RowsGo
<1>5. ASSUME Progress(p) \/ Fault(p), ~UploadStore(p), ~UploadInsert(p), ~DeleteCommit(p)
      PROVE  /\ UNCHANGED attached /\ proc'[p].pc # "insert"
             /\ \A q \in Procs : q # p => proc'[q] = proc[q]
  <2>1. CASE UploadRefused(p) \/ UploadEnqueueFail(p) \/ Stop(p)
    BY <1>1, <2>1, IdleFacts DEF UploadRefused, UploadEnqueueFail, Stop, Finish
  <2>2. CASE UploadEnqueue(p)
    <3>1. PICK x : x = [Idle EXCEPT !.pc = "list"]
      OBVIOUS
    <3>2. x.pc = "list"
      BY <3>1 DEF Idle
    <3>3. proc' = [proc EXCEPT ![p] = x] /\ UNCHANGED attached
      BY <2>2, <3>1 DEF UploadEnqueue
    <3>4. QED
      BY <1>1, <3>2, <3>3
  <2>3. CASE UploadFail(p)
    <3>1. GoTo(p, "enqueue") /\ UNCHANGED attached
      BY <2>3 DEF UploadFail
    <3>2. QED
      BY <1>1, <3>1, GoToFacts, Others
  <2>4. CASE CleanupEnd(p)
    <3>1. (GoTo(p, "seed_fill") \/ Finish(p)) /\ UNCHANGED attached
      BY <2>4 DEF CleanupEnd
    <3>2. CASE GoTo(p, "seed_fill")
      BY <1>1, <3>1, <3>2, GoToFacts, Others
    <3>3. CASE Finish(p)
      BY <1>1, <3>1, <3>3, IdleFacts DEF Finish
    <3>4. QED
      BY <3>1, <3>2, <3>3
  <2>5. CASE CleanupList(p) \/ CleanupForget(p)
             \/ \E n \in Names : CleanupUnlink(p, n) \/ CleanupUnlinkFail(p, n)
    <3>1. UNCHANGED attached /\ \A q \in Procs : q # p => proc'[q] = proc[q]
      BY <1>1, <2>5 DEF CleanupList, CleanupForget, CleanupUnlink, CleanupUnlinkFail
    <3>2. proc'[p].pc \in {"unlink", "forget"}
      BY <1>1, <2>5 DEF CleanupList, CleanupForget, CleanupUnlink, CleanupUnlinkFail, Process
    <3>3. QED
      BY <3>1, <3>2
  <2>6. QED
    BY <1>5, <2>1, <2>2, <2>3, <2>4, <2>5 DEF Progress, Fault
<1>6. QED
  BY <1>2, <1>3, <1>4, <1>5, OwnStep

LEMMA RowsOfSeed ==
  ASSUME FilesInv, SeedStep PROVE RowsStay \/ RowsGo
<1>1. proc \in [Procs -> Process] /\ Cron \in Procs /\ SeedFits(Cron, proc[Cron])
  BY DEF FilesInv, TypeOK, Procs, SeedIsAlone
<1>2. CASE SeedDrop
  <2>1. attached' = [n \in Names |-> None] /\ seeding /\ GoTo(Cron, "list")
    BY <1>1, <1>2 DEF SeedDrop, SeedFits
  <2>2. \A p \in Procs : proc[p].pc # "insert"
    BY <2>1 DEF FilesInv, SeedIsAlone, SeedFits, Uploading
  <2>3. NobodyInserts
    BY <1>1, <2>1, <2>2 DEF NobodyInserts, GoTo
  <2>4. QED
    BY <2>1, <2>3 DEF RowsGo
<1>3. CASE SeedStart \/ SeedQueue \/ SeedFill
  <2>1. UNCHANGED attached /\ \A q \in Procs : q # Cron => proc'[q] = proc[q]
    BY <1>1, <1>3 DEF SeedStart, SeedQueue, SeedFill, GoTo, Finish
  <2>2. CASE SeedStart
    <3>1. PICK x : x = [Idle EXCEPT !.pc = "seed_queue", !.seed = TRUE]
      OBVIOUS
    <3>2. x.pc = "seed_queue" /\ proc' = [proc EXCEPT ![Cron] = x]
      BY <2>2, <3>1 DEF SeedStart, Idle
    <3>3. QED
      BY <1>1, <2>1, <3>2, OwnStep
  <2>3. CASE SeedQueue
    <3>1. GoTo(Cron, "seed_drop")
      BY <2>3 DEF SeedQueue
    <3>2. proc'[Cron].pc # "insert"
      BY <1>1, <3>1, GoToFacts, Others
    <3>3. QED
      BY <1>1, <2>1, <3>2, OwnStep
  <2>4. CASE SeedFill
    BY <1>1, <2>1, <2>4, IdleFacts, OwnStep DEF SeedFill, Finish
  <2>5. QED
    BY <1>3, <2>2, <2>3, <2>4
<1>4. QED
  BY <1>2, <1>3 DEF SeedStep

LEMMA RowsOfOthers ==
  ASSUME FilesInv,
         \/ UNCHANGED vars
         \/ \E d \in Docs : CreateDocument(d) \/ SetEditors(d)
         \/ \E p \in Procs : \/ CleanupRun(p)
                             \/ \E d \in Docs : DeleteCheck(p, d) \/ \E u \in Users : UploadCheck(p, u, d)
  PROVE  RowsStay
<1>1. CASE UNCHANGED vars \/ \E d \in Docs : CreateDocument(d) \/ SetEditors(d)
  BY <1>1 DEF vars, CreateDocument, SetEditors, RowsStay
<1>2. ASSUME NEW p \in Procs,
             \/ CleanupRun(p)
             \/ \E d \in Docs : DeleteCheck(p, d) \/ \E u \in Users : UploadCheck(p, u, d)
      PROVE  RowsStay
  <2>1. CASE CleanupRun(p)
    <3>1. PICK x : x = [Idle EXCEPT !.pc = "list"]
      OBVIOUS
    <3>2. x.pc = "list" /\ proc' = [proc EXCEPT ![p] = x] /\ UNCHANGED attached
      BY <2>1, <3>1 DEF CleanupRun, Idle
    <3>3. QED
      BY <3>2, Others, OwnStep
  <2>2. ASSUME NEW d \in Docs, DeleteCheck(p, d) PROVE RowsStay
    <3>1. PICK x : x = [Idle EXCEPT !.pc = "delete", !.doc = d]
      OBVIOUS
    <3>2. x.pc = "delete" /\ proc' = [proc EXCEPT ![p] = x] /\ UNCHANGED attached
      BY <2>2, <3>1 DEF DeleteCheck, Idle
    <3>3. QED
      BY <3>2, Others, OwnStep
  <2>3. ASSUME NEW d \in Docs, NEW u \in Users, UploadCheck(p, u, d) PROVE RowsStay
    <3>1. PICK x : proc' = [proc EXCEPT ![p] = x] /\ x.pc = "upload"
      <4>1. PICK s \in Sizes, n \in Names \ drawn :
              proc' = [proc EXCEPT ![p] = [Idle EXCEPT !.pc = "upload", !.name = n,
                                             !.att = [doc |-> d, by |-> u, size |-> s]]]
        BY <2>3 DEF UploadCheck
      <4>2. PICK x : x = [Idle EXCEPT !.pc = "upload", !.name = n,
                                      !.att = [doc |-> d, by |-> u, size |-> s]]
        OBVIOUS
      <4>3. x.pc = "upload"
        BY <4>2 DEF Idle
      <4>4. QED
        BY <4>1, <4>2, <4>3
    <3>2. UNCHANGED attached
      BY <2>3 DEF UploadCheck
    <3>3. QED
      BY <3>1, <3>2, Others, OwnStep
  <2>4. QED
    BY <1>2, <2>1, <2>2, <2>3
<1>3. QED
  BY <1>1, <1>2

LEMMA StepRows ==
  ASSUME FilesInv, [Next]_vars PROVE RowsStay \/ RowsGo \/ \E p \in Procs : RowInserted(p)
<1>1. CASE SeedStep
  BY <1>1, RowsOfSeed
<1>2. ASSUME NEW p \in Procs, Progress(p) \/ Fault(p)
      PROVE  RowsStay \/ RowsGo \/ \E q \in Procs : RowInserted(q)
  BY <1>2, RowsOfProcess
<1>3. QED
  BY <1>1, <1>2, RowsOfOthers DEF Next

-----------------------------------------------------------------------------
(* Limits.                                                                 *)

LEMMA RowsAreSized ==
  ASSUME FilesInv, RowsAreFinite, NEW u, NEW T \in SUBSET NamesOf(u)
  PROVE  /\ IsFiniteSet(T) /\ Cardinality(T) \in Nat
         /\ Sized(attached, T) /\ Bytes(attached, T) \in Nat
<1>1. T \subseteq {n \in Names : attached[n] # None} /\ IsFiniteSet({n \in Names : attached[n] # None})
  BY DEF RowsAreFinite, NamesOf
<1>2. IsFiniteSet(T) /\ Cardinality(T) \in Nat
  BY <1>1, FS_Subset, FS_CardinalityType
<1>3. \A n \in T : attached[n].size \in Nat
  BY <1>1, AttachmentsAssumption DEF FilesInv, TypeOK, Attachment
<1>4. Sized(attached, T)
  BY <1>2, <1>3 DEF Sized
<1>5. QED
  BY <1>2, <1>4, BytesType

LimitsInv == QuotaHolds /\ InsertsFit /\ RowsAreFinite

\* What is left of the rows keeps the limits.
LEMMA LimitsWhenRowsGo ==
  ASSUME FilesInv, LimitsInv, RowsGo PROVE LimitsInv'
<1>1. RowsAreFinite'
  <2>1. {n \in Names : attached'[n] # None} \subseteq {n \in Names : attached[n] # None}
    BY DEF RowsGo
  <2>2. QED
    BY <2>1, FS_Subset DEF LimitsInv, RowsAreFinite
<1>2. ASSUME NEW u \in Users
      PROVE  Cardinality(NamesOf(u))' <= MaxAttachments /\ BytesOf(u)' <= MaxBytes
  <2>1. PICK T : T = NamesOf(u)'
    OBVIOUS
  <2>2. T \in SUBSET NamesOf(u) /\ \A n \in T : attached'[n].size = attached[n].size
    BY <2>1 DEF NamesOf, RowsGo
  <2>3. /\ IsFiniteSet(T) /\ Cardinality(T) \in Nat /\ Bytes(attached, T) \in Nat
        /\ IsFiniteSet(NamesOf(u)) /\ Cardinality(NamesOf(u)) \in Nat
        /\ Sized(attached, NamesOf(u)) /\ Bytes(attached, NamesOf(u)) \in Nat
    BY <2>2, RowsAreSized DEF LimitsInv
  <2>4. Cardinality(T) <= Cardinality(NamesOf(u))
    BY <2>2, <2>3, FS_Subset
  <2>5. Bytes(attached', T) = Bytes(attached, T)
    BY <2>2, <2>3, BytesSame
  <2>6. Bytes(attached, T) <= Bytes(attached, NamesOf(u))
    BY <2>2, <2>3, BytesFewer
  <2>7. Cardinality(NamesOf(u)) <= MaxAttachments /\ Bytes(attached, NamesOf(u)) <= MaxBytes
    BY DEF LimitsInv, QuotaHolds, BytesOf
  <2>8. Cardinality(T) <= MaxAttachments /\ Bytes(attached', T) <= MaxBytes
    BY <2>3, <2>4, <2>5, <2>6, <2>7, AttachmentsAssumption
  <2>9. QED
    BY <2>1, <2>8 DEF BytesOf
<1>3. InsertsFit'
  BY DEF RowsGo, NobodyInserts, InsertsFit
<1>4. QED
  BY <1>1, <1>2, <1>3 DEF LimitsInv, QuotaHolds

\* The row that is inserted is counted with the others, once.
LEMMA LimitsWhenRowInserted ==
  ASSUME FilesInv, LimitsInv, NEW p \in Procs, RowInserted(p) PROVE LimitsInv'
<1>1. PICK n, a : n = proc[p].name /\ a = proc[p].att
  OBVIOUS
<1>2. /\ n \in Names /\ attached[n] = None /\ a \in Attachment /\ a # None
      /\ attached' = [attached EXCEPT ![n] = a] /\ WithinQuota(a)
  BY <1>1, InsertFacts DEF RowInserted, LimitsInv, InsertsFit
<1>3. attached'[n] = a /\ \A m \in Names : m # n => attached'[m] = attached[m]
  BY <1>2 DEF FilesInv, TypeOK
<1>4. RowsAreFinite'
  <2>1. {m \in Names : attached'[m] # None} = {m \in Names : attached[m] # None} \cup {n}
    BY <1>2, <1>3
  <2>2. QED
    BY <2>1, FS_AddElement DEF LimitsInv, RowsAreFinite
<1>5. ASSUME NEW u \in Users
      PROVE  Cardinality(NamesOf(u))' <= MaxAttachments /\ BytesOf(u)' <= MaxBytes
  <2>1. PICK S, T : S = NamesOf(u) /\ T = NamesOf(u)'
    OBVIOUS
  <2>2. /\ IsFiniteSet(S) /\ Cardinality(S) \in Nat /\ Bytes(attached, S) \in Nat
        /\ \A m \in S : attached[m].size \in Nat
    BY <2>1, RowsAreSized DEF LimitsInv, Sized
  <2>3. n \notin S /\ \A m \in S : attached'[m].size = attached[m].size
    BY <1>2, <1>3, <2>1 DEF NamesOf
  <2>4. Bytes(attached', S) = Bytes(attached, S)
    BY <2>2, <2>3, BytesSame
  <2>5. Cardinality(S) <= MaxAttachments /\ Bytes(attached, S) <= MaxBytes
    BY <2>1 DEF LimitsInv, QuotaHolds, BytesOf
  <2>6. CASE a.by # u
    <3>1. T = S
      BY <1>2, <1>3, <2>1, <2>6 DEF NamesOf
    <3>2. QED
      BY <2>1, <2>4, <2>5, <3>1 DEF BytesOf
  <2>7. CASE a.by = u
    <3>1. T = S \cup {n} /\ T \ {n} = S /\ n \in T
      BY <1>2, <1>3, <2>1, <2>3, <2>7 DEF NamesOf
    <3>2. IsFiniteSet(T) /\ Cardinality(T) = Cardinality(S) + 1
      BY <2>2, <2>3, <3>1, FS_AddElement
    <3>3. a.size \in Nat
      BY <1>2, AttachmentsAssumption DEF Attachment
    <3>4. Sized(attached', T)
      BY <1>3, <2>2, <2>3, <3>1, <3>2, <3>3 DEF Sized
    <3>5. Bytes(attached', T) = a.size + Bytes(attached', S)
      BY <1>3, <3>1, <3>4, BytesTake
    <3>6. Cardinality(S) < MaxAttachments /\ Bytes(attached, S) + a.size <= MaxBytes
      BY <1>2, <2>1, <2>7 DEF WithinQuota, BytesOf
    <3>7. Cardinality(T) <= MaxAttachments /\ Bytes(attached', T) <= MaxBytes
      BY <2>2, <2>4, <3>2, <3>3, <3>5, <3>6, AttachmentsAssumption
    <3>8. QED
      BY <2>1, <3>7 DEF BytesOf
  <2>8. QED
    BY <2>6, <2>7
<1>6. InsertsFit'
  BY DEF RowInserted, NobodyInserts, InsertsFit
<1>7. QED
  BY <1>4, <1>5, <1>6 DEF LimitsInv, QuotaHolds

LEMMA LimitsWhenRowsStay ==
  ASSUME FilesInv, LimitsInv, RowsStay PROVE LimitsInv'
<1>1. UNCHANGED attached
  BY DEF RowsStay
<1>2. \A u : NamesOf(u)' = NamesOf(u) /\ BytesOf(u)' = BytesOf(u)
  BY <1>1 DEF NamesOf, BytesOf
<1>3. QuotaHolds' /\ RowsAreFinite'
  BY <1>1, <1>2 DEF LimitsInv, QuotaHolds, RowsAreFinite
<1>4. \A a : WithinQuota(a) => WithinQuota(a)'
  BY <1>2 DEF WithinQuota
<1>5. \A p \in Procs : proc'[p].pc = "insert" => WithinQuota(proc[p].att) /\ proc'[p].att = proc[p].att
  BY DEF LimitsInv, InsertsFit, RowsStay
<1>6. InsertsFit'
  BY <1>4, <1>5 DEF InsertsFit
<1>7. QED
  BY <1>3, <1>6 DEF LimitsInv

LEMMA LimitsStep == ASSUME FilesInv, LimitsInv, [Next]_vars PROVE LimitsInv'
  BY StepRows, LimitsWhenRowsGo, LimitsWhenRowInserted, LimitsWhenRowsStay

-----------------------------------------------------------------------------
(* Documents.                                                              *)

\* A step that changes none of the tables a document hangs on.
Quiet == UNCHANGED <<docs, editors, attached, seeding>>

LEMMA StepTables ==
  ASSUME [Next]_vars
  PROVE  \/ Quiet
         \/ \E d \in Docs : CreateDocument(d) \/ SetEditors(d)
         \/ \E p \in Procs : UploadInsert(p) \/ DeleteCommit(p)
         \/ SeedStart \/ SeedDrop \/ SeedFill
<1>1. ASSUME NEW p \in Procs, Progress(p), ~UploadInsert(p), ~DeleteCommit(p) PROVE Quiet
  BY <1>1 DEF Progress, UploadStore, UploadRefused, UploadEnqueue, CleanupList, CleanupUnlink,
     CleanupForget, CleanupEnd, Quiet
<1>2. ASSUME NEW p \in Procs, Fault(p) PROVE Quiet
  BY <1>2 DEF Fault, UploadFail, UploadEnqueueFail, CleanupUnlinkFail, Stop, Quiet
<1>3. ASSUME NEW p \in Procs,
             \/ CleanupRun(p)
             \/ \E d \in Docs : DeleteCheck(p, d) \/ \E u \in Users : UploadCheck(p, u, d)
      PROVE  Quiet
  BY <1>3 DEF CleanupRun, DeleteCheck, UploadCheck, Quiet
<1>4. ASSUME SeedQueue \/ UNCHANGED vars PROVE Quiet
  BY <1>4 DEF SeedQueue, vars, Quiet
<1>5. QED
  BY <1>1, <1>2, <1>3, <1>4 DEF Next, SeedStep

\* How a process comes to a deletion, and how the seed comes past its drop.
Started(q) == proc'[q].pc = "delete" => proc'[q] = proc[q] \/ \E d \in Docs : DeleteCheck(q, d)
Emptied(q) ==
  proc'[q].seed /\ proc'[q].pc \notin {"seed_queue", "seed_drop"} =>
    SeedDrop \/ (proc[q].seed /\ proc[q].pc \notin {"seed_queue", "seed_drop"})

LEMMA MovesOfProcess ==
  ASSUME FilesInv, NEW p \in Procs, Progress(p) \/ Fault(p), NEW q \in Procs
  PROVE  Started(q) /\ Emptied(q)
<1>1. proc \in [Procs -> Process] /\ proc[p] \in Process
  BY DEF FilesInv, TypeOK
<1>2. ASSUME NEW x, proc' = [proc EXCEPT ![p] = x], x.pc # "delete",
             x.seed => proc[p].seed /\ proc[p].pc \notin {"seed_queue", "seed_drop"}
      PROVE  Started(q) /\ Emptied(q)
  BY <1>1, <1>2, Others DEF Started, Emptied
<1>3. CASE UploadRefused(p) \/ UploadInsert(p) \/ UploadEnqueueFail(p) \/ Stop(p)
  <2>1. proc' = [proc EXCEPT ![p] = Idle]
    BY <1>3 DEF UploadRefused, UploadInsert, UploadEnqueueFail, Stop, Finish
  <2>2. QED
    BY <1>2, <2>1, IdleFacts
<1>4. CASE UploadStore(p) \/ UploadFail(p) \/ DeleteCommit(p)
  <2>1. /\ proc[p].pc \in {"upload", "insert", "delete"}
        /\ GoTo(p, "insert") \/ GoTo(p, "enqueue") \/ GoTo(p, "list")
    BY <1>4 DEF UploadStore, UploadFail, DeleteCommit
  <2>2. PICK x : /\ proc' = [proc EXCEPT ![p] = x]
                 /\ x.pc \in {"insert", "enqueue", "list"} /\ x.seed = proc[p].seed
    BY <2>1, GoToFacts
  <2>3. QED
    BY <1>2, <2>1, <2>2
<1>5. CASE CleanupEnd(p)
  <2>1. proc[p].pc = "unlink" /\ (GoTo(p, "seed_fill") \/ Finish(p))
    BY <1>5 DEF CleanupEnd
  <2>2. CASE Finish(p)
    BY <1>2, <2>2, IdleFacts DEF Finish
  <2>3. CASE GoTo(p, "seed_fill")
    <3>1. PICK x : /\ proc' = [proc EXCEPT ![p] = x]
                   /\ x.pc = "seed_fill" /\ x.seed = proc[p].seed
      BY <2>3, GoToFacts
    <3>2. QED
      BY <1>2, <2>1, <3>1
  <2>4. QED
    BY <2>1, <2>2, <2>3
<1>6. CASE UploadEnqueue(p)
  <2>1. PICK x : x = [Idle EXCEPT !.pc = "list"]
    OBVIOUS
  <2>2. x.pc = "list" /\ x.seed = FALSE /\ proc' = [proc EXCEPT ![p] = x]
    BY <1>6, <2>1 DEF UploadEnqueue, Idle
  <2>3. QED
    BY <1>2, <2>2
<1>7. CASE CleanupList(p) \/ CleanupForget(p)
           \/ \E n \in Names : CleanupUnlink(p, n) \/ CleanupUnlinkFail(p, n)
  <2>1. /\ proc[p].pc \in {"list", "unlink", "forget"}
        /\ \A r \in Procs : r # p => proc'[r] = proc[r]
    BY <1>1, <1>7 DEF CleanupList, CleanupForget, CleanupUnlink, CleanupUnlinkFail
  <2>2. proc'[p].pc \in {"unlink", "forget"} /\ proc'[p].seed = proc[p].seed
    BY <1>1, <1>7 DEF CleanupList, CleanupForget, CleanupUnlink, CleanupUnlinkFail, Process
  <2>3. QED
    BY <2>1, <2>2 DEF Started, Emptied
<1>8. QED
  BY <1>3, <1>4, <1>5, <1>6, <1>7 DEF Progress, Fault

LEMMA MovesOfSeed ==
  ASSUME FilesInv, SeedStep, NEW q \in Procs PROVE Started(q) /\ Emptied(q)
<1>1. proc \in [Procs -> Process] /\ Cron \in Procs
  BY DEF FilesInv, TypeOK, Procs
<1>2. CASE SeedStart
  <2>1. PICK x : x = [Idle EXCEPT !.pc = "seed_queue", !.seed = TRUE]
    OBVIOUS
  <2>2. x.pc = "seed_queue" /\ proc' = [proc EXCEPT ![Cron] = x]
    BY <1>2, <2>1 DEF SeedStart, Idle
  <2>3. QED
    BY <1>1, <2>2, Others DEF Started, Emptied
<1>3. CASE SeedQueue
  <2>1. GoTo(Cron, "seed_drop")
    BY <1>3 DEF SeedQueue
  <2>2. PICK x : proc' = [proc EXCEPT ![Cron] = x] /\ x.pc = "seed_drop"
    BY <1>1, <2>1, GoToFacts
  <2>3. QED
    BY <1>1, <2>2, Others DEF Started, Emptied
<1>4. CASE SeedDrop
  <2>1. GoTo(Cron, "list")
    BY <1>4 DEF SeedDrop
  <2>2. PICK x : proc' = [proc EXCEPT ![Cron] = x] /\ x.pc = "list"
    BY <1>1, <2>1, GoToFacts
  <2>3. QED
    BY <1>1, <1>4, <2>2, Others DEF Started, Emptied
<1>5. CASE SeedFill
  <2>1. proc' = [proc EXCEPT ![Cron] = Idle]
    BY <1>5 DEF SeedFill, Finish
  <2>2. QED
    BY <1>1, <2>1, Others, IdleFacts DEF Started, Emptied
<1>6. QED
  BY <1>2, <1>3, <1>4, <1>5 DEF SeedStep

LEMMA MovesOfOthers ==
  ASSUME FilesInv, NEW q \in Procs,
         \/ UNCHANGED vars
         \/ \E d \in Docs : CreateDocument(d) \/ SetEditors(d)
         \/ \E p \in Procs : \/ CleanupRun(p)
                             \/ \E d \in Docs : DeleteCheck(p, d) \/ \E u \in Users : UploadCheck(p, u, d)
  PROVE  Started(q) /\ Emptied(q)
<1>1. CASE UNCHANGED vars \/ \E d \in Docs : CreateDocument(d) \/ SetEditors(d)
  BY <1>1 DEF vars, CreateDocument, SetEditors, Started, Emptied
<1>2. ASSUME NEW p \in Procs, NEW x, proc' = [proc EXCEPT ![p] = x], ~x.seed,
             x.pc = "delete" => \E d \in Docs : DeleteCheck(p, d)
      PROVE  Started(q) /\ Emptied(q)
  BY <1>2, Others DEF Started, Emptied
<1>3. ASSUME NEW p \in Procs, CleanupRun(p) PROVE Started(q) /\ Emptied(q)
  <2>1. PICK x : x = [Idle EXCEPT !.pc = "list"]
    OBVIOUS
  <2>2. x.pc = "list" /\ x.seed = FALSE /\ proc' = [proc EXCEPT ![p] = x]
    BY <1>3, <2>1 DEF CleanupRun, Idle
  <2>3. QED
    BY <1>2, <2>2
<1>4. ASSUME NEW p \in Procs, NEW d \in Docs, DeleteCheck(p, d) PROVE Started(q) /\ Emptied(q)
  <2>1. PICK x : x = [Idle EXCEPT !.pc = "delete", !.doc = d]
    OBVIOUS
  <2>2. x.seed = FALSE /\ proc' = [proc EXCEPT ![p] = x]
    BY <1>4, <2>1 DEF DeleteCheck, Idle
  <2>3. QED
    BY <1>2, <1>4, <2>2
<1>5. ASSUME NEW p \in Procs, NEW d \in Docs, NEW u \in Users, UploadCheck(p, u, d)
      PROVE  Started(q) /\ Emptied(q)
  <2>1. PICK s \in Sizes, n \in Names \ drawn :
          proc' = [proc EXCEPT ![p] = [Idle EXCEPT !.pc = "upload", !.name = n,
                                         !.att = [doc |-> d, by |-> u, size |-> s]]]
    BY <1>5 DEF UploadCheck
  <2>2. PICK x : x = [Idle EXCEPT !.pc = "upload", !.name = n,
                                  !.att = [doc |-> d, by |-> u, size |-> s]]
    OBVIOUS
  <2>3. x.pc = "upload" /\ x.seed = FALSE /\ proc' = [proc EXCEPT ![p] = x]
    BY <2>1, <2>2 DEF Idle
  <2>4. QED
    BY <1>2, <2>3
<1>6. QED
  BY <1>1, <1>3, <1>4, <1>5

LEMMA StepMoves ==
  ASSUME FilesInv, [Next]_vars, NEW q \in Procs PROVE Started(q) /\ Emptied(q)
<1>1. ASSUME NEW p \in Procs, Progress(p) \/ Fault(p) PROVE Started(q) /\ Emptied(q)
  BY <1>1, MovesOfProcess
<1>2. QED
  BY <1>1, MovesOfSeed, MovesOfOthers DEF Next

\* What the open service and the seed under way rely on in a step.
LEMMA SeedFacts ==
  ASSUME FilesInv
  PROVE  /\ SeedDrop \/ SeedFill => seeding
         /\ \A p \in Procs : UploadInsert(p) \/ DeleteCommit(p) => ~seeding
<1>1. \A p \in Procs : SeedFits(p, proc[p])
  BY DEF FilesInv, SeedIsAlone
<1>2. Cron \in Procs
  BY DEF Procs
<1>3. QED
  BY <1>1, <1>2 DEF SeedFits, SeedDrop, SeedFill, UploadInsert, DeleteCommit, Uploading

LEMMA SeedEmptiedStep ==
  ASSUME FilesInv, SeedEmptied, FilesInv', [Next]_vars PROVE SeedEmptied'
<1>1. SUFFICES ASSUME NEW p \in Procs, proc'[p].seed, proc'[p].pc \notin {"seed_queue", "seed_drop"},
                      NEW d \in Docs
               PROVE  editors'[d] = {}
  BY DEF SeedEmptied
<1>2. CASE SeedDrop
  BY <1>2 DEF SeedDrop
<1>3. CASE ~SeedDrop
  <2>1. proc[p].seed /\ proc[p].pc \notin {"seed_queue", "seed_drop"}
    BY <1>1, <1>3, StepMoves DEF Emptied
  <2>2. editors[d] = {} /\ seeding
    BY <2>1 DEF SeedEmptied, FilesInv, SeedIsAlone, SeedFits
  <2>3. UNCHANGED editors
    BY <1>3, <2>2, StepTables, SeedFacts
    DEF Quiet, CreateDocument, SetEditors, SeedStart, SeedFill
  <2>4. QED
    BY <2>2, <2>3
<1>4. QED
  BY <1>2, <1>3

\* What is there hangs on documents that are there, step by step.
RowsOnLive == \A n \in Names : attached[n] # None => docs[attached[n].doc] = "live"
OthersHaveNone == \A d \in Docs : docs[d] # "live" => editors[d] = {}
DeletesOld == \A p \in Procs : proc[p].pc = "delete" => docs[proc[p].doc] # "new"

LEMMA DocumentParts == RowsHaveDocuments <=> (~seeding => RowsOnLive /\ OthersHaveNone /\ DeletesOld)
  BY DEF RowsHaveDocuments, RowsOnLive, OthersHaveNone, DeletesOld

\* A document that was once created is never new again while the service is open.
LEMMA DeletesOldStep ==
  ASSUME FilesInv, FilesInv', DeletesOld, [Next]_vars,
         \A d \in Docs : docs[d] # "new" => docs'[d] # "new"
  PROVE  DeletesOld'
<1>1. SUFFICES ASSUME NEW p \in Procs, proc'[p].pc = "delete" PROVE docs'[proc'[p].doc] # "new"
  BY DEF DeletesOld
<1>2. proc'[p].doc \in Docs
  <2>1. ProcessFits(p, proc[p])' /\ proc'[p] \in Process
    BY DEF FilesInv, ProcessesFit, TypeOK
  <2>2. QED
    BY <1>1, <2>1, ProcessFields DEF ProcessFits
<1>3. CASE proc'[p] = proc[p]
  BY <1>1, <1>2, <1>3 DEF DeletesOld
<1>4. ASSUME NEW d \in Docs, DeleteCheck(p, d) PROVE docs'[proc'[p].doc] # "new"
  <2>1. PICK x : x = [Idle EXCEPT !.pc = "delete", !.doc = d]
    OBVIOUS
  <2>2. x.doc = d /\ proc' = [proc EXCEPT ![p] = x] /\ docs[d] = "live"
    BY <1>4, <2>1 DEF DeleteCheck, Idle
  <2>3. proc'[p].doc = d
    BY <2>2, Others
  <2>4. QED
    BY <2>2, <2>3
<1>5. QED
  BY <1>1, <1>3, <1>4, StepMoves DEF Started

LEMMA RowsHaveDocumentsStep ==
  ASSUME FilesInv, RowsHaveDocuments, SeedEmptied, FilesInv', [Next]_vars PROVE RowsHaveDocuments'
<1>1. SUFFICES ASSUME ~seeding' PROVE RowsOnLive' /\ OthersHaveNone' /\ DeletesOld'
  BY DEF RowsHaveDocuments, RowsOnLive, OthersHaveNone, DeletesOld
<1>2. /\ docs \in [Docs -> {"new", "live", "deleted"}] /\ editors \in [Docs -> SUBSET Users]
      /\ attached \in [Names -> Attachment \cup {None}]
      /\ \A a \in Attachment : a.doc \in Docs
  BY DEF FilesInv, TypeOK, Attachment
<1>3. CASE seeding
  <2>1. SeedFill
    BY <1>1, <1>3, StepTables, SeedFacts
    DEF Quiet, CreateDocument, SetEditors, UploadInsert, DeleteCommit, SeedStart, SeedDrop
  <2>2. Cron \in Procs /\ proc[Cron].pc = "seed_fill" /\ SeedFits(Cron, proc[Cron])
    BY <2>1 DEF SeedFill, Procs, FilesInv, SeedIsAlone
  <2>3. proc[Cron].seed
    BY <2>2 DEF SeedFits
  <2>4. RowsOnLive'
    BY <2>1, <2>2, <2>3 DEF SeedFits, SeedFill, RowsOnLive
  <2>5. OthersHaveNone'
    BY <2>1, <2>2, <2>3 DEF SeedEmptied, SeedFill, OthersHaveNone
  <2>6. \A p \in Procs : proc'[p].pc # "delete"
    BY <1>3, StepMoves DEF Started, DeleteCheck, FilesInv, SeedIsAlone, SeedFits
  <2>7. QED
    BY <2>4, <2>5, <2>6 DEF DeletesOld
<1>4. CASE ~seeding
  <2>1. RowsOnLive /\ OthersHaveNone /\ DeletesOld
    BY <1>4, DocumentParts
  <2>2. CASE Quiet
    BY <2>1, <2>2, DeletesOldStep DEF Quiet, RowsOnLive, OthersHaveNone
  <2>3. ASSUME NEW d \in Docs, CreateDocument(d) \/ SetEditors(d)
        PROVE  RowsOnLive' /\ OthersHaveNone' /\ DeletesOld'
    <3>1. /\ UNCHANGED attached
          /\ \A e \in Docs : docs[e] = "live" => docs'[e] = "live"
          /\ \A e \in Docs : docs[e] # "new" => docs'[e] # "new"
          /\ \A e \in Docs : docs'[e] # "live" => docs[e] # "live" /\ editors'[e] = editors[e]
      BY <1>2, <2>3 DEF CreateDocument, SetEditors
    <3>2. RowsOnLive' /\ OthersHaveNone'
      BY <1>2, <2>1, <3>1 DEF RowsOnLive, OthersHaveNone
    <3>3. QED
      BY <2>1, <3>1, <3>2, DeletesOldStep
  <2>4. ASSUME NEW p \in Procs, UploadInsert(p)
        PROVE  RowsOnLive' /\ OthersHaveNone' /\ DeletesOld'
    <3>1. /\ proc[p].pc = "insert" /\ docs[proc[p].att.doc] = "live" /\ UNCHANGED <<docs, editors>>
          /\ attached' = [attached EXCEPT ![proc[p].name] = proc[p].att]
      BY <2>4 DEF UploadInsert
    <3>2. RowsOnLive' /\ OthersHaveNone'
      BY <1>2, <2>1, <3>1, InsertFacts DEF RowsOnLive, OthersHaveNone
    <3>3. QED
      BY <2>1, <3>1, <3>2, DeletesOldStep
  <2>5. ASSUME NEW p \in Procs, DeleteCommit(p)
        PROVE  RowsOnLive' /\ OthersHaveNone' /\ DeletesOld'
    <3>1. PICK d : d = proc[p].doc
      OBVIOUS
    <3>2. /\ attached' = [n \in Names |-> IF n \in AttachedTo(d) THEN None ELSE attached[n]]
          /\ editors' = [editors EXCEPT ![d] = {}] /\ docs' = [docs EXCEPT ![d] = "deleted"]
      BY <2>5, <3>1 DEF DeleteCommit
    <3>3. RowsOnLive'
      BY <1>2, <2>1, <3>2 DEF RowsOnLive, AttachedTo
    <3>4. OthersHaveNone'
      BY <1>2, <2>1, <3>2 DEF OthersHaveNone
    <3>5. \A e \in Docs : docs[e] # "new" => docs'[e] # "new"
      BY <1>2, <3>2
    <3>6. QED
      BY <2>1, <3>3, <3>4, <3>5, DeletesOldStep
  <2>6. QED
    BY <1>1, <1>4, <2>2, <2>3, <2>4, <2>5, StepTables, SeedFacts DEF SeedStart
<1>5. QED
  BY <1>3, <1>4

-----------------------------------------------------------------------------
(* The invariant.                                                          *)

LEMMA InitRows == Init => RowsInv
<1> SUFFICES ASSUME Init PROVE RowsInv
  OBVIOUS
<1>1. \A p \in Procs : proc[p].pc = "idle" /\ proc[p].seed = FALSE
  BY IdleFacts DEF Init
<1>2. {n \in Names : attached[n] # None} = {} /\ \A u \in Users : NamesOf(u) = {}
  BY DEF Init, NamesOf
<1>3. RowsAreFinite
  BY <1>2, FS_EmptySet DEF RowsAreFinite
<1>4. ASSUME NEW u \in Users PROVE Cardinality(NamesOf(u)) <= MaxAttachments /\ BytesOf(u) <= MaxBytes
  <2>1. NamesOf(u) = {} => BytesOf(u) = 0
    BY BytesNone, Zenon DEF BytesOf
  <2>2. NamesOf(u) = {} => Cardinality(NamesOf(u)) = 0
    BY FS_EmptySet, Zenon
  <2>3. QED
    BY <1>2, <2>1, <2>2, AttachmentsAssumption
<1>5. InsertsFit /\ SeedEmptied
  BY <1>1 DEF InsertsFit, SeedEmptied
<1>6. RowsHaveDocuments
  BY <1>1 DEF RowsHaveDocuments, Init
<1>7. QED
  BY <1>3, <1>4, <1>5, <1>6 DEF RowsInv, QuotaHolds

LEMMA RowsStep == FilesInv /\ FilesInv' /\ RowsInv /\ [Next]_vars => RowsInv'
<1>1. RowsInv <=> LimitsInv /\ RowsHaveDocuments /\ SeedEmptied
  BY DEF RowsInv, LimitsInv
<1>2. LimitsInv' /\ RowsHaveDocuments' /\ SeedEmptied' => RowsInv'
  BY DEF RowsInv, LimitsInv
<1>3. QED
  BY <1>1, <1>2, LimitsStep, RowsHaveDocumentsStep, SeedEmptiedStep

\* The inductive invariant of rows, files, limits, documents and the seed.
THEOREM Invariance == Spec => []IInv
<1>1. Spec => []RowsInv
  BY InitRows, RowsStep, FilesInvariance, PTL DEF Spec
<1>2. FilesInv /\ RowsInv => IInv
  BY DEF IInv
<1>3. QED
  BY <1>1, <1>2, FilesInvariance, PTL

\* However many uploads of a user overlap, each was counted against the limits
\* under the lock that it keeps until its row is there.
THEOREM NobodyExceedsLimits == Spec => []QuotaHolds
<1>1. IInv => QuotaHolds
  BY DEF IInv, RowsInv
<1>2. QED
  BY <1>1, Invariance, PTL

-----------------------------------------------------------------------------
(* Attachments implements AttachmentStore.                                 *)

\* While the service runs, every row can be downloaded; while it does not,
\* nothing can.
LEMMA Visible ==
  ASSUME FilesInv
  PROVE  /\ ~seeding => VisibleDocs = docs /\ VisibleEditors = editors /\ VisibleFiles = attached
         /\ seeding => /\ VisibleDocs = [d \in Docs |-> "new"] /\ VisibleEditors = [d \in Docs |-> {}]
                        /\ VisibleFiles = [n \in Names |-> None]
  BY DEF FilesInv, TypeOK, AttachmentsHaveFiles, VisibleDocs, VisibleEditors, VisibleFiles, Downloadable

LEMMA VisibleNext ==
  ASSUME FilesInv'
  PROVE  /\ ~seeding' => VisibleDocs' = docs' /\ VisibleEditors' = editors' /\ VisibleFiles' = attached'
         /\ seeding' => /\ VisibleDocs' = [d \in Docs |-> "new"] /\ VisibleEditors' = [d \in Docs |-> {}]
                         /\ VisibleFiles' = [n \in Names |-> None]
  BY DEF FilesInv, TypeOK, AttachmentsHaveFiles, VisibleDocs, VisibleEditors, VisibleFiles, Downloadable

LEMMA SameBytes == ASSUME NEW a, NEW S PROVE Store!Bytes(a, S) = Bytes(a, S)
  BY Zenon DEF Bytes, Store!Bytes, MapThenSumSet, MapThenFoldSet, Store!MapThenSumSet, Store!MapThenFoldSet

LEMMA SameCardinality == ASSUME NEW S PROVE Store!Cardinality(S) = Cardinality(S)
  BY Zenon DEF Cardinality, Store!Cardinality

LEMMA StoreInit == Init => Store!Init
<1> SUFFICES ASSUME Init PROVE Store!Init
  OBVIOUS
<1>1. ~seeding /\ docs = [d \in Docs |-> IF d \in SeedDocs THEN "live" ELSE "new"]
  BY DEF Init
<1>2. VisibleDocs = docs /\ VisibleEditors = editors
  BY <1>1 DEF VisibleDocs, VisibleEditors
<1>3. VisibleFiles = [n \in Names |-> None] /\ editors = [d \in Docs |-> {}]
  BY DEF Init, VisibleFiles, Downloadable
<1>4. QED
  BY <1>1, <1>2, <1>3 DEF Store!Init, Store!AtFirst, Store!Nothing

LEMMA StoreLimits ==
  ASSUME FilesInv', ~seeding', QuotaHolds', NEW u \in Users PROVE Store!WithinLimits(u)'
<1>1. VisibleFiles' = attached'
  BY VisibleNext
<1>2. Store!FilesOf(u)' = NamesOf(u)'
  BY <1>1 DEF Store!FilesOf, NamesOf
<1>3. /\ Store!Bytes(attached', NamesOf(u)') = Bytes(attached', NamesOf(u)')
      /\ Store!Cardinality(NamesOf(u)') = Cardinality(NamesOf(u)')
  BY SameBytes, SameCardinality
<1>4. Cardinality(NamesOf(u)') <= MaxAttachments /\ Bytes(attached', NamesOf(u)') <= MaxBytes
  BY DEF QuotaHolds, BytesOf
<1>5. QED
  BY <1>1, <1>2, <1>3, <1>4 DEF Store!WithinLimits

\* A row that is inserted is an attachment that appears.
LEMMA StoreAttach ==
  ASSUME FilesInv, FilesInv', QuotaHolds', NEW p \in Procs, UploadInsert(p) PROVE Store!Next
<1>1. PICK n, a : n = proc[p].name /\ a = proc[p].att
  OBVIOUS
<1>2. /\ proc[p].pc = "insert" /\ docs[a.doc] = "live" /\ UNCHANGED <<docs, editors, seeding>>
      /\ attached' = [attached EXCEPT ![n] = a]
  BY <1>1 DEF UploadInsert
<1>3. /\ n \in Names /\ a \in Attachment /\ ~seeding /\ attached[n] = None /\ CanEdit(a.doc, a.by)
  BY <1>1, <1>2, InsertFacts
<1>4. a.by \in Users
  BY <1>3 DEF Attachment
<1>5. Store!WithinLimits(a.by)'
  BY <1>2, <1>3, <1>4, StoreLimits
<1>6. /\ VisibleDocs = docs /\ VisibleEditors = editors /\ VisibleFiles = attached
      /\ VisibleDocs' = docs' /\ VisibleEditors' = editors' /\ VisibleFiles' = attached'
  BY <1>2, <1>3, Visible, VisibleNext
<1>7. Store!Attach(n, a)
  BY <1>2, <1>3, <1>5, <1>6 DEF Store!Attach, CanEdit
<1>8. a \in Store!Attachment
  BY <1>3 DEF Attachment, Store!Attachment
<1>9. QED
  BY <1>3, <1>7, <1>8 DEF Store!Next

\* The transaction of a deletion is one event, or none if the document was gone.
LEMMA StoreDelete ==
  ASSUME IInv, IInv', NEW p \in Procs, DeleteCommit(p) PROVE [Store!Next]_(Store!vars)
<1>1. PICK d : d = proc[p].doc
  OBVIOUS
<1>2. /\ proc[p].pc = "delete" /\ UNCHANGED seeding
      /\ attached' = [n \in Names |-> IF n \in AttachedTo(d) THEN None ELSE attached[n]]
      /\ editors' = [editors EXCEPT ![d] = {}] /\ docs' = [docs EXCEPT ![d] = "deleted"]
  BY <1>1 DEF DeleteCommit
<1>3. FilesInv /\ FilesInv' /\ RowsHaveDocuments
  BY DEF IInv, RowsInv
<1>4. ~seeding
  BY <1>3, SeedFacts
<1>5. d \in Docs /\ docs[d] # "new"
  <2>1. ProcessFits(p, proc[p]) /\ proc[p] \in Process
    BY <1>3 DEF FilesInv, ProcessesFit, TypeOK
  <2>2. QED
    BY <1>1, <1>2, <1>3, <1>4, <2>1, ProcessFields DEF ProcessFits, RowsHaveDocuments
<1>6. /\ docs \in [Docs -> {"new", "live", "deleted"}] /\ editors \in [Docs -> SUBSET Users]
      /\ attached \in [Names -> Attachment \cup {None}]
  BY <1>3 DEF FilesInv, TypeOK
<1>7. /\ VisibleDocs = docs /\ VisibleEditors = editors /\ VisibleFiles = attached
      /\ VisibleDocs' = docs' /\ VisibleEditors' = editors' /\ VisibleFiles' = attached'
  BY <1>2, <1>3, <1>4, Visible, VisibleNext
<1>8. CASE docs[d] = "live"
  <2>1. Store!FilesIn(d) = AttachedTo(d)
    BY <1>7 DEF Store!FilesIn, AttachedTo
  <2>2. Store!Delete(d)
    BY <1>2, <1>4, <1>7, <1>8, <2>1 DEF Store!Delete
  <2>3. QED
    BY <1>5, <2>2 DEF Store!Next
<1>9. CASE docs[d] = "deleted"
  <2>1. editors[d] = {} /\ AttachedTo(d) = {}
    BY <1>3, <1>4, <1>5, <1>9 DEF RowsHaveDocuments, AttachedTo
  <2>2. docs' = docs /\ editors' = editors /\ attached' = attached
    BY <1>2, <1>5, <1>6, <1>9, <2>1
  <2>3. QED
    BY <1>2, <1>7, <2>2 DEF Store!vars
<1>10. QED
  BY <1>5, <1>6, <1>8, <1>9

\* A seed closes the store, and opens it again with nothing attached.
LEMMA StoreSeed ==
  ASSUME IInv, IInv', SeedStart \/ SeedDrop \/ SeedFill PROVE [Store!Next]_(Store!vars)
<1>1. FilesInv /\ FilesInv' /\ SeedEmptied
  BY DEF IInv, RowsInv
<1>2. CASE SeedStart
  <2>1. seeding' = TRUE
    BY <1>2 DEF SeedStart
  <2>2. Store!Close
    BY <1>1, <2>1, VisibleNext DEF Store!Close, Store!Nothing
  <2>3. QED
    BY <2>2 DEF Store!Next
<1>3. CASE SeedDrop
  <2>1. seeding /\ seeding' = seeding
    BY <1>1, <1>3, SeedFacts DEF SeedDrop
  <2>2. QED
    BY <1>1, <2>1, Visible, VisibleNext DEF Store!vars
<1>4. CASE SeedFill
  <2>1. /\ Cron \in Procs /\ proc[Cron].pc = "seed_fill" /\ SeedFits(Cron, proc[Cron])
        /\ docs' = [d \in Docs |-> IF d \in SeedDocs THEN "live" ELSE "new"]
        /\ seeding' = FALSE /\ UNCHANGED <<editors, attached>>
    BY <1>1, <1>4 DEF SeedFill, Procs, FilesInv, SeedIsAlone
  <2>2. seeding /\ \A n \in Names : attached[n] = None
    BY <2>1 DEF SeedFits
  <2>3. \A d \in Docs : editors[d] = {}
    BY <1>1, <2>1 DEF SeedEmptied, SeedFits
  <2>4. attached = [n \in Names |-> None] /\ editors = [d \in Docs |-> {}]
    BY <1>1, <2>2, <2>3 DEF FilesInv, TypeOK
  <2>5. Store!Reopen
    BY <1>1, <2>1, <2>2, <2>4, Visible, VisibleNext DEF Store!Reopen, Store!AtFirst
  <2>6. QED
    BY <2>5 DEF Store!Next
<1>5. QED
  BY <1>2, <1>3, <1>4

LEMMA StoreDocuments ==
  ASSUME IInv, IInv', NEW d \in Docs, CreateDocument(d) \/ SetEditors(d) PROVE Store!Next
<1>1. FilesInv /\ FilesInv' /\ ~seeding /\ ~seeding'
  BY DEF IInv, CreateDocument, SetEditors
<1>2. /\ VisibleDocs = docs /\ VisibleEditors = editors /\ VisibleFiles = attached
      /\ VisibleDocs' = docs' /\ VisibleEditors' = editors' /\ VisibleFiles' = attached'
  BY <1>1, Visible, VisibleNext
<1>3. CASE CreateDocument(d)
  <2>1. Store!Create(d)
    BY <1>1, <1>2, <1>3 DEF CreateDocument, Store!Create
  <2>2. QED
    BY <2>1 DEF Store!Next
<1>4. CASE SetEditors(d)
  <2>1. Store!SetEditors(d)
    BY <1>1, <1>2, <1>4 DEF SetEditors, Store!SetEditors
  <2>2. QED
    BY <2>1 DEF Store!Next
<1>5. QED
  BY <1>3, <1>4

LEMMA StoreStep == IInv /\ IInv' /\ [Next]_vars => [Store!Next]_(Store!vars)
<1> SUFFICES ASSUME IInv, IInv', [Next]_vars PROVE [Store!Next]_(Store!vars)
  OBVIOUS
<1>1. FilesInv /\ FilesInv' /\ QuotaHolds'
  BY DEF IInv, RowsInv
<1>2. CASE Quiet
  <2>1. UNCHANGED <<VisibleDocs, VisibleEditors, VisibleFiles, seeding>>
    BY <1>1, <1>2, Visible, VisibleNext DEF Quiet
  <2>2. QED
    BY <2>1 DEF Store!vars
<1>3. ASSUME NEW p \in Procs, UploadInsert(p) \/ DeleteCommit(p) PROVE [Store!Next]_(Store!vars)
  BY <1>1, <1>3, StoreAttach, StoreDelete
<1>4. QED
  BY <1>2, <1>3, StoreDocuments, StoreSeed, StepTables

\* What can be downloaded changes only as AttachmentStore says, whatever
\* uploads, deletions, cleanups, faults, stops and seeds overlap.
THEOREM StoreRefinement == Spec => ImplementsStore
<1>1. QED
  BY StoreInit, StoreStep, Invariance, PTL DEF Spec, ImplementsStore, Store!Spec
=============================================================================
