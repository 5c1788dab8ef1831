--------------------------- MODULE StartupProofs ----------------------------
(***************************************************************************)
(* What Startup promises, for any number of commands, shares and           *)
(* attachments, and any number of starts, seeds and kills.                 *)
(*                                                                         *)
(* ServiceGetsFurther carries the schema: nothing drops a table while the  *)
(* service is starting or up (PlacesFit), so whatever it has come past is  *)
(* still there. NewestIsLatest carries the permissions: the newest row of  *)
(* a document and user is the one that counts, before the rows are unique  *)
(* and after.                                                              *)
(***************************************************************************)
EXTENDS Startup, TLAPS

-----------------------------------------------------------------------------
(* How a process moves.                                                    *)

Pcs == {"idle", "tables", "look", "alter", "data", "commit", "drop", "up"}

\* Only process p moves.
OnlyMoves(p) ==
  /\ proc' \in [Procs -> Place]
  /\ \A q \in Procs : q # p => proc'[q] = proc[q]

\* A process that is set to a record is there, and no other has moved.
LEMMA SetPlace ==
  ASSUME proc \in [Procs -> Place], NEW p \in Procs, NEW r \in Place,
         proc' = [proc EXCEPT ![p] = r]
  PROVE  OnlyMoves(p) /\ proc'[p] = r
  BY DEF OnlyMoves

\* The fields of a place.
LEMMA PlaceFields ==
  ASSUME proc \in [Procs -> Place], NEW p \in Procs
  PROVE  proc[p].pc \in Pcs /\ proc[p].at \in 1 .. 4 /\ proc[p].second \in BOOLEAN
  BY DEF Place, Pcs

\* Go sets the place and leaves second as it was.
LEMMA GoFacts ==
  ASSUME proc \in [Procs -> Place], NEW p \in Procs, NEW pc \in Pcs, NEW at \in 1 .. 4,
         Go(p, pc, at)
  PROVE  /\ OnlyMoves(p)
         /\ proc'[p].pc = pc /\ proc'[p].at = at /\ proc'[p].second = proc[p].second
<1> DEFINE r == [pc |-> pc, at |-> at, second |-> proc[p].second]
<1>1. r \in Place
  BY PlaceFields DEF Place, Pcs
<1>2. OnlyMoves(p) /\ proc'[p] = r
  BY <1>1, SetPlace DEF Go
<1>3. QED
  BY <1>2

\* A loop goes on or ends.
LEMMA OnwardFacts ==
  ASSUME proc \in [Procs -> Place], NEW p \in Procs, NEW pc \in Pcs, NEW next \in Pcs,
         Onward(p, pc, next)
  PROVE  /\ OnlyMoves(p)
         /\ \/ proc[p].at < 4 /\ proc'[p].pc = pc /\ proc'[p].at = proc[p].at + 1
            \/ proc[p].at = 4 /\ proc'[p].pc = next /\ proc'[p].at = 1
         /\ proc'[p].second = proc[p].second
<1>0. proc[p].at \in 1 .. 4
  BY PlaceFields
<1>1. CASE proc[p].at < 4
  <2>1. proc[p].at + 1 \in 1 .. 4 /\ Go(p, pc, proc[p].at + 1)
    BY <1>0, <1>1 DEF Onward
  <2>2. QED
    BY <2>1, <1>1, GoFacts
<1>2. CASE ~(proc[p].at < 4)
  <2>1. proc[p].at = 4 /\ 1 \in 1 .. 4 /\ Go(p, next, 1)
    BY <1>0, <1>2 DEF Onward
  <2>2. QED
    BY <2>1, GoFacts
<1>3. QED
  BY <1>1, <1>2

LEMMA IdleIsPlace == Idle \in Place /\ Idle.pc = "idle" /\ Idle.second = FALSE
  BY DEF Idle, Place

LEMMA LeaveFacts ==
  ASSUME proc \in [Procs -> Place], NEW p \in Procs, Leave(p)
  PROVE  OnlyMoves(p) /\ proc'[p] = Idle
  BY IdleIsPlace, SetPlace DEF Leave

LEMMA StartedFacts ==
  ASSUME proc \in [Procs -> Place], NEW p \in Procs, Started(p)
  PROVE  /\ OnlyMoves(p)
         /\ \/ p = Service /\ proc'[p].pc = "up" /\ proc'[p].second = proc[p].second
            \/ p = Seed /\ proc'[p].pc = "drop" /\ proc'[p].second = proc[p].second
            \/ proc'[p] = Idle
<1>0. 1 \in 1 .. 4 /\ "up" \in Pcs /\ "drop" \in Pcs
  BY DEF Pcs
<1>1. CASE p = Service /\ Go(p, "up", 1)
  BY <1>0, <1>1, GoFacts
<1>2. CASE p = Seed /\ Go(p, "drop", 1)
  BY <1>0, <1>2, GoFacts
<1>3. CASE Leave(p)
  BY <1>3, LeaveFacts
<1>4. QED
  BY <1>1, <1>2, <1>3 DEF Started

LEMMA ProcsFacts == Service \in Procs /\ Seed \in Procs /\ Service # Seed /\ None \notin Procs
  BY StartupAssumption DEF Procs

-----------------------------------------------------------------------------
(* Types.                                                                  *)

LEMMA ListFacts ==
  /\ \A i \in 1 .. 4 : Script[i] \in Tables /\ Added[i] \in Columns
  /\ ColumnsOf(Script[1]) \subseteq Columns
  /\ Shipped \subseteq Columns
  BY DEF Tables, Columns, ColumnsOf, Shipped

LEMMA RowFacts ==
  ASSUME TypeOK, NEW i \in Ids
  PROVE  IsRow(i) => shares[i] \in ShareRow /\ shares[i].pair \in Pairs /\ shares[i].level \in Levels
  BY DEF TypeOK, IsRow, ShareRow

LEMMA InitType == Init => TypeOK
<1> SUFFICES ASSUME Init PROVE TypeOK
  OBVIOUS
<1>1. tables \in SUBSET Tables /\ columns \in SUBSET Columns /\ indexed \in BOOLEAN
  BY DEF Init
<1>2. shares \in [Ids -> ShareRow \cup {None}] /\ lastShare \in 0 .. MaxShares
  BY StartupAssumption DEF Init
<1>3. lock \in Procs \cup {None} /\ proc \in [Procs -> Place]
  BY IdleIsPlace DEF Init
<1>4. starts \in 0 .. MaxStarts /\ seeds \in 0 .. MaxSeeds /\ kills \in 0 .. MaxKills
  BY StartupAssumption DEF Init
<1>5. uncounted \in SUBSET Attachments /\ latest \in [Pairs -> Levels \cup {None}]
  BY DEF Init
<1>6. QED
  BY <1>1, <1>2, <1>3, <1>4, <1>5 DEF TypeOK

\* What no step but a request or the seed's DROP changes has its type.
LEMMA RowsKeepType ==
  ASSUME TypeOK, UNCHANGED rowVars
  PROVE  /\ shares' \in [Ids -> ShareRow \cup {None}] /\ lastShare' \in 0 .. MaxShares
         /\ uncounted' \in SUBSET Attachments /\ latest' \in [Pairs -> Levels \cup {None}]
  BY DEF TypeOK, rowVars

LEMMA CountersKeepType ==
  ASSUME TypeOK, UNCHANGED counters
  PROVE  starts' \in 0 .. MaxStarts /\ seeds' \in 0 .. MaxSeeds /\ kills' \in 0 .. MaxKills
  BY DEF TypeOK, counters

LEMMA SchemaKeepsType ==
  ASSUME TypeOK, UNCHANGED schemaVars
  PROVE  tables' \in SUBSET Tables /\ columns' \in SUBSET Columns /\ indexed' \in BOOLEAN
  BY DEF TypeOK, schemaVars

LEMMA TypeCreateTable ==
  ASSUME TypeOK, NEW p \in Procs, CreateTable(p) PROVE TypeOK'
<1>1. proc' \in [Procs -> Place]
  BY OnwardFacts DEF CreateTable, TypeOK, Pcs, OnlyMoves
<1>2. proc[p].at \in 1 .. 4
  BY PlaceFields DEF TypeOK
<1>3. tables' \in SUBSET Tables /\ columns' \in SUBSET Columns
  BY <1>2, ListFacts DEF CreateTable, TypeOK
<1>4. indexed' \in BOOLEAN /\ lock' \in Procs \cup {None}
  BY DEF CreateTable, TypeOK
<1>5. QED
  BY <1>1, <1>3, <1>4, RowsKeepType, CountersKeepType DEF CreateTable, TypeOK

LEMMA TypeLook ==
  ASSUME TypeOK, NEW p \in Procs, Look(p) PROVE TypeOK'
<1>1. proc[p].at \in 1 .. 4
  BY PlaceFields DEF TypeOK
<1>2. proc' \in [Procs -> Place]
  BY <1>1, OnwardFacts, GoFacts DEF Look, TypeOK, Pcs, OnlyMoves
<1>3. lock' \in Procs \cup {None}
  BY DEF Look, TypeOK
<1>4. QED
  BY <1>2, <1>3, SchemaKeepsType, RowsKeepType, CountersKeepType DEF Look, TypeOK

LEMMA TypeAlter ==
  ASSUME TypeOK, NEW p \in Procs, Alter(p) PROVE TypeOK'
<1>1. proc[p].at \in 1 .. 4
  BY PlaceFields DEF TypeOK
<1>2. proc' \in [Procs -> Place]
  BY OnwardFacts DEF Alter, TypeOK, Pcs, OnlyMoves
<1>3. tables' \in SUBSET Tables /\ columns' \in SUBSET Columns
  BY <1>1, ListFacts DEF Alter, TypeOK
<1>4. indexed' \in BOOLEAN /\ lock' \in Procs \cup {None}
  BY DEF Alter, TypeOK
<1>5. QED
  BY <1>2, <1>3, <1>4, RowsKeepType, CountersKeepType DEF Alter, TypeOK

LEMMA TypeBeginData ==
  ASSUME TypeOK, NEW p \in Procs, BeginData(p) PROVE TypeOK'
<1>1. proc' \in [Procs -> Place]
  <2>1. 1 \in 1 .. 4 /\ "commit" \in Pcs
    BY DEF Pcs
  <2>2. QED
    BY <2>1, GoFacts DEF BeginData, TypeOK, OnlyMoves
<1>2. lock' \in Procs \cup {None}
  BY DEF BeginData
<1>3. QED
  BY <1>1, <1>2, SchemaKeepsType, RowsKeepType, CountersKeepType DEF BeginData, TypeOK

LEMMA TypeCommit ==
  ASSUME TypeOK, NEW p \in Procs, Commit(p) PROVE TypeOK'
<1>1. proc' \in [Procs -> Place]
  BY StartedFacts DEF Commit, TypeOK, OnlyMoves
<1>2. shares' \in [Ids -> ShareRow \cup {None}]
  BY DEF Commit, TypeOK
<1>3. indexed' \in BOOLEAN /\ lock' \in Procs \cup {None} /\ uncounted' \in SUBSET Attachments
  BY DEF Commit, TypeOK
<1>4. tables' \in SUBSET Tables /\ columns' \in SUBSET Columns
      /\ lastShare' \in 0 .. MaxShares /\ latest' \in [Pairs -> Levels \cup {None}]
  BY DEF Commit, TypeOK
<1>5. QED
  BY <1>1, <1>2, <1>3, <1>4, CountersKeepType DEF Commit, TypeOK

LEMMA DropFacts ==
  ASSUME TypeOK, NEW p \in Procs, Drop(p)
  PROVE  /\ OnlyMoves(p)
         /\ proc'[p].pc \in {"drop", "tables"}
         /\ proc'[p].pc = "drop" => proc'[p].second = FALSE
<1> DEFINE on == [pc |-> "drop", at |-> proc[p].at + 1, second |-> FALSE]
           again == [pc |-> "tables", at |-> 1, second |-> TRUE]
<1>1. proc[p].at \in 1 .. 4
  BY PlaceFields DEF TypeOK
<1>2. (proc[p].at < 4 => on \in Place) /\ again \in Place
  BY <1>1 DEF Place
<1>3. proc \in [Procs -> Place]
  BY DEF TypeOK
<1>4. CASE proc[p].at < 4
  <2>1. proc' = [proc EXCEPT ![p] = on]
    BY <1>4 DEF Drop
  <2>2. OnlyMoves(p) /\ proc'[p] = on
    BY <2>1, <1>2, <1>3, <1>4, SetPlace
  <2>3. QED
    BY <2>2
<1>5. CASE ~(proc[p].at < 4)
  <2>1. proc' = [proc EXCEPT ![p] = again]
    BY <1>5 DEF Drop
  <2>2. OnlyMoves(p) /\ proc'[p] = again
    BY <2>1, <1>2, <1>3, SetPlace
  <2>3. QED
    BY <2>2
<1>6. QED
  BY <1>4, <1>5

LEMMA TypeDrop ==
  ASSUME TypeOK, NEW p \in Procs, Drop(p) PROVE TypeOK'
<1>1. proc' \in [Procs -> Place]
  BY DropFacts DEF OnlyMoves
<1>2. tables' \in SUBSET Tables /\ columns' \in SUBSET Columns /\ indexed' \in BOOLEAN
  BY DEF Drop, TypeOK
<1>3. shares' \in [Ids -> ShareRow \cup {None}] /\ latest' \in [Pairs -> Levels \cup {None}]
  BY DEF Drop, TypeOK
<1>4. lastShare' \in 0 .. MaxShares /\ uncounted' \in SUBSET Attachments
  BY StartupAssumption DEF Drop, TypeOK
<1>5. lock' \in Procs \cup {None}
  BY DEF Drop, TypeOK
<1>6. QED
  BY <1>1, <1>2, <1>3, <1>4, <1>5, CountersKeepType DEF Drop, TypeOK

LEMMA TypeFail ==
  ASSUME TypeOK, NEW p \in Procs, Fail(p) PROVE TypeOK'
<1>1. proc' \in [Procs -> Place]
  BY LeaveFacts DEF Fail, TypeOK, OnlyMoves
<1>2. lock' \in Procs \cup {None}
  BY DEF Fail, TypeOK
<1>3. QED
  BY <1>1, <1>2, SchemaKeepsType, RowsKeepType, CountersKeepType DEF Fail, TypeOK

LEMMA TypeKill ==
  ASSUME TypeOK, NEW p \in Procs, Kill(p) PROVE TypeOK'
<1>1. proc' \in [Procs -> Place]
  BY LeaveFacts DEF Kill, TypeOK, OnlyMoves
<1>2. lock' \in Procs \cup {None}
  BY DEF Kill, TypeOK
<1>3. starts' \in 0 .. MaxStarts /\ seeds' \in 0 .. MaxSeeds /\ kills' \in 0 .. MaxKills
  BY StartupAssumption DEF Kill, TypeOK
<1>4. QED
  BY <1>1, <1>2, <1>3, SchemaKeepsType, RowsKeepType DEF Kill, TypeOK

\* The place at which ensure_schema begins.
LEMMA FirstPlace == 1 \in 1 .. 4 /\ "tables" \in Pcs
  BY DEF Pcs

LEMMA TypeBeginService ==
  ASSUME TypeOK, BeginService PROVE TypeOK'
<1>1. proc' \in [Procs -> Place]
  BY FirstPlace, ProcsFacts, GoFacts DEF BeginService, TypeOK, OnlyMoves
<1>2. lock' \in Procs \cup {None}
  BY DEF BeginService, TypeOK
<1>3. QED
  BY <1>1, <1>2, SchemaKeepsType, RowsKeepType, CountersKeepType DEF BeginService, TypeOK

LEMMA TypeBeginCommand ==
  ASSUME TypeOK, NEW p \in Procs, BeginCommand(p) PROVE TypeOK'
<1>1. proc' \in [Procs -> Place]
  BY FirstPlace, GoFacts DEF BeginCommand, TypeOK, OnlyMoves
<1>2. lock' \in Procs \cup {None}
  BY DEF BeginCommand, TypeOK
<1>3. starts' \in 0 .. MaxStarts /\ seeds' \in 0 .. MaxSeeds /\ kills' \in 0 .. MaxKills
  BY StartupAssumption DEF BeginCommand, TypeOK
<1>4. QED
  BY <1>1, <1>2, <1>3, SchemaKeepsType, RowsKeepType DEF BeginCommand, TypeOK

LEMMA BeginSeedFacts ==
  ASSUME TypeOK, BeginSeed
  PROVE  /\ proc' \in [Procs -> Place]
         /\ proc'[Service] = Idle
         /\ proc'[Seed].pc = "tables" /\ proc'[Seed].second = FALSE
         /\ \A q \in Procs \ {Service, Seed} : proc'[q] = proc[q]
<1> DEFINE r == [pc |-> "tables", at |-> 1, second |-> FALSE]
<1>1. r \in Place
  BY DEF Place
<1>2. proc' = [proc EXCEPT ![Service] = Idle, ![Seed] = r]
  BY DEF BeginSeed
<1>3. QED
  BY <1>1, <1>2, IdleIsPlace, ProcsFacts DEF TypeOK

LEMMA TypeBeginSeed ==
  ASSUME TypeOK, BeginSeed PROVE TypeOK'
<1>1. proc' \in [Procs -> Place]
  BY BeginSeedFacts
<1>2. lock' \in Procs \cup {None}
  BY DEF BeginSeed, TypeOK
<1>3. starts' \in 0 .. MaxStarts /\ seeds' \in 0 .. MaxSeeds /\ kills' \in 0 .. MaxKills
  BY StartupAssumption DEF BeginSeed, TypeOK
<1>4. QED
  BY <1>1, <1>2, <1>3, SchemaKeepsType, RowsKeepType DEF BeginSeed, TypeOK

LEMMA TypeShare ==
  ASSUME TypeOK, NEW q \in Pairs, NEW level \in Levels, Share(q, level) PROVE TypeOK'
<1>1. [pair |-> q, level |-> level] \in ShareRow
  BY DEF ShareRow
<1>2. shares' \in [Ids -> ShareRow \cup {None}]
  BY <1>1 DEF Share, TypeOK
<1>3. lastShare' \in 0 .. MaxShares
  BY StartupAssumption DEF Share, TypeOK
<1>4. latest' \in [Pairs -> Levels \cup {None}]
  BY DEF Share, TypeOK
<1>5. uncounted' \in SUBSET Attachments /\ lock' \in Procs \cup {None} /\ proc' \in [Procs -> Place]
  BY DEF Share, TypeOK
<1>6. QED
  BY <1>2, <1>3, <1>4, <1>5, SchemaKeepsType, CountersKeepType DEF Share, TypeOK

LEMMA TypeRevoke ==
  ASSUME TypeOK, NEW q \in Pairs, Revoke(q) PROVE TypeOK'
<1>1. shares' \in [Ids -> ShareRow \cup {None}] /\ latest' \in [Pairs -> Levels \cup {None}]
  BY DEF Revoke, TypeOK
<1>2. uncounted' \in SUBSET Attachments /\ lock' \in Procs \cup {None} /\ proc' \in [Procs -> Place]
      /\ lastShare' \in 0 .. MaxShares
  BY DEF Revoke, TypeOK
<1>3. QED
  BY <1>1, <1>2, SchemaKeepsType, CountersKeepType DEF Revoke, TypeOK

LEMMA TypeStep == TypeOK /\ [Next]_vars => TypeOK'
<1> SUFFICES ASSUME TypeOK, [Next]_vars PROVE TypeOK'
  OBVIOUS
<1>1. CASE BeginService
  BY <1>1, TypeBeginService
<1>2. CASE BeginSeed
  BY <1>2, TypeBeginSeed
<1>3. ASSUME NEW p \in Procs, BeginCommand(p) \/ Step(p) \/ Kill(p) PROVE TypeOK'
  BY <1>3, TypeBeginCommand, TypeKill, TypeCreateTable, TypeLook, TypeAlter, TypeBeginData,
     TypeCommit, TypeDrop, TypeFail DEF Step
<1>4. ASSUME NEW q \in Pairs, Revoke(q) \/ \E level \in Levels : Share(q, level) PROVE TypeOK'
  BY <1>4, TypeRevoke, TypeShare
<1>5. CASE UNCHANGED vars
  BY <1>5 DEF TypeOK, vars
<1>6. QED
  BY <1>1, <1>2, <1>3, <1>4, <1>5 DEF Next

-----------------------------------------------------------------------------
(* Who is where.                                                           *)

\* A step of ensure_schema or of the seed moves a process that is running,
\* only the seed to a DROP, and only the service to serving.
LEMMA StepMoves ==
  ASSUME TypeOK, PlacesFit, NEW p \in Procs, Step(p)
  PROVE  /\ OnlyMoves(p) /\ proc[p] # Idle
         /\ proc'[p].pc = "drop" \/ proc'[p].second => p = Seed
         /\ proc'[p].pc = "up" => p = Service
<1>0. proc \in [Procs -> Place] /\ proc[p].at \in 1 .. 4
  BY PlaceFields DEF TypeOK
<1>1. proc[p].pc = "drop" \/ proc[p].second => p = Seed
  BY DEF PlacesFit
<1>2. {"tables", "look", "alter", "data", "commit"} \subseteq Pcs /\ 1 \in 1 .. 4
  BY DEF Pcs
<1>3. CASE CreateTable(p)
  <2>1. Onward(p, "tables", "look") /\ proc[p].pc = "tables"
    BY <1>3 DEF CreateTable
  <2>2. QED
    BY <2>1, <1>0, <1>1, <1>2, OnwardFacts, IdleIsPlace
<1>4. CASE Look(p)
  <2>1. (Onward(p, "look", "data") \/ Go(p, "alter", proc[p].at)) /\ proc[p].pc = "look"
    BY <1>4 DEF Look
  <2>2. QED
    BY <2>1, <1>0, <1>1, <1>2, OnwardFacts, GoFacts, IdleIsPlace
<1>5. CASE Alter(p)
  <2>1. Onward(p, "look", "data") /\ proc[p].pc = "alter"
    BY <1>5 DEF Alter
  <2>2. QED
    BY <2>1, <1>0, <1>1, <1>2, OnwardFacts, IdleIsPlace
<1>6. CASE BeginData(p)
  <2>1. Go(p, "commit", 1) /\ proc[p].pc = "data"
    BY <1>6 DEF BeginData
  <2>2. QED
    BY <2>1, <1>0, <1>1, <1>2, GoFacts, IdleIsPlace
<1>7. CASE Commit(p)
  <2>1. Started(p) /\ proc[p].pc = "commit"
    BY <1>7 DEF Commit
  <2>2. QED
    BY <2>1, <1>0, <1>1, StartedFacts, IdleIsPlace
<1>8. CASE Drop(p)
  <2>1. proc[p].pc = "drop"
    BY <1>8 DEF Drop
  <2>2. QED
    BY <2>1, <1>8, <1>1, DropFacts, IdleIsPlace
<1>9. CASE Fail(p)
  <2>1. Leave(p) /\ proc[p].pc # "idle"
    BY <1>9 DEF Fail
  <2>2. QED
    BY <2>1, <1>0, LeaveFacts, IdleIsPlace
<1>10. QED
  BY <1>3, <1>4, <1>5, <1>6, <1>7, <1>8, <1>9 DEF Step

\* A running process may go anywhere PlacesFit allows it.
LEMMA RunningFits ==
  ASSUME PlacesFit, NEW p \in Procs, OnlyMoves(p), proc[p] # Idle,
         proc'[p].pc = "drop" \/ proc'[p].second => p = Seed,
         proc'[p].pc = "up" => p = Service
  PROVE  PlacesFit'
  BY ProcsFacts DEF PlacesFit, OnlyMoves

LEMMA PlacesStep == TypeOK /\ PlacesFit /\ [Next]_vars => PlacesFit'
<1> SUFFICES ASSUME TypeOK, PlacesFit, [Next]_vars PROVE PlacesFit'
  OBVIOUS
<1>0. proc \in [Procs -> Place]
  BY DEF TypeOK
<1>1. CASE BeginService
  <2>1. proc[Service] = Idle /\ proc[Seed] = Idle /\ Go(Service, "tables", 1)
    BY <1>1 DEF BeginService
  <2>2. OnlyMoves(Service) /\ proc'[Service].pc = "tables" /\ proc'[Service].second = FALSE
    BY <2>1, <1>0, FirstPlace, ProcsFacts, GoFacts, IdleIsPlace
  <2>3. QED
    BY <2>1, <2>2, ProcsFacts DEF PlacesFit, OnlyMoves
<1>2. CASE BeginSeed
  BY <1>2, BeginSeedFacts, IdleIsPlace, ProcsFacts DEF PlacesFit
<1>3. ASSUME NEW p \in Procs, BeginCommand(p) PROVE PlacesFit'
  <2>1. p # Service /\ p # Seed /\ proc[p] = Idle /\ Go(p, "tables", 1)
    BY <1>3, StartupAssumption DEF BeginCommand
  <2>2. OnlyMoves(p) /\ proc'[p].pc = "tables" /\ proc'[p].second = FALSE
    BY <2>1, <1>0, FirstPlace, GoFacts, IdleIsPlace
  <2>3. QED
    BY <2>1, <2>2, ProcsFacts DEF PlacesFit, OnlyMoves
<1>4. ASSUME NEW p \in Procs, Step(p) PROVE PlacesFit'
  BY <1>4, StepMoves, RunningFits
<1>5. ASSUME NEW p \in Procs, Kill(p) PROVE PlacesFit'
  <2>1. Leave(p) /\ proc[p] # Idle
    BY <1>5 DEF Kill
  <2>2. QED
    BY <2>1, <1>0, LeaveFacts, IdleIsPlace, RunningFits
<1>6. ASSUME NEW q \in Pairs, Revoke(q) \/ \E level \in Levels : Share(q, level) PROVE PlacesFit'
  BY <1>6 DEF Revoke, Share, PlacesFit
<1>7. CASE UNCHANGED vars
  BY <1>7 DEF PlacesFit, vars
<1>8. QED
  BY <1>1, <1>2, <1>3, <1>4, <1>5, <1>6, <1>7 DEF Next

-----------------------------------------------------------------------------
(* Who holds the lock.                                                     *)

\* A process that is not in the transaction before or after leaves the lock.
LEMMA OutsideLock ==
  ASSUME LockIsHeld, NEW p \in Procs, OnlyMoves(p), UNCHANGED lock,
         proc[p].pc # "commit", proc'[p].pc # "commit"
  PROVE  LockIsHeld'
  BY DEF LockIsHeld, OnlyMoves

\* A process that ends gives the lock back.
LEMMA LeaverUnlocks ==
  ASSUME TypeOK, LockIsHeld, NEW p \in Procs, Leave(p), lock' = IF lock = p THEN None ELSE lock
  PROVE  LockIsHeld'
<1>1. OnlyMoves(p) /\ proc'[p].pc # "commit"
  BY LeaveFacts, IdleIsPlace DEF TypeOK
<1>2. QED
  BY <1>1, ProcsFacts DEF LockIsHeld, OnlyMoves

LEMMA LockStep == TypeOK /\ LockIsHeld /\ [Next]_vars => LockIsHeld'
<1> SUFFICES ASSUME TypeOK, LockIsHeld, [Next]_vars PROVE LockIsHeld'
  OBVIOUS
<1>0. proc \in [Procs -> Place]
  BY DEF TypeOK
<1>1. {"tables", "look", "alter", "data", "commit"} \subseteq Pcs /\ 1 \in 1 .. 4
  BY DEF Pcs
<1>2. CASE BeginService
  <2>1. UNCHANGED lock /\ proc[Service].pc = "idle" /\ Go(Service, "tables", 1)
    BY <1>2, IdleIsPlace DEF BeginService
  <2>2. QED
    BY <2>1, <1>0, <1>1, GoFacts, ProcsFacts, OutsideLock
<1>3. CASE BeginSeed
  <2>1. lock' = IF lock = Service THEN None ELSE lock
    BY <1>3 DEF BeginSeed
  <2>2. proc[Seed].pc # "commit"
    BY <1>3, IdleIsPlace DEF BeginSeed
  <2>3. QED
    BY <2>1, <2>2, <1>3, BeginSeedFacts, IdleIsPlace, ProcsFacts DEF LockIsHeld
<1>4. ASSUME NEW p \in Procs, BeginCommand(p) PROVE LockIsHeld'
  <2>1. UNCHANGED lock /\ proc[p].pc = "idle" /\ Go(p, "tables", 1)
    BY <1>4, IdleIsPlace DEF BeginCommand
  <2>2. QED
    BY <2>1, <1>0, <1>1, GoFacts, OutsideLock
<1>5. ASSUME NEW p \in Procs, CreateTable(p) PROVE LockIsHeld'
  <2>1. UNCHANGED lock /\ proc[p].pc = "tables" /\ Onward(p, "tables", "look")
    BY <1>5 DEF CreateTable
  <2>2. QED
    BY <2>1, <1>0, <1>1, OnwardFacts, OutsideLock
<1>6. ASSUME NEW p \in Procs, Look(p) PROVE LockIsHeld'
  <2>1. /\ UNCHANGED lock /\ proc[p].pc = "look" /\ proc[p].at \in 1 .. 4
        /\ Onward(p, "look", "data") \/ Go(p, "alter", proc[p].at)
    BY <1>6, <1>0, PlaceFields DEF Look
  <2>2. QED
    BY <2>1, <1>0, <1>1, OnwardFacts, GoFacts, OutsideLock
<1>7. ASSUME NEW p \in Procs, Alter(p) PROVE LockIsHeld'
  <2>1. UNCHANGED lock /\ proc[p].pc = "alter" /\ Onward(p, "look", "data")
    BY <1>7 DEF Alter
  <2>2. QED
    BY <2>1, <1>0, <1>1, OnwardFacts, OutsideLock
<1>8. ASSUME NEW p \in Procs, BeginData(p) PROVE LockIsHeld'
  <2>1. lock = None /\ lock' = p /\ Go(p, "commit", 1)
    BY <1>8 DEF BeginData, Unlocked
  <2>2. OnlyMoves(p) /\ proc'[p].pc = "commit"
    BY <2>1, <1>0, <1>1, GoFacts
  <2>3. QED
    BY <2>1, <2>2, ProcsFacts DEF LockIsHeld, OnlyMoves
<1>9. ASSUME NEW p \in Procs, Commit(p) PROVE LockIsHeld'
  <2>1. proc[p].pc = "commit" /\ lock' = None /\ Started(p)
    BY <1>9 DEF Commit
  <2>2. OnlyMoves(p) /\ proc'[p].pc # "commit"
    BY <2>1, <1>0, StartedFacts, IdleIsPlace
  <2>3. QED
    BY <2>1, <2>2, ProcsFacts DEF LockIsHeld, OnlyMoves
<1>10. ASSUME NEW p \in Procs, Drop(p) PROVE LockIsHeld'
  <2>1. UNCHANGED lock /\ proc[p].pc = "drop"
    BY <1>10 DEF Drop
  <2>2. QED
    BY <2>1, <1>10, DropFacts, OutsideLock
<1>11. ASSUME NEW p \in Procs, Fail(p) \/ Kill(p) PROVE LockIsHeld'
  BY <1>11, LeaverUnlocks DEF Fail, Kill
<1>12. ASSUME NEW q \in Pairs, Revoke(q) \/ \E level \in Levels : Share(q, level)
       PROVE  LockIsHeld'
  BY <1>12 DEF Revoke, Share, LockIsHeld
<1>13. CASE UNCHANGED vars
  BY <1>13 DEF LockIsHeld, vars
<1>14. QED
  BY <1>2, <1>3, <1>4, <1>5, <1>6, <1>7, <1>8, <1>9, <1>10, <1>11, <1>12, <1>13 DEF Next, Step

-----------------------------------------------------------------------------
(* What the service has come past.                                         *)

\* While the service stands still and nothing is dropped, all of it stays.
LEMMA OthersKeep ==
  ASSUME TypeOK, TypeOK', ServiceGetsFurther, proc'[Service] = proc[Service],
         tables \subseteq tables', columns \subseteq columns', indexed => indexed',
         uncounted' \subseteq uncounted
  PROVE  ServiceGetsFurther'
<1>1. tables' \subseteq Tables /\ columns' \subseteq Columns
  BY DEF TypeOK
<1>2. QED
  BY <1>1 DEF ServiceGetsFurther

\* A service that is down has come past nothing.
LEMMA DownKeeps ==
  ASSUME proc'[Service] = Idle
  PROVE  ServiceGetsFurther'
  BY IdleIsPlace DEF ServiceGetsFurther

\* A step of one process, whose place is the only one that changes.
LEMMA FurtherStep ==
  ASSUME TypeOK, TypeOK', PlacesFit, ServiceGetsFurther, NEW p \in Procs, Step(p)
  PROVE  ServiceGetsFurther'
<1>0. /\ proc \in [Procs -> Place] /\ Service \in Procs /\ proc[p].at \in 1 .. 4
      /\ tables' \subseteq Tables /\ columns' \subseteq Columns
      /\ tables \subseteq Tables /\ columns \subseteq Columns
  BY PlaceFields, ProcsFacts DEF TypeOK
<1>1. OnlyMoves(p)
  BY StepMoves
<1>2. p # Service => proc'[Service] = proc[Service]
  BY <1>0, <1>1 DEF OnlyMoves
<1>3. {"tables", "look", "alter", "data", "commit"} \subseteq Pcs /\ 1 \in 1 .. 4
  BY DEF Pcs
<1>4. CASE CreateTable(p)
  <2>1. /\ tables \subseteq tables' /\ columns \subseteq columns' /\ Script[proc[p].at] \in tables'
        /\ UNCHANGED <<indexed, uncounted>>
        /\ proc[p].pc = "tables" /\ Onward(p, "tables", "look")
    BY <1>4 DEF CreateTable, rowVars
  <2>2. CASE p # Service
    BY <2>1, <2>2, <1>2, OthersKeep
  <2>3. CASE p = Service
    <3>1. \A i \in 1 .. 4 : i <= proc[p].at => Script[i] \in tables'
      BY <2>1, <2>3, <1>0 DEF ServiceGetsFurther
    <3>2. \/ proc'[p].pc = "tables" /\ proc'[p].at = proc[p].at + 1
          \/ proc[p].at = 4 /\ proc'[p].pc = "look" /\ proc'[p].at = 1
      BY <2>1, <1>0, <1>3, OnwardFacts
    <3>3. proc[p].at = 4 => tables' = Tables
      <4>1. proc[p].at = 4 => \A i \in 1 .. 4 : Script[i] \in tables'
        BY <3>1
      <4>2. QED
        BY <4>1, <1>0 DEF Tables
    <3>4. QED
      BY <3>1, <3>2, <3>3, <2>3, <1>0 DEF ServiceGetsFurther
  <2>4. QED
    BY <2>2, <2>3
<1>5. CASE Look(p)
  <2>1. /\ UNCHANGED <<tables, columns, indexed, uncounted>> /\ proc[p].pc = "look"
        /\ IF Added[proc[p].at] \in columns THEN Onward(p, "look", "data")
                                           ELSE Go(p, "alter", proc[p].at)
    BY <1>5 DEF Look, rowVars, schemaVars
  <2>2. CASE p # Service
    BY <2>1, <2>2, <1>2, OthersKeep
  <2>3. CASE p = Service
    <3>1. tables' = Tables /\ \A i \in 1 .. 4 : i < proc[p].at => Added[i] \in columns'
      BY <2>1, <2>3 DEF ServiceGetsFurther
    <3>2. CASE Added[proc[p].at] \in columns
      <4>1. \A i \in 1 .. 4 : i <= proc[p].at => Added[i] \in columns'
        BY <3>1, <3>2, <2>1, <1>0
      <4>2. \/ proc'[p].pc = "look" /\ proc'[p].at = proc[p].at + 1
            \/ proc[p].at = 4 /\ proc'[p].pc = "data" /\ proc'[p].at = 1
        BY <2>1, <3>2, <1>0, <1>3, OnwardFacts
      <4>3. proc[p].at = 4 => columns' = Columns
        <5>1. proc[p].at = 4 => \A i \in 1 .. 4 : Added[i] \in columns'
          BY <4>1
        <5>2. QED
          BY <5>1, <1>0 DEF Columns
      <4>4. QED
        BY <4>1, <4>2, <4>3, <3>1, <2>3, <1>0 DEF ServiceGetsFurther
    <3>3. CASE Added[proc[p].at] \notin columns
      <4>1. proc'[p].pc = "alter" /\ proc'[p].at = proc[p].at
        BY <2>1, <3>3, <1>0, <1>3, GoFacts
      <4>2. QED
        BY <4>1, <3>1, <2>3 DEF ServiceGetsFurther
    <3>4. QED
      BY <3>2, <3>3
  <2>4. QED
    BY <2>2, <2>3
<1>6. CASE Alter(p)
  <2>1. /\ UNCHANGED <<tables, indexed, uncounted>> /\ columns \subseteq columns'
        /\ Added[proc[p].at] \in columns'
        /\ proc[p].pc = "alter" /\ Onward(p, "look", "data")
    BY <1>6 DEF Alter, rowVars
  <2>2. CASE p # Service
    BY <2>1, <2>2, <1>2, OthersKeep
  <2>3. CASE p = Service
    <3>1. tables' = Tables /\ \A i \in 1 .. 4 : i <= proc[p].at => Added[i] \in columns'
      BY <2>1, <2>3, <1>0 DEF ServiceGetsFurther
    <3>2. \/ proc'[p].pc = "look" /\ proc'[p].at = proc[p].at + 1
          \/ proc[p].at = 4 /\ proc'[p].pc = "data" /\ proc'[p].at = 1
      BY <2>1, <1>0, <1>3, OnwardFacts
    <3>3. proc[p].at = 4 => columns' = Columns
      <4>1. proc[p].at = 4 => \A i \in 1 .. 4 : Added[i] \in columns'
        BY <3>1
      <4>2. QED
        BY <4>1, <1>0 DEF Columns
    <3>4. QED
      BY <3>1, <3>2, <3>3, <2>3, <1>0 DEF ServiceGetsFurther
  <2>4. QED
    BY <2>2, <2>3
<1>7. CASE BeginData(p)
  <2>1. /\ UNCHANGED <<tables, columns, indexed, uncounted>>
        /\ proc[p].pc = "data" /\ Go(p, "commit", 1)
    BY <1>7 DEF BeginData, rowVars, schemaVars
  <2>2. proc'[p].pc = "commit"
    BY <2>1, <1>0, <1>3, GoFacts
  <2>3. QED
    BY <2>1, <2>2, <1>2, OthersKeep DEF ServiceGetsFurther
<1>8. CASE Commit(p)
  <2>1. /\ UNCHANGED <<tables, columns>> /\ indexed' = TRUE /\ uncounted' = uncounted \cap Lost
        /\ proc[p].pc = "commit" /\ Started(p)
    BY <1>8 DEF Commit
  <2>2. CASE p # Service
    BY <2>1, <2>2, <1>2, OthersKeep
  <2>3. CASE p = Service
    <3>1. proc'[p].pc = "up" \/ proc'[p] = Idle
      BY <2>1, <2>3, <1>0, StartedFacts, ProcsFacts
    <3>2. tables' = Tables /\ columns' = Columns /\ uncounted' \subseteq Lost
      BY <2>1, <2>3 DEF ServiceGetsFurther
    <3>3. QED
      BY <3>1, <3>2, <2>1, <2>3, IdleIsPlace DEF ServiceGetsFurther
  <2>4. QED
    BY <2>2, <2>3
<1>9. CASE Drop(p)
  <2>1. proc[p].pc = "drop"
    BY <1>9 DEF Drop
  <2>2. p = Seed /\ proc[Seed] # Idle
    BY <2>1, IdleIsPlace DEF PlacesFit
  <2>3. proc'[Service] = Idle
    BY <2>2, <1>2, ProcsFacts DEF PlacesFit
  <2>4. QED
    BY <2>3, DownKeeps
<1>10. CASE Fail(p)
  <2>1. UNCHANGED <<tables, columns, indexed, uncounted>> /\ Leave(p)
    BY <1>10 DEF Fail, rowVars, schemaVars
  <2>2. p = Service => proc'[Service] = Idle
    BY <2>1, <1>0, LeaveFacts
  <2>3. QED
    BY <2>1, <2>2, <1>2, OthersKeep, DownKeeps
<1>11. QED
  BY <1>4, <1>5, <1>6, <1>7, <1>8, <1>9, <1>10 DEF Step

LEMMA FurtherNext ==
  TypeOK /\ TypeOK' /\ PlacesFit /\ ServiceGetsFurther /\ [Next]_vars => ServiceGetsFurther'
<1> SUFFICES ASSUME TypeOK, TypeOK', PlacesFit, ServiceGetsFurther, [Next]_vars
             PROVE  ServiceGetsFurther'
  OBVIOUS
<1>0. proc \in [Procs -> Place]
  BY DEF TypeOK
<1>1. CASE BeginService
  <2>1. Go(Service, "tables", 1)
    BY <1>1 DEF BeginService
  <2>2. proc'[Service].pc = "tables" /\ proc'[Service].at = 1
    BY <2>1, <1>0, FirstPlace, ProcsFacts, GoFacts
  <2>3. QED
    BY <2>2 DEF ServiceGetsFurther
<1>2. CASE BeginSeed
  BY <1>2, BeginSeedFacts, DownKeeps
<1>3. ASSUME NEW p \in Procs, BeginCommand(p) PROVE ServiceGetsFurther'
  <2>1. p # Service /\ Go(p, "tables", 1) /\ UNCHANGED <<tables, columns, indexed, uncounted>>
    BY <1>3, StartupAssumption DEF BeginCommand, schemaVars, rowVars
  <2>2. proc'[Service] = proc[Service]
    BY <2>1, <1>0, FirstPlace, ProcsFacts, GoFacts DEF OnlyMoves
  <2>3. QED
    BY <2>1, <2>2, OthersKeep
<1>4. ASSUME NEW p \in Procs, Step(p) PROVE ServiceGetsFurther'
  BY <1>4, FurtherStep
<1>5. ASSUME NEW p \in Procs, Kill(p) PROVE ServiceGetsFurther'
  <2>1. Leave(p) /\ UNCHANGED <<tables, columns, indexed, uncounted>>
    BY <1>5 DEF Kill, schemaVars, rowVars
  <2>2. CASE p = Service
    BY <2>1, <2>2, <1>0, LeaveFacts, DownKeeps
  <2>3. CASE p # Service
    <3>1. proc'[Service] = proc[Service]
      BY <2>1, <2>3, <1>0, LeaveFacts, ProcsFacts DEF OnlyMoves
    <3>2. QED
      BY <3>1, <2>1, OthersKeep
  <2>4. QED
    BY <2>2, <2>3
<1>6. ASSUME NEW q \in Pairs, Revoke(q) \/ \E level \in Levels : Share(q, level)
      PROVE  ServiceGetsFurther'
  <2>1. UNCHANGED <<tables, columns, indexed, uncounted, proc>>
    BY <1>6 DEF Revoke, Share, schemaVars
  <2>2. QED
    BY <2>1, OthersKeep
<1>7. CASE UNCHANGED vars
  <2>1. UNCHANGED <<tables, columns, indexed, uncounted, proc>>
    BY <1>7 DEF vars
  <2>2. QED
    BY <2>1, OthersKeep
<1>8. QED
  BY <1>1, <1>2, <1>3, <1>4, <1>5, <1>6, <1>7 DEF Next

-----------------------------------------------------------------------------
(* Which row of shares counts.                                             *)

\* A step that leaves the rows and the index alone.
LEMMA RowsAlone ==
  ASSUME NewestIsLatest, UNCHANGED <<shares, lastShare, latest, indexed>>
  PROVE  NewestIsLatest'
  BY DEF NewestIsLatest, Newest, IsRow

\* The rows that are left after the dedupe are the newest, and still are.
LEMMA NewestCommit ==
  ASSUME TypeOK, NewestIsLatest, NEW p \in Procs, Commit(p) PROVE NewestIsLatest'
<1>1. /\ shares' = [i \in Ids |-> IF Newest(i) THEN shares[i] ELSE None]
      /\ UNCHANGED <<lastShare, latest>>
  BY DEF Commit
<1>2. \A i \in Ids : Newest(i) => IsRow(i)
  BY DEF Newest
<1>3. \A i \in Ids : /\ IsRow(i)' <=> Newest(i)
                     /\ Newest(i) => shares'[i] = shares[i]
  BY <1>1, <1>2 DEF IsRow
<1>4. \A i \in Ids : Newest(i)' <=> Newest(i)
  <2>1. SUFFICES ASSUME NEW i \in Ids PROVE Newest(i)' <=> Newest(i)
    OBVIOUS
  <2>2. CASE Newest(i)
    <3>1. \A j \in Ids : j > i /\ IsRow(j)' => shares'[j].pair # shares'[i].pair
      <4>1. SUFFICES ASSUME NEW j \in Ids, j > i, IsRow(j)' PROVE shares'[j].pair # shares'[i].pair
        OBVIOUS
      <4>2. Newest(j) /\ IsRow(j)
        BY <4>1, <1>2, <1>3
      <4>3. shares[j].pair # shares[i].pair
        BY <4>1, <4>2, <2>2 DEF Newest
      <4>4. QED
        BY <4>2, <4>3, <2>2, <1>3
    <3>2. IsRow(i)'
      BY <2>2, <1>3
    <3>3. Newest(i)'
      BY <3>1, <3>2 DEF Newest
    <3>4. QED
      BY <3>3, <2>2 DEF Newest
  <2>3. CASE ~Newest(i)
    BY <2>3, <1>3 DEF Newest
  <2>4. QED
    BY <2>2, <2>3
<1>5. \A i \in Ids : IsRow(i)' => i <= lastShare'
  BY <1>1, <1>2, <1>3 DEF NewestIsLatest
<1>6. indexed' => \A i \in Ids : IsRow(i)' => Newest(i)'
  BY <1>3, <1>4
<1>7. \A i \in Ids : Newest(i)' => latest'[shares'[i].pair] = shares'[i].level
  BY <1>1, <1>3, <1>4 DEF NewestIsLatest
<1>8. \A q \in Pairs : latest'[q] # None => \E i \in Ids : Newest(i)' /\ shares'[i].pair = q
  BY <1>1, <1>3, <1>4 DEF NewestIsLatest
<1>9. QED
  BY <1>5, <1>6, <1>7, <1>8 DEF NewestIsLatest

\* With its table the seed drops all rows, or it leaves them.
LEMMA NewestDrop ==
  ASSUME TypeOK, NewestIsLatest, NEW p \in Procs, Drop(p) PROVE NewestIsLatest'
<1>1. \/ UNCHANGED <<shares, lastShare, latest, indexed>>
      \/ /\ indexed' = FALSE
         /\ shares' = [i \in Ids |-> None] /\ latest' = [q \in Pairs |-> None]
  BY DEF Drop
<1>2. CASE UNCHANGED <<shares, lastShare, latest, indexed>>
  BY <1>2, RowsAlone
<1>3. CASE /\ indexed' = FALSE
           /\ shares' = [i \in Ids |-> None] /\ latest' = [q \in Pairs |-> None]
  <2>1. \A i \in Ids : ~IsRow(i)'
    BY <1>3 DEF IsRow
  <2>2. \A q \in Pairs : latest'[q] = None
    BY <1>3
  <2>3. QED
    BY <1>3, <2>1, <2>2 DEF NewestIsLatest, Newest
<1>4. QED
  BY <1>1, <1>2, <1>3

\* With the index there is one row of a document and user at most, and so the
\* upsert meets the only one or adds the only one.
LEMMA NewestShare ==
  ASSUME TypeOK, NewestIsLatest, NEW q \in Pairs, NEW level \in Levels, Share(q, level)
  PROVE  NewestIsLatest'
<1> DEFINE row == [pair |-> q, level |-> level]
<1>0. /\ indexed /\ indexed' = indexed /\ row \in ShareRow /\ row # None
      /\ row.pair = q /\ row.level = level
  BY StartupAssumption DEF Share, schemaVars, ShareRow
<1>1. /\ latest' = [latest EXCEPT ![q] = level]
      /\ latest \in [Pairs -> Levels \cup {None}] /\ shares \in [Ids -> ShareRow \cup {None}]
      /\ lastShare \in 0 .. MaxShares
  BY DEF Share, TypeOK
<1>2. \A x \in Pairs : latest'[x] = IF x = q THEN level ELSE latest[x]
  BY <1>1
<1>3. \A i \in Ids : IsRow(i) => Newest(i) /\ i <= lastShare
  BY <1>0 DEF NewestIsLatest
<1>4. \A i \in Ids : i \in RowsOf(q) <=> IsRow(i) /\ shares[i].pair = q
  BY DEF RowsOf
<1>5. CASE RowsOf(q) # {} /\ UNCHANGED lastShare
           /\ shares' = [i \in Ids |-> IF i \in RowsOf(q) THEN row ELSE shares[i]]
  <2>1. \A i \in Ids : /\ i \in RowsOf(q) => shares'[i] = row
                       /\ i \notin RowsOf(q) => shares'[i] = shares[i]
    BY <1>5
  <2>2. \A i \in Ids : (IsRow(i)' <=> IsRow(i)) /\ (IsRow(i) => shares'[i].pair = shares[i].pair)
    BY <2>1, <1>0, <1>4 DEF IsRow
  <2>3. \A i \in Ids : Newest(i)' <=> Newest(i)
    BY <2>2 DEF Newest
  <2>4. \A i \in Ids : IsRow(i)' => i <= lastShare' /\ Newest(i)'
    BY <2>2, <2>3, <1>3, <1>5
  <2>5. \A i \in Ids : Newest(i)' => latest'[shares'[i].pair] = shares'[i].level
    <3>1. SUFFICES ASSUME NEW i \in Ids, Newest(i)'
                   PROVE  latest'[shares'[i].pair] = shares'[i].level
      OBVIOUS
    <3>2. Newest(i) /\ IsRow(i) /\ shares[i].pair \in Pairs
      BY <3>1, <2>3, RowFacts DEF Newest
    <3>3. CASE i \in RowsOf(q)
      BY <3>3, <2>1, <1>0, <1>2
    <3>4. CASE i \notin RowsOf(q)
      <4>1. shares[i].pair # q /\ shares'[i] = shares[i]
        BY <3>2, <3>4, <2>1, <1>4
      <4>2. latest[shares[i].pair] = shares[i].level
        BY <3>2 DEF NewestIsLatest
      <4>3. QED
        BY <4>1, <4>2, <3>2, <1>2
    <3>5. QED
      BY <3>3, <3>4
  <2>6. \A x \in Pairs : latest'[x] # None => \E i \in Ids : Newest(i)' /\ shares'[i].pair = x
    <3>1. SUFFICES ASSUME NEW x \in Pairs, latest'[x] # None
                   PROVE  \E i \in Ids : Newest(i)' /\ shares'[i].pair = x
      OBVIOUS
    <3>2. \E i \in Ids : Newest(i) /\ shares[i].pair = x
      <4>1. CASE x = q
        <5>1. PICK i \in Ids : i \in RowsOf(q)
          BY <1>5 DEF RowsOf
        <5>2. QED
          BY <5>1, <1>3, <1>4, <4>1
      <4>2. CASE x # q
        BY <3>1, <4>2, <1>2 DEF NewestIsLatest
      <4>3. QED
        BY <4>1, <4>2
    <3>3. PICK i \in Ids : Newest(i) /\ shares[i].pair = x
      BY <3>2
    <3>4. IsRow(i)
      BY <3>3 DEF Newest
    <3>5. Newest(i)' /\ shares'[i].pair = x
      BY <3>3, <3>4, <2>2, <2>3
    <3>6. QED
      BY <3>5
  <2>7. QED
    BY <2>4, <2>5, <2>6 DEF NewestIsLatest
<1>6. CASE /\ RowsOf(q) = {} /\ lastShare < MaxShares /\ lastShare' = lastShare + 1
           /\ shares' = [shares EXCEPT ![lastShare + 1] = row]
  <2>0. PICK n \in Nat : n = lastShare + 1
    BY <1>1
  <2>1. n \in Ids /\ ~IsRow(n)
    BY <2>0, <1>1, <1>3, <1>6, StartupAssumption DEF Ids
  <2>2. shares'[n] = row /\ \A i \in Ids : i # n => shares'[i] = shares[i]
    BY <2>0, <1>1, <1>6, <2>1
  <2>3. IsRow(n)' /\ \A i \in Ids : i # n => (IsRow(i)' <=> IsRow(i))
    BY <2>2, <1>0 DEF IsRow
  <2>4. \A i \in Ids : IsRow(i) => shares[i].pair # q /\ i # n /\ n > i
    <3>1. SUFFICES ASSUME NEW i \in Ids, IsRow(i) PROVE shares[i].pair # q /\ i # n /\ n > i
      OBVIOUS
    <3>2. shares[i].pair # q
      BY <3>1, <1>4, <1>6
    <3>3. i <= lastShare /\ i \in Nat /\ lastShare \in Nat
      BY <3>1, <1>1, <1>3 DEF Ids
    <3>4. QED
      BY <3>2, <3>3, <2>0
  <2>5. Newest(n)'
    <3>1. \A j \in Ids : ~(j > n /\ IsRow(j)')
      <4>1. SUFFICES ASSUME NEW j \in Ids, j > n, IsRow(j)' PROVE FALSE
        OBVIOUS
      <4>2. j # n /\ j \in Nat /\ n \in Nat
        BY <4>1, <2>1 DEF Ids
      <4>3. IsRow(j)
        BY <4>1, <4>2, <2>3
      <4>4. n > j
        BY <4>3, <2>4
      <4>5. QED
        BY <4>1, <4>2, <4>4
    <3>2. QED
      BY <3>1, <2>3 DEF Newest
  <2>6. \A i \in Ids : IsRow(i) => Newest(i)'
    <3>1. SUFFICES ASSUME NEW i \in Ids, IsRow(i) PROVE Newest(i)'
      OBVIOUS
    <3>2. i # n /\ IsRow(i)' /\ shares'[i] = shares[i]
      BY <3>1, <2>2, <2>3, <2>4
    <3>3. \A j \in Ids : j > i /\ IsRow(j)' => shares'[j].pair # shares'[i].pair
      <4>1. SUFFICES ASSUME NEW j \in Ids, j > i, IsRow(j)' PROVE shares'[j].pair # shares'[i].pair
        OBVIOUS
      <4>2. CASE j = n
        BY <4>2, <2>2, <2>4, <3>1, <3>2, <1>0
      <4>3. CASE j # n
        BY <4>1, <4>3, <2>2, <2>3, <3>1, <3>2, <1>3 DEF Newest
      <4>4. QED
        BY <4>2, <4>3
    <3>4. QED
      BY <3>2, <3>3 DEF Newest
  <2>7. \A i \in Ids : IsRow(i)' => i <= lastShare' /\ Newest(i)'
    <3>1. SUFFICES ASSUME NEW i \in Ids, IsRow(i)' PROVE i <= lastShare' /\ Newest(i)'
      OBVIOUS
    <3>2. CASE i = n
      BY <3>2, <2>0, <2>5, <1>6
    <3>3. CASE i # n
      <4>1. IsRow(i)
        BY <3>1, <3>3, <2>3
      <4>2. i <= lastShare /\ i \in Nat /\ lastShare \in Nat
        BY <4>1, <1>1, <1>3 DEF Ids
      <4>3. QED
        BY <4>1, <4>2, <2>6, <1>6
    <3>4. QED
      BY <3>2, <3>3
  <2>8. \A i \in Ids : Newest(i)' => latest'[shares'[i].pair] = shares'[i].level
    <3>1. SUFFICES ASSUME NEW i \in Ids, Newest(i)'
                   PROVE  latest'[shares'[i].pair] = shares'[i].level
      OBVIOUS
    <3>2. CASE i = n
      BY <3>2, <2>2, <1>0, <1>2
    <3>3. CASE i # n
      <4>1. IsRow(i) /\ shares'[i] = shares[i]
        BY <3>1, <3>3, <2>2, <2>3 DEF Newest
      <4>2. latest[shares[i].pair] = shares[i].level /\ shares[i].pair \in Pairs
        BY <4>1, <1>3, RowFacts DEF NewestIsLatest
      <4>3. QED
        BY <4>1, <4>2, <2>4, <1>2
    <3>4. QED
      BY <3>2, <3>3
  <2>9. \A x \in Pairs : latest'[x] # None => \E i \in Ids : Newest(i)' /\ shares'[i].pair = x
    <3>1. SUFFICES ASSUME NEW x \in Pairs, latest'[x] # None
                   PROVE  \E i \in Ids : Newest(i)' /\ shares'[i].pair = x
      OBVIOUS
    <3>2. CASE x = q
      BY <3>2, <2>1, <2>2, <2>5, <1>0
    <3>3. CASE x # q
      <4>1. PICK i \in Ids : Newest(i) /\ shares[i].pair = x
        BY <3>1, <3>3, <1>2 DEF NewestIsLatest
      <4>2. IsRow(i)
        BY <4>1 DEF Newest
      <4>3. Newest(i)' /\ shares'[i].pair = x
        BY <4>1, <4>2, <2>2, <2>4, <2>6
      <4>4. QED
        BY <4>3
    <3>4. QED
      BY <3>2, <3>3
  <2>10. QED
    BY <2>7, <2>8, <2>9 DEF NewestIsLatest
<1>7. QED
  BY <1>5, <1>6 DEF Share

\* Revoking takes all rows of a document and user, and touches no other.
LEMMA NewestRevoke ==
  ASSUME TypeOK, NewestIsLatest, NEW q \in Pairs, Revoke(q) PROVE NewestIsLatest'
<1>1. /\ shares' = [i \in Ids |-> IF i \in RowsOf(q) THEN None ELSE shares[i]]
      /\ latest' = [latest EXCEPT ![q] = None] /\ latest \in [Pairs -> Levels \cup {None}]
      /\ UNCHANGED <<lastShare, indexed>>
  BY DEF Revoke, schemaVars, TypeOK
<1>2. \A x \in Pairs : latest'[x] = IF x = q THEN None ELSE latest[x]
  BY <1>1
<1>3. \A i \in Ids : i \in RowsOf(q) <=> IsRow(i) /\ shares[i].pair = q
  BY DEF RowsOf
<1>4. \A i \in Ids : /\ IsRow(i)' <=> IsRow(i) /\ shares[i].pair # q
                     /\ IsRow(i)' => shares'[i] = shares[i]
  BY <1>1, <1>3 DEF IsRow
<1>5. \A i \in Ids : Newest(i)' <=> Newest(i) /\ shares[i].pair # q
  BY <1>4 DEF Newest
<1>6. \A i \in Ids : Newest(i)' => shares'[i] = shares[i] /\ shares[i].pair \in Pairs
  BY <1>4, RowFacts DEF Newest
<1>7. \A i \in Ids : IsRow(i)' => i <= lastShare'
  BY <1>1, <1>4 DEF NewestIsLatest
<1>8. indexed' => \A i \in Ids : IsRow(i)' => Newest(i)'
  BY <1>1, <1>4, <1>5 DEF NewestIsLatest
<1>9. \A i \in Ids : Newest(i)' => latest'[shares'[i].pair] = shares'[i].level
  BY <1>2, <1>5, <1>6 DEF NewestIsLatest
<1>10. \A x \in Pairs : latest'[x] # None => \E i \in Ids : Newest(i)' /\ shares'[i].pair = x
  BY <1>2, <1>5, <1>6 DEF NewestIsLatest
<1>11. QED
  BY <1>7, <1>8, <1>9, <1>10 DEF NewestIsLatest

LEMMA NewestNext == TypeOK /\ NewestIsLatest /\ [Next]_vars => NewestIsLatest'
<1> SUFFICES ASSUME TypeOK, NewestIsLatest, [Next]_vars PROVE NewestIsLatest'
  OBVIOUS
<1>1. CASE BeginService \/ BeginSeed
  BY <1>1, RowsAlone DEF BeginService, BeginSeed, schemaVars, rowVars
<1>2. ASSUME NEW p \in Procs, BeginCommand(p) \/ Kill(p) \/ Fail(p) PROVE NewestIsLatest'
  BY <1>2, RowsAlone DEF BeginCommand, Kill, Fail, schemaVars, rowVars
<1>3. ASSUME NEW p \in Procs, CreateTable(p) \/ Look(p) \/ Alter(p) \/ BeginData(p)
      PROVE  NewestIsLatest'
  BY <1>3, RowsAlone DEF CreateTable, Look, Alter, BeginData, schemaVars, rowVars
<1>4. ASSUME NEW p \in Procs, Step(p) PROVE NewestIsLatest'
  BY <1>2, <1>3, <1>4, NewestCommit, NewestDrop DEF Step
<1>5. ASSUME NEW q \in Pairs, Revoke(q) \/ \E level \in Levels : Share(q, level)
      PROVE  NewestIsLatest'
  BY <1>5, NewestRevoke, NewestShare
<1>6. CASE UNCHANGED vars
  BY <1>6, RowsAlone DEF vars
<1>7. QED
  BY <1>1, <1>2, <1>4, <1>5, <1>6 DEF Next

-----------------------------------------------------------------------------
(* The theorems.                                                           *)

LEMMA InitInv == Init => IInv
<1> SUFFICES ASSUME Init PROVE IInv
  OBVIOUS
<1>1. TypeOK
  BY InitType
<1>2. \A p \in Procs : proc[p] = Idle
  BY DEF Init
<1>3. PlacesFit /\ ServiceGetsFurther
  BY <1>2, ProcsFacts, IdleIsPlace DEF PlacesFit, ServiceGetsFurther
<1>4. LockIsHeld
  BY <1>2, ProcsFacts, IdleIsPlace DEF LockIsHeld, Init
<1>5. indexed => \A i \in Ids : IsRow(i) => Newest(i)
  BY DEF Init
<1>6. NewestIsLatest
  BY <1>5 DEF NewestIsLatest, Init
<1>7. QED
  BY <1>1, <1>3, <1>4, <1>6 DEF IInv

LEMMA NextInv == IInv /\ [Next]_vars => IInv'
  BY TypeStep, PlacesStep, LockStep, FurtherNext, NewestNext DEF IInv

\* Every variable of the start of the service has its type, whichever process
\* runs ensure_schema beside which.
THEOREM TypeCorrect == Spec => []TypeOK
<1>1. QED
  BY InitType, TypeStep, PTL DEF Spec

\* The inductive invariant of ensure_schema, seed and service.
THEOREM Invariance == Spec => []IInv
<1>1. QED
  BY InitInv, NextInv, PTL DEF Spec

\* The service never serves on a schema that is not complete: what it has come
\* past nobody drops, for whoever drops has stopped it.
THEOREM ServesWhole == Spec => []ServesOnWholeSchema
<1>1. IInv => ServesOnWholeSchema
  BY DEF IInv, ServiceGetsFurther, ServesOnWholeSchema, Up
<1>2. QED
  BY <1>1, Invariance, PTL

\* What can_access and can_edit find is what the owner asked for last: with
\* the index all rows are newest.
THEOREM PermissionsLatest == Spec => []PermissionsAreTheLatest
<1>1. IInv => PermissionsAreTheLatest
  <2> SUFFICES ASSUME IInv, Up, NEW q \in Pairs
               PROVE  /\ (RowsOf(q) # {}) <=> (latest[q] # None)
                      /\ (\E i \in RowsOf(q) : shares[i].level = "edit") <=> (latest[q] = "edit")
    BY DEF PermissionsAreTheLatest
  <2>1. indexed /\ NewestIsLatest /\ TypeOK
    BY DEF IInv, ServiceGetsFurther, Up
  <2>2. \A i \in Ids : i \in RowsOf(q) <=> Newest(i) /\ shares[i].pair = q
    BY <2>1 DEF RowsOf, NewestIsLatest, Newest
  <2>3. RowsOf(q) \subseteq Ids /\ \A i \in RowsOf(q) : latest[q] = shares[i].level
    BY <2>1, <2>2 DEF NewestIsLatest, RowsOf
  <2>4. \A i \in RowsOf(q) : shares[i].level # None
    BY <2>1, <2>2, <2>3, RowFacts, StartupAssumption DEF Newest
  <2>5. latest[q] # None => \E i \in Ids : i \in RowsOf(q)
    BY <2>1, <2>2 DEF NewestIsLatest
  <2>6. RowsOf(q) # {} <=> \E i \in Ids : i \in RowsOf(q)
    BY <2>3
  <2>7. (RowsOf(q) # {}) <=> (latest[q] # None)
    BY <2>3, <2>4, <2>5, <2>6
  <2>8. None # "edit"
    BY StartupAssumption DEF Levels
  <2>9. (\E i \in RowsOf(q) : shares[i].level = "edit") <=> (latest[q] = "edit")
    BY <2>3, <2>5, <2>8
  <2>10. QED
    BY <2>7, <2>9
<1>2. QED
  BY <1>1, Invariance, PTL
=============================================================================
