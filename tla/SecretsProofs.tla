--------------------------- MODULE SecretsProofs ---------------------------
(***************************************************************************)
(* The inductive invariant of Secrets and what follows from it, for any    *)
(* number of processes and scripts and any bounds.                         *)
(***************************************************************************)
EXTENDS Secrets, TLAPS

\* The environment's values and stored ones for the rest make a whole key set.
LEMMA Merged ==
  ASSUME NEW env \in Env, NEW stored \in KeySet
  PROVE  KeysFrom(env, stored) \in KeySet
  BY DEF Env, KeySet, KeysFrom

\* An environment that gives everything is the keys.
LEMMA Complete ==
  ASSUME NEW env \in Env, DOMAIN env = Names
  PROVE  env \in KeySet
  BY DEF Env, KeySet

\* Generated keys are a key set as long as the bound on draws is not reached.
LEMMA FreshKeys ==
  ASSUME drawn \in Nat, drawn < MaxDraws
  PROVE  Fresh \in KeySet
  BY SecretsAssumption DEF Fresh, KeySet, Values, ByHand

\* The empty environment is one.
LEMMA NoKeysIsEnv == NoKeys \in Env
  BY DEF NoKeys, Env, Values

\* What Raise and Kill leave of a process is a process that is not started.
LEMMA IdleRecord == Idle \in ProcRecord /\ Idle.pc = "idle"
  BY NoKeysIsEnv DEF Idle, ProcRecord

\* The invariant holds before anyone starts, whatever .env was written by hand.
LEMMA InitIInv == Init => IInv
<1> SUFFICES ASSUME Init PROVE IInv
  OBVIOUS
<1>1. envfile \in Env \cup {None}
  <2>1. ASSUME NEW S \in SUBSET HandSet, envfile \in [S -> {Weak, ByHand}]
        PROVE  envfile \in Env
    <3>1. {Weak, ByHand} \subseteq Values /\ S \subseteq Names
      BY SecretsAssumption DEF Values, Weak, ByHand
    <3>. QED BY <2>1, <3>1 DEF Env
  <2>. QED BY <2>1 DEF Init
<1>2. TypeOK
  BY <1>1, IdleRecord, SecretsAssumption DEF Init, TypeOK
<1>3. \A p \in Procs : proc[p].pc = "idle"
  BY IdleRecord DEF Init
<1>4. LockIsHeld
  BY <1>3, SecretsAssumption DEF Init, LockIsHeld, Inside
<1>5. MakersAreAlone
  BY <1>3 DEF MakersAreAlone
<1>6. StoreIsOriginal /\ UsedAreOriginal
  BY DEF Init, StoreIsOriginal, StoreIsWhole, UsedAreOriginal
<1>7. ScriptsHaveKeys
  BY DEF Init, ScriptsHaveKeys
<1>. QED BY <1>2, <1>4, <1>5, <1>6, <1>7 DEF IInv

-----------------------------------------------------------------------------
(* The steps. What they have in common is said once. *)

\* A step that leaves the scripts alone leaves them their keys.
LEMMA SameScripts ==
  ASSUME IInv, script' = script
  PROVE  ScriptsHaveKeys'
  BY DEF IInv, ScriptsHaveKeys, KeySet, Values

\* What Leave does to a process and to used, when the keys it leaves with are
\* those of the environment or of the original store.
LEMMA Leaving ==
  ASSUME IInv, NEW p \in Procs, NEW env \in Env, NEW keys \in KeySet,
         Leave(p, env, keys),
         IF DOMAIN env = Names THEN keys = env
         ELSE original # None /\ keys = KeysFrom(env, original),
         original' = original
  PROVE  /\ proc' \in [Procs -> ProcRecord]
         /\ proc'[p].pc \in {"idle", "running"}
         /\ \A q \in Procs : q # p => proc'[q] = proc[q]
         /\ used' \subseteq (Env \X KeySet)
         /\ UsedAreOriginal'
<1>1. proc \in [Procs -> ProcRecord] /\ used \subseteq (Env \X KeySet) /\ UsedAreOriginal
  BY DEF IInv, TypeOK
<1>2. CASE Valid(keys)
  <2>1. /\ proc' = [proc EXCEPT ![p] = [pc |-> "running", env |-> env, keys |-> keys]]
        /\ used' = used \cup {<<env, keys>>}
    BY <1>2 DEF Leave
  <2>2. [pc |-> "running", env |-> env, keys |-> keys] \in ProcRecord
    BY DEF ProcRecord
  <2>3. <<env, keys>> \in Env \X KeySet
    OBVIOUS
  <2>4. UsedAreOriginal'
    <3> SUFFICES ASSUME NEW u \in used'
                 PROVE  IF DOMAIN u[1] = Names THEN u[2] = u[1]
                        ELSE original # None /\ u[2] = KeysFrom(u[1], original)
      BY DEF UsedAreOriginal, KeysFrom
    <3>1. CASE u \in used
      BY <1>1, <3>1 DEF UsedAreOriginal
    <3>2. CASE u = <<env, keys>>
      BY <3>2
    <3>. QED BY <2>1, <3>1, <3>2
  <2>. QED BY <1>1, <2>1, <2>2, <2>3, <2>4
<1>3. CASE ~Valid(keys)
  <2>1. proc' = [proc EXCEPT ![p] = Idle] /\ used' = used
    BY <1>3 DEF Leave
  <2>2. UsedAreOriginal'
    BY <1>1, <2>1 DEF UsedAreOriginal, KeysFrom
  <2>. QED BY <1>1, <2>1, <2>2, IdleRecord
<1>. QED BY <1>2, <1>3

\* A process that is outside the lock after its step, with the lock free of it,
\* disturbs nobody.
LEMMA Outside ==
  ASSUME IInv, NEW p \in Procs,
         proc' \in [Procs -> ProcRecord], proc'[p].pc \in {"idle", "running"},
         \A q \in Procs : q # p => proc'[q] = proc[q],
         Unlock(p), store' = store, original' = original,
         \A q \in Procs : q # p => temp'[q] = temp[q]
  PROVE  LockIsHeld' /\ MakersAreAlone'
<1>1. LockIsHeld'
  <2> SUFFICES ASSUME NEW q \in Procs PROVE (proc'[q].pc \in Inside) = (lock' = q)
    BY DEF LockIsHeld, Inside
  <2>1. (proc[q].pc \in Inside) = (lock = q) /\ (proc[p].pc \in Inside) = (lock = p)
    BY DEF IInv, LockIsHeld
  <2>2. CASE q = p
    BY <2>1, <2>2, SecretsAssumption DEF Unlock, Inside
  <2>3. CASE q # p
    BY <2>1, <2>3, SecretsAssumption DEF Unlock
  <2>. QED BY <2>2, <2>3
<1>2. MakersAreAlone'
  <2> SUFFICES ASSUME NEW q \in Procs
        PROVE  /\ proc'[q].pc \in {"write", "replace"} => store' = None /\ proc'[q].keys \in KeySet
               /\ proc'[q].pc = "replace" => temp'[q] = proc'[q].keys
               /\ proc'[q].pc = "finish" => proc'[q].keys = original' /\ original' # None
               /\ proc'[q].pc \in {"lock", "open", "write", "replace", "finish"} =>
                    DOMAIN proc'[q].env # Names
    BY DEF MakersAreAlone, KeySet, Values
  <2>1. CASE q = p
    BY <2>1
  <2>2. CASE q # p
    BY <2>2 DEF IInv, MakersAreAlone
  <2>. QED BY <2>1, <2>2
<1>. QED BY <1>1, <1>2

\* A start enters the lock's queue, or runs at once on a complete environment.
LEMMA StepStart ==
  ASSUME IInv, NEW p \in Procs, Start(p)
  PROVE  IInv'
<1>1. /\ proc[p].pc = "idle"
      /\ store' = store /\ private' = private /\ original' = original
      /\ envfile' = envfile /\ script' = script /\ lock' = lock /\ temp' = temp
      /\ drawn' = drawn /\ kills' = kills /\ faults' = faults
  BY DEF Start, fileVars, scriptVars
<1>2. lock # p
  BY <1>1 DEF IInv, LockIsHeld, Inside
<1>3. Environment \in Env
  BY NoKeysIsEnv DEF IInv, TypeOK, Environment
<1>4. CASE DOMAIN Environment = Names
  <2>1. Leave(p, Environment, Environment)
    BY <1>4 DEF Start
  <2>2. Environment \in KeySet
    BY <1>3, <1>4, Complete
  <2>3. /\ proc' \in [Procs -> ProcRecord]
        /\ proc'[p].pc \in {"idle", "running"}
        /\ \A q \in Procs : q # p => proc'[q] = proc[q]
        /\ used' \subseteq (Env \X KeySet)
        /\ UsedAreOriginal'
    BY <1>1, <1>3, <1>4, <2>1, <2>2, Leaving
  <2>4. Unlock(p)
    BY <1>1, <1>2 DEF Unlock
  <2>5. LockIsHeld' /\ MakersAreAlone'
    BY <1>1, <2>3, <2>4, Outside
  <2>6. TypeOK'
    BY <1>1, <2>3 DEF IInv, TypeOK, KeySet, Values, Env
  <2>7. StoreIsOriginal'
    BY <1>1 DEF IInv, StoreIsOriginal, StoreIsWhole
  <2>. QED BY <1>1, <2>3, <2>5, <2>6, <2>7, SameScripts DEF IInv
<1>5. CASE DOMAIN Environment # Names
  <2>1. /\ proc' = [proc EXCEPT ![p] = [pc |-> "lock", env |-> Environment, keys |-> None]]
        /\ used' = used
    BY <1>5 DEF Start
  <2>2. [pc |-> "lock", env |-> Environment, keys |-> None] \in ProcRecord
    BY <1>3 DEF ProcRecord
  <2>3. /\ proc' \in [Procs -> ProcRecord]
        /\ proc'[p] = [pc |-> "lock", env |-> Environment, keys |-> None]
        /\ \A q \in Procs : q # p => proc'[q] = proc[q]
    BY <2>1, <2>2 DEF IInv, TypeOK
  <2>4. TypeOK'
    BY <1>1, <2>1, <2>3 DEF IInv, TypeOK, KeySet, Values, Env
  <2>5. LockIsHeld'
    BY <1>1, <1>2, <2>3 DEF IInv, LockIsHeld, Inside
  <2>6. MakersAreAlone'
    BY <1>1, <1>5, <2>3 DEF IInv, MakersAreAlone, KeySet, Values
  <2>7. StoreIsOriginal' /\ UsedAreOriginal'
    BY <1>1, <2>1 DEF IInv, StoreIsOriginal, StoreIsWhole, UsedAreOriginal, KeysFrom
  <2>. QED BY <1>1, <2>4, <2>5, <2>6, <2>7, SameScripts DEF IInv
<1>. QED BY <1>4, <1>5

\* Who takes the lock is the only one inside.
LEMMA StepLock ==
  ASSUME IInv, NEW p \in Procs, Lock(p)
  PROVE  IInv'
<1>1. /\ proc[p].pc = "lock" /\ lock = None /\ lock' = p
      /\ proc' = [proc EXCEPT ![p].pc = "open"]
      /\ store' = store /\ private' = private /\ original' = original
      /\ envfile' = envfile /\ script' = script /\ temp' = temp
      /\ drawn' = drawn /\ kills' = kills /\ faults' = faults /\ used' = used
  BY DEF Lock, fileVars, scriptVars
<1>2. proc[p] \in ProcRecord /\ proc \in [Procs -> ProcRecord]
  BY DEF IInv, TypeOK
<1>3. /\ proc'[p] = [pc |-> "open", env |-> proc[p].env, keys |-> proc[p].keys]
      /\ \A q \in Procs : q # p => proc'[q] = proc[q]
      /\ proc' \in [Procs -> ProcRecord]
  BY <1>1, <1>2 DEF ProcRecord
<1>4. TypeOK'
  BY <1>1, <1>3 DEF IInv, TypeOK, KeySet, Values, Env
<1>5. LockIsHeld'
  BY <1>1, <1>3, SecretsAssumption DEF IInv, LockIsHeld, Inside
<1>6. MakersAreAlone'
  <2>1. DOMAIN proc[p].env # Names
    BY <1>1 DEF IInv, MakersAreAlone
  <2>2. /\ proc'[p].pc = "open" /\ proc'[p].env = proc[p].env
    BY <1>3
  <2>3. \A q \in Procs : q # p => proc'[q] = proc[q]
    BY <1>3
  <2>. QED BY <1>1, <2>1, <2>2, <2>3 DEF IInv, MakersAreAlone, KeySet, Values
<1>7. StoreIsOriginal' /\ UsedAreOriginal'
  BY <1>1 DEF IInv, StoreIsOriginal, StoreIsWhole, UsedAreOriginal, KeysFrom
<1>. QED BY <1>1, <1>4, <1>5, <1>6, <1>7, SameScripts DEF IInv

\* Whoever finds no store has found it missing under the lock.
LEMMA StepOpenMissing ==
  ASSUME IInv, NEW p \in Procs, OpenMissing(p)
  PROVE  IInv'
<1>1. /\ proc[p].pc = "open" /\ store = None /\ drawn < MaxDraws /\ drawn' = drawn + 1
      /\ temp' = [temp EXCEPT ![p] = Broken]
      /\ proc' = [proc EXCEPT ![p].pc = "write", ![p].keys = Fresh]
      /\ store' = store /\ private' = private /\ original' = original
      /\ envfile' = envfile /\ script' = script /\ lock' = lock
      /\ kills' = kills /\ faults' = faults /\ used' = used
  BY DEF OpenMissing, fileVars, scriptVars
<1>2. Fresh \in KeySet
  BY <1>1, FreshKeys DEF IInv, TypeOK
<1>3. proc[p] \in ProcRecord /\ proc \in [Procs -> ProcRecord]
  BY DEF IInv, TypeOK
<1>4. /\ proc'[p] = [pc |-> "write", env |-> proc[p].env, keys |-> Fresh]
      /\ \A q \in Procs : q # p => proc'[q] = proc[q]
      /\ proc' \in [Procs -> ProcRecord]
  BY <1>1, <1>2, <1>3 DEF ProcRecord
<1>5. lock = p /\ \A q \in Procs : q # p => proc[q].pc \notin Inside
  BY <1>1 DEF IInv, LockIsHeld, Inside
<1>6. TypeOK'
  BY <1>1, <1>4, SecretsAssumption DEF IInv, TypeOK, KeySet, Values, Env
<1>7. LockIsHeld'
  BY <1>1, <1>4, <1>5 DEF IInv, LockIsHeld, Inside
<1>8. MakersAreAlone'
  BY <1>1, <1>2, <1>4, <1>5 DEF IInv, MakersAreAlone, Inside, KeySet, Values
<1>9. StoreIsOriginal' /\ UsedAreOriginal'
  BY <1>1 DEF IInv, StoreIsOriginal, StoreIsWhole, UsedAreOriginal, KeysFrom
<1>. QED BY <1>1, <1>6, <1>7, <1>8, <1>9, SameScripts DEF IInv

\* Whoever finds a whole store leaves with the original keys.
LEMMA StepOpenExisting ==
  ASSUME IInv, NEW p \in Procs, OpenExisting(p)
  PROVE  IInv'
<1>1. /\ proc[p].pc = "open" /\ store # None /\ Unlock(p)
      /\ store' = store /\ private' = private /\ original' = original
      /\ envfile' = envfile /\ script' = script /\ temp' = temp
      /\ drawn' = drawn /\ kills' = kills /\ faults' = faults
  BY DEF OpenExisting, fileVars, scriptVars
<1>2. proc[p] \in ProcRecord /\ proc \in [Procs -> ProcRecord] /\ proc[p].env \in Env
  BY DEF IInv, TypeOK, ProcRecord
<1>3. DOMAIN proc[p].env # Names
  BY <1>1 DEF IInv, MakersAreAlone
<1>4. /\ proc' \in [Procs -> ProcRecord]
      /\ proc'[p].pc \in {"idle", "running"}
      /\ \A q \in Procs : q # p => proc'[q] = proc[q]
      /\ used' \subseteq (Env \X KeySet)
      /\ UsedAreOriginal'
  <2>1. CASE private /\ store # Broken
    <3>1. Leave(p, proc[p].env, KeysFrom(proc[p].env, store))
      BY <2>1 DEF OpenExisting
    <3>2. store = original /\ original # None /\ store \in KeySet
      BY <1>1, <2>1 DEF IInv, TypeOK, StoreIsOriginal, StoreIsWhole
    <3>3. KeysFrom(proc[p].env, store) \in KeySet
      BY <1>2, <3>2, Merged
    <3>. QED BY <1>1, <1>2, <1>3, <3>1, <3>2, <3>3, Leaving
  <2>2. CASE ~(private /\ store # Broken)
    <3>1. proc' = [proc EXCEPT ![p] = Idle] /\ used' = used
      BY <2>2 DEF OpenExisting, Raise
    <3>2. UsedAreOriginal'
      BY <1>1, <3>1 DEF IInv, UsedAreOriginal, KeysFrom
    <3>. QED BY <1>2, <3>1, <3>2, IdleRecord DEF IInv, TypeOK
  <2>. QED BY <2>1, <2>2
<1>5. LockIsHeld' /\ MakersAreAlone'
  BY <1>1, <1>4, Outside
<1>6. lock' \in Procs \cup {None}
  BY <1>1 DEF IInv, TypeOK, Unlock
<1>7. TypeOK'
  BY <1>1, <1>4, <1>6 DEF IInv, TypeOK, KeySet, Values, Env
<1>8. StoreIsOriginal'
  BY <1>1 DEF IInv, StoreIsOriginal, StoreIsWhole
<1>. QED BY <1>1, <1>4, <1>5, <1>7, <1>8, SameScripts DEF IInv

\* The temporary file holds the keys drawn for it.
LEMMA StepWrite ==
  ASSUME IInv, NEW p \in Procs, Write(p)
  PROVE  IInv'
<1>1. /\ proc[p].pc = "write"
      /\ temp' = [temp EXCEPT ![p] = proc[p].keys]
      /\ proc' = [proc EXCEPT ![p].pc = "replace"]
      /\ store' = store /\ private' = private /\ original' = original
      /\ envfile' = envfile /\ script' = script /\ lock' = lock
      /\ drawn' = drawn /\ kills' = kills /\ faults' = faults /\ used' = used
  BY DEF Write, fileVars, scriptVars
<1>2. proc[p] \in ProcRecord /\ proc \in [Procs -> ProcRecord]
  BY DEF IInv, TypeOK
<1>3. /\ proc'[p] = [pc |-> "replace", env |-> proc[p].env, keys |-> proc[p].keys]
      /\ \A q \in Procs : q # p => proc'[q] = proc[q]
      /\ proc' \in [Procs -> ProcRecord]
  BY <1>1, <1>2 DEF ProcRecord
<1>4. store = None /\ proc[p].keys \in KeySet /\ DOMAIN proc[p].env # Names
  BY <1>1 DEF IInv, MakersAreAlone
<1>5. temp'[p] = proc[p].keys /\ \A q \in Procs : q # p => temp'[q] = temp[q]
  BY <1>1 DEF IInv, TypeOK
<1>6. TypeOK'
  BY <1>1, <1>3, <1>4 DEF IInv, TypeOK, KeySet, Values, Env
<1>7. LockIsHeld'
  BY <1>1, <1>3 DEF IInv, LockIsHeld, Inside
<1>8. MakersAreAlone'
  <2>1. /\ proc'[p].pc = "replace" /\ proc'[p].env = proc[p].env /\ proc'[p].keys = proc[p].keys
    BY <1>3
  <2>2. \A q \in Procs : q # p => proc'[q] = proc[q]
    BY <1>3
  <2>. QED BY <1>1, <1>4, <1>5, <2>1, <2>2 DEF IInv, MakersAreAlone, KeySet, Values
<1>9. StoreIsOriginal' /\ UsedAreOriginal'
  BY <1>1 DEF IInv, StoreIsOriginal, StoreIsWhole, UsedAreOriginal, KeysFrom
<1>. QED BY <1>1, <1>6, <1>7, <1>8, <1>9, SameScripts DEF IInv

\* A process that goes back to idle, by an exception or killed.
LEMMA Ending ==
  ASSUME IInv, NEW p \in Procs,
         proc' = [proc EXCEPT ![p] = Idle], temp' = [temp EXCEPT ![p] = None],
         Unlock(p), UNCHANGED <<fileVars, scriptVars, drawn, used>>,
         kills' \in 0 .. MaxKills, faults' \in 0 .. MaxFaults, faults' >= faults
  PROVE  IInv'
<1>1. /\ store' = store /\ private' = private /\ original' = original
      /\ envfile' = envfile /\ script' = script /\ drawn' = drawn /\ used' = used
  BY DEF fileVars, scriptVars
<1>2. /\ proc' \in [Procs -> ProcRecord]
      /\ proc'[p].pc \in {"idle", "running"}
      /\ \A q \in Procs : q # p => proc'[q] = proc[q]
  BY IdleRecord DEF IInv, TypeOK
<1>3. \A q \in Procs : q # p => temp'[q] = temp[q]
  BY DEF IInv, TypeOK
<1>4. LockIsHeld' /\ MakersAreAlone'
  BY <1>1, <1>2, <1>3, Outside
<1>5. lock' \in Procs \cup {None}
  BY DEF IInv, TypeOK, Unlock
<1>6. TypeOK'
  BY <1>1, <1>2, <1>5 DEF IInv, TypeOK, KeySet, Values, Env
<1>7. StoreIsOriginal'
  BY <1>1, SecretsAssumption DEF IInv, TypeOK, StoreIsOriginal, StoreIsWhole
<1>8. UsedAreOriginal'
  BY <1>1 DEF IInv, UsedAreOriginal, KeysFrom
<1>. QED BY <1>1, <1>4, <1>6, <1>7, <1>8, SameScripts DEF IInv

\* A failed write and a kill end the process and free its lock.
LEMMA StepEnd ==
  ASSUME IInv, NEW p \in Procs, WriteFail(p) \/ Kill(p)
  PROVE  IInv'
<1>1. CASE WriteFail(p)
  <2>1. /\ proc' = [proc EXCEPT ![p] = Idle] /\ temp' = [temp EXCEPT ![p] = None]
        /\ Unlock(p) /\ UNCHANGED <<fileVars, scriptVars, drawn, used>>
        /\ faults < MaxFaults /\ faults' = faults + 1 /\ kills' = kills
    BY <1>1 DEF WriteFail, Raise
  <2>2. kills' \in 0 .. MaxKills /\ faults' \in 0 .. MaxFaults /\ faults' >= faults
    BY <2>1, SecretsAssumption DEF IInv, TypeOK
  <2>. QED BY <2>1, <2>2, Ending
<1>2. CASE Kill(p)
  <2>1. /\ proc' = [proc EXCEPT ![p] = Idle] /\ temp' = [temp EXCEPT ![p] = None]
        /\ Unlock(p) /\ UNCHANGED <<fileVars, scriptVars, drawn, used>>
        /\ kills < MaxKills /\ kills' = kills + 1 /\ faults' = faults
    BY <1>2 DEF Kill
  <2>2. kills' \in 0 .. MaxKills /\ faults' \in 0 .. MaxFaults /\ faults' >= faults
    BY <2>1, SecretsAssumption DEF IInv, TypeOK
  <2>. QED BY <2>1, <2>2, Ending
<1>. QED BY <1>1, <1>2

\* The first store is published by the only process that may: it is the original.
LEMMA StepReplace ==
  ASSUME IInv, NEW p \in Procs, Replace(p)
  PROVE  IInv'
<1>1. /\ proc[p].pc = "replace"
      /\ store' = temp[p] /\ private' = TRUE
      /\ original' = IF original = None THEN temp[p] ELSE original
      /\ temp' = [temp EXCEPT ![p] = None]
      /\ proc' = [proc EXCEPT ![p].pc = "finish"]
      /\ envfile' = envfile /\ script' = script /\ lock' = lock
      /\ drawn' = drawn /\ kills' = kills /\ faults' = faults /\ used' = used
  BY DEF Replace, scriptVars
<1>2. proc[p] \in ProcRecord /\ proc \in [Procs -> ProcRecord]
  BY DEF IInv, TypeOK
<1>3. /\ proc'[p] = [pc |-> "finish", env |-> proc[p].env, keys |-> proc[p].keys]
      /\ \A q \in Procs : q # p => proc'[q] = proc[q]
      /\ proc' \in [Procs -> ProcRecord]
  BY <1>1, <1>2 DEF ProcRecord
<1>4. /\ store = None /\ original = None /\ temp[p] = proc[p].keys
      /\ proc[p].keys \in KeySet /\ proc[p].keys # None
      /\ DOMAIN proc[p].env # Names
  BY <1>1, SecretsAssumption DEF IInv, MakersAreAlone, StoreIsOriginal
<1>5. store' = proc[p].keys /\ original' = proc[p].keys
  BY <1>1, <1>4
<1>6. lock = p /\ \A q \in Procs : q # p => proc[q].pc \notin Inside
  BY <1>1 DEF IInv, LockIsHeld, Inside
<1>7. TypeOK'
  BY <1>1, <1>3, <1>4, <1>5 DEF IInv, TypeOK, KeySet, Values, Env
<1>8. LockIsHeld'
  BY <1>1, <1>3, <1>6 DEF IInv, LockIsHeld, Inside
<1>9. MakersAreAlone'
  <2>1. /\ proc'[p].pc = "finish" /\ proc'[p].env = proc[p].env /\ proc'[p].keys = proc[p].keys
    BY <1>3
  <2>2. \A q \in Procs : q # p => proc'[q] = proc[q] /\ proc'[q].pc \notin Inside
    BY <1>3, <1>6
  <2>. QED BY <1>4, <1>5, <2>1, <2>2 DEF IInv, MakersAreAlone, Inside, KeySet, Values
<1>10. StoreIsOriginal'
  BY <1>4, <1>5 DEF StoreIsOriginal, StoreIsWhole
<1>11. UsedAreOriginal'
  BY <1>1, <1>4 DEF IInv, UsedAreOriginal
<1>. QED BY <1>1, <1>7, <1>8, <1>9, <1>10, <1>11, SameScripts DEF IInv

\* The maker of the store leaves with what it stored.
LEMMA StepFinish ==
  ASSUME IInv, NEW p \in Procs, Finish(p)
  PROVE  IInv'
<1>1. /\ proc[p].pc = "finish" /\ Unlock(p)
      /\ Leave(p, proc[p].env, KeysFrom(proc[p].env, proc[p].keys))
      /\ store' = store /\ private' = private /\ original' = original
      /\ envfile' = envfile /\ script' = script /\ temp' = temp
      /\ drawn' = drawn /\ kills' = kills /\ faults' = faults
  BY DEF Finish, fileVars, scriptVars
<1>2. proc[p].env \in Env /\ original \in KeySet \cup {None}
  BY DEF IInv, TypeOK, ProcRecord
<1>3. proc[p].keys = original /\ original # None /\ DOMAIN proc[p].env # Names
  BY <1>1 DEF IInv, MakersAreAlone
<1>4. KeysFrom(proc[p].env, proc[p].keys) \in KeySet
  BY <1>2, <1>3, Merged
<1>5. /\ proc' \in [Procs -> ProcRecord]
      /\ proc'[p].pc \in {"idle", "running"}
      /\ \A q \in Procs : q # p => proc'[q] = proc[q]
      /\ used' \subseteq (Env \X KeySet)
      /\ UsedAreOriginal'
  BY <1>1, <1>2, <1>3, <1>4, Leaving
<1>6. LockIsHeld' /\ MakersAreAlone'
  BY <1>1, <1>5, Outside
<1>7. lock' \in Procs \cup {None}
  BY <1>1 DEF IInv, TypeOK, Unlock
<1>8. TypeOK'
  BY <1>1, <1>5, <1>7 DEF IInv, TypeOK, KeySet, Values, Env
<1>9. StoreIsOriginal'
  BY <1>1 DEF IInv, StoreIsOriginal, StoreIsWhole
<1>. QED BY <1>1, <1>5, <1>6, <1>8, <1>9, SameScripts DEF IInv

\* What happens to the store from outside never makes one of none.
LEMMA StepOutside ==
  ASSUME IInv, Corrupt \/ Expose \/ Restore
  PROVE  IInv'
<1>1. /\ original' = original /\ envfile' = envfile /\ script' = script /\ lock' = lock
      /\ proc' = proc /\ temp' = temp /\ drawn' = drawn /\ kills' = kills /\ used' = used
  BY DEF Corrupt, Expose, Restore, scriptVars
<1>2. /\ store # None /\ original # None /\ original \in KeySet
      /\ faults \in 0 .. MaxFaults /\ private \in BOOLEAN
      /\ store \in {original, Broken} /\ (store = Broken => faults > 0)
  BY SecretsAssumption
  DEF IInv, TypeOK, StoreIsOriginal, StoreIsWhole, Corrupt, Expose, Restore
<1>3. /\ faults' \in 0 .. MaxFaults
      /\ store' \in {original, Broken} /\ (store' = Broken => faults' > 0)
  <2>1. CASE Corrupt
    <3>1. faults' = faults + 1 /\ faults < MaxFaults /\ store' = Broken
      BY <2>1 DEF Corrupt
    <3>. QED BY <3>1, <1>2, SecretsAssumption
  <2>2. CASE Expose
    <3>1. faults' = faults + 1 /\ faults < MaxFaults /\ store' = store
      BY <2>2 DEF Expose
    <3>. QED BY <3>1, <1>2, SecretsAssumption
  <2>3. CASE Restore
    <3>1. faults' = faults /\ store' = original
      BY <2>3 DEF Restore
    <3>2. original # Broken
      BY <1>2, SecretsAssumption
    <3>. QED BY <3>1, <3>2, <1>2
  <2>. QED BY <2>1, <2>2, <2>3
<1>0. private' \in BOOLEAN
  BY <1>2 DEF Corrupt, Expose, Restore
<1>4. TypeOK'
  BY <1>0, <1>1, <1>2, <1>3 DEF IInv, TypeOK, KeySet, Values, Env
<1>5. LockIsHeld'
  BY <1>1 DEF IInv, LockIsHeld
<1>6. MakersAreAlone'
  <2>1. \A p \in Procs : proc[p].pc \notin {"write", "replace"}
    BY <1>2 DEF IInv, MakersAreAlone
  <2>. QED BY <1>1, <2>1 DEF IInv, MakersAreAlone
<1>7. StoreIsOriginal'
  BY <1>1, <1>2, <1>3, SecretsAssumption DEF StoreIsOriginal, StoreIsWhole
<1>8. UsedAreOriginal'
  BY <1>1 DEF IInv, UsedAreOriginal, KeysFrom
<1>. QED BY <1>1, <1>4, <1>5, <1>6, <1>7, <1>8, SameScripts DEF IInv

\* The scripts change .env only, to a whole key set.
LEMMA StepScript ==
  ASSUME IInv, NEW s \in Scripts,
         (\E force \in BOOLEAN : ScriptStart(s, force)) \/ ScriptPublish(s)
  PROVE  IInv'
<1>1. /\ store' = store /\ private' = private /\ original' = original
      /\ lock' = lock /\ proc' = proc /\ temp' = temp
      /\ kills' = kills /\ faults' = faults /\ used' = used
  BY DEF ScriptStart, ScriptPublish, fileVars
<1>2. /\ envfile' \in Env \cup {None} /\ drawn' \in 0 .. MaxDraws
      /\ script' \in [Scripts -> [pc : {"idle", "publish", "done"}, force : BOOLEAN,
                                  keys : KeySet \cup {None}]]
      /\ ScriptsHaveKeys'
  <2>1. CASE \E force \in BOOLEAN : ScriptStart(s, force)
    <3>1. PICK force \in BOOLEAN : ScriptStart(s, force)
      BY <2>1
    <3>2. Fresh \in KeySet
      BY <3>1, FreshKeys DEF ScriptStart, IInv, TypeOK
    <3>3. /\ script' = [script EXCEPT ![s] = [pc |-> "publish", force |-> force, keys |-> Fresh]]
          /\ envfile' = envfile /\ drawn < MaxDraws /\ drawn' = drawn + 1
      BY <3>1 DEF ScriptStart
    <3>4. /\ script'[s] = [pc |-> "publish", force |-> force, keys |-> Fresh]
          /\ \A t \in Scripts : t # s => script'[t] = script[t]
      BY <3>3 DEF IInv, TypeOK
    <3>5. ScriptsHaveKeys'
      BY <3>2, <3>4 DEF IInv, ScriptsHaveKeys, KeySet, Values
    <3>. QED BY <3>2, <3>3, <3>5, SecretsAssumption DEF IInv, TypeOK
  <2>2. CASE ScriptPublish(s)
    <3>1. /\ script[s].pc = "publish" /\ drawn' = drawn
          /\ envfile' = script[s].keys \/ envfile' = envfile
          /\ script' = [script EXCEPT ![s].pc = "done"]
      BY <2>2 DEF ScriptPublish
    <3>2. script[s].keys \in KeySet
      BY <3>1 DEF IInv, ScriptsHaveKeys
    <3>3. KeySet \subseteq Env
      BY DEF KeySet, Env
    <3>4. /\ script'[s].pc = "done"
          /\ \A t \in Scripts : t # s => script'[t] = script[t]
      BY <3>1 DEF IInv, TypeOK
    <3>5. ScriptsHaveKeys'
      BY <3>4 DEF IInv, ScriptsHaveKeys, KeySet, Values
    <3>. QED BY <3>1, <3>2, <3>3, <3>5 DEF IInv, TypeOK
  <2>. QED BY <2>1, <2>2
<1>3. TypeOK'
  BY <1>1, <1>2 DEF IInv, TypeOK, KeySet, Values, Env
<1>4. LockIsHeld' /\ MakersAreAlone'
  BY <1>1 DEF IInv, LockIsHeld, MakersAreAlone, KeySet, Values
<1>5. StoreIsOriginal' /\ UsedAreOriginal'
  BY <1>1 DEF IInv, StoreIsOriginal, StoreIsWhole, UsedAreOriginal, KeysFrom
<1>. QED BY <1>2, <1>3, <1>4, <1>5 DEF IInv

\* The inductive invariant holds: the lock has one holder, makers of a store are
\* alone, the store and the keys in use go back to the one original.
THEOREM Invariance == Spec => []IInv
<1>1. Init => IInv
  BY InitIInv
<1>2. IInv /\ [Next]_vars => IInv'
  <2> SUFFICES ASSUME IInv, [Next]_vars PROVE IInv'
    OBVIOUS
  <2>1. CASE \E p \in Procs : Start(p) \/ Lock(p) \/ OpenMissing(p) \/ OpenExisting(p)
    BY <2>1, StepStart, StepLock, StepOpenMissing, StepOpenExisting
  <2>2. CASE \E p \in Procs : Write(p) \/ WriteFail(p) \/ Replace(p) \/ Finish(p) \/ Kill(p)
    BY <2>2, StepWrite, StepEnd, StepReplace, StepFinish
  <2>3. CASE Corrupt \/ Expose \/ Restore
    BY <2>3, StepOutside
  <2>4. CASE \E s \in Scripts : (\E force \in BOOLEAN : ScriptStart(s, force)) \/ ScriptPublish(s)
    BY <2>4, StepScript
  <2>5. CASE UNCHANGED vars
    BY <2>5 DEF vars, IInv, TypeOK, ScriptsHaveKeys, LockIsHeld, MakersAreAlone, StoreIsOriginal,
                StoreIsWhole, UsedAreOriginal, KeysFrom, KeySet, Values, Env
  <2>. QED BY <2>1, <2>2, <2>3, <2>4, <2>5 DEF Next
<1>. QED BY <1>1, <1>2, PTL DEF Spec

\* Type correctness, the bounds on draws, kills and faults among it.
THEOREM TypeCorrect == Spec => []TypeOK
<1>1. IInv => TypeOK
  BY DEF IInv
<1>. QED BY <1>1, Invariance, PTL

\* Two processes that ever started under one environment have the same keys:
\* those of the environment, or its values and the rest of the original store.
THEOREM KeysAgree == Spec => []OneKeySet
<1>1. IInv => OneKeySet
  BY DEF IInv, UsedAreOriginal, OneKeySet
<1>. QED BY <1>1, Invariance, PTL

\* The store is the original or damaged from outside, never a part of a file.
THEOREM StoresAreWhole == Spec => []StoreIsWhole
<1>1. IInv => StoreIsWhole
  BY DEF IInv, StoreIsOriginal
<1>. QED BY <1>1, Invariance, PTL

\* No step of a process changes a store that exists: whoever replaces it found
\* none, and has had the lock since.
THEOREM StoresAreKept == Spec => StoreIsKept
<1>1. IInv /\ [Next]_vars =>
        [store # None => store' = store \/ Corrupt \/ Restore]_vars
  <2> SUFFICES ASSUME IInv, Next, store # None, store' # store
               PROVE  Corrupt \/ Restore
    BY DEF vars
  <2>1. \A p \in Procs : ~Replace(p)
    BY DEF Replace, IInv, MakersAreAlone
  <2>2. /\ \A p \in Procs : ~(Start(p) \/ Lock(p) \/ OpenMissing(p) \/ OpenExisting(p))
        /\ \A p \in Procs : ~(Write(p) \/ WriteFail(p) \/ Finish(p) \/ Kill(p))
    BY DEF Start, Lock, OpenMissing, OpenExisting, Write, WriteFail, Finish, Kill, fileVars
  <2>3. \A s \in Scripts : ~(\E force \in BOOLEAN : ScriptStart(s, force)) /\ ~ScriptPublish(s)
    BY DEF ScriptStart, ScriptPublish, fileVars
  <2>4. ~Expose
    BY DEF Expose
  <2>. QED BY <2>1, <2>2, <2>3, <2>4 DEF Next
<1>. QED BY <1>1, Invariance, PTL DEF Spec, StoreIsKept

\* Without --force an .env that is there stays as it is: ln, unlike mv, looks
\* and writes in one step, and nothing but the script writes .env.
THEOREM EnvFileStays == Spec => EnvFileIsKept
<1>1. IInv /\ [Next]_vars =>
        [envfile' # envfile => envfile = None
           \/ \E s \in Scripts : /\ script[s].pc = "publish" /\ script[s].force
                                /\ script'[s].pc = "done"]_vars
  <2> SUFFICES ASSUME IInv, [Next]_vars, envfile' # envfile
               PROVE  envfile = None
                        \/ \E s \in Scripts : /\ script[s].pc = "publish" /\ script[s].force
                                             /\ script'[s].pc = "done"
    OBVIOUS
  <2>1. ASSUME NEW p \in Procs,
               \/ Start(p) \/ Lock(p) \/ OpenMissing(p) \/ OpenExisting(p) \/ Write(p)
               \/ WriteFail(p) \/ Replace(p) \/ Finish(p) \/ Kill(p)
        PROVE  UNCHANGED envfile
    BY <2>1 DEF Start, Lock, OpenMissing, OpenExisting, Write, WriteFail, Replace, Finish, Kill,
       scriptVars
  <2>2. CASE Corrupt \/ Expose \/ Restore \/ UNCHANGED vars
    BY <2>2 DEF Corrupt, Expose, Restore, scriptVars, vars
  <2>3. ASSUME NEW s \in Scripts, NEW force \in BOOLEAN, ScriptStart(s, force)
        PROVE  UNCHANGED envfile
    BY <2>3 DEF ScriptStart
  <2>4. ASSUME NEW s \in Scripts, ScriptPublish(s)
        PROVE  envfile = None
                 \/ /\ script[s].pc = "publish" /\ script[s].force
                    /\ script'[s].pc = "done"
    <3>1. script \in [Scripts -> [pc : {"idle", "publish", "done"}, force : BOOLEAN,
                                  keys : KeySet \cup {None}]]
      BY DEF IInv, TypeOK
    <3>2. script'[s].pc = "done"
      BY <2>4, <3>1 DEF ScriptPublish
    <3>. QED BY <2>4, <3>2 DEF ScriptPublish
  <2>5. QED
    BY <2>1, <2>2, <2>3, <2>4 DEF Next
<1>2. QED
  BY <1>1, Invariance, PTL DEF Spec, EnvFileIsKept
=============================================================================
