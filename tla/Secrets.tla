------------------------------ MODULE Secrets ------------------------------
(***************************************************************************)
(* The keys of the service: app/config.py, which reads them from the       *)
(* environment or from instance/secret.key and makes that file when it is  *)
(* missing, and scripts/gen-secrets.sh, which makes the .env file the      *)
(* environment comes from. Several processes start at once; each may be    *)
(* killed between two system calls, and the kernel then frees its lock.    *)
(***************************************************************************)
EXTENDS Naturals

CONSTANTS
  Names,     \* JWT_SECRET, SECRET_KEY, DATA_KEY
  Procs,     \* processes of the service
  Scripts,   \* runs of gen-secrets.sh
  HandSet,   \* names an .env written by hand may hold
  None,      \* no file, no process
  Broken,    \* what is not a JSON object with the keys
  MaxDraws, MaxKills, MaxFaults

Weak == 0         \* a key that _validate_keys refuses
ByHand == 1       \* a valid key chosen by hand; generated keys come after it

VARIABLES
  envfile,   \* .env: the values of the names it sets, None if there is no file
  store,     \* instance/secret.key
  private,   \* whether its mode and owner are what they should be
  lock,      \* who holds the lock on instance/secret.key.lock
  proc,      \* the processes: where they are, their environment, their keys
  temp,      \* the temporary file of each process, None if there is none
  script,    \* runs of gen-secrets.sh
  drawn,     \* the serial number of the last keys generated
  kills, faults,
  used,      \* history: <<environment, keys>> of all processes that started
  original   \* history: the first contents of the store, which a backup has

vars == <<envfile, store, private, lock, proc, temp, script, drawn,
          kills, faults, used, original>>
fileVars == <<store, private, original>>
scriptVars == <<envfile, script>>

Values == 0 .. (ByHand + MaxDraws)
KeySet == [Names -> Values]
Env == UNION {[S -> Values] : S \in SUBSET Names}
NoKeys == [n \in {} |-> Weak]

ASSUME SecretsAssumption ==
  /\ HandSet \subseteq Names
  /\ None \notin Procs /\ None # Broken
  /\ None \notin KeySet \cup Env /\ Broken \notin KeySet
  /\ MaxDraws \in Nat /\ MaxKills \in Nat /\ MaxFaults \in Nat

Idle == [pc |-> "idle", env |-> NoKeys, keys |-> None]

\* _validate_keys
Valid(keys) == \A n \in Names : keys[n] # Weak

\* What the environment gives goes before what is stored.
KeysFrom(env, stored) == [n \in Names |-> IF n \in DOMAIN env THEN env[n] ELSE stored[n]]

Fresh == [n \in Names |-> ByHand + drawn + 1]

\* No .env, or one written by hand, perhaps for other settings only.
Init ==
  /\ envfile \in {None} \cup UNION {[S -> {Weak, ByHand}] : S \in SUBSET HandSet}
  /\ store = None /\ private = TRUE /\ original = None
  /\ lock = None
  /\ proc = [p \in Procs |-> Idle]
  /\ temp = [p \in Procs |-> None]
  /\ script = [s \in Scripts |-> [pc |-> "idle", force |-> FALSE, keys |-> None]]
  /\ drawn = 0 /\ kills = 0 /\ faults = 0
  /\ used = {}

-----------------------------------------------------------------------------
(* _load_or_create_secrets. *)

\* The end of the function: with these keys the module is loaded, or an
\* exception ends the process. The lock is closed either way.
Leave(p, env, keys) ==
  IF Valid(keys)
  THEN /\ proc' = [proc EXCEPT ![p] = [pc |-> "running", env |-> env, keys |-> keys]]
       /\ used' = used \cup {<<env, keys>>}
  ELSE proc' = [proc EXCEPT ![p] = Idle] /\ UNCHANGED used
Raise(p) == proc' = [proc EXCEPT ![p] = Idle] /\ UNCHANGED used
Unlock(p) == lock' = IF lock = p THEN None ELSE lock

\* docker-compose.yml passes on what .env sets; a name it leaves out is empty.
Environment == IF envfile = None THEN NoKeys ELSE envfile

\* The environment is the .env of this moment. With all three keys in it the
\* store is not looked at.
Start(p) ==
  /\ proc[p].pc = "idle"
  /\ IF DOMAIN Environment = Names
     THEN Leave(p, Environment, Environment)
     ELSE proc' = [proc EXCEPT ![p] = [pc |-> "lock", env |-> Environment, keys |-> None]]
          /\ UNCHANGED used
  /\ UNCHANGED <<fileVars, scriptVars, lock, temp, drawn, kills, faults>>

\* Mutant: the lock is not waited for.
LockNoWait(p) ==
  /\ proc[p].pc = "lock"
  /\ lock' = p
  /\ proc' = [proc EXCEPT ![p].pc = "open"]
  /\ UNCHANGED <<fileVars, scriptVars, temp, drawn, kills, faults, used>>

Lock(p) ==
  /\ proc[p].pc = "lock" /\ lock = None
  /\ lock' = p
  /\ proc' = [proc EXCEPT ![p].pc = "open"]
  /\ UNCHANGED <<fileVars, scriptVars, temp, drawn, kills, faults, used>>

\* Mutant: whatever is wrong with the store, new keys are made (the code
\* before S-09 of docs/04).
OpenMissingOrBroken(p) ==
  /\ proc[p].pc = "open" /\ (store = None \/ store = Broken)
  /\ drawn < MaxDraws
  /\ drawn' = drawn + 1
  /\ temp' = [temp EXCEPT ![p] = Broken]
  /\ proc' = [proc EXCEPT ![p].pc = "write", ![p].keys = Fresh]
  /\ UNCHANGED <<fileVars, scriptVars, lock, kills, faults, used>>

\* Mutant: the store is opened for writing in its place.
OpenMissingInPlace(p) ==
  /\ proc[p].pc = "open" /\ store = None
  /\ drawn < MaxDraws
  /\ drawn' = drawn + 1
  /\ store' = Broken
  /\ temp' = [temp EXCEPT ![p] = Broken]
  /\ proc' = [proc EXCEPT ![p].pc = "write", ![p].keys = Fresh]
  /\ UNCHANGED <<private, original, scriptVars, lock, kills, faults, used>>

\* No store: keys are drawn, mkstemp makes an empty file.
OpenMissing(p) ==
  /\ proc[p].pc = "open" /\ store = None
  /\ drawn < MaxDraws
  /\ drawn' = drawn + 1
  /\ temp' = [temp EXCEPT ![p] = Broken]
  /\ proc' = [proc EXCEPT ![p].pc = "write", ![p].keys = Fresh]
  /\ UNCHANGED <<fileVars, scriptVars, lock, kills, faults, used>>

\* Mutant: the lock is not closed when an exception leaves the function.
OpenExistingKeepsLock(p) ==
  /\ proc[p].pc = "open" /\ store # None
  /\ IF private /\ store # Broken
     THEN Leave(p, proc[p].env, KeysFrom(proc[p].env, store)) /\ Unlock(p)
     ELSE Raise(p) /\ UNCHANGED lock
  /\ UNCHANGED <<fileVars, scriptVars, temp, drawn, kills, faults>>

\* A store that others may read, or that is no JSON object, stops the start.
OpenExisting(p) ==
  /\ proc[p].pc = "open" /\ store # None
  /\ IF private /\ store # Broken
     THEN Leave(p, proc[p].env, KeysFrom(proc[p].env, store))
     ELSE Raise(p)
  /\ Unlock(p)
  /\ UNCHANGED <<fileVars, scriptVars, temp, drawn, kills, faults>>

\* json.dump, flush, fsync
Write(p) ==
  /\ proc[p].pc = "write"
  /\ temp' = [temp EXCEPT ![p] = proc[p].keys]
  /\ proc' = [proc EXCEPT ![p].pc = "replace"]
  /\ UNCHANGED <<fileVars, scriptVars, lock, drawn, kills, faults, used>>

\* Writing or renaming fails: finally removes the temporary file.
WriteFail(p) ==
  /\ proc[p].pc \in {"write", "replace"}
  /\ faults < MaxFaults
  /\ faults' = faults + 1
  /\ temp' = [temp EXCEPT ![p] = None]
  /\ Raise(p)
  /\ Unlock(p)
  /\ UNCHANGED <<fileVars, scriptVars, drawn, kills>>

\* os.replace: the complete file takes the place of whatever is there.
Replace(p) ==
  /\ proc[p].pc = "replace"
  /\ store' = temp[p]
  /\ private' = TRUE
  /\ original' = IF original = None THEN temp[p] ELSE original
  /\ temp' = [temp EXCEPT ![p] = None]
  /\ proc' = [proc EXCEPT ![p].pc = "finish"]
  /\ UNCHANGED <<scriptVars, lock, drawn, kills, faults, used>>

Finish(p) ==
  /\ proc[p].pc = "finish"
  /\ Leave(p, proc[p].env, KeysFrom(proc[p].env, proc[p].keys))
  /\ Unlock(p)
  /\ UNCHANGED <<fileVars, scriptVars, temp, drawn, kills, faults>>

\* A process is killed, or a running one ends. The kernel closes its files; a
\* temporary one stays, under a random name that nobody will look for.
Kill(p) ==
  /\ proc[p].pc # "idle"
  /\ kills < MaxKills
  /\ kills' = kills + 1
  /\ proc' = [proc EXCEPT ![p] = Idle]
  /\ Unlock(p)
  /\ temp' = [temp EXCEPT ![p] = None]
  /\ UNCHANGED <<fileVars, scriptVars, drawn, faults, used>>

-----------------------------------------------------------------------------
(* What is done to the store from outside: it is damaged, or opened to
   others, and put right from the backup the operations manual asks for. *)

Corrupt ==
  /\ store \notin {None, Broken} /\ faults < MaxFaults
  /\ faults' = faults + 1
  /\ store' = Broken
  /\ UNCHANGED <<private, original, scriptVars, lock, proc, temp, drawn, kills, used>>

Expose ==
  /\ store # None /\ private /\ faults < MaxFaults
  /\ faults' = faults + 1
  /\ private' = FALSE
  /\ UNCHANGED <<store, original, scriptVars, lock, proc, temp, drawn, kills, used>>

Restore ==
  /\ store # None /\ (store = Broken \/ ~private)
  /\ store' = original
  /\ private' = TRUE
  /\ UNCHANGED <<original, scriptVars, lock, proc, temp, drawn, kills, faults, used>>

-----------------------------------------------------------------------------
(* scripts/gen-secrets.sh; its temporary file is never read by anyone. *)

\* Keys are drawn before .env is looked for. An existing one, whatever it sets,
\* ends the script unless --force is given.
ScriptStart(s, force) ==
  /\ script[s].pc = "idle"
  /\ drawn < MaxDraws
  /\ drawn' = drawn + 1
  /\ force \/ envfile = None
  /\ script' = [script EXCEPT ![s] = [pc |-> "publish", force |-> force, keys |-> Fresh]]
  /\ UNCHANGED <<fileVars, envfile, lock, proc, temp, kills, faults, used>>

\* Mutant: mv in both cases.
ScriptPublishMv(s) ==
  /\ script[s].pc = "publish"
  /\ envfile' = script[s].keys
  /\ script' = [script EXCEPT ![s].pc = "done"]
  /\ UNCHANGED <<fileVars, lock, proc, temp, drawn, kills, faults, used>>

\* mv -f replaces, ln refuses an existing file.
ScriptPublish(s) ==
  /\ script[s].pc = "publish"
  /\ envfile' = IF script[s].force \/ envfile = None THEN script[s].keys ELSE envfile
  /\ script' = [script EXCEPT ![s].pc = "done"]
  /\ UNCHANGED <<fileVars, lock, proc, temp, drawn, kills, faults, used>>

Next ==
  \/ \E p \in Procs :
       \/ Start(p) \/ Lock(p) \/ OpenMissing(p) \/ OpenExisting(p)
       \/ Write(p) \/ WriteFail(p) \/ Replace(p) \/ Finish(p) \/ Kill(p)
  \/ Corrupt \/ Expose \/ Restore
  \/ \E s \in Scripts : (\E force \in BOOLEAN : ScriptStart(s, force)) \/ ScriptPublish(s)

Spec == Init /\ [][Next]_vars

\* A process that runs goes on; flock hands a free lock to someone who waits,
\* and each waiter is served in the end (kills and faults are finitely many).
Fairness ==
  \A p \in Procs :
    /\ WF_vars(OpenMissing(p) \/ OpenExisting(p) \/ Write(p) \/ Replace(p) \/ Finish(p))
    /\ SF_vars(Lock(p))

FairSpec == Spec /\ Fairness

-----------------------------------------------------------------------------
(* Properties. *)

ProcRecord ==
  [pc : {"idle", "lock", "open", "write", "replace", "finish", "running"},
   env : Env, keys : KeySet \cup {None}]

TypeOK ==
  /\ envfile \in Env \cup {None}
  /\ store \in KeySet \cup {None, Broken}
  /\ private \in BOOLEAN
  /\ lock \in Procs \cup {None}
  /\ proc \in [Procs -> ProcRecord]
  /\ temp \in [Procs -> KeySet \cup {None, Broken}]
  /\ script \in [Scripts -> [pc : {"idle", "publish", "done"}, force : BOOLEAN,
                             keys : KeySet \cup {None}]]
  /\ drawn \in 0 .. MaxDraws
  /\ kills \in 0 .. MaxKills /\ faults \in 0 .. MaxFaults
  /\ used \subseteq (Env \X KeySet)
  /\ original \in KeySet \cup {None}

\* However many processes start together, are killed and start again, and
\* whatever happens to the store meanwhile: under the same environment they
\* all have the same keys (the criterion of S-09 in docs/04).
OneKeySet == \A u, v \in used : u[1] = v[1] => u[2] = v[2]

\* A store that exists is never replaced by a process of the service, however
\* long ago it looked, and not even when the store is broken.
StoreIsKept ==
  [][store # None => store' = store \/ Corrupt \/ Restore]_vars

\* Nobody ever finds half a file where the store should be: unless it was
\* damaged from outside it holds the keys it was made with.
StoreIsWhole == store \in {None, original} \/ (store = Broken /\ faults > 0)

\* Without --force an .env that is there stays as it is, also one without any of
\* the keys, although the script looks for it long before it writes: only the
\* script that was given --force replaces it.
EnvFileIsKept ==
  [][envfile' # envfile => envfile = None
       \/ \E s \in Scripts : /\ script[s].pc = "publish" /\ script[s].force
                            /\ script'[s].pc = "done"]_vars

-----------------------------------------------------------------------------
(* The inductive invariant. *)

Inside == {"open", "write", "replace", "finish"}

\* Only the holder of the lock is past it.
LockIsHeld == \A p \in Procs : (proc[p].pc \in Inside) = (lock = p)

\* Whoever makes a store found none and is alone until it is there; it goes on
\* with the keys it stored.
MakersAreAlone ==
  \A p \in Procs :
    /\ proc[p].pc \in {"write", "replace"} => store = None /\ proc[p].keys \in KeySet
    /\ proc[p].pc = "replace" => temp[p] = proc[p].keys
    /\ proc[p].pc = "finish" => proc[p].keys = original /\ original # None
    /\ proc[p].pc \in {"lock", "open", "write", "replace", "finish"} => DOMAIN proc[p].env # Names

\* The store holds the keys it was made with, or it was damaged.
StoreIsOriginal ==
  /\ StoreIsWhole
  /\ store = None <=> original = None

\* The keys in use are those of the environment, or those of the store.
UsedAreOriginal ==
  \A u \in used :
    IF DOMAIN u[1] = Names THEN u[2] = u[1]
    ELSE original # None /\ u[2] = KeysFrom(u[1], original)

ScriptsHaveKeys == \A s \in Scripts : script[s].pc = "publish" => script[s].keys \in KeySet

IInv ==
  /\ TypeOK
  /\ ScriptsHaveKeys
  /\ LockIsHeld
  /\ MakersAreAlone
  /\ StoreIsOriginal
  /\ UsedAreOriginal

-----------------------------------------------------------------------------
\* Whoever waits for the lock gets its keys, fails, or is killed: nobody keeps
\* the lock.
StartsEnd == \A p \in Procs : proc[p].pc = "lock" ~> proc[p].pc \in {"idle", "running"}
=============================================================================
