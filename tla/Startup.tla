------------------------------- MODULE Startup -------------------------------
(***************************************************************************)
(* From the command line to a running server (poet.go, server/config.go,   *)
(* migrations, db/migrate.go, server/state.go, server.New): where the      *)
(* directories are, the move of the databases of an older version to their *)
(* new place, and the private key.  The process may crash or an operation  *)
(* on the disk may fail at any step, and it is then started again with the *)
(* same options.                                                           *)
(***************************************************************************)
EXTENDS Integers, Sequences, FiniteSets, SequencesExt, Functions

CONSTANTS
  None,
  ConfigFiles,    \* options an ini file may set: [poetDir, dataDir, dbDir], None if unset
  CommandLines,   \* options the flags may set, likewise
  Rounds,         \* names of the round directories of the older version, in order
  Records,        \* records of a database
  Keys,           \* private keys
  Invalid,        \* a key in the environment that cannot be decoded
  MaxCrashes,     \* bound: crashes of the process
  MaxErrors,      \* bound: operations of a start that fail
  MaxReadErrors   \* bound: reads of an old database that fail half way

(* Directories are paths, sequences of names.  The name of a round is a     *)
(* number, and so none of the names below.                                 *)
ASSUME StartupConstants ==
  /\ MaxCrashes \in Nat
  /\ MaxErrors \in Nat
  /\ MaxReadErrors \in Nat
  /\ None \notin Keys
  /\ Invalid \notin Keys
  /\ \A options \in ConfigFiles \cup CommandLines, o \in {"poetDir", "dataDir", "dbDir"} :
       options[o] # None => options[o] \in Seq(STRING)
  /\ Rounds \in Seq(STRING)
  /\ ToSet(Rounds) \cap {"proofs", "challengesDb", "junk"} = {}

VARIABLES
  file, flags,   \* the options, fixed
  cfg,           \* the Config they make, once parsed
  disk,          \* path -> [whole, records], for every LevelDB there is
  junk,          \* the rounds directory has an entry that is no round id
  badKeys,       \* the directory of trusted keys holds one that cannot be read
  keyFile,       \* the private key in state.bin, or None
  env,           \* POET_PRIVATE_KEY
  priv,          \* the key in memory
  pc,            \* where poetMain is; see Stages
  todo,          \* databases still to be migrated
  crashes, errors, readErrors,
  written        \* history: database -> records ever written to it

setupVars == <<junk, badKeys, keyFile>>
diskVars == <<disk, setupVars>>
inputVars == <<file, flags, env>>
faultVars == <<crashes, errors, readErrors>>
vars == <<inputVars, cfg, diskVars, priv, pc, todo, faultVars, written>>

Stages == {"off", "open", "copy", "remove", "removing", "rounds", "load", "save", "databases",
           "running", "failed", "broken"}
------------------------------------------------------------------------------
(* Configuration.  A path is a sequence of names. *)

DefaultConfig ==
  LET poetDir == <<"cache", "poet">> IN
  [poetDir |-> poetDir, dataDir |-> Append(poetDir, "data"), dbDir |-> Append(poetDir, "db")]

(* ParseFlags and ReadConfigFile: options that are given replace values. *)
Override(config, options) ==
  [o \in DOMAIN config |-> IF options[o] # None THEN options[o] ELSE config[o]]

(* Directories that are still the default ones move below poetDir. *)
SetupConfig(config) ==
  IF config.poetDir = DefaultConfig.dataDir THEN config
  ELSE [config EXCEPT
          !.dataDir = IF @ = DefaultConfig.dataDir THEN Append(config.poetDir, "data") ELSE @,
          !.dbDir = IF @ = DefaultConfig.dbDir THEN Append(config.poetDir, "db") ELSE @]

(* Flags (for the name of the file), file, SetupConfig, flags again. *)
ParsedConfig ==
  Override(SetupConfig(Override(Override(DefaultConfig, flags), file)), flags)
------------------------------------------------------------------------------
(* Databases *)

Dbs == {"proofs"} \cup ToSet(Rounds)

OldPath(d) ==
  IF d = "proofs" THEN Append(cfg.dataDir, "proofs")
  ELSE cfg.dataDir \o <<"rounds", d, "challengesDb">>

NewPath(d) ==
  IF d = "proofs" THEN Append(cfg.dbDir, "proofs") ELSE cfg.dbDir \o <<"rounds", d>>

Exists(path) == path \in DOMAIN disk
Below(path) == {p \in DOMAIN disk : IsPrefix(path, p)}
Without(paths) == Restrict(disk, DOMAIN disk \ paths)
With(path, db) == [p \in DOMAIN disk \cup {path} |-> IF p = path THEN db ELSE disk[p]]
Opened(paths) ==
  [p \in DOMAIN disk \cup paths |->
     IF Exists(p) THEN disk[p] ELSE [whole |-> TRUE, records |-> {}]]
RecordsAt(path) == IF Exists(path) /\ disk[path].whole THEN disk[path].records ELSE {}

(* An older version has left databases in the data directory; nothing has  *)
(* been written to the database directory yet.                             *)
Init ==
  /\ file \in ConfigFiles
  /\ flags \in CommandLines
  /\ cfg = ParsedConfig
  /\ junk \in BOOLEAN
  /\ badKeys \in BOOLEAN
  /\ \E old \in SUBSET Dbs :
       /\ written = [d \in Dbs |-> IF d \in old THEN Records ELSE {}]
       /\ disk = [p \in {OldPath(d) : d \in old} |-> [whole |-> TRUE, records |-> Records]]
  /\ keyFile = None
  /\ env \in Keys \cup {None, Invalid}
  /\ priv = None
  /\ pc = "off"
  /\ todo = <<>>
  /\ crashes = 0
  /\ errors = 0
  /\ readErrors = 0
------------------------------------------------------------------------------
Goto(stage) == pc' = stage
Fail == Goto("failed") /\ UNCHANGED <<inputVars, cfg, diskVars, priv, todo, faultVars, written>>

(* poetMain: the Config, then the migration of the proofs. *)
Start ==
  /\ pc = "off"
  /\ cfg' = ParsedConfig
  /\ Goto("open")
  /\ todo' = <<"proofs">>
  /\ UNCHANGED <<inputVars, diskVars, priv, faultVars, written>>

(* db.Migrate returns: the next database, or what follows the last one. *)
MigrateNext ==
  /\ todo' = Tail(todo)
  /\ Goto(CASE Len(todo) > 1 -> "open"
            [] todo = <<"proofs">> -> "rounds"
            [] OTHER -> "load")

Migrating(stage) == pc = stage /\ todo # <<>> /\ Head(todo) \in Dbs
Old == OldPath(Head(todo))
New == NewPath(Head(todo))

(* An in-place migration, or nothing to migrate. *)
MigrateSkip ==
  /\ Migrating("open")
  /\ Old = New \/ ~Exists(Old)
  /\ MigrateNext
  /\ UNCHANGED <<inputVars, cfg, diskVars, priv, faultVars, written>>

(* Open the old database and create the new one, which must not exist.     *)
MigrateOpen ==
  /\ Migrating("open")
  /\ Old # New
  /\ Exists(Old)
  /\ ~Exists(New)
  /\ disk' = With(New, [whole |-> TRUE, records |-> {}])
  /\ Goto("copy")
  /\ UNCHANGED <<inputVars, cfg, setupVars, priv, todo, faultVars, written>>

MigrateOpenFails_Ignored ==
  /\ Migrating("open")
  /\ Old # New
  /\ Exists(Old)
  /\ Exists(New) \/ ~disk[Old].whole
  /\ MigrateNext
  /\ UNCHANGED <<inputVars, cfg, diskVars, priv, faultVars, written>>

MigrateOpenFails ==
  /\ Migrating("open")
  /\ Old # New
  /\ Exists(Old)
  /\ Exists(New) \/ ~disk[Old].whole
  /\ Fail

MigrateCopy_NotCommitted ==
  /\ pc = "copy"
  /\ Goto("remove")
  /\ UNCHANGED <<inputVars, cfg, diskVars, priv, todo, faultVars, written>>

(* The copy is one transaction.  The error of the iterator is not looked    *)
(* at: after a failed read the records read so far are committed.          *)
MigrateCopy ==
  /\ pc = "copy"
  /\ \E read \in SUBSET RecordsAt(Old) :
       /\ read # RecordsAt(Old) => readErrors < MaxReadErrors
       /\ readErrors' = readErrors + IF read = RecordsAt(Old) THEN 0 ELSE 1
       /\ disk' = With(New, [whole |-> TRUE, records |-> read])
  /\ Goto("remove")
  /\ UNCHANGED <<inputVars, cfg, setupVars, priv, todo, crashes, errors, written>>

(* RemoveAll of everything below the old path: some files first; without    *)
(* the file CURRENT there is no database.                                   *)
MigrateRemove ==
  /\ pc = "remove"
  /\ disk' = [p \in DOMAIN disk |->
                IF p \in Below(Old) THEN [whole |-> FALSE, records |-> {}] ELSE disk[p]]
  /\ Goto("removing")
  /\ UNCHANGED <<inputVars, cfg, setupVars, priv, todo, faultVars, written>>

MigrateRemoved_Kept ==
  /\ pc = "removing"
  /\ disk' = With(Old, disk[New])
  /\ MigrateNext
  /\ UNCHANGED <<inputVars, cfg, setupVars, priv, faultVars, written>>

MigrateRemoved ==
  /\ pc = "removing"
  /\ disk' = Without(Below(Old))
  /\ MigrateNext
  /\ UNCHANGED <<inputVars, cfg, setupVars, priv, faultVars, written>>

(* migrateRoundsDbs: every directory below rounds, in the order of names,  *)
(* until one is not a round id.                                            *)
ReadRounds ==
  /\ pc = "rounds"
  /\ todo' = Rounds \o IF junk THEN <<"junk">> ELSE <<>>
  /\ Goto(IF todo' = <<>> THEN "load" ELSE "open")
  /\ UNCHANGED <<inputVars, cfg, diskVars, priv, faultVars, written>>

NotARound ==
  /\ pc = "open"
  /\ todo = <<"junk">>
  /\ Fail
------------------------------------------------------------------------------
(* server.New *)

LoadState_PrefersEnv ==
  /\ pc = "load"
  /\ env # Invalid
  /\ \/ env # None /\ priv' = env
     \/ env = None /\ keyFile # None /\ priv' = keyFile
     \/ env = None /\ keyFile = None /\ priv' \in Keys
  /\ Goto("save")
  /\ UNCHANGED <<inputVars, cfg, diskVars, todo, faultVars, written>>

LoadState_Undecoded ==
  /\ pc = "load"
  /\ keyFile # None /\ env # None => env = keyFile
  /\ \/ keyFile # None /\ priv' = keyFile
     \/ keyFile = None /\ env # None /\ priv' = env
     \/ keyFile = None /\ env = None /\ priv' \in Keys
  /\ Goto("save")
  /\ UNCHANGED <<inputVars, cfg, diskVars, todo, faultVars, written>>

(* loadState: the persisted key, else the one from the environment, else a *)
(* new one; a key in the environment must not contradict the file.         *)
LoadState ==
  /\ pc = "load"
  /\ env # Invalid
  /\ keyFile # None /\ env # None => env = keyFile
  /\ \/ keyFile # None /\ priv' = keyFile
     \/ keyFile = None /\ env # None /\ priv' = env
     \/ keyFile = None /\ env = None /\ priv' \in Keys
  /\ Goto("save")
  /\ UNCHANGED <<inputVars, cfg, diskVars, todo, faultVars, written>>

LoadStateFails ==
  /\ pc = "load"
  /\ env = Invalid \/ (keyFile # None /\ env \notin {None, keyFile})
  /\ Fail

(* saveState: an atomic replacement of the file. *)
SaveState ==
  /\ pc = "save"
  /\ keyFile' = priv
  /\ Goto("databases")
  /\ UNCHANGED <<inputVars, cfg, disk, junk, badKeys, priv, todo, faultVars, written>>

(* registration.New opens the database of the proofs, loads the trusted    *)
(* keys and opens the database of a round; a missing database is created.  *)
OpenDatabases(d) ==
  /\ pc = "databases"
  /\ ~badKeys
  /\ disk' = Opened({NewPath("proofs"), NewPath(d)})
  /\ Goto("running")
  /\ UNCHANGED <<inputVars, cfg, setupVars, priv, todo, faultVars, written>>

LoadTrustedPublicKeysFails ==
  /\ pc = "databases"
  /\ badKeys
  /\ disk' = Opened({NewPath("proofs")})
  /\ Goto("failed")
  /\ UNCHANGED <<inputVars, cfg, setupVars, priv, todo, faultVars, written>>

(* An operation of the start fails (opening a database, the transaction, a *)
(* Put, Commit, Close, RemoveAll, ReadDir, a listener, the state file) and *)
(* poetMain returns its error; what was done before is left as it is.      *)
Break ==
  /\ pc \notin {"off", "running", "failed", "broken"}
  /\ pc = "open" => Migrating("open") /\ Old # New
  /\ errors < MaxErrors
  /\ errors' = errors + 1
  /\ disk' \in {disk} \cup IF pc = "databases" THEN {Opened({NewPath("proofs")})} ELSE {}
  /\ Goto("broken")
  /\ UNCHANGED <<inputVars, cfg, setupVars, priv, todo, crashes, readErrors, written>>
------------------------------------------------------------------------------
(* The running server writes to a database it has. *)
Write(d, r) ==
  /\ pc = "running"
  /\ Exists(NewPath(d))
  /\ disk' = [disk EXCEPT ![NewPath(d)].records = @ \cup {r}]
  /\ written' = [written EXCEPT ![d] = @ \cup {r}]
  /\ UNCHANGED <<inputVars, cfg, setupVars, priv, pc, todo, faultVars>>

(* The worker removes directories below dataDir/rounds: those that recover  *)
(* finds without an execution, and the one of an execution that has ended.  *)
(* A database that lies there goes with them.                               *)
Teardown ==
  /\ pc = "running"
  /\ \E gone \in SUBSET Below(Append(cfg.dataDir, "rounds")) : disk' = Without(gone)
  /\ UNCHANGED <<inputVars, cfg, setupVars, priv, pc, todo, faultVars, written>>

Exit ==
  /\ pc = "running"
  /\ Goto("off")
  /\ UNCHANGED <<inputVars, cfg, diskVars, priv, todo, faultVars, written>>

Crash ==
  /\ pc \notin {"off", "failed", "broken"}
  /\ crashes < MaxCrashes
  /\ crashes' = crashes + 1
  /\ Goto("off")
  /\ UNCHANGED <<inputVars, cfg, diskVars, priv, todo, errors, readErrors, written>>

(* Before the next start the operator may set the environment and tidy up. *)
Operate ==
  /\ pc \in {"off", "failed", "broken"}
  /\ env' \in Keys \cup {None, Invalid}
  /\ junk' \in {junk, FALSE}
  /\ badKeys' \in {badKeys, FALSE}
  /\ Goto("off")
  /\ UNCHANGED <<file, flags, cfg, disk, keyFile, priv, todo, faultVars, written>>
------------------------------------------------------------------------------
Migrate ==
  \/ MigrateSkip
  \/ MigrateOpen
  \/ MigrateOpenFails
  \/ MigrateCopy
  \/ MigrateRemove
  \/ MigrateRemoved
  \/ ReadRounds
  \/ NotARound

StartServer ==
  \/ LoadState
  \/ LoadStateFails
  \/ SaveState
  \/ \E d \in ToSet(Rounds) : OpenDatabases(d)
  \/ LoadTrustedPublicKeysFails

Next ==
  \/ Start
  \/ Migrate
  \/ StartServer
  \/ Break
  \/ \E d \in Dbs, r \in Records : Write(d, r)
  \/ Teardown
  \/ Exit
  \/ Crash
  \/ Operate

Spec == Init /\ [][Next]_vars
------------------------------------------------------------------------------
(* Properties *)

TypeOK ==
  /\ \A p \in DOMAIN disk : disk[p].whole \in BOOLEAN /\ disk[p].records \subseteq Records
  /\ keyFile \in Keys \cup {None}
  /\ priv \in Keys \cup {None}
  /\ pc \in Stages
  /\ ToSet(todo) \subseteq Dbs \cup {"junk"}
  /\ crashes \in 0 .. MaxCrashes
  /\ errors \in 0 .. MaxErrors
  /\ readErrors \in 0 .. MaxReadErrors

(* What the process removes does not reach the new place of d: that is not  *)
(* below dataDir/rounds, nor below the old database of the proofs.          *)
Apart(d) ==
  /\ ~IsPrefix(Append(cfg.dataDir, "rounds"), NewPath(d))
  /\ IsPrefix(OldPath("proofs"), NewPath(d)) => NewPath(d) = OldPath("proofs")

(* The migration loses no record, wherever it is interrupted, whichever of *)
(* its operations fails and however often it is started again: one of the  *)
(* old and the new database is complete, so that the other may be deleted. *)
(* Excluded are a read of an old database that fails (its error is not     *)
(* looked at) and directories that lie within each other.                  *)
NoRecordLost ==
  readErrors = 0 =>
    \A d \in Dbs : Apart(d) => \/ written[d] \subseteq RecordsAt(OldPath(d))
                               \/ written[d] \subseteq RecordsAt(NewPath(d))

(* A server never runs on half a migration: whatever was written to any    *)
(* database, before or after the upgrade, is where it looks for it; with   *)
(* the exceptions of NoRecordLost.                                         *)
RunsOnAllRecords ==
  pc = "running" /\ readErrors = 0 =>
    \A d \in Dbs : Apart(d) => written[d] \subseteq RecordsAt(NewPath(d))

(* The identity of the server never changes: once a key was persisted,     *)
(* every later run uses it, or refuses to start, whatever is in the        *)
(* environment by then.                                                    *)
KeyIsStable ==
  [][/\ keyFile # None => keyFile' = keyFile
     /\ pc' = "running" => priv' = keyFile']_vars

(* Unless one of its own operations fails, nothing keeps a server from     *)
(* starting but an entry that is no round, a trusted key that cannot be    *)
(* read, a bad or contradicting key in the environment, or a database that *)
(* a crash or a failure in an earlier start has left in both places, or    *)
(* half removed.                                                           *)
StartSucceeds ==
  pc = "failed" =>
    \/ junk
    \/ badKeys
    \/ env = Invalid
    \/ keyFile # None /\ env \notin {None, keyFile}
    \/ /\ crashes > 0 \/ errors > 0
       /\ \E d \in Dbs : Exists(OldPath(d)) /\ (Exists(NewPath(d)) \/ ~disk[OldPath(d)].whole)
==============================================================================
