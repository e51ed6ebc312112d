---------------------------- MODULE Startup_proofs ---------------------------
(***************************************************************************)
(* The start of a server, for any options, databases, keys and numbers of  *)
(* crashes, failed operations and failed reads: the private key never      *)
(* changes, the migration loses no record and the server runs only after   *)
(* it, and a start fails only for the reasons StartSucceeds names.         *)
(***************************************************************************)
EXTENDS Startup, TLAPS

(* What KeyIsStable rests on: between loadState and saveState the key in    *)
(* memory does not contradict the file, and afterwards they are equal.      *)
KeyInv ==
  /\ pc = "save" /\ keyFile # None => priv = keyFile
  /\ pc \in {"databases", "running"} => priv = keyFile

(* Every step of the start and of the server keeps KeyInv, and changes the  *)
(* key file only when there is none (loadState, saveState).                 *)
LEMMA KeyStep ==
  ASSUME KeyInv, [Next]_vars
  PROVE  /\ KeyInv'
         /\ keyFile # None => keyFile' = keyFile
         /\ pc' = "running" => priv' = keyFile'
<1> USE DEF KeyInv, Goto, diskVars, setupVars, inputVars, faultVars
<1>1. CASE Start
  BY <1>1 DEF Start
<1>2. CASE Migrate
  <2> USE DEF MigrateNext, Migrating, Fail
  <2>1. CASE MigrateSkip
    BY <2>1 DEF MigrateSkip
  <2>2. CASE MigrateOpen
    BY <2>2 DEF MigrateOpen
  <2>3. CASE MigrateOpenFails
    BY <2>3 DEF MigrateOpenFails
  <2>4. CASE MigrateCopy
    BY <2>4 DEF MigrateCopy
  <2>5. CASE MigrateRemove
    BY <2>5 DEF MigrateRemove
  <2>6. CASE MigrateRemoved
    BY <2>6 DEF MigrateRemoved
  <2>7. CASE ReadRounds
    BY <2>7 DEF ReadRounds
  <2>8. CASE NotARound
    BY <2>8 DEF NotARound
  <2> QED
    BY <1>2, <2>1, <2>2, <2>3, <2>4, <2>5, <2>6, <2>7, <2>8 DEF Migrate
<1>3. CASE StartServer
  <2>1. CASE LoadState
    BY <2>1 DEF LoadState
  <2>2. CASE LoadStateFails
    BY <2>2 DEF LoadStateFails, Fail
  <2>3. CASE SaveState
    BY <2>3 DEF SaveState
  <2>4. ASSUME NEW d \in ToSet(Rounds), OpenDatabases(d)
        PROVE  /\ KeyInv'
               /\ keyFile # None => keyFile' = keyFile
               /\ pc' = "running" => priv' = keyFile'
    BY <2>4 DEF OpenDatabases
  <2>5. CASE LoadTrustedPublicKeysFails
    BY <2>5 DEF LoadTrustedPublicKeysFails
  <2> QED
    BY <1>3, <2>1, <2>2, <2>3, <2>4, <2>5 DEF StartServer
<1>4. CASE \E d \in Dbs, r \in Records : Write(d, r)
  BY <1>4 DEF Write
<1>5. CASE Exit
  BY <1>5 DEF Exit
<1>6. CASE Crash
  BY <1>6 DEF Crash
<1>7. CASE Operate
  BY <1>7 DEF Operate
<1>8. CASE Break
  BY <1>8 DEF Break
<1>9. CASE Teardown
  BY <1>9 DEF Teardown
<1>10. CASE UNCHANGED vars
  BY <1>10 DEF vars
<1> QED
  BY <1>1, <1>2, <1>3, <1>4, <1>5, <1>6, <1>7, <1>8, <1>9, <1>10 DEF Next

(* Once loadState and saveState have persisted a key, no later start with   *)
(* another environment, crash or migration makes the server use another.    *)
THEOREM KeyStability == Spec => KeyIsStable
<1>1. Init => KeyInv
  BY DEF Init, KeyInv
<1>2. KeyInv /\ [Next]_vars => KeyInv'
  BY KeyStep
<1>3. KeyInv /\ [Next]_vars =>
        [/\ keyFile # None => keyFile' = keyFile
         /\ pc' = "running" => priv' = keyFile']_vars
  BY KeyStep
<1> QED
  BY <1>1, <1>2, <1>3, PTL DEF Spec, KeyIsStable
------------------------------------------------------------------------------
(* What is typed, beyond TypeOK, and never changes after the options were   *)
(* parsed.                                                                  *)
Typed ==
  /\ TypeOK
  /\ file \in ConfigFiles
  /\ flags \in CommandLines
  /\ cfg = ParsedConfig
  /\ env \in Keys \cup {None, Invalid}
  /\ \A p \in DOMAIN disk : disk[p] \in [whole : BOOLEAN, records : SUBSET Records]
  /\ written \in [Dbs -> SUBSET Records]
  /\ todo \in Seq(Dbs \cup {"junk"})

(* There is nothing left to migrate in database d. *)
Settled(d) == OldPath(d) = NewPath(d) \/ ~Exists(OldPath(d))

(* How far db.Migrate has come with the database at the head of todo. *)
HeadInv ==
  pc \in {"copy", "remove", "removing"} =>
    /\ Head(todo) \in Dbs
    /\ Old # New
    /\ Exists(Old)
    /\ Exists(New)
    /\ pc = "copy" => disk[New].records = {}
    /\ pc = "remove" /\ readErrors = 0 => RecordsAt(Old) \subseteq RecordsAt(New)
    /\ pc = "removing" => ~disk[Old].whole

(* How far the start has come with all of them: the proofs first, then the  *)
(* rounds in turn, and the server only when all are settled.                *)
TodoInv ==
  /\ pc \in {"open", "copy", "remove", "removing"} =>
       /\ todo # <<>>
       /\ "junk" \in ToSet(todo) => junk
       /\ todo # <<"proofs">> => /\ "proofs" \notin ToSet(todo)
                                 /\ \A d \in Dbs \ ToSet(todo) : Settled(d)
  /\ pc = "rounds" => Settled("proofs")
  /\ pc \in {"load", "save", "databases", "running"} => \A d \in Dbs : Settled(d)

(* What is on the disk at any time: a new database out of the reach of the  *)
(* removals can be opened; a half removed one, or one that is in both       *)
(* places, is being migrated or was left by a crash or a failure.           *)
DiskInv ==
  /\ \A d \in Dbs : Apart(d) /\ Exists(NewPath(d)) => disk[NewPath(d)].whole
  /\ \A d \in Dbs : Exists(OldPath(d)) /\ ~disk[OldPath(d)].whole =>
       crashes > 0 \/ errors > 0 \/ (pc = "removing" /\ d = Head(todo))
  /\ \A d \in Dbs : Exists(OldPath(d)) /\ Exists(NewPath(d)) /\ OldPath(d) # NewPath(d) =>
       \/ crashes > 0
       \/ errors > 0
       \/ pc \in {"copy", "remove", "removing"} /\ d = Head(todo)

StartupInv == Typed /\ HeadInv /\ TodoInv /\ DiskInv /\ NoRecordLost /\ StartSucceeds

(* The directories of the Config, as ParseFlags, ReadConfigFile and         *)
(* SetupConfig make them.                                                   *)
Directory(option, name) ==
  LET poetDir == IF file.poetDir # None THEN file.poetDir
                 ELSE IF flags.poetDir # None THEN flags.poetDir ELSE DefaultConfig.poetDir
      base == IF poetDir = DefaultConfig.dataDir THEN DefaultConfig.poetDir ELSE poetDir
  IN IF flags[option] # None THEN flags[option]
     ELSE IF file[option] \notin {None, DefaultConfig[option]} THEN file[option]
     ELSE Append(base, name)

(* Which value each directory ends up with. *)
LEMMA ParsedDirectories ==
  /\ ParsedConfig.dataDir = Directory("dataDir", "data")
  /\ ParsedConfig.dbDir = Directory("dbDir", "db")
<1> DEFINE D == DefaultConfig
           A == Override(Override(D, flags), file)
           B == SetupConfig(A)
           given(o) == IF file[o] # None THEN file[o] ELSE IF flags[o] # None THEN flags[o] ELSE D[o]
           opts == {"poetDir", "dataDir", "dbDir"}
<1>1. /\ D.poetDir = <<"cache", "poet">>
      /\ D.dataDir = Append(D.poetDir, "data")
      /\ D.dbDir = Append(D.poetDir, "db")
      /\ DOMAIN D = opts
  BY DEF DefaultConfig
<1> HIDE DEF D
<1>2. A = [o \in opts |-> given(o)]
  BY <1>1 DEF Override
<1> HIDE DEF A
<1>3. A.poetDir = given("poetDir") /\ A.dataDir = given("dataDir") /\ A.dbDir = given("dbDir")
  BY <1>2
<1>4. /\ DOMAIN B = opts
      /\ B.dataDir = IF A.poetDir # D.dataDir /\ A.dataDir = D.dataDir
                     THEN Append(A.poetDir, "data") ELSE A.dataDir
      /\ B.dbDir = IF A.poetDir # D.dataDir /\ A.dbDir = D.dbDir
                     THEN Append(A.poetDir, "db") ELSE A.dbDir
  BY <1>2, <1>3 DEF SetupConfig, D
<1>5. ParsedConfig = Override(B, flags)
  BY DEF ParsedConfig, A, D
<1> HIDE DEF B
<1>6. /\ ParsedConfig.dataDir = IF flags.dataDir # None THEN flags.dataDir ELSE B.dataDir
      /\ ParsedConfig.dbDir = IF flags.dbDir # None THEN flags.dbDir ELSE B.dbDir
  BY <1>4, <1>5, Zenon DEF Override
<1>7. /\ ParsedConfig.dataDir = Directory("dataDir", "data")
  BY <1>1, <1>3, <1>4, <1>6, Zenon DEF Directory, D
<1>8. /\ ParsedConfig.dbDir = Directory("dbDir", "db")
  BY <1>1, <1>3, <1>4, <1>6, Zenon DEF Directory, D
<1> QED
  BY <1>7, <1>8

(* The names in a path; the prover does not know that literals are strings. *)
Names == STRING \cup {"cache", "poet", "data", "db", "rounds", "proofs", "challengesDb"}

(* Sequences of names. *)
LEMMA PathsOver ==
  ASSUME NEW S, NEW T, S \subseteq T
  PROVE  /\ \A a, b \in S : <<a, b>> \in Seq(S)
         /\ \A path \in Seq(S), a \in S : Append(path, a) \in Seq(S)
         /\ \A path \in Seq(S) : path \in Seq(T) /\ ToSet(path) \subseteq T
BY DEF ToSet

(* Whatever the options, the directories of the Config are paths.           *)
LEMMA DirectoriesArePaths ==
  ASSUME Typed
  PROVE  cfg.dataDir \in Seq(Names) /\ cfg.dbDir \in Seq(Names)
<1> DEFINE Opts == {"poetDir", "dataDir", "dbDir"}
<1>1. "cache" \in Names /\ "poet" \in Names /\ "data" \in Names /\ "db" \in Names
  BY DEF Names
<1>2. STRING \subseteq Names
  BY DEF Names
<1>3. DefaultConfig.poetDir = <<"cache", "poet">>
  BY DEF DefaultConfig
<1>4. DefaultConfig.poetDir \in Seq(Names)
  BY <1>1, <1>3, PathsOver
<1>5. /\ \A path \in Seq(Names), n \in Names : Append(path, n) \in Seq(Names)
      /\ \A path \in Seq(STRING) : path \in Seq(Names)
  BY <1>2, PathsOver, Zenon
<1>6. /\ \A o \in Opts : file[o] # None => file[o] \in Seq(Names)
      /\ \A o \in Opts : flags[o] # None => flags[o] \in Seq(Names)
  BY <1>5, StartupConstants DEF Typed
<1>7. Directory("dataDir", "data") \in Seq(Names)
  BY <1>1, <1>4, <1>5, <1>6 DEF Directory
<1>8. Directory("dbDir", "db") \in Seq(Names)
  BY <1>1, <1>4, <1>5, <1>6 DEF Directory
<1> QED
  BY <1>7, <1>8, ParsedDirectories DEF Typed

(* No two databases share a directory, neither old nor new: the last names *)
(* of their paths differ, as no round is called proofs or challengesDb.    *)
LEMMA PathsAreDistinct ==
  ASSUME Typed, NEW d \in Dbs, NEW e \in Dbs
  PROVE  /\ OldPath(d) = OldPath(e) => d = e
         /\ NewPath(d) = NewPath(e) => d = e
         /\ OldPath(d) = NewPath(e) => d = e
<1>1. cfg.dataDir \in Seq(Names) /\ cfg.dbDir \in Seq(Names)
  BY DirectoriesArePaths
<1>2. ASSUME NEW x \in Dbs, x # "proofs" PROVE x \in Names /\ x \notin {"proofs", "challengesDb"}
  <2>1. x \in ToSet(Rounds)
    BY <1>2 DEF Dbs
  <2>2. STRING \subseteq Names
    BY DEF Names
  <2>3. x \in Names
    BY <2>1, <2>2, PathsOver, StartupConstants, Zenon
  <2> QED
    BY <2>1, <2>3, StartupConstants
<1> DEFINE a == cfg.dataDir
           b == cfg.dbDir
<1>3. ASSUME NEW x \in Dbs
      PROVE  /\ x = "proofs" => /\ Len(OldPath(x)) = Len(a) + 1
                                /\ OldPath(x)[Len(OldPath(x))] = "proofs"
                                /\ Len(NewPath(x)) = Len(b) + 1
                                /\ NewPath(x)[Len(NewPath(x))] = "proofs"
             /\ x # "proofs" => /\ Len(OldPath(x)) = Len(a) + 3
                                /\ OldPath(x)[Len(OldPath(x)) - 1] = x
                                /\ OldPath(x)[Len(OldPath(x))] = "challengesDb"
                                /\ Len(NewPath(x)) = Len(b) + 2
                                /\ NewPath(x)[Len(NewPath(x))] = x
  <2>1. \A n \in {"rounds", "proofs", "challengesDb"} : n \in Names
    BY DEF Names
  <2> QED
    BY <1>1, <1>2, <2>1 DEF OldPath, NewPath
<1>4. OldPath(d) = OldPath(e) => d = e
  BY <1>1, <1>2, <1>3
<1>5. NewPath(d) = NewPath(e) => d = e
  BY <1>1, <1>2, <1>3
<1>6. OldPath(d) = NewPath(e) => d = e
  BY <1>1, <1>2, <1>3
<1> QED BY <1>4, <1>5, <1>6

(* What a path says about the paths below it. *)
LEMMA PrefixNames ==
  ASSUME NEW S, NEW s \in Seq(S), NEW t \in Seq(S)
  PROVE  /\ IsPrefix(s, s)
         /\ IsPrefix(s, t) => Len(s) <= Len(t) /\ \A i \in 1 .. Len(s) : s[i] = t[i]
         /\ Len(s) <= Len(t) /\ (\A i \in 1 .. Len(s) : s[i] = t[i]) => IsPrefix(s, t)
<1>1. Len(s) \in Nat /\ Len(t) \in Nat
  OBVIOUS
<1>2. SubSeq(s, 1, Len(s)) = [i \in 1 .. Len(s) |-> s[i]]
  BY <1>1
<1>3. Len(s) <= Len(t) => SubSeq(t, 1, Len(s)) = [i \in 1 .. Len(s) |-> t[i]]
  BY <1>1
<1> QED
  BY <1>1, <1>2, <1>3 DEF IsPrefix

(* What RemoveAll of an old database reaches: no other old one, and no new  *)
(* one that lies apart.                                                     *)
LEMMA RemovalReaches ==
  ASSUME Typed, NEW d \in Dbs, NEW e \in Dbs
  PROVE  /\ IsPrefix(OldPath(d), OldPath(d))
         /\ IsPrefix(OldPath(d), OldPath(e)) => d = e
         /\ IsPrefix(OldPath(d), NewPath(e)) /\ Apart(e) => OldPath(d) = NewPath(e)
<1> DEFINE a == cfg.dataDir
           b == cfg.dbDir
           rounds == Append(a, "rounds")
<1>1. a \in Seq(Names) /\ b \in Seq(Names)
  BY DirectoriesArePaths
<1>2. ASSUME NEW x \in Dbs, x # "proofs" PROVE x \in Names
  <2>1. x \in ToSet(Rounds)
    BY <1>2 DEF Dbs
  <2>2. STRING \subseteq Names
    BY DEF Names
  <2> QED
    BY <2>1, <2>2, PathsOver, StartupConstants, Zenon
<1>3. \A n \in {"rounds", "proofs", "challengesDb"} : n \in Names
  BY DEF Names
<1>4. ASSUME NEW x \in Dbs
      PROVE  /\ OldPath(x) \in Seq(Names) /\ NewPath(x) \in Seq(Names)
             /\ x = "proofs" => Len(OldPath(x)) = Len(a) + 1 /\ OldPath(x)[Len(a) + 1] = "proofs"
             /\ x # "proofs" => /\ Len(OldPath(x)) = Len(a) + 3
                                /\ \A i \in 1 .. Len(a) + 1 : OldPath(x)[i] = rounds[i]
                                /\ OldPath(x)[Len(a) + 1] = "rounds"
                                /\ OldPath(x)[Len(a) + 2] = x
  BY <1>1, <1>2, <1>3 DEF OldPath, NewPath
<1>5. /\ rounds \in Seq(Names)
      /\ Len(rounds) = Len(a) + 1
      /\ Len(a) \in Nat
  BY <1>1, <1>3
<1> HIDE DEF rounds
<1>6. IsPrefix(OldPath(d), OldPath(d))
  BY <1>4, PrefixNames
<1>7. ASSUME IsPrefix(OldPath(d), OldPath(e)) PROVE d = e
  <2>1. /\ Len(OldPath(d)) <= Len(OldPath(e))
        /\ \A i \in 1 .. Len(OldPath(d)) : OldPath(d)[i] = OldPath(e)[i]
    BY <1>4, <1>7, PrefixNames
  <2>2. Len(a) + 1 \in 1 .. Len(OldPath(d)) /\ (d # "proofs" => Len(a) + 2 \in 1 .. Len(OldPath(d)))
    BY <1>4, <1>5
  <2>3. CASE d = "proofs"
    BY <1>4, <2>1, <2>2, <2>3
  <2>4. CASE d # "proofs" /\ e # "proofs"
    BY <1>4, <2>1, <2>2, <2>4
  <2>5. CASE d # "proofs" /\ e = "proofs"
    BY <1>4, <1>5, <2>1, <2>5
  <2> QED
    BY <2>3, <2>4, <2>5
<1>8. ASSUME IsPrefix(OldPath(d), NewPath(e)), Apart(e) PROVE OldPath(d) = NewPath(e)
  <2>1. CASE d = "proofs"
    BY <1>8, <2>1 DEF Apart
  <2>2. CASE d # "proofs"
    <3>1. /\ Len(OldPath(d)) <= Len(NewPath(e))
          /\ \A i \in 1 .. Len(OldPath(d)) : OldPath(d)[i] = NewPath(e)[i]
      BY <1>4, <1>8, PrefixNames
    <3>2. Len(rounds) <= Len(NewPath(e)) /\ \A i \in 1 .. Len(rounds) : rounds[i] = NewPath(e)[i]
      BY <1>4, <1>5, <2>2, <3>1
    <3>3. IsPrefix(rounds, NewPath(e))
      BY <1>4, <1>5, <3>2, PrefixNames
    <3> QED
      BY <1>8, <3>3 DEF Apart, rounds
  <2> QED
    BY <2>1, <2>2
<1> QED
  BY <1>6, <1>7, <1>8

(* The paths of the databases never change: the options are fixed. *)
LEMMA PathsAreFixed ==
  ASSUME Typed, [Next]_vars
  PROVE  /\ file' = file /\ flags' = flags /\ cfg' = cfg /\ ParsedConfig' = ParsedConfig
         /\ \A d \in Dbs : /\ OldPath(d)' = OldPath(d)
                           /\ NewPath(d)' = NewPath(d)
                           /\ Apart(d)' = Apart(d)
<1>1. file' = file /\ flags' = flags /\ cfg' \in {cfg, ParsedConfig}
  BY Zenon DEF Next, Start, Migrate, StartServer, Write, Exit, Crash, Operate, MigrateSkip,
     MigrateOpen, MigrateOpenFails, MigrateCopy, MigrateRemove, MigrateRemoved, ReadRounds,
     NotARound, LoadState, LoadStateFails, SaveState, OpenDatabases, Fail,
     LoadTrustedPublicKeysFails, Break, Teardown, inputVars, vars
<1>2. cfg' = cfg /\ ParsedConfig' = ParsedConfig
  BY <1>1, Zenon DEF Typed, ParsedConfig
<1> QED
  BY <1>1, <1>2 DEF OldPath, NewPath, Apart

(* The rest of a list of databases. *)
LEMMA TodoTail ==
  ASSUME NEW S, NEW s \in Seq(S), s # <<>>
  PROVE  /\ Head(s) \in S
         /\ Tail(s) \in Seq(S)
         /\ ToSet(s) = ToSet(Tail(s)) \cup {Head(s)}
         /\ Len(s) > 1 => Tail(s) # <<>>
         /\ ~(Len(s) > 1) => s = <<Head(s)>> /\ ToSet(s) = {Head(s)}
<1>1. /\ Len(s) \in Nat \ {0} /\ DOMAIN s = 1 .. Len(s)
      /\ Head(s) = s[1] /\ Head(s) \in S
      /\ Tail(s) \in Seq(S) /\ Len(Tail(s)) = Len(s) - 1 /\ DOMAIN Tail(s) = 1 .. Len(s) - 1
  OBVIOUS
<1>2. \A i \in 1 .. Len(s) - 1 : Tail(s)[i] = s[i + 1]
  OBVIOUS
<1>3. ToSet(s) \subseteq ToSet(Tail(s)) \cup {Head(s)}
  <2> SUFFICES ASSUME NEW i \in 1 .. Len(s) PROVE s[i] \in ToSet(Tail(s)) \cup {Head(s)}
    BY <1>1, Zenon DEF ToSet
  <2>1. CASE i = 1
    BY <1>1, <2>1
  <2>2. CASE i # 1
    <3>1. i - 1 \in 1 .. Len(s) - 1 /\ (i - 1) + 1 = i
      BY <1>1, <2>2
    <3>2. Tail(s)[i - 1] = s[i]
      BY <1>2, <3>1
    <3> QED
      BY <1>1, <3>1, <3>2, Zenon DEF ToSet
  <2> QED
    BY <2>1, <2>2, Zenon
<1>4. ToSet(Tail(s)) \cup {Head(s)} \subseteq ToSet(s)
  <2>1. \A i \in 1 .. Len(s) - 1 : i + 1 \in 1 .. Len(s)
    BY <1>1
  <2> QED
    BY <1>1, <1>2, <2>1 DEF ToSet
<1>5. ASSUME ~(Len(s) > 1) PROVE s = <<Head(s)>> /\ ToSet(s) = {Head(s)}
  <2>1. Len(s) = 1
    BY <1>1, <1>5
  <2>2. s = <<Head(s)>>
    BY <1>1, <2>1
  <2> QED
    BY <1>1, <2>1, <2>2 DEF ToSet
<1>6. Len(s) > 1 => Tail(s) # <<>>
  BY <1>1
<1> QED
  BY <1>1, <1>3, <1>4, <1>5, <1>6, Zenon

(* The list with one element. *)
LEMMA Singleton ==
  ASSUME NEW x, NEW s, s = <<x>>
  PROVE  ~(Len(s) > 1) /\ Head(s) = x /\ ToSet(s) = {x}
BY DEF ToSet

(* One step of the start keeps StartupInv: one case per action. *)
LEMMA StartupStep ==
  ASSUME StartupInv, [Next]_vars
  PROVE  StartupInv'
<1> USE DEF Goto, Exists, inputVars, diskVars, setupVars, faultVars, Old, New, Stages
<1>0. /\ file' = file /\ flags' = flags /\ cfg' = cfg /\ ParsedConfig' = ParsedConfig
      /\ \A d \in Dbs : /\ OldPath(d)' = OldPath(d)
                        /\ NewPath(d)' = NewPath(d)
                        /\ Apart(d)' = Apart(d)
  BY PathsAreFixed, Zenon DEF StartupInv
<1>d. \A d, e \in Dbs : /\ OldPath(d) = OldPath(e) => d = e
                        /\ NewPath(d) = NewPath(e) => d = e
                        /\ OldPath(d) = NewPath(e) => d = e
  BY PathsAreDistinct DEF StartupInv
<1>r. \A d, e \in Dbs :
        /\ OldPath(d) \in Below(OldPath(e)) => d = e
        /\ Exists(OldPath(d)) => OldPath(d) \in Below(OldPath(d))
        /\ NewPath(d) \in Below(OldPath(e)) /\ Apart(d) => OldPath(e) = NewPath(d)
  BY RemovalReaches DEF StartupInv, Below
<1>b. \A path : Below(path) \subseteq DOMAIN disk
  BY DEF Below
<1>t. "proofs" \in Dbs /\ ToSet(Rounds) \subseteq Dbs
  BY DEF Dbs
<1>h. todo # <<>> => /\ Tail(todo) \in Seq(Dbs \cup {"junk"})
                     /\ ToSet(todo) = ToSet(Tail(todo)) \cup {Head(todo)}
                     /\ Len(todo) > 1 => Tail(todo) # <<>>
                     /\ ~(Len(todo) > 1) => todo = <<Head(todo)>> /\ ToSet(todo) = {Head(todo)}
                     /\ Head(todo) \in Dbs \cup {"junk"}
  BY TodoTail, Zenon DEF StartupInv, Typed
<1>n. ASSUME pc \in {"open", "removing"}, todo # <<>>, MigrateNext, junk' = junk,
             \A d \in Dbs : Settled(d) \/ d = Head(todo) => Settled(d)'
      PROVE  TodoInv'
  <2>1. /\ "junk" \in ToSet(todo) => junk
        /\ todo # <<"proofs">> => /\ "proofs" \notin ToSet(todo)
                                  /\ \A d \in Dbs \ ToSet(todo) : Settled(d)
    BY <1>n DEF StartupInv, TodoInv
  <2>2. CASE Len(todo) > 1
    <3>1. todo # <<"proofs">>
      BY <2>2, Singleton
    <3>2. pc' = "open" /\ todo' = Tail(todo)
      BY <1>n, <2>2 DEF MigrateNext
    <3> QED
      BY <1>h, <1>n, <2>1, <2>2, <3>1, <3>2 DEF TodoInv
  <2>3. CASE todo = <<"proofs">>
    <3>1. pc' = "rounds" /\ Head(todo) = "proofs"
      BY <1>n, <2>3 DEF MigrateNext
    <3> QED
      BY <1>n, <1>t, <3>1 DEF TodoInv
  <2>4. CASE ~(Len(todo) > 1) /\ todo # <<"proofs">>
    <3>1. pc' = "load"
      BY <1>n, <2>4 DEF MigrateNext
    <3> QED
      BY <1>h, <1>n, <2>1, <2>4, <3>1 DEF TodoInv
  <2> QED
    BY <2>2, <2>3, <2>4
<1>1. CASE Start
  <2> USE <1>1 DEF Start
  <2>1. Typed'
    BY <1>0 DEF StartupInv, Typed, TypeOK, ToSet, Dbs
  <2>2. HeadInv' /\ TodoInv' /\ DiskInv'
    BY <1>0 DEF StartupInv, HeadInv, TodoInv, DiskInv, ToSet
  <2>3. NoRecordLost' /\ StartSucceeds'
    BY <1>0, Zenon DEF StartupInv, NoRecordLost, StartSucceeds, RecordsAt
  <2> QED BY <2>1, <2>2, <2>3 DEF StartupInv
<1>2. CASE MigrateSkip
  <2> USE <1>2 DEF MigrateSkip, MigrateNext, Migrating
  <2>1. Typed'
    BY <1>0, <1>h DEF StartupInv, Typed, TypeOK
  <2>2. HeadInv' /\ DiskInv'
    BY <1>0 DEF StartupInv, HeadInv, DiskInv
  <2>3. TodoInv'
    BY <1>0, <1>n DEF Settled
  <2>4. NoRecordLost' /\ StartSucceeds'
    BY <1>0 DEF StartupInv, NoRecordLost, StartSucceeds, RecordsAt
  <2> QED BY <2>1, <2>2, <2>3, <2>4 DEF StartupInv
<1>3. CASE MigrateOpen
  <2> USE <1>3 DEF MigrateOpen, Migrating, With
  <2>1. Typed'
    BY <1>0, Zenon DEF StartupInv, Typed, TypeOK
  <2>2. HeadInv'
    BY <1>0, Zenon DEF StartupInv, HeadInv, RecordsAt
  <2>3. TodoInv'
    BY <1>0, <1>d, <1>t DEF StartupInv, TodoInv, Settled
  <2>4. DiskInv'
    BY <1>0, <1>d DEF StartupInv, DiskInv
  <2>5. NoRecordLost'
    BY <1>0, <1>d DEF StartupInv, NoRecordLost, RecordsAt
  <2>6. StartSucceeds'
    BY Zenon DEF StartSucceeds
  <2> QED BY <2>1, <2>2, <2>3, <2>4, <2>5, <2>6, Zenon DEF StartupInv
<1>4. CASE MigrateOpenFails
  <2> USE <1>4 DEF MigrateOpenFails, Migrating, Fail
  <2>1. Typed'
    BY <1>0, Zenon DEF StartupInv, Typed, TypeOK
  <2>2. HeadInv' /\ TodoInv' /\ DiskInv'
    BY <1>0, Zenon DEF StartupInv, HeadInv, DiskInv, TodoInv
  <2>3. NoRecordLost'
    BY <1>0, Zenon DEF StartupInv, NoRecordLost, RecordsAt
  <2>4. StartSucceeds'
    BY <1>0, Zenon DEF StartupInv, DiskInv, StartSucceeds
  <2> QED BY <2>1, <2>2, <2>3, <2>4 DEF StartupInv
<1>5. CASE MigrateCopy
  <2> USE DEF With
  <2>1. PICK read \in SUBSET RecordsAt(Old) :
          /\ read # RecordsAt(Old) => readErrors < MaxReadErrors
          /\ readErrors' = readErrors + IF read = RecordsAt(Old) THEN 0 ELSE 1
          /\ disk' = With(New, [whole |-> TRUE, records |-> read])
    BY <1>5, Zenon DEF MigrateCopy
  <2>2. /\ pc = "copy" /\ pc' = "remove"
        /\ UNCHANGED <<inputVars, cfg, setupVars, priv, todo, crashes, errors, written>>
    BY <1>5, Zenon DEF MigrateCopy
  <2>3. /\ Head(todo) \in Dbs
        /\ Old # New
        /\ Exists(Old)
        /\ Exists(New)
        /\ disk[New].records = {}
    BY <2>2, Zenon DEF StartupInv, HeadInv
  <2>4. RecordsAt(Old) \in SUBSET Records
    BY <2>3 DEF StartupInv, Typed, RecordsAt
  <2>5. /\ readErrors' \in 0 .. MaxReadErrors
        /\ readErrors' = 0 => readErrors = 0 /\ read = RecordsAt(Old)
    <3>1. CASE read = RecordsAt(Old)
      BY <2>1, <3>1 DEF StartupInv, Typed, TypeOK
    <3>2. CASE read # RecordsAt(Old)
      BY <2>1, <3>2, StartupConstants DEF StartupInv, Typed, TypeOK
    <3> QED
      BY <3>1, <3>2
  <2>6. Typed'
    BY <1>0, <2>1, <2>2, <2>3, <2>4, <2>5, Zenon DEF StartupInv, Typed, TypeOK
  <2>7. HeadInv'
    BY <1>0, <2>1, <2>2, <2>3, <2>5, Zenon DEF HeadInv, RecordsAt
  <2>8. TodoInv'
    BY <1>0, <1>t, <2>1, <2>2, <2>3, Zenon DEF StartupInv, TodoInv, Settled
  <2>9. DiskInv'
    BY <1>0, <1>d, <2>1, <2>2, <2>3 DEF StartupInv, DiskInv
  <2>10. NoRecordLost'
    BY <1>0, <1>d, <2>1, <2>2, <2>3, <2>5 DEF StartupInv, NoRecordLost, RecordsAt
  <2>11. StartSucceeds'
    BY <2>2 DEF StartSucceeds
  <2> QED BY <2>6, <2>7, <2>8, <2>9, <2>10, <2>11 DEF StartupInv
<1>6. CASE MigrateRemove
  <2> USE <1>6 DEF MigrateRemove
  <2>1. Head(todo) \in Dbs /\ Old # New /\ Exists(Old) /\ Exists(New)
    BY Zenon DEF StartupInv, HeadInv
  <2>2. /\ DOMAIN disk' = DOMAIN disk
        /\ \A p \in DOMAIN disk : p \notin Below(Old) => disk'[p] = disk[p]
        /\ \A p \in Below(Old) : disk'[p] = [whole |-> FALSE, records |-> {}]
    BY <1>b
  <2>3. /\ Old \in Below(Old)
        /\ \A d \in Dbs : d # Head(todo) => OldPath(d) \notin Below(Old)
        /\ \A d \in Dbs : Apart(d) => NewPath(d) \notin Below(Old)
    BY <1>d, <1>r, <2>1
  <2>4. Typed'
    <3>1. \A p \in DOMAIN disk : disk'[p] \in [whole : BOOLEAN, records : SUBSET Records]
      BY <2>2 DEF StartupInv, Typed
    <3>2. \A p \in DOMAIN disk : disk'[p].whole \in BOOLEAN /\ disk'[p].records \subseteq Records
      BY <3>1, Zenon
    <3> QED
      BY <1>0, <2>2, <3>1, <3>2, Zenon DEF StartupInv, Typed, TypeOK
  <2>5. HeadInv'
    BY <1>0, <2>1, <2>2, <2>3 DEF StartupInv, HeadInv
  <2>6. TodoInv'
    BY <1>0, <1>t, <2>1, <2>2, Zenon DEF StartupInv, TodoInv, Settled
  <2>7. DiskInv'
    BY <1>0, <1>d, <2>1, <2>2, <2>3 DEF StartupInv, DiskInv
  <2>8. NoRecordLost'
    <3>1. \A d \in Dbs : Apart(d) => RecordsAt(NewPath(d))' = RecordsAt(NewPath(d))
      BY <1>0, <2>2, <2>3 DEF RecordsAt
    <3>2. \A d \in Dbs : d # Head(todo) => RecordsAt(OldPath(d))' = RecordsAt(OldPath(d))
      BY <1>0, <2>2, <2>3 DEF RecordsAt
    <3>3. readErrors = 0 => RecordsAt(Old) \subseteq RecordsAt(New)
      BY DEF StartupInv, HeadInv
    <3> QED
      BY <1>0, <2>1, <3>1, <3>2, <3>3 DEF StartupInv, NoRecordLost
  <2>9. StartSucceeds'
    BY DEF StartSucceeds
  <2> QED BY <2>4, <2>5, <2>6, <2>7, <2>8, <2>9, Zenon DEF StartupInv
<1>7. CASE MigrateRemoved
  <2> USE <1>7 DEF MigrateRemoved, MigrateNext
  <2>1. Head(todo) \in Dbs /\ Old # New /\ Exists(Old) /\ Exists(New) /\ ~disk[Old].whole
    BY DEF StartupInv, HeadInv
  <2>2. /\ DOMAIN disk' = DOMAIN disk \ Below(Old)
        /\ \A p \in DOMAIN disk' : disk'[p] = disk[p]
    BY DEF Without, Restrict
  <2>3. /\ Old \in Below(Old)
        /\ \A d \in Dbs : d # Head(todo) => OldPath(d) \notin Below(Old)
        /\ \A d \in Dbs : Apart(d) => NewPath(d) \notin Below(Old)
    BY <1>d, <1>r, <2>1
  <2>4. Typed'
    BY <1>0, <1>h, <2>1, <2>2 DEF StartupInv, Typed, TypeOK, TodoInv
  <2>5. HeadInv'
    BY <1>0, <2>1 DEF StartupInv, HeadInv
  <2>6. TodoInv'
    <3>1. todo # <<>>
      BY DEF StartupInv, TodoInv
    <3>2. \A d \in Dbs : Settled(d) \/ d = Head(todo) => Settled(d)'
      BY <1>0, <2>1, <2>2, <2>3 DEF Settled
    <3> QED
      BY <1>n, <3>1, <3>2
  <2>7. DiskInv'
    BY <1>0, <1>d, <2>1, <2>2, <2>3 DEF StartupInv, DiskInv
  <2>8. NoRecordLost'
    <3>1. \A d \in Dbs : Apart(d) => RecordsAt(NewPath(d))' = RecordsAt(NewPath(d))
      BY <1>0, <2>2, <2>3 DEF RecordsAt
    <3>2. \A d \in Dbs : d # Head(todo) => RecordsAt(OldPath(d))' = RecordsAt(OldPath(d))
      BY <1>0, <2>2, <2>3 DEF RecordsAt
    <3>3. RecordsAt(Old) = {}
      BY <2>1 DEF RecordsAt
    <3> QED
      BY <1>0, <2>1, <3>1, <3>2, <3>3 DEF StartupInv, NoRecordLost
  <2>9. StartSucceeds'
    BY DEF StartSucceeds
  <2> QED BY <2>4, <2>5, <2>6, <2>7, <2>8, <2>9 DEF StartupInv
<1>8. CASE ReadRounds
  <2> USE <1>8 DEF ReadRounds
  <2>1. /\ todo' \in Seq(Dbs \cup {"junk"})
        /\ ToSet(Rounds) \subseteq ToSet(todo')
        /\ ToSet(todo') \subseteq ToSet(Rounds) \cup {"junk"}
        /\ "junk" \in ToSet(todo') => junk
        /\ "proofs" \notin ToSet(todo')
    <3>1. Rounds \in Seq(Dbs \cup {"junk"})
      <4>1. \A i \in 1 .. Len(Rounds) : Rounds[i] \in Dbs
        BY StartupConstants DEF Dbs, ToSet
      <4> QED
        BY <4>1, StartupConstants
    <3>2. CASE ~junk
      <4>1. todo' = Rounds
        BY <3>1, <3>2
      <4> QED
        BY <3>1, <4>1, StartupConstants, Zenon
    <3>3. CASE junk
      <4>1. todo' = Append(Rounds, "junk")
        BY <3>1, <3>3
      <4>2. ToSet(todo') = ToSet(Rounds) \cup {"junk"}
        <5>1. /\ DOMAIN todo' = 1 .. Len(Rounds) + 1
              /\ todo'[Len(Rounds) + 1] = "junk"
              /\ \A i \in 1 .. Len(Rounds) : todo'[i] = Rounds[i]
              /\ DOMAIN Rounds = 1 .. Len(Rounds)
          BY <3>1, <4>1
        <5>2. 1 .. Len(Rounds) + 1 = (1 .. Len(Rounds)) \cup {Len(Rounds) + 1}
          BY <3>1
        <5> QED
          BY <5>1, <5>2 DEF ToSet
      <4> QED
        BY <3>1, <3>3, <4>1, <4>2, StartupConstants
    <3> QED
      BY <3>2, <3>3
  <2>2. Typed'
    BY <1>0, <1>t, <2>1, Zenon DEF StartupInv, Typed, TypeOK
  <2>3. HeadInv' /\ DiskInv'
    BY <1>0, Zenon DEF StartupInv, HeadInv, DiskInv
  <2>4. TodoInv'
    <3>1. Settled("proofs")' /\ \A d \in Dbs \ ToSet(todo') : Settled(d)'
      BY <1>0, <2>1 DEF StartupInv, TodoInv, Settled, Dbs
    <3>2. todo' = <<>> => ToSet(todo') = {}
      BY DEF ToSet
    <3>3. todo' # <<"proofs">>
      <4>1. "proofs" \in ToSet(<<"proofs">>)
        BY Singleton, Zenon
      <4> QED
        BY <2>1, <4>1, Zenon
    <3> QED
      BY <2>1, <3>1, <3>2, <3>3 DEF TodoInv
  <2>5. NoRecordLost' /\ StartSucceeds'
    BY <1>0, Zenon DEF StartupInv, NoRecordLost, StartSucceeds, RecordsAt
  <2> QED BY <2>2, <2>3, <2>4, <2>5 DEF StartupInv
<1>9. CASE NotARound
  <2> USE <1>9 DEF NotARound, Fail
  <2>1. Typed'
    BY <1>0, Zenon DEF StartupInv, Typed, TypeOK
  <2>2. HeadInv' /\ TodoInv' /\ DiskInv'
    BY <1>0, Zenon DEF StartupInv, HeadInv, DiskInv, TodoInv
  <2>3. NoRecordLost'
    BY <1>0, Zenon DEF StartupInv, NoRecordLost, RecordsAt
  <2>4. StartSucceeds'
    BY <1>0 DEF StartupInv, TodoInv, StartSucceeds, ToSet
  <2> QED BY <2>1, <2>2, <2>3, <2>4 DEF StartupInv
<1>10. CASE LoadState \/ LoadStateFails \/ SaveState
  <2> USE <1>10 DEF LoadState, LoadStateFails, SaveState, Fail
  <2>1. Typed'
    BY <1>0, StartupConstants, Zenon DEF StartupInv, Typed, TypeOK
  <2>2. HeadInv' /\ TodoInv' /\ DiskInv'
    BY <1>0, Zenon DEF StartupInv, HeadInv, DiskInv, TodoInv, Settled
  <2>3. NoRecordLost'
    BY <1>0, Zenon DEF StartupInv, NoRecordLost, RecordsAt
  <2>4. StartSucceeds'
    BY <1>0 DEF StartSucceeds
  <2> QED BY <2>1, <2>2, <2>3, <2>4 DEF StartupInv
<1>o. ASSUME pc = "databases", NEW paths, disk' = Opened(paths), pc' \in {"running", "failed", "broken"},
             paths \subseteq {NewPath(d) : d \in Dbs},
             UNCHANGED <<inputVars, cfg, setupVars, priv, todo, written>>,
             crashes' = crashes, readErrors' = readErrors, errors' \in {errors, errors + 1},
             errors' \in 0 .. MaxErrors
      PROVE  Typed' /\ HeadInv' /\ TodoInv' /\ DiskInv' /\ NoRecordLost'
  <2> USE <1>o DEF Opened
  <2>1. Typed'
    BY <1>0, Zenon DEF StartupInv, Typed, TypeOK
  <2>2. HeadInv' /\ TodoInv'
    BY <1>0, <1>d, <1>t DEF StartupInv, HeadInv, TodoInv, Settled
  <2>3. DiskInv'
    BY <1>0, <1>d, <1>t DEF StartupInv, Typed, TypeOK, DiskInv, TodoInv, Settled
  <2>4. NoRecordLost'
    BY <1>0, Zenon DEF StartupInv, NoRecordLost, RecordsAt
  <2> QED BY <2>1, <2>2, <2>3, <2>4
<1>11. ASSUME NEW d \in ToSet(Rounds), OpenDatabases(d)
       PROVE  StartupInv'
  <2>1. Typed' /\ HeadInv' /\ TodoInv' /\ DiskInv' /\ NoRecordLost'
    BY <1>o, <1>t, <1>11, Zenon DEF OpenDatabases, StartupInv, Typed, TypeOK
  <2>2. StartSucceeds'
    BY <1>11 DEF OpenDatabases, StartSucceeds
  <2> QED BY <2>1, <2>2 DEF StartupInv
<1>17. CASE LoadTrustedPublicKeysFails
  <2>1. Typed' /\ HeadInv' /\ TodoInv' /\ DiskInv' /\ NoRecordLost'
    BY <1>o, <1>t, <1>17, Zenon DEF LoadTrustedPublicKeysFails, StartupInv, Typed, TypeOK
  <2>2. StartSucceeds'
    BY <1>17 DEF LoadTrustedPublicKeysFails, StartSucceeds
  <2> QED BY <2>1, <2>2 DEF StartupInv
<1>18. CASE Break
  <2>1. /\ pc' = "broken"
        /\ errors' \in 0 .. MaxErrors /\ errors' = errors + 1 /\ errors' > 0
        /\ UNCHANGED <<inputVars, cfg, setupVars, priv, todo, written>>
        /\ crashes' = crashes /\ readErrors' = readErrors
    BY <1>18, StartupConstants DEF Break, StartupInv, Typed, TypeOK
  <2>2. StartSucceeds'
    BY <2>1 DEF StartSucceeds
  <2>3. CASE pc = "databases" /\ disk' = Opened({NewPath("proofs")})
    <3>1. Typed' /\ HeadInv' /\ TodoInv' /\ DiskInv' /\ NoRecordLost'
      BY <1>o, <1>t, <2>1, <2>3
    <3> QED BY <2>2, <3>1 DEF StartupInv
  <2>4. CASE disk' = disk
    <3>1. Typed'
      BY <1>0, <2>1, <2>4, Zenon DEF StartupInv, Typed, TypeOK
    <3>2. HeadInv' /\ TodoInv' /\ DiskInv'
      BY <1>0, <2>1, <2>4, Zenon DEF StartupInv, HeadInv, DiskInv, TodoInv
    <3>3. NoRecordLost'
      BY <1>0, <2>1, <2>4, Zenon DEF StartupInv, NoRecordLost, RecordsAt
    <3> QED BY <2>2, <3>1, <3>2, <3>3 DEF StartupInv
  <2> QED
    BY <1>18, <2>3, <2>4 DEF Break
<1>19. CASE Teardown
  <2>1. PICK gone \in SUBSET Below(Append(cfg.dataDir, "rounds")) : disk' = Without(gone)
    BY <1>19 DEF Teardown
  <2>2. /\ pc = "running" /\ pc' = pc
        /\ UNCHANGED <<inputVars, cfg, setupVars, priv, todo, faultVars, written>>
    BY <1>19 DEF Teardown
  <2>3. /\ DOMAIN disk' = DOMAIN disk \ gone
        /\ \A p \in DOMAIN disk' : disk'[p] = disk[p]
    BY <2>1 DEF Without, Restrict
  <2>4. \A d \in Dbs : Apart(d) => NewPath(d) \notin gone
    BY <2>1 DEF Apart, Below
  <2>5. Typed'
    BY <1>0, <2>2, <2>3, Zenon DEF StartupInv, Typed, TypeOK
  <2>6. HeadInv' /\ TodoInv' /\ StartSucceeds'
    BY <1>0, <2>2, <2>3 DEF StartupInv, HeadInv, TodoInv, Settled, StartSucceeds
  <2>7. DiskInv'
    BY <1>0, <2>2, <2>3 DEF StartupInv, DiskInv
  <2>8. NoRecordLost'
    <3> SUFFICES ASSUME readErrors = 0, NEW d \in Dbs, Apart(d)
                 PROVE  written[d] \subseteq RecordsAt(NewPath(d))'
      BY <1>0, <2>2, Zenon DEF NoRecordLost
    <3>1. RecordsAt(NewPath(d))' = RecordsAt(NewPath(d))
      BY <1>0, <2>3, <2>4 DEF RecordsAt
    <3>2. RecordsAt(OldPath(d)) \subseteq RecordsAt(NewPath(d))
      BY <2>2 DEF StartupInv, TodoInv, Settled, RecordsAt
    <3> QED
      BY <3>1, <3>2 DEF StartupInv, NoRecordLost
  <2> QED BY <2>5, <2>6, <2>7, <2>8 DEF StartupInv
<1>12. ASSUME NEW d \in Dbs, NEW r \in Records, Write(d, r)
       PROVE  StartupInv'
  <2> USE <1>12 DEF Write
  <2>1. Typed'
    BY <1>0 DEF StartupInv, Typed, TypeOK
  <2>2. HeadInv' /\ TodoInv'
    BY <1>0 DEF StartupInv, HeadInv, TodoInv, Settled
  <2>3. DiskInv'
    BY <1>0, <1>d DEF StartupInv, Typed, DiskInv
  <2>4. NoRecordLost'
    <3> SUFFICES ASSUME readErrors = 0, NEW e \in Dbs, Apart(e)
                 PROVE  written'[e] \subseteq RecordsAt(NewPath(e))'
      BY <1>0, Zenon DEF NoRecordLost
    <3>1. written[e] \subseteq RecordsAt(NewPath(e))
      <4>1. RecordsAt(OldPath(e)) \subseteq RecordsAt(NewPath(e))
        BY DEF StartupInv, TodoInv, Settled, RecordsAt
      <4> QED
        BY <4>1 DEF StartupInv, NoRecordLost
    <3>2. CASE e = d
      <4>1. disk[NewPath(d)].whole /\ disk'[NewPath(d)].whole
        BY <1>0, <3>2 DEF StartupInv, Typed, DiskInv
      <4>2. /\ RecordsAt(NewPath(d))' = RecordsAt(NewPath(d)) \cup {r}
            /\ written'[d] = written[d] \cup {r}
        BY <1>0, <3>2, <4>1 DEF StartupInv, Typed, RecordsAt
      <4> QED
        BY <3>1, <3>2, <4>2
    <3>3. CASE e # d
      <4>1. RecordsAt(NewPath(e))' = RecordsAt(NewPath(e)) /\ written'[e] = written[e]
        BY <1>0, <1>d, <3>3 DEF StartupInv, Typed, RecordsAt
      <4> QED
        BY <3>1, <4>1
    <3> QED
      BY <3>2, <3>3
  <2>5. StartSucceeds'
    BY <1>0 DEF StartSucceeds
  <2> QED BY <2>1, <2>2, <2>3, <2>4, <2>5 DEF StartupInv
<1>13. CASE Exit
  <2> USE <1>13 DEF Exit
  <2>1. Typed'
    BY <1>0, StartupConstants, Zenon DEF StartupInv, Typed, TypeOK
  <2>2. HeadInv' /\ TodoInv'
    BY Zenon DEF HeadInv, TodoInv
  <2>3. DiskInv'
    BY <1>0, Zenon DEF StartupInv, Typed, TypeOK, DiskInv, TodoInv, Settled
  <2>4. NoRecordLost' /\ StartSucceeds'
    BY <1>0, Zenon DEF StartupInv, NoRecordLost, StartSucceeds, RecordsAt
  <2> QED BY <2>1, <2>2, <2>3, <2>4, Zenon DEF StartupInv
<1>14. CASE Crash
  <2> USE <1>14 DEF Crash
  <2>1. Typed'
    BY <1>0, StartupConstants DEF StartupInv, Typed, TypeOK
  <2>2. HeadInv' /\ TodoInv'
    BY Zenon DEF HeadInv, TodoInv
  <2>3. DiskInv'
    BY <1>0 DEF StartupInv, Typed, TypeOK, DiskInv, TodoInv, Settled
  <2>4. NoRecordLost' /\ StartSucceeds'
    BY <1>0, Zenon DEF StartupInv, NoRecordLost, StartSucceeds, RecordsAt
  <2> QED BY <2>1, <2>2, <2>3, <2>4 DEF StartupInv
<1>15. CASE Operate
  <2> USE <1>15 DEF Operate
  <2>1. Typed'
    BY <1>0, StartupConstants, Zenon DEF StartupInv, Typed, TypeOK
  <2>2. HeadInv' /\ TodoInv'
    BY Zenon DEF HeadInv, TodoInv
  <2>3. DiskInv'
    BY <1>0, Zenon DEF StartupInv, Typed, TypeOK, DiskInv, TodoInv, Settled
  <2>4. NoRecordLost' /\ StartSucceeds'
    BY <1>0, Zenon DEF StartupInv, NoRecordLost, StartSucceeds, RecordsAt
  <2> QED BY <2>1, <2>2, <2>3, <2>4, Zenon DEF StartupInv
<1>16. CASE UNCHANGED vars
  <2> USE <1>16 DEF vars
  <2>1. Typed'
    BY <1>0, Zenon DEF StartupInv, Typed, TypeOK
  <2>2. HeadInv' /\ TodoInv' /\ DiskInv'
    <3>1. (Head(todo) \in Dbs => Old' = Old /\ New' = New) /\ disk' = disk
      BY <1>0, Zenon
    <3>2. HeadInv'
      BY <3>1, Zenon DEF StartupInv, HeadInv, RecordsAt
    <3>3. TodoInv'
      BY <1>0, <1>t, Zenon DEF StartupInv, TodoInv, Settled
    <3>4. DiskInv'
      BY <1>0, Zenon DEF StartupInv, DiskInv
    <3> QED BY <3>2, <3>3, <3>4
  <2>3. NoRecordLost' /\ StartSucceeds'
    BY <1>0, Zenon DEF StartupInv, NoRecordLost, StartSucceeds, RecordsAt
  <2> QED BY <2>1, <2>2, <2>3 DEF StartupInv
<1> QED
  BY <1>1, <1>2, <1>3, <1>4, <1>5, <1>6, <1>7, <1>8, <1>9, <1>10, <1>11, <1>12, <1>13, <1>14,
     <1>15, <1>16, <1>17, <1>18, <1>19
  DEF Next, Migrate, StartServer

(* The older version has left whole databases, and nothing is new. *)
LEMMA StartupInit ==
  ASSUME Init
  PROVE  StartupInv
<1> USE DEF Exists, Stages
<1>1. PICK old \in SUBSET Dbs :
        /\ written = [d \in Dbs |-> IF d \in old THEN Records ELSE {}]
        /\ disk = [p \in {OldPath(d) : d \in old} |-> [whole |-> TRUE, records |-> Records]]
  BY Zenon DEF Init
<1>2. Typed
  <2>1. \A p \in DOMAIN disk : disk[p] \in [whole : BOOLEAN, records : SUBSET Records]
    <3> DEFINE db == [whole |-> TRUE, records |-> Records]
    <3>1. db \in [whole : BOOLEAN, records : SUBSET Records]
      OBVIOUS
    <3>2. \A p \in DOMAIN disk : disk[p] = db
      BY <1>1
    <3> HIDE DEF db
    <3> QED
      BY <3>1, <3>2
  <2>2. written \in [Dbs -> SUBSET Records]
    BY <1>1
  <2>3. todo \in Seq(Dbs \cup {"junk"}) /\ ToSet(todo) = {}
    BY DEF Init, ToSet
  <2>4. crashes \in 0 .. MaxCrashes /\ errors \in 0 .. MaxErrors /\ readErrors \in 0 .. MaxReadErrors
    BY StartupConstants DEF Init
  <2>6. TypeOK
    <3>1. \A p \in DOMAIN disk : disk[p].whole \in BOOLEAN /\ disk[p].records \subseteq Records
      BY <2>1
    <3>2. ToSet(todo) \subseteq Dbs \cup {"junk"}
      BY <2>3
    <3>3. keyFile \in Keys \cup {None} /\ priv \in Keys \cup {None} /\ pc \in Stages
      BY DEF Init
    <3> QED
      BY <2>4, <3>1, <3>2, <3>3 DEF TypeOK
  <2> QED
    BY <2>1, <2>2, <2>3, <2>6, Zenon DEF Init, Typed
<1>3. HeadInv /\ TodoInv /\ StartSucceeds
  BY Zenon DEF Init, HeadInv, TodoInv, StartSucceeds
<1>4. \A d, e \in Dbs : OldPath(d) = NewPath(e) => d = e
  BY <1>2, PathsAreDistinct
<1>5. \A p \in DOMAIN disk : disk[p].whole
  BY <1>1
<1>6. DiskInv
  BY <1>1, <1>4, <1>5 DEF DiskInv
<1>7. NoRecordLost
  BY <1>1 DEF NoRecordLost, RecordsAt
<1> QED
  BY <1>2, <1>3, <1>6, <1>7 DEF StartupInv

(* What the theorems below rest on. *)
LEMMA StartupInvariant == Spec => []StartupInv
BY StartupInit, StartupStep, PTL DEF Spec

(* The state of poetMain, the databases and the key have their types. *)
THEOREM StartupTyped == Spec => []TypeOK
<1>1. StartupInv => TypeOK
  BY DEF StartupInv, Typed
<1> QED
  BY <1>1, StartupInvariant, PTL

(* Wherever db.Migrate is interrupted, whichever of its operations fails    *)
(* and however often it starts again, the old or the new database has every *)
(* record of the older version and of the server, until a read fails half   *)
(* way, and unless the new one lies where the process removes directories.  *)
THEOREM MigrationLosesNothing == Spec => []NoRecordLost
<1>1. StartupInv => NoRecordLost
  BY DEF StartupInv
<1> QED
  BY <1>1, StartupInvariant, PTL

(* poetMain starts the server only when every database is migrated, so that *)
(* a running server has all the records in the directories it uses, with    *)
(* the same two exceptions.                                                 *)
THEOREM ServerHasAllRecords == Spec => []RunsOnAllRecords
<1>1. StartupInv => RunsOnAllRecords
  <2> SUFFICES ASSUME StartupInv, pc = "running", readErrors = 0, NEW d \in Dbs, Apart(d)
               PROVE  written[d] \subseteq RecordsAt(NewPath(d))
    BY Zenon DEF RunsOnAllRecords
  <2>1. Settled(d)
    BY DEF StartupInv, TodoInv
  <2>2. written[d] \subseteq RecordsAt(OldPath(d)) \/ written[d] \subseteq RecordsAt(NewPath(d))
    BY DEF StartupInv, NoRecordLost
  <2> QED
    BY <2>1, <2>2, Zenon DEF Settled, RecordsAt
<1> QED
  BY <1>1, StartupInvariant, PTL

(* Unless one of its operations fails, poetMain returns an error only for a *)
(* bad entry below rounds, a trusted key that cannot be read, a bad or      *)
(* contradicting key in the environment, or a database in two places or     *)
(* half removed, and that only after a crash or a failed operation.         *)
THEOREM StartFailsForAReason == Spec => []StartSucceeds
<1>1. StartupInv => StartSucceeds
  BY DEF StartupInv
<1> QED
  BY <1>1, StartupInvariant, PTL
==============================================================================
