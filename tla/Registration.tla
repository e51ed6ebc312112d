---------------------------- MODULE Registration -----------------------------
(***************************************************************************)
(* The registration service (registration/registration.go): the Run loop   *)
(* that closes rounds, hands them to the worker and stores proofs, and the *)
(* submits that go on meanwhile.  A round's database is the set of its     *)
(* registered members, as promised by RoundRegistry; a membership root is  *)
(* the set it was computed from, since the Merkle root is collision free.  *)
(***************************************************************************)
EXTENDS Runtime

CONSTANT Members   \* nodes that may register

ASSUME NoneIsNoRoot == \A r \in SUBSET Members : r # None

VARIABLES
  roundDirs,  \* disk: epochs that have a round database
  roundDb,    \* disk: epoch -> registered members
  proofDb,    \* disk: epoch -> stored proof [nip, statement, members], or None
  openRound,  \* openRound.epoch
  dbOpen,     \* the database handle of openRound is open
  regPc,      \* where Run is; see RegistrationPcs
  root,       \* closeRound: the root just computed
  newNip,     \* onNewProof: the proof in hand, or None
  pow         \* powVerifiers: challenges [current, previous]

regDisk == <<roundDirs, roundDb, proofDb>>
regMemory == <<openRound, dbOpen, regPc, root, newNip, pow>>
regVars == <<regDisk, regMemory>>

(* "start": New has returned, Run has not recovered yet.  "loop": in the   *)
(* select.  "execute", "create": in closeRound, before ExecuteRound and    *)
(* before newRound, openRoundMutex held.  "save": in onNewProof.           *)
RegistrationPcs == {"off", "start", "loop", "execute", "create", "save", "stopped"}

RegistrationInit ==
  /\ roundDirs = {}
  /\ roundDb = [e \in Epochs |-> {}]
  /\ proofDb = [e \in Epochs |-> None]
  /\ openRound = 0
  /\ dbOpen = FALSE
  /\ regPc = "off"
  /\ root = {}
  /\ newNip = None
  /\ pow = [current |-> None, previous |-> None]

(* newRound: open the database of epoch, creating it if need be. *)
OpenRoundDb(epoch) ==
  /\ openRound' = epoch
  /\ roundDirs' = roundDirs \cup {epoch}
  /\ dbOpen' = TRUE

(* setupPowProviders.  The persisted PoW challenge is the one drawn at the *)
(* very first start (here None): nothing else is ever saved with           *)
(* SavePowChallenge.                                                       *)
SetupPowProviders == pow' = [current |-> None, previous |-> None]

(* New *)
RegistrationNew ==
  /\ OpenRoundDb(OpenRoundId(now))
  /\ SetupPowProviders
  /\ regPc' = "start"
  /\ UNCHANGED <<roundDb, proofDb, root, newNip>>

(* Registration.Submit on the open round, while closeRound does not hold   *)
(* the mutex.                                                              *)
Submit_IgnoresMutex(m) ==
  /\ regPc # "off"
  /\ roundDb' = [roundDb EXCEPT ![openRound] = @ \cup {m}]
  /\ UNCHANGED <<roundDirs, proofDb, regMemory, channels>>

Submit(m) ==
  /\ regPc \in {"start", "loop", "save", "stopped"}
  /\ dbOpen
  /\ m \notin roundDb[openRound]
  /\ roundDb' = [roundDb EXCEPT ![openRound] = @ \cup {m}]
  /\ UNCHANGED <<roundDirs, proofDb, regMemory, channels>>
------------------------------------------------------------------------------
ClosedRound(e, r) == [epoch |-> e, membershipRoot |-> r]

(* The round that should be executing when the service starts. *)
InProgress == openRound - 1

NothingToRecover ==
  /\ regPc = "start"
  /\ InProgress \notin roundDirs
  /\ regPc' = "loop"
  /\ UNCHANGED <<regDisk, openRound, dbOpen, root, newNip, pow, channels>>

(* recoverExecution: an error ends Run. *)
RecoverExecution ==
  /\ regPc = "start"
  /\ InProgress \in roundDirs
  /\ \/ /\ ExecuteRoundSends(ClosedRound(InProgress, roundDb[InProgress]))
        /\ regPc' = "loop"
     \/ /\ ExecuteRoundDrops
        /\ regPc' = "loop"
     \/ /\ ExecuteRoundCancelled
        /\ regPc' = "stopped"
  /\ UNCHANGED <<regDisk, openRound, dbOpen, root, newNip, pow>>

(* The database of the round cannot be opened: Run fails and the error     *)
(* group cancels the server's context.                                     *)
RecoverExecutionFails ==
  /\ regPc = "start"
  /\ InProgress \in roundDirs
  /\ ctxDone' = TRUE
  /\ regPc' = "stopped"
  /\ UNCHANGED <<regDisk, openRound, dbOpen, root, newNip, pow, channels>>

(* scheduleRound: the timer of the open round has expired. *)
RoundDue == now >= RoundStart(openRound)

CloseRound_KeepsRoot ==
  /\ regPc = "loop"
  /\ RoundDue
  /\ dbOpen' = FALSE
  /\ regPc' = "execute"
  /\ UNCHANGED <<regDisk, openRound, root, newNip, pow, channels>>

(* closeRound, first part: calcMembershipRoot and Close.  Iterating over a *)
(* database that is closed already yields no member and no error.          *)
CloseRound ==
  /\ regPc = "loop"
  /\ RoundDue
  /\ root' = IF dbOpen THEN roundDb[openRound] ELSE {}
  /\ dbOpen' = FALSE
  /\ regPc' = "execute"
  /\ UNCHANGED <<regDisk, openRound, newNip, pow, channels>>

(* closeRound, second part.  After an error the closed round stays the     *)
(* open round and is scheduled again.                                      *)
ExecuteClosedRound ==
  /\ regPc = "execute"
  /\ \/ /\ ExecuteRoundSends(ClosedRound(openRound, root))
        /\ regPc' = "create"
     \/ /\ ExecuteRoundDrops
        /\ regPc' = "create"
     \/ /\ ExecuteRoundCancelled
        /\ regPc' = "loop"
  /\ UNCHANGED <<regDisk, openRound, dbOpen, root, newNip, pow>>

(* closeRound, last part: open the round of the moment. *)
OpenNextRound ==
  /\ regPc = "create"
  /\ OpenRoundDb(OpenRoundId(now))
  /\ regPc' = "loop"
  /\ UNCHANGED <<roundDb, proofDb, root, newNip, pow, channels>>

(* newRound fails: closeRound returns the error, and the closed round stays *)
(* the open round and is scheduled again.                                  *)
OpenNextRoundFails ==
  /\ regPc = "create"
  /\ regPc' = "loop"
  /\ UNCHANGED <<regDisk, openRound, dbOpen, root, newNip, pow, channels>>

TakeProof ==
  /\ regPc = "loop"
  /\ ReceiveProof
  /\ newNip' = Head(proofs)
  /\ regPc' = "save"
  /\ UNCHANGED <<regDisk, openRound, dbOpen, root, pow>>

(* onNewProof gives up when the round has no database, or when its LevelDB *)
(* is locked because the round is still open.                              *)
RoundReadable(e) == e \in roundDirs /\ ~(dbOpen /\ openRound = e)

(* database.SaveProof, with the members read from the round's database. *)
StoreProof ==
  proofDb' = [proofDb EXCEPT ![newNip.epoch] =
    [nip |-> newNip.nip, statement |-> newNip.statement,
     members |-> roundDb[newNip.epoch]]]

(* powVerifiers.SetParams *)
RotatePow == pow' = [current |-> newNip.nip, previous |-> pow.current]

(* onNewProof *)
SaveProof ==
  /\ regPc = "save"
  /\ IF RoundReadable(newNip.epoch) THEN StoreProof /\ RotatePow
     ELSE UNCHANGED <<proofDb, pow>>
  /\ newNip' = None
  /\ regPc' = "loop"
  /\ UNCHANGED <<roundDirs, roundDb, openRound, dbOpen, root, channels>>

(* The database of the round or of the proofs fails: onNewProof returns the *)
(* error, Run logs it and goes on.                                         *)
SaveProofFails ==
  /\ regPc = "save"
  /\ newNip' = None
  /\ regPc' = "loop"
  /\ UNCHANGED <<regDisk, openRound, dbOpen, root, pow, channels>>

RegistrationStops ==
  /\ regPc = "loop"
  /\ ctxDone
  /\ regPc' = "stopped"
  /\ UNCHANGED <<regDisk, openRound, dbOpen, root, newNip, pow, channels>>

RegistrationStep ==
  \/ NothingToRecover
  \/ RecoverExecution
  \/ CloseRound
  \/ ExecuteClosedRound
  \/ OpenNextRound
  \/ TakeProof
  \/ SaveProof
  \/ RegistrationStops

(* The process is gone: only the disk is left. *)
RegistrationGone ==
  /\ regPc' = "off"
  /\ dbOpen' = FALSE
  /\ root' = {}
  /\ newNip' = None
  /\ UNCHANGED <<regDisk, openRound, pow>>
==============================================================================
