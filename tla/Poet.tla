--------------------------------- MODULE Poet --------------------------------
(***************************************************************************)
(* The PoET server: registration service and worker in one process         *)
(* (server/server.go, poet.go), joined by the in-memory transport, with    *)
(* the clock, interrupts, crashes and restarts.                            *)
(***************************************************************************)
EXTENDS Registration, Worker, FiniteSets

CONSTANTS
  MaxCrashes,     \* bound: how often the process may crash
  MaxInterrupts,  \* bound: how often it may be interrupted (SIGINT)
  MaxFailures,    \* bound: how often a database of the registration may fail
  MaxFaults,      \* bound: crashes, interrupts, failures and switches together
  MaxSwitches,    \* bound: how often DisableWorker changes between two starts
  Punctual,       \* until an interrupt the clock waits for steps that are ready
  MaxProvingTime  \* how long after the end of a round its proof may take

ASSUME PoetConstants ==
  /\ MaxCrashes \in Nat
  /\ MaxInterrupts \in Nat
  /\ MaxFailures \in Nat
  /\ MaxFaults \in Nat
  /\ MaxSwitches \in Nat
  /\ Punctual \in BOOLEAN
  /\ MaxProvingTime \in Nat

VARIABLES
  up,         \* the process runs
  crashes,    \* crashes so far
  interrupts, \* interrupts so far
  failures,   \* failed database operations so far
  switches    \* history: changes of DisableWorker between two starts

faultVars == <<crashes, interrupts, failures>>
procVars == <<up, faultVars, switches>>
vars == <<now, ctxDone, channels, regVars, wkVars, procVars>>

Init ==
  /\ now = StartTime
  /\ ctxDone = FALSE
  /\ closedRounds = <<>>
  /\ proofs = <<>>
  /\ RegistrationInit
  /\ WorkerInit
  /\ up = FALSE
  /\ crashes = 0
  /\ interrupts = 0
  /\ failures = 0
  /\ switches = 0

MayFault == crashes + interrupts + failures + switches < MaxFaults

(* server.New and server.Start: both services, with empty channels. *)
Start ==
  /\ ~up
  /\ up' = TRUE
  /\ ctxDone' = FALSE
  /\ closedRounds' = <<>>
  /\ proofs' = <<>>
  /\ RegistrationNew
  /\ WorkerRun
  /\ switches' = switches + IF disabled' = disabled THEN 0 ELSE 1
  /\ disabled' # disabled => MayFault /\ switches < MaxSwitches
  /\ UNCHANGED <<now, faultVars>>

Interrupt ==
  /\ up
  /\ ~ctxDone
  /\ MayFault
  /\ interrupts < MaxInterrupts
  /\ interrupts' = interrupts + 1
  /\ ctxDone' = TRUE
  /\ UNCHANGED <<now, channels, regVars, wkVars, up, crashes, failures, switches>>

Gone ==
  /\ up' = FALSE
  /\ RegistrationGone
  /\ WorkerGone
  /\ closedRounds' = <<>>
  /\ proofs' = <<>>
  /\ ctxDone' = FALSE

(* server.Start waits for both services and for the teardowns of the worker. *)
Exit ==
  /\ up
  /\ regPc = "stopped"
  /\ wkPc = "stopped"
  /\ teardowns = {}
  /\ Gone
  /\ UNCHANGED <<now, faultVars, switches>>

Crash ==
  /\ up
  /\ MayFault
  /\ crashes < MaxCrashes
  /\ crashes' = crashes + 1
  /\ Gone
  /\ UNCHANGED <<now, interrupts, failures, switches>>
------------------------------------------------------------------------------
(* Time *)

(* The prover looks at the end of the round after every leaf, and it needs *)
(* at most MaxProvingTime for the proof itself.                            *)
ProverKeepsUp ==
  /\ wkPc = "work" => now < RoundEnd(current)
  /\ wkPc = "prove" => now < RoundEnd(current) + MaxProvingTime

(* Nothing is left to do before time passes. *)
Quiescent ==
  /\ regPc \in {"off", "loop", "stopped"}
  /\ regPc = "loop" => ~RoundDue /\ proofs = <<>>
  /\ wkPc \in {"off", "loop", "work", "prove", "stopped"}
  /\ wkPc = "loop" => closedRounds = <<>>
  /\ teardowns = {}

Tick ==
  /\ now < MaxTime
  /\ ProverKeepsUp
  /\ Punctual => Quiescent \/ ctxDone
  /\ now' = now + 1
  /\ UNCHANGED <<ctxDone, channels, regVars, wkVars, procVars>>
------------------------------------------------------------------------------
RegistrationActs ==
  /\ RegistrationStep
  /\ UNCHANGED <<now, ctxDone, wkVars, procVars>>

WorkerActs ==
  /\ WorkerStep
  /\ UNCHANGED <<now, ctxDone, regVars, procVars>>

TeardownActs ==
  /\ \E e \in Epochs : Teardown(e)
  /\ UNCHANGED <<now, ctxDone, regVars, procVars>>

WorkerFails ==
  /\ ResumeFails
  /\ UNCHANGED <<now, regVars, procVars>>

(* LevelDB fails the registration service. *)
DatabaseFails ==
  /\ MayFault
  /\ failures < MaxFailures
  /\ failures' = failures + 1
  /\ \/ (OpenNextRoundFails \/ SaveProofFails) /\ UNCHANGED ctxDone
     \/ RecoverExecutionFails
  /\ UNCHANGED <<now, wkVars, up, crashes, interrupts, switches>>

SubmitActs ==
  /\ \E m \in Members : Submit(m)
  /\ UNCHANGED <<now, ctxDone, wkVars, procVars>>

Next ==
  \/ Start
  \/ Interrupt
  \/ Exit
  \/ Crash
  \/ Tick
  \/ SubmitActs
  \/ RegistrationActs
  \/ WorkerActs
  \/ TeardownActs
  \/ WorkerFails
  \/ DatabaseFails

Spec == Init /\ [][Next]_vars

(* Runnable goroutines run, time passes, and the operator keeps the server *)
(* up.  A select picks at random among its ready cases, so a service that  *)
(* keeps coming back to its select after the cancellation stops: strong    *)
(* fairness.  Nothing forces submits, interrupts or crashes.               *)
Fairness ==
  /\ WF_vars(RegistrationActs)
  /\ WF_vars(WorkerActs)
  /\ WF_vars(TeardownActs)
  /\ SF_vars(RegistrationStops /\ UNCHANGED <<now, ctxDone, wkVars, procVars>>)
  /\ SF_vars(WorkerStops /\ UNCHANGED <<now, ctxDone, regVars, procVars>>)
  /\ WF_vars(WorkerFails)
  /\ WF_vars(Tick)
  /\ WF_vars(Start)
  /\ WF_vars(Exit)

FairSpec == Spec /\ Fairness
------------------------------------------------------------------------------
(* Properties *)

Roots == SUBSET Members
HasState(e) == rounds[e].file \in {"created", "started", "tree", "finished"}

ClosedRounds == [epoch : Epochs, membershipRoot : Roots]
Directories == [file : Files, statement : Roots \cup {None}, nip : Nat \cup {None}]
Nips == [epoch : Epochs, nip : Nat, statement : Roots]

RuntimeType ==
  /\ now \in StartTime .. MaxTime
  /\ ctxDone \in BOOLEAN
  /\ closedRounds \in Seq(ClosedRounds)
  /\ proofs \in Seq(Nips)

RegistrationType ==
  /\ roundDirs \subseteq Epochs
  /\ roundDb \in [Epochs -> Roots]
  /\ proofDb \in [Epochs -> [nip : Nat, statement : Roots, members : Roots] \cup {None}]
  /\ openRound \in Nat
  /\ dbOpen \in BOOLEAN
  /\ regPc \in RegistrationPcs
  /\ root \in Roots
  /\ newNip \in Nips \cup {None}
  /\ pow \in [current : Nat \cup {None}, previous : Nat \cup {None}]

WorkerType ==
  /\ rounds \in [Epochs -> Directories]
  /\ wkPc \in WorkerPcs
  /\ caller \in {"recover", "resume", "loop"}
  /\ current \in Epochs \cup {None}
  /\ wkRoot \in Roots \cup {None}
  /\ entries \subseteq Epochs
  /\ executing \in Epochs \cup {None}
  /\ teardowns \subseteq Epochs
  /\ disabled \in BOOLEAN
  /\ nips \in Nat

(* Every variable keeps its type. *)
TypeOK ==
  /\ RuntimeType
  /\ RegistrationType
  /\ WorkerType
  /\ up \in BOOLEAN
  /\ crashes \in Nat
  /\ interrupts \in Nat
  /\ failures \in Nat
  /\ switches \in Nat

(* No interrupt and no failed database: closeRound fails only when the     *)
(* context is cancelled or the next round cannot be opened, and then       *)
(* closes the same round again.                                            *)
Undisturbed == interrupts = 0 /\ failures = 0

(* "Members is the ordered list of miners challenges which are included in *)
(* the proof (by using the list hash digest as the proof generation input  *)
(* (the statement))" (registration/db.go:24-25): the member list stored    *)
(* with a proof, read back from disk when the proof arrives, is the list   *)
(* its statement was computed from when the round was closed.  Does not    *)
(* hold when the server is interrupted while it closes a round.            *)
EveryProofCoversMembers ==
  \A e \in Epochs :
    proofDb[e] # None /\ proofDb[e].nip # 0 => proofDb[e].statement = proofDb[e].members

(* It does hold for every proof of a worker, over all restarts after       *)
(* crashes, when nothing was interrupted and no database has failed.       *)
ProofCoversMembers == Undisturbed => EveryProofCoversMembers

(* What the worker executes or has finished is the round as it is          *)
(* registered: nobody joined or left after the root was handed out, while  *)
(* there was no interrupt and no database failure.                         *)
StatementCoversMembers ==
  Undisturbed => \A e \in Epochs :
    rounds[e].file \in {"started", "tree", "finished"} => rounds[e].statement = roundDb[e]

(* Registration of e is over: the round has a database, has started and is *)
(* not open.                                                               *)
Frozen(e) == e \in roundDirs /\ RoundStart(e) <= now /\ ~(dbOpen /\ openRound = e)

(* A directory whose state was saved by recover, without a statement. *)
Bare(e) == rounds[e].file = "created" /\ rounds[e].statement = None

Recovering == wkPc \in {"recover", "remove"} \/ (wkPc = "publish" /\ caller = "recover")

InHand == {"mkdir", "init", "start", "plant", "work", "prove", "publish"}

(* What the registration service keeps true of its state, also when steps  *)
(* fail.                                                                   *)
RegistrationInv ==
  /\ regPc # "off" => openRound \in Epochs /\ openRound \in roundDirs
  /\ regPc # "off" /\ openRound > 0 => RoundStart(openRound - 1) <= now
  /\ regPc = "save" => newNip \in Nips

(* What the worker keeps true: the directory in hand is in the phase that  *)
(* Run is in, and no teardown (service.go, loop) is removing it.           *)
WorkerInv ==
  /\ wkPc \in InHand \cup {"remove", "resume", "announce"} => current \in Epochs
  /\ wkPc \in (InHand \ {"publish"}) \cup {"resume"} => caller # "recover"
  /\ wkPc \in {"mkdir", "init"} => wkRoot # None
  /\ wkPc \in {"init", "remove"} => rounds[current].file # "absent"
  /\ wkPc = "start" => HasState(current)
  /\ wkPc = "plant" => rounds[current].file = "started"
  /\ wkPc \in {"work", "prove"} => rounds[current].file = "tree"
  /\ wkPc = "publish" => rounds[current].file = "finished"
  /\ wkPc = "publish" /\ caller # "recover" => RoundEnd(current) < now
  /\ Recovering \/ wkPc = "resume" => teardowns = {}
  /\ wkPc \in InHand => current \notin teardowns
  /\ disabled => wkPc \in {"off", "loop", "announce", "stopped"}
  /\ \A e \in teardowns : RoundEnd(e) < now /\ rounds[e].file # "absent"

(* What the round directories hold; recover leaves no state without a      *)
(* statement for the loop to find.                                         *)
DirectoryInv ==
  \A e \in Epochs :
    /\ rounds[e].file \in {"absent", "empty"} => rounds[e].statement = None
    /\ rounds[e].file \in {"started", "tree", "finished"} => rounds[e].statement # None
    /\ rounds[e].file = "finished" => rounds[e].nip \in Nat
    /\ Bare(e) => \/ disabled
                  \/ wkPc \in {"off", "stopped"}
                  \/ Recovering /\ e \in entries
                  \/ wkPc = "remove" /\ e = current

ServiceInv == TypeOK /\ RegistrationInv /\ WorkerInv /\ DirectoryInv

(* A round that was handed out, is executed or has a proof takes no more   *)
(* members, whatever fails and however often the server restarts.          *)
FrozenInv ==
  /\ regPc \in {"execute", "create"} => Frozen(openRound)
  /\ \A i \in 1 .. Len(closedRounds) : Frozen(closedRounds[i].epoch)
  /\ wkPc \in {"mkdir", "announce"} => Frozen(current)
  /\ \A e \in Epochs : rounds[e].file # "absent" => Frozen(e)
  /\ \A i \in 1 .. Len(proofs) : Frozen(proofs[i].epoch)
  /\ regPc = "save" => Frozen(newNip.epoch)
  /\ \A e \in Epochs : proofDb[e] # None => Frozen(e)

(* When nothing has disturbed closeRound, every root on its way from       *)
(* closeRound or recoverExecution to the proof database, in a channel, in  *)
(* memory or on disk, is that of the members of its round.                 *)
HandoverInv ==
  Undisturbed =>
    /\ ctxDone => wkPc = "stopped"
    /\ ~ctxDone /\ regPc \in {"start", "loop", "save"} => dbOpen
    /\ ~ctxDone /\ regPc = "execute" => root = roundDb[openRound]
    /\ ~ctxDone => \A i \in 1 .. Len(closedRounds) :
         closedRounds[i].membershipRoot = roundDb[closedRounds[i].epoch]
    /\ wkPc \in {"mkdir", "init"} => wkRoot = roundDb[current]
    /\ \A e \in Epochs :
         rounds[e].statement # None => rounds[e].statement = roundDb[e]
    /\ \A i \in 1 .. Len(proofs) :
         proofs[i].nip # 0 => proofs[i].statement = roundDb[proofs[i].epoch]
    /\ regPc = "save" /\ newNip.nip # 0 => newNip.statement = roundDb[newNip.epoch]
    /\ EveryProofCoversMembers

(* Together inductive. *)
PoetInv == ServiceInv /\ FrozenInv /\ HandoverInv

HandedOut(e) ==
  \/ HasState(e)
  \/ \E i \in 1 .. Len(closedRounds) : closedRounds[i].epoch = e
  \/ proofDb[e] # None

(* "`in-progress` no more submissions are allowed"                         *)
(* (docs/poet_operator_manual.md:32): once a round was handed to the       *)
(* worker its members do not change, also not after a restart.             *)
NoLateSubmission ==
  [][\A e \in Epochs : HandedOut(e) => roundDb'[e] = roundDb[e]]_vars

(* "Once data is there then valid forever. Safe to cache."                 *)
(* (docs/poet_operator_manual.md:18): a proof that was stored is never     *)
(* replaced by another one, whatever is executed or published again.       *)
(* Excluded is a server restarted with the other value of DisableWorker:   *)
(* recoverExecution hands out the previous round again, and the empty      *)
(* proof of a disabled worker, or that of a new execution, replaces the    *)
(* stored one.                                                             *)
ProofStable ==
  [][switches = 0 =>
       \A e \in Epochs : proofDb[e] # None => proofDb'[e] = proofDb[e]]_vars

(* At most one round directory holds an execution in progress: recover     *)
(* keeps only one and would forget the others.  (After an interrupt the    *)
(* loop may take another round before it stops.)                           *)
OneExecution ==
  interrupts = 0 => \A e, f \in Epochs :
    {rounds[e].file, rounds[f].file} \subseteq {"started", "tree"} => e = f

(* recover visits the directories in the order of their names, which is    *)
(* that of the rounds unless "10" is among them and "9" as well.  (Precedes *)
(* is about names of at most two digits.)                                  *)
NamesInOrder ==
  Epochs \subseteq 0 .. 99 /\ \A e, f \in Epochs : e <= f => Precedes(e, f)

(* No round is given up and handed out again: the loop gives one up only   *)
(* when interrupted, and then it is handed out again when newRound failed, *)
(* or when recover forgets a later round than the one it resumes.          *)
InOrder == interrupts = 0 \/ (failures = 0 /\ NamesInOrder)

(* Execute starts only on a round that was just created with the statement *)
(* received, never on top of an execution, a proof or the leftover of a    *)
(* removal in its directory, and no teardown is removing that directory.   *)
(* (A round given up and taken again meets its own leftover, and           *)
(* ExecutionRefused is all that happens to it once its tree is begun.)     *)
StartsAfresh ==
  wkPc = "start" /\ InOrder =>
    /\ rounds[current].file = "created"
    /\ rounds[current].statement = wkRoot
    /\ current \notin teardowns

(* onNewProof can open the database of the round: it exists and is not     *)
(* held open as the open round.                                            *)
ProofRoundReadable == regPc = "save" => RoundReadable(newNip.epoch)

InFlight(n) ==
  \/ \E i \in 1 .. Len(proofs) : proofs[i].nip = n
  \/ newNip # None /\ newNip.nip = n

(* "Once completed, the proof is stored in a database and available for    *)
(* nodes via a GRPC query." (registration/doc.go:11): a generated proof is *)
(* on its way or on disk until it is stored.  Does not hold when the       *)
(* process is interrupted: onNewProof forgets the error of NewProof, and   *)
(* the proof may still be in the channel, when the round is removed.       *)
NoProofLost ==
  \A n \in 1 .. nips :
    \/ \E e \in Epochs : rounds[e].nip = n
    \/ InFlight(n)
    \/ \E e \in Epochs : proofDb[e] # None /\ proofDb[e].nip = n

(* "[...] snapshot will be saved to disk to allow potential crash recovery" *)
(* (prover/prover.go:35-36): the worker can resume the execution it finds. *)
(* Does not hold between the save of the execution start and the first     *)
(* leaf; the error then stops the server at every restart.                 *)
ExecutionRecoverable == wkPc = "resume" => rounds[current].file = "tree"

(* "PoET will *not* start generating tree when it will detect that the     *)
(* round should be already in progress but the state of the round is       *)
(* empty." (docs/poet_operator_manual.md:102).  Does not hold: after a     *)
(* restart recoverExecution hands the round in progress to the worker,     *)
(* which skips only rounds whose end has passed.                           *)
NoLateStart ==
  [][\A e \in Epochs :
       rounds[e].file = "created" /\ rounds'[e].file = "started" => now <= RoundStart(e)]_vars

(* A round that is open in time for its whole course to fit before MaxTime *)
(* ends with a stored proof, when no step is delayed and nothing fails: it *)
(* is closed on time, executed, and its proof reaches the database; the    *)
(* disabled worker's empty proof as well.                                  *)
Provable(e) == RoundEnd(e) + MaxProvingTime < MaxTime

EveryRoundProved ==
  \A e \in Epochs :
    regPc = "loop" /\ openRound = e /\ Provable(e)
      ~> proofDb[e] # None \/ interrupts > 0

(* After an interrupt both services stop and the process exits, wherever   *)
(* they were: no send or receive on the transport blocks forever.          *)
ShutdownCompletes == ctxDone ~> ~up
==============================================================================
