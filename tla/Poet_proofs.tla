----------------------------- MODULE Poet_proofs -----------------------------
(***************************************************************************)
(* The calendar of rounds, for every epoch duration, phase shift and cycle *)
(* gap, at every instant after genesis.  The composed server, for every    *)
(* calendar, any set of members and any number of crashes, interrupts and  *)
(* failures: ServiceInv, where the messages in the channels come from, and *)
(* that the members of a round are those its proof covers.                 *)
(***************************************************************************)
EXTENDS Poet, TLAPS

(* What integer division computes. *)
LEMMA Division ==
  ASSUME NEW a \in Nat, NEW d \in Nat \ {0}
  PROVE  /\ a \div d \in Nat
         /\ d * (a \div d) <= a
         /\ a < d * (a \div d) + d
OBVIOUS

(* The round that New and closeRound open has not started: its timer waits *)
(* (OpenRoundId, scheduleRound).  The one before it has, so that it is the *)
(* round recoverExecution looks for.                                       *)
THEOREM OpenRoundIsNext ==
  ASSUME NEW t \in Nat
  PROVE  /\ OpenRoundId(t) \in Nat
         /\ t < RoundStart(OpenRoundId(t))
         /\ OpenRoundId(t) > 0 => RoundStart(OpenRoundId(t) - 1) <= t
<1>1. CASE t < PhaseShift
  BY <1>1, ScheduleConstants DEF OpenRoundId, RoundStart
<1>2. CASE t >= PhaseShift
  <2>. DEFINE q == (t - PhaseShift) \div EpochDuration
  <2>1. t - PhaseShift \in Nat
    BY <1>2, ScheduleConstants
  <2>2. /\ q \in Nat
        /\ EpochDuration * q <= t - PhaseShift
        /\ t - PhaseShift < EpochDuration * q + EpochDuration
    BY <2>1, Division, ScheduleConstants
  <2>3. OpenRoundId(t) = q + 1
    BY <1>2, ScheduleConstants DEF OpenRoundId
  <2>. HIDE DEF q
  <2>4. EpochDuration * (q + 1) = EpochDuration * q + EpochDuration
    BY <2>2, ScheduleConstants
  <2>5. (q + 1) - 1 = q
    BY <2>2
  <2>6. EpochDuration * q \in Nat
    BY <2>2, ScheduleConstants
  <2>. QED
    BY <2>2, <2>3, <2>4, <2>5, <2>6, ScheduleConstants DEF RoundStart
<1>. QED
  BY <1>1, <1>2, ScheduleConstants

(* Rounds follow one another: a round ends, at the latest, when the next   *)
(* one starts, CycleGap later (RoundEnd, RoundStart).                      *)
THEOREM RoundsDoNotOverlap ==
  ASSUME NEW e \in Nat
  PROVE  /\ RoundStart(e) <= RoundEnd(e)
         /\ RoundEnd(e) + CycleGap = RoundStart(e + 1)
<1>1. EpochDuration * e \in Nat
  BY ScheduleConstants
<1>2. EpochDuration * (e + 1) = EpochDuration * e + EpochDuration
  BY ScheduleConstants
<1>. QED
  BY <1>1, <1>2, ScheduleConstants DEF RoundStart, RoundEnd

(* Rounds start in the order of their epochs. *)
LEMMA StartsInOrder ==
  ASSUME NEW a \in Nat, NEW b \in Nat
  PROVE  /\ RoundStart(a) \in Nat
         /\ RoundStart(a) < RoundStart(b) => a < b
         /\ RoundEnd(a) \in Int
<1>1. EpochDuration * a \in Nat /\ EpochDuration * b \in Nat
  BY ScheduleConstants
<1>2. b <= a => EpochDuration * b <= EpochDuration * a
  BY ScheduleConstants
<1>. QED
  BY <1>1, <1>2, ScheduleConstants DEF RoundStart, RoundEnd

(* OpenRoundId never goes back while the clock runs. *)
THEOREM OpenRoundNeverGoesBack ==
  ASSUME NEW s \in Nat, NEW u \in Nat, s <= u
  PROVE  OpenRoundId(s) <= OpenRoundId(u)
<1>1. CASE OpenRoundId(s) = 0
  BY <1>1, OpenRoundIsNext
<1>2. CASE OpenRoundId(s) > 0
  <2>1. /\ OpenRoundId(s) - 1 \in Nat
        /\ OpenRoundId(u) \in Nat
        /\ OpenRoundId(s) \in Nat
    BY <1>2, OpenRoundIsNext
  <2>2. RoundStart(OpenRoundId(s) - 1) < RoundStart(OpenRoundId(u))
    BY <1>2, <2>1, OpenRoundIsNext, StartsInOrder
  <2>3. OpenRoundId(s) - 1 < OpenRoundId(u)
    BY <2>1, <2>2, StartsInOrder
  <2>. QED
    BY <2>1, <2>3
<1>. QED
  BY <1>1, <1>2, OpenRoundIsNext
------------------------------------------------------------------------------
(* The rounds opened while the clock runs are those of Epochs. *)
LEMMA OpenRoundInEpochs ==
  ASSUME NEW t \in StartTime .. MaxTime
  PROVE  OpenRoundId(t) \in Epochs
<1>1. /\ t \in Nat
      /\ StartTime <= t
      /\ t <= MaxTime
      /\ StartTime \in Nat
      /\ MaxTime \in Nat
  BY TimeConstants
<1>2. /\ OpenRoundId(t) \in Nat
      /\ OpenRoundId(StartTime) \in Nat
      /\ OpenRoundId(MaxTime) \in Nat
  BY <1>1, OpenRoundIsNext
<1>3. OpenRoundId(StartTime) <= OpenRoundId(t) /\ OpenRoundId(t) <= OpenRoundId(MaxTime)
  BY <1>1, OpenRoundNeverGoesBack
<1>. QED
  BY <1>2, <1>3 DEF Epochs

(* The epochs of the calendar are natural numbers. *)
LEMMA EpochsAreNat == Epochs \subseteq Nat
  BY TimeConstants, OpenRoundIsNext DEF Epochs

(* What the assumptions on the constants say of the sets the types are built from. *)
LEMMA Constants ==
  /\ Epochs \subseteq Nat
  /\ {} \in Roots
  /\ \A r \in Roots : r # None
  /\ StartTime .. MaxTime \subseteq Nat
  /\ <<>> \in Seq(ClosedRounds)
  /\ <<>> \in Seq(Nips)
  BY EpochsAreNat, NoneIsNoRoot, TimeConstants DEF Roots

(* Handing a closed round to the worker keeps the channels' types. *)
LEMMA ExecuteRoundType ==
  ASSUME RuntimeType, NEW msg \in ClosedRounds,
         ExecuteRoundSends(msg) \/ ExecuteRoundDrops \/ ExecuteRoundCancelled
  PROVE  closedRounds' \in Seq(ClosedRounds) /\ proofs' \in Seq(Nips)
<1>1. CASE ExecuteRoundSends(msg)
  BY <1>1 DEF RuntimeType, ExecuteRoundSends
<1>2. CASE ExecuteRoundDrops \/ ExecuteRoundCancelled
  BY <1>2 DEF RuntimeType, ExecuteRoundDrops, ExecuteRoundCancelled, channels
<1>. QED
  BY <1>1, <1>2

(* A step of the registration service keeps the types ...                  *)
LEMMA RegistrationKeepsTypes ==
  ASSUME ServiceInv, RegistrationActs
  PROVE  TypeOK'
<1>1. WorkerType' /\ UNCHANGED <<now, ctxDone, up, crashes, interrupts, failures, switches>>
  BY DEF ServiceInv, TypeOK, WorkerType, RegistrationActs, wkVars, hand, recovery, procVars,
     faultVars
<1>2. closedRounds' \in Seq(ClosedRounds) /\ proofs' \in Seq(Nips) /\ RegistrationType'
  <2>. USE Constants
       DEF ServiceInv, TypeOK, RuntimeType, RegistrationType, RegistrationInv, RegistrationPcs, regDisk, channels
  <2>1. CASE NothingToRecover
    BY <2>1 DEF NothingToRecover
  <2>2. CASE RecoverExecution
    <3>1. ClosedRound(InProgress, roundDb[InProgress]) \in ClosedRounds
      BY <2>2 DEF RecoverExecution, ClosedRound, ClosedRounds
    <3>2. closedRounds' \in Seq(ClosedRounds) /\ proofs' \in Seq(Nips)
      BY <2>2, <3>1, ExecuteRoundType DEF RecoverExecution
    <3>. QED
      BY <2>2, <3>2 DEF RecoverExecution
  <2>3. CASE CloseRound
    BY <2>3, Zenon DEF CloseRound
  <2>4. CASE ExecuteClosedRound
    <3>1. ClosedRound(openRound, root) \in ClosedRounds
      BY <2>4 DEF ExecuteClosedRound, ClosedRound, ClosedRounds
    <3>2. closedRounds' \in Seq(ClosedRounds) /\ proofs' \in Seq(Nips)
      BY <2>4, <3>1, ExecuteRoundType DEF ExecuteClosedRound
    <3>. QED
      BY <2>4, <3>2 DEF ExecuteClosedRound
  <2>5. CASE OpenNextRound
    BY <2>5, OpenRoundInEpochs, Zenon DEF OpenNextRound, OpenRoundDb
  <2>6. CASE TakeProof
    BY <2>6 DEF TakeProof, ReceiveProof
  <2>7. CASE SaveProof
    <3>1. newNip.epoch \in Epochs /\ newNip.nip \in Nat /\ newNip.statement \in Roots
      BY <2>7 DEF SaveProof, Nips
    <3>2. proofDb' \in [Epochs -> [nip : Nat, statement : Roots, members : Roots] \cup {None}]
      BY <2>7, <3>1 DEF SaveProof, StoreProof
    <3>3. pow' \in [current : Nat \cup {None}, previous : Nat \cup {None}]
      BY <2>7, <3>1 DEF SaveProof, RotatePow
    <3>. QED
      BY <2>7, <3>2, <3>3 DEF SaveProof
  <2>8. CASE RegistrationStops
    BY <2>8 DEF RegistrationStops
  <2>. QED
    BY <2>1, <2>2, <2>3, <2>4, <2>5, <2>6, <2>7, <2>8, Zenon DEF RegistrationActs, RegistrationStep
<1>. QED
  BY <1>1, <1>2 DEF ServiceInv, TypeOK, RuntimeType

(* ... and the invariants of both services.                                *)
LEMMA RegistrationKeepsService ==
  ASSUME ServiceInv, RegistrationActs
  PROVE  ServiceInv'
<1>1. TypeOK'
  BY RegistrationKeepsTypes
<1>2. UNCHANGED <<now, rounds, wkPc, caller, current, wkRoot, entries, teardowns, disabled>>
  BY DEF RegistrationActs, wkVars, hand, recovery
<1>3. WorkerInv' /\ DirectoryInv'
  BY <1>2 DEF ServiceInv, WorkerInv, DirectoryInv, Recovering, Bare, HasState
<1>4. RegistrationInv'
  <2>. USE Constants DEF ServiceInv, TypeOK, RuntimeType, RegistrationInv
  <2>1. CASE OpenNextRound
    BY <1>2, <2>1, OpenRoundInEpochs, OpenRoundIsNext, Zenon DEF OpenNextRound, OpenRoundDb
  <2>2. CASE TakeProof
    BY <1>2, <2>2 DEF TakeProof, ReceiveProof, regDisk
  <2>3. CASE ~OpenNextRound /\ ~TakeProof
    BY <1>2, <2>3 DEF RegistrationActs, RegistrationStep, NothingToRecover, RecoverExecution,
       regDisk, CloseRound, ExecuteClosedRound, SaveProof, RegistrationStops
  <2>. QED
    BY <2>1, <2>2, <2>3
<1>. QED
  BY <1>1, <1>3, <1>4 DEF ServiceInv
------------------------------------------------------------------------------
(* What writing a state file and removing a directory do to the disk. *)
LEMMA SetFileEffect ==
  ASSUME WorkerType, NEW e \in Epochs, NEW f \in Files, SetFile(e, f)
  PROVE  /\ rounds' \in [Epochs -> Directories]
         /\ \A d \in Epochs \ {e} : rounds'[d] = rounds[d]
         /\ rounds'[e].file = f
         /\ rounds'[e].statement = rounds[e].statement
         /\ rounds'[e].nip = rounds[e].nip
  BY DEF SetFile, WorkerType, Directories

(* Removing the files of a round, or its directory, leaves no state behind. *)
LEMMA RemoveEffect ==
  ASSUME WorkerType, NEW e \in Epochs, RemoveFiles(e) \/ RemoveDir(e)
  PROVE  /\ rounds' \in [Epochs -> Directories]
         /\ \A d \in Epochs \ {e} : rounds'[d] = rounds[d]
         /\ rounds'[e].file \in {"absent", "empty"}
         /\ rounds'[e].statement = None
         /\ rounds[e].file = "absent" \/ RemoveDir(e) \/ rounds'[e].file = "empty"
         /\ RemoveDir(e) => rounds'[e].file = "absent"
  BY DEF RemoveFiles, RemoveDir, Absent, WorkerType, Directories, Files

(* Finishing an execution saves the proof next to the statement it is of. *)
LEMMA FinishEffect ==
  ASSUME WorkerType, current \in Epochs, FinishProof
  PROVE  /\ rounds' \in [Epochs -> Directories]
         /\ \A d \in Epochs \ {current} : rounds'[d] = rounds[d]
         /\ rounds'[current].file = "finished"
         /\ rounds'[current].statement = rounds[current].statement
         /\ rounds'[current].nip = nips + 1
<1>. DEFINE r == [rounds EXCEPT ![current].file = "finished"]
<1>1. /\ r \in [Epochs -> Directories]
      /\ \A d \in Epochs \ {current} : r[d] = rounds[d]
      /\ r[current].file = "finished"
      /\ r[current].statement = rounds[current].statement
  BY DEF WorkerType, Directories, Files
<1>2. rounds' = [r EXCEPT ![current].nip = nips + 1]
  BY DEF FinishProof
<1>. HIDE DEF r
<1>. QED
  BY <1>1, <1>2 DEF WorkerType, Directories

(* Sending a proof to the registration service keeps the channels' types. *)
LEMMA NewProofType ==
  ASSUME RuntimeType, NEW nip \in Nips, NewProofSends(nip) \/ NewProofCancelled
  PROVE  closedRounds' \in Seq(ClosedRounds) /\ proofs' \in Seq(Nips)
<1>1. CASE NewProofSends(nip)
  BY <1>1 DEF RuntimeType, NewProofSends
<1>2. CASE NewProofCancelled
  BY <1>2 DEF RuntimeType, NewProofCancelled, channels
<1>. QED
  BY <1>1, <1>2

(* A step of the worker keeps the types ... *)
LEMMA WorkerKeepsTypes ==
  ASSUME ServiceInv, WorkerActs
  PROVE  TypeOK'
<1>1. RegistrationType' /\ UNCHANGED <<now, ctxDone, up, crashes, interrupts, failures, switches>>
  BY DEF ServiceInv, TypeOK, RegistrationType, WorkerActs, regVars, regDisk, regMemory, procVars,
     faultVars
<1>2. closedRounds' \in Seq(ClosedRounds) /\ proofs' \in Seq(Nips) /\ WorkerType'
  <2>. DEFINE Goal == closedRounds' \in Seq(ClosedRounds) /\ proofs' \in Seq(Nips) /\ WorkerType'
  <2>. USE Constants DEF ServiceInv, TypeOK, RuntimeType, WorkerType, WorkerInv, InHand,
         WorkerPcs, GoTo, channels, hand, recovery
  <2>1. ASSUME NEW e \in Epochs, RecoverFinished(e) \/ RecoverExecuting(e)
        PROVE  Goal
    BY <2>1, Zenon DEF RecoverFinished, RecoverExecuting
  <2>2. ASSUME NEW e \in Epochs, RecoverNotStarted(e)
        PROVE  Goal
    BY <2>2, SetFileEffect, Zenon DEF RecoverNotStarted, Files
  <2>3. CASE RemoveRecovered
    BY <2>3, RemoveEffect, Zenon DEF RemoveRecovered
  <2>4. CASE RecoverDone
    BY <2>4 DEF RecoverDone
  <2>5. CASE Resume \/ StopWork \/ CancelWork \/ WorkerStops \/ ExecutionRefused
    BY <2>5, Zenon DEF Resume, StopWork, CancelWork, WorkerStops, ExecutionRefused
  <2>6. CASE SkipPastRound
    BY <2>6 DEF SkipPastRound, ReceiveClosedRound, wkVars
  <2>7. CASE TakeRound
    <3>1. Head(closedRounds) \in ClosedRounds
      BY <2>7 DEF TakeRound
    <3>2. Head(closedRounds).epoch \in Epochs /\ Head(closedRounds).membershipRoot \in Roots
      BY <3>1 DEF ClosedRounds
    <3>. QED
      BY <2>7, <3>2 DEF TakeRound, ReceiveClosedRound
  <2>8. CASE MakeRoundDir
    BY <2>8, SetFileEffect, Zenon DEF MakeRoundDir, Files
  <2>9. CASE InitRound
    <3>1. rounds' \in [Epochs -> Directories]
      BY <2>9 DEF InitRound, Directories, Files
    <3>. QED
      BY <2>9, <3>1 DEF InitRound
  <2>10. CASE StartExecution
    BY <2>10, SetFileEffect, Zenon DEF StartExecution, Files
  <2>11. CASE WriteFirstLeaf
    BY <2>11, SetFileEffect, Zenon DEF WriteFirstLeaf, Files
  <2>12. CASE FinishProof
    <3>1. rounds' \in [Epochs -> Directories]
      BY <2>12, FinishEffect DEF FinishProof
    <3>. QED
      BY <2>12, <3>1 DEF FinishProof
  <2>13. CASE PublishProof
    <3>1. Nip(current) \in Nips
      BY <2>13, Zenon DEF PublishProof, Nip, Nips, DirectoryInv, Directories
    <3>2. closedRounds' \in Seq(ClosedRounds) /\ proofs' \in Seq(Nips)
      BY <2>13, <3>1, NewProofType, Zenon DEF PublishProof
    <3>. QED
      BY <2>13, <3>2, Zenon DEF PublishProof
  <2>14. CASE DisabledTakeRound
    <3>1. Head(closedRounds) \in ClosedRounds
      BY <2>14 DEF DisabledTakeRound
    <3>2. Head(closedRounds).epoch \in Epochs
      BY <3>1, Zenon DEF ClosedRounds
    <3>. QED
      BY <2>14, <3>2 DEF DisabledTakeRound, ReceiveClosedRound
  <2>15. CASE PublishEmptyProof
    <3>1. [epoch |-> current, nip |-> 0, statement |-> {}] \in Nips
      BY <2>15, Zenon DEF PublishEmptyProof, Nips
    <3>2. closedRounds' \in Seq(ClosedRounds) /\ proofs' \in Seq(Nips)
      BY <2>15, <3>1, NewProofType, Zenon DEF PublishEmptyProof
    <3>. QED
      BY <2>15, <3>2, Zenon DEF PublishEmptyProof
  <2>. QED
    BY <2>1, <2>2, <2>3, <2>4, <2>5, <2>6, <2>7, <2>8, <2>9, <2>10, <2>11, <2>12, <2>13,
       <2>14, <2>15, Zenon DEF WorkerActs, WorkerStep
<1>. QED
  BY <1>1, <1>2 DEF ServiceInv, TypeOK, RuntimeType

(* ... and the invariant of the worker and its directories.                *)
LEMMA WorkerKeepsService ==
  ASSUME ServiceInv, WorkerActs
  PROVE  ServiceInv'
<1>1. TypeOK'
  BY WorkerKeepsTypes
<1>2. UNCHANGED now /\ RegistrationInv'
  BY DEF ServiceInv, RegistrationInv, WorkerActs, regVars, regDisk, regMemory
<1>3. WorkerInv' /\ DirectoryInv'
  <2>. DEFINE Goal == WorkerInv' /\ DirectoryInv'
  <2>. USE <1>2, Constants DEF ServiceInv, TypeOK, WorkerType, WorkerInv, DirectoryInv, Bare,
         Recovering, HasState, InHand, GoTo, hand, recovery
  <2>1. ASSUME NEW e \in Epochs, RecoverFinished(e)
        PROVE  Goal
    BY <2>1, Zenon DEF RecoverFinished
  <2>2. ASSUME NEW e \in Epochs, RecoverExecuting(e)
        PROVE  Goal
    BY <2>2, Zenon DEF RecoverExecuting
  <2>3. ASSUME NEW e \in Epochs, RecoverNotStarted(e)
        PROVE  Goal
    <3>1. SetFile(e, "created") /\ "created" \in Files
      BY <2>3, Zenon DEF RecoverNotStarted, Files
    <3>2. /\ \A d \in Epochs \ {e} : rounds'[d] = rounds[d]
          /\ rounds'[e].file = "created"
          /\ rounds'[e].statement = rounds[e].statement
          /\ rounds'[e].nip = rounds[e].nip
      BY <2>3, <3>1, SetFileEffect, Zenon DEF RecoverNotStarted
    <3>3. WorkerInv'
      BY <2>3, <3>2, Zenon DEF RecoverNotStarted
    <3>4. DirectoryInv'
      BY <2>3, <3>2, Zenon DEF RecoverNotStarted
    <3>. QED
      BY <3>3, <3>4, Zenon
  <2>4. CASE RemoveRecovered
    <3>1. /\ wkPc = "remove" /\ current \in Epochs
          /\ UNCHANGED <<caller, current, entries, teardowns, disabled>>
      BY <2>4, Zenon DEF RemoveRecovered
    <3>2. CASE RemoveFiles(current) /\ UNCHANGED wkPc
      <4>1. /\ rounds'[current].file = "empty"
            /\ rounds'[current].statement = None
            /\ \A d \in Epochs \ {current} : rounds'[d] = rounds[d]
        BY <3>1, <3>2, RemoveEffect DEF RemoveFiles, Absent
      <4>. QED
        BY <3>1, <3>2, <4>1, Zenon
    <3>3. CASE RemoveDir(current) /\ wkPc' = "recover"
      <4>1. /\ rounds'[current].file = "absent"
            /\ rounds'[current].statement = None
            /\ \A d \in Epochs \ {current} : rounds'[d] = rounds[d]
        BY <3>1, <3>3, RemoveEffect, Zenon
      <4>. QED
        BY <3>1, <3>3, <4>1, Zenon
    <3>. QED
      BY <2>4, <3>2, <3>3, Zenon DEF RemoveRecovered
  <2>5. CASE RecoverDone
    BY <2>5, Zenon DEF RecoverDone
  <2>6. CASE Resume
    BY <2>6, Zenon DEF Resume
  <2>7. CASE StopWork \/ CancelWork \/ WorkerStops \/ ExecutionRefused
    <3>1. /\ UNCHANGED <<rounds, caller, current, teardowns, entries, disabled>>
          /\ wkPc # "recover"
          /\ \/ wkPc' \in {"loop", "stopped"}
             \/ wkPc = "work" /\ wkPc' = "prove"
      BY <2>7, Zenon DEF StopWork, CancelWork, WorkerStops, ExecutionRefused
    <3>. QED
      BY <2>7, <3>1, Zenon DEF StopWork, CancelWork, WorkerStops, ExecutionRefused
  <2>8. CASE SkipPastRound
    BY <2>8, Zenon DEF SkipPastRound, wkVars
  <2>9. CASE TakeRound
    <3>1. Head(closedRounds) \in ClosedRounds
      BY <2>9 DEF TakeRound, RuntimeType
    <3>2. current' \in Epochs /\ wkRoot' \in Roots
      BY <2>9, <3>1, Zenon DEF TakeRound, ClosedRounds
    <3>3. current' \notin teardowns
      BY <2>9, Zenon DEF TakeRound, IsPast
    <3>. QED
      BY <2>9, <3>2, <3>3, Zenon DEF TakeRound
  <2>10. CASE MakeRoundDir
    <3>1. CASE rounds[current].file = "absent"
      <4>1. SetFile(current, "empty") /\ "empty" \in Files
        BY <2>10, <3>1, Zenon DEF MakeRoundDir, Files
      <4>2. /\ wkPc = "mkdir" /\ wkPc' = "init"
            /\ UNCHANGED <<entries, current, wkRoot, caller, disabled, teardowns>>
        BY <2>10, Zenon DEF MakeRoundDir
      <4>3. /\ \A d \in Epochs \ {current} : rounds'[d] = rounds[d]
            /\ rounds'[current].file = "empty"
            /\ rounds'[current].statement = rounds[current].statement
            /\ rounds'[current].nip = rounds[current].nip
        BY <4>1, <4>2, SetFileEffect, Zenon
      <4>4. WorkerInv'
        BY <4>2, <4>3, Zenon
      <4>5. DirectoryInv'
        BY <3>1, <4>2, <4>3, Zenon
      <4>. QED
        BY <4>4, <4>5, Zenon
    <3>2. CASE rounds[current].file # "absent"
      BY <2>10, <3>2, Zenon DEF MakeRoundDir
    <3>. QED
      BY <3>1, <3>2, Zenon
  <2>11. CASE InitRound
    <3>1. CASE rounds[current].file = "empty"
      <4>1. /\ rounds'[current] = [file |-> "created", statement |-> wkRoot, nip |-> None]
            /\ \A d \in Epochs \ {current} : rounds'[d] = rounds[d]
        BY <2>11, <3>1, Zenon DEF InitRound
      <4>2. WorkerInv'
        BY <2>11, <4>1 DEF InitRound
      <4>3. /\ wkPc = "init" /\ wkPc' = "start" /\ UNCHANGED <<entries, current, caller, disabled>>
            /\ wkRoot # None
        BY <2>11, Zenon DEF InitRound
      <4>4. DirectoryInv'
        BY <4>1, <4>3
      <4>. QED
        BY <4>2, <4>4, Zenon
    <3>2. CASE rounds[current].file # "empty"
      BY <2>11, <3>2, Zenon DEF InitRound, Directories, Files
    <3>. QED
      BY <3>1, <3>2, Zenon
  <2>12. CASE StartExecution
    <3>1. SetFile(current, "started") /\ "started" \in Files
      BY <2>12, Zenon DEF StartExecution, Files
    <3>2. /\ \A d \in Epochs \ {current} : rounds'[d] = rounds[d]
          /\ rounds'[current].file = "started"
          /\ rounds'[current].statement = rounds[current].statement
          /\ rounds'[current].nip = rounds[current].nip
      BY <2>12, <3>1, SetFileEffect, Zenon DEF StartExecution
    <3>3. WorkerInv'
      BY <2>12, <3>2, Zenon DEF StartExecution, HasLayers
    <3>4. DirectoryInv'
      BY <2>12, <3>2, Zenon DEF StartExecution, HasLayers
    <3>. QED
      BY <3>3, <3>4
  <2>13. CASE WriteFirstLeaf
    <3>1. SetFile(current, "tree") /\ "tree" \in Files
      BY <2>13, Zenon DEF WriteFirstLeaf, Files
    <3>2. /\ \A d \in Epochs \ {current} : rounds'[d] = rounds[d]
          /\ rounds'[current].file = "tree"
          /\ rounds'[current].statement = rounds[current].statement
          /\ rounds'[current].nip = rounds[current].nip
      BY <2>13, <3>1, SetFileEffect, Zenon DEF WriteFirstLeaf
    <3>3. WorkerInv'
      BY <2>13, <3>2, Zenon DEF WriteFirstLeaf
    <3>4. DirectoryInv'
      BY <2>13, <3>2, Zenon DEF WriteFirstLeaf
    <3>. QED
      BY <3>3, <3>4
  <2>14. CASE FinishProof
    <3>1. current \in Epochs /\ RoundEnd(current) < now
      BY <2>14, StartsInOrder DEF FinishProof, RuntimeType
    <3>2. /\ \A d \in Epochs \ {current} : rounds'[d] = rounds[d]
          /\ rounds'[current].file = "finished"
          /\ rounds'[current].statement = rounds[current].statement
          /\ rounds'[current].nip = nips + 1
      BY <2>14, <3>1, FinishEffect, Zenon
    <3>3. wkPc = "prove" /\ wkPc' = "publish" /\ UNCHANGED <<caller, current, teardowns, entries, disabled>>
      BY <2>14 DEF FinishProof
    <3>4. WorkerInv'
      BY <3>1, <3>2, <3>3, Zenon
    <3>5. DirectoryInv'
      <4>1. nips \in Nat /\ nips + 1 \in Nat
        OBVIOUS
      <4>. QED
        BY <3>1, <3>2, <3>3, <4>1, Zenon
    <3>. QED
      BY <3>4, <3>5, Zenon
  <2>15. CASE PublishProof
    BY <2>15, Zenon DEF PublishProof
  <2>16. CASE DisabledTakeRound
    <3>1. Head(closedRounds) \in ClosedRounds
      BY <2>16 DEF DisabledTakeRound, RuntimeType
    <3>2. current' \in Epochs
      BY <2>16, <3>1, Zenon DEF DisabledTakeRound, ClosedRounds
    <3>. QED
      BY <2>16, <3>2, Zenon DEF DisabledTakeRound
  <2>17. CASE PublishEmptyProof
    BY <2>17, Zenon DEF PublishEmptyProof
  <2>. QED
    BY <2>1, <2>2, <2>3, <2>4, <2>5, <2>6, <2>7, <2>8, <2>9, <2>10, <2>11, <2>12, <2>13,
       <2>14, <2>15, <2>16, <2>17, Zenon DEF WorkerActs, WorkerStep
<1>. QED
  BY <1>1, <1>2, <1>3 DEF ServiceInv
------------------------------------------------------------------------------
(* The goroutines that remove rounds touch no directory in hand. *)
LEMMA TeardownKeepsService ==
  ASSUME ServiceInv, TeardownActs
  PROVE  ServiceInv'
<1>. PICK e \in Epochs : Teardown(e)
  BY DEF TeardownActs
<1>1. /\ UNCHANGED <<now, ctxDone, regVars, channels, wkPc, caller, current, wkRoot, entries, executing>>
      /\ UNCHANGED <<disabled, nips, up, crashes, interrupts, failures, switches>>
      /\ e \in teardowns
      /\ teardowns' \subseteq teardowns
  BY Zenon DEF TeardownActs, Teardown, hand, recovery, procVars, faultVars
<1>2. /\ rounds' \in [Epochs -> Directories]
      /\ \A d \in Epochs \ {e} : rounds'[d] = rounds[d]
      /\ rounds'[e].file \in {"absent", "empty"}
      /\ rounds'[e].statement = None
      /\ e \notin teardowns' \/ rounds'[e].file # "absent"
  <2>1. WorkerType /\ WorkerInv
    BY DEF ServiceInv, TypeOK
  <2>2. CASE RemoveFiles(e)
    BY <2>1, <2>2, RemoveEffect, Zenon DEF RemoveFiles, WorkerType, Absent
  <2>3. CASE RemoveDir(e) /\ teardowns' = teardowns \ {e}
    BY <2>1, <2>3, RemoveEffect, Zenon
  <2>. QED
    BY <2>2, <2>3, Zenon DEF Teardown
<1>3. TypeOK'
  BY <1>1, <1>2 DEF ServiceInv, TypeOK, RuntimeType, RegistrationType, WorkerType, channels,
     regVars, regDisk, regMemory
<1>4. RegistrationInv'
  BY <1>1 DEF ServiceInv, RegistrationInv, regVars, regDisk, regMemory
<1>5. WorkerInv'
  <2>1. \A d \in teardowns' : RoundEnd(d) < now' /\ rounds'[d].file # "absent"
    BY <1>1, <1>2, Zenon DEF ServiceInv, TypeOK, WorkerType, WorkerInv
  <2>2. wkPc \in InHand => rounds'[current] = rounds[current]
    BY <1>1, <1>2, Zenon DEF ServiceInv, WorkerInv
  <2>3. ~(Recovering \/ wkPc = "resume")
    BY <1>1, Zenon DEF ServiceInv, WorkerInv
  <2>. QED
    BY <1>1, <2>1, <2>2, <2>3, Zenon DEF ServiceInv, WorkerInv, Recovering, HasState, InHand
<1>6. DirectoryInv'
  BY <1>1, <1>2, Zenon DEF ServiceInv, DirectoryInv, Recovering, Bare
<1>. QED
  BY <1>3, <1>4, <1>5, <1>6 DEF ServiceInv

(* Submits, the failures of either service and the clock. *)
LEMMA OthersKeepService ==
  ASSUME ServiceInv, SubmitActs \/ WorkerFails \/ DatabaseFails \/ Interrupt \/ Tick
  PROVE  ServiceInv'
<1>. USE DEF ServiceInv, TypeOK, channels, procVars, faultVars
<1>1. CASE SubmitActs
  <2>. PICK m \in Members : Submit(m)
    BY <1>1 DEF SubmitActs
  <2>1. roundDb' \in [Epochs -> Roots]
    BY Zenon DEF Submit, RegistrationType, Roots
  <2>2. UNCHANGED <<now, ctxDone, closedRounds, proofs, roundDirs, proofDb, regMemory, wkVars, procVars>>
    BY <1>1, Zenon DEF SubmitActs, Submit
  <2>3. RuntimeType' /\ (up \in BOOLEAN)' /\ (crashes \in Nat /\ interrupts \in Nat /\ failures \in Nat)' /\ (switches \in Nat)'
    BY <2>2, Zenon DEF RuntimeType
  <2>4. RegistrationType' /\ RegistrationInv'
    BY <2>1, <2>2, Zenon DEF RegistrationType, RegistrationInv, regMemory
  <2>5. UNCHANGED <<now, rounds, wkPc, caller, current, wkRoot, entries, executing, teardowns,
                    disabled, nips>>
    BY <2>2, Zenon DEF wkVars, hand, recovery
  <2>6. WorkerType'
    BY <2>5, Zenon DEF WorkerType
  <2>7. WorkerInv' /\ DirectoryInv'
    BY <2>5, Zenon DEF WorkerInv, DirectoryInv, Recovering, Bare, HasState
  <2>. QED
    BY <2>2, <2>3, <2>4, <2>6, <2>7, Zenon
<1>2. CASE WorkerFails
  <2>1. /\ UNCHANGED <<now, regVars, channels, rounds, caller, current, wkRoot, entries, executing>>
        /\ UNCHANGED <<teardowns, disabled, nips, up, crashes, interrupts, failures, switches>>
        /\ ctxDone' = TRUE
        /\ wkPc' = "stopped"
    BY <1>2, Zenon DEF WorkerFails, ResumeFails, GoTo, hand, recovery
  <2>2. TypeOK' /\ RegistrationInv'
    BY <2>1 DEF RuntimeType, RegistrationType, WorkerType, RegistrationInv, WorkerPcs, regVars,
       regDisk, regMemory
  <2>3. WorkerInv' /\ DirectoryInv'
    BY <2>1, Zenon DEF WorkerInv, DirectoryInv, Recovering, Bare, HasState, InHand
  <2>. QED
    BY <2>2, <2>3
<1>3. CASE DatabaseFails
  <2>1. /\ UNCHANGED <<now, wkVars, channels, regDisk, openRound, dbOpen, root, pow>>
        /\ UNCHANGED <<up, crashes, interrupts, switches>>
        /\ failures' \in Nat
        /\ ctxDone' \in BOOLEAN
        /\ regPc # "off"
        /\ regPc' \in {"loop", "stopped"}
        /\ newNip' \in {newNip, None}
    <3>1. /\ failures' \in Nat
          /\ UNCHANGED <<now, wkVars, up, crashes, interrupts, switches>>
      BY <1>3 DEF DatabaseFails
    <3>2. CASE (OpenNextRoundFails \/ SaveProofFails) /\ UNCHANGED ctxDone
      BY <3>1, <3>2 DEF OpenNextRoundFails, SaveProofFails, RuntimeType
    <3>3. CASE RecoverExecutionFails
      BY <3>1, <3>3 DEF RecoverExecutionFails
    <3>. QED
      BY <1>3, <3>2, <3>3, Zenon DEF DatabaseFails
  <2>2. TypeOK' /\ RegistrationInv'
    BY <2>1 DEF RuntimeType, RegistrationType, WorkerType, RegistrationInv, RegistrationPcs,
       regDisk, wkVars, hand, recovery
  <2>3. WorkerInv' /\ DirectoryInv'
    BY <2>1, Zenon DEF WorkerInv, DirectoryInv, Recovering, Bare, HasState, wkVars, hand, recovery
  <2>. QED
    BY <2>2, <2>3
<1>4. CASE Interrupt
  <2>1. /\ UNCHANGED <<now, wkVars, regVars, channels, up, crashes, failures, switches>>
        /\ interrupts' \in Nat
        /\ ctxDone' \in BOOLEAN
    BY <1>4 DEF Interrupt
  <2>2. TypeOK' /\ RegistrationInv'
    BY <2>1 DEF RuntimeType, RegistrationType, WorkerType, RegistrationInv, regVars, regDisk,
       regMemory, wkVars, hand, recovery
  <2>3. WorkerInv' /\ DirectoryInv'
    BY <2>1, Zenon DEF WorkerInv, DirectoryInv, Recovering, Bare, HasState, wkVars, hand, recovery
  <2>. QED
    BY <2>2, <2>3
<1>5. CASE Tick
  <2>1. /\ now \in Nat
        /\ now' = now + 1
        /\ now' \in StartTime .. MaxTime
        /\ UNCHANGED <<ctxDone, channels, regVars, wkVars, procVars>>
    BY <1>5, TimeConstants DEF Tick, RuntimeType
  <2>2. \A e \in Epochs :
          /\ RoundEnd(e) < now => RoundEnd(e) < now'
          /\ RoundStart(e) <= now => RoundStart(e) <= now'
    BY <2>1, StartsInOrder, Constants
  <2>3. TypeOK'
    BY <2>1 DEF RuntimeType, RegistrationType, WorkerType, regVars, regDisk, regMemory, wkVars,
       hand, recovery
  <2>4. RegistrationInv'
    <3>1. openRound > 0 => openRound - 1 \in Nat
      BY DEF RegistrationType
    <3>. QED
      BY <2>1, <3>1, StartsInOrder DEF RegistrationInv, RegistrationType, regVars, regDisk,
         regMemory
  <2>5. WorkerInv'
    BY <2>1, <2>2, Zenon DEF WorkerInv, WorkerType, Recovering, HasState, InHand, wkVars, hand,
       recovery
  <2>6. DirectoryInv'
    BY <2>1, Zenon DEF DirectoryInv, Recovering, Bare, wkVars, hand, recovery
  <2>. QED
    BY <2>3, <2>4, <2>5, <2>6
<1>. QED
  BY <1>1, <1>2, <1>3, <1>4, <1>5, Zenon

(* Start, exit and crash of the process. *)
LEMMA ProcessKeepsService ==
  ASSUME ServiceInv, Start \/ Exit \/ Crash
  PROVE  ServiceInv'
<1>. USE Constants DEF ServiceInv, TypeOK, RuntimeType, faultVars, hand
<1>1. CASE Start
  <2>1. /\ openRound' = OpenRoundId(now)
        /\ openRound' \in Epochs
        /\ openRound' > 0 => RoundStart(openRound' - 1) <= now
    BY <1>1, OpenRoundInEpochs, OpenRoundIsNext, Zenon DEF Start, RegistrationNew, OpenRoundDb
  <2>2. RegistrationType' /\ RegistrationInv'
    BY <1>1, <2>1, Zenon DEF Start, RegistrationNew, OpenRoundDb, SetupPowProviders,
       RegistrationType, RegistrationInv, RegistrationPcs
  <2>3. WorkerType'
    BY <1>1, Zenon DEF Start, WorkerRun, WorkerType, WorkerPcs, GoTo
  <2>4. /\ UNCHANGED <<now, crashes, interrupts, failures>>
        /\ ctxDone' = FALSE /\ closedRounds' = <<>> /\ proofs' = <<>> /\ up' = TRUE
        /\ switches' \in Nat
    BY <1>1 DEF Start
  <2>5. WorkerInv'
    BY <1>1, Zenon DEF Start, WorkerRun, WorkerInv, Recovering, InHand, GoTo
  <2>6. DirectoryInv'
    BY <1>1, Zenon DEF Start, WorkerRun, DirectoryInv, Recovering, Bare, GoTo
  <2>. QED
    BY <2>2, <2>3, <2>4, <2>5, <2>6, Zenon
<1>2. CASE Exit \/ Crash
  <2>1. /\ Gone
        /\ UNCHANGED <<now, interrupts, failures, switches>>
        /\ crashes' \in Nat
    BY <1>2 DEF Exit, Crash
  <2>2. ctxDone' = FALSE /\ closedRounds' = <<>> /\ proofs' = <<>> /\ up' = FALSE
    BY <2>1 DEF Gone
  <2>3. RegistrationType' /\ RegistrationInv'
    BY <2>1, Zenon DEF Gone, RegistrationGone, RegistrationType, RegistrationInv, RegistrationPcs,
       regDisk
  <2>4. WorkerType'
    BY <2>1, Zenon DEF Gone, WorkerGone, WorkerType, WorkerPcs, GoTo
  <2>5. WorkerInv'
    BY <2>1, Zenon DEF Gone, WorkerGone, WorkerInv, Recovering, InHand, GoTo
  <2>6. DirectoryInv'
    BY <2>1, Zenon DEF Gone, WorkerGone, DirectoryInv, Bare, GoTo
  <2>. QED
    BY <2>1, <2>2, <2>3, <2>4, <2>5, <2>6, Zenon
<1>. QED
  BY <1>1, <1>2, Zenon

(* Every step of the server keeps the service invariant. *)
LEMMA ServiceStep ==
  ASSUME ServiceInv, [Next]_vars
  PROVE  ServiceInv'
<1>1. CASE UNCHANGED vars
  <2>1. /\ UNCHANGED <<now, ctxDone, closedRounds, proofs, up, crashes, interrupts, failures, switches>>
        /\ UNCHANGED <<roundDirs, roundDb, proofDb, openRound, dbOpen, regPc, root, newNip, pow>>
        /\ UNCHANGED <<rounds, wkPc, caller, current, wkRoot, entries, executing, teardowns, disabled, nips>>
    BY <1>1, Zenon DEF vars, channels, regVars, regDisk, regMemory, wkVars, hand, recovery,
       procVars, faultVars
  <2>2. TypeOK' /\ RegistrationInv'
    BY <2>1 DEF ServiceInv, TypeOK, RuntimeType, RegistrationType, WorkerType, RegistrationInv
  <2>3. WorkerInv' /\ DirectoryInv'
    BY <2>1, Zenon DEF ServiceInv, WorkerInv, DirectoryInv, Recovering, Bare, HasState
  <2>. QED
    BY <2>2, <2>3 DEF ServiceInv
<1>. QED
  BY <1>1, RegistrationKeepsService, WorkerKeepsService, TeardownKeepsService, OthersKeepService,
     ProcessKeepsService DEF Next

(* A server that never ran satisfies the service invariant. *)
LEMMA ServiceInit ==
  ASSUME Init
  PROVE  ServiceInv
<1>. USE Constants DEF Init
<1>1. now \in StartTime .. MaxTime
  BY TimeConstants
<1>2. RuntimeType
  BY <1>1, Zenon DEF RuntimeType
<1>3. RegistrationType
  BY Zenon DEF RegistrationType, RegistrationInit, RegistrationPcs
<1>4. WorkerType
  BY Zenon DEF WorkerType, WorkerInit, WorkerPcs, Directories, Files, Absent
<1>5. RegistrationInv /\ WorkerInv /\ DirectoryInv
  BY Zenon DEF RegistrationInit, WorkerInit, RegistrationInv, WorkerInv, DirectoryInv, Recovering,
     Bare, InHand, Absent
<1>. QED
  BY <1>2, <1>3, <1>4, <1>5, Zenon DEF ServiceInv, TypeOK
------------------------------------------------------------------------------
(* Once a round has started and is not open, nobody can register for it:   *)
(* New and closeRound only open rounds that have not started.              *)
LEMMA FrozenStays ==
  ASSUME ServiceInv, [Next]_vars, NEW e \in Epochs, Frozen(e)
  PROVE  Frozen(e)' /\ roundDb'[e] = roundDb[e]
<1>. DEFINE Kept == Frozen(e)' /\ roundDb'[e] = roundDb[e]
<1>0. /\ now \in StartTime .. MaxTime /\ now \in Nat
      /\ e \in Nat /\ RoundStart(e) \in Nat
      /\ roundDb \in [Epochs -> Roots]
  BY Constants, StartsInOrder, Zenon DEF ServiceInv, TypeOK, RuntimeType, RegistrationType
<1>1. ASSUME OpenRoundDb(OpenRoundId(now)), UNCHANGED <<now, roundDb>>
      PROVE  Kept
  <2>1. now < RoundStart(OpenRoundId(now)) /\ OpenRoundId(now) \in Nat
    BY <1>0, OpenRoundIsNext
  <2>2. RoundStart(OpenRoundId(now)) \in Nat /\ RoundStart(e) <= now
    BY <1>0, <2>1, StartsInOrder, Zenon DEF Frozen
  <2>3. e # OpenRoundId(now)
    BY <1>0, <2>1, <2>2
  <2>. QED
    BY <1>1, <2>2, <2>3 DEF OpenRoundDb, Frozen
<1>2. ASSUME UNCHANGED <<now, roundDirs, roundDb, openRound>>, dbOpen' => dbOpen
      PROVE  Kept
  BY <1>2 DEF Frozen
<1>3. CASE Start
  BY <1>1, <1>3, Zenon DEF Start, RegistrationNew
<1>4. CASE Exit \/ Crash
  BY <1>2, <1>4, Zenon DEF Exit, Crash, Gone, RegistrationGone, regDisk
<1>5. CASE Interrupt \/ WorkerActs \/ TeardownActs \/ WorkerFails \/ UNCHANGED vars
  <2>1. UNCHANGED <<now, roundDirs, roundDb, openRound, dbOpen>>
    BY <1>5, Zenon DEF Interrupt, WorkerActs, TeardownActs, WorkerFails, vars, regVars, regDisk,
       regMemory
  <2>. QED
    BY <1>2, <2>1
<1>6. CASE Tick
  BY <1>0, <1>6 DEF Tick, regVars, regDisk, regMemory, Frozen
<1>7. CASE SubmitActs
  <2>1. UNCHANGED <<now, roundDirs, openRound, dbOpen>>
    BY <1>7 DEF SubmitActs, Submit, regMemory
  <2>2. /\ dbOpen
        /\ \E m \in Members : roundDb' = [roundDb EXCEPT ![openRound] = @ \cup {m}]
    BY <1>7, Zenon DEF SubmitActs, Submit
  <2>3. e # openRound
    BY <2>2 DEF Frozen
  <2>. QED
    BY <1>0, <2>1, <2>2, <2>3, Zenon DEF Frozen
<1>8. CASE RegistrationActs
  <2>1. CASE OpenNextRound
    BY <1>1, <1>8, <2>1, Zenon DEF RegistrationActs, OpenNextRound
  <2>2. CASE ~OpenNextRound
    <3>1. UNCHANGED <<now, roundDirs, roundDb, openRound>> /\ (dbOpen' => dbOpen)
      BY <1>8, <2>2 DEF RegistrationActs, RegistrationStep, NothingToRecover, RecoverExecution,
         CloseRound, ExecuteClosedRound, TakeProof, SaveProof, RegistrationStops, regDisk
    <3>. QED
      BY <1>2, <3>1
  <2>. QED
    BY <2>1, <2>2, Zenon
<1>9. CASE DatabaseFails
  BY <1>2, <1>9 DEF DatabaseFails, OpenNextRoundFails, SaveProofFails, RecoverExecutionFails,
     regDisk
<1>. QED
  BY <1>3, <1>4, <1>5, <1>6, <1>7, <1>8, <1>9, Zenon DEF Next

(* Where the closed rounds in the channel come from. *)
LEMMA ClosedRoundsOrigin ==
  ASSUME ServiceInv, [Next]_vars, NEW i \in 1 .. Len(closedRounds')
  PROVE  \/ \E j \in 1 .. Len(closedRounds) : closedRounds'[i] = closedRounds[j]
         \/ /\ RegistrationActs /\ RecoverExecution
            /\ closedRounds'[i] = ClosedRound(InProgress, roundDb[InProgress])
         \/ /\ RegistrationActs /\ ExecuteClosedRound
            /\ closedRounds'[i] = ClosedRound(openRound, root)
<1>. DEFINE Old == \E j \in 1 .. Len(closedRounds) : closedRounds'[i] = closedRounds[j]
<1>1. closedRounds \in Seq(ClosedRounds)
  BY DEF ServiceInv, TypeOK, RuntimeType
<1>2. ASSUME UNCHANGED closedRounds PROVE Old
  BY <1>1, <1>2
<1>3. ASSUME ReceiveClosedRound PROVE Old
  BY <1>1, <1>3 DEF ReceiveClosedRound
<1>4. ASSUME closedRounds' = <<>> PROVE Old
  BY <1>4
<1>5. ASSUME NEW msg, ExecuteRoundSends(msg)
      PROVE  Old \/ closedRounds'[i] = msg
  BY <1>1, <1>5 DEF ExecuteRoundSends
<1>6. CASE RegistrationActs
  <2>1. CASE RecoverExecution
    BY <1>2, <1>5, <1>6, <2>1, Zenon DEF RecoverExecution, ExecuteRoundDrops,
       ExecuteRoundCancelled, channels
  <2>2. CASE ExecuteClosedRound
    BY <1>2, <1>5, <1>6, <2>2, Zenon DEF ExecuteClosedRound, ExecuteRoundDrops,
       ExecuteRoundCancelled, channels
  <2>3. CASE ~RecoverExecution /\ ~ExecuteClosedRound
    BY <1>2, <1>6, <2>3, Zenon DEF RegistrationActs, RegistrationStep, NothingToRecover, CloseRound,
       OpenNextRound, TakeProof, ReceiveProof, SaveProof, RegistrationStops, channels
  <2>. QED
    BY <2>1, <2>2, <2>3, Zenon
<1>7. CASE WorkerActs
  <2>1. CASE SkipPastRound \/ TakeRound \/ DisabledTakeRound
    BY <1>3, <2>1, Zenon DEF SkipPastRound, TakeRound, DisabledTakeRound
  <2>2. CASE ~(SkipPastRound \/ TakeRound \/ DisabledTakeRound)
    BY <1>2, <1>7, <2>2, Zenon DEF WorkerActs, WorkerStep, RecoverFinished, RecoverNotStarted,
       RecoverExecuting, RemoveRecovered, RecoverDone, Resume, MakeRoundDir, InitRound,
       StartExecution, ExecutionRefused, WriteFirstLeaf, StopWork, CancelWork, FinishProof,
       PublishProof, PublishEmptyProof, NewProofSends, NewProofCancelled, WorkerStops, channels
  <2>. QED
    BY <2>1, <2>2, Zenon
<1>8. CASE Start \/ Exit \/ Crash
  BY <1>4, <1>8, Zenon DEF Start, Exit, Crash, Gone
<1>9. CASE Interrupt \/ Tick \/ SubmitActs \/ TeardownActs \/ WorkerFails \/ UNCHANGED vars
  BY <1>2, <1>9, Zenon DEF Interrupt, Tick, SubmitActs, Submit, TeardownActs, Teardown, WorkerFails,
     ResumeFails, vars, channels
<1>10. CASE DatabaseFails
  BY <1>2, <1>10, Zenon DEF DatabaseFails, OpenNextRoundFails, SaveProofFails,
     RecoverExecutionFails, channels
<1>. QED
  BY <1>6, <1>7, <1>8, <1>9, <1>10, Zenon DEF Next

(* Where the proofs in the channel come from. *)
LEMMA ProofsOrigin ==
  ASSUME ServiceInv, [Next]_vars, NEW i \in 1 .. Len(proofs')
  PROVE  \/ \E j \in 1 .. Len(proofs) : proofs'[i] = proofs[j]
         \/ WorkerActs /\ PublishProof /\ proofs'[i] = Nip(current)
         \/ /\ WorkerActs /\ PublishEmptyProof
            /\ proofs'[i] = [epoch |-> current, nip |-> 0, statement |-> {}]
<1>. DEFINE Old == \E j \in 1 .. Len(proofs) : proofs'[i] = proofs[j]
<1>1. proofs \in Seq(Nips)
  BY DEF ServiceInv, TypeOK, RuntimeType
<1>2. ASSUME UNCHANGED proofs PROVE Old
  BY <1>1, <1>2
<1>3. ASSUME ReceiveProof PROVE Old
  BY <1>1, <1>3 DEF ReceiveProof
<1>4. ASSUME proofs' = <<>> PROVE Old
  BY <1>4
<1>5. ASSUME NEW nip, NewProofSends(nip)
      PROVE  Old \/ proofs'[i] = nip
  BY <1>1, <1>5 DEF NewProofSends
<1>6. CASE RegistrationActs
  <2>1. CASE TakeProof
    BY <1>3, <2>1, Zenon DEF TakeProof
  <2>2. CASE ~TakeProof
    BY <1>2, <1>6, <2>2, Zenon DEF RegistrationActs, RegistrationStep, NothingToRecover,
       RecoverExecution, CloseRound, ExecuteClosedRound, OpenNextRound, SaveProof,
       RegistrationStops, ExecuteRoundSends, ExecuteRoundDrops, ExecuteRoundCancelled, channels
  <2>. QED
    BY <2>1, <2>2, Zenon
<1>7. CASE WorkerActs
  <2>1. CASE PublishProof
    BY <1>2, <1>5, <1>7, <2>1, Zenon DEF PublishProof, NewProofCancelled, channels
  <2>2. CASE PublishEmptyProof
    BY <1>2, <1>5, <1>7, <2>2, Zenon DEF PublishEmptyProof, NewProofCancelled, channels
  <2>3. CASE ~PublishProof /\ ~PublishEmptyProof
    BY <1>2, <1>7, <2>3, Zenon DEF WorkerActs, WorkerStep, RecoverFinished, RecoverNotStarted,
       RecoverExecuting, RemoveRecovered, RecoverDone, Resume, SkipPastRound, TakeRound,
       DisabledTakeRound, ReceiveClosedRound, MakeRoundDir, InitRound, StartExecution,
       ExecutionRefused, WriteFirstLeaf, StopWork, CancelWork, FinishProof, WorkerStops, channels
  <2>. QED
    BY <2>1, <2>2, <2>3, Zenon
<1>8. CASE Start \/ Exit \/ Crash
  BY <1>4, <1>8, Zenon DEF Start, Exit, Crash, Gone
<1>9. CASE Interrupt \/ Tick \/ SubmitActs \/ TeardownActs \/ WorkerFails \/ UNCHANGED vars
  BY <1>2, <1>9, Zenon DEF Interrupt, Tick, SubmitActs, Submit, TeardownActs, Teardown, WorkerFails,
     ResumeFails, vars, channels
<1>10. CASE DatabaseFails
  BY <1>2, <1>10, Zenon DEF DatabaseFails, OpenNextRoundFails, SaveProofFails,
     RecoverExecutionFails, channels
<1>. QED
  BY <1>6, <1>7, <1>8, <1>9, <1>10, Zenon DEF Next
------------------------------------------------------------------------------
(* Rounds, their executions and their proofs *)

(* The directory holds an execution that is not finished; there is one.    *)
Running(e) == rounds[e].file \in {"started", "tree"}
Present(e) == rounds[e].file # "absent"

(* What the registration service and the runtime do leaves the worker alone. *)
WorkerIdle ==
  UNCHANGED <<rounds, wkPc, caller, current, wkRoot, entries, executing, teardowns, disabled>>

(* Submits, registration steps, interrupts and the clock leave the worker alone. *)
LEMMA OthersLeaveTheWorker ==
  ASSUME Interrupt \/ Tick \/ SubmitActs \/ RegistrationActs \/ DatabaseFails \/ UNCHANGED vars
  PROVE  WorkerIdle
  BY DEF WorkerIdle, Interrupt, Tick, SubmitActs, RegistrationActs, DatabaseFails, vars, wkVars,
     hand, recovery

(* Only a start reads whether the worker is disabled. *)
LEMMA DisabledStays ==
  ASSUME [Next]_vars, ~Start
  PROVE  disabled' = disabled
<1>1. CASE WorkerActs
  BY <1>1 DEF WorkerActs, WorkerStep, RecoverFinished, RecoverNotStarted, RecoverExecuting,
     RemoveRecovered, RecoverDone, Resume, SkipPastRound, TakeRound, DisabledTakeRound,
     MakeRoundDir, InitRound, StartExecution, ExecutionRefused, WriteFirstLeaf, StopWork,
     CancelWork, FinishProof, PublishProof, PublishEmptyProof, WorkerStops, wkVars
<1>2. CASE Exit \/ Crash \/ WorkerFails \/ TeardownActs
  BY <1>2 DEF Exit, Crash, Gone, WorkerGone, WorkerFails, ResumeFails,
     TeardownActs, Teardown
<1>3. CASE Interrupt \/ Tick \/ SubmitActs \/ RegistrationActs \/ DatabaseFails \/ UNCHANGED vars
  BY <1>3, OthersLeaveTheWorker DEF WorkerIdle
<1>. QED
  BY <1>1, <1>2, <1>3 DEF Next

(* What a step does to a round's directory, phase by phase.                *)
Removed(e) ==
  /\ rounds[e].file # "absent"
  /\ rounds'[e].file \in {"absent", "empty"}
  /\ rounds'[e].statement = None

(* The steps that change a directory, and what each of them makes of it. *)
LEMMA DirectoryChange ==
  ASSUME ServiceInv, [Next]_vars, NEW e \in Epochs
  PROVE  \/ rounds'[e] = rounds[e]
         \/ /\ WorkerActs /\ RecoverNotStarted(e)
            /\ rounds[e].file \in {"empty", "created"} /\ rounds'[e].file = "created"
            /\ rounds'[e].statement = rounds[e].statement
         \/ WorkerActs /\ RemoveRecovered /\ e = current /\ Removed(e)
         \/ TeardownActs /\ e \in teardowns /\ Removed(e)
         \/ /\ WorkerActs /\ MakeRoundDir /\ e = current
            /\ rounds[e].file = "absent" /\ rounds'[e].file = "empty"
            /\ rounds'[e].statement = rounds[e].statement
         \/ /\ WorkerActs /\ InitRound /\ e = current
            /\ rounds[e].file = "empty"
            /\ rounds'[e].file = "created" /\ rounds'[e].statement = wkRoot
         \/ /\ WorkerActs /\ StartExecution /\ e = current
            /\ ~HasLayers(e) /\ HasState(e) /\ rounds'[e].file = "started"
            /\ rounds'[e].statement = rounds[e].statement
         \/ /\ WorkerActs /\ WriteFirstLeaf /\ e = current
            /\ rounds[e].file = "started" /\ rounds'[e].file = "tree"
            /\ rounds'[e].statement = rounds[e].statement
         \/ /\ WorkerActs /\ FinishProof /\ e = current
            /\ rounds[e].file = "tree" /\ rounds'[e].file = "finished"
            /\ rounds'[e].statement = rounds[e].statement
<1>. USE DEF ServiceInv, TypeOK
<1>1. CASE WorkerActs
  <2>. USE DEF WorkerInv, InHand
  <2>1. ASSUME NEW d \in Epochs, RecoverNotStarted(d)
        PROVE  \/ rounds'[e] = rounds[e]
               \/ d = e /\ rounds'[e].file = "created" /\ rounds'[e].statement = rounds[e].statement
    BY <2>1, SetFileEffect DEF RecoverNotStarted, Files
  <2>2. CASE RemoveRecovered
    BY <1>1, <2>2, RemoveEffect DEF RemoveRecovered, Removed
  <2>3. CASE MakeRoundDir
    BY <1>1, <2>3, SetFileEffect DEF MakeRoundDir, Files
  <2>4. CASE InitRound
    <3>1. CASE rounds[current].file = "empty"
      <4>1. /\ current \in Epochs
            /\ rounds'[current] = [file |-> "created", statement |-> wkRoot, nip |-> None]
            /\ \A d \in Epochs \ {current} : rounds'[d] = rounds[d]
        BY <2>4, <3>1 DEF InitRound, WorkerType
      <4>. QED
        BY <1>1, <2>4, <3>1, <4>1
    <3>2. CASE rounds[current].file # "empty"
      BY <2>4, <3>2 DEF InitRound
    <3>. QED
      BY <3>1, <3>2, Zenon
  <2>5. CASE StartExecution
    BY <1>1, <2>5, SetFileEffect DEF StartExecution, Files
  <2>6. CASE WriteFirstLeaf
    <3>1. current \in Epochs /\ rounds[current].file = "started" /\ SetFile(current, "tree")
      BY <2>6 DEF WriteFirstLeaf
    <3>. QED
      BY <1>1, <2>6, <3>1, SetFileEffect, Zenon DEF Files
  <2>7. CASE FinishProof
    BY <1>1, <2>7, FinishEffect DEF FinishProof
  <2>8. CASE /\ ~RemoveRecovered /\ ~MakeRoundDir /\ ~InitRound /\ ~StartExecution /\ ~WriteFirstLeaf
             /\ ~FinishProof /\ ~(\E d \in Epochs : RecoverNotStarted(d))
    BY <1>1, <2>8, Zenon DEF WorkerActs, WorkerStep, RecoverFinished, RecoverExecuting, RecoverDone,
       Resume, SkipPastRound, TakeRound, DisabledTakeRound, ExecutionRefused, StopWork, CancelWork,
       PublishProof, PublishEmptyProof, WorkerStops, wkVars
  <2>9. ASSUME RecoverNotStarted(e) PROVE rounds[e].file \in {"empty", "created"}
    BY <2>9 DEF RecoverNotStarted
  <2>. QED
    BY <1>1, <2>1, <2>2, <2>3, <2>4, <2>5, <2>6, <2>7, <2>8, <2>9, Zenon
<1>2. CASE TeardownActs
  <2>. PICK d \in Epochs : Teardown(d)
    BY <1>2 DEF TeardownActs
  <2>1. d \in teardowns /\ rounds[d].file # "absent" /\ (RemoveFiles(d) \/ RemoveDir(d))
    BY DEF Teardown, WorkerInv
  <2>. QED
    BY <1>2, <2>1, RemoveEffect DEF Removed
<1>3. CASE Start \/ Exit \/ Crash \/ WorkerFails
  BY <1>3, Zenon DEF Start, Exit, Crash, Gone, WorkerRun, WorkerGone, WorkerFails, ResumeFails
<1>4. CASE Interrupt \/ Tick \/ SubmitActs \/ RegistrationActs \/ DatabaseFails \/ UNCHANGED vars
  BY <1>4, OthersLeaveTheWorker, Zenon DEF WorkerIdle
<1>. QED
  BY <1>1, <1>2, <1>3, <1>4, Zenon DEF Next

(* In short: only MakeRoundDir makes a directory, only InitRound writes a  *)
(* statement.                                                              *)
LEMMA DirectoryOrigin ==
  ASSUME ServiceInv, [Next]_vars, NEW e \in Epochs
  PROVE  /\ \/ rounds'[e].file # "absent" => rounds[e].file # "absent"
            \/ MakeRoundDir /\ WorkerActs /\ e = current
         /\ \/ rounds'[e].statement \in {rounds[e].statement, None}
            \/ InitRound /\ WorkerActs /\ e = current /\ rounds'[e].statement = wkRoot
  BY DirectoryChange DEF Removed, HasState

(* Only Execute makes an execution out of a round that was none.           *)
LEMMA RunningOrigin ==
  ASSUME ServiceInv, [Next]_vars, NEW e \in Epochs
  PROVE  /\ Running(e)' => Running(e) \/ (WorkerActs /\ StartExecution /\ e = current)
         /\ Running(e) => \/ Running(e)'
                          \/ WorkerActs /\ FinishProof /\ e = current
                          \/ WorkerActs /\ RemoveRecovered /\ e = current
                          \/ TeardownActs /\ e \in teardowns
  BY DirectoryChange DEF Running, Removed

(* How the worker gets a round to work on: from the channel, or from       *)
(* recover.                                                                *)
AtWork == {"mkdir", "init", "start", "plant", "work", "prove", "resume"}

(* The worker has a round at work because run took it, or recover found it. *)
LEMMA WorkOrigin ==
  ASSUME ServiceInv, [Next]_vars, wkPc' \in AtWork
  PROVE  \/ wkPc \in AtWork /\ current' = current /\ wkRoot' = wkRoot /\ caller' = caller
         \/ WorkerActs /\ TakeRound
         \/ WorkerActs /\ RecoverDone /\ executing # None /\ current' = executing
<1>. USE DEF GoTo, AtWork
<1>1. CASE WorkerActs
  BY <1>1 DEF WorkerActs, WorkerStep, RecoverFinished, RecoverNotStarted, RecoverExecuting,
     RemoveRecovered, RecoverDone, Resume, SkipPastRound, TakeRound, DisabledTakeRound,
     MakeRoundDir, InitRound, StartExecution, ExecutionRefused, WriteFirstLeaf, StopWork,
     CancelWork, FinishProof, PublishProof, PublishEmptyProof, WorkerStops, wkVars, hand
<1>2. CASE TeardownActs
  BY <1>2 DEF TeardownActs, Teardown, hand
<1>3. CASE Start \/ Exit \/ Crash \/ WorkerFails
  BY <1>3 DEF Start, Exit, Crash, Gone, WorkerRun, WorkerGone, WorkerFails, ResumeFails
<1>4. CASE Interrupt \/ Tick \/ SubmitActs \/ RegistrationActs \/ DatabaseFails \/ UNCHANGED vars
  BY <1>4, OthersLeaveTheWorker DEF WorkerIdle
<1>. QED
  BY <1>1, <1>2, <1>3, <1>4 DEF Next

(* Faults are never forgotten, and time goes on. *)
LEMMA FaultsGrow ==
  ASSUME ServiceInv, [Next]_vars
  PROVE  /\ interrupts' = 0 => interrupts = 0
         /\ failures' = 0 => failures = 0
  BY DEF ServiceInv, TypeOK, Next, Start, Interrupt, Exit, Crash, Tick, SubmitActs,
     RegistrationActs, WorkerActs, TeardownActs, WorkerFails, DatabaseFails, vars, procVars,
     faultVars

(* Without a switch the worker stays disabled or not over all starts. *)
LEMMA NoSwitch ==
  ASSUME ServiceInv, [Next]_vars, switches' = 0
  PROVE  switches = 0 /\ disabled' = disabled
<1>1. CASE Start
  BY <1>1 DEF Start, ServiceInv, TypeOK
<1>2. CASE ~Start
  <2>1. switches' = switches
    BY <1>2, Zenon DEF Next, Interrupt, Exit, Crash, Tick, SubmitActs, RegistrationActs,
       WorkerActs, TeardownActs, WorkerFails, DatabaseFails, vars, procVars
  <2>. QED
    BY <1>2, <2>1, DisabledStays
<1>. QED
  BY <1>1, <1>2

(* A round that is over stays over. *)
LEMMA ClockRuns ==
  ASSUME ServiceInv, ServiceInv', [Next]_vars, NEW e \in Epochs, RoundEnd(e) < now
  PROVE  RoundEnd(e) < now'
<1>1. now \in Nat /\ now' \in Nat /\ e \in Nat
  BY Constants, Zenon DEF ServiceInv, TypeOK, RuntimeType
<1>. RoundEnd(e) \in Int
  BY <1>1, StartsInOrder
<1>2. now' = now \/ now' = now + 1
  BY DEF Next, Start, Interrupt, Exit, Crash, Tick, SubmitActs, RegistrationActs, WorkerActs,
     TeardownActs, WorkerFails, DatabaseFails, vars
<1>. QED
  BY <1>1, <1>2

(* What a step does to the proof database. *)
LEMMA ProofDbOrigin ==
  ASSUME ServiceInv, [Next]_vars, NEW e \in Epochs
  PROVE  \/ proofDb'[e] = proofDb[e]
         \/ /\ RegistrationActs /\ SaveProof
            /\ e = newNip.epoch
            /\ proofDb'[e] = [nip |-> newNip.nip, statement |-> newNip.statement, members |-> roundDb[e]]
<1>1. CASE RegistrationActs /\ SaveProof
  BY <1>1 DEF ServiceInv, TypeOK, RegistrationType, SaveProof, StoreProof
<1>2. CASE RegistrationActs /\ ~SaveProof
  BY <1>2, Zenon DEF RegistrationActs, RegistrationStep, NothingToRecover, RecoverExecution,
     CloseRound, ExecuteClosedRound, OpenNextRound, TakeProof, RegistrationStops, regDisk
<1>3. CASE Start \/ Exit \/ Crash
  BY <1>3, Zenon DEF Start, Exit, Crash, Gone, RegistrationNew, RegistrationGone, regDisk
<1>4. CASE Interrupt \/ Tick \/ WorkerActs \/ TeardownActs \/ WorkerFails \/ UNCHANGED vars
  BY <1>4, Zenon DEF Interrupt, Tick, WorkerActs, TeardownActs, WorkerFails, vars, regVars, regDisk
<1>5. CASE SubmitActs \/ DatabaseFails
  BY <1>5 DEF SubmitActs, Submit, DatabaseFails, OpenNextRoundFails, SaveProofFails,
     RecoverExecutionFails, regDisk
<1>. QED
  BY <1>1, <1>2, <1>3, <1>4, <1>5 DEF Next

(* How the registration service gets into closeRound and onNewProof. *)
LEMMA RegistrationPcOrigin ==
  ASSUME ServiceInv, [Next]_vars
  PROVE  /\ regPc' \in {"execute", "create"} =>
              \/ RegistrationActs /\ CloseRound
              \/ regPc \in {"execute", "create"} /\ UNCHANGED openRound
         /\ regPc' = "save" =>
              \/ RegistrationActs /\ TakeProof
              \/ regPc = "save" /\ UNCHANGED newNip
<1>1. CASE RegistrationActs
  BY <1>1, Zenon DEF RegistrationActs, RegistrationStep, NothingToRecover, RecoverExecution,
     CloseRound, ExecuteClosedRound, OpenNextRound, TakeProof, SaveProof, RegistrationStops
<1>2. CASE Start \/ Exit \/ Crash
  BY <1>2 DEF Start, Exit, Crash, Gone, RegistrationNew, RegistrationGone
<1>3. CASE Interrupt \/ Tick \/ WorkerActs \/ TeardownActs \/ WorkerFails \/ UNCHANGED vars
  BY <1>3 DEF Interrupt, Tick, WorkerActs, TeardownActs, WorkerFails, vars, regVars, regMemory
<1>4. CASE SubmitActs \/ DatabaseFails
  BY <1>4 DEF SubmitActs, Submit, DatabaseFails, OpenNextRoundFails, SaveProofFails,
     RecoverExecutionFails, regMemory
<1>. QED
  BY <1>1, <1>2, <1>3, <1>4 DEF Next

(* How the worker gets hold of a closed round. *)
LEMMA WorkerPcOrigin ==
  ASSUME ServiceInv, [Next]_vars, wkPc' \in {"mkdir", "init", "announce"}
  PROVE  \/ WorkerActs /\ TakeRound
         \/ WorkerActs /\ DisabledTakeRound
         \/ WorkerActs /\ MakeRoundDir
         \/ UNCHANGED <<wkPc, current, wkRoot>>
<1>. USE DEF GoTo
<1>1. CASE WorkerActs
  BY <1>1, ZenonT(40) DEF WorkerActs, WorkerStep, RecoverFinished, RecoverNotStarted, RecoverExecuting,
     RemoveRecovered, RecoverDone, Resume, SkipPastRound, TakeRound, DisabledTakeRound,
     MakeRoundDir, InitRound, StartExecution, ExecutionRefused, WriteFirstLeaf, StopWork,
     CancelWork, FinishProof, PublishProof, PublishEmptyProof, WorkerStops, wkVars, hand
<1>2. CASE TeardownActs
  BY <1>2, Zenon DEF TeardownActs, Teardown, hand
<1>3. CASE Start \/ Exit \/ Crash \/ WorkerFails
  BY <1>3, Zenon DEF Start, Exit, Crash, Gone, WorkerRun, WorkerGone, WorkerFails, ResumeFails
<1>4. CASE Interrupt \/ Tick \/ SubmitActs \/ RegistrationActs \/ DatabaseFails \/ UNCHANGED vars
  BY <1>4 DEF Interrupt, Tick, SubmitActs, RegistrationActs, DatabaseFails, vars, wkVars, hand
<1>. QED
  BY <1>1, <1>2, <1>3, <1>4 DEF Next
------------------------------------------------------------------------------
(* A round that was handed out stays frozen along its whole way, one step  *)
(* per conjunct of FrozenInv.                                              *)
LEMMA FrozenStep ==
  ASSUME ServiceInv, FrozenInv, [Next]_vars
  PROVE  FrozenInv'
<1>. DEFINE FrozenNext(e) == e \in roundDirs' /\ RoundStart(e) <= now' /\ ~(dbOpen' /\ openRound' = e)
<1>0. ASSUME NEW e \in Epochs, Frozen(e) PROVE FrozenNext(e)
  BY <1>0, FrozenStays DEF Frozen, FrozenNext
<1>. HIDE DEF FrozenNext
<1>1. RegistrationType /\ RuntimeType /\ RegistrationInv /\ WorkerInv /\ DirectoryInv
  BY DEF ServiceInv, TypeOK
<1>3. regPc' \in {"execute", "create"} => FrozenNext(openRound')
  <2>. SUFFICES ASSUME regPc' \in {"execute", "create"} PROVE FrozenNext(openRound')
    OBVIOUS
  <2>1. CASE RegistrationActs /\ CloseRound
    BY <1>1, <2>1 DEF RegistrationActs, RegistrationInv, CloseRound, RoundDue, FrozenNext, regDisk
  <2>2. CASE regPc \in {"execute", "create"} /\ UNCHANGED openRound
    <3>1. openRound \in Epochs /\ Frozen(openRound)
      BY <1>1, <2>2 DEF RegistrationInv, FrozenInv
    <3>. QED
      BY <2>2, <3>1, <1>0
  <2>. QED
    BY <2>1, <2>2, RegistrationPcOrigin
<1>4. ASSUME NEW i \in 1 .. Len(closedRounds')
      PROVE  FrozenNext(closedRounds'[i].epoch)
  <2>1. CASE \E j \in 1 .. Len(closedRounds) : closedRounds'[i] = closedRounds[j]
    <3>. PICK j \in 1 .. Len(closedRounds) : closedRounds'[i] = closedRounds[j]
      BY <2>1, Zenon
    <3>1. closedRounds[j].epoch \in Epochs
      <4>1. closedRounds[j] \in ClosedRounds
        BY <1>1 DEF RuntimeType
      <4>. QED
        BY <4>1, Zenon DEF ClosedRounds
    <3>2. Frozen(closedRounds[j].epoch)
      BY DEF FrozenInv
    <3>. QED
      BY <3>1, <3>2, <1>0
  <2>2. CASE /\ RegistrationActs /\ RecoverExecution
             /\ closedRounds'[i] = ClosedRound(InProgress, roundDb[InProgress])
    <3>1. /\ InProgress \in Epochs /\ InProgress \in roundDirs
          /\ openRound \in Epochs /\ RoundStart(openRound - 1) <= now
      BY <1>1, <2>2, EpochsAreNat DEF RecoverExecution, RegistrationType, RegistrationInv,
         InProgress
    <3>2. Frozen(InProgress)
      BY <3>1, EpochsAreNat DEF Frozen, InProgress
    <3>3. closedRounds'[i].epoch = InProgress
      BY <2>2 DEF ClosedRound
    <3>. QED
      BY <3>1, <3>2, <3>3, <1>0
  <2>3. CASE RegistrationActs /\ ExecuteClosedRound /\ closedRounds'[i] = ClosedRound(openRound, root)
    <3>1. openRound \in Epochs /\ Frozen(openRound)
      BY <1>1, <2>3, Zenon DEF ExecuteClosedRound, RegistrationInv, FrozenInv
    <3>2. closedRounds'[i].epoch = openRound
      BY <2>3 DEF ClosedRound
    <3>. QED
      BY <3>1, <3>2, <1>0
  <2>. QED
    BY <2>1, <2>2, <2>3, ClosedRoundsOrigin, Zenon
<1>5. wkPc' \in {"mkdir", "announce"} => FrozenNext(current')
  <2>. SUFFICES ASSUME wkPc' \in {"mkdir", "announce"} PROVE FrozenNext(current')
    OBVIOUS
  <2>1. CASE WorkerActs /\ (TakeRound \/ DisabledTakeRound)
    <3>1. /\ current' = closedRounds[1].epoch
          /\ 1 \in 1 .. Len(closedRounds)
      BY <1>1, <2>1 DEF RuntimeType, TakeRound, DisabledTakeRound
    <3>2. closedRounds[1].epoch \in Epochs
      <4>1. closedRounds[1] \in ClosedRounds
        BY <1>1, <3>1 DEF RuntimeType
      <4>. QED
        BY <4>1 DEF ClosedRounds
    <3>3. Frozen(closedRounds[1].epoch)
      BY <3>1 DEF FrozenInv
    <3>. QED
      BY <3>1, <3>2, <3>3, <1>0
  <2>2. CASE UNCHANGED <<wkPc, current>>
    <3>1. current \in Epochs /\ Frozen(current)
      BY <1>1, <2>2, Zenon DEF WorkerInv, InHand, FrozenInv
    <3>. QED
      BY <2>2, <3>1, <1>0
  <2>3. ~MakeRoundDir
    BY DEF MakeRoundDir, GoTo
  <2>. QED
    BY <2>1, <2>2, <2>3, WorkerPcOrigin
<1>6. ASSUME NEW e \in Epochs, rounds'[e].file # "absent"
      PROVE  FrozenNext(e)
  <2>1. CASE rounds[e].file # "absent"
    BY <2>1, <1>0 DEF FrozenInv
  <2>2. CASE MakeRoundDir /\ e = current
    BY <2>2, <1>0, <1>1, Zenon DEF WorkerInv, InHand, MakeRoundDir, FrozenInv
  <2>. QED
    BY <1>6, <2>1, <2>2, DirectoryOrigin, Zenon
<1>7. ASSUME NEW i \in 1 .. Len(proofs')
      PROVE  FrozenNext(proofs'[i].epoch)
  <2>1. CASE \E j \in 1 .. Len(proofs) : proofs'[i] = proofs[j]
    <3>. PICK j \in 1 .. Len(proofs) : proofs'[i] = proofs[j]
      BY <2>1
    <3>1. proofs[j].epoch \in Epochs
      <4>1. proofs[j] \in Nips
        BY <1>1 DEF RuntimeType
      <4>. QED
        BY <4>1 DEF Nips
    <3>2. Frozen(proofs[j].epoch)
      BY DEF FrozenInv
    <3>. QED
      BY <3>1, <3>2, <1>0
  <2>2. CASE PublishProof /\ proofs'[i] = Nip(current)
    <3>1. current \in Epochs /\ rounds[current].file = "finished"
      BY <1>1, <2>2, Zenon DEF PublishProof, WorkerInv, InHand
    <3>2. Frozen(current) /\ proofs'[i].epoch = current
      BY <2>2, <3>1 DEF FrozenInv, Nip
    <3>. QED
      BY <3>1, <3>2, <1>0
  <2>3. CASE PublishEmptyProof /\ proofs'[i] = [epoch |-> current, nip |-> 0, statement |-> {}]
    <3>1. current \in Epochs /\ Frozen(current) /\ proofs'[i].epoch = current
      BY <1>1, <2>3 DEF PublishEmptyProof, WorkerInv, InHand, FrozenInv
    <3>. QED
      BY <3>1, <1>0
  <2>. QED
    BY <2>1, <2>2, <2>3, ProofsOrigin, Zenon
<1>8. regPc' = "save" => FrozenNext(newNip'.epoch)
  <2>. SUFFICES ASSUME regPc' = "save" PROVE FrozenNext(newNip'.epoch)
    OBVIOUS
  <2>1. CASE TakeProof
    <3>1. newNip' = proofs[1] /\ 1 \in 1 .. Len(proofs)
      BY <1>1, <2>1 DEF RuntimeType, TakeProof, ReceiveProof
    <3>2. proofs[1].epoch \in Epochs
      <4>1. proofs[1] \in Nips
        BY <1>1, <3>1 DEF RuntimeType
      <4>. QED
        BY <4>1 DEF Nips
    <3>3. Frozen(proofs[1].epoch)
      BY <3>1 DEF FrozenInv
    <3>. QED
      BY <3>1, <3>2, <3>3, <1>0
  <2>2. CASE regPc = "save" /\ UNCHANGED newNip
    <3>1. newNip.epoch \in Epochs /\ Frozen(newNip.epoch)
      BY <1>1, <2>2, Zenon DEF RegistrationInv, Nips, FrozenInv
    <3>. QED
      BY <2>2, <3>1, <1>0
  <2>. QED
    BY <2>1, <2>2, RegistrationPcOrigin
<1>9. ASSUME NEW e \in Epochs, proofDb'[e] # None
      PROVE  FrozenNext(e)
  <2>1. CASE proofDb'[e] = proofDb[e]
    BY <1>9, <2>1, <1>0, Zenon DEF FrozenInv
  <2>2. CASE SaveProof /\ e = newNip.epoch
    BY <2>2, <1>0, Zenon DEF SaveProof, FrozenInv
  <2>. QED
    BY <2>1, <2>2, ProofDbOrigin, Zenon
<1>. QED
  BY <1>3, <1>4, <1>5, <1>6, <1>7, <1>8, <1>9, Zenon DEF FrozenInv, Frozen, FrozenNext

(* Initially no round is closed. *)
LEMMA FrozenInit == Init => FrozenInv
BY DEF Init, RegistrationInit, WorkerInit, Absent, FrozenInv

(* Faults are never forgotten, and without one the context is cancelled    *)
(* only by the worker, which stops then.                                   *)
LEMMA UndisturbedStep ==
  ASSUME ServiceInv, [Next]_vars, Undisturbed'
  PROVE  /\ Undisturbed
         /\ ctxDone' => ctxDone \/ wkPc' = "stopped"
         /\ ~ctxDone' => \/ ~ctxDone
                         \/ closedRounds' = <<>> /\ (regPc' = "off" \/ Start)
<1>1. interrupts \in Nat /\ failures \in Nat
  BY DEF ServiceInv, TypeOK
<1>2. CASE Start \/ Exit \/ Crash
  BY <1>2 DEF Undisturbed, Start, Exit, Crash, Gone, RegistrationGone, faultVars
<1>3. CASE Interrupt \/ DatabaseFails
  BY <1>1, <1>3 DEF Undisturbed, Interrupt, DatabaseFails
<1>4. CASE Tick \/ SubmitActs \/ RegistrationActs \/ WorkerActs \/ TeardownActs \/ UNCHANGED vars
  BY <1>4 DEF Undisturbed, Tick, SubmitActs, RegistrationActs, WorkerActs, TeardownActs, vars,
     procVars, faultVars
<1>5. CASE WorkerFails
  BY <1>5, Zenon DEF Undisturbed, WorkerFails, ResumeFails, GoTo, procVars, faultVars
<1>. QED
  BY <1>2, <1>3, <1>4, <1>5 DEF Next

(* A worker that has stopped stays so for as long as the process lives. *)
LEMMA StoppedStays ==
  ASSUME ServiceInv, [Next]_vars, ctxDone, ctxDone', wkPc = "stopped"
  PROVE  wkPc' = "stopped"
<1>1. CASE WorkerActs
  BY <1>1, Zenon DEF WorkerActs, WorkerStep, RecoverFinished, RecoverNotStarted, RecoverExecuting,
     RemoveRecovered, RecoverDone, Resume, SkipPastRound, TakeRound, DisabledTakeRound,
     MakeRoundDir, InitRound, StartExecution, ExecutionRefused, WriteFirstLeaf, StopWork,
     CancelWork, FinishProof, PublishProof, PublishEmptyProof, WorkerStops
<1>2. CASE Start \/ Exit \/ Crash \/ WorkerFails
  BY <1>2, Zenon DEF Start, Exit, Crash, Gone, WorkerFails, ResumeFails
<1>3. CASE Interrupt \/ Tick \/ SubmitActs \/ RegistrationActs \/ DatabaseFails \/ UNCHANGED vars
  BY <1>3, Zenon DEF Interrupt, Tick, SubmitActs, RegistrationActs, DatabaseFails, vars, wkVars
<1>4. CASE TeardownActs
  BY <1>4 DEF TeardownActs, Teardown
<1>. QED
  BY <1>1, <1>2, <1>3, <1>4 DEF Next

(* While nothing fails closeRound hands out the root it computed, and every *)
(* other state of Run finds the open round's database open.                *)
LEMMA OpenRoundOrigin ==
  ASSUME ServiceInv, HandoverInv, [Next]_vars, Undisturbed', ~ctxDone'
  PROVE  /\ regPc' \in {"start", "loop", "save"} => dbOpen'
         /\ regPc' = "execute" =>
              \/ RegistrationActs /\ CloseRound /\ dbOpen
              \/ regPc = "execute" /\ UNCHANGED <<openRound, root>>
<1>1. CASE ctxDone
  <2>1. Undisturbed /\ (regPc' = "off" \/ Start)
    BY <1>1, UndisturbedStep
  <2>. QED
    BY <2>1 DEF Start, RegistrationNew, OpenRoundDb
<1>2. CASE ~ctxDone
  <2>1. regPc \in {"start", "loop", "save"} => dbOpen
    BY <1>2, UndisturbedStep, Zenon DEF HandoverInv
  <2>2. CASE RegistrationActs
    BY <1>2, <2>1, <2>2, Zenon DEF RegistrationActs, RegistrationStep, NothingToRecover,
       RecoverExecution, ExecuteRoundCancelled, CloseRound, ExecuteClosedRound, OpenNextRound,
       OpenRoundDb, TakeProof, SaveProof, RegistrationStops
  <2>3. CASE Start \/ Exit \/ Crash
    BY <2>3, Zenon DEF Start, Exit, Crash, Gone, RegistrationNew, OpenRoundDb, RegistrationGone
  <2>4. CASE Tick \/ WorkerActs \/ TeardownActs \/ WorkerFails \/ UNCHANGED vars
    BY <2>1, <2>4 DEF Tick, WorkerActs, TeardownActs, WorkerFails, vars, regVars, regMemory
  <2>5. CASE SubmitActs
    BY <2>1, <2>5 DEF SubmitActs, Submit, regMemory
  <2>6. ~Interrupt /\ ~DatabaseFails
    BY DEF ServiceInv, TypeOK, Undisturbed, Interrupt, DatabaseFails
  <2>. QED
    BY <2>2, <2>3, <2>4, <2>5, <2>6 DEF Next
<1>. QED
  BY <1>1, <1>2

(* Every membership root stays that of its round, one step per conjunct of *)
(* HandoverInv: the root travels unchanged, and the members of a frozen    *)
(* round do not change.                                                    *)
LEMMA HandoverStep ==
  ASSUME ServiceInv, FrozenInv, HandoverInv, [Next]_vars, Undisturbed'
  PROVE  /\ ctxDone' => wkPc' = "stopped"
         /\ ~ctxDone' /\ regPc' \in {"start", "loop", "save"} => dbOpen'
         /\ ~ctxDone' /\ regPc' = "execute" => root' = roundDb'[openRound']
         /\ ~ctxDone' => \A i \in 1 .. Len(closedRounds') :
              closedRounds'[i].membershipRoot = roundDb'[closedRounds'[i].epoch]
         /\ wkPc' \in {"mkdir", "init"} => wkRoot' = roundDb'[current']
         /\ \A e \in Epochs :
              rounds'[e].statement # None => rounds'[e].statement = roundDb'[e]
         /\ \A i \in 1 .. Len(proofs') :
              proofs'[i].nip # 0 => proofs'[i].statement = roundDb'[proofs'[i].epoch]
         /\ regPc' = "save" /\ newNip'.nip # 0 => newNip'.statement = roundDb'[newNip'.epoch]
         /\ EveryProofCoversMembers'
<1>1. RegistrationType /\ RuntimeType /\ WorkerType /\ RegistrationInv /\ WorkerInv /\ DirectoryInv
  BY DEF ServiceInv, TypeOK
<1>2. Undisturbed
  BY UndisturbedStep
<1>3. ASSUME NEW e \in Epochs, Frozen(e) PROVE roundDb'[e] = roundDb[e]
  BY <1>3, FrozenStays
<1>4. ASSUME NEW e \in Epochs, rounds[e].statement # None
      PROVE  roundDb'[e] = roundDb[e] /\ rounds[e].statement = roundDb[e]
  <2>1. rounds[e].file # "absent"
    BY <1>1, <1>4 DEF DirectoryInv
  <2>. QED
    BY <1>2, <1>3, <1>4, <2>1, Zenon DEF FrozenInv, HandoverInv
<1>5. ctxDone' => wkPc' = "stopped"
  BY <1>2, UndisturbedStep, StoppedStays, Zenon DEF HandoverInv
<1>6. ~ctxDone' /\ regPc' \in {"start", "loop", "save"} => dbOpen'
  BY OpenRoundOrigin
<1>7. ~ctxDone' /\ regPc' = "execute" => root' = roundDb'[openRound']
  <2>. SUFFICES ASSUME ~ctxDone', regPc' = "execute" PROVE root' = roundDb'[openRound']
    OBVIOUS
  <2>1. CASE RegistrationActs /\ CloseRound /\ dbOpen
    BY <2>1 DEF CloseRound, regDisk
  <2>2. CASE regPc = "execute" /\ UNCHANGED <<openRound, root>>
    <3>1. ~ctxDone
      BY <2>2, UndisturbedStep DEF Start, RegistrationNew
    <3>2. openRound \in Epochs /\ Frozen(openRound) /\ root = roundDb[openRound]
      BY <1>1, <1>2, <2>2, <3>1, Zenon DEF RegistrationInv, FrozenInv, HandoverInv
    <3>. QED
      BY <1>3, <2>2, <3>2
  <2>. QED
    BY <2>1, <2>2, OpenRoundOrigin
<1>8. ASSUME ~ctxDone', NEW i \in 1 .. Len(closedRounds')
      PROVE  closedRounds'[i].membershipRoot = roundDb'[closedRounds'[i].epoch]
  <2>1. ~ctxDone
    BY <1>8, UndisturbedStep
  <2>2. CASE \E j \in 1 .. Len(closedRounds) : closedRounds'[i] = closedRounds[j]
    <3>. PICK j \in 1 .. Len(closedRounds) : closedRounds'[i] = closedRounds[j]
      BY <2>2, Zenon
    <3>1. closedRounds[j].epoch \in Epochs
      <4>1. closedRounds[j] \in ClosedRounds
        BY <1>1 DEF RuntimeType
      <4>. QED
        BY <4>1 DEF ClosedRounds
    <3>2. Frozen(closedRounds[j].epoch) /\ closedRounds[j].membershipRoot = roundDb[closedRounds[j].epoch]
      BY <1>2, <2>1, Zenon DEF FrozenInv, HandoverInv
    <3>. QED
      BY <1>3, <3>1, <3>2, Zenon
  <2>3. CASE /\ RegistrationActs /\ RecoverExecution
             /\ closedRounds'[i] = ClosedRound(InProgress, roundDb[InProgress])
    BY <2>3 DEF RecoverExecution, ClosedRound, regDisk
  <2>4. CASE RegistrationActs /\ ExecuteClosedRound /\ closedRounds'[i] = ClosedRound(openRound, root)
    <3>1. root = roundDb[openRound] /\ UNCHANGED roundDb
      BY <1>2, <2>1, <2>4, Zenon DEF ExecuteClosedRound, HandoverInv, regDisk
    <3>. QED
      BY <2>4, <3>1 DEF ClosedRound
  <2>. QED
    BY <2>2, <2>3, <2>4, ClosedRoundsOrigin, Zenon
<1>9. wkPc' \in {"mkdir", "init"} => wkRoot' = roundDb'[current']
  <2>. SUFFICES ASSUME wkPc' \in {"mkdir", "init"} PROVE wkRoot' = roundDb'[current']
    OBVIOUS
  <2>1. CASE WorkerActs /\ TakeRound
    <3>1. /\ 1 \in 1 .. Len(closedRounds)
          /\ current' = closedRounds[1].epoch
          /\ wkRoot' = closedRounds[1].membershipRoot
      BY <1>1, <2>1 DEF RuntimeType, TakeRound
    <3>2. ~ctxDone
      BY <1>2, <2>1, Zenon DEF TakeRound, HandoverInv
    <3>3. closedRounds[1].membershipRoot = roundDb[closedRounds[1].epoch]
      BY <1>2, <3>1, <3>2, Zenon DEF HandoverInv
    <3>. QED
      BY <2>1, <3>1, <3>3, Zenon DEF WorkerActs, regVars, regDisk
  <2>2. CASE WorkerActs /\ MakeRoundDir
    BY <1>2, <2>2, Zenon DEF MakeRoundDir, hand, WorkerActs, regVars, regDisk, HandoverInv
  <2>3. CASE UNCHANGED <<wkPc, current, wkRoot>>
    <3>1. current \in Epochs /\ Frozen(current)
      BY <1>1, <2>3, Zenon DEF WorkerInv, InHand, FrozenInv
    <3>. QED
      BY <1>2, <1>3, <2>3, <3>1, Zenon DEF HandoverInv
  <2>4. ~DisabledTakeRound
    BY DEF DisabledTakeRound, GoTo
  <2>. QED
    BY <2>1, <2>2, <2>3, <2>4, WorkerPcOrigin
<1>10. ASSUME NEW e \in Epochs, rounds'[e].statement # None
       PROVE  rounds'[e].statement = roundDb'[e]
  <2>1. CASE rounds'[e].statement \in {rounds[e].statement, None}
    BY <1>4, <1>10, <2>1, Zenon
  <2>2. CASE InitRound /\ WorkerActs /\ e = current /\ rounds'[e].statement = wkRoot
    BY <1>2, <2>2, Zenon DEF InitRound, WorkerActs, regVars, regDisk, HandoverInv
  <2>. QED
    BY <2>1, <2>2, DirectoryOrigin, Zenon
<1>11. ASSUME NEW i \in 1 .. Len(proofs'), proofs'[i].nip # 0
       PROVE  proofs'[i].statement = roundDb'[proofs'[i].epoch]
  <2>1. CASE \E j \in 1 .. Len(proofs) : proofs'[i] = proofs[j]
    <3>. PICK j \in 1 .. Len(proofs) : proofs'[i] = proofs[j]
      BY <2>1
    <3>1. proofs[j].epoch \in Epochs
      <4>1. proofs[j] \in Nips
        BY <1>1 DEF RuntimeType
      <4>. QED
        BY <4>1, Zenon DEF Nips
    <3>2. Frozen(proofs[j].epoch) /\ proofs[j].statement = roundDb[proofs[j].epoch]
      BY <1>2, <1>11, Zenon DEF FrozenInv, HandoverInv
    <3>. QED
      BY <1>3, <3>1, <3>2, Zenon
  <2>2. CASE PublishProof /\ proofs'[i] = Nip(current)
    <3>1. current \in Epochs /\ rounds[current].statement # None
      BY <1>1, <2>2, Zenon DEF PublishProof, WorkerInv, InHand, DirectoryInv
    <3>. QED
      BY <1>4, <2>2, <3>1 DEF Nip
  <2>3. CASE proofs'[i] = [epoch |-> current, nip |-> 0, statement |-> {}]
    BY <1>11, <2>3
  <2>. QED
    BY <2>1, <2>2, <2>3, ProofsOrigin, Zenon
<1>12. regPc' = "save" /\ newNip'.nip # 0 => newNip'.statement = roundDb'[newNip'.epoch]
  <2>. SUFFICES ASSUME regPc' = "save", newNip'.nip # 0
                PROVE  newNip'.statement = roundDb'[newNip'.epoch]
    OBVIOUS
  <2>1. CASE RegistrationActs /\ TakeProof
    <3>1. newNip' = proofs[1] /\ 1 \in 1 .. Len(proofs) /\ UNCHANGED roundDb
      BY <1>1, <2>1 DEF RuntimeType, TakeProof, ReceiveProof, regDisk
    <3>. QED
      BY <1>2, <3>1, Zenon DEF HandoverInv
  <2>2. CASE regPc = "save" /\ UNCHANGED newNip
    <3>1. newNip.epoch \in Epochs /\ Frozen(newNip.epoch)
      BY <1>1, <2>2, Zenon DEF RegistrationInv, Nips, FrozenInv
    <3>. QED
      BY <1>2, <1>3, <2>2, <3>1, Zenon DEF HandoverInv
  <2>. QED
    BY <2>1, <2>2, RegistrationPcOrigin, Zenon
<1>13. ASSUME NEW e \in Epochs, proofDb'[e] # None, proofDb'[e].nip # 0
       PROVE  proofDb'[e].statement = proofDb'[e].members
  <2>1. CASE proofDb'[e] = proofDb[e]
    BY <1>2, <1>13, <2>1, Zenon DEF HandoverInv, EveryProofCoversMembers
  <2>2. CASE /\ SaveProof /\ e = newNip.epoch
             /\ proofDb'[e] = [nip |-> newNip.nip, statement |-> newNip.statement, members |-> roundDb[e]]
    <3>1. regPc = "save" /\ newNip.nip # 0
      BY <1>13, <2>2 DEF SaveProof
    <3>2. newNip.statement = roundDb[newNip.epoch]
      BY <1>2, <3>1, Zenon DEF HandoverInv
    <3>. QED
      BY <2>2, <3>2
  <2>. QED
    BY <2>1, <2>2, ProofDbOrigin, Zenon
<1>. QED
  BY <1>5, <1>6, <1>7, <1>8, <1>9, <1>10, <1>11, <1>12, <1>13, Zenon DEF EveryProofCoversMembers

(* Initially nothing was handed over. *)
LEMMA HandoverInit == Init => HandoverInv
BY DEF Init, RegistrationInit, WorkerInit, Absent, HandoverInv, EveryProofCoversMembers
------------------------------------------------------------------------------
(* The invariant behind the theorems below, of every behaviour with any    *)
(* number of crashes, restarts, interrupts and database failures and of    *)
(* any schedule of rounds: the services keep to their phases, a round that *)
(* was handed out is frozen, and the roots on their way are those of their *)
(* rounds.                                                                 *)
THEOREM PoetInvariant == Spec => []PoetInv
<1>1. Init => PoetInv
  BY ServiceInit, FrozenInit, HandoverInit DEF PoetInv
<1>2. PoetInv /\ [Next]_vars => PoetInv'
  <2>. SUFFICES ASSUME PoetInv, [Next]_vars PROVE PoetInv'
    OBVIOUS
  <2>1. HandoverInv'
    BY HandoverStep, Zenon DEF PoetInv, HandoverInv
  <2>. QED
    BY <2>1, ServiceStep, FrozenStep DEF PoetInv
<1>. QED
  BY <1>1, <1>2, PTL DEF Spec

(* Every variable of the two services, the transport and the process keeps *)
(* its type.                                                               *)
THEOREM TypeCorrect == Spec => []TypeOK
<1>1. PoetInv => TypeOK
  BY DEF PoetInv, ServiceInv
<1>. QED
  BY <1>1, PoetInvariant, PTL

(* onNewProof stores with a proof the member list its statement was        *)
(* computed from, over all restarts after crashes, while there was no      *)
(* interrupt and no database failure.                                      *)
THEOREM ProofsCoverMembers == Spec => []ProofCoversMembers
<1>1. PoetInv => ProofCoversMembers
  BY Zenon DEF PoetInv, HandoverInv, ProofCoversMembers
<1>. QED
  BY <1>1, PoetInvariant, PTL

(* What the worker executes or has finished is the round as registered,    *)
(* while there was no interrupt and no database failure.                   *)
THEOREM StatementsCoverMembers == Spec => []StatementCoversMembers
<1>1. PoetInv => StatementCoversMembers
  BY Zenon DEF PoetInv, HandoverInv, ServiceInv, DirectoryInv, StatementCoversMembers
<1>. QED
  BY <1>1, PoetInvariant, PTL

(* No step changes the members of a round that was handed to the worker,   *)
(* whatever fails: Submit reaches only the open round, and a round that    *)
(* was handed out is never opened again.                                   *)
THEOREM NoLateSubmissions == Spec => NoLateSubmission
<1>. DEFINE Kept == \A e \in Epochs : HandedOut(e) => roundDb'[e] = roundDb[e]
<1>1. PoetInv /\ [Next]_vars => Kept
  <2>. SUFFICES ASSUME PoetInv, [Next]_vars, NEW e \in Epochs, HandedOut(e)
                PROVE  roundDb'[e] = roundDb[e]
    BY Zenon
  <2>1. Frozen(e)
    BY Zenon DEF PoetInv, FrozenInv, HandedOut, HasState
  <2>. QED
    BY <2>1, FrozenStays, Zenon DEF PoetInv
<1>. QED
  BY <1>1, PoetInvariant, PTL DEF Spec, NoLateSubmission

(* onNewProof can always open the database of the round whose proof it     *)
(* stores: the round has a database and is not the open round.             *)
THEOREM ProofRoundsReadable == Spec => []ProofRoundReadable
<1>1. PoetInv => ProofRoundReadable
  BY Zenon DEF PoetInv, FrozenInv, Frozen, ProofRoundReadable, RoundReadable
<1>. QED
  BY <1>1, PoetInvariant, PTL
------------------------------------------------------------------------------
(* Recovery and executions *)

(* What a worker does before it has received a round. *)
Early ==
  /\ closedRounds = <<>>
  /\ wkPc \in {"recover", "remove", "resume", "work", "prove", "publish", "loop", "stopped"}
  /\ wkPc \in {"resume", "work", "prove"} => caller = "resume"

(* No round is received before recoverExecution, and recover removes no    *)
(* execution and keeps one it found.                                       *)
RecoverInv ==
  /\ wkPc = "announce" => disabled
  /\ regPc = "start" => Early
  /\ wkPc = "remove" => ~Running(current)
  /\ Recovering /\ executing # None => Running(executing)

(* The phases of recover. *)
LEMMA RecoverOrigin ==
  ASSUME ServiceInv, [Next]_vars
  PROVE  /\ wkPc' = "remove" =>
              \/ wkPc = "remove" /\ current' = current
              \/ wkPc' = "remove" /\ rounds'[current'].file = "created"
              \/ WorkerActs /\ PublishProof /\ current' = current
         /\ Recovering' =>
              \/ Recovering /\ executing' = executing
              \/ WorkerActs /\ RecoverExecuting(executing')
              \/ Start
<1>. USE DEF GoTo, Recovering
<1>1. CASE WorkerActs
  <2>1. ASSUME NEW d \in Epochs, RecoverNotStarted(d) PROVE rounds'[d].file = "created"
    BY <2>1, SetFileEffect, Zenon DEF RecoverNotStarted, Files, ServiceInv, TypeOK
  <2>2. CASE \E d \in Epochs : RecoverNotStarted(d)
    BY <2>1, <2>2, Zenon DEF RecoverNotStarted
  <2>3. CASE \E d \in Epochs : RecoverFinished(d) \/ RecoverExecuting(d)
    BY <1>1, <2>3, Zenon DEF RecoverFinished, RecoverExecuting, hand
  <2>4. CASE SkipPastRound \/ TakeRound \/ DisabledTakeRound \/ PublishEmptyProof
    BY <2>4, Zenon DEF SkipPastRound, TakeRound, DisabledTakeRound, PublishEmptyProof, wkVars
  <2>5. CASE PublishProof
    BY <1>1, <2>5, Zenon DEF PublishProof, hand, recovery
  <2>6. CASE RemoveRecovered \/ RecoverDone \/ Resume \/ MakeRoundDir \/ InitRound \/ StartExecution
    BY <2>6, Zenon DEF RemoveRecovered, RecoverDone, Resume, MakeRoundDir, InitRound,
       StartExecution, hand, recovery
  <2>7. CASE ExecutionRefused \/ WriteFirstLeaf \/ StopWork \/ CancelWork \/ FinishProof \/ WorkerStops
    BY <2>7 DEF ExecutionRefused, WriteFirstLeaf, StopWork, CancelWork, FinishProof, WorkerStops,
       hand, recovery, ServiceInv, WorkerInv, InHand
  <2>. QED
    BY <1>1, <2>2, <2>3, <2>4, <2>5, <2>6, <2>7, Zenon DEF WorkerActs, WorkerStep
<1>2. CASE TeardownActs
  BY <1>2, Zenon DEF TeardownActs, Teardown, hand, recovery
<1>3. CASE Start \/ Exit \/ Crash \/ WorkerFails
  BY <1>3, Zenon DEF Start, Exit, Crash, Gone, WorkerRun, WorkerGone, WorkerFails, ResumeFails
<1>4. CASE Interrupt \/ Tick \/ SubmitActs \/ RegistrationActs \/ DatabaseFails \/ UNCHANGED vars
  BY <1>4, OthersLeaveTheWorker, Zenon DEF WorkerIdle
<1>. QED
  BY <1>1, <1>2, <1>3, <1>4, Zenon DEF Next

(* The registration service has not begun, or has failed to: nothing was   *)
(* sent.                                                                   *)
LEMMA EarlyStays ==
  ASSUME ServiceInv, [Next]_vars, Early, regPc \in {"start", "stopped"}, regPc' \in {"start", "stopped"}
  PROVE  Early'
<1>. USE DEF GoTo, Early
<1>1. CASE WorkerActs
  <2>1. CASE \E d \in Epochs : RecoverFinished(d) \/ RecoverNotStarted(d) \/ RecoverExecuting(d)
    BY <2>1, Zenon DEF RecoverFinished, RecoverNotStarted, RecoverExecuting, channels
  <2>2. CASE RemoveRecovered \/ RecoverDone \/ Resume \/ StopWork \/ CancelWork \/ FinishProof \/ WorkerStops
    BY <2>2 DEF RemoveRecovered, RecoverDone, Resume, StopWork, CancelWork, FinishProof,
       WorkerStops, hand, channels
  <2>3. CASE PublishProof
    BY <2>3, Zenon DEF PublishProof, NewProofSends, NewProofCancelled, channels
  <2>4. ~SkipPastRound /\ ~TakeRound /\ ~DisabledTakeRound /\ ~MakeRoundDir /\ ~InitRound
    BY Zenon DEF SkipPastRound, TakeRound, DisabledTakeRound, MakeRoundDir, InitRound
  <2>5. ~StartExecution /\ ~ExecutionRefused /\ ~WriteFirstLeaf /\ ~PublishEmptyProof
    BY Zenon DEF StartExecution, ExecutionRefused, WriteFirstLeaf, PublishEmptyProof
  <2>. QED
    BY <1>1, <2>1, <2>2, <2>3, <2>4, <2>5, Zenon DEF WorkerActs, WorkerStep
<1>2. CASE TeardownActs
  BY <1>2, Zenon DEF TeardownActs, Teardown, hand, channels
<1>3. CASE Start \/ Exit \/ Crash \/ WorkerFails
  BY <1>3, Zenon DEF Start, Exit, Crash, Gone, RegistrationGone, WorkerRun, WorkerGone, WorkerFails,
     ResumeFails, hand, channels
<1>4. CASE RegistrationActs \/ DatabaseFails
  <2>1. UNCHANGED closedRounds
    BY <1>4, Zenon DEF RegistrationActs, RegistrationStep, NothingToRecover, RecoverExecution,
       CloseRound, ExecuteClosedRound, OpenNextRound, TakeProof, SaveProof, RegistrationStops,
       DatabaseFails, OpenNextRoundFails, SaveProofFails, RecoverExecutionFails,
       ExecuteRoundCancelled, channels
  <2>. QED
    BY <1>4, <2>1, OthersLeaveTheWorker DEF WorkerIdle
<1>5. CASE Interrupt \/ Tick \/ SubmitActs \/ UNCHANGED vars
  <2>1. UNCHANGED closedRounds
    BY <1>5, Zenon DEF Interrupt, Tick, SubmitActs, Submit, vars, channels
  <2>. QED
    BY <1>5, <2>1, OthersLeaveTheWorker, Zenon DEF WorkerIdle
<1>. QED
  BY <1>1, <1>2, <1>3, <1>4, <1>5, Zenon DEF Next

(* The registration service recovers an execution only when the server starts. *)
LEMMA StartOrigin ==
  ASSUME ServiceInv, [Next]_vars, regPc' = "start"
  PROVE  regPc = "start" \/ Start
<1>1. CASE RegistrationActs
  BY <1>1, Zenon DEF RegistrationActs, RegistrationStep, NothingToRecover, RecoverExecution,
     CloseRound, ExecuteClosedRound, OpenNextRound, TakeProof, SaveProof, RegistrationStops
<1>2. CASE Start \/ Exit \/ Crash
  BY <1>2, Zenon DEF Exit, Crash, Gone, RegistrationGone
<1>3. CASE Interrupt \/ Tick \/ WorkerActs \/ TeardownActs \/ WorkerFails \/ UNCHANGED vars
  BY <1>3, Zenon DEF Interrupt, Tick, WorkerActs, TeardownActs, WorkerFails, vars, regVars,
     regMemory
<1>4. CASE SubmitActs \/ DatabaseFails
  BY <1>4, Zenon DEF SubmitActs, Submit, DatabaseFails, OpenNextRoundFails, SaveProofFails,
     RecoverExecutionFails, regMemory
<1>. QED
  BY <1>1, <1>2, <1>3, <1>4 DEF Next

(* Every step keeps what recover relies on. *)
LEMMA RecoverStep ==
  ASSUME ServiceInv, ServiceInv', RecoverInv, [Next]_vars
  PROVE  RecoverInv'
<1>2. regPc' = "start" => Early'
  <2>1. CASE regPc = "start"
    BY <2>1, EarlyStays DEF RecoverInv
  <2>2. CASE Start
    BY <2>2, Zenon DEF Start, WorkerRun, GoTo, Early
  <2>. QED
    BY <2>1, <2>2, StartOrigin
<1>3. wkPc' = "remove" => ~Running(current)'
  <2>. SUFFICES ASSUME wkPc' = "remove"
                PROVE  ~Running(current)'
    OBVIOUS
  <2>1. CASE rounds'[current'].file = "created"
    BY <2>1 DEF Running
  <2>2. CASE wkPc = "remove" /\ current' = current
    <3>1. current \in Epochs /\ ~Running(current) /\ ~StartExecution
      BY <2>2, Zenon DEF RecoverInv, ServiceInv, WorkerInv, StartExecution
    <3>. QED
      BY <2>2, <3>1, RunningOrigin, Zenon DEF Running
  <2>3. CASE WorkerActs /\ PublishProof /\ current' = current
    BY <2>3, Zenon DEF PublishProof, ServiceInv, WorkerInv, Running
  <2>. QED
    BY <2>1, <2>2, <2>3, RecoverOrigin, Zenon
<1>4. Recovering' /\ executing' # None => Running(executing)'
  <2>. SUFFICES ASSUME Recovering', executing' # None
                PROVE  Running(executing)'
    OBVIOUS
  <2>1. CASE Recovering /\ executing' = executing
    <3>1. executing \in Epochs /\ Running(executing) /\ teardowns = {}
      BY <2>1, Zenon DEF RecoverInv, ServiceInv, TypeOK, WorkerType, WorkerInv
    <3>2. ~FinishProof /\ (RemoveRecovered => executing # current)
      BY <2>1, <3>1 DEF FinishProof, Recovering, RemoveRecovered, RecoverInv
    <3>3. Running(executing) => rounds'[executing].file \in {"started", "tree"}
      BY <3>1, <3>2, RunningOrigin, Zenon DEF Running
    <3>. QED
      BY <2>1, <3>1, <3>3, Zenon DEF Running
  <2>2. CASE RecoverExecuting(executing')
    BY <2>2, Zenon DEF RecoverExecuting, Running
  <2>3. CASE Start
    BY <2>3, Zenon DEF Start, WorkerRun
  <2>. QED
    BY <2>1, <2>2, <2>3, RecoverOrigin, Zenon
<1>5. wkPc' = "announce" => disabled'
  <2>1. CASE TakeRound \/ MakeRoundDir
    BY <2>1, Zenon DEF TakeRound, MakeRoundDir, GoTo
  <2>2. CASE DisabledTakeRound
    BY <2>2 DEF DisabledTakeRound
  <2>3. CASE UNCHANGED wkPc
    <3>1. CASE Start
      BY <3>1, Zenon DEF Start, WorkerRun, GoTo
    <3>2. CASE ~Start
      BY <2>3, <3>2, DisabledStays, Zenon DEF RecoverInv
    <3>. QED
      BY <3>1, <3>2
  <2>. QED
    BY <2>1, <2>2, <2>3, WorkerPcOrigin
<1>. QED
  BY <1>2, <1>3, <1>4, <1>5, Zenon DEF RecoverInv

(* The phases of the worker tell which executions there are on disk, as    *)
(* long as no interrupt makes the loop give up its round: during recover   *)
(* the ones it has not visited and the one it keeps, then the one resumed  *)
(* or executed, and none while the loop waits for or prepares a round.  A  *)
(* disabled worker leaves the one it finds alone.                          *)
PhasesInv ==
  /\ Recovering => \A e \in Epochs : Running(e) => e \in entries \/ e = executing
  /\ wkPc \in {"resume", "plant", "work", "prove"} => \A e \in Epochs : Running(e) => e = current
  /\ ~disabled /\ wkPc \in {"loop", "mkdir", "init", "start"} => \A e \in Epochs : ~Running(e)
  /\ wkPc = "publish" /\ caller # "recover" => \A e \in Epochs : ~Running(e)

ExecutionInv ==
  interrupts = 0 =>
    /\ OneExecution
    /\ PhasesInv
    /\ ctxDone => wkPc = "stopped" \/ (regPc = "stopped" /\ Early)

(* Without an interrupt the context is cancelled by a service that fails.  *)
LEMMA CancelOrigin ==
  ASSUME ServiceInv, [Next]_vars, interrupts' = 0
  PROVE  /\ interrupts = 0
         /\ ctxDone' => \/ ctxDone /\ (regPc = "stopped" => regPc' = "stopped")
                        \/ wkPc' = "stopped"
                        \/ DatabaseFails /\ regPc = "start" /\ regPc' = "stopped"
<1>1. interrupts \in Nat
  BY DEF ServiceInv, TypeOK
<1>2. CASE Start \/ Exit \/ Crash \/ Interrupt
  BY <1>1, <1>2 DEF Start, Exit, Crash, Gone, Interrupt, faultVars
<1>3. CASE Tick \/ WorkerActs \/ TeardownActs \/ UNCHANGED vars
  BY <1>3 DEF Tick, WorkerActs, TeardownActs, vars, procVars, faultVars, regVars, regMemory
<1>4. CASE WorkerFails
  BY <1>4, Zenon DEF WorkerFails, ResumeFails, GoTo, procVars, faultVars
<1>7. CASE SubmitActs
  BY <1>7, Zenon DEF SubmitActs, Submit, procVars, faultVars, regMemory
<1>5. CASE DatabaseFails
  BY <1>5 DEF DatabaseFails, OpenNextRoundFails, SaveProofFails, RecoverExecutionFails
<1>6. CASE RegistrationActs
  BY <1>6, Zenon DEF RegistrationActs, RegistrationStep, NothingToRecover, RecoverExecution,
     CloseRound, ExecuteClosedRound, OpenNextRound, TakeProof, SaveProof, RegistrationStops,
     procVars, faultVars
<1>. QED
  BY <1>2, <1>3, <1>4, <1>5, <1>6, <1>7, Zenon DEF Next

(* Without an interrupt the context is cancelled by the service that stops. *)
LEMMA CancelStep ==
  ASSUME ServiceInv, RecoverInv, ExecutionInv, [Next]_vars, interrupts' = 0, ctxDone'
  PROVE  wkPc' = "stopped" \/ (regPc' = "stopped" /\ Early')
<1>1. CASE ctxDone /\ (regPc = "stopped" => regPc' = "stopped")
  <2>1. wkPc = "stopped" \/ (regPc = "stopped" /\ Early)
    BY <1>1, CancelOrigin DEF ExecutionInv
  <2>. QED
    BY <1>1, <2>1, StoppedStays, EarlyStays
<1>2. CASE regPc = "start" /\ regPc' = "stopped"
  BY <1>2, EarlyStays DEF RecoverInv
<1>. QED
  BY <1>1, <1>2, CancelOrigin

(* Without an interrupt no step makes a second execution. *)
LEMMA OneExecutionStep ==
  ASSUME ServiceInv, ExecutionInv, [Next]_vars, interrupts' = 0
  PROVE  OneExecution'
<1>1. OneExecution /\ PhasesInv /\ interrupts = 0
  BY CancelOrigin DEF ExecutionInv
<1>2. ASSUME NEW e \in Epochs, NEW f \in Epochs, Running(e)', Running(f)'
      PROVE  e = f
  <2>1. CASE StartExecution
    <3>1. ~Running(e) /\ ~Running(f)
      BY <1>1, <2>1 DEF StartExecution, PhasesInv, ServiceInv, WorkerInv
    <3>. QED
      BY <1>2, <3>1, RunningOrigin
  <2>2. CASE ~StartExecution
    <3>1. Running(e) /\ Running(f)
      BY <1>2, <2>2, RunningOrigin
    <3>. QED
      BY <1>1, <3>1 DEF OneExecution, Running
  <2>. QED
    BY <2>1, <2>2
<1>. QED
  BY <1>2, Zenon DEF OneExecution, Running

(* Recovery: recover forgets no execution, since there is at most one.     *)
LEMMA RecoveryPhases ==
  ASSUME ServiceInv, RecoverInv, OneExecution, PhasesInv, interrupts = 0, WorkerActs, NEW d \in Epochs,
         RecoverFinished(d) \/ RecoverNotStarted(d) \/ RecoverExecuting(d)
  PROVE  PhasesInv'
<1>1. Recovering
  BY Zenon DEF Recovering, RecoverFinished, RecoverNotStarted, RecoverExecuting
<1>2. \A e \in Epochs : Running(e)' => Running(e)
  <2>1. ~StartExecution
    BY Zenon DEF RecoverFinished, RecoverNotStarted, RecoverExecuting, StartExecution
  <2>. QED
    BY <2>1, RunningOrigin DEF Next
<1>3. \A e \in Epochs : Running(e) => e \in entries \/ e = executing
  BY <1>1 DEF PhasesInv
<1>4. CASE RecoverFinished(d) \/ RecoverNotStarted(d)
  <2>1. ~Running(d) /\ entries' = entries \ {d} /\ executing' = executing
    BY <1>4, Zenon DEF RecoverFinished, RecoverNotStarted, Running
  <2>2. (wkPc' = "publish" /\ caller' = "recover") \/ wkPc' = "remove"
    BY <1>4, Zenon DEF RecoverFinished, RecoverNotStarted, GoTo
  <2>. QED
    BY <1>2, <1>3, <2>1, <2>2, Zenon DEF PhasesInv
<1>5. CASE RecoverExecuting(d)
  <2>1. Running(d) /\ entries' = entries \ {d} /\ executing' = d /\ wkPc' = "recover"
    BY <1>5, Zenon DEF RecoverExecuting, Running
  <2>2. \A e \in Epochs : Running(e) => e = d
    BY <2>1, Zenon DEF OneExecution, Running
  <2>. QED
    BY <1>2, <2>1, <2>2, Zenon DEF PhasesInv
<1>. QED
  BY <1>4, <1>5

(* Every step of the worker keeps the execution where its phase expects it. *)
LEMMA WorkerPhases ==
  ASSUME ServiceInv, RecoverInv, ExecutionInv, interrupts = 0, WorkerActs
  PROVE  PhasesInv'
<1>0. disabled' = disabled
  BY DisabledStays DEF Next, Start, WorkerActs, procVars, ServiceInv, TypeOK
<1>1. OneExecution /\ PhasesInv
  BY DEF ExecutionInv
<1>2. CASE \E d \in Epochs : RecoverFinished(d) \/ RecoverNotStarted(d) \/ RecoverExecuting(d)
  BY <1>1, <1>2, RecoveryPhases
<1>3. ~StartExecution => \A e \in Epochs : Running(e)' => Running(e)
  BY RunningOrigin DEF Next
<1>4. CASE RemoveRecovered
  <2>1. wkPc = "remove" /\ wkPc' \in {"remove", "recover"} /\ UNCHANGED <<caller, entries, executing>>
    BY <1>4, Zenon DEF RemoveRecovered, GoTo, hand, recovery
  <2>. QED
    BY <1>1, <1>3, <2>1, Zenon DEF PhasesInv, Recovering, StartExecution
<1>5. CASE RecoverDone
  <2>1. /\ wkPc = "recover" /\ entries = {}
        /\ (executing = None /\ wkPc' = "loop") \/ (current' = executing /\ wkPc' = "resume")
    BY <1>5 DEF RecoverDone, GoTo
  <2>2. None \notin Epochs
    BY EpochsAreNat, NoneIsNoEpoch, Zenon
  <2>. QED
    BY <1>1, <1>3, <2>1, <2>2, Zenon DEF PhasesInv, Recovering, StartExecution
<1>6. CASE Resume \/ StopWork \/ WriteFirstLeaf
  <2>1. wkPc \in {"resume", "plant", "work"} /\ wkPc' \in {"work", "prove"} /\ current' = current
    BY <1>6, Zenon DEF Resume, StopWork, WriteFirstLeaf, GoTo, hand
  <2>. QED
    BY <1>1, <1>3, <2>1, Zenon DEF PhasesInv, Recovering, StartExecution
<1>7. CASE SkipPastRound \/ TakeRound \/ DisabledTakeRound
  <2>1. wkPc = "loop" /\ wkPc' \in {"loop", "mkdir", "announce"}
    BY <1>7, Zenon DEF SkipPastRound, TakeRound, DisabledTakeRound, GoTo, wkVars
  <2>. QED
    BY <1>0, <1>1, <1>3, <2>1, Zenon DEF PhasesInv, Recovering, StartExecution
<1>8. CASE MakeRoundDir \/ InitRound \/ ExecutionRefused \/ PublishEmptyProof
  <2>1. wkPc \in {"mkdir", "init", "start", "announce"} /\ wkPc' \in {"init", "start", "loop"} /\ ~StartExecution
    BY <1>8, Zenon DEF MakeRoundDir, InitRound, ExecutionRefused, PublishEmptyProof,
       StartExecution, GoTo
  <2>. QED
    BY <1>0, <1>1, <1>3, <2>1, Zenon DEF PhasesInv, Recovering, RecoverInv
<1>9. CASE StartExecution
  <2>1. wkPc = "start" /\ ~disabled /\ wkPc' = "plant" /\ current' = current
    BY <1>9 DEF StartExecution, GoTo, hand, ServiceInv, WorkerInv
  <2>2. \A e \in Epochs : Running(e)' => e = current
    BY <1>1, <2>1, RunningOrigin, Zenon DEF PhasesInv, Next
  <2>. QED
    BY <2>1, <2>2 DEF PhasesInv, Recovering
<1>10. CASE CancelWork
  <2>1. wkPc = "work" /\ ctxDone
    BY <1>10 DEF CancelWork
  <2>2. caller = "resume"
    BY <2>1 DEF ExecutionInv, Early
  <2>3. wkPc' = "stopped"
    BY <1>10, <2>2 DEF CancelWork, GoTo
  <2>. QED
    BY <2>3 DEF PhasesInv, Recovering
<1>11. CASE FinishProof
  <2>1. wkPc = "prove" /\ wkPc' = "publish" /\ caller' # "recover" /\ current \in Epochs
    BY <1>11 DEF FinishProof, GoTo, hand, ServiceInv, WorkerInv, InHand
  <2>2. ~Running(current)'
    <3>1. rounds'[current].file = "finished" /\ current' = current
      BY <1>11, <2>1, FinishEffect DEF ServiceInv, TypeOK, FinishProof, hand
    <3>. QED
      BY <3>1 DEF Running
  <2>3. \A e \in Epochs : ~Running(e)'
    <3>1. current' = current
      BY <1>11 DEF FinishProof, hand
    <3>2. \A e \in Epochs : Running(e)' => e = current
      BY <1>1, <1>3, <2>1, Zenon DEF PhasesInv, StartExecution
    <3>3. ASSUME NEW e \in Epochs, Running(e)' PROVE FALSE
      BY <2>2, <3>1, <3>2, <3>3, Zenon DEF Running
    <3>. QED
      BY <3>3
  <2>. QED
    BY <2>1, <2>3 DEF PhasesInv, Recovering
<1>12. CASE PublishProof
  <2>1. /\ wkPc = "publish" /\ UNCHANGED <<caller, entries, executing>>
        /\ (caller = "recover" /\ wkPc' = "remove") \/ (caller # "recover" /\ wkPc' = "loop")
    BY <1>12 DEF PublishProof, GoTo, hand, recovery
  <2>. QED
    BY <1>1, <1>3, <2>1, Zenon DEF PhasesInv, Recovering, StartExecution
<1>13. CASE WorkerStops
  BY <1>13, Zenon DEF WorkerStops, GoTo, PhasesInv, Recovering
<1>. QED
  BY <1>2, <1>4, <1>5, <1>6, <1>7, <1>8, <1>9, <1>10, <1>11, <1>12, <1>13 DEF WorkerActs, WorkerStep

(* Every step of the server keeps the execution invariant. *)
LEMMA ExecutionStep ==
  ASSUME ServiceInv, ServiceInv', RecoverInv, ExecutionInv, [Next]_vars
  PROVE  ExecutionInv'
<1>. SUFFICES ASSUME interrupts' = 0
              PROVE  PhasesInv'
  BY CancelStep, OneExecutionStep, Zenon DEF ExecutionInv
<1>1. interrupts = 0 /\ PhasesInv
  BY CancelOrigin DEF ExecutionInv
<1>2. CASE WorkerActs
  BY <1>1, <1>2, WorkerPhases
<1>3. ~StartExecution \/ ~WorkerActs => \A e \in Epochs : Running(e)' => Running(e)
  BY RunningOrigin
<1>4. CASE TeardownActs
  <2>1. UNCHANGED <<wkPc, caller, current, entries, executing, disabled>>
    BY <1>4, Zenon DEF TeardownActs, Teardown, hand, recovery
  <2>2. ~WorkerActs \/ ~StartExecution
    BY <2>1 DEF StartExecution, GoTo
  <2>. QED
    BY <1>1, <1>3, <2>1, <2>2, Zenon DEF PhasesInv, Recovering
<1>5. CASE Start
  <2>1. /\ rounds' = rounds
        /\ IF disabled' THEN wkPc' = "loop" ELSE wkPc' = "recover"
        /\ entries' = {e \in Epochs : ~disabled' /\ rounds[e].file # "absent"}
    BY <1>5, Zenon DEF Start, WorkerRun, GoTo
  <2>2. CASE disabled'
    BY <2>1, <2>2, Zenon DEF PhasesInv, Recovering
  <2>3. CASE ~disabled'
    BY <2>1, <2>3, Zenon DEF Running, PhasesInv, Recovering
  <2>. QED
    BY <2>2, <2>3
<1>6. CASE Exit \/ Crash \/ WorkerFails
  BY <1>6, Zenon DEF Exit, Crash, Gone, WorkerGone, WorkerFails, ResumeFails, GoTo, PhasesInv,
     Recovering
<1>7. CASE Interrupt \/ Tick \/ SubmitActs \/ RegistrationActs \/ DatabaseFails \/ UNCHANGED vars
  BY <1>1, <1>7, OthersLeaveTheWorker, Zenon DEF WorkerIdle, PhasesInv, Recovering, Running
<1>. QED
  BY <1>2, <1>4, <1>5, <1>6, <1>7 DEF Next
==============================================================================
