-------------------------- MODULE PoetRounds_proofs --------------------------
(***************************************************************************)
(* What becomes of a round in the composed server: all proofs of it are    *)
(* the same one, it is handed out once, and Execute starts afresh.         *)
(***************************************************************************)
EXTENDS Poet_proofs

(* Proofs *)

(* A proof, wherever it is: in the directory of a finished round, in the   *)
(* channel, in the hands of onNewProof or in the database.                 *)
IsRecord(r) ==
  \/ rounds[r.epoch].file = "finished" /\ r = Nip(r.epoch)
  \/ \E i \in 1 .. Len(proofs) : proofs[i] = r
  \/ regPc = "save" /\ newNip = r
  \/ /\ proofDb[r.epoch] # None
     /\ proofDb[r.epoch].nip = r.nip
     /\ proofDb[r.epoch].statement = r.statement

(* The round has ended, and nobody executes it or will.                    *)
Over(e) ==
  /\ RoundEnd(e) < now
  /\ ~Running(e)
  /\ wkPc \in AtWork => current # e

(* All proofs of a round are the same one, and a round with a proof is     *)
(* not executed again; the disabled worker has one proof for all rounds.   *)
(* A round that one of them has proved may be proved by the other as well. *)
RecordInv ==
  switches = 0 =>
    /\ \A r, s \in Nips : IsRecord(r) /\ IsRecord(s) /\ r.epoch = s.epoch => r = s
    /\ \A r \in Nips : IsRecord(r) =>
         IF disabled THEN r.nip = 0 /\ r.statement = {} ELSE Over(r.epoch)
    /\ \A e \in Epochs : proofDb[e] # None => proofDb[e].members = roundDb[e]

(* A proof comes into the world when the worker has generated it. *)
LEMMA RecordOrigin ==
  ASSUME ServiceInv, RecoverInv, [Next]_vars, NEW r \in Nips, IsRecord(r)'
  PROVE  \/ IsRecord(r)
         \/ WorkerActs /\ FinishProof /\ r = Nip(current)'
         \/ disabled /\ r.nip = 0 /\ r.statement = {}
<1>. r.epoch \in Epochs
  BY DEF Nips
<1>1. CASE rounds'[r.epoch].file = "finished" /\ r = Nip(r.epoch)'
  <2>1. CASE rounds'[r.epoch] = rounds[r.epoch]
    BY <1>1, <2>1 DEF IsRecord, Nip
  <2>2. CASE WorkerActs /\ FinishProof /\ r.epoch = current
    BY <1>1, <2>2 DEF FinishProof, hand, Nip
  <2>. QED
    BY <1>1, <2>1, <2>2, DirectoryChange DEF Removed
<1>2. CASE \E i \in 1 .. Len(proofs') : proofs'[i] = r
  <2>. PICK i \in 1 .. Len(proofs') : proofs'[i] = r
    BY <1>2
  <2>1. CASE \E j \in 1 .. Len(proofs) : proofs'[i] = proofs[j]
    BY <2>1 DEF IsRecord
  <2>2. CASE PublishProof /\ proofs'[i] = Nip(current)
    <3>1. rounds[current].file = "finished"
      BY <2>2 DEF PublishProof, ServiceInv, WorkerInv
    <3>2. r = Nip(current)
      BY <2>2
    <3>3. r.epoch = current
      BY <3>2 DEF Nip
    <3>. QED
      BY <3>1, <3>2, <3>3 DEF IsRecord
  <2>3. CASE PublishEmptyProof /\ proofs'[i] = [epoch |-> current, nip |-> 0, statement |-> {}]
    <3>1. disabled
      BY <2>3 DEF PublishEmptyProof, RecoverInv
    <3>. QED
      BY <2>3, <3>1
  <2>. QED
    BY <2>1, <2>2, <2>3, ProofsOrigin
<1>3. CASE regPc' = "save" /\ newNip' = r
  <2>1. CASE TakeProof
    <3>1. proofs \in Seq(Nips) /\ proofs # <<>> /\ r = Head(proofs)
      BY <1>3, <2>1 DEF TakeProof, ReceiveProof, ServiceInv, TypeOK, RuntimeType
    <3>2. 1 \in 1 .. Len(proofs) /\ proofs[1] = r
      BY <3>1
    <3>. QED
      BY <3>2 DEF IsRecord
  <2>2. CASE regPc = "save" /\ UNCHANGED newNip
    BY <1>3, <2>2 DEF IsRecord
  <2>. QED
    BY <1>3, <2>1, <2>2, RegistrationPcOrigin
<1>4. CASE /\ proofDb'[r.epoch] # None
           /\ proofDb'[r.epoch].nip = r.nip
           /\ proofDb'[r.epoch].statement = r.statement
  <2>1. CASE proofDb'[r.epoch] = proofDb[r.epoch]
    BY <1>4, <2>1 DEF IsRecord
  <2>2. CASE /\ SaveProof
             /\ r.epoch = newNip.epoch
             /\ proofDb'[r.epoch] = [nip |-> newNip.nip, statement |-> newNip.statement, members |-> roundDb[r.epoch]]
    <3>1. regPc = "save" /\ newNip \in Nips
      BY <2>2 DEF SaveProof, ServiceInv, RegistrationInv
    <3>2. newNip.nip = r.nip /\ newNip.statement = r.statement
      BY <1>4, <2>2
    <3>3. newNip = r
      BY <2>2, <3>1, <3>2 DEF Nips
    <3>. QED
      BY <3>1, <3>3 DEF IsRecord
  <2>. QED
    BY <2>1, <2>2, ProofDbOrigin
<1>. QED
  BY <1>1, <1>2, <1>3, <1>4, Zenon DEF IsRecord

(* A round that is over stays so: the loop skips it, and recover resumes   *)
(* only an execution.                                                      *)
LEMMA OverStays ==
  ASSUME ServiceInv, ServiceInv', RecoverInv, [Next]_vars, NEW e \in Epochs, Over(e)
  PROVE  Over(e)'
<1>1. RoundEnd(e) < now'
  BY ClockRuns DEF Over
<1>2. ~Running(e)'
  BY RunningOrigin DEF Over, StartExecution, AtWork
<1>3. wkPc' \in AtWork => current' # e
  <2>1. CASE TakeRound
    BY <2>1 DEF TakeRound, IsPast, Over
  <2>2. CASE RecoverDone /\ executing # None /\ current' = executing
    BY <2>2 DEF RecoverDone, Recovering, RecoverInv, Over
  <2>. QED
    BY <2>1, <2>2, WorkOrigin DEF Over
<1>. QED
  BY <1>1, <1>2, <1>3 DEF Over

(* Every step keeps proofs to rounds that are over. *)
LEMMA RecordStep ==
  ASSUME ServiceInv, ServiceInv', FrozenInv, RecoverInv, RecordInv, [Next]_vars
  PROVE  RecordInv'
<1>. SUFFICES ASSUME switches' = 0
              PROVE  /\ \A r, s \in Nips : IsRecord(r)' /\ IsRecord(s)' /\ r.epoch = s.epoch => r = s
                     /\ \A r \in Nips : IsRecord(r)' =>
                          IF disabled' THEN r.nip = 0 /\ r.statement = {} ELSE Over(r.epoch)'
                     /\ \A e \in Epochs : proofDb'[e] # None => proofDb'[e].members = roundDb'[e]
  BY DEF RecordInv
<1>0. switches = 0 /\ disabled' = disabled
  BY NoSwitch
<1>1. ASSUME NEW r \in Nips, IsRecord(r)'
      PROVE  IF disabled' THEN r.nip = 0 /\ r.statement = {} ELSE Over(r.epoch)'
  <2>0. r.epoch \in Epochs /\ disabled' = disabled
    BY <1>0 DEF Nips
  <2>1. CASE IsRecord(r)
    BY <1>0, <2>0, <2>1, OverStays DEF RecordInv
  <2>2. CASE WorkerActs /\ FinishProof /\ r = Nip(current)'
    <3>1. /\ ~disabled /\ current \in Epochs /\ current' = current /\ now' = now
          /\ wkPc' = "publish" /\ RoundEnd(current) < now
      BY <2>2, Constants, ScheduleConstants DEF FinishProof, hand, GoTo, WorkerActs, ServiceInv,
         WorkerInv, InHand, TypeOK, RuntimeType, RoundEnd, RoundStart
    <3>2. r.epoch = current
      BY <2>2, <3>1 DEF Nip
    <3>3. rounds'[current].file = "finished"
      BY <2>2, <3>1, FinishEffect DEF ServiceInv, TypeOK
    <3>. QED
      BY <2>0, <3>1, <3>2, <3>3 DEF Over, Running, AtWork
  <2>3. CASE disabled /\ r.nip = 0 /\ r.statement = {}
    BY <2>0, <2>3
  <2>. QED
    BY <1>1, <2>1, <2>2, <2>3, RecordOrigin
<1>2. ASSUME NEW r \in Nips, NEW s \in Nips, IsRecord(r)', IsRecord(s)', r.epoch = s.epoch
      PROVE  r = s
  <2>1. CASE disabled'
    <3>1. r.nip = 0 /\ r.statement = {} /\ s.nip = 0 /\ s.statement = {}
      BY <1>1, <1>2, <2>1
    <3>. QED
      BY <1>2, <3>1 DEF Nips
  <2>2. CASE ~disabled'
    <3>1. ~disabled
      BY <1>0, <2>2
    <3>2. CASE FinishProof /\ r.epoch = current
      <4>1. ASSUME NEW t \in Nips, IsRecord(t), t.epoch = current PROVE FALSE
        BY <1>0, <3>1, <3>2, <4>1 DEF RecordInv, Over, FinishProof, AtWork
      <4>2. ~IsRecord(r) /\ ~IsRecord(s)
        BY <1>2, <3>2, <4>1, Zenon
      <4>3. r = Nip(current)' /\ s = Nip(current)'
        BY <1>2, <3>1, <4>2, RecordOrigin
      <4>. QED
        BY <4>3
    <3>3. CASE ~(FinishProof /\ r.epoch = current)
      <4>1. FinishProof => Nip(current)'.epoch = current
        BY DEF FinishProof, hand, Nip
      <4>2. IsRecord(r) /\ IsRecord(s)
        BY <1>2, <3>1, <3>3, <4>1, RecordOrigin
      <4>. QED
        BY <1>0, <1>2, <4>2 DEF RecordInv
    <3>. QED
      BY <3>2, <3>3
  <2>. QED
    BY <2>1, <2>2
<1>3. ASSUME NEW e \in Epochs, proofDb'[e] # None
      PROVE  proofDb'[e].members = roundDb'[e]
  <2>1. CASE proofDb'[e] = proofDb[e]
    BY <1>0, <1>3, <2>1, FrozenStays DEF RecordInv, FrozenInv
  <2>2. CASE /\ SaveProof
             /\ e = newNip.epoch
             /\ proofDb'[e] = [nip |-> newNip.nip, statement |-> newNip.statement, members |-> roundDb[e]]
    <3>1. Frozen(e)
      BY <2>2 DEF SaveProof, FrozenInv
    <3>2. roundDb'[e] = roundDb[e]
      BY <3>1, FrozenStays
    <3>. QED
      BY <2>2, <3>2
  <2>. QED
    BY <2>1, <2>2, ProofDbOrigin
<1>. QED
  BY <1>1, <1>2, <1>3

(* onNewProof stores what is there already. *)
LEMMA StableStep ==
  ASSUME ServiceInv, ServiceInv', FrozenInv, RecordInv, [Next]_vars, switches = 0,
         NEW e \in Epochs, proofDb[e] # None
  PROVE  proofDb'[e] = proofDb[e]
<1>. SUFFICES ASSUME SaveProof, e = newNip.epoch,
                     proofDb'[e] = [nip |-> newNip.nip, statement |-> newNip.statement, members |-> roundDb[e]]
              PROVE  proofDb'[e] = proofDb[e]
  BY ProofDbOrigin
<1>. DEFINE stored == proofDb[e]
            r == [epoch |-> e, nip |-> stored.nip, statement |-> stored.statement]
<1>1. stored \in [nip : Nat, statement : Roots, members : Roots]
  BY DEF ServiceInv, TypeOK, RegistrationType
<1>2. newNip \in Nips /\ IsRecord(newNip)
  BY DEF SaveProof, ServiceInv, RegistrationInv, IsRecord
<1>3. r \in Nips
  BY <1>1 DEF Nips
<1>4. IsRecord(r)
  BY DEF IsRecord
<1>5. r = newNip
  BY <1>2, <1>3, <1>4 DEF RecordInv
<1>6. stored.nip = newNip.nip /\ stored.statement = newNip.statement /\ stored.members = roundDb[e]
  BY <1>5 DEF RecordInv
<1>. QED
  BY <1>1, <1>6

------------------------------------------------------------------------------
(* Handing out *)

(* The closed round waits in the channel. *)
Sent(e) == \E i \in 1 .. Len(closedRounds) : closedRounds[i].epoch = e

(* Where a round can be between closeRound and its removal. *)
Out(e) == Present(e) \/ Sent(e) \/ (wkPc \in AtWork /\ current = e)

(* As long as no database fails, a round is handed out once in a run of    *)
(* the server: only rounds before the open one are out, and those on disk  *)
(* when the server starts come before the ones handed out after.           *)
HandInv ==
  failures = 0 =>
    /\ regPc # "off" => \A e \in Epochs :
         Out(e) => e < openRound \/ (regPc = "create" /\ e = openRound)
    /\ wkPc \in AtWork /\ caller = "loop" => ~Sent(current)
    /\ Recovering => \A e, f \in Epochs : Present(e) /\ Sent(f) => e <= f

ChannelInv == Len(closedRounds) <= 1

(* executeRound drops a round rather than queue a second one. *)
LEMMA ChannelStep ==
  ASSUME ServiceInv, ChannelInv, [Next]_vars
  PROVE  ChannelInv'
<1>. USE DEF ChannelInv
<1>. closedRounds \in Seq(ClosedRounds)
  BY DEF ServiceInv, TypeOK, RuntimeType
<1>1. ASSUME NEW msg, ExecuteRoundSends(msg) PROVE ChannelInv'
  BY <1>1 DEF ExecuteRoundSends, HasRoom, BufferSize
<1>2. ASSUME UNCHANGED closedRounds \/ closedRounds' = <<>> \/ ReceiveClosedRound PROVE ChannelInv'
  BY <1>2 DEF ReceiveClosedRound
<1>3. CASE RegistrationActs
  <2>1. CASE RecoverExecution
    BY <1>1, <1>2, <2>1 DEF RecoverExecution, ExecuteRoundDrops, ExecuteRoundCancelled, channels
  <2>2. CASE ExecuteClosedRound
    BY <1>1, <1>2, <2>2 DEF ExecuteClosedRound, ExecuteRoundDrops, ExecuteRoundCancelled, channels
  <2>3. CASE ~RecoverExecution /\ ~ExecuteClosedRound
    BY <1>2, <1>3, <2>3 DEF RegistrationActs, RegistrationStep, NothingToRecover, CloseRound,
       OpenNextRound, TakeProof, ReceiveProof, SaveProof, RegistrationStops, channels
  <2>. QED
    BY <2>1, <2>2, <2>3
<1>4. CASE WorkerActs
  BY <1>2, <1>4, Zenon DEF WorkerActs, WorkerStep, RecoverFinished, RecoverNotStarted, TakeRound,
     RecoverExecuting, RemoveRecovered, RecoverDone, Resume, MakeRoundDir, InitRound,
     StartExecution, ExecutionRefused, WriteFirstLeaf, StopWork, CancelWork, FinishProof,
     PublishProof, SkipPastRound, PublishEmptyProof, NewProofSends, NewProofCancelled,
     WorkerStops, DisabledTakeRound, channels
<1>5. CASE Start \/ Exit \/ Crash
  BY <1>2, <1>5 DEF Start, Exit, Crash, Gone
<1>6. CASE Interrupt \/ Tick \/ SubmitActs \/ TeardownActs \/ WorkerFails \/ UNCHANGED vars
  BY <1>2, <1>6, Zenon DEF Interrupt, Tick, SubmitActs, Submit, TeardownActs, Teardown, WorkerFails,
     ResumeFails, vars, channels
<1>7. CASE DatabaseFails
  BY <1>2, <1>7 DEF DatabaseFails, OpenNextRoundFails, SaveProofFails, RecoverExecutionFails,
     channels
<1>. QED
  BY <1>3, <1>4, <1>5, <1>6, <1>7 DEF Next

(* Where a closed round comes from. *)
LEMMA SentOrigin ==
  ASSUME ServiceInv, [Next]_vars, NEW e \in Epochs, Sent(e)'
  PROVE  \/ Sent(e)
         \/ RegistrationActs /\ RecoverExecution /\ regPc = "start" /\ e = openRound - 1
         \/ RegistrationActs /\ ExecuteClosedRound /\ regPc = "execute" /\ regPc' = "create" /\ e = openRound
<1>. PICK i \in 1 .. Len(closedRounds') : closedRounds'[i].epoch = e
  BY DEF Sent
<1>1. CASE \E j \in 1 .. Len(closedRounds) : closedRounds'[i] = closedRounds[j]
  BY <1>1 DEF Sent
<1>2. CASE /\ RegistrationActs /\ RecoverExecution
           /\ closedRounds'[i] = ClosedRound(InProgress, roundDb[InProgress])
  <2>1. e = openRound - 1
    BY <1>2 DEF ClosedRound, InProgress
  <2>2. regPc = "start"
    BY <1>2 DEF RecoverExecution
  <2>. QED
    BY <1>2, <2>1, <2>2
<1>3. CASE RegistrationActs /\ ExecuteClosedRound /\ closedRounds'[i] = ClosedRound(openRound, root)
  <2>1. e = openRound
    BY <1>3 DEF ClosedRound
  <2>3. regPc = "execute"
    BY <1>3 DEF ExecuteClosedRound
  <2>2. regPc' = "create" \/ closedRounds' = closedRounds
    BY <1>3 DEF ExecuteClosedRound, ExecuteRoundCancelled, channels
  <2>. QED
    BY <1>3, <2>1, <2>2, <2>3 DEF Sent
<1>. QED
  BY <1>1, <1>2, <1>3, ClosedRoundsOrigin

(* How the open round changes. *)
LEMMA OpenRoundChange ==
  ASSUME ServiceInv, [Next]_vars, failures' = 0, regPc' # "off"
  PROVE  /\ failures = 0
         /\ \/ regPc # "off" /\ openRound' = openRound /\ (regPc = "create" => regPc' = "create")
            \/ Start /\ openRound' = OpenRoundId(now)
            \/ RegistrationActs /\ OpenNextRound /\ regPc = "create" /\ openRound' = OpenRoundId(now)
<1>1. failures \in Nat
  BY DEF ServiceInv, TypeOK
<1>2. CASE RegistrationActs
  BY <1>2, Zenon DEF RegistrationActs, RegistrationStep, NothingToRecover, RecoverExecution,
     CloseRound, ExecuteClosedRound, OpenNextRound, OpenRoundDb, TakeProof, SaveProof,
     RegistrationStops, procVars, faultVars
<1>3. CASE Start \/ Exit \/ Crash
  BY <1>3 DEF Start, RegistrationNew, OpenRoundDb, Exit, Crash, Gone, RegistrationGone, faultVars
<1>4. CASE Interrupt \/ Tick \/ WorkerActs \/ TeardownActs \/ WorkerFails \/ UNCHANGED vars
  BY <1>4, Zenon DEF Interrupt, Tick, WorkerActs, TeardownActs, WorkerFails, vars, regVars,
     regMemory, procVars, faultVars
<1>5. CASE SubmitActs
  BY <1>5 DEF SubmitActs, Submit, regMemory, procVars, faultVars
<1>6. CASE DatabaseFails
  BY <1>1, <1>6 DEF DatabaseFails
<1>. QED
  BY <1>2, <1>3, <1>4, <1>5, <1>6 DEF Next

(* A round whose registration is over comes before the one that opens now. *)
LEMMA FrozenBeforeOpen ==
  ASSUME ServiceInv, NEW e \in Epochs, Frozen(e)
  PROVE  e < OpenRoundId(now)
<1>1. now \in Nat /\ e \in Nat
  BY Constants DEF ServiceInv, TypeOK, RuntimeType
<1>2. OpenRoundId(now) \in Nat /\ now < RoundStart(OpenRoundId(now))
  BY <1>1, OpenRoundIsNext
<1>3. RoundStart(e) <= now /\ RoundStart(e) \in Nat /\ RoundStart(OpenRoundId(now)) \in Nat
  BY <1>1, <1>2, StartsInOrder DEF Frozen
<1>. QED
  BY <1>1, <1>2, <1>3, StartsInOrder

(* What is out was out, or has just been handed out. *)
LEMMA OutOrigin ==
  ASSUME ServiceInv, RecoverInv, [Next]_vars, NEW e \in Epochs, Out(e)'
  PROVE  \/ Out(e)
         \/ RegistrationActs /\ RecoverExecution /\ regPc = "start" /\ e = openRound - 1
         \/ RegistrationActs /\ ExecuteClosedRound /\ regPc = "execute" /\ regPc' = "create" /\ e = openRound
<1>1. CASE Present(e)'
  BY <1>1, DirectoryOrigin, Zenon DEF Present, Out, MakeRoundDir, AtWork
<1>2. CASE Sent(e)'
  BY <1>2, SentOrigin DEF Out
<1>3. CASE wkPc' \in AtWork /\ current' = e
  <2>1. CASE TakeRound
    <3>1. closedRounds \in Seq(ClosedRounds) /\ closedRounds # <<>> /\ e = closedRounds[1].epoch
      BY <1>3, <2>1 DEF TakeRound, ServiceInv, TypeOK, RuntimeType
    <3>2. 1 \in 1 .. Len(closedRounds)
      BY <3>1
    <3>. QED
      BY <3>1, <3>2 DEF Out, Sent
  <2>2. CASE RecoverDone /\ executing # None /\ current' = executing
    BY <1>3, <2>2, Zenon DEF RecoverDone, Recovering, RecoverInv, Running, Present, Out
  <2>3. CASE wkPc \in AtWork /\ current' = current
    BY <1>3, <2>3 DEF Out
  <2>. QED
    BY <1>3, <2>1, <2>2, <2>3, WorkOrigin
<1>. QED
  BY <1>1, <1>2, <1>3 DEF Out

(* Every step keeps the order in which rounds are handed out. *)
LEMMA HandStep ==
  ASSUME ServiceInv, ServiceInv', FrozenInv, RecoverInv, ChannelInv, HandInv, [Next]_vars
  PROVE  HandInv'
<1>. SUFFICES ASSUME failures' = 0
              PROVE  /\ regPc' # "off" => \A e \in Epochs :
                          Out(e)' => e < openRound' \/ (regPc' = "create" /\ e = openRound')
                     /\ wkPc' \in AtWork /\ caller' = "loop" => ~Sent(current)'
                     /\ Recovering' => \A e, f \in Epochs : Present(e)' /\ Sent(f)' => e <= f
  BY DEF HandInv
<1>. Epochs \subseteq Nat /\ openRound \in Nat /\ openRound' \in Nat
  BY Constants, Zenon DEF ServiceInv, TypeOK, RegistrationType
<1>0. failures = 0
  BY FaultsGrow
<1>1. ASSUME NEW e \in Epochs, regPc' # "off", Out(e)'
      PROVE  e < openRound' \/ (regPc' = "create" /\ e = openRound')
  <2>1. CASE Start
    <3>1. Present(e)
      BY <1>1, <2>1 DEF Out, Start, WorkerRun, GoTo, AtWork, Sent, Present
    <3>2. e < OpenRoundId(now)
      BY <3>1, FrozenBeforeOpen, Zenon DEF FrozenInv, Present
    <3>. QED
      BY <2>1, <3>2 DEF Start, RegistrationNew, OpenRoundDb
  <2>2. CASE OpenNextRound /\ regPc = "create" /\ openRound' = OpenRoundId(now)
    <3>1. Out(e)
      BY <1>1, <2>2, OutOrigin
    <3>2. e <= openRound
      BY <1>0, <2>2, <3>1 DEF HandInv
    <3>3. openRound \in Epochs /\ Frozen(openRound)
      BY <2>2, Zenon DEF FrozenInv, ServiceInv, RegistrationInv
    <3>4. openRound < OpenRoundId(now)
      BY <3>3, FrozenBeforeOpen
    <3>. QED
      BY <2>2, <3>2, <3>4
  <2>3. CASE regPc # "off" /\ openRound' = openRound /\ (regPc = "create" => regPc' = "create")
    <3>1. CASE Out(e)
      BY <1>0, <2>3, <3>1 DEF HandInv
    <3>2. CASE ~Out(e)
      BY <1>1, <2>3, <3>2, OutOrigin
    <3>. QED
      BY <3>1, <3>2
  <2>. QED
    BY <1>1, <2>1, <2>2, <2>3, OpenRoundChange
<1>2. ASSUME wkPc' \in AtWork, caller' = "loop", Sent(current)'
      PROVE  FALSE
  <2>1. CASE WorkerActs /\ TakeRound
    <3>1. closedRounds \in Seq(ClosedRounds) /\ Len(closedRounds) <= 1 /\ closedRounds # <<>>
          /\ closedRounds' = Tail(closedRounds)
      BY <2>1 DEF TakeRound, ReceiveClosedRound, ServiceInv, TypeOK, RuntimeType, ChannelInv
    <3>2. 1 .. Len(closedRounds') = {}
      BY <3>1
    <3>. QED
      BY <1>2, <3>2 DEF Sent
  <2>2. CASE RecoverDone /\ executing # None /\ current' = executing
    BY <1>2, <2>2 DEF RecoverDone, GoTo, AtWork
  <2>3. CASE wkPc \in AtWork /\ current' = current /\ wkRoot' = wkRoot /\ caller' = caller
    <3>1. current \in Epochs
      BY <2>3, Zenon DEF ServiceInv, WorkerInv, AtWork, InHand
    <3>2. Out(current) /\ ~Sent(current)
      BY <1>0, <1>2, <2>3 DEF HandInv, Out
    <3>3. Sent(current)' => \E i \in 1 .. Len(closedRounds') : closedRounds'[i].epoch = current
      BY <2>3 DEF Sent
    <3>4. CASE regPc = "start"
      BY <1>2, <2>3, <3>4 DEF RecoverInv, Early, AtWork
    <3>5. CASE regPc = "execute"
      <4>1. current # openRound
        BY <1>0, <3>1, <3>2, <3>5 DEF HandInv
      <4>. QED
        BY <1>2, <2>3, <3>1, <3>2, <3>5, <4>1, SentOrigin, Zenon DEF Sent
    <3>. QED
      BY <1>2, <2>3, <3>1, <3>2, <3>4, <3>5, SentOrigin DEF Sent
  <2>. QED
    BY <1>2, <2>1, <2>2, <2>3, WorkOrigin
<1>3. ASSUME Recovering', NEW e \in Epochs, NEW f \in Epochs, Present(e)', Sent(f)'
      PROVE  e <= f
  <2>1. ~Start
    BY <1>3 DEF Start, Sent
  <2>2. Recovering
    BY <1>3, <2>1, RecoverOrigin DEF RecoverExecuting, Recovering
  <2>3. Present(e)
    BY <1>3, <2>2, DirectoryOrigin, Zenon DEF Present, MakeRoundDir, Recovering
  <2>4. Out(e)
    BY <2>3 DEF Out
  <2>5. CASE Sent(f)
    BY <1>0, <2>2, <2>3, <2>5 DEF HandInv
  <2>6. CASE regPc \in {"start", "execute"}
    <3>1. e < openRound
      BY <1>0, <2>4, <2>6 DEF HandInv
    <3>. QED
      BY <1>3, <2>5, <3>1, SentOrigin
  <2>. QED
    BY <1>3, <2>5, <2>6, SentOrigin
<1>. QED
  BY <1>1, <1>2, <1>3

------------------------------------------------------------------------------
(* Directories left behind *)

(* The worker knows of the directory: recover has yet to visit it, removes *)
(* it or keeps it for later, or it is that of the round in hand.           *)
Handled(e) ==
  \/ Recovering /\ (e \in entries \/ e = executing \/ (wkPc # "recover" /\ e = current))
  \/ ~Recovering /\ wkPc \in InHand \cup {"resume"} /\ e = current

Leftover(e) == ~disabled /\ wkPc \notin {"off", "stopped"} /\ Present(e) /\ ~Handled(e)

(* Left behind after an interrupt, and not handed out. *)
GivenUp(e) ==
  /\ interrupts > 0
  /\ ~Sent(e)
  /\ regPc = "start" => e < openRound - 1

(* A directory nobody knows of is that of a round that is over or given    *)
(* up, so the loop finds none for a round it receives.                     *)
LeftoverInv ==
  InOrder =>
    /\ \A e \in Epochs : Leftover(e) => RoundEnd(e) < now \/ GivenUp(e)
    /\ wkPc = "mkdir" => ~Present(current)
    /\ wkPc = "init" => rounds[current].file = "empty"
    /\ wkPc = "start" => rounds[current].file = "created" /\ rounds[current].statement = wkRoot

(* recover visits the rounds in their order. *)
VisitInv ==
  NamesInOrder /\ Recovering /\ executing # None => \A f \in entries : executing < f

(* The entry os.ReadDir lists first is the earlier round when names sort as numbers. *)
LEMMA NextInOrder ==
  ASSUME NEW e \in Nat, NEW f \in Nat, e # f, Precedes(e, f), f <= e => Precedes(f, e)
  PROVE  e < f
<1>. SUFFICES ASSUME f < e PROVE FALSE
  OBVIOUS
<1>1. e \div 10 \in Int /\ f \div 10 \in Int
  OBVIOUS
<1>. QED
  BY <1>1 DEF Precedes

(* Every step of recover keeps its order. *)
LEMMA VisitStep ==
  ASSUME ServiceInv, ServiceInv', VisitInv, [Next]_vars
  PROVE  VisitInv'
<1>. SUFFICES ASSUME NamesInOrder, Recovering', executing' # None, NEW f \in entries'
              PROVE  executing' < f
  BY DEF VisitInv, NamesInOrder
<1>1. entries' \subseteq Epochs /\ entries \subseteq Epochs /\ Epochs \subseteq Nat
  BY Constants, Zenon DEF ServiceInv, TypeOK, WorkerType
<1>2. CASE Recovering /\ executing' = executing
  <2>1. f \in entries \/ Start
    <3>1. CASE WorkerActs
      BY <1>2, <3>1, Zenon DEF WorkerActs, WorkerStep, RecoverFinished, RecoverNotStarted,
         RecoverExecuting, RemoveRecovered, RecoverDone, Resume, SkipPastRound, TakeRound,
         DisabledTakeRound, MakeRoundDir, InitRound, StartExecution, ExecutionRefused,
         WriteFirstLeaf, StopWork, CancelWork, FinishProof, PublishProof, PublishEmptyProof,
         WorkerStops, wkVars, recovery
    <3>2. CASE Exit \/ Crash \/ WorkerFails \/ TeardownActs
      BY <3>2, Zenon DEF Exit, Crash, Gone, WorkerGone, WorkerFails, ResumeFails, TeardownActs,
         Teardown, recovery
    <3>3. CASE Interrupt \/ Tick \/ SubmitActs \/ RegistrationActs \/ DatabaseFails \/ UNCHANGED vars
      BY <3>3, OthersLeaveTheWorker DEF WorkerIdle
    <3>. QED
      BY <3>1, <3>2, <3>3 DEF Next
  <2>2. ~Start
    BY DEF Start, WorkerRun
  <2>. QED
    BY <1>2, <2>1, <2>2 DEF VisitInv
<1>3. CASE RecoverExecuting(executing')
  <2>1. /\ executing' \in entries /\ entries' = entries \ {executing'}
        /\ \A g \in entries : Precedes(executing', g)
    BY <1>3 DEF RecoverExecuting, IsNext
  <2>2. f \in Nat /\ executing' \in Nat /\ executing' # f /\ Precedes(executing', f)
    BY <1>1, <2>1
  <2>3. f <= executing' => Precedes(f, executing')
    BY <1>1, <2>1 DEF NamesInOrder
  <2>. QED
    BY <2>2, <2>3, NextInOrder
<1>4. CASE Start
  BY <1>4, Zenon DEF Start, WorkerRun
<1>. QED
  BY <1>2, <1>3, <1>4, RecoverOrigin

(* Run finds every directory, and a disabled worker looks at none. *)
LEMMA StartKnowsAll ==
  ASSUME Start, NEW e \in Epochs
  PROVE  ~Leftover(e)'
<1>1. /\ rounds' = rounds
      /\ disabled' \/ wkPc' = "recover"
      /\ entries' = {d \in Epochs : ~disabled' /\ rounds[d].file # "absent"}
  BY DEF Start, WorkerRun, GoTo
<1>. QED
  BY <1>1, Zenon DEF Present, Leftover, Handled, Recovering

(* How a directory is left behind. *)
LEMMA LeftoverOrigin ==
  ASSUME ServiceInv, RecoverInv, [Next]_vars, NEW e \in Epochs, Leftover(e)'
  PROVE  \/ Leftover(e)
         \/ RoundEnd(e) < now
         \/ WorkerActs /\ CancelWork /\ caller # "resume" /\ e = current
         \/ WorkerActs /\ ExecutionRefused /\ e = current
         \/ WorkerActs /\ RecoverExecuting(executing') /\ e = executing /\ executing' # e
<1>1. Present(e)' => Present(e) \/ (WorkerActs /\ MakeRoundDir /\ e = current)
  BY DirectoryOrigin, Zenon DEF Present
<1>2. CASE WorkerActs
  <2>. ~disabled
    BY <1>2, DisabledStays, Zenon DEF Leftover, WorkerActs, Start, procVars
  <2>. USE DEF Leftover, Handled, Recovering, InHand, GoTo
  <2>1. ASSUME NEW d \in Epochs, RecoverFinished(d) \/ RecoverNotStarted(d) \/ RecoverExecuting(d)
        PROVE  Leftover(e) \/ (RecoverExecuting(executing') /\ e = executing /\ executing' # e)
    <3>1. ~MakeRoundDir
      BY <2>1, Zenon DEF RecoverFinished, RecoverNotStarted, RecoverExecuting, MakeRoundDir
    <3>2. CASE RecoverFinished(d)
      BY <1>1, <3>1, <3>2, Zenon DEF RecoverFinished
    <3>3. CASE RecoverNotStarted(d)
      BY <1>1, <3>1, <3>3, Zenon DEF RecoverNotStarted
    <3>4. CASE RecoverExecuting(d)
      BY <1>1, <3>1, <3>4, Zenon DEF RecoverExecuting, hand
    <3>. QED
      BY <2>1, <3>2, <3>3, <3>4, Zenon
  <2>2. CASE RemoveRecovered
    <3>1. CASE wkPc' = "remove"
      BY <1>1, <2>2, <3>1, Zenon DEF RemoveRecovered, MakeRoundDir, hand, recovery
    <3>2. CASE wkPc' # "remove"
      <4>1. wkPc = "remove" /\ wkPc' = "recover" /\ RemoveDir(current) /\ UNCHANGED <<entries, executing>>
        BY <2>2, <3>2, Zenon DEF RemoveRecovered, recovery
      <4>2. e # current
        BY <4>1, RemoveEffect, Zenon DEF ServiceInv, TypeOK, WorkerInv, Present
      <4>. QED
        BY <1>1, <4>1, <4>2, Zenon DEF MakeRoundDir
    <3>. QED
      BY <3>1, <3>2, Zenon
  <2>3. CASE RecoverDone
    <3>1. /\ wkPc = "recover" /\ entries = {}
          /\ (executing = None /\ wkPc' = "loop") \/ (current' = executing /\ wkPc' = "resume")
      BY <2>3 DEF RecoverDone
    <3>2. e # None
      BY EpochsAreNat, NoneIsNoEpoch
    <3>. QED
      BY <1>1, <3>1, <3>2, Zenon DEF MakeRoundDir
  <2>4. CASE Resume \/ StopWork \/ WriteFirstLeaf \/ MakeRoundDir \/ InitRound \/ StartExecution
    <3>1. /\ wkPc \in {"resume", "work", "plant", "mkdir", "init", "start"}
          /\ wkPc' \in {"work", "prove", "init", "start", "plant"} /\ current' = current
      BY <2>4, Zenon DEF Resume, StopWork, WriteFirstLeaf, MakeRoundDir, InitRound,
         StartExecution, hand
    <3>. QED
      BY <1>1, <3>1
  <2>5. CASE SkipPastRound \/ TakeRound \/ DisabledTakeRound
    <3>1. wkPc = "loop" /\ ~MakeRoundDir
      BY <2>5, Zenon DEF SkipPastRound, TakeRound, DisabledTakeRound, MakeRoundDir
    <3>. QED
      BY <1>1, <3>1
  <2>6. CASE ExecutionRefused
    BY <1>1, <1>2, <2>6, Zenon DEF ExecutionRefused, MakeRoundDir
  <2>7. CASE CancelWork
    BY <1>1, <1>2, <2>7, Zenon DEF CancelWork, MakeRoundDir
  <2>8. CASE FinishProof
    <3>1. wkPc = "prove" /\ wkPc' = "publish" /\ current' = current /\ caller' = caller /\ caller # "recover"
      BY <2>8 DEF FinishProof, hand, ServiceInv, WorkerInv
    <3>. QED
      BY <1>1, <3>1, Zenon DEF MakeRoundDir
  <2>9. CASE PublishProof
    <3>1. /\ wkPc = "publish" /\ UNCHANGED <<caller, current, entries, executing>>
          /\ (caller = "recover" /\ wkPc' = "remove") \/ (caller # "recover" /\ wkPc' = "loop")
      BY <2>9 DEF PublishProof, hand, recovery
    <3>2. caller # "recover" => RoundEnd(current) < now
      BY <3>1, Zenon DEF ServiceInv, WorkerInv
    <3>. QED
      BY <1>1, <3>1, <3>2, Zenon DEF MakeRoundDir
  <2>10. CASE PublishEmptyProof \/ WorkerStops
    BY <1>1, <2>10, Zenon DEF PublishEmptyProof, WorkerStops, MakeRoundDir
  <2>. QED
    BY <1>2, <2>1, <2>2, <2>3, <2>4, <2>5, <2>6, <2>7, <2>8, <2>9, <2>10, Zenon DEF WorkerActs,
       WorkerStep
<1>3. CASE Start
  BY <1>3, StartKnowsAll
<1>4. CASE Exit \/ Crash \/ WorkerFails
  BY <1>4, Zenon DEF Exit, Crash, Gone, WorkerGone, WorkerFails, ResumeFails, GoTo, Leftover
<1>5. CASE TeardownActs
  <2>1. UNCHANGED <<wkPc, caller, current, entries, executing, disabled>>
    BY <1>5, Zenon DEF TeardownActs, Teardown, hand, recovery
  <2>2. ~WorkerActs \/ ~MakeRoundDir
    BY <2>1, Zenon DEF MakeRoundDir, GoTo
  <2>. QED
    BY <1>1, <2>1, <2>2, Zenon DEF Leftover, Handled, Recovering
<1>6. CASE Interrupt \/ Tick \/ SubmitActs \/ RegistrationActs \/ DatabaseFails \/ UNCHANGED vars
  BY <1>6, OthersLeaveTheWorker, Zenon DEF WorkerIdle, Leftover, Handled, Recovering, Present
<1>. QED
  BY <1>2, <1>3, <1>4, <1>5, <1>6, Zenon DEF Next

(* A directory left behind by an interrupt is not handed out again. *)
LEMMA GivenUpStays ==
  ASSUME ServiceInv, ServiceInv', RecoverInv, HandInv, [Next]_vars, failures' = 0,
         NEW e \in Epochs, Leftover(e), Leftover(e)', GivenUp(e)
  PROVE  GivenUp(e)'
<1>. e \in Nat /\ openRound \in Nat
  BY Constants, Zenon DEF ServiceInv, TypeOK, RegistrationType
<1>1. interrupts' > 0
  BY FaultsGrow DEF ServiceInv, TypeOK, GivenUp
<1>2. failures = 0
  BY FaultsGrow
<1>3. ~Start
  BY StartKnowsAll
<1>4. ~Sent(e)'
  <2>1. regPc = "execute" => e # openRound
    BY <1>2 DEF HandInv, Out, Leftover, Present
  <2>2. regPc = "start" => e # openRound - 1
    BY DEF GivenUp
  <2>. QED
    BY <2>1, <2>2, SentOrigin DEF GivenUp
<1>5. regPc' = "start" => e < openRound' - 1
  <2>1. regPc' = "start" => regPc = "start" /\ openRound' = openRound
    BY <1>3, StartOrigin, OpenRoundChange
  <2>. QED
    BY <2>1 DEF GivenUp
<1>. QED
  BY <1>1, <1>4, <1>5 DEF GivenUp

(* A directory that is left behind is that of a round that is over, or     *)
(* given up because of an interrupt.                                       *)
LEMMA LeftoverStep ==
  ASSUME ServiceInv, ServiceInv', RecoverInv, ExecutionInv, HandInv, VisitInv, LeftoverInv,
         [Next]_vars, InOrder', NEW e \in Epochs, Leftover(e)'
  PROVE  RoundEnd(e) < now' \/ GivenUp(e)'
<1>. e \in Nat /\ openRound \in Nat /\ interrupts \in Nat /\ failures \in Nat
  BY Constants, Zenon DEF ServiceInv, TypeOK, RegistrationType
<1>0. InOrder
  BY FaultsGrow DEF InOrder, NamesInOrder
<1>1. RoundEnd(e) < now => RoundEnd(e) < now'
  BY ClockRuns
<1>2. CASE Leftover(e) /\ ~(RoundEnd(e) < now)
  <2>1. GivenUp(e)
    BY <1>0, <1>2, Zenon DEF LeftoverInv
  <2>2. failures' = 0
    BY <2>1, FaultsGrow DEF GivenUp, InOrder
  <2>. QED
    BY <1>2, <2>1, <2>2, GivenUpStays
<1>3. CASE WorkerActs /\ CancelWork /\ caller # "resume" /\ e = current
  <2>1. wkPc = "work" /\ ctxDone /\ UNCHANGED <<closedRounds, openRound, regPc, interrupts, failures>>
    BY <1>3, Zenon DEF CancelWork, channels, WorkerActs, regVars, regMemory, procVars, faultVars
  <2>2. caller = "loop"
    BY <1>3, <2>1, Zenon DEF ServiceInv, TypeOK, WorkerType, WorkerInv, InHand
  <2>3. interrupts > 0
    BY <2>1, <2>2 DEF ExecutionInv, Early
  <2>4. failures = 0
    BY <1>0, <2>3 DEF InOrder
  <2>5. ~Sent(e)
    BY <1>3, <2>1, <2>2, <2>4 DEF HandInv, AtWork
  <2>6. regPc # "start"
    BY <2>1, <2>2 DEF RecoverInv, Early
  <2>. QED
    BY <2>1, <2>3, <2>5, <2>6 DEF GivenUp, Sent
<1>4. CASE ExecutionRefused /\ e = current
  BY <1>0, <1>4, Zenon DEF ExecutionRefused, HasLayers, LeftoverInv
<1>5. CASE WorkerActs /\ RecoverExecuting(executing') /\ e = executing /\ executing' # e
  <2>1. /\ UNCHANGED <<closedRounds, openRound, regPc, interrupts, failures>>
        /\ executing' \in entries /\ wkPc = "recover" /\ Running(executing')
    BY <1>5, Zenon DEF RecoverExecuting, IsNext, Running, channels, WorkerActs, regVars,
       regMemory, procVars, faultVars
  <2>2. executing' \in Epochs /\ Running(e) /\ Recovering
    <3>1. Recovering /\ e # None
      BY <2>1, EpochsAreNat, NoneIsNoEpoch DEF Recovering
    <3>. QED
      BY <1>5, <2>1, <3>1, Zenon DEF RecoverInv, ServiceInv, TypeOK, WorkerType
  <2>3. interrupts > 0
    BY <1>5, <2>1, <2>2 DEF ExecutionInv, OneExecution, Running
  <2>4. failures = 0 /\ NamesInOrder
    BY <1>0, <2>3 DEF InOrder
  <2>5. e < executing'
    BY <1>5, <2>1, <2>2, <2>4, EpochsAreNat, NoneIsNoEpoch, Zenon DEF VisitInv
  <2>6. Present(executing')
    BY <2>1, Zenon DEF Running, Present
  <2>7. ~Sent(e)
    BY <2>2, <2>4, <2>5, <2>6, EpochsAreNat DEF HandInv
  <2>8. regPc = "start" => executing' < openRound
    BY <2>2, <2>4, <2>6 DEF HandInv, Out
  <2>9. regPc = "start" => e < openRound - 1
    BY <2>2, <2>5, <2>8, EpochsAreNat
  <2>. QED
    BY <2>1, <2>3, <2>7, <2>9, Zenon DEF GivenUp, Sent
<1>. QED
  BY <1>1, <1>2, <1>3, <1>4, <1>5, LeftoverOrigin, Zenon

(* What leads the worker to prepare a directory. *)
LEMMA AfreshOrigin ==
  ASSUME ServiceInv, [Next]_vars, wkPc' \in {"mkdir", "init", "start"}
  PROVE  \/ WorkerActs /\ (TakeRound \/ MakeRoundDir \/ InitRound)
         \/ UNCHANGED <<wkPc, current, wkRoot>>
<1>. USE DEF GoTo
<1>1. CASE WorkerActs
  BY <1>1, Zenon DEF WorkerActs, WorkerStep, RecoverFinished, RecoverNotStarted, RecoverExecuting,
     RemoveRecovered, RecoverDone, Resume, SkipPastRound, TakeRound, DisabledTakeRound,
     MakeRoundDir, InitRound, StartExecution, ExecutionRefused, WriteFirstLeaf, StopWork,
     CancelWork, FinishProof, PublishProof, PublishEmptyProof, WorkerStops, wkVars, hand
<1>2. CASE TeardownActs
  BY <1>2, Zenon DEF TeardownActs, Teardown, hand
<1>3. CASE Start \/ Exit \/ Crash \/ WorkerFails
  BY <1>3, Zenon DEF Start, Exit, Crash, Gone, WorkerRun, WorkerGone, WorkerFails, ResumeFails
<1>4. CASE Interrupt \/ Tick \/ SubmitActs \/ RegistrationActs \/ DatabaseFails \/ UNCHANGED vars
  BY <1>4, OthersLeaveTheWorker DEF WorkerIdle
<1>. QED
  BY <1>1, <1>2, <1>3, <1>4 DEF Next

(* The loop finds no directory for the round it receives.                  *)
LEMMA TakeRoundAfresh ==
  ASSUME ServiceInv, LeftoverInv, InOrder, TakeRound
  PROVE  ~Present(current')
<1>. DEFINE e == current'
<1>1. closedRounds \in Seq(ClosedRounds) /\ closedRounds # <<>> /\ e = closedRounds[1].epoch
  BY DEF TakeRound, ServiceInv, TypeOK, RuntimeType
<1>2. 1 \in 1 .. Len(closedRounds) /\ closedRounds[1] \in ClosedRounds
  BY <1>1
<1>3. Sent(e) /\ e \in Epochs
  BY <1>1, <1>2 DEF Sent, ClosedRounds
<1>4. wkPc = "loop" /\ ~disabled /\ ~(RoundEnd(e) < now)
  BY Zenon DEF TakeRound, IsPast
<1>5. ~Leftover(e)
  BY <1>3, <1>4, Zenon DEF LeftoverInv, GivenUp
<1>. QED
  BY <1>4, <1>5 DEF Leftover, Handled, Recovering, InHand

(* What Execute finds, from the mkdir on. *)
LEMMA AfreshStep ==
  ASSUME ServiceInv, ServiceInv', LeftoverInv, [Next]_vars, InOrder
  PROVE  /\ wkPc' = "mkdir" => ~Present(current)'
         /\ wkPc' = "init" => rounds'[current'].file = "empty"
         /\ wkPc' = "start" => rounds'[current'].file = "created" /\ rounds'[current'].statement = wkRoot'
<1>. SUFFICES ASSUME wkPc' \in {"mkdir", "init", "start"}
              PROVE  /\ wkPc' = "mkdir" => ~Present(current)'
                     /\ wkPc' = "init" => rounds'[current'].file = "empty"
                     /\ wkPc' = "start" => rounds'[current'].file = "created" /\ rounds'[current'].statement = wkRoot'
  BY Zenon
<1>1. CASE TakeRound
  <2>1. wkPc' = "mkdir" /\ rounds' = rounds
    BY <1>1 DEF TakeRound, GoTo
  <2>. QED
    BY <1>1, <2>1, TakeRoundAfresh DEF Present
<1>2. CASE MakeRoundDir
  <2>1. wkPc = "mkdir" /\ wkPc' = "init" /\ current' = current /\ current \in Epochs
    BY <1>2, Zenon DEF MakeRoundDir, GoTo, hand, ServiceInv, WorkerInv, InHand
  <2>2. rounds[current].file = "absent"
    BY <2>1, Zenon DEF LeftoverInv, Present
  <2>. QED
    BY <1>2, <2>1, <2>2, SetFileEffect, Zenon DEF MakeRoundDir, Files, ServiceInv, TypeOK
<1>3. CASE InitRound
  <2>1. wkPc = "init" /\ wkPc' = "start" /\ UNCHANGED <<current, wkRoot>> /\ current \in Epochs
    BY <1>3, Zenon DEF InitRound, GoTo, hand, ServiceInv, WorkerInv, InHand
  <2>2. rounds' = [rounds EXCEPT ![current] = [file |-> "created", statement |-> wkRoot, nip |-> None]]
    BY <1>3, <2>1, Zenon DEF InitRound, LeftoverInv
  <2>3. rounds'[current] = [file |-> "created", statement |-> wkRoot, nip |-> None]
    BY <2>1, <2>2, Zenon DEF ServiceInv, TypeOK, WorkerType
  <2>4. rounds'[current].file = "created" /\ rounds'[current].statement = wkRoot
    BY <2>3
  <2>. QED
    BY <2>1, <2>4, Zenon
<1>4. CASE UNCHANGED <<wkPc, current, wkRoot>>
  <2>1. current \in Epochs /\ current \notin teardowns
    BY <1>4, Zenon DEF ServiceInv, WorkerInv, InHand
  <2>2. rounds'[current] = rounds[current]
    BY <1>4, <2>1, DirectoryChange DEF RecoverNotStarted, RemoveRecovered, MakeRoundDir, InitRound,
       StartExecution, WriteFirstLeaf, FinishProof, GoTo
  <2>. QED
    BY <1>4, <2>2, Zenon DEF LeftoverInv, Present
<1>. QED
  BY <1>1, <1>2, <1>3, <1>4, AfreshOrigin, Zenon

------------------------------------------------------------------------------
(* Theorems *)

(* Together with PoetInv inductive. *)
RoundsInv ==
  /\ RecoverInv
  /\ ExecutionInv
  /\ RecordInv
  /\ ChannelInv
  /\ HandInv
  /\ VisitInv
  /\ LeftoverInv

(* A server that never ran satisfies the invariants of this module. *)
LEMMA RoundsInit == Init => RoundsInv
<1>. SUFFICES ASSUME Init PROVE RoundsInv
  OBVIOUS
<1>1. \A e \in Epochs : ~Present(e) /\ ~Running(e) /\ rounds[e].file # "finished" /\ proofDb[e] = None
  BY Zenon DEF Init, RegistrationInit, WorkerInit, Absent, Present, Running
<1>2. wkPc = "off" /\ regPc = "off" /\ closedRounds = <<>> /\ proofs = <<>> /\ ctxDone = FALSE
  BY Zenon DEF Init, RegistrationInit, WorkerInit
<1>3. RecoverInv
  BY <1>1, <1>2, Zenon DEF RecoverInv, Recovering
<1>4. ExecutionInv
  BY <1>1, <1>2, Zenon DEF ExecutionInv, PhasesInv, Recovering, OneExecution, Running
<1>5. RecordInv
  <2>1. \A r \in Nips : ~IsRecord(r)
    BY <1>1, <1>2 DEF IsRecord, Nips
  <2>. QED
    BY <1>1, <2>1, Zenon DEF RecordInv
<1>6. ChannelInv /\ HandInv
  BY <1>2 DEF ChannelInv, HandInv, AtWork, Recovering
<1>7. VisitInv /\ LeftoverInv
  BY <1>2, Zenon DEF VisitInv, LeftoverInv, Leftover, Recovering
<1>. QED
  BY <1>3, <1>4, <1>5, <1>6, <1>7 DEF RoundsInv

(* What becomes of the rounds, for every calendar, any members and any     *)
(* number of crashes, interrupts and failures.                             *)
THEOREM RoundsInvariant == Spec => [](PoetInv /\ RoundsInv)
<1>1. Init => RoundsInv
  BY RoundsInit
<1>2. PoetInv /\ PoetInv' /\ RoundsInv /\ [Next]_vars => RoundsInv'
  <2>. SUFFICES ASSUME PoetInv, PoetInv', RoundsInv, [Next]_vars PROVE RoundsInv'
    OBVIOUS
  <2>0. ServiceInv /\ ServiceInv' /\ FrozenInv
    BY DEF PoetInv
  <2>1. RecoverInv' /\ ExecutionInv' /\ RecordInv'
    BY <2>0, RecoverStep, ExecutionStep, RecordStep DEF RoundsInv
  <2>2. ChannelInv' /\ HandInv' /\ VisitInv'
    BY <2>0, ChannelStep, HandStep, VisitStep DEF RoundsInv
  <2>3. LeftoverInv'
    <3>1. InOrder' => InOrder
      BY <2>0, FaultsGrow, Zenon DEF InOrder, NamesInOrder
    <3>2. InOrder' => \A e \in Epochs : Leftover(e)' => RoundEnd(e) < now' \/ GivenUp(e)'
      BY <2>0, LeftoverStep, Zenon DEF RoundsInv
    <3>. QED
      BY <2>0, <3>1, <3>2, AfreshStep, Zenon DEF RoundsInv, LeftoverInv
  <2>. QED
    BY <2>1, <2>2, <2>3 DEF RoundsInv
<1>. QED
  BY <1>1, <1>2, PoetInvariant, PTL DEF Spec

(* There is never more than one execution on disk for recover to find, as  *)
(* long as the server is not interrupted: the loop starts a round only     *)
(* when no other is executed.                                              *)
THEOREM OneExecutionOnly == Spec => []OneExecution
<1>1. RoundsInv => OneExecution
  BY Zenon DEF RoundsInv, ExecutionInv, OneExecution
<1>. QED
  BY <1>1, RoundsInvariant, PTL

(* Execute starts only in a directory that NewRound has just made.         *)
THEOREM StartsOnlyAfresh == Spec => []StartsAfresh
<1>1. PoetInv /\ RoundsInv => StartsAfresh
  BY Zenon DEF PoetInv, ServiceInv, WorkerInv, InHand, RoundsInv, LeftoverInv, StartsAfresh
<1>. QED
  BY <1>1, RoundsInvariant, PTL

(* A proof that is stored is never replaced by another: what onNewProof    *)
(* stores again, after a restart, is the same proof with the same members, *)
(* unless a restart has changed DisableWorker.                             *)
THEOREM ProofsAreStable == Spec => ProofStable
<1>. DEFINE Kept == switches = 0 => \A e \in Epochs : proofDb[e] # None => proofDb'[e] = proofDb[e]
<1>1. PoetInv /\ PoetInv' /\ RoundsInv /\ [Next]_vars => Kept
  BY StableStep, Zenon DEF PoetInv, RoundsInv
<1>. QED
  BY <1>1, RoundsInvariant, PTL DEF Spec, ProofStable
==============================================================================
