-------------------------------- MODULE Worker -------------------------------
(***************************************************************************)
(* The worker service (service/service.go, service/round.go): recovery at  *)
(* start, the loop that receives closed rounds and generates their proofs, *)
(* and the teardown of finished rounds.  The prover appears as far as the  *)
(* worker depends on it: its first layer file, the sequential work until   *)
(* the end of the round, and the proof generated afterwards.               *)
(***************************************************************************)
EXTENDS Runtime

VARIABLES
  rounds,     \* disk: epoch -> the round's directory; see Files
  wkPc,       \* where Run is; see WorkerPcs
  caller,     \* which part of Run handles the round in hand
  current,    \* the epoch in hand, or None
  wkRoot,     \* the membership root received with it
  entries,    \* recover: directory entries not visited yet
  executing,  \* recover: the round to resume, or None
  teardowns,  \* rounds being removed by teardown goroutines
  disabled,   \* the disabledService stands in for the worker (DisableWorker)
  nips        \* number of proofs generated so far; numbers the proofs

hand == <<caller, current, wkRoot>>
recovery == <<entries, executing>>
wkVars == <<rounds, wkPc, hand, recovery, teardowns, disabled, nips>>

(* A round's directory.  "empty": no state file.  "created", "started",    *)
(* "finished": what the state file says; "tree": started, and the prover   *)
(* has written its layer 0 file.                                           *)
Files == {"absent", "empty", "created", "started", "tree", "finished"}

Absent == [file |-> "absent", statement |-> None, nip |-> None]

WorkerPcs == {"off", "recover", "resume", "loop", "mkdir", "init", "start", "plant",
              "work", "prove", "publish", "remove", "announce", "stopped"}

WorkerInit ==
  /\ rounds = [e \in Epochs |-> Absent]
  /\ wkPc = "off"
  /\ caller = "loop"
  /\ current = None
  /\ wkRoot = None
  /\ entries = {}
  /\ executing = None
  /\ teardowns = {}
  /\ disabled \in BOOLEAN
  /\ nips = 0

SetFile(e, file) == rounds' = [rounds EXCEPT ![e].file = file]
GoTo(pc) == wkPc' = pc

(* os.RemoveAll is not atomic: the files go first, then the directory. *)
RemoveFiles(e) == rounds' = [rounds EXCEPT ![e] = [Absent EXCEPT !.file = "empty"]]
RemoveDir(e) == rounds' = [rounds EXCEPT ![e] = Absent]
------------------------------------------------------------------------------
(* recover *)

(* Each start reads DisableWorker.  Run: os.ReadDir of the rounds          *)
(* directory; a disabled service does not look at it.                      *)
WorkerRun ==
  /\ disabled' \in BOOLEAN
  /\ entries' = {e \in Epochs : ~disabled' /\ rounds[e].file # "absent"}
  /\ executing' = None
  /\ teardowns' = {}
  /\ GoTo(IF disabled' THEN "loop" ELSE "recover")
  /\ UNCHANGED <<rounds, hand, nips>>

(* os.ReadDir sorts by name: "10" comes before "9" (names of one or two    *)
(* digits are enough here).                                                *)
Precedes(e, f) ==
  IF e < 10 /\ f >= 10 THEN e <= f \div 10
  ELSE IF e >= 10 /\ f < 10 THEN e \div 10 < f
  ELSE e <= f

IsNext(e) == e \in entries /\ \A f \in entries : Precedes(e, f)

RecoverFinished(e) ==
  /\ wkPc = "recover"
  /\ IsNext(e)
  /\ rounds[e].file = "finished"
  /\ entries' = entries \ {e}
  /\ current' = e
  /\ caller' = "recover"
  /\ GoTo("publish")
  /\ UNCHANGED <<rounds, wkRoot, executing, teardowns, disabled, nips, channels>>

(* NewRound saves a state, without a statement, in a directory that has     *)
(* none; the round is removed all the same.                                *)
RecoverNotStarted(e) ==
  /\ wkPc = "recover"
  /\ IsNext(e)
  /\ rounds[e].file \in {"empty", "created"}
  /\ SetFile(e, "created")
  /\ entries' = entries \ {e}
  /\ current' = e
  /\ GoTo("remove")
  /\ UNCHANGED <<caller, wkRoot, executing, teardowns, disabled, nips, channels>>

RecoverExecuting(e) ==
  /\ wkPc = "recover"
  /\ IsNext(e)
  /\ rounds[e].file \in {"started", "tree"}
  /\ entries' = entries \ {e}
  /\ executing' = e
  /\ UNCHANGED <<rounds, wkPc, hand, teardowns, disabled, nips, channels>>

(* Teardown(cleanup) as recover calls it, synchronously. *)
RemoveRecovered ==
  /\ wkPc = "remove"
  /\ \/ /\ rounds[current].file # "empty"
        /\ RemoveFiles(current)
        /\ UNCHANGED wkPc
     \/ /\ rounds[current].file = "empty"
        /\ RemoveDir(current)
        /\ GoTo("recover")
  /\ UNCHANGED <<hand, recovery, teardowns, disabled, nips, channels>>

RecoverDone_ForgetsExecuting ==
  /\ wkPc = "recover"
  /\ entries = {}
  /\ GoTo("loop")
  /\ UNCHANGED <<rounds, hand, recovery, teardowns, disabled, nips, channels>>

RecoverDone ==
  /\ wkPc = "recover"
  /\ entries = {}
  /\ \/ /\ executing = None
        /\ GoTo("loop")
        /\ UNCHANGED <<caller, current>>
     \/ /\ executing # None
        /\ current' = executing
        /\ caller' = "resume"
        /\ GoTo("resume")
  /\ UNCHANGED <<rounds, wkRoot, recovery, teardowns, disabled, nips, channels>>

(* RecoverExecution, makeRecoveryProofTree: the layer 0 file must exist, and *)
(* the saved leaves fill a node of the top layer file.                      *)
Resume ==
  /\ wkPc = "resume"
  /\ rounds[current].file = "tree"
  /\ GoTo("work")
  /\ UNCHANGED <<rounds, hand, recovery, teardowns, disabled, nips, channels>>

(* Otherwise Run fails and the error group cancels the server's context.   *)
(* The leaves are counted in Prover and not here, so that with layer files *)
(* either may happen.                                                      *)
ResumeFails ==
  /\ wkPc = "resume"
  /\ rounds[current].file \in {"started", "tree"}
  /\ ctxDone' = TRUE
  /\ GoTo("stopped")
  /\ UNCHANGED <<rounds, hand, recovery, teardowns, disabled, nips, channels>>
------------------------------------------------------------------------------
(* loop *)

IsPast_Never(e) == FALSE

IsPast_OnceStarted(e) == RoundStart(e) <= now

IsPast(e) == RoundEnd(e) < now

SkipPastRound ==
  /\ wkPc = "loop"
  /\ ~disabled
  /\ closedRounds # <<>>
  /\ IsPast(Head(closedRounds).epoch)
  /\ ReceiveClosedRound
  /\ UNCHANGED wkVars

TakeRound ==
  /\ wkPc = "loop"
  /\ ~disabled
  /\ closedRounds # <<>>
  /\ ~IsPast(Head(closedRounds).epoch)
  /\ current' = Head(closedRounds).epoch
  /\ wkRoot' = Head(closedRounds).membershipRoot
  /\ caller' = "loop"
  /\ ReceiveClosedRound
  /\ GoTo("mkdir")
  /\ UNCHANGED <<rounds, recovery, teardowns, disabled, nips>>

(* NewRound: MkdirAll ... *)
MakeRoundDir ==
  /\ wkPc = "mkdir"
  /\ IF rounds[current].file = "absent" THEN SetFile(current, "empty")
     ELSE UNCHANGED rounds
  /\ GoTo("init")
  /\ UNCHANGED <<hand, recovery, teardowns, disabled, nips, channels>>

(* ... then the state found there wins; without one the new state, which   *)
(* holds the statement, is saved.                                          *)
InitRound ==
  /\ wkPc = "init"
  /\ IF rounds[current].file = "empty"
     THEN rounds' = [rounds EXCEPT ![current] =
                       [file |-> "created", statement |-> wkRoot, nip |-> None]]
     ELSE UNCHANGED rounds
  /\ GoTo("start")
  /\ UNCHANGED <<hand, recovery, teardowns, disabled, nips, channels>>

(* makeProofTree: "datadir is not empty". *)
HasLayers(e) == rounds[e].file \in {"tree", "finished"}

(* Execute: save the start of the execution ... *)
StartExecution ==
  /\ wkPc = "start"
  /\ ~HasLayers(current)
  /\ SetFile(current, "started")
  /\ GoTo("plant")
  /\ UNCHANGED <<hand, recovery, teardowns, disabled, nips, channels>>

(* ... which fails over an earlier execution of the round: the loop logs it *)
(* and goes on, and the round is torn down without cleanup.                *)
ExecutionRefused ==
  /\ wkPc = "start"
  /\ HasLayers(current)
  /\ GoTo("loop")
  /\ UNCHANGED <<rounds, hand, recovery, teardowns, disabled, nips, channels>>

(* ... makeProofTree and the first leaf: layer 0 appears on disk. *)
WriteFirstLeaf ==
  /\ wkPc = "plant"
  /\ SetFile(current, "tree")
  /\ GoTo("work")
  /\ UNCHANGED <<hand, recovery, teardowns, disabled, nips, channels>>
------------------------------------------------------------------------------
(* sequentialWork and generateProof, for Execute and RecoverExecution *)

(* The end of the round is reached. *)
StopWork ==
  /\ wkPc = "work"
  /\ now >= RoundEnd(current)
  /\ GoTo("prove")
  /\ UNCHANGED <<rounds, hand, recovery, teardowns, disabled, nips, channels>>

(* The context is cancelled: progress is kept, Teardown without cleanup.   *)
(* A resumed round ends the loop, any other returns to it.                 *)
CancelWork ==
  /\ wkPc = "work"
  /\ ctxDone
  /\ GoTo(IF caller = "resume" THEN "stopped" ELSE "loop")
  /\ UNCHANGED <<rounds, hand, recovery, teardowns, disabled, nips, channels>>

(* The proof is generated, which takes some time, and saved. *)
FinishProof ==
  /\ wkPc = "prove"
  /\ now > RoundEnd(current)
  /\ nips' = nips + 1
  /\ rounds' = [rounds EXCEPT ![current].file = "finished", ![current].nip = nips + 1]
  /\ GoTo("publish")
  /\ UNCHANGED <<hand, recovery, teardowns, disabled, channels>>

(* onNewProof: an error is logged and forgotten.  The round is removed     *)
(* either way, by recover itself or by a new goroutine.                    *)
Nip(e) == [epoch |-> e, nip |-> rounds[e].nip, statement |-> rounds[e].statement]

PublishProof ==
  /\ wkPc = "publish"
  /\ NewProofSends(Nip(current)) \/ NewProofCancelled
  /\ \/ /\ caller = "recover"
        /\ GoTo("remove")
        /\ UNCHANGED teardowns
     \/ /\ caller # "recover"
        /\ teardowns' = teardowns \cup {current}
        /\ GoTo("loop")
  /\ UNCHANGED <<rounds, hand, recovery, disabled, nips>>

Teardown(e) ==
  /\ e \in teardowns
  /\ \/ /\ rounds[e].file # "empty"
        /\ RemoveFiles(e)
        /\ UNCHANGED teardowns
     \/ /\ rounds[e].file = "empty"
        /\ RemoveDir(e)
        /\ teardowns' = teardowns \ {e}
  /\ UNCHANGED <<wkPc, hand, recovery, disabled, nips, channels>>

(* disabledService.Run: every closed round gets an empty proof, number 0. *)
DisabledTakeRound ==
  /\ wkPc = "loop"
  /\ disabled
  /\ closedRounds # <<>>
  /\ current' = Head(closedRounds).epoch
  /\ ReceiveClosedRound
  /\ GoTo("announce")
  /\ UNCHANGED <<rounds, caller, wkRoot, recovery, teardowns, disabled, nips>>

PublishEmptyProof ==
  /\ wkPc = "announce"
  /\ \/ NewProofSends([epoch |-> current, nip |-> 0, statement |-> {}])
     \/ NewProofCancelled
  /\ GoTo("loop")
  /\ UNCHANGED <<rounds, hand, recovery, teardowns, disabled, nips>>

WorkerStops ==
  /\ wkPc = "loop"
  /\ ctxDone
  /\ GoTo("stopped")
  /\ UNCHANGED <<rounds, hand, recovery, teardowns, disabled, nips, channels>>

(* The steps that leave the context alone. *)
WorkerStep ==
  \/ \E e \in Epochs : RecoverFinished(e) \/ RecoverNotStarted(e) \/ RecoverExecuting(e)
  \/ RemoveRecovered
  \/ RecoverDone
  \/ Resume
  \/ SkipPastRound
  \/ TakeRound
  \/ MakeRoundDir
  \/ InitRound
  \/ StartExecution
  \/ ExecutionRefused
  \/ WriteFirstLeaf
  \/ StopWork
  \/ CancelWork
  \/ FinishProof
  \/ PublishProof
  \/ DisabledTakeRound
  \/ PublishEmptyProof
  \/ WorkerStops

(* The process is gone: only the disk is left. *)
WorkerGone ==
  /\ GoTo("off")
  /\ entries' = {}
  /\ executing' = None
  /\ teardowns' = {}
  /\ UNCHANGED <<rounds, hand, disabled, nips>>
==============================================================================
