# TLA+ specification of the PoET server

PoET runs rounds. While a round is *open*, nodes register challenges. At its
start the round is closed, the Merkle root of its members becomes the statement
of a proof of sequential work, and the worker computes until the round ends. The
proof is stored together with the members and served to the nodes. This directory
specifies that life of a round: who is admitted, how submits are batched, how the
round is closed and executed, how the Merkle tree of an execution survives
crashes, and how a server starts. Concurrent submits, timers, full channels,
failing databases, interrupts, crashes and restarts are part of it.

## The system and its parts

| Part | Source | Module | State |
|---|---|---|---|
| Registration round: batches, flush timer, database, root | `registration/round.go` | `RegistrationRound` (promise: `RoundRegistry`) | modelled, proved |
| Registration service: schedule, close, recover, store proofs | `registration/registration.go` | `Registration` | modelled, proved in `Poet` |
| Admission: RPC submit, certificates, trusted keys, PoW, deadline | `rpc/rpcserver.go`, `registration.go`, `registration/pow_verifier.go`, `shared/cert.go`, `shared/pow.go` | `Admission` | modelled, proved; `Info` and `Proof` left out |
| Proofs database | `registration/db.go` | `Registration`, `Admission`, `Startup` | modelled |
| Transport between the services | `transport/memory.go` | `Runtime` | modelled |
| Worker: recovery, loop, publishing, teardown | `service/service.go` | `Worker` | modelled, proved in `Poet` |
| Disabled worker | `service/disabled_service.go` | `Worker` | modelled |
| Round directory and state file | `service/round.go`, `state/state.go` | `Worker`, `Prover` | modelled |
| Prover: leaves, layer files, checkpoints, recovery, proof | `prover/*.go` | `Prover` (promise: `ProvenWork`) | modelled, proved |
| Labels, tree hashes, challenge derivation, verification | `shared/shared.go`, `hash/hash.go`, `verifier/verifier.go` | `ProofTree` | modelled over symbolic hashes, proved |
| Round calendar | `server/config.go` | `RoundSchedule` | modelled, proved |
| Configuration, migration, server key, start | `poet.go`, `server/config.go`, `server/state.go`, `db/`, `migrations/` | `Startup` | modelled, proved |
| Process: start, interrupt, exit, crash | `server/server.go`, `poet.go` | `Poet` | partly (no listeners) |
| Encodings, logging, metrics, thread ids, benchmark, generated code | `shared/*_scale.go`, `logging/`, `service/tid/`, `cmd/`, `release/` | – | not modelled, see the end |

Two goroutines carry the system. `Registration.Run` owns the open round: it closes
it when its start is due, hands the root to the worker and stores the proofs that
come back. `Service.Run` first recovers what it finds on disk and then executes
closed rounds one by one. They talk through two channels with a buffer of one. The
first never blocks the sender, which drops the round when the buffer is full; the
second blocks it. Submits run in their own goroutines against the open round.

The modules cut the system at four places. `RegistrationRound` looks into one
round, and `Admission` and `Registration` use it as `RoundRegistry` promises it.
`Prover` looks into one execution, of which `Worker` sees the first layer file, the
end and the proof. `Startup` ends where `Poet` begins. `Poet` composes the rest.

`PROJECT.json` holds the map from definitions to source lines, the runs, the
mutants, the findings, the hazards and the theorems.

## Modules

**`RegistrationRound`** is one round. `db` is the LevelDB, `pending` both
`pendingSubmits` and the batch, which are filled and cleared together. `holder`
and `flush` are `batchMutex` and the progress of `flushPendingSubmitsLocked`, whose
write and replies are two steps since the process may stop in between. `fired`
counts goroutines of expired timers that still wait for the mutex; `phase` follows
`closeRound`, `round.Close` and restarts; `calls` and `done` are the callers of
`Registration.Submit` and their channels. A write may fail: then nothing is on
disk and every caller gets the error, but the batch is counted as members all the
same (`round.go:230`). The root is the database contents it was computed from,
which a collision-free Merkle root determines. An iteration over the database, for the
root or for the count of `newRound`, may break off: nobody asks the iterator for its
error, so that a part of the members is taken for all of them (`Iterate`). A
`closeRound` that fails after `round.Close` leaves the closed round in place; submits
to it fail and `Run` closes it again, with an empty root (`LeftInPlace`, `again`).
`newRound` may reopen the round for submits after any stop that no root preceded, which
is more than the clock permits.

**`RoundRegistry`** is what a round promises, without batches, timers and mutexes:
a key registers once, the capacity holds, "ok" is only answered to members, the
root freezes the round, and a root taken again is the same or that of nobody. After a
broken iteration (`reliable` is false) it promises neither capacity nor root.

**`RoundSchedule`** holds `RoundStart`, `RoundEnd` and `OpenRoundId`; genesis is 0.

**`Runtime`** holds what the services share: clock, context, both channels.

**`Registration`** has one action per step of `Run` between which something else
may happen. `closeRound` is three actions (`CloseRound`, `ExecuteClosedRound`,
`OpenNextRound`) because time passes and the context may be cancelled between
them; `openRoundMutex` is held throughout, so `Submit` is not enabled there. A
round's database is the set of its members. `Submit` is one atomic registration.
`OpenNextRoundFails`, `SaveProofFails` and `RecoverExecutionFails` are LevelDB
errors: the first leaves the closed round in place, so that it is closed a second
time with an empty root; the second loses the proof; the third stops the server.

**`Worker`** has one action per write to disk or channel operation of `Run`,
`recover`, `loop`, `NewRound`, `Execute`, `RecoverExecution`, `onNewProof` and
`Teardown`. A round directory is `empty`, `created`, `started`, `tree` (the prover
has written its first layer file) or `finished`. State files are replaced
atomically (`state.Persist`); removing a directory takes two steps. With
`disabled` the worker is `disabledService`, which answers every closed round with
an empty proof, number 0; every start chooses it anew, as `server.New` does. The
worker does not count leaves, so `Resume` and `ResumeFails` are both possible once
there are layer files; when exactly a recovery fails is in `Prover`.

**`Poet`** composes the two with `Start`, `Interrupt`, `Exit`, `Crash`,
`DatabaseFails` and `Tick`. `Interrupt` cancels the context of `server.Start`; so
does a failing service. After that a service stops when its `select` picks
`ctx.Done`, which Go does at random among the ready cases, so other cases may still
run first. With `Punctual` the clock waits, until an interrupt, for steps that are
ready. `switches` counts the restarts that change `DisableWorker`.

**`ProofTree`** has the pure operators: the two hash functions, `MakeLabel`,
`FiatShamir`, the tree with its layer caches and parked nodes, the tree that
`makeRecoveryProofTree` puts together, the proof, and `Validate`. Hashes are
symbolic: for a fixed statement node number *i* of layer *l* of the right tree is
`<<l, i>>`, and the hash of anything else is `Bad`. The merkle-tree library and
sha256 are external and modelled from their use here. `Digest` stands in for sha256 in
`FiatShamir`: it draws the same index more than once and reaches every index.

**`Prover`** is one execution. `tree` is the tree in memory with everything still
buffered, `files` what is in the layer files, `numLeaves` and `nip` the state
file. `sequentialWork` is a loop of `AppendLeaf` and one of the cases of its
`select`; `persist` is two steps, the flush of the files (`GetReader`) and the save
of the state. A crash keeps any part of each layer's buffered nodes. Recovery
truncates files in any order, reads the top file into a small tree node by node
and joins both. What the library does on reading a cache without any node is left
open: it may refuse or go on.

**`ProvenWork`** is what an execution promises: work grows, a crash loses no more
than what was not kept, the proof is made once, of all the work, with at least
`SecurityParam` leaves.

**`Admission`** follows one `Submit` call per member of `Calls`: `Receive` (lengths
and signature), `CheckPow` or `VerifyWithConfigured` or `LookupKeys` and `CheckKeys`
(the keys are read under `trustedKeysMtx` and used after it), `Register` (deadline
and `round.submit` under `openRoundMutex`), the flush and the answer with its
status code. Meanwhile `LoadTrustedPublicKeys` walks the key directory file by file
under the write lock, the operator edits that directory, proofs rotate the PoW
challenge, other calls register, rounds close and the server crashes and restarts.
After a `closeRound` that fails (`closeRoundFails`) the open round is `closed`:
`Register` answers `Internal` until a `closeRound` succeeds or the server restarts.
A PoW challenge is a number, a hash two bytes. After a restart without a stored previous
challenge the previous verifier has the empty one, which a request without params
matches when the difficulty is 0. A flush is one step here. The fields
`since`, `seen`, `age`, `fetchedAt` and the variables `trustedAt`, `rotations` are
history.

**`Startup`** is `poetMain` up to the running server: the `Config` from defaults,
file, `SetupConfig` and flags; `db.Migrate` for the proofs and then for every round
in the order of names; `loadState` and `saveState` of the key; the opening of the
databases. A path is a sequence of names and `disk` maps the paths of databases to
their records. `RemoveAll` is two steps and takes everything below its path; a database
of which a part is removed can no longer be opened. A read error of the old database
ends the copy silently, as `Migrate` never asks the iterator for its error. Any other
operation may fail too, and then the start ends with what was done so far (`Break`).
While the server runs, `Teardown` is the worker that removes directories below
`dataDir/rounds`, with the databases that lie there when the directories coincide.

**`MCRegistrationRound`**, **`MCPoet`**, **`MCAdmission`** and **`MCStartup`** are the
modules TLC runs; `Prover` needs none.

## Runs

Deadlock is not checked: calls, crashes, leaves and the clock are bounded, and
behaviours end there.

| Run | What it shows |
|---|---|
| `round_safety` | `AckDurable`: an acknowledged challenge is on disk. `RootCoversAcks`: it is in the root, but for the empty root of a round closed twice. `CapacityRespected`. (Both while no iteration breaks off.) `FlushScheduled`. `RootStable`: a root computed again is the same, with these two exceptions. The inductive invariant `RoundInv`, types included, and `ImplementsRegistry`: the round implements `RoundRegistry`. |
| `round_liveness` | `CallAnswered`: a submit that waits is answered. |
| `poet_faults` | Crashes, an interrupt and failing databases at any step, with arbitrary delays and either worker, which a restart may change: the inductive invariant `PoetInv`, types included; while there was no interrupt and no database failure, statements and stored proofs cover exactly the members (`StatementCoversMembers`, `ProofCoversMembers`); one execution on disk unless interrupted (`OneExecution`); an execution starts afresh (`StartsAfresh`, unless interrupts meet failures or names out of order); the round of an arriving proof can be opened (`ProofRoundReadable`); no late submission, and stored proofs never change while `DisableWorker` does not (`NoLateSubmission`, `ProofStable`). |
| `poet_liveness` | `EveryRoundProved`: on a punctual server without faults every round ends with a stored proof. `ShutdownCompletes`: an interrupted server exits. |
| `prover` | `TreeCanonical`: every node in memory and on disk is the node of the right tree, and the parked nodes are those the next label commits to, after any number of crashes and recoveries. `CheckpointDurable`: the state file never runs ahead of the layer files. `FailsOnlyWithoutNodes`: recovery gives up only where there is no node to go on from. `ProofVerifies`: the saved proof passes `Validate`. `ExecutionEnds`. `ImplementsProvenWork`. |
| `admission` | `ReloadIsComplete`: trusted keys are never a part of what a reload found. `AdmittedIsCertified`: the certificate was for this node, valid on arrival and by a key trusted during the call. `PowGrace`: fetched PoW params are refused only after two rotations or a restart. `AdmittedHasWorked`. `AnswerIsTrue`: the round named in a success holds the challenge and ends by the deadline. `CallAnswered`. |
| `startup` | `NoRecordLost` and `RunsOnAllRecords`: no crash and no failing operation during a migration loses a record or lets a server run without it, except for a read error and for directories within each other (`Apart`). `StartSucceeds`: the only reasons for a start to fail when none of its own operations does. `KeyIsStable`. |

Runs that are expected to find a violation, each against a sentence of the
repository:

| Run | What the code does |
|---|---|
| `round_accepted` | A submit repeated while the first is pending succeeds at once; the write may fail afterwards. |
| `poet_members` | An interrupt during `closeRound` leaves the closed round in place. `Run` may close it again before it stops; the closed database yields an empty root, which may become the statement. |
| `poet_proof_lost` | A proof finished during a shutdown is removed from disk though it was not stored. |
| `poet_recovery` | A crash between the save of the execution start and the first layer file cannot be resumed; every restart fails. |
| `poet_late_start` | After a restart a round in progress without state is started from the beginning. |

### Bounds

*Round.* Three keys, two challenges, three calls, capacity and batch size 2: a batch
can fill, a full round can refuse, a call can repeat or contradict another, and a
timer goroutine can meet a later batch. Two stops give a crash, a recovery and a crash
during the recovery; one iteration may break off. The liveness run has one challenge,
capacity 3 and no stops, so that a timer has to flush the last, incomplete batch.
Keys, challenges and calls are symmetric in the safety run only.

*Server.* Epoch 4, phase shift 1, cycle gap 2: round *e* runs from 1+4*e* to 3+4*e*.
Until time 8 rounds 0 and 1 are executed and proved and round 2 is open. One member
tells the empty root from the real one. Three faults (`MaxFaults`) out of two crashes,
one interrupt, one failing database and one change of `DisableWorker` allow a crash
during recovery, every triple of different faults, and two crashes with a change
between them (a change needs a restart, and so a crash or an interrupt before it).
The liveness run goes on until time 9, when round 2 is closed, and has an interrupt
only. `MaxProvingTime` 3 exceeds the cycle gap, so the proof of round 0 may still be in
the making when round 1 closes; 1 stays below it.

*Prover.* Three leaves to open, a checkpoint every four leaves and up to ten leaves
give executions that end below the security parameter, between two checkpoints and
after two. The memory layers start at 0 (raised to 1), 2, 3 and above the tree.
Three stops allow a crash during a recovery from a crash. The checkpoint rate is a
power of two, as in the code.

*Admission.* Two keys with the same hint, one key file, one call with ten kinds of
request, another submit for the same node, capacity 2, difficulty 11 (a byte and three
bits), a round that ends during the run, whose closing may fail, and two events among
edits of the key directory, proofs and crashes.

*Startup.* Proofs and one round, two records, two keys, four config files and six
command lines, among which database and data directory may coincide and the databases
may lie below the old proofs, two crashes, one failing operation and one read error.

### Fairness

*Round.* Weak fairness of timers, of the goroutines holding or waiting for
`batchMutex`, of the closing goroutine and of waiting callers: the Go scheduler runs
runnable goroutines. Nothing forces a submit, a cancellation, a closing or a stop.

*Server.* Weak fairness of the services, the teardowns, the clock, the start and
the exit. Strong fairness of `RegistrationStops` and `WorkerStops`: a service that
returns to its `select` again and again with a cancelled context picks `ctx.Done`
eventually, since `select` is random. Nothing forces submits, interrupts, crashes.

*Prover.* Weak fairness of its steps and of the timer at the end of the round.

*Admission.* Weak fairness of the handler, of the reload and of the flush timer;
strong fairness of `LookupKeys`, because an `RWMutex` lets waiting readers in before
the next writer.

`startup` checks no liveness property and assumes no fairness.

## Proofs

`RegistrationRound_proofs` holds for every finite set of keys, all sets of
challenges and calls, every capacity, batch size, number of stops and of broken
iterations (`RoundConstants`; `None` differs from every real value).

* `RoundInvariant`: `RoundInv` is inductive. The single properties are not.
  `AckDurable` needs that a result "ok" lying unread in a channel is true already and
  that the batch never contains a registered key (`CallsInv`, `BatchInv`).
  `CapacityRespected` needs that the counter is never too low, though failed writes
  make it too high (`CountInv`). `FlushScheduled` needs that a timer is only dropped
  by somebody who flushes (`TimerInv`, `MutexInv`). `RootCoversAcks` and `RootStable`
  need that nothing is left in the batch when the root is taken without the mutex
  (`ClosingInv`), and who may find the database closed: only a `closeRound` that
  closes the round again (`HandleInv`). The proof has one lemma per action or group of
  actions that disturb the same conjuncts.
* `AcksAreDurable`, `RootsCoverAcks`, `CapacityIsRespected`,
  `FlushesAreScheduled` and the action property `RootsAreStable` follow.
* `RoundImplementsRegistry`: every step of the round is a step of `RoundRegistry`
  or a stutter, with `db` and `root` for its variables.

The two modules about the composed server hold for every calendar with a positive
epoch and a gap not longer than it (`ScheduleConstants`), all members, any numbers of
crashes, interrupts, failures and changes of `DisableWorker`, punctual or not. `None`
is neither a set of members nor a number (`NoneIsNoRoot`, `NoneIsNoEpoch`).

`Poet_proofs` starts with the calendar: `OpenRoundIsNext` (the open round has
not started and its predecessor has), `RoundsDoNotOverlap` and
`OpenRoundNeverGoesBack`. Then:

* `PoetInvariant`: `PoetInv` is inductive. It has three layers, each proved on top of
  the one before. `ServiceInv` says in which phase the directory in hand is and that
  no teardown is removing it. `FrozenInv` says that every round that was handed out,
  wherever it is (in a channel, in a directory, in a proof on its way or stored), has
  a database, has started and is not open. This is stable because `OpenRoundId(now)`
  is a round that starts after now (`OpenRoundIsNext`), so that a started round is
  never opened again. `HandoverInv` says, while there was no interrupt and no database
  failure, that every root on its way is that of the members of its round; it needs
  `FrozenInv`, which keeps the members still meanwhile. The lemmas named `...Origin`
  (`ClosedRoundsOrigin`, `ProofDbOrigin`, `DirectoryOrigin`, ...) say where each item
  of a channel, a directory or the database was one step before; all proofs about the
  server rest on them rather than on the actions.
* `TypeCorrect`, `ProofsCoverMembers`, `StatementsCoverMembers` and
  `ProofRoundsReadable` follow, and so does the action property
  `NoLateSubmissions`.

`PoetRounds_proofs` is about what becomes of a round. `RoundsInvariant` adds to
`PoetInv`:

* `RecoverInv` and `ExecutionInv`, for `OneExecutionOnly`. The property is not
  inductive: one needs to know which execution is on disk in which phase of the
  worker (`PhasesInv`: during `recover` one of those not visited or the one kept,
  none while the loop waits or prepares a round). A cancelled context would spoil
  this, because the loop gives up its round then; so the invariant also says that
  without an interrupt it is cancelled only by a service that stops, and that the
  registration service stops by itself only before it has handed out a round.
* `RecordInv`, for the action property `ProofsAreStable`. A stored proof may be
  published again after a restart. All copies of a proof of one round (in its
  directory, in the channel, in the hands of `onNewProof`, in the database) are
  equal, and a round with a proof is over: its end has passed and nobody executes it,
  so that `FinishProof` makes no second one. It is stated as long as no restart has
  changed `DisableWorker`; the other parts hold over such changes, too.
* `ChannelInv`, `HandInv`, `VisitInv` and `LeftoverInv`, for `StartsOnlyAfresh`. A
  directory that neither `recover` nor the loop knows of belongs to a round that is
  over, which the loop skips as past, or that was given up after an interrupt and is
  not handed out again. For the second case rounds have to be handed out in
  increasing order (`HandInv`) and `recover` has to visit them in that order too
  (`VisitInv`).

`VisitInv` is why `StartsAfresh` is stated under `InOrder`. `os.ReadDir` sorts names
as strings: with rounds 9 and 10 on disk after an interrupt, "10" comes before "9",
`recover` resumes 9 and forgets 10, whose directory the loop then finds when the
round is handed out again. This needs an interrupt. `NewRound` then goes on with what
is there, and the prover refuses the directory once its tree has begun
(`ExecutionRefused`). (The order of names in `Worker` is exact up to 99, and
only this property depends on it.)

`AdmissionServer_proofs` and `Admission_proofs` hold for all finite sets of nodes, all
keys, key files, challenges, calls, certifier options and requests
(`AdmissionConstants`, `RequestsAreTyped`), any calendar, capacity and number of
events, and every difficulty up to the 16 bits a modelled hash has.
`AdmissionInvariant` ties together:

* `KeysInv`: a reload that was not overtaken by an edit has loaded exactly what it has
  read. `ReloadsAreWhole` follows.
* `CertInv`: the keys that a call has read before it released the lock are among
  those it has seen trusted since it arrived, and past the checks a call is certified
  or has worked. `OnlyTheCertified` and `OnlyTheWorked` follow; the latter needs
  the lemma `LeadingZeroBits`, that `CheckLeadingZeroBits` over bytes is the
  comparison of the hash with 2^(16 - Difficulty).
* `PowInv`: params fetched before at most one rotation are those of the current or the
  previous verifier. `GraceOfOneRotation` follows.
* `CapacityInv`, `BatchInv` and `RoundInv`: a call that waits is in the batch of the
  round it was told, nobody in the batch is registered, and the count of members is
  never too low, also after a restart. `AdmissionTyped` and `AnswersAreTrue` follow.

Admission uses a round as `RoundRegistry` promises it, and three more theorems say that
these promises hold of all rounds together: `RegistrationsAreFinal` (a registered
challenge never changes, since nobody in the batch is registered),
`RoundsHoldTheirSize` (every database stays within the maximum, though failed writes and
restarts change the counter) and `ClosedRoundsAreFinal` (a round before the open one
never changes and is never opened again, since the open round is none of the future).

`Startup_proofs` holds for all options, databases, keys and any number of crashes,
failing operations and read errors. Names of rounds differ from the names of the other
databases (`StartupConstants`).

* `KeyStability`: a key in the state file is never replaced, and a running server uses
  the key of the file. It rests on `KeyInv`: between `loadState` and `saveState` the
  key in memory does not contradict the file.
* `MigrationLosesNothing`, `ServerHasAllRecords`, `StartFailsForAReason` and
  `StartupTyped` rest on `StartupInv`: how far `db.Migrate` has come with the database
  at hand (`HeadInv`) and with all of them (`TodoInv`), and what is on the disk at any
  time, also after a crash or a failure (`DiskInv`: a new database that no removal
  reaches can be opened; only a crash or a failure leaves one half removed or in two
  places). It needs that paths of different databases differ (`PathsAreDistinct`) and
  which of them lie below a path that is removed (`RemovalReaches`), both proved from
  the way the paths are put together.

`ProofTree_proofs` says what the operators of `ProofTree` compute, for every number of
leaves and every shape of the caches; `None` is not a node (`NoneIsNoNode`).
`RightTree` is the tree of the first *n* nodes of a layer written down directly: row
*l* of its caches has the first *n* >> *l* nodes of that layer, and a node is parked
where *n* >> *l* is odd.

* `AddLeafRight`: one more leaf makes the right tree of *n* leaves the right tree of
  *n* + 1. A leaf climbs as far as the lowest bits of *n* are set, and these are the
  layers in which the width changes.
* `RecoveredRight`: layer files of the widths of *n* leaves, together with the small
  right tree above the top one, make the right tree of *n* leaves. This rests on
  (*n* >> *t*) >> *l* = *n* >> (*t* + *l*).
* `ProofRight`: the proof made from a right tree with at least `SecurityParam` leaves
  passes `Validate`. `FiatShamir` ends and draws that many different indices, `Sorted`
  lists each of them once, a sibling that is not in a cache is computed from the
  layers below, and the label of a challenged leaf is made from its left siblings.

The installed provers cannot use an induction theorem that takes a predicate, so the
module starts with its own over *sets* of numbers: `Least` (from the well-foundedness
of <), `Induction`, and `Recursion`, by which a function defined by recursion over
numbers exists and satisfies its equations.

`Prover_proofs` holds for every security parameter, checkpoint rate, set of memory
layers, number of leaves and number of stops (`ProverConstants`).

* `TreeInvariant`: `TreeInv` is inductive. `TreeCanonical` alone is not: that nodes
  are the right ones says nothing of how many there are, and a recovery joins files,
  rebuilt layers and parked nodes by their numbers. So `TreeInv` says, phase by phase,
  how far everything is: while the prover works, the tree *is* the right tree of
  `leaves`, and a file belongs to a cached layer and is not ahead of it (`Working`);
  on disk each file is a beginning of its layer that reaches at least as far as
  `numLeaves` demands (`Stored`), and exactly as far as `leaves` between flush and
  save (`Flushed`); in a recovery the tree is the right one above the top file, of as
  many nodes as were read (`Rebuilds`), and the work is that of the last save
  (`GoesBack`). The proof has one lemma per action.
* `ProverTypes`, `TreeIsCanonical`, `CheckpointsDurable` and `RecoveryGivesUp` follow;
  the first is needed inside the invariant too.
* `ProverInvariant`: once `persist` is on its way to the proof there are enough leaves,
  and no step in between changes their number. `Refinement`, that an execution
  implements `ProvenWork`, rests on it.
* `SavedProofVerifies` needs both invariants: in `generateProof` the tree is right and
  has enough leaves, so that `ProofRight` applies.

These theorems are about symbolic hashes: they assume that different inputs have
different hashes, as the model does. `Digest` in particular is a definition in place
of sha256. That `FiatShamir` ends for the real one is a matter of probability.

Only model-checked are the liveness properties, which are beyond the prover:
`CallAnswered` (of the round and of admission), `EveryRoundProved`,
`ShutdownCompletes` and `ExecutionEnds`. Every invariant and action
property of the passing runs is proved.

## Behaviour worth knowing

The model shows these, and the properties are stated with them in mind.

* In a full round a registered challenge is refused when it is submitted again: the
  capacity is tested before the lookup.
* A failed write is counted in `members`, so that a round may fill up early, until
  the next restart.
* The rotated PoW challenge is never persisted: a restart returns to the first one.
* With a hint, an expired certificate is reported and counted as invalid only; without
  one the error also says that it has expired.
* After a crash or a failed operation during a migration the new database may exist beside
  the old one, and
  every later start fails at `ErrorIfExist` until the operator removes it. No record is
  lost.
* A read error during a migration loses the records behind it, though the comment of
  `Migrate` says that it copies all the data (`db/migrate.go:16`). `NoRecordLost` is
  stated without read errors.
* A read error while the members are counted or the root is computed goes unnoticed as
  well: the round may then take too many members, or the root misses some.
* With data and database directory the same, the worker removes the databases of rounds
  below `rounds/`, of which it thinks as rounds of an older version.
* A restart within the cycle gap that disables the worker answers the round just proved
  with an empty proof, which replaces the stored one. `ProofStable` is stated while
  `DisableWorker` stays the same.
* `SetupConfig` compares the poetdir with the default *data* directory, and a default
  directory given in the config file counts as not given; the poetdir of the config
  file comes before that of the command line when it moves the other directories.
* When the next round cannot be opened after a close, the closed round is closed
  again with an empty root; the second copy is skipped as past, or the prover refuses
  the directory, or it waits in the channel.

## Not modelled

* Generated code (`release/`, mocks, `*_scale.go`) and encodings (xdr, scale,
  base64): they change no state, and nothing here depends on their layout. This is
  more than half of what is not covered.
* `rpcserver.Info` and `Proof`, `GetProof`, `CertifierInfo`, `OpenRound`: they read
  and translate. That a proof that was read stays valid is `ProofStable`.
* Listeners, gRPC and REST servers, metrics, profiling, logging, thread ids and the
  benchmark: I/O beside the system.
* The clock never steps back. Rounds are numbered without the overflow of `uint`
  and `time.Duration`, which lies centuries away.
* A failing file system under the worker and the prover (full disk, failed
  truncation), and files that somebody edits.
* Of the LevelDB errors of the registration service, `Poet` has those of opening a
  round and of storing a proof. Failing writes of a batch and iterations that break
  off are in `RegistrationRound`, for a single round; that `getMembers`
  (`round.go:266`) may break off too and a proof then be stored with a part of its
  members is in no module.
* Stray files in the data directory, and what `OpenFile` leaves of a new database when
  it fails half way.
* Data and database directory the same in `Poet`, which keeps them apart as the default
  configuration does. `Startup` has the case, for the migration and for what the worker
  removes.
