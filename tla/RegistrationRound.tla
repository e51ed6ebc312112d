-------------------------- MODULE RegistrationRound --------------------------
(***************************************************************************)
(* One registration round (registration/round.go) and the part of          *)
(* Registration.Submit that waits on it.                                   *)
(*                                                                         *)
(* Challenges are collected in a batch and written to the round's LevelDB  *)
(* by flushPendingSubmitsLocked, which is called by a submit that fills    *)
(* the batch, by the goroutine of an expired timer, or by the goroutine    *)
(* that closes the round.  All of them hold batchMutex for the whole       *)
(* flush; the write and the replies are separate steps here because a      *)
(* crash may fall between them.  The batch always holds the puts of        *)
(* pendingSubmits (both are filled and cleared together, under the mutex), *)
(* so one variable stands for both.                                        *)
(***************************************************************************)
EXTENDS Integers, FiniteSets

CONSTANTS
  Keys,          \* node ids
  Challenges,    \* challenges
  Calls,         \* one identifier per Submit call
  None,          \* nothing: an absent key, no pending submit, no root yet
  MaxMembers,    \* cfg.MaxRoundMembers
  MaxBatchSize,  \* cfg.MaxSubmitBatchSize
  MaxCrashes,    \* bound: how often the process may stop
  MaxReadErrors  \* bound: how many iterations over the database may break off

ASSUME RoundConstants ==
  /\ IsFiniteSet(Keys)
  /\ MaxMembers \in Nat
  /\ MaxBatchSize \in Nat
  /\ MaxCrashes \in Nat
  /\ MaxReadErrors \in Nat
  /\ None \notin Challenges
  /\ None \notin [challenge : Challenges, call : Calls]
  /\ None \notin [Keys -> Challenges \cup {None}]

VARIABLES
  db,            \* the LevelDB of the round: key -> challenge, or None
  members,       \* round.members
  pending,       \* round.pendingSubmits (and batch): key -> [challenge, call], or None
  pendingFlush,  \* round.pendingFlush: "nil", or a timer that is "armed" or has "fired"
  fired,         \* timer goroutines started and not yet past batchMutex.Lock
  holder,        \* who holds batchMutex for a flush: "none", "submit", "timer", "closer"
  flush,         \* progress of that flush: "idle", "write", then the result "ok" or "err"
  phase,         \* life of the round object; see Phases
  root,          \* the database contents the membership root was computed from, or None
  calls,         \* call -> [key, challenge, status]; status as the caller sees it
  done,          \* call -> the value in its done channel ("none" when empty)
  crashes,       \* number of process stops so far
  dbOpen,        \* the LevelDB handle is open
  closedBy,      \* who is closing or has closed the round: "nobody", "closeRound",
                 \* "recoverExecution", or "Close" (Registration.Close)
  again,         \* history: closeRound was called on a round it had already closed
  readErrors     \* history: iterations over the database that broke off so far

vars == <<db, members, pending, pendingFlush, fired, holder, flush, phase, root,
          calls, done, crashes, dbOpen, closedBy, again, readErrors>>

closeVars == <<dbOpen, closedBy, again, readErrors>>

mutexVars == <<holder, flush>>

(* Steps that touch only the callers, or only how far the closing is. *)
callsOnly == UNCHANGED <<db, members, pending, pendingFlush, fired, holder, flush,
                         phase, root, done, crashes, closeVars>>
phaseOnly == UNCHANGED <<db, members, pending, pendingFlush, fired, holder, flush,
                         root, calls, done, crashes, readErrors>>

(* "open" accepts submits.  closeRound holds openRoundMutex from "locked"  *)
(* (before the flush of calcMembershipRoot) over "iterate" (root not yet   *)
(* computed), "shutting" (round.Close called) and "closing" (its flush     *)
(* begun).  "closed": round.Close has returned.  "down": no process.       *)
Phases == {"open", "locked", "iterate", "shutting", "closing", "closed", "down"}

Statuses == {"idle", "waiting", "ok", "already", "conflict", "full", "failed",
             "cancelled", "lost"}

Call == [key : Keys \cup {None}, challenge : Challenges \cup {None}, status : Statuses]

Registered == {k \in Keys : db[k] # None}
PendingKeys == {k \in Keys : pending[k] # None}
NoPending == [k \in Keys |-> None]
NoMembers == [k \in Keys |-> None]

MembersInDB == Cardinality(Registered)

(* The keys that an iteration over the database yields.  Nobody asks the   *)
(* iterator for its error: after a failed read the loop just ends early.   *)
Iterate(S) ==
  \/ /\ S = Registered
     /\ UNCHANGED readErrors
  \/ /\ S \in SUBSET Registered
     /\ readErrors < MaxReadErrors
     /\ readErrors' = readErrors + 1

Init ==
  /\ db = [k \in Keys |-> None]
  /\ members = 0
  /\ pending = NoPending
  /\ pendingFlush = "nil"
  /\ fired = 0
  /\ holder = "none"
  /\ flush = "idle"
  /\ phase = "open"
  /\ root = None
  /\ calls = [c \in Calls |-> [key |-> None, challenge |-> None, status |-> "idle"]]
  /\ done = [c \in Calls |-> "none"]
  /\ crashes = 0
  /\ dbOpen = TRUE
  /\ closedBy = "nobody"
  /\ again = FALSE
  /\ readErrors = 0
------------------------------------------------------------------------------
(* submit *)

AtCapacity_IgnoresPending == members >= MaxMembers

AtCapacity == members + Cardinality(PendingKeys) >= MaxMembers

(* The challenge already held under k: pendingSubmits is looked up before  *)
(* the database, which can only be read while it is open.                  *)
Known_PendingOnly(k) == IF pending[k] # None THEN pending[k].challenge ELSE None

Known(k) ==
  IF pending[k] # None THEN pending[k].challenge
  ELSE IF dbOpen THEN db[k] ELSE None

(* A closeRound that fails after round.Close (ExecuteRound, newRound)      *)
(* leaves the closed round in place as the open round of Registration.     *)
LeftInPlace == phase = "closed" /\ closedBy = "closeRound"

(* Registration.Submit holds openRoundMutex for reading, so it does not    *)
(* run while the round is being closed; batchMutex excludes flushes.       *)
MaySubmit(c) ==
  /\ calls[c].status = "idle"
  /\ phase = "open" \/ LeftInPlace
  /\ holder = "none"

Reply(c, k, ch, status) ==
  calls' = [calls EXCEPT ![c] = [key |-> k, challenge |-> ch, status |-> status]]

SubmitFull(c, k, ch) ==
  /\ MaySubmit(c)
  /\ AtCapacity
  /\ Reply(c, k, ch, "full")
  /\ callsOnly

(* ErrChallengeAlreadySubmitted, which Registration.Submit turns into a    *)
(* success, or ErrConflictingRegistration.                                 *)
SubmitKnown(c, k, ch) ==
  /\ MaySubmit(c)
  /\ ~AtCapacity
  /\ Known(k) # None
  /\ Reply(c, k, ch, IF Known(k) = ch THEN "already" ELSE "conflict")
  /\ callsOnly

(* The lookup in a closed database fails. *)
SubmitClosed(c, k, ch) ==
  /\ MaySubmit(c)
  /\ ~AtCapacity
  /\ pending[k] = None
  /\ ~dbOpen
  /\ Reply(c, k, ch, "failed")
  /\ callsOnly

(* A new key: into the batch, then flush a full batch, or arm the timer    *)
(* when this put is the first of the batch.                                *)
FullBatch == Cardinality(PendingKeys) + 1 >= MaxBatchSize

TimerAfterPut_NeverArmed == pendingFlush

TimerAfterPut == IF PendingKeys = {} THEN "armed" ELSE pendingFlush

SubmitNew(c, k, ch) ==
  /\ MaySubmit(c)
  /\ ~AtCapacity
  /\ dbOpen
  /\ Known(k) = None
  /\ pending' = [pending EXCEPT ![k] = [challenge |-> ch, call |-> c]]
  /\ \/ /\ FullBatch
        /\ pendingFlush' = "nil"
        /\ holder' = "submit"
        /\ flush' = "write"
     \/ /\ ~FullBatch
        /\ pendingFlush' = TimerAfterPut
        /\ UNCHANGED mutexVars
  /\ Reply(c, k, ch, "waiting")
  /\ UNCHANGED <<db, members, fired, phase, root, done, crashes, closeVars>>
------------------------------------------------------------------------------
(* flushPendingSubmitsLocked *)

(* Stop the timer, return at once on an empty batch. *)
StartFlush(who) ==
  /\ pendingFlush' = "nil"
  /\ \/ /\ PendingKeys = {}
        /\ UNCHANGED mutexVars
     \/ /\ PendingKeys # {}
        /\ holder' = who
        /\ flush' = "write"

(* db.Write(batch, Sync): all of the batch is on disk, or none and an error. *)
WriteBatch ==
  [k \in Keys |-> IF pending[k] # None THEN pending[k].challenge ELSE db[k]]

FlushWrite ==
  /\ flush = "write"
  /\ \/ /\ dbOpen
        /\ db' = WriteBatch
        /\ flush' = "ok"
     \/ /\ flush' = "err"
        /\ UNCHANGED db
  /\ UNCHANGED <<members, pending, pendingFlush, fired, holder, phase, root, calls,
                 done, crashes, closeVars>>

(* Send the result to every pending call, count them, clear the batch. *)
IsPending(c) == \E k \in PendingKeys : pending[k].call = c

(* The result of the write, sent on every done channel. *)
FlushResult_IgnoresError == "ok"

FlushResult == flush

FlushReply ==
  /\ flush \in {"ok", "err"}
  /\ done' = [c \in Calls |-> IF IsPending(c) THEN FlushResult ELSE done[c]]
  /\ members' = members + Cardinality(PendingKeys)
  /\ pending' = NoPending
  /\ holder' = "none"
  /\ flush' = "idle"
  /\ UNCHANGED <<db, pendingFlush, fired, phase, root, calls, crashes, closeVars>>

(* The flush timer expires and its goroutine starts. *)
TimerFires ==
  /\ pendingFlush = "armed"
  /\ pendingFlush' = "fired"
  /\ fired' = fired + 1
  /\ UNCHANGED <<db, members, pending, holder, flush, phase, root, calls, done, crashes,
                 closeVars>>

TimedFlush_ForgetsBatch ==
  /\ fired > 0
  /\ holder = "none"
  /\ fired' = fired - 1
  /\ pendingFlush' = "nil"
  /\ UNCHANGED <<db, members, pending, holder, flush, phase, root, calls, done, crashes,
                 closeVars>>

(* timedFlushPendingSubmits: flush unless somebody else already did. *)
TimedFlush ==
  /\ fired > 0
  /\ holder = "none"
  /\ fired' = fired - 1
  /\ \/ /\ pendingFlush # "nil"
        /\ StartFlush("timer")
     \/ /\ pendingFlush = "nil"
        /\ UNCHANGED <<pendingFlush, holder, flush>>
  /\ UNCHANGED <<db, members, pending, phase, root, calls, done, crashes, closeVars>>
------------------------------------------------------------------------------
(* The waiting half of Registration.Submit: the result, or a cancelled     *)
(* request context.                                                        *)

Await(c) ==
  /\ calls[c].status = "waiting"
  /\ done[c] # "none"
  /\ calls' = [calls EXCEPT ![c].status = IF done[c] = "ok" THEN "ok" ELSE "failed"]
  /\ callsOnly

Cancel(c) ==
  /\ calls[c].status = "waiting"
  /\ calls' = [calls EXCEPT ![c].status = "cancelled"]
  /\ callsOnly
------------------------------------------------------------------------------
(* Closing: Registration.closeRound, and Registration.Close at shutdown *)

(* openRoundMutex.Lock: a submit that is flushing still holds it for       *)
(* reading.  Run calls closeRound again on a round left in place.          *)
LockRound ==
  /\ phase = "open" \/ LeftInPlace
  /\ holder # "submit"
  /\ phase' = "locked"
  /\ closedBy' = "closeRound"
  /\ again' = (again \/ LeftInPlace)
  /\ UNCHANGED dbOpen
  /\ phaseOnly

CalcRootFlush_Skipped ==
  /\ phase = "locked"
  /\ phase' = "iterate"
  /\ UNCHANGED <<dbOpen, closedBy, again>>
  /\ phaseOnly

(* calcMembershipRoot flushes first ... *)
CalcRootFlush ==
  /\ phase = "locked"
  /\ holder = "none"
  /\ StartFlush("closer")
  /\ phase' = "iterate"
  /\ UNCHANGED <<db, members, pending, fired, root, calls, done, crashes, closeVars>>

(* ... and then iterates over the database without batchMutex.  The        *)
(* iterator of a closed database is empty.                                 *)
CalcRoot ==
  /\ phase = "iterate"
  /\ holder # "closer"
  /\ \/ /\ dbOpen
        /\ \E S \in SUBSET Registered :
             /\ Iterate(S)
             /\ root' = [k \in Keys |-> IF k \in S THEN db[k] ELSE None]
     \/ /\ ~dbOpen
        /\ root' = NoMembers
        /\ UNCHANGED readErrors
  /\ phase' = "shutting"
  /\ UNCHANGED <<db, members, pending, pendingFlush, fired, holder, flush, calls,
                 done, crashes, dbOpen, closedBy, again>>

(* Registration.Close, once the RPC server has let every handler finish. *)
Shutdown ==
  /\ phase = "open" \/ LeftInPlace
  /\ holder # "submit"
  /\ \A c \in Calls : calls[c].status # "waiting"
  /\ phase' = "shutting"
  /\ closedBy' = "Close"
  /\ UNCHANGED <<dbOpen, again>>
  /\ phaseOnly

(* round.Close flushes again ... *)
CloseFlush ==
  /\ phase = "shutting"
  /\ holder = "none"
  /\ StartFlush("closer")
  /\ phase' = "closing"
  /\ UNCHANGED <<db, members, pending, fired, root, calls, done, crashes, closeVars>>

(* ... and closes the database; ErrClosed of a second closing is ignored. *)
CloseDB ==
  /\ phase = "closing"
  /\ holder # "closer"
  /\ phase' = "closed"
  /\ dbOpen' = FALSE
  /\ UNCHANGED <<closedBy, again>>
  /\ phaseOnly
------------------------------------------------------------------------------
(* The process stops (a crash, or the exit after Shutdown).  Only the      *)
(* database survives; root is kept as the memory of what was handed out.   *)
Stop ==
  /\ phase # "down"
  /\ crashes < MaxCrashes
  /\ crashes' = crashes + 1
  /\ phase' = "down"
  /\ members' = 0
  /\ pending' = NoPending
  /\ pendingFlush' = "nil"
  /\ fired' = 0
  /\ holder' = "none"
  /\ flush' = "idle"
  /\ calls' = [c \in Calls |->
                 IF calls[c].status = "waiting"
                 THEN [calls[c] EXCEPT !.status = "lost"] ELSE calls[c]]
  /\ done' = [c \in Calls |-> "none"]
  /\ dbOpen' = FALSE
  /\ closedBy' = "nobody"
  /\ UNCHANGED <<db, root, again, readErrors>>

(* newRound counts the members in the database (countMembersInDB).         *)
(* Started before the round's start time the process opens it again for    *)
(* submits; started later, recoverExecution computes its root once more.   *)
(* Only the latter can follow a root that was handed out.                  *)
newRound ==
  /\ phase = "down"
  /\ \E S \in SUBSET Registered :
       /\ Iterate(S)
       /\ members' = Cardinality(S)
  /\ dbOpen' = TRUE
  /\ \/ /\ root = None
        /\ phase' = "open"
        /\ closedBy' = "nobody"
     \/ /\ phase' = "locked"
        /\ closedBy' = "recoverExecution"
  /\ UNCHANGED <<db, pending, pendingFlush, fired, holder, flush, root, calls,
                 done, crashes, again>>
------------------------------------------------------------------------------
Submit(c, k, ch) ==
  \/ SubmitFull(c, k, ch)
  \/ SubmitKnown(c, k, ch)
  \/ SubmitClosed(c, k, ch)
  \/ SubmitNew(c, k, ch)

Closer == CalcRootFlush \/ CalcRoot \/ CloseFlush \/ CloseDB

Next ==
  \/ \E c \in Calls, k \in Keys, ch \in Challenges : Submit(c, k, ch)
  \/ \E c \in Calls : Await(c) \/ Cancel(c)
  \/ FlushWrite
  \/ FlushReply
  \/ TimerFires
  \/ TimedFlush
  \/ LockRound
  \/ Shutdown
  \/ Closer
  \/ Stop
  \/ newRound

Spec == Init /\ [][Next]_vars

(* Timers expire, runnable goroutines run, and the goroutine that closes   *)
(* the round carries on.  Nothing forces submits, closing or crashes.      *)
Fairness ==
  /\ WF_vars(TimerFires)
  /\ WF_vars(TimedFlush)
  /\ WF_vars(FlushWrite)
  /\ WF_vars(FlushReply)
  /\ WF_vars(Closer)
  /\ \A c \in Calls : WF_vars(Await(c))

FairSpec == Spec /\ Fairness
------------------------------------------------------------------------------
(* Properties *)

(* Every variable of the round keeps its type. *)
TypeOK ==
  /\ db \in [Keys -> Challenges \cup {None}]
  /\ members \in Nat
  /\ pending \in [Keys -> [challenge : Challenges, call : Calls] \cup {None}]
  /\ pendingFlush \in {"nil", "armed", "fired"}
  /\ fired \in Nat
  /\ holder \in {"none", "submit", "timer", "closer"}
  /\ flush \in {"idle", "write", "ok", "err"}
  /\ phase \in Phases
  /\ root \in [Keys -> Challenges \cup {None}] \cup {None}
  /\ calls \in [Calls -> Call]
  /\ done \in [Calls -> {"none", "ok", "err"}]
  /\ crashes \in Nat
  /\ dbOpen \in BOOLEAN
  /\ closedBy \in {"nobody", "closeRound", "recoverExecution", "Close"}
  /\ again \in BOOLEAN
  /\ readErrors \in Nat

(* A call that waited on its done channel and was told "ok" has its        *)
(* challenge in the database, whatever failed, stopped or was closed since. *)
AckDurable ==
  \A c \in Calls :
    calls[c].status = "ok" => db[calls[c].key] = calls[c].challenge

(* The membership root handed to the worker covers every challenge that    *)
(* was acknowledged, also the ones acknowledged while the round was being  *)
(* closed.  The exception is a round left in place by a failed closeRound: *)
(* closed again, its root is the empty one.  All this as long as no        *)
(* iteration over the database broke off.                                  *)
RootCoversAcks ==
  root # None /\ readErrors = 0 =>
    \/ \A c \in Calls : calls[c].status = "ok" => root[calls[c].key] = calls[c].challenge
    \/ again /\ root = NoMembers

(* The database never holds more than maxMembers keys, although the check  *)
(* in submit compares a counter that failed writes inflate and restarts    *)
(* recompute; a count that broke off would make it too low.                *)
CapacityRespected == readErrors = 0 => MembersInDB <= MaxMembers

(* While submits are accepted, a batch that nobody is flushing has a timer *)
(* that will: it is armed, or its goroutine waits for batchMutex.          *)
FlushScheduled ==
  phase = "open" /\ holder = "none" /\ PendingKeys # {} =>
    \/ pendingFlush = "armed"
    \/ pendingFlush = "fired" /\ fired > 0

(* A membership root computed again after a restart (recoverExecution) is  *)
(* the root that was handed out before.  Two roots of a round only differ  *)
(* when one of them is the empty root of a round that closeRound has       *)
(* closed again, or when an iteration over the database broke off.         *)
RootStable ==
  [][root # None /\ root' # root =>
       \/ again' /\ NoMembers \in {root, root'}
       \/ readErrors' > 0]_vars

(* A submit that waits for its batch is answered, unless the process stops *)
(* (Stop answers it "lost").                                               *)
CallAnswered ==
  \A c \in Calls : calls[c].status = "waiting" ~> calls[c].status # "waiting"

(* Who holds batchMutex: a flush in progress, of a batch that is not empty *)
(* and whose timer was stopped.                                            *)
MutexInv ==
  /\ flush = "idle" <=> holder = "none"
  /\ holder # "none" => pendingFlush = "nil" /\ PendingKeys # {}

(* The keys of the batch are new until the batch is written. *)
BatchInv ==
  /\ flush = "ok" => \A k \in PendingKeys : db[k] = pending[k].challenge
  /\ flush # "ok" => \A k \in PendingKeys : db[k] = None

(* The counter may be too high (a failed write is counted) but never too   *)
(* low, unless a count broke off.                                          *)
CountInv ==
  readErrors = 0 =>
  /\ MembersInDB <= MaxMembers
  /\ phase # "down" =>
       /\ Cardinality(Registered \ PendingKeys) <= members
       /\ members + Cardinality(PendingKeys) <= MaxMembers

(* A put of the batch belongs to a call that has no result yet, and a      *)
(* result "ok" in a done channel is true before it is read.                *)
CallsInv ==
  /\ \A k \in PendingKeys :
       LET c == pending[k].call IN
         /\ calls[c].key = k
         /\ calls[c].challenge = pending[k].challenge
         /\ calls[c].status \in {"waiting", "cancelled"}
         /\ done[c] = "none"
  /\ \A c \in Calls :
       /\ calls[c].status # "idle" => calls[c].key \in Keys /\ calls[c].challenge \in Challenges
       /\ done[c] # "none" => calls[c].status # "idle"
       /\ done[c] = "ok" => db[calls[c].key] = calls[c].challenge
       /\ calls[c].status = "ok" => db[calls[c].key] = calls[c].challenge
  /\ \A k \in Registered :
       \E c \in Calls : /\ calls[c].status # "idle"
                        /\ calls[c].key = k
                        /\ calls[c].challenge = db[k]

(* A timer is set exactly while an open round has a batch nobody flushes.  *)
TimerInv ==
  /\ pendingFlush # "nil" => PendingKeys # {}
  /\ pendingFlush = "fired" => fired > 0
  /\ phase = "open" /\ holder = "none" /\ PendingKeys # {} => pendingFlush # "nil"

(* Once a closing step has begun its flush, what is left of the batch is   *)
(* in the hands of the closer; a root is only taken when nothing is left,  *)
(* and then nothing is added any more.                                     *)
ClosingInv ==
  /\ phase \in {"iterate", "closing"} => holder = "closer" \/ PendingKeys = {}
  /\ ~dbOpen \/ root # None => PendingKeys = {} /\ phase # "open"
  /\ root # None /\ readErrors = 0 => root = db \/ (again /\ root = NoMembers)

(* A round whose database is closed is closed, unless closeRound is        *)
(* closing it again; then it has a root already.                           *)
HandleInv ==
  /\ phase \in {"closed", "down"} => ~dbOpen
  /\ ~dbOpen /\ closedBy \in {"closeRound", "recoverExecution"} => root # None
  /\ ~dbOpen /\ phase \in {"locked", "iterate"} => again /\ closedBy = "closeRound"
  /\ phase \in {"shutting", "closing"} /\ closedBy # "Close" => root # None

(* The inductive invariant behind the properties above: how the mutex, the *)
(* batch, the counter, the timer, the callers and the phase of closing     *)
(* depend on one another.                                                  *)
RoundInv ==
  /\ TypeOK
  /\ MutexInv
  /\ BatchInv
  /\ CountInv
  /\ CallsInv
  /\ TimerInv
  /\ ClosingInv
  /\ HandleInv

Registry == INSTANCE RoundRegistry
              WITH registered <- db, roundRoot <- root, reliable <- readErrors = 0

(* The round keeps the promises of RoundRegistry to its callers. *)
ImplementsRegistry == Registry!Spec

(* "The caller must await the returned channel to make sure that the       *)
(* challenge is persisted" (registration/round.go:145): every challenge    *)
(* that Registration.Submit accepted is in a round that has been closed.   *)
(* Does not hold: ErrChallengeAlreadySubmitted for a challenge that is     *)
(* still pending is a success without awaiting anything.                   *)
AcceptedIsPersisted ==
  phase = "closed" /\ root # None =>
    \A c \in Calls :
      calls[c].status \in {"ok", "already"} => db[calls[c].key] = calls[c].challenge
==============================================================================
