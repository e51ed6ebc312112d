---------------------- MODULE RegistrationRound_proofs -----------------------
(***************************************************************************)
(* Proofs about RegistrationRound, for any number of keys, challenges and  *)
(* calls, any capacity and batch size, and any number of stops: RoundInv   *)
(* is inductive and implies the safety properties, and the round           *)
(* implements RoundRegistry.                                               *)
(***************************************************************************)
EXTENDS RegistrationRound, FiniteSetTheorems, TLAPS

(* Sets of keys are finite and have a cardinality. *)
LEMMA KeysFinite ==
  ASSUME NEW S \in SUBSET Keys
  PROVE  IsFiniteSet(S) /\ Cardinality(S) \in Nat
<1>1. IsFiniteSet(S)
  BY RoundConstants, FS_Subset
<1>. QED
  BY <1>1, FS_CardinalityType

(* The sets the invariant talks about depend on db and pending only. *)
LEMMA Frame ==
  /\ UNCHANGED db => UNCHANGED <<Registered, MembersInDB>>
  /\ UNCHANGED pending => UNCHANGED PendingKeys
BY DEF Registered, PendingKeys, MembersInDB

(* The initial state satisfies the invariant. *)
LEMMA InitInv == Init => RoundInv
<1>. SUFFICES ASSUME Init PROVE RoundInv
  OBVIOUS
<1>1. PendingKeys = {} /\ Registered = {}
  BY DEF Init, PendingKeys, Registered, NoPending
<1>2. Cardinality({}) = 0
  BY FS_EmptySet
<1>3. TypeOK
  BY RoundConstants DEF Init, TypeOK, NoPending, Call, Statuses, Phases
<1>4. MutexInv /\ BatchInv /\ TimerInv /\ ClosingInv /\ HandleInv
  BY <1>1 DEF Init, MutexInv, BatchInv, TimerInv, ClosingInv, HandleInv
<1>5. CountInv
  <2>1. Registered \ PendingKeys = {}
    BY <1>1
  <2>. QED
    BY <1>1, <1>2, <2>1, RoundConstants DEF Init, CountInv, MembersInDB
<1>6. CallsInv
  BY <1>1 DEF Init, CallsInv
<1>. QED
  BY <1>3, <1>4, <1>5, <1>6 DEF RoundInv
------------------------------------------------------------------------------
(* What a step of the callers may do to a call: leave it, ask, or answer   *)
(* it, "ok" only with that result in its done channel.                     *)
CallStep(c) ==
  \/ calls'[c] = calls[c]
  \/ /\ calls[c].status = "idle"
     /\ calls'[c].key \in Keys
     /\ calls'[c].challenge \in Challenges
     /\ calls'[c].status \notin {"idle", "ok"}
  \/ /\ calls[c].status = "waiting"
     /\ calls'[c].key = calls[c].key
     /\ calls'[c].challenge = calls[c].challenge
     /\ calls'[c].status # "idle"
     /\ done[c] = "none" => calls'[c].status = "cancelled"
     /\ calls'[c].status = "ok" => done[c] = "ok"

(* Steps of the callers preserve the invariant. *)
LEMMA CallsOnlyInv ==
  ASSUME RoundInv, callsOnly, calls' \in [Calls -> Call], \A c \in Calls : CallStep(c)
  PROVE  RoundInv'
<1>. USE DEF RoundInv, closeVars
<1>1. UNCHANGED <<Registered, MembersInDB, PendingKeys>>
  BY Frame DEF callsOnly
<1>2. TypeOK'
  BY DEF TypeOK, callsOnly
<1>3. MutexInv' /\ BatchInv' /\ TimerInv' /\ ClosingInv' /\ HandleInv'
  BY <1>1 DEF MutexInv, BatchInv, TimerInv, ClosingInv, HandleInv, callsOnly
<1>4. CountInv'
  BY <1>1 DEF CountInv, callsOnly
<1>5. CallsInv'
  <2>1. ASSUME NEW k \in PendingKeys
        PROVE  /\ pending[k].call \in Calls
               /\ calls'[pending[k].call].key = k
               /\ calls'[pending[k].call].challenge = pending[k].challenge
               /\ calls'[pending[k].call].status \in {"waiting", "cancelled"}
               /\ done[pending[k].call] = "none"
    <3>1. pending[k].call \in Calls
      BY DEF TypeOK, PendingKeys
    <3>. QED
      BY <3>1 DEF CallsInv, CallStep
  <2>2. ASSUME NEW c \in Calls
        PROVE  /\ calls'[c].status # "idle" => calls'[c].key \in Keys /\ calls'[c].challenge \in Challenges
               /\ done[c] # "none" => calls'[c].status # "idle"
               /\ done[c] = "ok" => db[calls'[c].key] = calls'[c].challenge
               /\ calls'[c].status = "ok" => db[calls'[c].key] = calls'[c].challenge
    BY DEF CallsInv, CallStep
  <2>3. ASSUME NEW k \in Registered
        PROVE  \E c \in Calls : /\ calls'[c].status # "idle"
                                /\ calls'[c].key = k
                                /\ calls'[c].challenge = db[k]
    BY DEF CallsInv, CallStep
  <2>. QED
    BY <1>1, <2>1, <2>2, <2>3, ZenonT(40) DEF CallsInv, callsOnly
<1>. QED
  BY <1>2, <1>3, <1>4, <1>5

(* An immediate reply of submit. *)
LEMMA ReplyInv ==
  ASSUME RoundInv, callsOnly, NEW c \in Calls, NEW k \in Keys, NEW ch \in Challenges,
         NEW status \in Statuses \ {"idle", "ok"},
         calls[c].status = "idle", Reply(c, k, ch, status)
  PROVE  RoundInv'
<1>1. calls' \in [Calls -> Call]
  BY DEF Reply, RoundInv, TypeOK, Call
<1>2. \A d \in Calls : CallStep(d)
  BY DEF Reply, CallStep, RoundInv, TypeOK, Call
<1>. QED
  BY <1>1, <1>2, CallsOnlyInv

(* The waiting half of Submit. *)
LEMMA WaitInv ==
  ASSUME RoundInv, NEW c \in Calls, Await(c) \/ Cancel(c)
  PROVE  RoundInv'
<1>1. PICK status \in {"ok", "failed", "cancelled"} :
        /\ calls' = [calls EXCEPT ![c].status = status]
        /\ done[c] = "none" => status = "cancelled"
        /\ status = "ok" => done[c] = "ok"
  BY DEF Await, Cancel
<1>2. calls[c].status = "waiting" /\ callsOnly
  BY DEF Await, Cancel
<1>3. calls' \in [Calls -> Call]
  BY <1>1 DEF RoundInv, TypeOK, Call, Statuses
<1>4. \A d \in Calls : CallStep(d)
  BY <1>1, <1>2 DEF CallStep, RoundInv, TypeOK, Call
<1>. QED
  BY <1>2, <1>3, <1>4, CallsOnlyInv
------------------------------------------------------------------------------
(* submit of a new key: the batch grows by one key that is neither pending *)
(* nor registered, within the capacity, and a flush or a timer is in place. *)
LEMMA SubmitNewInv ==
  ASSUME RoundInv, NEW c \in Calls, NEW k \in Keys, NEW ch \in Challenges,
         SubmitNew(c, k, ch)
  PROVE  RoundInv'
<1>. USE DEF RoundInv, closeVars
<1>1. /\ pending[k] = None
      /\ db[k] = None
      /\ pending' = [pending EXCEPT ![k] = [challenge |-> ch, call |-> c]]
      /\ calls' = [calls EXCEPT ![c] = [key |-> k, challenge |-> ch, status |-> "waiting"]]
      /\ UNCHANGED <<db, members, fired, phase, root, done, crashes, closeVars>>
      /\ phase = "open" /\ dbOpen /\ root = None /\ holder = "none" /\ calls[c].status = "idle"
      /\ flush = "idle"
  BY RoundConstants DEF SubmitNew, Known, TypeOK, MaySubmit, LeftInPlace, Reply, MutexInv,
     ClosingInv, HandleInv
<1>2. /\ PendingKeys' = PendingKeys \cup {k}
      /\ k \notin PendingKeys
      /\ k \notin Registered
  BY <1>1, RoundConstants DEF PendingKeys, Registered, TypeOK
<1>3. UNCHANGED <<Registered, MembersInDB>>
  BY <1>1, Frame
<1>4. TypeOK'
  BY <1>1 DEF TypeOK, SubmitNew, TimerAfterPut, mutexVars, Call, Statuses
<1>5. MutexInv' /\ TimerInv' /\ ClosingInv' /\ HandleInv'
  BY <1>1, <1>2, <1>3 DEF MutexInv, TimerInv, ClosingInv, HandleInv, SubmitNew,
     TimerAfterPut, mutexVars
<1>6. BatchInv'
  BY <1>1, <1>2, Zenon DEF BatchInv, SubmitNew, mutexVars
<1>7. CountInv'
  <2>1. Cardinality(PendingKeys') = Cardinality(PendingKeys) + 1
    BY <1>2, KeysFinite, FS_AddElement, Zenon DEF PendingKeys
  <2>2. Registered' \ PendingKeys' = Registered \ PendingKeys
    BY <1>2, <1>3
  <2>3. Cardinality(PendingKeys) \in Nat
    BY KeysFinite DEF PendingKeys
  <2>4. readErrors = 0 => members + Cardinality(PendingKeys) < MaxMembers
    BY <2>3, RoundConstants DEF SubmitNew, AtCapacity, TypeOK
  <2>5. readErrors = 0 => members + Cardinality(PendingKeys') <= MaxMembers
    BY <2>1, <2>3, <2>4, RoundConstants DEF TypeOK
  <2>. QED
    BY <1>1, <1>3, <2>2, <2>5, Zenon DEF CountInv
<1>8. CallsInv'
  <2>1. done[c] = "none"
    BY <1>1, Zenon DEF CallsInv, TypeOK
  <2>2. \A j \in PendingKeys : pending[j].call \in Calls /\ pending[j].call # c
    BY <1>1 DEF CallsInv, TypeOK, PendingKeys
  <2>3. \A j \in PendingKeys : pending'[j] = pending[j] /\ calls'[pending[j].call] = calls[pending[j].call]
    BY <1>1, <1>2, <2>2, Zenon DEF TypeOK, PendingKeys
  <2>4. pending'[k].call = c /\ pending'[k].challenge = ch /\ calls'[c].key = k
        /\ calls'[c].challenge = ch /\ calls'[c].status = "waiting"
    BY <1>1, Zenon DEF TypeOK
  <2>5. \A d \in Calls : d # c => calls'[d] = calls[d]
    BY <1>1 DEF TypeOK
  <2>6. \A j \in PendingKeys' :
          /\ calls'[pending'[j].call].key = j
          /\ calls'[pending'[j].call].challenge = pending'[j].challenge
          /\ calls'[pending'[j].call].status \in {"waiting", "cancelled"}
          /\ done[pending'[j].call] = "none"
    BY <1>2, <2>1, <2>3, <2>4 DEF CallsInv
  <2>7. \A d \in Calls :
          /\ calls'[d].status # "idle" => calls'[d].key \in Keys /\ calls'[d].challenge \in Challenges
          /\ done[d] # "none" => calls'[d].status # "idle"
          /\ done[d] = "ok" => db[calls'[d].key] = calls'[d].challenge
          /\ calls'[d].status = "ok" => db[calls'[d].key] = calls'[d].challenge
    BY <2>1, <2>4, <2>5 DEF CallsInv
  <2>8. \A j \in Registered :
          \E d \in Calls : /\ calls'[d].status # "idle"
                           /\ calls'[d].key = j
                           /\ calls'[d].challenge = db[j]
    BY <1>1, <2>5 DEF CallsInv
  <2>. QED
    BY <1>1, <1>3, <2>6, <2>7, <2>8 DEF CallsInv
<1>. QED
  BY <1>4, <1>5, <1>6, <1>7, <1>8
------------------------------------------------------------------------------
(* The write of a batch registers exactly its keys. *)
LEMMA WrittenKeys ==
  ASSUME TypeOK, db' = WriteBatch
  PROVE  Registered' = Registered \cup PendingKeys
BY RoundConstants DEF TypeOK, WriteBatch, Registered, PendingKeys

(* The keys a write adds were counted against the capacity as pending. *)
LEMMA WriteWithinCapacity ==
  ASSUME RoundInv, phase # "down", readErrors = 0
  PROVE  /\ Cardinality(Registered \cup PendingKeys) <= MaxMembers
         /\ Cardinality(Registered) <= members + Cardinality(PendingKeys)
<1>. DEFINE R == Registered \ PendingKeys
<1>1. /\ IsFiniteSet(R) /\ Cardinality(R) \in Nat
      /\ IsFiniteSet(PendingKeys) /\ Cardinality(PendingKeys) \in Nat
      /\ IsFiniteSet(Registered) /\ Cardinality(Registered) \in Nat
      /\ IsFiniteSet(Registered \cup PendingKeys)
      /\ Cardinality(Registered \cup PendingKeys) \in Nat
  BY KeysFinite DEF Registered, PendingKeys
<1>2. R \cup PendingKeys = Registered \cup PendingKeys /\ R \cap PendingKeys = {}
  OBVIOUS
<1>3. Cardinality(R \cup PendingKeys)
        = Cardinality(R) + Cardinality(PendingKeys) - Cardinality(R \cap PendingKeys)
  BY <1>1, FS_Union
<1>4. Cardinality(R \cap PendingKeys) = 0
  BY <1>2, FS_EmptySet
<1>5. Cardinality(Registered \cup PendingKeys) = Cardinality(R) + Cardinality(PendingKeys)
  BY <1>1, <1>2, <1>3, <1>4
<1>6. Cardinality(Registered) <= Cardinality(Registered \cup PendingKeys)
  BY <1>1, FS_Subset
<1>7. Cardinality(R) <= members /\ members + Cardinality(PendingKeys) <= MaxMembers
      /\ members \in Nat /\ MaxMembers \in Nat
  BY RoundConstants, Zenon DEF RoundInv, CountInv, TypeOK
<1>. HIDE DEF R
<1>. QED
  BY <1>1, <1>5, <1>6, <1>7

(* db.Write: the batch is registered as a whole, or nothing is. *)
LEMMA FlushWriteInv ==
  ASSUME RoundInv, FlushWrite
  PROVE  RoundInv'
<1>. USE DEF RoundInv, closeVars
<1>1. /\ flush = "write"
      /\ UNCHANGED <<members, pending, pendingFlush, fired, holder, phase, root, calls, done, crashes,
                     closeVars>>
      /\ UNCHANGED PendingKeys
      /\ PendingKeys # {} /\ holder # "none"
      /\ root = None
  BY Frame DEF FlushWrite, MutexInv, ClosingInv, HandleInv
<1>2. CASE db' = WriteBatch /\ flush' = "ok"
  <2>1. Registered' = Registered \cup PendingKeys
    BY <1>2, WrittenKeys
  <2>2. \A k \in Keys : db'[k] = IF k \in PendingKeys THEN pending[k].challenge ELSE db[k]
    BY <1>2 DEF WriteBatch, PendingKeys
  <2>3. TypeOK'
    BY <1>1, <1>2 DEF TypeOK, WriteBatch
  <2>4. MutexInv' /\ BatchInv' /\ TimerInv' /\ ClosingInv' /\ HandleInv'
    BY <1>1, <1>2, <2>2, Zenon DEF MutexInv, BatchInv, TimerInv, ClosingInv, HandleInv, PendingKeys
  <2>5. CountInv'
    <3>1. phase # "down"
      BY <1>1 DEF ClosingInv, HandleInv
    <3>2. readErrors = 0 => MembersInDB' <= MaxMembers
      BY <2>1, <3>1, WriteWithinCapacity DEF MembersInDB
    <3>3. Registered' \ PendingKeys' = Registered \ PendingKeys
      BY <1>1, <2>1
    <3>. QED
      BY <1>1, <3>1, <3>2, <3>3 DEF CountInv
  <2>6. CallsInv'
    <3>1. \A k \in Registered : k \in Keys /\ k \notin PendingKeys /\ db'[k] = db[k]
      BY <1>1, <2>2 DEF BatchInv, Registered
    <3>2. \A c \in Calls : done[c] = "ok" \/ calls[c].status = "ok" => calls[c].key \in Registered
      BY RoundConstants DEF CallsInv, Registered
    <3>3. \A c \in Calls :
            /\ done[c] = "ok" => db'[calls[c].key] = calls[c].challenge
            /\ calls[c].status = "ok" => db'[calls[c].key] = calls[c].challenge
      BY <3>1, <3>2, ZenonT(40) DEF CallsInv
    <3>4. \A k \in PendingKeys :
            \E c \in Calls : calls[c].status # "idle" /\ calls[c].key = k /\ calls[c].challenge = db'[k]
      <4>. TAKE k \in PendingKeys
      <4>1. pending[k].call \in Calls /\ db'[k] = pending[k].challenge
        BY <2>2 DEF TypeOK, PendingKeys
      <4>. QED
        BY <4>1 DEF CallsInv
    <3>5. \A k \in Registered :
            \E c \in Calls : calls[c].status # "idle" /\ calls[c].key = k /\ calls[c].challenge = db'[k]
      BY <3>1 DEF CallsInv
    <3>6. \A k \in Registered' :
            \E c \in Calls : calls'[c].status # "idle" /\ calls'[c].key = k /\ calls'[c].challenge = db'[k]
      BY <1>1, <2>1, <3>4, <3>5
    <3>. QED
      BY <1>1, <3>3, <3>6, Zenon DEF CallsInv
  <2>. QED
    BY <2>3, <2>4, <2>5, <2>6
<1>3. CASE UNCHANGED db /\ flush' = "err"
  <2>1. UNCHANGED <<Registered, MembersInDB>>
    BY <1>3, Frame
  <2>2. TypeOK'
    BY <1>1, <1>3 DEF TypeOK
  <2>3. MutexInv' /\ BatchInv' /\ TimerInv' /\ ClosingInv' /\ HandleInv' /\ CallsInv'
    BY <1>1, <1>3, <2>1, Zenon DEF MutexInv, BatchInv, TimerInv, ClosingInv, HandleInv, CallsInv
  <2>4. CountInv'
    BY <1>1, <2>1 DEF CountInv
  <2>. QED
    BY <2>2, <2>3, <2>4
<1>. QED
  BY <1>2, <1>3, Zenon DEF FlushWrite

(* The replies: every pending call gets the result, which is true, and the *)
(* batch is cleared.                                                       *)
LEMMA FlushReplyInv ==
  ASSUME RoundInv, FlushReply
  PROVE  RoundInv'
<1>. USE DEF RoundInv, closeVars
<1>1. /\ flush \in {"ok", "err"}
      /\ done' = [c \in Calls |-> IF IsPending(c) THEN flush ELSE done[c]]
      /\ members' = members + Cardinality(PendingKeys)
      /\ pending' = NoPending /\ holder' = "none" /\ flush' = "idle"
      /\ UNCHANGED <<db, pendingFlush, fired, phase, root, calls, crashes, closeVars>>
      /\ pendingFlush = "nil" /\ phase # "down"
  BY DEF FlushReply, FlushResult, MutexInv, ClosingInv, HandleInv
<1>2. PendingKeys' = {} /\ UNCHANGED <<Registered, MembersInDB>>
  BY <1>1, Frame DEF NoPending, PendingKeys
<1>3. Cardinality(PendingKeys) \in Nat /\ Cardinality(PendingKeys') = 0
  BY <1>2, KeysFinite, FS_EmptySet DEF PendingKeys
<1>4. TypeOK'
  BY <1>1, <1>3 DEF TypeOK, NoPending
<1>5. MutexInv' /\ BatchInv' /\ TimerInv' /\ ClosingInv' /\ HandleInv'
  BY <1>1, <1>2 DEF MutexInv, BatchInv, TimerInv, ClosingInv, HandleInv
<1>6. CountInv'
  <2>1. Registered' \ PendingKeys' = Registered
    BY <1>2
  <2>2. readErrors = 0 => Cardinality(Registered) <= members'
    BY <1>1, WriteWithinCapacity
  <2>3. readErrors = 0 => members' + 0 <= MaxMembers
    BY <1>1, <1>3, RoundConstants DEF CountInv, TypeOK
  <2>. QED
    BY <1>1, <1>2, <1>3, <2>1, <2>2, <2>3 DEF CountInv
<1>7. CallsInv'
  <2>1. \A c \in Calls : IsPending(c) =>
          /\ calls[c].status # "idle"
          /\ flush = "ok" => db[calls[c].key] = calls[c].challenge
    BY DEF IsPending, CallsInv, BatchInv
  <2>2. \A c \in Calls : /\ done'[c] # "none" => calls[c].status # "idle"
                         /\ done'[c] = "ok" => db[calls[c].key] = calls[c].challenge
    BY <1>1, <2>1, Zenon DEF CallsInv
  <2>. QED
    BY <1>1, <1>2, <2>2, Zenon DEF CallsInv
<1>. QED
  BY <1>4, <1>5, <1>6, <1>7
------------------------------------------------------------------------------
(* Timers and closing touch neither the data nor the callers.  What is     *)
(* left to show of them is about the mutex, the timer and the phase.       *)
LEMMA DataUntouched ==
  ASSUME RoundInv,
         UNCHANGED <<db, members, pending, calls, done>>,
         phase' # "down" => phase # "down",
         readErrors' = 0 => readErrors = 0,
         flush' = flush \/ (flush = "idle" /\ flush' = "write")
  PROVE  BatchInv' /\ CountInv' /\ CallsInv'
<1>1. UNCHANGED <<Registered, MembersInDB, PendingKeys>>
  BY Frame
<1>2. BatchInv'
  BY <1>1 DEF RoundInv, BatchInv
<1>3. CountInv'
  BY <1>1 DEF RoundInv, CountInv
<1>4. CallsInv'
  BY <1>1, Zenon DEF RoundInv, CallsInv
<1>. QED
  BY <1>2, <1>3, <1>4

(* The flush timer fires, or its goroutine gets the mutex. *)
LEMMA TimerStepsInv ==
  ASSUME RoundInv, TimerFires \/ TimedFlush
  PROVE  RoundInv'
<1>. USE DEF RoundInv, closeVars
<1>1. CASE TimerFires
  <2>1. UNCHANGED PendingKeys
    BY <1>1, Frame DEF TimerFires
  <2>2. TypeOK' /\ MutexInv' /\ TimerInv' /\ ClosingInv' /\ HandleInv'
    BY <1>1, <2>1 DEF TimerFires, TypeOK, MutexInv, TimerInv, ClosingInv, HandleInv
  <2>. QED
    BY <1>1, <2>2, DataUntouched DEF TimerFires
<1>2. CASE TimedFlush
  <2>1. UNCHANGED PendingKeys
    BY <1>2, Frame DEF TimedFlush
  <2>2. TypeOK' /\ MutexInv' /\ TimerInv' /\ ClosingInv' /\ HandleInv'
    BY <1>2, <2>1 DEF TimedFlush, StartFlush, mutexVars, TypeOK, MutexInv, TimerInv, ClosingInv, HandleInv
  <2>3. flush' = flush \/ (flush = "idle" /\ flush' = "write")
    BY <1>2 DEF TimedFlush, StartFlush, mutexVars, MutexInv
  <2>. QED
    BY <1>2, <2>2, <2>3, DataUntouched DEF TimedFlush
<1>. QED
  BY <1>1, <1>2

(* closeRound and Close begin, or end. *)
LEMMA PhaseStepsInv ==
  ASSUME RoundInv, LockRound \/ Shutdown \/ CloseDB
  PROVE  RoundInv'
<1>. USE DEF RoundInv, closeVars
<1>1. phaseOnly /\ phase # "down" /\ phase' \in {"locked", "shutting", "closed"}
  BY DEF LockRound, Shutdown, CloseDB, LeftInPlace
<1>2. UNCHANGED PendingKeys
  BY <1>1, Frame DEF phaseOnly
<1>3. TypeOK'
  <2>1. again' \in BOOLEAN /\ dbOpen' \in BOOLEAN
    BY Zenon DEF LockRound, Shutdown, CloseDB, TypeOK
  <2>2. closedBy' \in {"nobody", "closeRound", "recoverExecution", "Close"}
    BY DEF LockRound, Shutdown, CloseDB, TypeOK
  <2>. QED
    BY <1>1, <2>1, <2>2, Zenon DEF phaseOnly, TypeOK, Phases
<1>5. MutexInv' /\ TimerInv'
  BY <1>1, <1>2, Zenon DEF phaseOnly, MutexInv, TimerInv
<1>4. ClosingInv' /\ HandleInv'
  BY <1>1, <1>2, Zenon DEF phaseOnly, ClosingInv, HandleInv, LockRound, Shutdown, CloseDB, LeftInPlace
<1>. QED
  BY <1>1, <1>3, <1>4, <1>5, DataUntouched DEF phaseOnly

(* The two flushes of a closing round. *)
LEMMA ClosingFlushInv ==
  ASSUME RoundInv, CalcRootFlush \/ CloseFlush
  PROVE  RoundInv'
<1>. USE DEF RoundInv, closeVars
<1>1. /\ StartFlush("closer") /\ holder = "none" /\ phase # "down"
      /\ phase' \in {"iterate", "closing"}
      /\ UNCHANGED <<db, members, pending, fired, root, calls, done, crashes, closeVars>>
  BY DEF CalcRootFlush, CloseFlush
<1>2. UNCHANGED PendingKeys
  BY <1>1, Frame
<1>3. flush' = flush \/ (flush = "idle" /\ flush' = "write")
  BY <1>1 DEF StartFlush, mutexVars, MutexInv
<1>4. TypeOK' /\ MutexInv' /\ TimerInv'
  BY <1>1, <1>2, Zenon DEF StartFlush, mutexVars, TypeOK, Phases, MutexInv, TimerInv
<1>5. ClosingInv' /\ HandleInv'
  BY <1>1, <1>2 DEF StartFlush, mutexVars, ClosingInv, HandleInv, CalcRootFlush, CloseFlush
<1>. QED
  BY <1>1, <1>3, <1>4, <1>5, DataUntouched

(* An iteration without an error yields all keys of the database. *)
LEMMA IterateReads ==
  ASSUME TypeOK, NEW S, Iterate(S)
  PROVE  /\ S \in SUBSET Registered
         /\ readErrors' \in Nat
         /\ readErrors' = 0 => readErrors = 0 /\ S = Registered
BY DEF Iterate, TypeOK

(* The root is that of the database, or the empty one of a closed database *)
(* that is closed again, or something was not read.                        *)
LEMMA RootTaken ==
  ASSUME RoundInv, CalcRoot
  PROVE  /\ root' \in [Keys -> Challenges \cup {None}]
         /\ readErrors' \in Nat
         /\ readErrors' = 0 =>
              readErrors = 0 /\ (root' = db \/ (again /\ root' = NoMembers))
<1>. USE DEF RoundInv
<1>1. CASE dbOpen
  <2>1. PICK S \in SUBSET Registered :
          /\ Iterate(S)
          /\ root' = [k \in Keys |-> IF k \in S THEN db[k] ELSE None]
    BY <1>1 DEF CalcRoot
  <2>2. root' \in [Keys -> Challenges \cup {None}]
    BY <2>1 DEF TypeOK
  <2>3. S = Registered => root' = db
    BY <2>1 DEF TypeOK, Registered
  <2>. QED
    BY <2>1, <2>2, <2>3, IterateReads
<1>2. CASE ~dbOpen
  BY <1>2 DEF CalcRoot, HandleInv, NoMembers, TypeOK
<1>. QED
  BY <1>1, <1>2

(* The root is computed from the database when nothing is left to flush. *)
LEMMA CalcRootInv ==
  ASSUME RoundInv, CalcRoot
  PROVE  RoundInv'
<1>. USE DEF RoundInv, closeVars
<1>1. UNCHANGED PendingKeys /\ PendingKeys = {}
  BY Frame, Zenon DEF CalcRoot, ClosingInv, HandleInv
<1>2. TypeOK' /\ MutexInv' /\ TimerInv'
  BY <1>1, RootTaken DEF CalcRoot, TypeOK, Phases, MutexInv, TimerInv
<1>3. root' # None
  BY RootTaken, RoundConstants
<1>4. ClosingInv' /\ HandleInv'
  <2>1. NoMembers' = NoMembers
    BY DEF NoMembers
  <2>. QED
    BY <1>1, <1>3, <2>1, RootTaken DEF CalcRoot, ClosingInv, HandleInv
<1>. QED
  BY <1>2, <1>4, RootTaken, DataUntouched DEF CalcRoot

(* A stop leaves the database; what callers were told about it stays true. *)
LEMMA StopInv ==
  ASSUME RoundInv, Stop
  PROVE  RoundInv'
<1>. USE DEF RoundInv, closeVars
<1>1. PendingKeys' = {} /\ UNCHANGED <<Registered, MembersInDB>>
  BY Frame DEF Stop, NoPending, PendingKeys
<1>2. \A c \in Calls :
        \/ calls'[c] = calls[c]
        \/ /\ calls[c].status = "waiting"
           /\ calls'[c] = [calls[c] EXCEPT !.status = "lost"]
  BY DEF Stop
<1>3. \A c \in Calls :
        /\ calls'[c] \in Call
        /\ calls'[c].key = calls[c].key
        /\ calls'[c].challenge = calls[c].challenge
        /\ calls'[c].status = "idle" <=> calls[c].status = "idle"
        /\ calls'[c].status = "ok" => calls[c].status = "ok"
  <2>. TAKE c \in Calls
  <2>1. calls[c] \in Call
    BY DEF TypeOK
  <2>. QED
    BY <1>2, <2>1, Zenon DEF Call, Statuses
<1>4. TypeOK'
  <2>1. calls' \in [Calls -> Call]
    BY <1>3 DEF Stop
  <2>2. pending' \in [Keys -> [challenge : Challenges, call : Calls] \cup {None}]
        /\ done' \in [Calls -> {"none", "ok", "err"}]
    BY DEF Stop, NoPending
  <2>3. members' \in Nat /\ fired' \in Nat /\ crashes' \in Nat
    BY DEF Stop, TypeOK
  <2>. QED
    BY <2>1, <2>2, <2>3, Zenon DEF Stop, TypeOK, Phases
<1>5. MutexInv' /\ BatchInv' /\ TimerInv' /\ ClosingInv' /\ HandleInv'
  BY <1>1 DEF Stop, MutexInv, BatchInv, TimerInv, ClosingInv, HandleInv
<1>6. CountInv'
  BY <1>1 DEF Stop, CountInv
<1>7. CallsInv'
  BY <1>1, <1>3 DEF Stop, CallsInv
<1>. QED
  BY <1>4, <1>5, <1>6, <1>7

(* newRound counts the members anew. *)
LEMMA newRoundInv ==
  ASSUME RoundInv, newRound
  PROVE  RoundInv'
<1>. USE DEF RoundInv, closeVars
<1>1. UNCHANGED <<Registered, MembersInDB, PendingKeys>> /\ PendingKeys = {}
  BY Frame DEF newRound, ClosingInv, HandleInv
<1>2. PICK S \in SUBSET Registered : Iterate(S) /\ members' = Cardinality(S)
  BY DEF newRound
<1>3. /\ members' \in Nat
      /\ readErrors' \in Nat
      /\ readErrors' = 0 => readErrors = 0 /\ members' = MembersInDB
  BY <1>2, IterateReads, KeysFinite DEF MembersInDB, Registered
<1>4. CountInv'
  <2>1. Registered' \ PendingKeys' = Registered /\ Cardinality(PendingKeys') = 0
    BY <1>1, FS_EmptySet
  <2>2. readErrors' = 0 => members' + 0 <= MaxMembers
    BY <1>3, RoundConstants DEF CountInv
  <2>. QED
    BY <1>1, <1>3, <2>1, <2>2 DEF CountInv, MembersInDB
<1>6. TypeOK'
  BY <1>3 DEF newRound, TypeOK, Phases
<1>7. MutexInv' /\ BatchInv' /\ TimerInv'
  BY <1>1, Zenon DEF newRound, MutexInv, BatchInv, TimerInv
<1>8. ClosingInv' /\ HandleInv'
  <2>1. NoMembers' = NoMembers
    BY DEF NoMembers
  <2>. QED
    BY <1>1, <1>3, <2>1 DEF newRound, ClosingInv, HandleInv
<1>5. CallsInv'
  BY <1>1, Zenon DEF newRound, CallsInv
<1>. QED
  BY <1>4, <1>5, <1>6, <1>7, <1>8
------------------------------------------------------------------------------
(* Every step preserves the invariant, and so does stuttering. *)
LEMMA NextInv ==
  ASSUME RoundInv, [Next]_vars
  PROVE  RoundInv'
<1>1. CASE UNCHANGED vars
  <2>1. UNCHANGED <<Registered, MembersInDB, PendingKeys>>
    BY <1>1, Frame DEF vars
  <2>2. TypeOK' /\ MutexInv' /\ TimerInv' /\ ClosingInv' /\ HandleInv'
    BY <1>1, <2>1, Zenon DEF vars, RoundInv, TypeOK, MutexInv, TimerInv, ClosingInv, HandleInv
  <2>3. BatchInv' /\ CountInv' /\ CallsInv'
    BY <1>1, DataUntouched DEF vars
  <2>. QED
    BY <2>2, <2>3 DEF RoundInv
<1>2. ASSUME NEW c \in Calls, NEW k \in Keys, NEW ch \in Challenges, Submit(c, k, ch)
      PROVE  RoundInv'
  <2>1. CASE SubmitFull(c, k, ch)
    BY <2>1, ReplyInv DEF SubmitFull, MaySubmit, Statuses
  <2>2. CASE SubmitKnown(c, k, ch)
    BY <2>2, ReplyInv DEF SubmitKnown, MaySubmit, Statuses
  <2>3. CASE SubmitClosed(c, k, ch)
    BY <2>3, ReplyInv DEF SubmitClosed, MaySubmit, Statuses
  <2>4. CASE SubmitNew(c, k, ch)
    BY <2>4, SubmitNewInv
  <2>. QED
    BY <1>2, <2>1, <2>2, <2>3, <2>4 DEF Submit
<1>3. ASSUME NEW c \in Calls, Await(c) \/ Cancel(c)
      PROVE  RoundInv'
  BY <1>3, WaitInv
<1>4. CASE FlushWrite
  BY <1>4, FlushWriteInv
<1>5. CASE FlushReply
  BY <1>5, FlushReplyInv
<1>6. CASE TimerFires \/ TimedFlush
  BY <1>6, TimerStepsInv
<1>7. CASE LockRound \/ Shutdown \/ CloseDB
  BY <1>7, PhaseStepsInv
<1>8. CASE CalcRootFlush \/ CloseFlush
  BY <1>8, ClosingFlushInv
<1>9. CASE CalcRoot
  BY <1>9, CalcRootInv
<1>10. CASE Stop
  BY <1>10, StopInv
<1>11. CASE newRound
  BY <1>11, newRoundInv
<1>. QED
  BY <1>1, <1>2, <1>3, <1>4, <1>5, <1>6, <1>7, <1>8, <1>9, <1>10, <1>11 DEF Next, Closer

(* The invariant of a round under concurrent submits, timed flushes,       *)
(* failing writes, closing and stops (registration/round.go).              *)
THEOREM RoundInvariant == Spec => []RoundInv
<1>1. Init => RoundInv
  BY InitInv
<1>2. RoundInv /\ [Next]_vars => RoundInv'
  BY NextInv
<1>. QED
  BY <1>1, <1>2, PTL DEF Spec

(* The variables of a round keep their types. *)
THEOREM TypeCorrect == Spec => []TypeOK
<1>1. RoundInv => TypeOK
  BY DEF RoundInv
<1>. QED
  BY <1>1, RoundInvariant, PTL

(* A submit answered from its done channel with success is in the database *)
(* from then on, across failed writes, closing and restarts.               *)
THEOREM AcksAreDurable == Spec => []AckDurable
<1>1. RoundInv => AckDurable
  BY Zenon DEF RoundInv, CallsInv, AckDurable
<1>. QED
  BY <1>1, RoundInvariant, PTL

(* The membership root that closeRound or recoverExecution hands to the    *)
(* worker covers every acknowledged challenge, unless closeRound has closed *)
(* the round twice and its root is empty, or an iteration broke off.       *)
THEOREM RootsCoverAcks == Spec => []RootCoversAcks
<1>1. RoundInv => RootCoversAcks
  BY DEF RoundInv, CallsInv, ClosingInv, HandleInv, RootCoversAcks
<1>. QED
  BY <1>1, RoundInvariant, PTL

(* The round's database never outgrows maxMembers, while countMembersInDB   *)
(* counts all of them.                                                     *)
THEOREM CapacityIsRespected == Spec => []CapacityRespected
<1>1. RoundInv => CapacityRespected
  BY DEF RoundInv, CountInv, CapacityRespected
<1>. QED
  BY <1>1, RoundInvariant, PTL

(* No batch of an open round is left without somebody to flush it. *)
THEOREM FlushesAreScheduled == Spec => []FlushScheduled
<1>1. RoundInv => FlushScheduled
  BY Zenon DEF RoundInv, TypeOK, TimerInv, FlushScheduled
<1>. QED
  BY <1>1, RoundInvariant, PTL

(* The root of a round only ever changes to or from the empty root of a    *)
(* second closeRound, or when an iteration breaks off: recomputing it      *)
(* after a restart gives the same root.                                    *)
THEOREM RootsAreStable == Spec => RootStable
<1>. DEFINE Stable == root # None /\ root' # root =>
                        \/ again' /\ NoMembers \in {root, root'}
                        \/ readErrors' > 0
<1>1. RoundInv /\ [Next]_vars => [Stable]_vars
  <2>. SUFFICES ASSUME RoundInv, Next, root # None, root' # root
                PROVE  (again' /\ NoMembers \in {root, root'}) \/ readErrors' > 0
    BY DEF vars
  <2>1. CASE CalcRoot
    BY <2>1, RootTaken DEF CalcRoot, RoundInv, ClosingInv
  <2>2. CASE ~CalcRoot
    BY <2>2 DEF Next, Submit, SubmitFull, SubmitKnown, SubmitClosed, SubmitNew, callsOnly,
       Await, Cancel, FlushWrite, FlushReply, TimerFires, TimedFlush, LockRound, Shutdown,
       phaseOnly, Closer, CalcRootFlush, CloseFlush, CloseDB, Stop, newRound
  <2>. QED
    BY <2>1, <2>2
<1>. QED
  BY <1>1, RoundInvariant, PTL DEF Spec, RootStable
------------------------------------------------------------------------------
(* Refinement.  Each step of the round is a step of RoundRegistry on db,   *)
(* root and calls, or leaves them alone.                                   *)

(* A reply of submit is an Ask; what it says about a known key is backed   *)
(* by an earlier call for that key.                                        *)
LEMMA SubmitRefines ==
  ASSUME RoundInv, NEW c \in Calls, NEW k \in Keys, NEW ch \in Challenges,
         Submit(c, k, ch)
  PROVE  Registry!Next
<1>1. PICK s \in Statuses :
        /\ Reply(c, k, ch, s)
        /\ s \in {"waiting", "full", "failed", "already", "conflict"}
        /\ s = "already" => Known(k) = ch /\ Known(k) # None
        /\ s = "conflict" => Known(k) # ch /\ Known(k) # None
  BY Zenon DEF Submit, SubmitFull, SubmitKnown, SubmitClosed, SubmitNew, Statuses
<1>2. calls[c].status = "idle" /\ UNCHANGED <<db, root, readErrors>>
  BY Zenon DEF Submit, SubmitFull, SubmitKnown, SubmitClosed, SubmitNew, MaySubmit, callsOnly,
     closeVars
<1>3. Known(k) # None =>
        \E d \in Calls : /\ calls[d].status # "idle"
                         /\ calls[d].key = k
                         /\ calls[d].challenge = Known(k)
  <2>1. CASE pending[k] # None
    <3>1. k \in PendingKeys /\ pending[k].call \in Calls
      BY <2>1, Zenon DEF PendingKeys, RoundInv, TypeOK
    <3>. QED
      BY <2>1, <3>1, Zenon DEF RoundInv, CallsInv, Known
  <2>2. CASE pending[k] = None
    BY <2>2, ZenonT(40) DEF RoundInv, CallsInv, Registered, Known
  <2>. QED
    BY <2>1, <2>2, ZenonT(40)
<1>4. Registry!Ask(c, k, ch, s)
  BY <1>1, <1>2, <1>3, Zenon DEF Registry!Ask, Registry!Asked, Reply
<1>. QED
  BY <1>4 DEF Registry!Next, Registry!Statuses, Statuses

(* The instance has its own copy of Cardinality. *)
LEMMA SameCardinality ==
  ASSUME NEW S
  PROVE  Registry!Cardinality(S) = Cardinality(S)
BY Zenon DEF Registry!Cardinality, Cardinality

(* A successful write is a Store. *)
LEMMA FlushWriteRefines ==
  ASSUME RoundInv, FlushWrite, RoundInv'
  PROVE  Registry!Store \/ UNCHANGED Registry!vars
<1>1. CASE UNCHANGED db
  BY <1>1 DEF FlushWrite, closeVars, Registry!vars
<1>2. CASE db' = WriteBatch
  <2>1. root = None /\ UNCHANGED <<root, calls, readErrors>>
    BY Zenon DEF FlushWrite, closeVars, RoundInv, ClosingInv, HandleInv, MutexInv
  <2>2. db' \in [Keys -> Challenges \cup {None}]
    BY Zenon DEF RoundInv, TypeOK
  <2>3. ASSUME NEW k \in Keys
        PROVE  \/ db'[k] = db[k]
               \/ /\ db[k] = None
                  /\ \E c \in Calls : /\ calls[c].status # "idle"
                                      /\ calls[c].key = k
                                      /\ calls[c].challenge = db'[k]
    <3>1. CASE pending[k] = None
      BY <1>2, <3>1, Zenon DEF WriteBatch
    <3>2. CASE pending[k] # None
      <4>1. k \in PendingKeys /\ pending[k].call \in Calls /\ db'[k] = pending[k].challenge
        BY <1>2, <3>2, Zenon DEF WriteBatch, PendingKeys, RoundInv, TypeOK
      <4>2. db[k] = None
        BY <4>1, Zenon DEF RoundInv, BatchInv, FlushWrite
      <4>. QED
        BY <4>1, <4>2 DEF RoundInv, CallsInv
    <3>. QED
      BY <3>1, <3>2, Zenon
  <2>4. readErrors = 0 => Cardinality({k \in Keys : db'[k] # None}) <= MaxMembers
    BY <2>1, Zenon DEF RoundInv, CountInv, MembersInDB, Registered
  <2>. QED
    BY <2>1, <2>2, <2>3, <2>4, SameCardinality, Zenon DEF Registry!Store, Registry!Asked
<1>. QED
  BY <1>1, <1>2 DEF FlushWrite

(* The result read from a done channel, or the cancellation, is an Answer. *)
LEMMA WaitRefines ==
  ASSUME RoundInv, NEW c \in Calls, Await(c) \/ Cancel(c)
  PROVE  Registry!Next
<1>1. PICK s \in {"ok", "failed", "cancelled"} :
        /\ calls' = [calls EXCEPT ![c].status = s]
        /\ s = "ok" => done[c] = "ok"
  BY DEF Await, Cancel
<1>2. calls[c].status = "waiting" /\ UNCHANGED <<db, root, readErrors>>
  BY DEF Await, Cancel, callsOnly, closeVars
<1>3. Registry!Answer(c, s)
  BY <1>1, <1>2 DEF Registry!Answer, RoundInv, CallsInv
<1>. QED
  BY <1>3 DEF Registry!Next, Registry!Statuses

(* A count that broke off is a Misread. *)
LEMMA newRoundRefines ==
  ASSUME RoundInv, newRound
  PROVE  Registry!Misread \/ UNCHANGED Registry!vars
<1>1. PICK S \in SUBSET Registered : Iterate(S)
  BY DEF newRound
<1>2. UNCHANGED readErrors \/ readErrors' # 0
  BY <1>1 DEF Iterate, RoundInv, TypeOK
<1>. QED
  BY <1>2 DEF newRound, Registry!Misread, Registry!vars

(* The root is a Seal, or a Misread when the iteration broke off. *)
LEMMA CalcRootRefines ==
  ASSUME RoundInv, CalcRoot
  PROVE  Registry!Seal \/ Registry!Misread
<1>1. UNCHANGED <<db, calls>>
  BY DEF CalcRoot
<1>2. CASE dbOpen
  <2>1. PICK S \in SUBSET Registered :
          /\ Iterate(S)
          /\ root' = [k \in Keys |-> IF k \in S THEN db[k] ELSE None]
    BY <1>2 DEF CalcRoot
  <2>2. CASE S = Registered /\ UNCHANGED readErrors
    <3>1. root' = db
      BY <2>1, <2>2 DEF RoundInv, TypeOK, Registered
    <3>. QED
      BY <1>1, <2>2, <3>1 DEF Registry!Seal
  <2>3. CASE readErrors' = readErrors + 1
    <3>1. readErrors' # 0
      BY <2>3 DEF RoundInv, TypeOK
    <3>2. S \in SUBSET Keys
      BY DEF Registered
    <3>. QED
      BY <1>1, <2>1, <3>1, <3>2 DEF Registry!Misread
  <2>. QED
    BY <2>1, <2>2, <2>3 DEF Iterate
<1>3. CASE ~dbOpen
  BY <1>1, <1>3 DEF CalcRoot, RoundInv, HandleInv, NoMembers, Registry!Seal
<1>. QED
  BY <1>2, <1>3

(* A round keeps the promises of RoundRegistry: registrations are final,   *)
(* answers are true, and the sealed set is frozen, whatever the batching,  *)
(* the timers, closeRound and restarts do underneath.                      *)
THEOREM RoundImplementsRegistry == Spec => ImplementsRegistry
<1>1. Init => Registry!Init
  BY Zenon DEF Init, Registry!Init
<1>2. ASSUME RoundInv, RoundInv', [Next]_vars
      PROVE  [Registry!Next]_(Registry!vars)
  <2>1. CASE UNCHANGED vars
    BY <2>1 DEF vars, Registry!vars
  <2>2. ASSUME NEW c \in Calls, NEW k \in Keys, NEW ch \in Challenges, Submit(c, k, ch)
        PROVE  Registry!Next
    BY <1>2, <2>2, SubmitRefines
  <2>3. ASSUME NEW c \in Calls, Await(c) \/ Cancel(c)
        PROVE  Registry!Next
    BY <1>2, <2>3, WaitRefines
  <2>4. CASE FlushWrite
    BY <1>2, <2>4, FlushWriteRefines DEF Registry!Next
  <2>5. CASE CalcRoot
    BY <1>2, <2>5, CalcRootRefines DEF Registry!Next
  <2>6. CASE Stop
    BY <2>6 DEF Stop, Registry!Next, Registry!LoseCalls
  <2>7. CASE FlushReply \/ TimerFires \/ TimedFlush
    BY <2>7, Zenon DEF FlushReply, TimerFires, TimedFlush, closeVars, Registry!vars
  <2>9. CASE newRound
    BY <1>2, <2>9, newRoundRefines DEF Registry!Next
  <2>8. CASE LockRound \/ Shutdown \/ CloseDB \/ CalcRootFlush \/ CloseFlush
    BY <2>8, Zenon DEF LockRound, Shutdown, CloseDB, phaseOnly, CalcRootFlush, CloseFlush,
       closeVars, Registry!vars
  <2>. QED
    BY <1>2, <2>1, <2>2, <2>3, <2>4, <2>5, <2>6, <2>7, <2>8, <2>9 DEF Next, Closer
<1>. QED
  BY <1>1, <1>2, RoundInvariant, PTL DEF Spec, ImplementsRegistry, Registry!Spec
==============================================================================
