----------------------- MODULE AdmissionServer_proofs ------------------------
(***************************************************************************)
(* Proofs about Admission, the first half: the types of the server and of  *)
(* the calls, the trusted keys while they are reloaded, and the number of  *)
(* members of a round.                                                     *)
(***************************************************************************)
EXTENDS Admission, FiniteSetTheorems, TLAPS

(* What Submit answers, and the fields of a call. *)
Codes == {None, "OK", "InvalidArgument", "Unauthenticated", "FailedPrecondition",
          "ResourceExhausted", "AlreadyExists", "Canceled", "Internal"}

CallStates ==
  [pc : {"idle", "solved", "done"} \cup InProgress, req : Requests \cup {None},
   params : (0 .. MaxEvents) \cup {NoParams}, fetchedAt : Nat \cup {-2}, keys : SUBSET Keys,
   code : Codes, epoch : Epochs \cup {None}, own : BOOLEAN, since : Nat,
   seen : SUBSET Keys, age : Int \cup {None}]

(* The types of the server's state, ... *)
ServerType ==
  /\ now \in 0 .. MaxTime
  /\ up \in BOOLEAN
  /\ certifier \in Certifiers
  /\ keyDir \in [KeyFiles -> Keys \cup {Garbage, None}]
  /\ edits \in Nat /\ nips \in Nat /\ crashes \in Nat /\ rotations \in Nat /\ trustedAt \in Nat
  /\ edits + nips + crashes <= MaxEvents
  /\ trusted \subseteq Keys
  /\ reload # None => reload \in [left : SUBSET KeyFiles, loaded : SUBSET Keys, began : Nat]
  /\ powDb \in {None, [current |-> 0, previous |-> None]}
  /\ pow \in [current : (0 .. MaxEvents) \cup {NoVerifier},
              previous : (0 .. MaxEvents) \cup {NoVerifier, Empty}]
  /\ up => pow.current # NoVerifier
  /\ openRound \in [epoch : Epochs, members : Nat, pending : [Nodes -> Challenges \cup {None}]]
  /\ closed \in BOOLEAN
  /\ registered \in [Epochs -> [Nodes -> Challenges \cup {None}]]

(* ... and of the calls; only a running server handles any. *)
CallsType ==
  /\ calls \in [Calls -> CallStates]
  /\ \A c \in Calls : calls[c].pc \in InProgress => up /\ calls[c].req \in Requests
  /\ \A c \in Calls : calls[c].pc # "done" => calls[c].code = None

(* Integer division is monotone. *)
LEMMA DivisionInOrder ==
  ASSUME NEW a \in Nat, NEW b \in Nat, a <= b, NEW d \in Nat \ {0}
  PROVE  a \div d \in Nat /\ b \div d \in Nat /\ a \div d <= b \div d
<1> DEFINE q == a \div d
           r == b \div d
<1>1. q \in Nat /\ r \in Nat /\ d * q <= a /\ b < d * r + d
  OBVIOUS
<1> HIDE DEF q, r
<1>2. d * (r + 1) = d * r + d
  BY <1>1
<1>3. r + 1 <= q => d * (r + 1) <= d * q
  BY <1>1
<1>4. d * q \in Nat /\ d * r \in Nat
  BY <1>1
<1>5. q <= r
  BY <1>1, <1>2, <1>3, <1>4
<1> QED
  BY <1>1, <1>5 DEF q, r

(* OpenRoundId never goes back while the clock runs. *)
LEMMA OpenRoundInOrder ==
  ASSUME NEW s \in Nat, NEW u \in Nat, s <= u
  PROVE  OpenRoundId(s) \in Nat /\ OpenRoundId(u) \in Nat /\ OpenRoundId(s) <= OpenRoundId(u)
<1>1. CASE u < PhaseShift
  BY <1>1, ScheduleConstants DEF OpenRoundId
<1>2. CASE u >= PhaseShift
  <2>1. u - PhaseShift \in Nat
    BY <1>2, ScheduleConstants
  <2>2. OpenRoundId(u) = (u - PhaseShift) \div EpochDuration + 1
    BY <1>2, ScheduleConstants DEF OpenRoundId
  <2>3. CASE s < PhaseShift
    BY <2>1, <2>2, <2>3, DivisionInOrder, ScheduleConstants DEF OpenRoundId
  <2>4. CASE s >= PhaseShift
    <3>1. s - PhaseShift \in Nat /\ s - PhaseShift <= u - PhaseShift
      BY <2>4, ScheduleConstants
    <3>2. OpenRoundId(s) = (s - PhaseShift) \div EpochDuration + 1
      BY <2>4, ScheduleConstants DEF OpenRoundId
    <3> QED
      BY <2>1, <2>2, <3>1, <3>2, DivisionInOrder, ScheduleConstants
  <2> QED
    BY <2>3, <2>4, ScheduleConstants
<1> QED
  BY <1>1, <1>2, ScheduleConstants

(* The round that New and closeRound open is one of Epochs. *)
LEMMA OpenRoundInEpochs ==
  ASSUME NEW t \in 0 .. MaxTime
  PROVE  OpenRoundId(t) \in Epochs /\ Epochs \subseteq Nat
<1>1. t \in Nat /\ MaxTime \in Nat /\ t <= MaxTime
  BY AdmissionConstants
<1>2. OpenRoundId(t) \in Nat /\ OpenRoundId(MaxTime) \in Nat /\ OpenRoundId(t) <= OpenRoundId(MaxTime)
  BY <1>1, OpenRoundInOrder
<1> QED
  BY <1>2 DEF Epochs

(* The keys of the configuration. *)
LEMMA ConfiguredKeysType ==
  ASSUME certifier \in Certifiers
  PROVE  ConfiguredKeys \subseteq Keys
BY AdmissionConstants DEF ConfiguredKeys

(* The number of nodes with something is a natural number. *)
LEMMA CountNodes ==
  ASSUME NEW S, S \subseteq Nodes
  PROVE  IsFiniteSet(S) /\ Cardinality(S) \in Nat
BY FS_Subset, FS_CardinalityType, AdmissionConstants

(* newRound opens a round of a known epoch with an empty batch. *)
LEMMA NewRoundType ==
  ASSUME ServerType, NEW db, newRound(db)
  PROVE  openRound' \in [epoch : Epochs, members : Nat, pending : [Nodes -> Challenges \cup {None}]]
<1>1. OpenRoundId(now) \in Epochs
  BY OpenRoundInEpochs DEF ServerType
<1>2. Cardinality({n \in Nodes : db[OpenRoundId(now)][n] # None}) \in Nat
  BY CountNodes
<1>3. NobodyPending \in [Nodes -> Challenges \cup {None}]
  BY DEF NobodyPending
<1> QED
  BY <1>1, <1>2, <1>3 DEF newRound

(* A flush writes challenges. *)
LEMMA FlushType ==
  ASSUME ServerType, NEW written \in BOOLEAN, FlushInto(written)
  PROVE  registered' \in [Epochs -> [Nodes -> Challenges \cup {None}]]
BY DEF ServerType, FlushInto

(* Every step keeps the types of what the server holds. *)
LEMMA ServerTypeStep ==
  ASSUME ServerType, CallsType, [Next]_vars
  PROVE  ServerType'
<1> USE DEF ServerType, keyVars, powVars, roundVars, OnlyCalls
<1>1. CASE StartReload
  BY <1>1, ConfiguredKeysType DEF StartReload, Files
<1>2. CASE ReloadStep
  <2>1. ASSUME NEW f \in KeyFiles, ReadKeyFile(f) PROVE ServerType'
    <3>1. reload' \in [left : SUBSET KeyFiles, loaded : SUBSET Keys, began : Nat]
      BY <2>1, Zenon DEF ReadKeyFile
    <3> QED
      BY <2>1, <3>1 DEF ReadKeyFile
  <2>2. CASE InstallKeys
    BY <2>2 DEF InstallKeys
  <2>3. CASE ReloadFails
    BY <2>3 DEF ReloadFails
  <2> QED
    BY <1>2, <2>1, <2>2, <2>3 DEF ReloadStep
<1>3. ASSUME NEW f \in KeyFiles, NEW content \in Keys \cup {Garbage, None}, EditKeyDir(f, content)
      PROVE  ServerType'
  BY <1>3, AdmissionConstants DEF EditKeyDir, MoreEvents
<1>4. CASE RotatePow
  BY <1>4, AdmissionConstants DEF RotatePow, MoreEvents, NoVerifier, Empty
<1>5. ASSUME NEW c \in Calls, PowParams(c) \/ CallStep(c) \/ LookupKeys(c) \/ CancelSubmit(c)
      PROVE  ServerType'
  <2>1. CASE Register(c)
    <3>1. calls[c].pc \in InProgress
      BY <2>1 DEF Register, InProgress
    <3>2. calls[c].req \in Requests
      BY <3>1 DEF CallsType
    <3>3. calls[c].req.node \in Nodes /\ calls[c].req.challenge \in Challenges
      BY <3>2, RequestsAreTyped
    <3>4. \/ openRound' = openRound
          \/ openRound' = [openRound EXCEPT !.pending[calls[c].req.node] = calls[c].req.challenge]
      BY <2>1 DEF Register, Put
    <3>5. openRound' \in [epoch : Epochs, members : Nat, pending : [Nodes -> Challenges \cup {None}]]
      BY <3>3, <3>4
    <3> QED
      BY <2>1, <3>5 DEF Register
  <2>2. CASE ~Register(c)
    BY <1>5, <2>2 DEF PowParams, CallStep, LookupKeys, CancelSubmit, CheckPow,
       VerifyWithConfigured, CheckKeys, AnswerSubmit
  <2> QED
    BY <2>1, <2>2
<1>6. ASSUME NEW c \in Calls, NEW req \in Requests, Receive(c, req)
      PROVE  ServerType'
  BY <1>6 DEF Receive
<1>7. ASSUME NEW other \in Others, OtherSubmit(other[1], other[2])
      PROVE  ServerType'
  BY <1>7, AdmissionConstants, Zenon DEF OtherSubmit, Put
<1>8. CASE Flush \/ closeRoundFails
  <2>1. Cardinality(PendingNodes) \in Nat
    BY CountNodes DEF PendingNodes
  <2>2. NobodyPending \in [Nodes -> Challenges \cup {None}]
    BY DEF NobodyPending
  <2> QED
    <3>1. registered' \in [Epochs -> [Nodes -> Challenges \cup {None}]]
      BY <1>8, FlushType DEF Flush, FlushBatch, closeRoundFails
    <3>2. openRound' \in [epoch : Epochs, members : Nat, pending : [Nodes -> Challenges \cup {None}]]
      <4>1. openRound' = [openRound EXCEPT !.members = openRound.members + Cardinality(PendingNodes),
                                          !.pending = NobodyPending]
        BY <1>8 DEF Flush, FlushBatch, closeRoundFails
      <4>2. openRound.members + Cardinality(PendingNodes) \in Nat
        BY <2>1
      <4> QED
        BY <2>2, <4>1, <4>2, Zenon
    <3>3. UNCHANGED <<now, up, crashes, keyVars, powVars>>
      BY <1>8 DEF Flush, closeRoundFails
    <3>4. closed' \in BOOLEAN
      BY <1>8, Zenon DEF Flush, closeRoundFails
    <3> QED
      BY <3>1, <3>2, <3>3, <3>4
<1>9. CASE closeRound
  <2>1. closed' = FALSE
    BY <1>9, Zenon DEF closeRound, newRound
  <2> QED
    BY <1>9, <2>1, FlushType, NewRoundType, Zenon DEF closeRound
<1>10. CASE New
  <2>1. trusted' \subseteq Keys
    BY <1>10, ConfiguredKeysType DEF New
  <2>2. openRound' \in [epoch : Epochs, members : Nat, pending : [Nodes -> Challenges \cup {None}]]
    BY <1>10, NewRoundType DEF New
  <2>3. /\ powDb' \in {None, [current |-> 0, previous |-> None]}
        /\ pow' \in [current : (0 .. MaxEvents) \cup {NoVerifier},
                     previous : (0 .. MaxEvents) \cup {NoVerifier, Empty}]
        /\ pow'.current # NoVerifier
        /\ rotations' = 0
    BY <1>10, AdmissionConstants
    DEF New, setupPowProviders, SavePowChallenge, GetPowChallenges, NoVerifier, Empty
  <2>4. closed' = FALSE
    BY <1>10 DEF New, newRound
  <2> QED
    BY <1>10, <2>1, <2>2, <2>3, <2>4 DEF New
<1>11. CASE Crash
  <2>1. crashes' \in Nat /\ edits' + nips' + crashes' <= MaxEvents
    BY <1>11, AdmissionConstants DEF Crash, MoreEvents
  <2> QED
    BY <1>11, <2>1, Zenon DEF Crash
<1>12. CASE Tick
  BY <1>12, AdmissionConstants DEF Tick
<1>13. CASE UNCHANGED vars
  BY <1>13 DEF vars
<1> QED
  BY <1>1, <1>2, <1>3, <1>4, <1>5, <1>6, <1>7, <1>8, <1>9, <1>10, <1>11, <1>12, <1>13, Zenon DEF Next

(* Every step keeps the types of the calls: it changes one call, a crash    *)
(* ends them, a flush or a reload tells those in progress.                  *)
LEMMA CallsTypeStep ==
  ASSUME ServerType, CallsType, [Next]_vars
  PROVE  CallsType'
<1> USE DEF CallsType, keyVars, powVars, roundVars, OnlyCalls
<1>u. ASSUME NEW c \in Calls, NEW call \in CallStates, calls' = [calls EXCEPT ![c] = call], up' = up,
             call.pc \in InProgress => up /\ call.req \in Requests,
             call.pc # "done" => call.code = None
      PROVE  CallsType'
  BY <1>u
<1>i. Idle \in CallStates
  BY DEF Idle, CallStates, NoParams, Codes
<1>a. ASSUME NEW c \in Calls, NEW code \in Codes, Answer(c, code), up' = up
      PROVE  CallsType'
  <2> DEFINE ok == [Idle EXCEPT !.pc = "done", !.code = code, !.req = calls[c].req,
                                !.epoch = calls[c].epoch, !.own = calls[c].own]
             refused == [Idle EXCEPT !.pc = "done", !.code = code]
  <2>1. ok \in CallStates /\ ok.pc = "done" /\ refused \in CallStates /\ refused.pc = "done"
    BY <1>i, Zenon DEF CallStates
  <2>2. "done" \notin InProgress
    BY DEF InProgress
  <2> HIDE DEF ok, refused
  <2>3. calls' = [calls EXCEPT ![c] = IF code = "OK" THEN ok ELSE refused]
    BY <1>a DEF Answer, ok, refused
  <2> QED
    BY <1>a, <1>u, <2>1, <2>2, <2>3
<1>b. ASSUME NEW c \in Calls, RefuseParams(c), up' = up
      PROVE  CallsType'
  <2> DEFINE age == IF calls[c].params = NoParams THEN None ELSE rotations - calls[c].fetchedAt
             call == [Idle EXCEPT !.pc = "done", !.code = "InvalidArgument", !.age = age]
  <2>1. age \in Int \cup {None}
    BY DEF ServerType, CallStates
  <2> HIDE DEF age
  <2>2. call \in CallStates /\ call.pc = "done"
    BY <1>i, <2>1, Zenon DEF CallStates, Codes
  <2>3. "done" \notin InProgress
    BY DEF InProgress
  <2>4. calls' = [calls EXCEPT ![c] = call]
    BY <1>b DEF RefuseParams, age
  <2> HIDE DEF call
  <2> QED
    BY <1>b, <1>u, <2>2, <2>3, <2>4
<1>g. ASSUME NEW c \in Calls, calls[c].pc \in InProgress, NEW pc \in InProgress, GoTo(c, pc), up' = up
      PROVE  CallsType'
  <2>1. calls' \in [Calls -> CallStates]
    BY <1>g DEF GoTo, CallStates
  <2> QED
    BY <1>g, <2>1 DEF GoTo, InProgress, CallStates
<1>1. CASE StartReload \/ RotatePow \/ Tick \/ UNCHANGED vars
  BY <1>1 DEF StartReload, RotatePow, Tick, vars
<1>2. CASE ReloadStep
  <2>1. CASE InstallKeys
    <3>1. trusted' \in SUBSET Keys
      BY <2>1 DEF InstallKeys, ServerType
    <3>2. \A c \in Calls : [calls[c] EXCEPT !.seen = @ \cup trusted'] \in CallStates
      BY <3>1 DEF CallStates
    <3>3. calls' \in [Calls -> CallStates]
      BY <2>1, <3>2 DEF InstallKeys
    <3> QED
      BY <2>1, <3>3 DEF InstallKeys, CallStates
  <2>2. CASE \E f \in KeyFiles : ReadKeyFile(f)
    BY <2>2 DEF ReadKeyFile
  <2>3. CASE ReloadFails
    BY <2>3 DEF ReloadFails
  <2> QED
    BY <1>2, <2>1, <2>2, <2>3 DEF ReloadStep
<1>3. ASSUME NEW f \in KeyFiles, NEW content \in Keys \cup {Garbage, None}, EditKeyDir(f, content)
      PROVE  CallsType'
  BY <1>3 DEF EditKeyDir
<1>5. ASSUME NEW c \in Calls, PowParams(c) PROVE CallsType'
  <2> DEFINE call == [calls[c] EXCEPT !.pc = "solved", !.params = pow.current, !.fetchedAt = rotations]
  <2>1. call \in CallStates /\ call.pc = "solved" /\ call.code = calls[c].code /\ calls[c].pc = "idle"
    <3>1. pow.current \in (0 .. MaxEvents) \cup {NoParams} /\ rotations \in Nat \cup {-2}
      BY <1>5 DEF PowParams, ServerType
    <3> HIDE DEF keyVars, powVars, roundVars, OnlyCalls
    <3>2. calls[c] \in CallStates
      OBVIOUS
    <3> QED
      BY <1>5, <3>1, <3>2, Zenon DEF PowParams, CallStates
  <2>2. calls' = [calls EXCEPT ![c] = call]
    BY <1>5, Zenon DEF PowParams
  <2>3. "solved" \notin InProgress
    BY DEF InProgress
  <2> HIDE DEF call
  <2> QED
    BY <1>5, <1>u, <2>1, <2>2, <2>3 DEF PowParams
<1>6. ASSUME NEW c \in Calls, CheckPow(c) PROVE CallsType'
  BY <1>6, <1>a, <1>b, <1>g, Zenon DEF CheckPow, InProgress, Codes
<1>7. ASSUME NEW c \in Calls, NEW keys, VerifyWith(c, keys), OnlyCalls, calls[c].pc \in InProgress PROVE CallsType'
  BY <1>7, <1>a, <1>g, Zenon DEF VerifyWith, InProgress, Codes
<1>8. ASSUME NEW c \in Calls, VerifyWithConfigured(c) \/ CheckKeys(c) PROVE CallsType'
  BY <1>7, <1>8, Zenon DEF VerifyWithConfigured, CheckKeys, InProgress
<1>9. ASSUME NEW c \in Calls, LookupKeys(c) PROVE CallsType'
  <2> DEFINE matchingKeys == {k \in trusted : HintOf[k] = calls[c].req.hint}
             call == [calls[c] EXCEPT !.pc = "check", !.keys = matchingKeys]
  <2>1. call \in CallStates /\ call.pc = "check" /\ call.code = calls[c].code /\ call.req = calls[c].req
    <3>1. matchingKeys \in SUBSET Keys /\ calls[c] \in CallStates
      BY Zenon DEF ServerType
    <3> HIDE DEF matchingKeys
    <3> QED
      BY <3>1, Zenon DEF CallStates, InProgress
  <2>2. CASE matchingKeys = {}
    BY <1>9, <1>a, <2>2 DEF LookupKeys, Codes
  <2>3. CASE matchingKeys # {}
    <3>1. calls' = [calls EXCEPT ![c] = call] /\ calls[c].pc = "verify" /\ up' = up
      BY <1>9, <2>3, Zenon DEF LookupKeys
    <3>2. up /\ calls[c].req \in Requests /\ calls[c].code = None
      BY <3>1 DEF InProgress
    <3> HIDE DEF call
    <3> QED
      BY <1>u, <2>1, <3>1, <3>2, Zenon
  <2> QED
    BY <2>2, <2>3, Zenon
<1>10. ASSUME NEW c \in Calls, Register(c) PROVE CallsType'
  <2> DEFINE req == calls[c].req
             stored(pc) == [calls[c] EXCEPT !.epoch = openRound.epoch, !.own = Known(req.node) = None, !.pc = pc]
  <2>1. calls[c].pc = "register" /\ up' = up /\ calls[c].code = None /\ up /\ req \in Requests
    BY <1>10 DEF Register, InProgress
  <2>2. CASE \E code \in Codes : Answer(c, code)
    BY <1>a, <2>1, <2>2
  <2>3. CASE ~ \E code \in Codes : Answer(c, code)
    <3>1. \E pc \in {"wait", "stored"} : calls' = [calls EXCEPT ![c] = stored(pc)]
      BY <1>10, <2>3, Zenon DEF Register, Codes
    <3>2. PICK pc \in {"wait", "stored"} : calls' = [calls EXCEPT ![c] = stored(pc)]
      BY <3>1, Zenon
    <3>3. /\ stored(pc) \in CallStates
          /\ stored(pc).pc = pc /\ stored(pc).code = calls[c].code /\ stored(pc).req = req
      <4>1. openRound.epoch \in Epochs /\ calls[c] \in CallStates
        BY DEF ServerType
      <4>2. PICK own \in BOOLEAN : own = (Known(req.node) = None)
        BY Zenon
      <4>3. stored(pc) = [calls[c] EXCEPT !.epoch = openRound.epoch, !.own = own, !.pc = pc]
        BY <4>2
      <4> HIDE DEF stored
      <4> QED
        BY <4>1, <4>3, Zenon DEF CallStates, InProgress
    <3> HIDE DEF stored
    <3> QED
      BY <1>u, <2>1, <3>2, <3>3, Zenon
  <2> QED
    BY <2>2, <2>3, Zenon
<1>11. ASSUME NEW c \in Calls, AnswerSubmit(c) \/ CancelSubmit(c) PROVE CallsType'
  BY <1>11, <1>a, Zenon DEF AnswerSubmit, CancelSubmit, Codes
<1>12. ASSUME NEW c \in Calls, NEW req \in Requests, Receive(c, req) PROVE CallsType'
  <2> DEFINE call == [calls[c] EXCEPT !.pc = "verify", !.req = req, !.since = now, !.seen = trusted]
  <2>1. call \in CallStates /\ call.pc = "verify" /\ call.code = calls[c].code /\ call.req = req
    <3>1. now \in Nat /\ trusted \in SUBSET Keys /\ calls[c] \in CallStates
      BY AdmissionConstants DEF ServerType
    <3> QED
      BY <3>1, Zenon DEF CallStates, InProgress
  <2>2. calls' = [calls EXCEPT ![c] = call] \/ Answer(c, "InvalidArgument")
    BY <1>12, Zenon DEF Receive
  <2>3. up /\ up' = up /\ calls[c].code = None
    BY <1>12 DEF Receive
  <2> HIDE DEF call
  <2> QED
    BY <1>a, <1>u, <2>1, <2>2, <2>3, Zenon DEF Codes
<1>13. ASSUME NEW other \in Others, OtherSubmit(other[1], other[2]) PROVE CallsType'
  BY <1>13 DEF OtherSubmit
<1>14. CASE Flush \/ closeRound \/ closeRoundFails
  <2>1. PICK written \in BOOLEAN : FlushInto(written)
    BY <1>14 DEF Flush, FlushBatch, closeRound, closeRoundFails
  <2>2. ASSUME NEW call \in CallStates, NEW pc \in {"stored", "failed"}
        PROVE  [call EXCEPT !.pc = pc] \in CallStates
    BY DEF CallStates, InProgress
  <2>3. PICK pc \in {"stored", "failed"} :
          calls' = [c \in Calls |-> IF calls[c].pc = "wait" THEN [calls[c] EXCEPT !.pc = pc] ELSE calls[c]]
    <3>1. CASE written
      BY <2>1, <3>1 DEF FlushInto
    <3>2. CASE ~written
      BY <2>1, <3>2 DEF FlushInto
    <3> QED
      BY <3>1, <3>2
  <2>4. calls' \in [Calls -> CallStates]
    BY <2>2, <2>3, Zenon
  <2>5. up' = up
    BY <1>14 DEF Flush, FlushBatch, closeRound, closeRoundFails
  <2> QED
    BY <2>3, <2>4, <2>5 DEF CallStates, InProgress
<1>15. CASE New
  BY <1>15, Zenon DEF New
<1>16. CASE Crash
  <2>1. \A c \in Calls : /\ AfterCrash(calls[c]) \in CallStates
                         /\ AfterCrash(calls[c]).pc \in {"idle", "solved", "done"}
                         /\ AfterCrash(calls[c]).pc # "done" => AfterCrash(calls[c]).code = None
    <3> SUFFICES ASSUME NEW c \in Calls
                 PROVE  /\ AfterCrash(calls[c]) \in CallStates
                        /\ AfterCrash(calls[c]).pc \in {"idle", "solved", "done"}
                        /\ AfterCrash(calls[c]).pc # "done" => AfterCrash(calls[c]).code = None
      OBVIOUS
    <3>1. CASE calls[c].pc = "done"
      BY <3>1 DEF AfterCrash
    <3>2. CASE calls[c].pc = "solved"
      BY <3>2 DEF AfterCrash, CallStates
    <3>3. CASE calls[c].pc \notin {"done", "solved"}
      BY <1>i, <3>3 DEF AfterCrash, Idle
    <3> QED
      BY <3>1, <3>2, <3>3
  <2> QED
    BY <1>16, <2>1 DEF Crash, InProgress
<1> QED
  BY <1>1, <1>2, <1>3, <1>5, <1>6, <1>8, <1>9, <1>10, <1>11, <1>12, <1>13, <1>14, <1>15, <1>16,
     Zenon DEF Next, CallStep
------------------------------------------------------------------------------
(* A step of one call leaves the others. *)
LEMMA OneCall ==
  ASSUME CallsType, NEW c \in Calls, NEW call, calls' = [calls EXCEPT ![c] = call]
  PROVE  calls'[c] = call /\ \A d \in Calls \ {c} : calls'[d] = calls[d]
BY DEF CallsType

(* An answer ends a call. *)
LEMMA Answered ==
  ASSUME CallsType, NEW c \in Calls, NEW code, Answer(c, code)
  PROVE  /\ calls'[c].pc = "done" /\ calls'[c].code = code /\ calls'[c].age = None
         /\ code = "OK" => /\ calls'[c].req = calls[c].req
                           /\ calls'[c].epoch = calls[c].epoch
                           /\ calls'[c].own = calls[c].own
         /\ \A d \in Calls \ {c} : calls'[d] = calls[d]
<1> DEFINE ok == [Idle EXCEPT !.pc = "done", !.code = code, !.req = calls[c].req,
                              !.epoch = calls[c].epoch, !.own = calls[c].own]
           refused == [Idle EXCEPT !.pc = "done", !.code = code]
<1>1. /\ ok.pc = "done" /\ ok.code = code /\ ok.age = None /\ ok.req = calls[c].req
      /\ ok.epoch = calls[c].epoch /\ ok.own = calls[c].own
      /\ refused.pc = "done" /\ refused.code = code /\ refused.age = None
  BY DEF Idle
<1> HIDE DEF ok, refused
<1>2. calls' = [calls EXCEPT ![c] = IF code = "OK" THEN ok ELSE refused]
  BY DEF Answer, ok, refused
<1> QED
  BY <1>1, <1>2, OneCall, Zenon

(* As is a refusal of the params. *)
LEMMA Refused ==
  ASSUME CallsType, NEW c \in Calls, RefuseParams(c)
  PROVE  /\ calls'[c].pc = "done" /\ calls'[c].code = "InvalidArgument"
         /\ calls'[c].age = IF calls[c].params = NoParams THEN None ELSE rotations - calls[c].fetchedAt
         /\ \A d \in Calls \ {c} : calls'[d] = calls[d]
<1> DEFINE age == IF calls[c].params = NoParams THEN None ELSE rotations - calls[c].fetchedAt
           call == [Idle EXCEPT !.pc = "done", !.code = "InvalidArgument", !.age = age]
<1>1. call.pc = "done" /\ call.code = "InvalidArgument" /\ call.age = age
  BY DEF Idle
<1> HIDE DEF call
<1>2. calls' = [calls EXCEPT ![c] = call]
  BY DEF RefuseParams, call
<1> QED
  BY <1>1, <1>2, OneCall, Zenon

(* A call goes on. *)
LEMMA WentTo ==
  ASSUME CallsType, NEW c \in Calls, NEW pc, GoTo(c, pc)
  PROVE  /\ calls'[c] = [calls[c] EXCEPT !.pc = pc]
         /\ calls'[c].pc = pc /\ calls'[c].age = calls[c].age /\ calls'[c].code = calls[c].code
         /\ \A d \in Calls \ {c} : calls'[d] = calls[d]
<1> DEFINE call == [calls[c] EXCEPT !.pc = pc]
<1>1. call.pc = pc /\ call.age = calls[c].age /\ call.code = calls[c].code
  BY DEF CallsType, CallStates
<1> HIDE DEF call
<1>2. calls' = [calls EXCEPT ![c] = call]
  BY DEF GoTo, call
<1>3. calls'[c] = call /\ \A d \in Calls \ {c} : calls'[d] = calls[d]
  BY <1>2, OneCall, Zenon
<1> QED
  BY <1>1, <1>3 DEF call

(* round.submit refuses, or accepts and makes the call wait, or finds the   *)
(* challenge there.                                                         *)
LEMMA Submitted ==
  ASSUME CallsType, NEW c \in Calls, Register(c)
  PROVE  \/ /\ \E code \in {"FailedPrecondition", "ResourceExhausted", "Internal", "AlreadyExists"} : Answer(c, code)
            /\ openRound' = openRound
         \/ /\ calls'[c].pc = IF Known(calls[c].req.node) = None THEN "wait" ELSE "stored"
            /\ calls'[c].own = (Known(calls[c].req.node) = None)
            /\ calls'[c].req = calls[c].req /\ calls'[c].epoch = openRound.epoch
            /\ calls'[c].age = calls[c].age /\ calls'[c].code = calls[c].code
            /\ \A d \in Calls \ {c} : calls'[d] = calls[d]
            /\ ~TooLate(calls[c].req) /\ ~AtCapacity
            /\ Known(calls[c].req.node) \in {None, calls[c].req.challenge}
            /\ IF Known(calls[c].req.node) = None THEN Put(calls[c].req.node, calls[c].req.challenge)
               ELSE openRound' = openRound
<1> DEFINE known == Known(calls[c].req.node)
           call == [calls[c] EXCEPT !.epoch = openRound.epoch, !.own = known = None,
                                    !.pc = IF known = None THEN "wait" ELSE "stored"]
<1>1. /\ call.pc = (IF known = None THEN "wait" ELSE "stored")
      /\ call.own = (known = None)
      /\ call.req = calls[c].req /\ call.epoch = openRound.epoch
      /\ call.age = calls[c].age /\ call.code = calls[c].code
  BY DEF CallsType, CallStates
<1>2. CASE TooLate(calls[c].req) \/ AtCapacity \/ closed \/ known \notin {None, calls[c].req.challenge}
  BY <1>2 DEF Register
<1>3. CASE ~(TooLate(calls[c].req) \/ AtCapacity \/ closed \/ known \notin {None, calls[c].req.challenge})
  <2>1. /\ calls' = [calls EXCEPT ![c] = call]
        /\ IF known = None THEN Put(calls[c].req.node, calls[c].req.challenge) ELSE openRound' = openRound
    BY <1>3, Zenon DEF Register
  <2> HIDE DEF call, known
  <2>2. calls'[c] = call /\ \A d \in Calls \ {c} : calls'[d] = calls[d]
    BY <2>1, OneCall, Zenon
  <2> QED
    BY <1>1, <1>3, <2>1, <2>2, Zenon DEF known
<1> QED
  BY <1>2, <1>3, Zenon
------------------------------------------------------------------------------
(* A reload that the operator has not disturbed has loaded what is not left. *)
KeysInv ==
  /\ trustedAt <= edits
  /\ reload # None =>
       /\ up /\ HasKeyDir
       /\ reload.began <= edits
       /\ reload.began = edits =>
            /\ reload.left \subseteq Files
            /\ reload.loaded = ConfiguredKeys \cup {keyDir[f] : f \in Files \ reload.left}
  /\ ReloadIsComplete

(* Reloads keep KeysInv: a walk collects the keys of the files it has read, *)
(* and an edit of the directory meanwhile shows in edits.                   *)
LEMMA KeysStep ==
  ASSUME ServerType, KeysInv, [Next]_vars
  PROVE  KeysInv'
<1> USE DEF KeysInv, ReloadIsComplete, keyVars, powVars, roundVars, OnlyCalls
<1>t. edits \in Nat /\ trustedAt \in Nat
  BY DEF ServerType
<1>f. ASSUME UNCHANGED <<up, certifier, keyDir, edits, trusted, trustedAt>>, reload' \in {reload, None}
      PROVE  KeysInv'
  <2>1. HasKeyDir' = HasKeyDir /\ ConfiguredKeys' = ConfiguredKeys /\ Files' = Files
    BY <1>f DEF HasKeyDir, ConfiguredKeys, Files
  <2> QED
    BY <1>f, <2>1
<1>1. CASE StartReload
  <2>1. HasKeyDir' = HasKeyDir /\ ConfiguredKeys' = ConfiguredKeys /\ Files' = Files
    BY <1>1, Zenon DEF StartReload, HasKeyDir, ConfiguredKeys, Files
  <2>2. reload'.began = edits /\ reload'.left = Files /\ reload'.loaded = ConfiguredKeys
    BY <1>1 DEF StartReload
  <2> QED
    BY <1>1, <1>t, <2>1, <2>2 DEF StartReload
<1>2. ASSUME NEW f \in KeyFiles, ReadKeyFile(f) PROVE KeysInv'
  <2>1. HasKeyDir' = HasKeyDir /\ ConfiguredKeys' = ConfiguredKeys /\ Files' = Files
    BY <1>2 DEF ReadKeyFile, HasKeyDir, ConfiguredKeys, Files
  <2>2. /\ reload'.began = reload.began /\ reload'.left = reload.left \ {f}
        /\ reload'.loaded = reload.loaded \cup {keyDir[f]} /\ f \in reload.left
    BY <1>2 DEF ReadKeyFile, ServerType
  <2>3. UNCHANGED <<up, keyDir, edits, trusted, trustedAt>> /\ reload # None
    BY <1>2 DEF ReadKeyFile
  <2> QED
    BY <2>1, <2>2, <2>3
<1>3. CASE InstallKeys
  <2>1. HasKeyDir' = HasKeyDir /\ ConfiguredKeys' = ConfiguredKeys /\ Files' = Files
    BY <1>3 DEF InstallKeys, HasKeyDir, ConfiguredKeys, Files
  <2>2. /\ UNCHANGED <<up, keyDir, edits>> /\ reload # None /\ reload' = None /\ reload.left = {}
        /\ trusted' = reload.loaded /\ trustedAt' = reload.began
    BY <1>3 DEF InstallKeys
  <2> QED
    BY <2>1, <2>2
<1>4. CASE ReloadFails
  BY <1>4, <1>f, Zenon DEF ReloadFails
<1>5. ASSUME NEW f \in KeyFiles, NEW content \in Keys \cup {Garbage, None}, EditKeyDir(f, content)
      PROVE  KeysInv'
  <2>1. edits' = edits + 1 /\ UNCHANGED <<up, certifier, trusted, trustedAt, reload>>
    BY <1>5 DEF EditKeyDir
  <2>2. reload # None => reload.began \in Nat
    BY DEF ServerType
  <2>3. HasKeyDir' = HasKeyDir
    BY <2>1 DEF HasKeyDir
  <2> QED
    BY <1>t, <2>1, <2>2, <2>3
<1>6. CASE RotatePow \/ Tick \/ UNCHANGED vars \/ Flush \/ closeRound \/ closeRoundFails
  <2>1. UNCHANGED <<up, certifier, keyDir, edits, trusted, trustedAt, reload>>
    BY <1>6 DEF RotatePow, Tick, vars, Flush, closeRound, closeRoundFails
  <2> QED
    BY <1>f, <2>1, Zenon
<1>7. ASSUME NEW c \in Calls, PowParams(c) \/ CallStep(c) \/ LookupKeys(c) \/ CancelSubmit(c)
      PROVE  KeysInv'
  <2>1. UNCHANGED <<up, certifier, keyDir, edits, trusted, trustedAt, reload>>
    BY <1>7, Zenon DEF PowParams, CallStep, CheckPow, VerifyWithConfigured, CheckKeys, Register,
       AnswerSubmit, LookupKeys, CancelSubmit
  <2> QED
    BY <1>f, <2>1, Zenon
<1>8. ASSUME NEW c \in Calls, NEW req \in Requests, Receive(c, req) PROVE KeysInv'
  BY <1>8, <1>f DEF Receive
<1>9. ASSUME NEW other \in Others, OtherSubmit(other[1], other[2]) PROVE KeysInv'
  BY <1>9, <1>f, Zenon DEF OtherSubmit
<1>10. CASE New
  <2>1. HasKeyDir' = HasKeyDir /\ ConfiguredKeys' = ConfiguredKeys /\ Files' = Files
    BY <1>10, Zenon DEF New, HasKeyDir, ConfiguredKeys, Files
  <2>2. /\ ~up /\ UNCHANGED <<keyDir, edits, reload>> /\ trustedAt' = edits
        /\ trusted' = ConfiguredKeys \cup {keyDir[f] : f \in IF HasKeyDir THEN Files ELSE {}}
    BY <1>10 DEF New
  <2> QED
    BY <1>t, <2>1, <2>2
<1>11. CASE Crash
  BY <1>11 DEF Crash
<1> QED
  BY <1>1, <1>2, <1>3, <1>4, <1>5, <1>6, <1>7, <1>8, <1>9, <1>10, <1>11, Zenon DEF Next, ReloadStep

(* The nodes registered in an epoch. *)
Members(e) == {n \in Nodes : registered[e][n] # None}

(* maxMembers bounds every round, also one that is opened again.            *)
CapacityInv ==
  /\ \A e \in Epochs : Cardinality(Members(e)) <= MaxMembers
  /\ up => Cardinality(Members(openRound.epoch)) <= openRound.members
  /\ openRound.members + Cardinality(PendingNodes) <= MaxMembers

(* How much a set grows. *)
LEMMA OneMore ==
  ASSUME NEW S, IsFiniteSet(S), NEW x
  PROVE  Cardinality(S \cup {x}) <= Cardinality(S) + 1
<1>1. Cardinality(S) \in Nat
  BY FS_CardinalityType
<1>2. Cardinality(S \cup {x}) = IF x \in S THEN Cardinality(S) ELSE Cardinality(S) + 1
  BY FS_AddElement
<1> QED
  BY <1>1, <1>2

(* The size of a union. *)
LEMMA UnionBound ==
  ASSUME NEW S, IsFiniteSet(S), NEW T, IsFiniteSet(T)
  PROVE  /\ Cardinality(S \cup T) <= Cardinality(S) + Cardinality(T)
         /\ IsFiniteSet(S \cup T)
<1>1. /\ IsFiniteSet(S \cup T)
      /\ Cardinality(S \cup T) = Cardinality(S) + Cardinality(T) - Cardinality(S \cap T)
  BY FS_Union
<1>2. IsFiniteSet(S \cap T)
  BY FS_Intersection
<1>3. Cardinality(S) \in Nat /\ Cardinality(T) \in Nat /\ Cardinality(S \cap T) \in Nat
  BY <1>2, FS_CardinalityType
<1> QED
  BY <1>1, <1>3

(* The next round counts the members its database has. *)
LEMMA NewRoundCapacity ==
  ASSUME ServerType, ServerType', newRound(registered'), now' = now,
         \A e \in Epochs : Cardinality(Members(e)') <= MaxMembers
  PROVE  CapacityInv'
<1>1. OpenRoundId(now) \in Epochs
  BY OpenRoundInEpochs, Zenon DEF ServerType
<1>2. /\ openRound'.epoch = OpenRoundId(now)
      /\ openRound'.members = Cardinality(Members(OpenRoundId(now))')
      /\ openRound'.pending = NobodyPending
  BY DEF newRound, Members
<1>3. PendingNodes' = {}
  BY <1>2 DEF PendingNodes, NobodyPending
<1>4. Cardinality({}) = 0 /\ Cardinality(Members(OpenRoundId(now))') \in Nat
  BY FS_EmptySet, CountNodes DEF Members
<1> QED
  BY <1>1, <1>2, <1>3, <1>4, AdmissionConstants DEF CapacityInv, Members

(* One more in the batch, when the round was not full. *)
LEMMA PutCapacity ==
  ASSUME ServerType, CapacityInv, ~AtCapacity, NEW node \in Nodes, NEW challenge \in Challenges,
         Put(node, challenge), UNCHANGED <<up, registered>>
  PROVE  CapacityInv'
<1>1. openRound'.epoch = openRound.epoch /\ openRound'.members = openRound.members
  BY DEF Put, ServerType
<1>2. openRound'.pending = [openRound.pending EXCEPT ![node] = challenge]
  BY DEF Put, ServerType
<1>3. PendingNodes' = PendingNodes \cup {node}
  BY <1>2, AdmissionConstants DEF PendingNodes, ServerType
<1>4. /\ IsFiniteSet(PendingNodes) /\ Cardinality(PendingNodes) \in Nat
      /\ Cardinality(PendingNodes \cup {node}) <= Cardinality(PendingNodes) + 1
  <2>1. IsFiniteSet(PendingNodes) /\ Cardinality(PendingNodes) \in Nat
    BY CountNodes DEF PendingNodes
  <2> QED
    BY <2>1, OneMore, Zenon
<1>5. openRound.members \in Nat /\ Cardinality(PendingNodes \cup {node}) \in Nat
  BY CountNodes, Zenon DEF ServerType, PendingNodes
<1>6. openRound'.members + Cardinality(PendingNodes') <= MaxMembers
  BY <1>1, <1>3, <1>4, <1>5, AdmissionConstants DEF AtCapacity
<1> QED
  BY <1>1, <1>6, Zenon DEF CapacityInv, Members

(* What a flush stores in the open round, on top of what is there.          *)
LEMMA FlushCapacity ==
  ASSUME ServerType, CapacityInv, up, NEW written \in BOOLEAN, FlushInto(written),
         NEW epoch, epoch = openRound.epoch
  PROVE  /\ \A e \in Epochs : Cardinality(Members(e)') <= MaxMembers
         /\ Cardinality(Members(epoch)') <= openRound.members + Cardinality(PendingNodes)
         /\ openRound.members + Cardinality(PendingNodes) <= MaxMembers
<1>1. /\ openRound.members \in Nat /\ epoch \in Epochs
      /\ Cardinality(PendingNodes) \in Nat
      /\ Cardinality(Members(epoch)) \in Nat
      /\ IsFiniteSet(PendingNodes) /\ IsFiniteSet(Members(epoch))
  BY CountNodes, Zenon DEF ServerType, PendingNodes, Members
<1>2. /\ openRound.members + Cardinality(PendingNodes) <= MaxMembers
      /\ Cardinality(Members(epoch)) <= openRound.members
      /\ \A e \in Epochs : Cardinality(Members(e)) <= MaxMembers
  BY DEF CapacityInv
<1>3. CASE ~written
  <2>1. \A e \in Epochs : Members(e)' = Members(e)
    BY <1>3 DEF FlushInto, Members
  <2> QED
    BY <1>1, <1>2, <2>1
<1>4. CASE written
  <2>1. registered' = [registered EXCEPT ![epoch] =
               [n \in Nodes |-> IF n \in PendingNodes THEN openRound.pending[n] ELSE @[n]]]
    BY <1>4 DEF FlushInto
  <2>2. Members(epoch)' \subseteq Members(epoch) \cup PendingNodes
    <3>1. registered'[epoch] = [n \in Nodes |-> IF n \in PendingNodes THEN openRound.pending[n]
                                                ELSE registered[epoch][n]]
      BY <1>1, <2>1 DEF ServerType
    <3> QED
      BY <3>1, Zenon DEF Members
  <2>3. \A e \in Epochs \ {epoch} : Members(e)' = Members(e)
    BY <2>1, Zenon DEF Members, ServerType
  <2>4. /\ Cardinality(Members(epoch) \cup PendingNodes)
             <= Cardinality(Members(epoch)) + Cardinality(PendingNodes)
        /\ IsFiniteSet(Members(epoch) \cup PendingNodes)
    BY <1>1, UnionBound
  <2>5. Cardinality(Members(epoch)') <= Cardinality(Members(epoch) \cup PendingNodes)
    BY <2>2, <2>4, FS_Subset
  <2>6. Cardinality(Members(epoch)') \in Nat
        /\ Cardinality(Members(epoch) \cup PendingNodes) \in Nat
    BY <2>2, <2>4, FS_Subset, FS_CardinalityType
  <2>7. Cardinality(Members(epoch)') <= openRound.members + Cardinality(PendingNodes)
    BY <1>1, <1>2, <2>4, <2>5, <2>6
  <2>8. Cardinality(Members(epoch)') <= MaxMembers
    BY <1>1, <1>2, <2>6, <2>7, AdmissionConstants
  <2> QED
    BY <1>2, <2>3, <2>7, <2>8
<1> QED
  BY <1>3, <1>4

(* No step brings more than maxMembers into a round: not a flush after a    *)
(* failed one, and not a restart in the same epoch.                         *)
LEMMA CapacityStep ==
  ASSUME ServerType, CallsType, CapacityInv, [Next]_vars
  PROVE  CapacityInv'
<1> USE DEF keyVars, powVars, roundVars, OnlyCalls
<1>t. ServerType'
  BY ServerTypeStep
<1>f. ASSUME UNCHANGED <<openRound, registered>>, up' => up PROVE CapacityInv'
  BY <1>f, Zenon DEF CapacityInv, Members, PendingNodes
<1>1. CASE StartReload \/ ReloadStep \/ RotatePow \/ Tick \/ UNCHANGED vars \/ Crash
  <2>1. CASE ReloadStep
    BY <1>f, <2>1, Zenon DEF ReloadStep, ReadKeyFile, InstallKeys, ReloadFails
  <2>2. CASE ~ReloadStep
    BY <1>1, <1>f, <2>2 DEF StartReload, RotatePow, Tick, vars, Crash
  <2> QED
    BY <2>1, <2>2
<1>2. ASSUME NEW f \in KeyFiles, NEW content \in Keys \cup {Garbage, None}, EditKeyDir(f, content)
      PROVE  CapacityInv'
  BY <1>2, <1>f DEF EditKeyDir
<1>3. ASSUME NEW c \in Calls, PowParams(c) \/ LookupKeys(c) \/ CancelSubmit(c) \/ CheckPow(c)
                              \/ VerifyWithConfigured(c) \/ CheckKeys(c) \/ AnswerSubmit(c)
      PROVE  CapacityInv'
  <2>1. UNCHANGED <<openRound, registered>> /\ (up' => up)
    BY <1>3 DEF PowParams, LookupKeys, CancelSubmit, CheckPow, VerifyWithConfigured, CheckKeys,
       AnswerSubmit
  <2> QED
    BY <1>f, <2>1
<1>4. ASSUME NEW c \in Calls, Register(c) PROVE CapacityInv'
  <2>1. UNCHANGED <<up, registered>> /\ calls[c].pc \in InProgress
    BY <1>4 DEF Register, InProgress
  <2>2. calls[c].req.node \in Nodes /\ calls[c].req.challenge \in Challenges
    BY <2>1, RequestsAreTyped, Zenon DEF CallsType
  <2>3. openRound' = openRound \/ (~AtCapacity /\ Put(calls[c].req.node, calls[c].req.challenge))
    BY <1>4, Submitted, Zenon
  <2> QED
    BY <1>f, <2>1, <2>2, <2>3, PutCapacity
<1>5. ASSUME NEW c \in Calls, NEW req \in Requests, Receive(c, req) PROVE CapacityInv'
  BY <1>5, <1>f DEF Receive
<1>6. ASSUME NEW other \in Others, OtherSubmit(other[1], other[2]) PROVE CapacityInv'
  BY <1>6, PutCapacity, AdmissionConstants DEF OtherSubmit
<1>7. CASE Flush \/ closeRoundFails
  <2>1. PICK written \in BOOLEAN : FlushInto(written)
    BY <1>7 DEF Flush, FlushBatch, closeRoundFails
  <2>2. up /\ openRound' = [openRound EXCEPT !.members = openRound.members + Cardinality(PendingNodes),
                                             !.pending = NobodyPending]
    BY <1>7 DEF Flush, FlushBatch, closeRoundFails
  <2>3. /\ openRound'.epoch = openRound.epoch /\ openRound'.pending = NobodyPending
        /\ openRound'.members = openRound.members + Cardinality(PendingNodes)
    BY <2>2 DEF ServerType
  <2>4. PendingNodes' = {} /\ Cardinality({}) = 0
    BY <2>3, FS_EmptySet DEF PendingNodes, NobodyPending
  <2>5. openRound'.members \in Nat
    BY <1>t, Zenon DEF ServerType
  <2>6. PICK epoch : epoch = openRound.epoch
    OBVIOUS
  <2>7. /\ \A e \in Epochs : Cardinality(Members(e)') <= MaxMembers
        /\ Cardinality(Members(epoch)') <= openRound'.members
        /\ openRound'.members <= MaxMembers
    BY <2>1, <2>2, <2>3, <2>6, FlushCapacity
  <2>8. Members(openRound.epoch)' = Members(epoch)'
    BY <2>3, <2>6 DEF Members
  <2> QED
    BY <2>4, <2>5, <2>7, <2>8, AdmissionConstants DEF CapacityInv
<1>8. CASE closeRound
  BY <1>8, <1>t, FlushCapacity, NewRoundCapacity DEF closeRound
<1>9. CASE New
  <2>1. newRound(registered') /\ now' = now /\ registered' = registered
    BY <1>9, Zenon DEF New
  <2>2. \A e \in Epochs : Cardinality(Members(e)') <= MaxMembers
    BY <2>1, Zenon DEF CapacityInv, Members
  <2> QED
    BY <1>t, <2>1, <2>2, NewRoundCapacity
<1> QED
  BY <1>1, <1>2, <1>3, <1>4, <1>5, <1>6, <1>7, <1>8, <1>9 DEF Next, CallStep
==============================================================================
