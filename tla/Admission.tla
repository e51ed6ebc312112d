------------------------------- MODULE Admission -----------------------------
(***************************************************************************)
(* Who may register (rpc/rpcserver.go, registration/registration.go,       *)
(* registration/pow_verifier.go, shared/cert.go, shared/pow.go): the way   *)
(* of a Submit call through signature, certificate or proof of work, and   *)
(* deadline into the open round, while trusted keys are reloaded, the PoW  *)
(* challenge is rotated, rounds open and close and the server restarts.    *)
(* A flush of the round is one step here, and closing a round another;     *)
(* RegistrationRound and Registration model their insides.                 *)
(***************************************************************************)
EXTENDS RoundSchedule, FiniteSets, Sequences

CONSTANTS
  None,
  Calls,         \* Submit calls
  Nodes,         \* node ids
  Challenges,    \* challenges nodes register
  Requests,      \* what a call may ask
  Others,        \* <<node, challenge>> that other calls may register
  Keys,          \* certifier keys
  HintOf,        \* key -> its CertKeyHint
  Certifiers,    \* configurations: None or [pubKey, trustedKeysDir]
  KeyFiles,      \* names of *.key files in the trusted keys directory
  Garbage,       \* content of a file that is not a public key
  Difficulty,    \* PowDifficulty, at most 16 as a hash has two bytes here
  MaxMembers,    \* maxMembers of a round
  MaxTime,       \* bound: the last instant of the clock
  MaxEvents      \* bound: edits of the keys directory, proofs and crashes together

ASSUME AdmissionConstants ==
  /\ DOMAIN HintOf = Keys
  /\ Difficulty \in 0 .. 16
  /\ MaxMembers \in Nat
  /\ MaxTime \in Nat
  /\ MaxEvents \in Nat
  /\ IsFiniteSet(Nodes)
  /\ None \notin Challenges \cup {"OK"}
  /\ Certifiers \subseteq {None} \cup [pubKey : Keys \cup {None}, trustedKeysDir : BOOLEAN]
  /\ Others \subseteq Nodes \X Challenges

(* A request names a node and a challenge; its nonce makes a hash; times    *)
(* are optional.                                                           *)
ASSUME RequestsAreTyped ==
  \A req \in Requests :
    /\ req.wellFormed \in BOOLEAN
    /\ req.node \in Nodes
    /\ req.challenge \in Challenges
    /\ req.hash \in (0 .. 255) \X (0 .. 255)
    /\ req.deadline # None => req.deadline \in Int
    /\ req.cert # None /\ req.cert.expiration # None => req.cert.expiration \in Int

VARIABLES
  now,         \* the wall clock
  up,          \* the server runs
  crashes,     \* crashes so far
  certifier,   \* the configured certifier, fixed
  keyDir,      \* disk: file name -> key, Garbage, or None if there is no file
  edits,       \* edits of keyDir so far
  trusted,     \* trustedCertifierKeys, without their grouping by hint
  trustedAt,   \* history: edits when the reload that set trusted began
  reload,      \* LoadTrustedPublicKeys in progress, or None
  powDb,       \* disk: the persisted PoW challenges, or None
  pow,         \* powVerifiers: the challenges [current, previous]
  rotations,   \* history: rotations since the server started
  nips,        \* proofs received so far; proof number i has root i
  openRound,   \* the open round: [epoch, members (its counter), pending]
  closed,      \* the open round is closed, and was left in place
  registered,  \* disk: epoch -> node -> registered challenge, or None
  calls        \* call -> its state; see Idle

keyVars == <<certifier, keyDir, edits, trusted, trustedAt, reload>>
powVars == <<powDb, pow, rotations, nips>>
roundVars == <<openRound, closed, registered>>
vars == <<now, up, crashes, keyVars, powVars, roundVars, calls>>

MoreEvents == edits + nips + crashes < MaxEvents

Epochs == 0 .. OpenRoundId(MaxTime)

(* powVerifiers.previous before the first rotation, the params of a request *)
(* without any, and the challenge of a verifier made from an absent one.   *)
NoVerifier == -1
NoParams == -2
Empty == -3

(* "wait" for the flush of the batch, then its result "stored" or "failed". *)
InProgress == {"verify", "check", "register", "wait", "stored", "failed"}

NobodyPending == [n \in Nodes |-> None]

(* params, fetchedAt: the PoW params the caller fetched, and the rotations *)
(* at that time.  keys: the matching keys verifyCert has read.  own: this  *)
(* very call put the challenge into the batch.  since, seen, age: history, *)
(* the arrival of the request, the keys trusted at some time since, and    *)
(* the rotations its params had seen when they were refused.               *)
Idle == [pc |-> "idle", req |-> None, params |-> NoParams, fetchedAt |-> 0, keys |-> {},
         code |-> None, epoch |-> None, own |-> FALSE, since |-> 0, seen |-> {},
         age |-> None]

Init ==
  /\ now = 0
  /\ up = FALSE
  /\ crashes = 0
  /\ certifier \in Certifiers
  /\ keyDir = [f \in KeyFiles |-> None]
  /\ edits = 0
  /\ trusted = {}
  /\ trustedAt = 0
  /\ reload = None
  /\ powDb = None
  /\ pow = [current |-> NoVerifier, previous |-> NoVerifier]
  /\ rotations = 0
  /\ nips = 0
  /\ openRound = [epoch |-> 0, members |-> 0, pending |-> NobodyPending]
  /\ closed = FALSE
  /\ registered = [e \in Epochs |-> [n \in Nodes |-> None]]
  /\ calls = [c \in Calls |-> Idle]
------------------------------------------------------------------------------
(* Configuration and trusted keys *)

ConfiguredKeys == IF certifier = None THEN {} ELSE {certifier.pubKey} \ {None}
HasKeyDir == certifier # None /\ certifier.trustedKeysDir
Files == {f \in KeyFiles : keyDir[f] # None}

(* LoadTrustedPublicKeys: take the lock for writing; Walk lists the files. *)
StartReload_DropsConfigured ==
  /\ up
  /\ HasKeyDir
  /\ reload = None
  /\ reload' = [left |-> Files, loaded |-> {}, began |-> edits]
  /\ UNCHANGED <<now, up, crashes, certifier, keyDir, edits, trusted, trustedAt, powVars,
                 roundVars, calls>>

StartReload ==
  /\ up
  /\ HasKeyDir
  /\ reload = None
  /\ reload' = [left |-> Files, loaded |-> ConfiguredKeys, began |-> edits]
  /\ UNCHANGED <<now, up, crashes, certifier, keyDir, edits, trusted, trustedAt, powVars,
                 roundVars, calls>>

ReadKeyFile(f) ==
  /\ reload # None
  /\ f \in reload.left
  /\ keyDir[f] \in Keys
  /\ reload' = [reload EXCEPT !.left = @ \ {f}, !.loaded = @ \cup {keyDir[f]}]
  /\ UNCHANGED <<now, up, crashes, certifier, keyDir, edits, trusted, trustedAt, powVars,
                 roundVars, calls>>

(* A file that is gone or is no key, or a cancelled request: nothing is     *)
(* changed.                                                                *)
ReloadFails ==
  /\ reload # None
  /\ reload' = None
  /\ UNCHANGED <<now, up, crashes, certifier, keyDir, edits, trusted, trustedAt, powVars,
                 roundVars, calls>>

InstallKeys ==
  /\ reload # None
  /\ reload.left = {}
  /\ trusted' = reload.loaded
  /\ trustedAt' = reload.began
  /\ reload' = None
  /\ calls' = [c \in Calls |-> IF calls[c].pc \in InProgress
                               THEN [calls[c] EXCEPT !.seen = @ \cup trusted'] ELSE calls[c]]
  /\ UNCHANGED <<now, up, crashes, certifier, keyDir, edits, powVars, roundVars>>

(* The operator changes the directory. *)
EditKeyDir(f, content) ==
  /\ HasKeyDir
  /\ MoreEvents
  /\ edits' = edits + 1
  /\ keyDir' = [keyDir EXCEPT ![f] = content]
  /\ UNCHANGED <<now, up, crashes, certifier, trusted, trustedAt, reload, powVars, roundVars,
                 calls>>
------------------------------------------------------------------------------
(* Proof of work *)

(* The current challenge becomes the previous one. *)
SavePowChallenge(challenge) ==
  powDb' = [current |-> challenge, previous |-> IF powDb = None THEN None ELSE powDb.current]

(* An absent previous challenge is read as an empty one. *)
GetPowChallenges ==
  [current |-> powDb.current, previous |-> IF powDb.previous = None THEN Empty ELSE powDb.previous]

setupPowProviders ==
  /\ \/ /\ powDb = None
        /\ pow' = [current |-> 0, previous |-> NoVerifier]
        /\ SavePowChallenge(0)
     \/ /\ powDb # None
        /\ pow' = GetPowChallenges
        /\ UNCHANGED powDb
  /\ rotations' = 0

(* onNewProof: SetParams with the root of the proof. *)
RotatePow_ForgetsPrevious ==
  /\ up
  /\ MoreEvents
  /\ nips' = nips + 1
  /\ pow' = [current |-> nips + 1, previous |-> NoVerifier]
  /\ rotations' = rotations + 1
  /\ UNCHANGED <<now, up, crashes, keyVars, powDb, roundVars, calls>>

RotatePow ==
  /\ up
  /\ MoreEvents
  /\ nips' = nips + 1
  /\ pow' = [current |-> nips + 1, previous |-> pow.current]
  /\ rotations' = rotations + 1
  /\ UNCHANGED <<now, up, crashes, keyVars, powDb, roundVars, calls>>

(* rpc PowParams, and FindSubmitPowNonce at the caller's. *)
PowParams(c) ==
  /\ up
  /\ calls[c].pc = "idle"
  /\ calls' = [calls EXCEPT ![c].pc = "solved", ![c].params = pow.current,
                            ![c].fetchedAt = rotations]
  /\ UNCHANGED <<now, up, crashes, keyVars, powVars, roundVars>>

(* CheckLeadingZeroBits over bytes. *)
CheckLeadingZeroBits_OneBitLess(data, expected) ==
  /\ Len(data) * 8 >= expected
  /\ \A i \in 1 .. expected \div 8 : data[i] = 0
  /\ expected % 8 # 0 => data[(expected \div 8) + 1] \div 2 ^ (9 - (expected % 8)) = 0

CheckLeadingZeroBits(data, expected) ==
  /\ Len(data) * 8 >= expected
  /\ \A i \in 1 .. expected \div 8 : data[i] = 0
  /\ expected % 8 # 0 => data[(expected \div 8) + 1] \div 2 ^ (8 - (expected % 8)) = 0

(* powVerifier.Verify, for what the nonce of the request hashes to; the    *)
(* difficulty is configured and the same in all params.                    *)
Verify(req) == CheckLeadingZeroBits(req.hash, Difficulty)

(* VerifyWithParams: the params must be the ones of a verifier.  A request  *)
(* without any has an empty challenge and difficulty 0.                    *)
KnownParams(params) ==
  \/ params \in {pow.current, pow.previous} \ {NoVerifier}
  \/ params = NoParams /\ pow.previous = Empty /\ Difficulty = 0
------------------------------------------------------------------------------
(* A Submit call *)

(* An answer; a success names the round of the registration. *)
Answer(c, code) ==
  calls' = [calls EXCEPT ![c] =
    IF code = "OK"
    THEN [Idle EXCEPT !.pc = "done", !.code = code, !.req = calls[c].req,
                      !.epoch = calls[c].epoch, !.own = calls[c].own]
    ELSE [Idle EXCEPT !.pc = "done", !.code = code]]

RefuseParams(c) ==
  LET call == calls[c]
      age == IF call.params = NoParams THEN None ELSE rotations - call.fetchedAt
  IN calls' = [calls EXCEPT ![c] =
       [Idle EXCEPT !.pc = "done", !.code = "InvalidArgument", !.age = age]]

GoTo(c, pc) == calls' = [calls EXCEPT ![c].pc = pc]
OnlyCalls == UNCHANGED <<now, up, crashes, keyVars, powVars, roundVars>>

(* rpc Submit: lengths and signature. *)
Receive(c, req) ==
  /\ up
  /\ calls[c].pc \in {"idle", "solved"}
  /\ \/ /\ req.wellFormed
        /\ calls' = [calls EXCEPT ![c].pc = "verify", ![c].req = req, ![c].since = now,
                                  ![c].seen = trusted]
     \/ /\ ~req.wellFormed
        /\ Answer(c, "InvalidArgument")
  /\ OnlyCalls

NeedsPow(c) == certifier = None \/ calls[c].req.cert = None

CheckPow(c) ==
  /\ calls[c].pc = "verify"
  /\ NeedsPow(c)
  /\ \/ /\ ~KnownParams(calls[c].params)
        /\ RefuseParams(c)
     \/ /\ KnownParams(calls[c].params)
        /\ IF Verify(calls[c].req) THEN GoTo(c, "register")
           ELSE Answer(c, "InvalidArgument")
  /\ OnlyCalls

VerifyCertificate_IgnoresExpiration(cert, key, node) == cert.signer = key /\ cert.node = node

(* Signature, node and expiration. *)
VerifyCertificate(cert, key, node) ==
  /\ cert.signer = key
  /\ cert.node = node
  /\ cert.expiration # None => cert.expiration >= now

(* The certificate is verified with one of these keys, or the call refused. *)
VerifyWith(c, keys) ==
  LET req == calls[c].req
      valid == \E k \in keys : VerifyCertificate(req.cert, k, req.node)
  IN IF valid THEN GoTo(c, "register") ELSE Answer(c, "Unauthenticated")

(* verifyCert without a hint: only the configured key counts. *)
VerifyWithConfigured(c) ==
  /\ calls[c].pc = "verify"
  /\ ~NeedsPow(c)
  /\ calls[c].req.hint = None
  /\ VerifyWith(c, ConfiguredKeys)
  /\ OnlyCalls

(* verifyCert with a hint: the matching keys are read under the lock ...   *)
LookupKeys(c) ==
  /\ calls[c].pc = "verify"
  /\ ~NeedsPow(c)
  /\ calls[c].req.hint # None
  /\ reload = None
  /\ LET matchingKeys == {k \in trusted : HintOf[k] = calls[c].req.hint}
     IN IF matchingKeys = {} THEN Answer(c, "Unauthenticated")
        ELSE calls' = [calls EXCEPT ![c].pc = "check", ![c].keys = matchingKeys]
  /\ OnlyCalls

(* ... and used after it is released. *)
CheckKeys(c) ==
  /\ calls[c].pc = "check"
  /\ VerifyWith(c, calls[c].keys)
  /\ OnlyCalls

(* round.submit *)
PendingNodes == {n \in Nodes : openRound.pending[n] # None}
AtCapacity_OneMore == openRound.members + Cardinality(PendingNodes) > MaxMembers

AtCapacity == openRound.members + Cardinality(PendingNodes) >= MaxMembers
Known(node) ==
  IF openRound.pending[node] # None THEN openRound.pending[node]
  ELSE registered[openRound.epoch][node]
Put(node, challenge) == openRound' = [openRound EXCEPT !.pending[node] = challenge]

TooLate(req) == req.deadline # None /\ RoundEnd(openRound.epoch) > req.deadline

(* The deadline check and round.submit, under openRoundMutex. *)
Register(c) ==
  LET req == calls[c].req
      refuse(code) == Answer(c, code) /\ UNCHANGED openRound
  IN
  /\ calls[c].pc = "register"
  /\ IF TooLate(req) THEN refuse("FailedPrecondition")
     ELSE IF AtCapacity THEN refuse("ResourceExhausted")
     ELSE IF closed THEN refuse("Internal")
     ELSE IF Known(req.node) \notin {None, req.challenge} THEN refuse("AlreadyExists")
     ELSE /\ calls' = [calls EXCEPT ![c].epoch = openRound.epoch,
                          ![c].own = Known(req.node) = None,
                          ![c].pc = IF Known(req.node) = None THEN "wait" ELSE "stored"]
          /\ IF Known(req.node) = None THEN Put(req.node, req.challenge)
             ELSE UNCHANGED openRound
  /\ UNCHANGED <<now, up, crashes, keyVars, powVars, closed, registered>>

FlushInto_TellsNobody(written) ==
  /\ registered' = IF written
       THEN [registered EXCEPT ![openRound.epoch] =
               [n \in Nodes |-> IF n \in PendingNodes THEN openRound.pending[n] ELSE @[n]]]
       ELSE registered
  /\ UNCHANGED calls

(* flushPendingSubmitsLocked, with the result for those who wait. *)
FlushInto(written) ==
  /\ registered' = IF written
       THEN [registered EXCEPT ![openRound.epoch] =
               [n \in Nodes |-> IF n \in PendingNodes THEN openRound.pending[n] ELSE @[n]]]
       ELSE registered
  /\ calls' = [c \in Calls |->
       IF calls[c].pc = "wait"
       THEN [calls[c] EXCEPT !.pc = IF written THEN "stored" ELSE "failed"] ELSE calls[c]]

FlushBatch ==
  /\ \E written \in BOOLEAN : FlushInto(written)
  /\ openRound' = [openRound EXCEPT !.members = @ + Cardinality(PendingNodes),
                                   !.pending = NobodyPending]

Flush ==
  /\ up
  /\ PendingNodes # {}
  /\ FlushBatch
  /\ UNCHANGED <<now, up, crashes, keyVars, powVars, closed>>

(* The result of the flush answers the call, or its context ends first,    *)
(* cancelled or past its own deadline.                                     *)
AnswerSubmit(c) ==
  /\ calls[c].pc \in {"stored", "failed"}
  /\ Answer(c, IF calls[c].pc = "stored" THEN "OK" ELSE "Internal")
  /\ OnlyCalls

CancelSubmit(c) ==
  /\ calls[c].pc \in {"wait", "stored", "failed"}
  /\ calls[c].own
  /\ \E code \in {"Canceled", "Internal"} : Answer(c, code)
  /\ OnlyCalls

(* Other calls register meanwhile. *)
OtherSubmit(node, challenge) ==
  /\ up
  /\ ~AtCapacity
  /\ ~closed
  /\ Known(node) = None
  /\ Put(node, challenge)
  /\ UNCHANGED <<now, up, crashes, keyVars, powVars, closed, registered, calls>>
------------------------------------------------------------------------------
(* Rounds and the server *)

(* newRound: the round of the epoch that is open now; db is its database. *)
newRound(db) ==
  /\ openRound' = [epoch |-> OpenRoundId(now), pending |-> NobodyPending,
                   members |-> Cardinality({n \in Nodes : db[OpenRoundId(now)][n] # None})]
  /\ closed' = FALSE

closeRound_DropsBatch ==
  /\ up
  /\ now >= RoundStart(openRound.epoch)
  /\ calls' = [c \in Calls |-> IF calls[c].pc = "wait" THEN [calls[c] EXCEPT !.pc = "stored"]
                              ELSE calls[c]]
  /\ newRound(registered)
  /\ UNCHANGED <<now, up, crashes, keyVars, powVars, registered>>

(* The last flush of the round, then the next one. *)
closeRound ==
  /\ up
  /\ now >= RoundStart(openRound.epoch)
  /\ \E written \in BOOLEAN : FlushInto(written)
  /\ newRound(registered')
  /\ UNCHANGED <<now, up, crashes, keyVars, powVars>>

(* ExecuteRound or newRound fails: the closed round stays in place, and     *)
(* Run closes it once more.                                                *)
closeRoundFails ==
  /\ up
  /\ now >= RoundStart(openRound.epoch)
  /\ FlushBatch
  /\ closed' = TRUE
  /\ UNCHANGED <<now, up, crashes, keyVars, powVars>>

(* New: it fails while a trusted key file cannot be read. *)
New ==
  /\ ~up
  /\ HasKeyDir => \A f \in Files : keyDir[f] \in Keys
  /\ up' = TRUE
  /\ trusted' = ConfiguredKeys \cup {keyDir[f] : f \in IF HasKeyDir THEN Files ELSE {}}
  /\ trustedAt' = edits
  /\ setupPowProviders
  /\ newRound(registered)
  /\ UNCHANGED <<now, crashes, certifier, keyDir, edits, reload, nips, registered, calls>>

(* A caller keeps the params it has fetched; the promise of the server that *)
(* gave them out (see PowGrace) ends with it.                              *)
AfterCrash(call) ==
  CASE call.pc = "done" -> call
    [] call.pc = "solved" -> [call EXCEPT !.fetchedAt = -2]
    [] OTHER -> Idle

Crash ==
  /\ up
  /\ MoreEvents
  /\ crashes' = crashes + 1
  /\ up' = FALSE
  /\ reload' = None
  /\ calls' = [c \in Calls |-> AfterCrash(calls[c])]
  /\ UNCHANGED <<now, certifier, keyDir, edits, trusted, trustedAt, powVars, roundVars>>

Tick ==
  /\ now < MaxTime
  /\ now' = now + 1
  /\ UNCHANGED <<up, crashes, keyVars, powVars, roundVars, calls>>
------------------------------------------------------------------------------
CallStep(c) ==
  \/ CheckPow(c)
  \/ VerifyWithConfigured(c)
  \/ CheckKeys(c)
  \/ Register(c)
  \/ AnswerSubmit(c)

ReloadStep ==
  \/ \E f \in KeyFiles : ReadKeyFile(f)
  \/ InstallKeys
  \/ ReloadFails

Next ==
  \/ StartReload
  \/ ReloadStep
  \/ \E f \in KeyFiles, content \in Keys \cup {Garbage, None} : EditKeyDir(f, content)
  \/ RotatePow
  \/ \E c \in Calls : PowParams(c) \/ CallStep(c) \/ LookupKeys(c) \/ CancelSubmit(c)
  \/ \E c \in Calls, req \in Requests : Receive(c, req)
  \/ \E other \in Others : OtherSubmit(other[1], other[2])
  \/ Flush
  \/ closeRound
  \/ closeRoundFails
  \/ New
  \/ Crash
  \/ Tick

(* Handlers run, the flush timer fires, a walk over the directory ends.  A  *)
(* RWMutex lets the readers that wait for a writer in before the next      *)
(* writer, so reloads cannot keep a call out for ever.                     *)
Fairness ==
  /\ \A c \in Calls : WF_vars(CallStep(c)) /\ SF_vars(LookupKeys(c))
  /\ WF_vars(ReloadStep)
  /\ WF_vars(Flush)

Spec == Init /\ [][Next]_vars /\ Fairness
------------------------------------------------------------------------------
(* Properties *)

TypeOK ==
  /\ now \in 0 .. MaxTime
  /\ up \in BOOLEAN
  /\ keyDir \in [KeyFiles -> Keys \cup {Garbage, None}]
  /\ trusted \subseteq Keys
  /\ reload # None => reload.left \subseteq KeyFiles /\ reload.loaded \subseteq Keys
  /\ pow.current \in (0 .. MaxEvents) \cup {NoVerifier}
  /\ pow.previous \in (0 .. MaxEvents) \cup {NoVerifier, Empty}
  /\ registered \in [Epochs -> [Nodes -> Challenges \cup {None}]]
  /\ closed \in BOOLEAN
  /\ openRound.epoch \in Epochs
  /\ openRound.members \in 0 .. MaxMembers
  /\ openRound.pending \in [Nodes -> Challenges \cup {None}]
  /\ \A c \in Calls : calls[c].pc \in {"idle", "solved", "done"} \cup InProgress

(* The trusted keys are never a part of what a reload found: unless the    *)
(* directory was edited after the reload that set them had begun, they are *)
(* the configured key and all the keys in the directory, whatever reloads  *)
(* have failed half way since.                                             *)
ReloadIsComplete ==
  up /\ HasKeyDir /\ trustedAt = edits =>
    trusted = ConfiguredKeys \cup {keyDir[f] : f \in Files}

(* A node whose certificate let it register was certified: for this node,  *)
(* not expired when the call arrived, by a key that was trusted at some    *)
(* time during the call, although verifyCert uses the keys after it has    *)
(* released the lock and a reload may drop them meanwhile.                 *)
AdmittedIsCertified ==
  \A c \in Calls : LET call == calls[c] IN
    call.pc \in {"register", "wait", "stored"} /\ ~NeedsPow(c) =>
      /\ call.req.cert.node = call.req.node
      /\ call.req.cert.signer \in call.seen \cup ConfiguredKeys
      /\ call.req.cert.expiration # None => call.req.cert.expiration >= call.since

(* A caller may take its time: PoW params that were current when it asked  *)
(* for them are refused only if the server has rotated them twice since,   *)
(* or has been restarted (it does not persist the rotation).               *)
PowGrace == \A c \in Calls : calls[c].age # None => calls[c].age >= 2

(* A node that registers without a certificate has done the work: the hash  *)
(* of its nonce is below the bound the difficulty sets, to the last bit.   *)
AdmittedHasWorked ==
  \A c \in Calls : LET call == calls[c] IN
    call.pc \in {"register", "wait", "stored"} /\ NeedsPow(c) =>
      256 * call.req.hash[1] + call.req.hash[2] < 2 ^ (16 - Difficulty)

(* What a successful answer says is true: the round it names ends by the   *)
(* deadline of the request, and the challenge the call brought is stored   *)
(* in that very round, whatever rounds have closed meanwhile.  (A call that *)
(* found its challenge in the batch is answered before it is stored.)      *)
AnswerIsTrue ==
  \A c \in Calls : LET call == calls[c] IN
    call.code = "OK" =>
      /\ call.own => registered[call.epoch][call.req.node] = call.req.challenge
      /\ call.req.deadline # None => RoundEnd(call.epoch) <= call.req.deadline

(* Every call that is being handled is answered, unless the server crashes *)
(* first: a reload holds the lock no longer than its walk takes.           *)
CallAnswered ==
  \A c \in Calls : calls[c].pc \in InProgress ~> calls[c].pc \notin InProgress
==============================================================================
